------------------------------ MODULE TcpStream ------------------------------
(***************************************************************************)
(* One direction of an established TCP connection of main/tcp.c: a sender  *)
(* with its send and retransmit queues, windows and timers, a receiver     *)
(* with its reorder list and receive queue, and a network that may lose,   *)
(* duplicate and reorder what either side sends.                           *)
(*                                                                         *)
(* A byte is its position in the stream, so that a model value tells which *)
(* byte ends up where; sequence numbers are separate and wrap.  An armed   *)
(* timer may fire at any moment.  Of main/tcp_congestion.c only what it    *)
(* may do to the window, and when it asks for a retransmission, is kept.   *)
(***************************************************************************)
EXTENDS Integers, Sequences, FiniteSets, SequencesExt

CONSTANTS SeqSpace,           \* 2^32
          ISS,              \* sequence number of the stream's first byte
          Bytes,            \* bytes the application writes in all
          MSS,              \* snd_mss, without timestamps also the data limit
          SndBuf, RcvBuf,   \* send_buffer_len_max, recv_buffer_len_max
          WndUnit,          \* 2^rcv_wnd_scale
          Cwnds,            \* congestion windows, the least is one MSS
          RetriesMax,       \* retries_max
          Burst,            \* TCP_OUTPUT_BURST_MAX
          Writes, Reads,    \* lengths of the application's calls
          AckLag            \* the newest ACKs that the network may still deliver

ASSUME TcpAssumption ==
  /\ SeqSpace \in Nat /\ ISS \in 0..(SeqSpace - 1)
  /\ {Bytes, MSS, SndBuf, RcvBuf, WndUnit, RetriesMax, Burst, AckLag} \subseteq Nat \ {0}
  /\ Cwnds \subseteq {c \in Nat : c >= MSS} /\ MSS \in Cwnds
  /\ Writes \cup Reads \subseteq Nat \ {0}
  /\ 4 * (Bytes + RcvBuf + 1) <= SeqSpace

VARIABLES snd,              \* the sender's tcp_pcb and socket, and every
                            \* segment it ever put on the wire
          rcv               \* the receiver's, and the last AckLag ACKs it sent

vars == <<snd, rcv>>

-----------------------------------------------------------------------------
(* tcp.h: SEQ_LT and its kin are signed differences. *)
Add(a, n) == (a + n) % SeqSpace
Diff(a, b) == ((a - b + SeqSpace \div 2) % SeqSpace) - SeqSpace \div 2
SEQ_LT(a, b) == Diff(a, b) < 0
SEQ_LEQ(a, b) == Diff(a, b) <= 0
SEQ_GT(a, b) == Diff(a, b) > 0
SEQ_GEQ(a, b) == Diff(a, b) >= 0

Least(a, b) == IF a < b THEN a ELSE b
One(b) == IF b THEN 1 ELSE 0

(* An skb of the TCP queues, and a segment on the wire. *)
tcp_skb_seq_len(k) == Len(k.data) + One(k.fin)
skb_consume(k, n) == [k EXCEPT !.data = SubSeq(@, n + 1, Len(@))]
skb_truncate(k, n) == [k EXCEPT !.data = SubSeq(@, 1, n)]

tcp_encode_window(w) == w \div WndUnit
tcp_decode_window(w) == w * WndUnit

NewSender ==
  [una |-> ISS, nxt |-> ISS, end |-> ISS, wnd |-> RcvBuf, wl2 |-> ISS,
   cwnd |-> CHOOSE c \in Cwnds : \A d \in Cwnds : d <= c,
   state |-> "ESTABLISHED", close_send |-> FALSE, buf |-> 0, written |-> 0,
   queue |-> <<>>, rtx |-> <<>>, timers |-> {}, retries |-> 0, wire |-> {}]

NewReceiver ==
  [nxt |-> ISS, wnd |-> RcvBuf, unordered |-> <<>>, queue |-> <<>>, read |-> <<>>,
   fin |-> FALSE, ack_timer |-> FALSE, twice |-> FALSE, wire |-> <<>>]

Init == snd = NewSender /\ rcv = NewReceiver

-----------------------------------------------------------------------------
(* Timers and windows of the sender s. *)

Start(s, t) == [s EXCEPT !.timers = @ \cup {t}]
Stop(s, t) == [s EXCEPT !.timers = @ \ {t}]

Limit(s) == Least(s.wnd, s.cwnd)
Sendable(s, limit) == s.queue # <<>> /\ limit # 0 /\ SEQ_LT(s.nxt, Add(s.una, limit))

tcp_arm_persist(s) ==
  IF s.wnd = 0 /\ (s.rtx # <<>> \/ s.queue # <<>>) THEN Start(s, "persist") ELSE s

tcp_send_window_update(s, old_limit) ==
  IF old_limit = Limit(s) THEN s
  ELSE LET s1 == IF s.rtx = <<>> \/ Limit(s) = 0 THEN Stop(s, "rto") ELSE Start(s, "rto")
       IN IF Sendable(s, Limit(s)) THEN Start(s1, "nagle") ELSE Stop(s1, "nagle")

(* Mutation: a closing window does not start the persist timer. *)
WinChangeNoPersist(s, w) ==
  IF s.wnd = w THEN s
  ELSE LET s1 == IF w # 0 /\ s.wnd = 0 THEN Stop(s, "persist") ELSE s
           s2 == [s1 EXCEPT !.wnd = w, !.retries = IF w = 0 \/ s.wnd = 0 THEN 0 ELSE @]
       IN tcp_send_window_update(s2, Limit(s))

tcp_snd_win_change(s, w) ==
  IF s.wnd = w THEN s
  ELSE LET s1 == IF w # 0 /\ s.wnd = 0 THEN Stop(s, "persist") ELSE s
           s2 == [s1 EXCEPT !.wnd = w, !.retries = IF w = 0 \/ s.wnd = 0 THEN 0 ELSE @]
       IN tcp_arm_persist(tcp_send_window_update(s2, Limit(s)))

tcp_snd_cwnd_change(s, c) == tcp_send_window_update([s EXCEPT !.cwnd = c], Limit(s))

(* tcp_congestion.c: ssthresh is at least two segments, so that only a     *)
(* timeout brings cwnd down to one.  The second component of a result says *)
(* whether the first unacknowledged skb is to be sent again at once.       *)
LargeCwnds == {c \in Cwnds : c >= 2 * MSS}
tcp_congestion_on_ack(s) == ({s.cwnd} \cup LargeCwnds) \X BOOLEAN
tcp_congestion_on_duplicate_ack(s) == {<<s.cwnd, FALSE>>} \cup (LargeCwnds \X BOOLEAN)
tcp_congestion_on_timeout(s) == tcp_snd_cwnd_change(s, MSS)

-----------------------------------------------------------------------------
(* Output. *)

(* Small segments without FIN are merged into the last entry. *)
tcp_retransmit_enqueue(s, k) ==
  IF tcp_skb_seq_len(k) = 0 THEN s
  ELSE IF /\ s.rtx # <<>> /\ ~ k.fin /\ ~ Last(s.rtx).fin
          /\ Len(k.data) <= MSS \div 3
          /\ Len(Last(s.rtx).data) + Len(k.data) <= MSS
       THEN [s EXCEPT !.rtx[Len(s.rtx)].data = @ \o k.data]
       ELSE [s EXCEPT !.rtx = Append(@, k)]

(* What a clone of k cut to budget carries. *)
tcp_xmit_segment(k, budget) ==
  [skb_truncate(k, Least(Len(k.data), budget)) EXCEPT !.fin = k.fin /\ budget > Len(k.data)]

(* The first skb of send_queue goes out, cut to budget.  The tail may not  *)
(* be allocated ("nosplit"), the output may fail ("nosend").               *)
tcp_xmit_new_skb(s, budget, result) ==
  LET k == Head(s.queue)
      head == tcp_xmit_segment(k, budget)
      len == tcp_skb_seq_len(head)
      tail == [skb_consume(k, Len(head.data)) EXCEPT !.seq = Add(k.seq, len)]
      rest == IF len < tcp_skb_seq_len(k) THEN <<tail>> \o Tail(s.queue) ELSE Tail(s.queue)
  IN CASE result = "nosplit" /\ len < tcp_skb_seq_len(k) -> Start(s, "nagle")
       [] result = "nosend" -> Start([s EXCEPT !.queue = <<head>> \o rest], "nagle")
       [] OTHER ->
            tcp_retransmit_enqueue(
              Start([s EXCEPT !.queue = rest, !.nxt = Add(@, len), !.wire = @ \cup {head},
                              !.state = IF head.fin /\ @ = "ESTABLISHED"
                                        THEN "FIN_WAIT_1" ELSE @], "rto"),
              head)

(* What goes wrong in a loop: nothing, or one turn of it fails. *)
Faults == {[turn |-> 0, result |-> "sent"]}
            \cup [turn : 1..Burst, result : {"nosplit", "nosend"}]

(* The loop over send_queue. *)
tcp_write_xmit(s0, flush_partial, cork, fault) ==
  LET Turn(a, i) ==
        LET s == a.s
            k == Head(s.queue)
            window_end == Add(s.una, Limit(s))
            s1 == tcp_xmit_new_skb(s, Diff(window_end, k.seq),
                                   IF i = fault.turn THEN fault.result ELSE "sent")
        IN IF ~ a.go \/ s.queue = <<>> THEN a
           ELSE IF Limit(s) = 0 \/ SEQ_GEQ(k.seq, window_end)
             THEN [s |-> tcp_arm_persist(s), go |-> FALSE]
           ELSE IF cork /\ ~ flush_partial /\ ~ k.fin /\ Len(s.queue) = 1 /\ Len(k.data) < MSS
             THEN [s |-> Start(s, "nagle"), go |-> FALSE]
           ELSE IF s1.nxt = s.nxt
             THEN [s |-> s1, go |-> FALSE]
           ELSE IF i = Burst /\ s1.queue # <<>>
             THEN [s |-> Start(s1, "nagle"), go |-> FALSE]
           ELSE [s |-> s1, go |-> TRUE]
  IN FoldLeft(Turn, [s |-> s0, go |-> TRUE], [i \in 1..Burst |-> i]).s

(* k again, cut to the window, or one byte of it as a probe. *)
tcp_retransmit_skb(s, k, probe) ==
  LET window_end == Add(s.una, Limit(s))
      budget == IF probe THEN 1 ELSE Diff(window_end, k.seq)
  IN IF ~ probe /\ (Limit(s) = 0 \/ SEQ_GEQ(k.seq, window_end)) THEN s
     ELSE [s EXCEPT !.wire = @ \cup {tcp_xmit_segment(k, budget)}]

tcp_send_probe(s, result) ==
  IF s.rtx # <<>> THEN tcp_retransmit_skb(s, Head(s.rtx), TRUE)
                  ELSE tcp_xmit_new_skb(s, 1, result)

tcp_retransmit_now(s) == Start(tcp_retransmit_skb(s, Head(s.rtx), FALSE), "rto")

-----------------------------------------------------------------------------
(* The application writes, and shuts the sending side down. *)

(* The loop of tcp_write(): len bytes go into the last skb or into new      *)
(* ones, of which the allocation numbered bad fails.                        *)
AppendData(s0, len, bad) ==
  LET Turn(a, i) ==
        LET s == a.s
            chunk == Least(len - (s.written - s0.written), MSS)
            data == [j \in 1..chunk |-> s.written + j]
            fits == s.queue # <<>> /\ Len(Last(s.queue).data) + chunk <= MSS
            s1 == IF fits
                  THEN [s EXCEPT !.queue[Len(s.queue)].data = @ \o data]
                  ELSE [s EXCEPT !.queue = Append(@, [seq |-> s.end, data |-> data, fin |-> FALSE])]
        IN IF ~ a.go \/ chunk = 0 THEN a
           ELSE IF ~ fits /\ i = bad THEN [a EXCEPT !.go = FALSE]
           ELSE [a EXCEPT !.s = [s1 EXCEPT !.end = Add(@, chunk), !.buf = @ + chunk,
                                           !.written = @ + chunk]]
  IN FoldLeft(Turn, [s |-> s0, go |-> TRUE], [i \in 1..len |-> i]).s

tcp_write ==
  /\ snd.state = "ESTABLISHED" /\ ~ snd.close_send /\ snd.buf < SndBuf
  /\ \E want \in Writes, noskb \in {0, 2} :
       LET s == AppendData(snd, Least(want, SndBuf - snd.buf), noskb)
       IN /\ s # snd /\ s.written <= Bytes
          /\ IF Len(Head(s.queue).data) >= MSS \/ Len(s.queue) > 1
             THEN \E cork \in BOOLEAN, fault \in Faults :
                    snd' = tcp_write_xmit(s, FALSE, cork, fault)
             ELSE snd' = Start(s, "nagle")
  /\ UNCHANGED rcv

(* tcp_shutdown(SHUT_WR) and tcp_send_fin().  Without an skb for the FIN   *)
(* the connection stays half-shut.                                         *)
tcp_shutdown ==
  /\ snd.state = "ESTABLISHED" /\ ~ snd.close_send
  /\ \E alloc \in BOOLEAN :
       LET s == [snd EXCEPT !.close_send = TRUE]
       IN snd' = IF s.queue # <<>>
                 THEN Start([s EXCEPT !.queue[Len(s.queue)].fin = TRUE, !.end = Add(@, 1)], "nagle")
                 ELSE IF ~ alloc THEN s
                 ELSE Start([s EXCEPT !.queue = <<[seq |-> s.end, data |-> <<>>, fin |-> TRUE]>>,
                                      !.end = Add(@, 1)], "nagle")
  /\ UNCHANGED rcv

-----------------------------------------------------------------------------
(* The sender's timers: tcp_timer_cb(). *)

(* destroy_tcp_socket() for a socket whose fd is still open: the state and  *)
(* the error are set, queues and timers stay.                              *)
destroy_tcp_socket(s) == [s EXCEPT !.state = "CLOSED"]

nagle_timer ==
  /\ "nagle" \in snd.timers
  /\ LET s == Stop(snd, "nagle")
     IN IF s.queue = <<>> THEN snd' = s
        ELSE \E fault \in Faults : snd' = tcp_write_xmit(s, TRUE, FALSE, fault)
  /\ UNCHANGED rcv

retransmit_timer ==
  /\ "rto" \in snd.timers
  /\ LET s == Stop(snd, "rto")
         s1 == tcp_congestion_on_timeout([s EXCEPT !.retries = @ + 1])
     IN snd' = IF s.rtx = <<>> THEN s
               ELSE IF s.retries >= RetriesMax THEN destroy_tcp_socket(s)
               ELSE tcp_retransmit_skb(Start(s1, "rto"), Head(s1.rtx), FALSE)
  /\ UNCHANGED rcv

persist_timer ==
  /\ "persist" \in snd.timers
  /\ \E result \in {"sent", "nosplit", "nosend"} :
       LET s == Stop(snd, "persist")
           s1 == Start([s EXCEPT !.retries = @ + 1], "persist")
       IN snd' = IF s.wnd # 0 \/ (s.rtx = <<>> /\ s.queue = <<>>) THEN s
                 ELSE IF s.retries >= RetriesMax THEN destroy_tcp_socket(s)
                 ELSE tcp_send_probe(s1, result)
  /\ UNCHANGED rcv

-----------------------------------------------------------------------------
(* The sender's input: an ACK arrives. *)

(* Mutation: a partly acknowledged entry keeps its sequence number. *)
UpdateQueueStaleSeq(s) ==
  LET Keep(kept, k) ==
        IF kept # <<>> THEN Append(kept, k)
        ELSE IF SEQ_LEQ(s.una, k.seq) THEN <<k>>
        ELSE IF SEQ_GEQ(s.una, Add(k.seq, tcp_skb_seq_len(k))) THEN <<>>
        ELSE <<skb_consume(k, Diff(s.una, k.seq))>>
      Size(q) == FoldLeft(LAMBDA n, k : n + Len(k.data), 0, q)
      rtx == FoldLeft(Keep, <<>>, s.rtx)
      s1 == [s EXCEPT !.rtx = rtx, !.buf = @ - (Size(s.rtx) - Size(rtx)), !.retries = 0]
  IN IF rtx = <<>> THEN Stop(s1, "rto") ELSE Start(Start(s1, "rto"), "nagle")

(* snd_una has moved: whole entries leave the queue, one may be cut. *)
tcp_update_retransmit_queue(s) ==
  LET Keep(kept, k) ==
        IF kept # <<>> THEN Append(kept, k)
        ELSE IF SEQ_LEQ(s.una, k.seq) THEN <<k>>
        ELSE IF SEQ_GEQ(s.una, Add(k.seq, tcp_skb_seq_len(k))) THEN <<>>
        ELSE <<[skb_consume(k, Diff(s.una, k.seq)) EXCEPT !.seq = s.una]>>
      Size(q) == FoldLeft(LAMBDA n, k : n + Len(k.data), 0, q)
      rtx == FoldLeft(Keep, <<>>, s.rtx)
      s1 == [s EXCEPT !.rtx = rtx, !.buf = @ - (Size(s.rtx) - Size(rtx)), !.retries = 0]
      s2 == IF Sendable(s1, Limit(s1)) THEN Start(s1, "nagle") ELSE s1
  IN IF rtx = s.rtx THEN (IF rtx = <<>> THEN Stop(s, "rto") ELSE s)
     ELSE IF rtx = <<>> THEN Stop(s2, "rto") ELSE Start(s2, "rto")

(* The window is taken from an ACK that is not older than the last one used. *)
UpdateWindow(s, a) ==
  IF SEQ_LEQ(s.wl2, a.ack)
  THEN [tcp_snd_win_change(s, tcp_decode_window(a.wnd)) EXCEPT !.wl2 = a.ack]
  ELSE s

NewAck(a) ==
  LET s == UpdateWindow(tcp_update_retransmit_queue([snd EXCEPT !.una = a.ack]), a)
  IN \E ca \in tcp_congestion_on_ack(s) :
       LET s1 == tcp_snd_cwnd_change(s, ca[1])
           s2 == IF ca[2] THEN tcp_retransmit_now(s1) ELSE s1
       IN /\ ca[2] => s.una # s.nxt        \* not yet all of the recovery
          /\ snd' = IF s2.state = "FIN_WAIT_1" /\ s2.una = s2.end
                    THEN [s2 EXCEPT !.state = "FIN_WAIT_2"] ELSE s2

(* An ACK that changes no window while data is outstanding may be counted. *)
DuplicateAck(a) ==
  LET s == UpdateWindow(snd, a)
  IN \/ snd' = s
     \/ /\ s.wnd = snd.wnd /\ SEQ_GT(s.nxt, s.una)
        /\ \E ca \in tcp_congestion_on_duplicate_ack(s) :
             LET s1 == tcp_snd_cwnd_change(s, ca[1])
             IN snd' = IF ca[2] THEN tcp_retransmit_now(s1) ELSE s1

ack_input(a) ==
  /\ snd.state # "CLOSED"
  /\ SEQ_LEQ(Add(snd.una, - snd.wnd), a.ack) /\ SEQ_LEQ(a.ack, snd.nxt)
  /\ IF SEQ_LT(snd.una, a.ack) THEN NewAck(a) ELSE DuplicateAck(a)
  /\ UNCHANGED rcv

-----------------------------------------------------------------------------
(* The receiver. *)

Acceptable(r, seq, len) ==
  LET InWindow(x) == SEQ_LEQ(r.nxt, x) /\ SEQ_LT(x, Add(r.nxt, r.wnd))
  IN r.wnd # 0 /\ (InWindow(seq) \/ InWindow(Add(seq, len - 1)))

Usable(q) == IF RcvBuf > Len(q) THEN RcvBuf - Len(q) ELSE 0

(* Mutation: the loop does not stop at a gap. *)
DeliverAll(r) ==
  LET Turn(a, it) ==
        LET overlap == IF SEQ_GT(it.seq, a.nxt) THEN 0 ELSE Diff(a.nxt, it.seq) IN
        IF overlap >= Len(it.data) THEN a
        ELSE LET data == skb_consume(it, overlap).data
             IN [a EXCEPT !.queue = @ \o data, !.nxt = Add(@, Len(data))]
  IN FoldLeft(Turn, [r EXCEPT !.unordered = <<>>], r.unordered)

(* The in-order prefix of the reorder list goes to the receive queue. *)
Deliver(r) ==
  LET Turn(a, it) ==
        LET overlap == Diff(a.nxt, it.seq) IN
        IF a.unordered # <<>> \/ SEQ_GT(it.seq, a.nxt)
        THEN [a EXCEPT !.unordered = Append(@, it)]
        ELSE IF overlap >= Len(it.data) THEN a
        ELSE LET data == skb_consume(it, overlap).data
             IN [a EXCEPT !.queue = @ \o data, !.nxt = Add(@, Len(data))]
  IN FoldLeft(Turn, [r EXCEPT !.unordered = <<>>], r.unordered)

(* Mutation: out-of-order data takes window away. *)
RecvDataCounted(r, k) ==
  LET before == Len(SelectSeq(r.unordered, LAMBDA it : SEQ_LT(it.seq, k.seq)))
      r1 == Deliver([r EXCEPT !.unordered = InsertAt(@, before + 1, k)])
      held == FoldLeft(LAMBDA n, it : n + Len(it.data), 0, r1.unordered)
      free == Usable(r1.queue)
  IN IF SEQ_LEQ(Add(k.seq, Len(k.data)), r.nxt)
        \/ \E i \in DOMAIN r.unordered : r.unordered[i].seq = k.seq
     THEN r
     ELSE [r1 EXCEPT !.wnd = free - Least(free, held), !.ack_timer = TRUE]

(* The two trims leave k.seq as it came, so that Deliver trims a segment   *)
(* with an old prefix once more; twice remembers that this cut new bytes.  *)
tcp_recv_data(r, k) ==
  LET old == IF SEQ_LT(k.seq, r.nxt) THEN Diff(r.nxt, k.seq) ELSE 0
      fresh == skb_consume(k, old)
      beyond == Diff(Add(Add(k.seq, old), Len(fresh.data)), Add(r.nxt, r.wnd))
      k1 == IF beyond > 0 THEN skb_truncate(fresh, Len(fresh.data) - beyond) ELSE fresh
      before == Len(SelectSeq(r.unordered, LAMBDA it : SEQ_LT(it.seq, k.seq)))
      r1 == Deliver([r EXCEPT !.unordered = InsertAt(@, before + 1, k1),
                              !.twice = @ \/ (0 < old /\ old < Len(k1.data))])
  IN IF \/ old >= Len(k.data) \/ beyond >= Len(fresh.data)
        \/ \E i \in DOMAIN r.unordered : r.unordered[i].seq = k.seq
     THEN r
     ELSE [r1 EXCEPT !.wnd = Usable(r1.queue), !.ack_timer = TRUE]

(* tcp_input() of a data segment: test, data, FIN. *)
segment_input(k) ==
  LET r1 == IF k.data # <<>> /\ ~ rcv.fin THEN tcp_recv_data(rcv, k) ELSE rcv
  IN /\ UNCHANGED snd
     /\ rcv' = IF ~ Acceptable(rcv, k.seq, tcp_skb_seq_len(k)) THEN [rcv EXCEPT !.ack_timer = TRUE]
               ELSE IF k.fin /\ Add(k.seq, Len(k.data)) = r1.nxt
               THEN [r1 EXCEPT !.nxt = Add(@, 1), !.fin = TRUE, !.ack_timer = TRUE]
               ELSE r1

(* The ACK timer: tcp_send_flag(ACK) with the window as it is encoded.     *)
(* ACKs older than the last AckLag are lost.                               *)
ack_timer ==
  /\ rcv.ack_timer
  /\ LET ack == [ack |-> rcv.nxt, wnd |-> tcp_encode_window(rcv.wnd)]
         sent == Append(SelectSeq(rcv.wire, LAMBDA a : a # ack), ack)
     IN rcv' = [rcv EXCEPT !.ack_timer = FALSE,
                           !.wire = SubSeq(sent, Len(sent) - Least(Len(sent), AckLag) + 1, Len(sent))]
  /\ UNCHANGED snd

(* tcp_read() of at most len bytes; a wider window is announced. *)
tcp_read(len) ==
  /\ rcv.queue # <<>>
  /\ LET n == Least(len, Len(rcv.queue))
         q == SubSeq(rcv.queue, n + 1, Len(rcv.queue))
     IN rcv' = [rcv EXCEPT !.read = @ \o SubSeq(rcv.queue, 1, n), !.queue = q,
                           !.wnd = Usable(q), !.ack_timer = @ \/ Usable(q) > rcv.wnd]
  /\ UNCHANGED snd

-----------------------------------------------------------------------------
(* What is on a wire may arrive at any time, any number of times or never. *)
Next ==
  \/ tcp_write \/ tcp_shutdown
  \/ nagle_timer \/ retransmit_timer \/ persist_timer
  \/ \E i \in DOMAIN rcv.wire : ack_input(rcv.wire[i])
  \/ \E k \in snd.wire : segment_input(k)
  \/ ack_timer
  \/ \E len \in Reads : tcp_read(len)

Spec == Init /\ [][Next]_vars

-----------------------------------------------------------------------------
SeqNo == 0..(SeqSpace - 1)
Skb == [seq : SeqNo, data : Seq(1..Bytes), fin : BOOLEAN]

(* Sequence numbers stay in their space, the buffers within their limits   *)
(* and the retries within retries_max.                                     *)
TypeOK ==
  /\ snd \in [una : SeqNo, nxt : SeqNo, end : SeqNo, wnd : 0..RcvBuf, wl2 : SeqNo,
              cwnd : Cwnds, state : {"ESTABLISHED", "FIN_WAIT_1", "FIN_WAIT_2", "CLOSED"},
              close_send : BOOLEAN, buf : 0..SndBuf, written : 0..Bytes,
              queue : Seq(Skb), rtx : Seq(Skb), timers : SUBSET {"nagle", "rto", "persist"},
              retries : 0..RetriesMax, wire : SUBSET Skb]
  /\ rcv \in [nxt : SeqNo, wnd : 0..RcvBuf, unordered : Seq(Skb), queue : Seq(1..Bytes),
              read : Seq(1..Bytes), fin : BOOLEAN, ack_timer : BOOLEAN,
              twice : BOOLEAN, wire : Seq([ack : SeqNo, wnd : 0..RcvBuf])]

(* The skbs of q carry, without gap or overlap, the stream from from up to *)
(* to; a FIN is only at its end.                                           *)
Tiles(q, from, to) ==
  LET After(k) == Add(k.seq, tcp_skb_seq_len(k))
  IN /\ \A i \in DOMAIN q :
          /\ q[i].seq = (IF i = 1 THEN from ELSE After(q[i - 1]))
          /\ tcp_skb_seq_len(q[i]) > 0
          /\ q[i].fin => After(q[i]) = snd.end
          /\ \A j \in DOMAIN q[i].data : Add(q[i].seq, j) = Add(ISS, q[i].data[j])
     /\ to = (IF q = <<>> THEN from ELSE After(Last(q)))

(* Everything not yet acknowledged is kept, in order and once: what was    *)
(* sent in retransmit_queue, the rest in send_queue (splits, merges,       *)
(* partial ACKs and failed outputs included), and send_buffer_len is its   *)
(* size.  This is the assertion of tcp_retransmit_enqueue(), and more.     *)
SenderCovers ==
  /\ TypeOK
  /\ Tiles(snd.rtx, snd.una, snd.nxt)
  /\ Tiles(snd.queue, snd.nxt, snd.end)
  /\ snd.buf = FoldLeft(LAMBDA n, k : n + Len(k.data), 0, snd.rtx \o snd.queue)

(* While something is unacknowledged or unsent some timer is armed, whatever *)
(* the windows do: the connection can neither stall nor forget its tail.     *)
SenderAlive ==
  snd.state # "CLOSED" /\ snd.una # snd.end => snd.timers # {}

Received == rcv.read \o rcv.queue

(* tcp.c:249 "Trim data before rcv_nxt (retransmitted/overlapping prefix)": *)
(* what is received is a prefix of what was sent.                           *)
OverlapTrimmed == Received = [i \in 1..Len(Received) |-> i]

(* tcp_read() returns 0, end of file, only after the last byte and only    *)
(* when the sender has shut down.                                          *)
EofExact ==
  rcv.fin => /\ snd.close_send /\ Len(Received) = snd.written
             /\ rcv.unordered = <<>>

(* The application reads a prefix of what the other one wrote, in spite of *)
(* loss, duplication, reordering, merging and sequence wraparound, as long *)
(* as no segment was trimmed twice (tcp_recv_data); and it reads end of    *)
(* file after all of it.                                                   *)
StreamPrefix == (rcv.twice \/ OverlapTrimmed) /\ EofExact

(* "RCV.NXT + RCV.WND must not decrease" (the RFC text kept in tcp_input): *)
(* the receiver never takes window back.                                   *)
EdgeNeverRecedes ==
  [][SEQ_LEQ(Add(rcv.nxt, rcv.wnd), Add(rcv.nxt', rcv.wnd'))]_vars
=============================================================================
