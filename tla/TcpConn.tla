------------------------------ MODULE TcpConn --------------------------------
(***************************************************************************)
(* The life of TCP connections in main/tcp.c: listen, backlog and accept,  *)
(* active and simultaneous open, connect() with its failures and retries,  *)
(* shutdown, close with and without linger, orphans, TIME_WAIT, resets,    *)
(* ICMP errors, keepalive and the timers that drive all of it.             *)
(*                                                                         *)
(* Every client is a host of its own with one socket; one more host has a  *)
(* listener.  Segments may be lost, duplicated and reordered; they carry   *)
(* no data (TcpStream has that half), so that SYN and FIN are all that     *)
(* takes sequence numbers and no window is ever full.  An armed timer may  *)
(* fire at any moment, which covers every order of the deadlines.          *)
(***************************************************************************)
EXTENDS Integers, Sequences, FiniteSets, SequencesExt

CONSTANTS Clients,            \* sockets that connect, each one its own address
          Srv,                \* the address that is listened on
          Kids,               \* sockets the listener may create, a sequence
          Nobody,             \* no address
          Targets,            \* Targets[c]: addresses c connects to
          Backlog,            \* backlog
          Wnd,                \* receive window of everybody
          KeepaliveMax,       \* keepalive_repeat_max
          Scenarios           \* who takes part (who), who has SO_KEEPALIVE (keep),
                              \* the SO_LINGER settings in use (linger); bounds:
                              \* how many calls, copies of segments and faults
                              \* (no memory, no route, ICMP errors) in all,
                              \* retransmissions of a segment (retries), and
                              \* segments under way (wire), those above are lost

VARIABLES sk,                 \* sk[s]: the Socket and its tcp_pcb
          lis,                \* the listener's
          net,                \* segments under way
          left                \* what remains of the scenario's bounds

vars == <<sk, lis, net, left>>

RetryMax == left.retries       \* TCP_CONNECT_RETRY_MAX
RetriesMax == left.retries     \* TCP_RETRIES2_DEFAULT
OrphanRetries == left.retries  \* TCP_ORPHAN_RETRIES_DEFAULT

KidSet == Range(Kids)
Socks == Clients \cup KidSet

(* get_current_time_ms() % 65535: here 0 for a client, and far enough      *)
(* apart for the children that segments of two are told apart.             *)
ISS(s) == IF s \in Clients THEN 0 ELSE 10 * CHOOSE i \in DOMAIN Kids : Kids[i] = s

(* What a segment's flags are called here. *)
HasSyn == {"SYN", "SYNACK"}
HasAck == {"SYNACK", "ACK", "FIN", "RSTACK"}
HasRst == {"RST", "RSTACK"}
SegLen(g) == IF g.fl \in HasSyn \cup {"FIN"} THEN 1 ELSE 0

Handshake == {"SYN_SENT", "SYN_RECEIVED"}
Synchronized == {"ESTABLISHED", "FIN_WAIT_1", "FIN_WAIT_2", "CLOSE_WAIT",
                 "CLOSING", "LAST_ACK", "TIME_WAIT"}

tcp_pcb_init(s) ==
  [st |-> "CLOSED", local |-> IF s \in Clients THEN s ELSE Srv, remote |-> Nobody,
   fd |-> s \in Clients, conn |-> FALSE, tup |-> FALSE, err |-> FALSE, parent |-> FALSE,
   una |-> ISS(s), nxt |-> ISS(s), end |-> ISS(s), rcv |-> 0, rtx |-> <<>>,
   queued |-> FALSE,          \* the FIN is in send_queue
   timers |-> {}, tries |-> 0, retries |-> 0, max |-> RetriesMax, probes |-> 0,
   shut |-> FALSE,            \* close_send
   call |-> "none",           \* the call that waits: connect, or close with linger
   event |-> FALSE,           \* pending_task is to run for it
   starved |-> FALSE]         \* ghost: no memory for its SYN-ACK or its FIN

Unborn(s) == [tcp_pcb_init(s) EXCEPT !.st = "UNBORN"]
Freed(s) == [tcp_pcb_init(s) EXCEPT !.st = "FREED", !.fd = FALSE]
Exists(s) == sk[s].st \notin {"UNBORN", "FREED"}

NewListener == [st |-> "LISTEN", syn |-> <<>>, acc |-> <<>>, syn_num |-> 0, acc_num |-> 0,
                call |-> FALSE, event |-> FALSE]

Init ==
  /\ left \in Scenarios
  /\ sk = [s \in Socks |-> IF s \in left.who THEN tcp_pcb_init(s)
                          ELSE IF s \in Clients THEN Freed(s) ELSE Unborn(s)]
  /\ lis = NewListener
  /\ net = {}

-----------------------------------------------------------------------------
(* A handler takes the world w, all sockets and the network, to another.   *)

World == [sk |-> sk, lis |-> lis, net |-> net]

Carry(w, g) == IF Cardinality(w.net \cup {g}) <= left.wire
               THEN [w EXCEPT !.net = @ \cup {g}] ELSE w

Put(w, s, r) == [w EXCEPT !.sk[s] = r]
Start(w, s, t) == [w EXCEPT !.sk[s].timers = @ \cup {t}]
Stop(w, s, t) == [w EXCEPT !.sk[s].timers = @ \ {t}]

socket_notify_event(w, s) ==
  IF w.sk[s].call = "connect" THEN [w EXCEPT !.sk[s].event = TRUE] ELSE w

tcp_complete_linger(w, s) ==
  IF w.sk[s].call = "close" THEN [w EXCEPT !.sk[s].call = "none"] ELSE w

(* The parts of tcp_send_flag() and tcp_xmit_segment() that all share: what *)
(* has no destination is sent nowhere, an ACK stops the ACK timer.          *)
Send(w, s, fl, seq, ack) ==
  LET r == w.sk[s]
      g == [src |-> r.local, dst |-> r.remote, fl |-> fl, seq |-> seq, ack |-> ack]
      w1 == IF r.remote = Nobody THEN w ELSE Carry(w, g)
  IN IF fl \in HasAck THEN Stop(w1, s, "ack") ELSE w1

(* tcp_send_flag() of a SYN: it is kept for retransmission. *)
tcp_send_flag_syn(w, s, fl, ack) ==
  LET r == w.sk[s]
      r1 == [r EXCEPT !.rtx = Append(@, [fl |-> fl, seq |-> r.nxt]),
                      !.nxt = @ + 1, !.end = @ + 1]
  IN Send(Start(Put(w, s, r1), s, "rto"), s, fl, r.nxt, ack)

tcp_reply_rst(w, s, g) ==
  IF g.fl \in HasRst THEN w
  ELSE IF g.fl \in HasAck THEN Send(w, s, "RST", g.ack, 0)
  ELSE Send(w, s, "RSTACK", 0, g.seq + SegLen(g))

(* Mutant: the count is left as it was. *)
clear_associated_socket_keeps_count(w, k) ==
  LET l == w.lis
      Without(q) == SelectSeq(q, LAMBDA x : x # k)
  IN IF ~ w.sk[k].parent THEN w
     ELSE IF k \in Range(l.syn) THEN [w EXCEPT !.lis.syn = Without(@)]
     ELSE [w EXCEPT !.lis.acc = Without(@)]

(* A child leaves the list it is in. *)
clear_associated_socket(w, k) ==
  LET l == w.lis
      Without(q) == SelectSeq(q, LAMBDA x : x # k)
  IN IF ~ w.sk[k].parent THEN w
     ELSE IF k \in Range(l.syn)
       THEN [w EXCEPT !.lis.syn = Without(@), !.lis.syn_num = @ - 1]
     ELSE IF k \in Range(l.acc)
       THEN [w EXCEPT !.lis.acc = Without(@), !.lis.acc_num = @ - 1]
     ELSE w

(* A socket that a user holds only changes its state; another one goes     *)
(* away, its timers and its tuple with it.                                 *)
destroy_tcp_socket(w, s) ==
  LET w1 == [w EXCEPT !.sk[s].st = "CLOSED"]
  IN IF w.sk[s].fd THEN socket_notify_event(w1, s)
     ELSE Put(clear_associated_socket(tcp_complete_linger(w1, s), s), s, Freed(s))

(* sock->error: which of the error numbers makes no difference here. *)
WithError(w, s) == [w EXCEPT !.sk[s].err = TRUE]
Fail(w, s) == destroy_tcp_socket(WithError(w, s), s)

tcp_update_retransmit_queue(w, s) ==
  LET r == w.sk[s]
      rest == SelectSeq(r.rtx, LAMBDA e : e.seq >= r.una)
      w1 == Put(w, s, [r EXCEPT !.rtx = rest, !.retries = IF rest = r.rtx THEN @ ELSE 0])
  IN IF rest = <<>> THEN Stop(w1, s, "rto") ELSE IF rest = r.rtx THEN w1 ELSE Start(w1, s, "rto")

KeepaliveStart(w, s) ==
  IF s \in left.keep THEN Start([w EXCEPT !.sk[s].probes = 0], s, "keepalive") ELSE w

-----------------------------------------------------------------------------
(* tcp_process_syn_sent().  A reset is not the end of the handler. *)
SynSentAck(w, s, g) ==
  LET w1 == [w EXCEPT !.sk[s].una = g.ack, !.sk[s].st = "ESTABLISHED", !.sk[s].rcv = g.seq + 1]
      w2 == KeepaliveStart(tcp_update_retransmit_queue(w1, s), s)
  IN Start(socket_notify_event(w2, s), s, "ack")

(* A SYN crosses ours: it is answered by making our SYN a SYN-ACK and      *)
(* sending that again at once.                                             *)
SimultaneousOpen(w, s, g) ==
  Start([w EXCEPT !.sk[s].rcv = g.seq + 1, !.sk[s].st = "SYN_RECEIVED",
                  !.sk[s].rtx[1].fl = "SYNACK"], s, "rto")

tcp_process_syn_sent(w, s, g) ==
  LET r == w.sk[s]
      w1 == IF g.fl \in HasRst THEN Fail(w, s) ELSE w
  IN IF g.fl \in HasAck /\ (g.ack <= r.una \/ g.ack > r.nxt)
     THEN IF g.fl \in HasRst THEN w ELSE Send(w, s, "RST", g.ack, 0)
     ELSE IF g.fl = "SYNACK" THEN SynSentAck(w1, s, g)
     ELSE IF g.fl = "SYN" THEN SimultaneousOpen(w1, s, g)
     ELSE w1

(* tcp_process_listen().  The socket may not be created, bound or routed,  *)
(* and the SYN-ACK not be allocated; then the child stays as it is.        *)
NextKid == IF \E s \in KidSet : sk[s].st = "UNBORN"
           THEN SelectSeq(Kids, LAMBDA s : sk[s].st = "UNBORN")[1] ELSE Nobody

tcp_process_listen(w, g, fault) ==
  LET l == w.lis
      k == NextKid
      w1 == [w EXCEPT !.sk[k] = [tcp_pcb_init(k) EXCEPT !.st = "SYN_RECEIVED", !.parent = TRUE,
                                   !.remote = g.src, !.conn = TRUE, !.tup = TRUE,
                                   !.rcv = g.seq + 1],
                      !.lis.syn = <<k>> \o @, !.lis.syn_num = @ + 1]
  IN IF \/ g.fl # "SYN"
        \/ \E c \in Range(l.syn) : w.sk[c].remote = g.src
        \/ l.syn_num + l.acc_num >= Backlog
        \/ fault = "nosock" \/ k = Nobody
     THEN w
     ELSE IF fault = "nomem" THEN [w1 EXCEPT !.sk[k].starved = TRUE]
     ELSE tcp_send_flag_syn(w1, k, "SYNACK", g.seq + 1)

-----------------------------------------------------------------------------
(* tcp_input() of the remaining states, test by test. *)

Acceptable(r, g) ==
  LET InWindow(x) == r.rcv <= x /\ x < r.rcv + Wnd
  IN \/ InWindow(g.seq)
     \/ SegLen(g) > 0 /\ InWindow(g.seq + SegLen(g) - 1)
     \/ r.st = "TIME_WAIT" /\ g.fl = "FIN" /\ g.seq + 1 = r.rcv

ResetInput(w, s, g) ==
  LET r == w.sk[s]
  IN IF g.seq # r.rcv THEN Start(w, s, "ack")
     ELSE IF r.st = "SYN_RECEIVED" /\ ~ r.parent THEN Fail(w, s)
     ELSE IF r.st \in {"ESTABLISHED", "FIN_WAIT_1", "FIN_WAIT_2", "CLOSE_WAIT"}
       THEN Fail(w, s)
     ELSE destroy_tcp_socket(w, s)

SynInput(w, s) ==
  IF w.sk[s].st = "SYN_RECEIVED" /\ w.sk[s].parent THEN destroy_tcp_socket(w, s)
                                                   ELSE Start(w, s, "ack")

(* The handshake's last ACK: a child moves on to the accept queue. *)
HandshakeDone(w, s, g) ==
  LET w1 == KeepaliveStart(tcp_update_retransmit_queue(
                             [w EXCEPT !.sk[s].st = "ESTABLISHED", !.sk[s].una = g.ack], s), s)
  IN IF w.sk[s].parent
     THEN [w1 EXCEPT !.lis.syn = SelectSeq(@, LAMBDA x : x # s), !.lis.syn_num = @ - 1,
                     !.lis.acc = <<s>> \o @, !.lis.acc_num = @ + 1,
                     !.lis.event = @ \/ w.lis.call]
     ELSE socket_notify_event(w1, s)

(* Mutant: a close() that lingers is not told. *)
EnterTimeWait_silently(w, s) ==
  Start([w EXCEPT !.sk[s].st = "TIME_WAIT"], s, "timewait")

EnterTimeWait(w, s) ==
  Start(tcp_complete_linger([w EXCEPT !.sk[s].st = "TIME_WAIT"], s), s, "timewait")

(* Mutant: FIN_WAIT_2 without its timer. *)
NewAck_no_timer(w, s, g) ==
  LET w1 == tcp_update_retransmit_queue([w EXCEPT !.sk[s].una = g.ack], s)
      r == w1.sk[s]
  IN IF r.una # r.end THEN w1
     ELSE CASE r.st = "FIN_WAIT_1" ->
                 tcp_complete_linger([w1 EXCEPT !.sk[s].st = "FIN_WAIT_2"], s)
            [] r.st = "CLOSING" -> EnterTimeWait(w1, s)
            [] r.st = "LAST_ACK" -> destroy_tcp_socket(tcp_complete_linger(w1, s), s)
            [] OTHER -> w1

(* An ACK of something new, in a state beyond the handshake. *)
NewAck(w, s, g) ==
  LET w1 == tcp_update_retransmit_queue([w EXCEPT !.sk[s].una = g.ack], s)
      r == w1.sk[s]
      w2 == tcp_complete_linger([w1 EXCEPT !.sk[s].st = "FIN_WAIT_2"], s)
  IN IF r.una # r.end THEN w1
     ELSE CASE r.st = "FIN_WAIT_1" -> IF r.fd THEN w2 ELSE Start(w2, s, "finwait2")
            [] r.st = "CLOSING" -> EnterTimeWait(w1, s)
            [] r.st = "LAST_ACK" -> destroy_tcp_socket(tcp_complete_linger(w1, s), s)
            [] OTHER -> w1

(* Mutant: a FIN seen before counts again. *)
FinInput_again(w, s, g) ==
  LET r == w.sk[s]
      w1 == Start([w EXCEPT !.sk[s].rcv = @ + 1], s, "ack")
  IN CASE r.st \in {"SYN_RECEIVED", "ESTABLISHED"} -> [w1 EXCEPT !.sk[s].st = "CLOSE_WAIT"]
       [] r.st = "FIN_WAIT_1" -> IF r.una = r.end THEN EnterTimeWait(w1, s)
                                 ELSE [w1 EXCEPT !.sk[s].st = "CLOSING"]
       [] r.st = "FIN_WAIT_2" -> EnterTimeWait(w1, s)
       [] OTHER -> w1

FinInput(w, s, g) ==
  LET r == w.sk[s]
      w1 == Start(Stop([w EXCEPT !.sk[s].rcv = @ + 1, !.sk[s].probes = 0], s, "keepalive"),
                  s, "ack")
  IN IF r.st = "TIME_WAIT" /\ g.seq + 1 = r.rcv THEN Start(Start(w, s, "ack"), s, "timewait")
     ELSE IF g.seq # r.rcv THEN w
     ELSE CASE r.st \in {"SYN_RECEIVED", "ESTABLISHED"} -> [w1 EXCEPT !.sk[s].st = "CLOSE_WAIT"]
            [] r.st = "FIN_WAIT_1" -> IF r.una = r.end THEN EnterTimeWait(w1, s)
                                      ELSE [w1 EXCEPT !.sk[s].st = "CLOSING"]
            [] r.st = "FIN_WAIT_2" -> Start(Stop([w1 EXCEPT !.sk[s].st = "TIME_WAIT"],
                                                 s, "finwait2"), s, "timewait")
            [] r.st = "TIME_WAIT" -> Start(w1, s, "timewait")
            [] OTHER -> w1

(* After the ACK field: FIN and keepalive, unless the socket is gone. *)
AfterAck(w, s, g) ==
  LET w1 == IF g.fl = "FIN" THEN FinInput(w, s, g) ELSE w
  IN IF w.sk[s].st \in {"CLOSED", "FREED"} THEN w
     ELSE IF w1.sk[s].st = "ESTABLISHED" THEN KeepaliveStart(w1, s) ELSE w1

AckInput(w, s, g) ==
  LET r == w.sk[s]
  IN IF g.ack < r.una - Wnd \/ g.ack > r.nxt THEN Start(w, s, "ack")
     ELSE IF r.st = "SYN_RECEIVED"
       THEN IF r.una < g.ack THEN AfterAck(HandshakeDone(w, s, g), s, g)
                             ELSE Send(w, s, "RST", g.ack, 0)
     ELSE IF r.st # "TIME_WAIT" /\ r.una < g.ack THEN AfterAck(NewAck(w, s, g), s, g)
     ELSE AfterAck(w, s, g)

tcp_input(w, s, g) ==
  LET r == w.sk[s]
  IN CASE r.st = "CLOSED" -> tcp_reply_rst(w, s, g)
       [] r.st = "SYN_SENT" -> tcp_process_syn_sent(w, s, g)
       [] OTHER ->
            IF ~ Acceptable(r, g) /\ g.fl \notin HasRst THEN Start(w, s, "ack")
            ELSE IF g.fl \in HasRst THEN ResetInput(w, s, g)
            ELSE IF g.fl \in HasSyn THEN SynInput(w, s)
            ELSE AckInput(w, s, g)

-----------------------------------------------------------------------------
(* tcp_timer_cb(), one due deadline at a time. *)

Segment(w, s, e) == Send(w, s, e.fl, e.seq, IF e.fl = "SYN" THEN 0 ELSE w.sk[s].rcv)
NoRoute(w, s) == socket_notify_event(WithError(w, s), s)

(* tcp_commit_fin_send() and what surrounds it. *)
nagle_timer(w, s, fault) ==
  LET r == w.sk[s]
      fin == [fl |-> "FIN", seq |-> r.nxt]
      r1 == [r EXCEPT !.queued = FALSE, !.rtx = Append(@, fin), !.nxt = @ + 1,
                      !.st = CASE @ \in {"SYN_RECEIVED", "ESTABLISHED"} -> "FIN_WAIT_1"
                               [] @ = "CLOSE_WAIT" -> "LAST_ACK"
                               [] OTHER -> @]
  IN IF ~ r.queued THEN w
     ELSE IF fault THEN Start(NoRoute(w, s), s, "nagle")
     ELSE Segment(Start(Put(w, s, r1), s, "rto"), s, fin)

retransmit_timer(w, s, fault) ==
  LET r == w.sk[s]
      w1 == IF r.st \in Handshake THEN [w EXCEPT !.sk[s].tries = @ + 1]
                                  ELSE [w EXCEPT !.sk[s].retries = @ + 1]
      spent == IF r.st \in Handshake THEN r.tries >= RetryMax ELSE r.retries >= r.max
  IN IF r.rtx = <<>> THEN w
     ELSE IF spent THEN Fail(w1, s)
     ELSE IF fault THEN NoRoute(Start(w1, s, "rto"), s)
     ELSE Segment(Start(w1, s, "rto"), s, Head(r.rtx))

ack_timer(w, s) == Send(w, s, "ACK", w.sk[s].nxt, w.sk[s].rcv)

timewait_timer(w, s) == destroy_tcp_socket(w, s)

finwait2_timer(w, s) == IF w.sk[s].st = "FIN_WAIT_2" THEN destroy_tcp_socket(w, s) ELSE w

keepalive_timer(w, s) ==
  LET r == w.sk[s]
      w1 == [w EXCEPT !.sk[s].probes = @ + 1]
  IN IF r.st # "ESTABLISHED" THEN [w EXCEPT !.sk[s].probes = 0]
     ELSE IF r.probes >= KeepaliveMax THEN Fail(w1, s)
     ELSE Send(Start(w1, s, "keepalive"), s, "ACK", r.una - 1, r.rcv)

(* The deadlines are looked at in this order.  Those of FIN and ACK are    *)
(* the present, so that nothing behind them in the chain comes before.     *)
Due(r) ==
  IF "nagle" \in r.timers THEN {"nagle"}
  ELSE IF "ack" \in r.timers THEN r.timers \cap {"rto", "ack"}
  ELSE r.timers

Timer(w, s, t, fault) ==
  CASE t = "nagle" -> nagle_timer(w, s, fault)
    [] t = "rto" -> retransmit_timer(w, s, fault)
    [] t = "ack" -> ack_timer(w, s)
    [] t = "timewait" -> timewait_timer(w, s)
    [] t = "finwait2" -> finwait2_timer(w, s)
    [] t = "keepalive" -> keepalive_timer(w, s)

-----------------------------------------------------------------------------
(* The calls. *)

(* The exit of tcp_connect() that reports an error: tcp_abort_connect(). *)
tcp_abort_connect(w, s) ==
  LET r == w.sk[s]
  IN Put(w, s, [r EXCEPT !.st = "CLOSED", !.tup = FALSE, !.rtx = <<>>, !.nxt = r.una,
                         !.end = r.una, !.remote = Nobody, !.conn = FALSE,
                         !.call = "none", !.event = FALSE])

(* No memory: there is no SYN.  No output: there is one, and its timer. *)
tcp_connect(w, s, to, blocking, fault) ==
  LET w1 == [w EXCEPT !.sk[s].remote = to, !.sk[s].tup = TRUE, !.sk[s].st = "SYN_SENT"]
      w2 == tcp_send_flag_syn(w1, s, "SYN", 0)
  IN CASE fault = "nomem" -> tcp_abort_connect(w, s)
       [] fault = "nosend" -> [tcp_abort_connect(w2, s) EXCEPT !.net = w.net]
       [] OTHER -> [w2 EXCEPT !.sk[s].conn = TRUE,
                              !.sk[s].call = IF blocking THEN "connect" ELSE "none"]

(* The label retry.  A request that stays pending was taken off the list   *)
(* of waiters by req_pending_cb(), unless its timeout brought it here.     *)
connect_retry(w, s, expired) ==
  LET r == w.sk[s]
      w1 == [w EXCEPT !.sk[s].call = "none", !.sk[s].event = FALSE]
  IN IF r.err THEN tcp_abort_connect([w EXCEPT !.sk[s].err = FALSE], s)
     ELSE IF r.st \in {"ESTABLISHED", "CLOSE_WAIT"} THEN w1
     ELSE IF r.st \in Handshake /\ ~ expired THEN [w1 EXCEPT !.sk[s].call = "lost"]
     ELSE tcp_abort_connect(w, s)

(* tcp_send_fin(): the send queue is empty here, so that the FIN needs an  *)
(* skb of its own.                                                         *)
tcp_send_fin(w, s, fault) ==
  LET w1 == [w EXCEPT !.sk[s].shut = TRUE]
  IN IF fault THEN [w1 EXCEPT !.sk[s].starved = TRUE]
     ELSE Start([w1 EXCEPT !.sk[s].queued = TRUE, !.sk[s].end = @ + 1], s, "nagle")

tcp_shutdown(w, s, fault) ==
  IF \/ ~ w.sk[s].conn \/ w.sk[s].shut
     \/ w.sk[s].st \notin {"ESTABLISHED", "CLOSE_WAIT", "FIN_WAIT_1", "FIN_WAIT_2"}
  THEN w ELSE tcp_send_fin(w, s, fault)

(* _close(): the fd goes, a waiting connect() fails, tcp_release(). *)
tcp_release(w0, s, linger, fault) ==
  LET w == [w0 EXCEPT !.sk[s].fd = FALSE, !.sk[s].call = "none", !.sk[s].event = FALSE]
      r == w.sk[s]
      orphan == [w EXCEPT !.sk[s].max = OrphanRetries]
      w1 == CASE r.st \in {"ESTABLISHED", "CLOSE_WAIT"} ->
                   IF r.shut THEN w ELSE tcp_send_fin(w, s, fault)
              [] r.st \in {"FIN_WAIT_1", "CLOSING", "LAST_ACK"} -> orphan
              [] r.st = "FIN_WAIT_2" -> Start(orphan, s, "finwait2")
              [] OTHER -> w
      waits == {"ESTABLISHED", "CLOSE_WAIT", "FIN_WAIT_1", "CLOSING", "LAST_ACK"}
  IN IF linger = "zero" /\ r.st \notin {"CLOSED", "TIME_WAIT"}
     THEN destroy_tcp_socket(Send(w, s, "RSTACK", r.nxt, r.rcv), s)
     ELSE IF r.st \in {"CLOSED"} \cup Handshake THEN destroy_tcp_socket(w, s)
     ELSE IF linger = "some" /\ r.st \in waits THEN [w1 EXCEPT !.sk[s].call = "close"]
     ELSE w1

(* The listener is closed: its children go, without a word to their peers. *)
ListenerGone(w) ==
  LET gone == {s \in KidSet : s \in Range(w.lis.syn) \cup Range(w.lis.acc)}
  IN [w EXCEPT !.sk = [s \in Socks |-> IF s \in gone THEN Freed(s) ELSE w.sk[s]],
               !.lis = [NewListener EXCEPT !.st = "FREED"]]

tcp_accept(w) ==
  IF w.lis.acc = <<>> THEN [w EXCEPT !.lis.call = TRUE, !.lis.event = FALSE]
  ELSE [w EXCEPT !.sk[Head(w.lis.acc)].fd = TRUE, !.sk[Head(w.lis.acc)].parent = FALSE,
                 !.lis.acc = Tail(@), !.lis.acc_num = @ - 1,
                 !.lis.call = FALSE, !.lis.event = FALSE]

tcp_icmp_process(w, s) ==
  LET r == w.sk[s]
      w1 == WithError(w, s)
  IN IF ~ r.conn THEN w
     ELSE IF r.st \in Handshake \cup {"CLOSING", "LAST_ACK", "TIME_WAIT"}
       THEN destroy_tcp_socket(w1, s)
     ELSE IF r.st \in Synchronized THEN socket_notify_event(w1, s)
     ELSE w1

-----------------------------------------------------------------------------
(* The steps. *)

Become(w, spent) ==
  /\ sk' = w.sk /\ lis' = w.lis /\ net' = w.net
  /\ \A k \in spent : left[k] > 0
  /\ left' = [k \in DOMAIN left |-> IF k \in spent THEN left[k] - 1 ELSE left[k]]

(* An operation that may meet one of the faults fs, and one of a user. *)
Faulty(Op(_), fs) ==
  Become(Op("none"), {}) \/ \E f \in fs : Become(Op(f), {"faults"})
Call(Op(_), fs) ==
  Become(Op("none"), {"calls"}) \/ \E f \in fs : Become(Op(f), {"calls", "faults"})

(* tcp_recv(): the connection, the listener, or a reset from nobody. *)
Receivers(g) == {s \in Socks : Exists(s) /\ sk[s].tup /\ sk[s].local = g.dst /\ sk[s].remote = g.src}

NoSocket(w, g) ==
  LET rst == IF g.fl \in HasAck THEN [fl |-> "RST", seq |-> g.ack, ack |-> 0]
             ELSE [fl |-> "RSTACK", seq |-> 0, ack |-> g.seq + SegLen(g)]
  IN IF g.fl \in HasRst THEN w
     ELSE Carry(w, [src |-> g.dst, dst |-> g.src, fl |-> rst.fl, seq |-> rst.seq, ack |-> rst.ack])

Arrive(w, g, fault) ==
  IF Receivers(g) # {} THEN tcp_input(w, CHOOSE s \in Receivers(g) : TRUE, g)
  ELSE IF g.fl = "SYN" /\ g.dst = Srv /\ lis.st = "LISTEN" THEN tcp_process_listen(w, g, fault)
  ELSE NoSocket(w, g)

tcp_recv ==
  \E g \in net :
    LET once == [World EXCEPT !.net = @ \ {g}]
        creates == Receivers(g) = {} /\ g.fl = "SYN" /\ g.dst = Srv
    IN \/ Faulty(LAMBDA f : Arrive(once, g, f), IF creates THEN {"nosock", "nomem"} ELSE {})
       \/ Become(Arrive(World, g, "none"), {"copies"})

tcp_timer_cb ==
  \E s \in Socks : \E t \in Due(sk[s]) :
    Faulty(LAMBDA f : Timer(Stop(World, s, t), s, t, f # "none"),
           IF t \in {"nagle", "rto"} THEN {"noroute"} ELSE {})

connect ==
  \E s \in Clients, blocking \in BOOLEAN : \E to \in Targets[s] :
    /\ sk[s].fd /\ sk[s].st = "CLOSED" /\ ~ sk[s].conn
    /\ Call(LAMBDA f : tcp_connect(World, s, to, blocking, f), {"nomem", "nosend"})

connect_wakes ==
  \E s \in Clients, expired \in BOOLEAN :
    /\ sk[s].call = "connect" /\ (sk[s].event \/ expired)
    /\ Become(connect_retry(World, s, expired), {})

accept ==
  /\ lis.st = "LISTEN"
  /\ \/ ~ lis.call /\ Become(tcp_accept(World), {"calls"})
     \/ lis.call /\ lis.event /\ Become(tcp_accept(World), {})

shutdown ==
  \E s \in Socks :
    /\ sk[s].fd /\ ~ sk[s].shut /\ sk[s].conn /\ sk[s].call = "none"
    /\ Call(LAMBDA f : tcp_shutdown(World, s, f # "none"), {"nomem"})

close ==
  \E s \in Socks, linger \in left.linger :
    /\ sk[s].fd
    /\ Call(LAMBDA f : tcp_release(World, s, linger, f # "none"),
            IF sk[s].st \in {"ESTABLISHED", "CLOSE_WAIT"} THEN {"nomem"} ELSE {})

linger_expires ==
  \E s \in Socks : sk[s].call = "close" /\ Become(tcp_complete_linger(World, s), {})

close_listener == lis.st = "LISTEN" /\ Become(ListenerGone(World), {"calls"})

icmp == \E s \in Socks : Exists(s) /\ Become(tcp_icmp_process(World, s), {"faults"})

Next ==
  \/ tcp_recv \/ tcp_timer_cb \/ connect \/ connect_wakes \/ accept \/ shutdown
  \/ close \/ linger_expires \/ close_listener \/ icmp

Spec == Init /\ [][Next]_vars

-----------------------------------------------------------------------------
(* Nothing leaks: a socket that no user and no accept queue holds has a     *)
(* timer running that will move it on (tcp_timer_cb), whatever order        *)
(* close(), shutdown(), ACKs, FINs and resets came in - unless memory ran   *)
(* out for its SYN-ACK or its FIN.                                          *)
Driving(st) ==
  CASE st \in {"ESTABLISHED", "CLOSE_WAIT"} -> {"nagle"}
    [] st \in {"SYN_RECEIVED", "FIN_WAIT_1", "CLOSING", "LAST_ACK"} -> {"rto"}
    [] st = "FIN_WAIT_2" -> {"finwait2"}
    [] st = "TIME_WAIT" -> {"timewait"}
    [] OTHER -> {}

OrphanDriven ==
  \A s \in Socks :
    Exists(s) /\ ~ sk[s].fd /\ s \notin Range(lis.acc) /\ ~ sk[s].starved =>
      /\ sk[s].timers \cap Driving(sk[s].st) # {}
      /\ "rto" \in Driving(sk[s].st) => sk[s].rtx # <<>>

(* The listener's two queues (tcp_process_listen, tcp_input, tcp_accept,    *)
(* clear_associated_socket): the counts are the lengths, together they stay *)
(* within the backlog, the children in them are exactly those that still    *)
(* point to the listener, and each is in the one its state says.            *)
QueuesExact ==
  /\ lis.syn_num = Len(lis.syn) /\ lis.acc_num = Len(lis.acc)
  /\ lis.syn_num + lis.acc_num <= Backlog
  /\ IsInjective(lis.syn \o lis.acc)
  /\ \A s \in KidSet :
       /\ Exists(s) /\ sk[s].parent <=> s \in Range(lis.syn \o lis.acc)
       /\ Exists(s) /\ sk[s].parent => ~ sk[s].fd
       /\ s \in Range(lis.syn) <=> Exists(s) /\ sk[s].st = "SYN_RECEIVED"

(* No call hangs (tcp_connect, tcp_complete_linger): a connect() that waits *)
(* while its handshake is over has been woken, and a close() that lingers   *)
(* does so for a socket whose FIN is not yet acknowledged.  What is in      *)
(* SYN_SENT belongs to a user, so that tcp_process_syn_sent() may go on     *)
(* with it after a reset.                                                   *)
NoCallHangs ==
  \A s \in Socks :
    /\ sk[s].call # "lost"
    /\ sk[s].call = "connect" => sk[s].fd /\ (sk[s].st \in Handshake \/ sk[s].event)
    /\ sk[s].call = "close" =>
         sk[s].st \in {"ESTABLISHED", "CLOSE_WAIT", "FIN_WAIT_1", "CLOSING", "LAST_ACK"}
    /\ sk[s].st = "SYN_SENT" => sk[s].fd
  
(* Two ends that both left the handshake agree on the numbers: what one     *)
(* expects next is something the other has sent or is about to send.        *)
Paired(s, t) ==
  /\ sk[s].tup /\ sk[t].tup /\ {sk[s].st, sk[t].st} \subseteq Synchronized
  /\ sk[s].local = sk[t].remote /\ sk[t].local = sk[s].remote

HandshakeAgrees ==
  \A s, t \in Socks : Paired(s, t) => sk[t].una <= sk[s].rcv /\ sk[s].rcv <= sk[t].nxt
=============================================================================
