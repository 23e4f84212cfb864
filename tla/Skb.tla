-------------------------------- MODULE Skb --------------------------------
(***************************************************************************)
(* The scatter-gather buffers of main/skbuff.c under their users: the TCP  *)
(* sender, whose queues keep an skb while clones of it are on the way, a   *)
(* UDP sender with IP fragmentation, and the receive path.                 *)
(*                                                                         *)
(* An skb is a chain of data_infos; a data_info is an interval of a slot,  *)
(* and slots are shared: skb_clone() copies intervals, not bytes.  A slot  *)
(* has SlotCells cells; a cell holds a payload byte (its number in the     *)
(* stream, from 1) or a header (0).  Every header takes Hdr cells.         *)
(*                                                                         *)
(* Each operation of skbuff.c is an operator on x = [cell, ref, skb]; each *)
(* action also applies the operation's meaning on byte strings to `want`,  *)
(* what every skb should contain.                                          *)
(***************************************************************************)
EXTENDS Integers, Sequences, FiniteSets, SequencesExt

CONSTANTS NSkbs,      \* struct skbuff
          NSlots,     \* slots of the frame cache; none left: ENOMEM
          Hdr, Mss,   \* cells of a header, of a full segment
          Third,      \* snd_mss / 3
          MaxNum,     \* SKB_DATA_MAX_NUM
          Plans       \* what a behaviour may do: see Init

VARIABLES buf,        \* [cell, ref, skb]
          want,       \* the bytes each skb stands for
          sendq,      \* sock->send_queue
          rtxq,       \* pcb->retransmit_queue
          snd,        \* [una, end]: bytes acknowledged, bytes written
          plan        \* [bytes, dgram, ops]: what is still to be written, sent, done
vars == <<buf, want, sendq, rtxq, snd, plan>>

SlotCells == Hdr + Mss
Skbs == 1..NSkbs
Slots == 1..NSlots
NoSkb == [use |-> "free", di |-> <<>>, num |-> 0, len |-> 0]

Init ==
  /\ buf = [cell |-> [s \in Slots |-> [i \in 1..SlotCells |-> 0]],
            ref |-> [s \in Slots |-> 0], skb |-> [k \in Skbs |-> NoSkb]]
  /\ want = [k \in Skbs |-> <<>>]
  /\ sendq = <<>> /\ rtxq = <<>>
  /\ snd = [una |-> 0, end |-> 0]
  /\ plan \in Plans

-----------------------------------------------------------------------------
(* Slots and data_infos (frame_cache.c, skbuff.h). *)

FreeSlots(x) == {s \in Slots : x.ref[s] = 0}
FreeSkbs(x) == {k \in Skbs : x.skb[k].use = "free"}
SomeSlot(x) == CHOOSE s \in FreeSlots(x) : \A o \in FreeSlots(x) : s <= o
SomeSkb(x) == CHOOSE k \in FreeSkbs(x) : \A o \in FreeSkbs(x) : k <= o

\* A data_info: cells s + 1 .. e of the slot, whose usable size is `size`.
Size(d) == d.e - d.s
Cells(x, d) == SubSeq(x.cell[d.slot], d.s + 1, d.e)
Bytes(x, k) == FoldLeft(LAMBDA a, d : a \o Cells(x, d), <<>>, x.skb[k].di)
Total(di) == FoldLeft(LAMBDA a, d : a + Size(d), 0, di)

\* What a free slot contains does not matter.
Put(x, d) ==
  [x EXCEPT !.ref[d.slot] = @ - 1,
            !.cell[d.slot] = IF x.ref[d.slot] = 1 THEN [i \in 1..SlotCells |-> 0] ELSE @]
PutAll(x, di) == FoldLeft(Put, x, di)
Inc(x, d) == [x EXCEPT !.ref[d.slot] = @ + 1]
Store(x, d, at, b) ==
  [x EXCEPT !.cell[d.slot] = [i \in 1..SlotCells |-> IF i - at \in 1..Len(b) THEN b[i - at] ELSE @[i]]]

skb_pre_space(x, k) == Head(x.skb[k].di).s
skb_end_space(x, k) == LET d == Last(x.skb[k].di) IN d.size - d.e

Claim(x, k, use, di, len) ==
  [x EXCEPT !.skb[k] = [use |-> use, di |-> di, num |-> Len(di), len |-> len]]

skb_destroy(x, k) == [PutAll(x, x.skb[k].di) EXCEPT !.skb[k] = NoSkb]

\* Empty, with room for a header in front: skb_alloc() and skb_reserve().
CanAlloc(x) == FreeSlots(x) # {} /\ FreeSkbs(x) # {}
skb_alloc(x, k, size) ==
  LET d == [slot |-> SomeSlot(x), s |-> Hdr, e |-> Hdr, size |-> size]
  IN Claim(Inc(x, d), k, "queue", <<d>>, 0)

-----------------------------------------------------------------------------
(* Taking bytes away. *)

\* linear: within data0 only.
skb_consume(x, k, n, linear) ==
  LET Step(a, d) ==
        IF a.left = 0 THEN [a EXCEPT !.di = Append(@, d)]
        ELSE IF a.left < Size(d)
             THEN [a EXCEPT !.left = 0, !.di = Append(@, [d EXCEPT !.s = @ + a.left])]
             ELSE [a EXCEPT !.left = @ - Size(d), !.gone = Append(@, d)]
      all == x.skb[k]
      most == IF linear /\ all.di # <<>> THEN Size(Head(all.di)) ELSE all.len
      take == IF n < most THEN n ELSE most
      r == FoldLeft(Step, [left |-> take, di |-> <<>>, gone |-> <<>>], all.di)
  IN IF take = 0 THEN x
     ELSE [PutAll(x, r.gone) EXCEPT !.skb[k] = [@ EXCEPT !.di = r.di, !.num = @ - Len(r.gone),
                                                        !.len = @ - take]]

skb_truncate(x, k, n) ==
  LET all == x.skb[k]
      Step(a, d) ==
        IF a.left = 0 THEN [a EXCEPT !.gone = Append(@, d)]
        ELSE IF Size(d) >= a.left
             THEN [a EXCEPT !.left = 0, !.di = Append(@, [d EXCEPT !.e = d.s + a.left])]
             ELSE [a EXCEPT !.left = @ - Size(d), !.di = Append(@, d)]
      r == FoldLeft(Step, [left |-> n, di |-> <<>>, gone |-> <<>>], all.di)
  IN IF n >= all.len THEN x
     ELSE [PutAll(x, r.gone) EXCEPT !.skb[k] = [@ EXCEPT !.di = r.di, !.num = @ - Len(r.gone),
                                                        !.len = n]]

-----------------------------------------------------------------------------
(* Adding bytes.  Each yields [ok, x]. *)

Fail(x) == [ok |-> FALSE, x |-> x]
Done(x) == [ok |-> TRUE, x |-> x]

\* A header in front: in the head room of data0, shared or not, or in a new slot.
skb_data_push(x, k) ==
  LET all == x.skb[k]
      d == [Head(all.di) EXCEPT !.s = @ - Hdr]
      new == [slot |-> SomeSlot(x), s |-> 0, e |-> Hdr, size |-> SlotCells]
      zero == [i \in 1..Hdr |-> 0]
  IN IF skb_pre_space(x, k) >= Hdr
     THEN Done([Store(x, d, d.s, zero) EXCEPT !.skb[k].di[1] = d, !.skb[k].len = @ + Hdr])
     ELSE IF all.num >= MaxNum \/ FreeSlots(x) = {} THEN Fail(x)
     ELSE Done([Store(Inc(x, new), new, 0, zero) EXCEPT
                  !.skb[k] = [@ EXCEPT !.di = <<new>> \o @, !.num = @ + 1, !.len = @ + Hdr]])

skb_data_put(x, k, b) ==
  LET all == x.skb[k]
      d == Last(all.di)
  IN IF skb_end_space(x, k) < Len(b) THEN Fail(x)
     ELSE Done([Store(x, d, d.e, b) EXCEPT !.skb[k].di[Len(all.di)].e = @ + Len(b),
                                          !.skb[k].len = @ + Len(b)])

\* The end of the last slot, then a slot for every seg - pre bytes; all or nothing.
skb_data_append(x, k, b, pre, seg) ==
  LET room == skb_end_space(x, k)
      use == IF Len(b) < room THEN Len(b) ELSE room
      Grow(a, i) ==
        LET chunk == SubSeq(b, use + (i - 1) * (seg - pre) + 1,
                            IF use + i * (seg - pre) < Len(b) THEN use + i * (seg - pre) ELSE Len(b))
            d == [slot |-> SomeSlot(a.x), s |-> pre, e |-> pre + Len(chunk), size |-> seg]
        IN IF ~ a.ok \/ FreeSlots(a.x) = {} THEN Fail(a.x)
           ELSE Done([Store(Inc(a.x, d), d, pre, chunk) EXCEPT
                        !.skb[k] = [@ EXCEPT !.di = Append(@, d), !.num = @ + 1,
                                             !.len = @ + Len(chunk)]])
      rest == (Len(b) - use + (seg - pre) - 1) \div (seg - pre)
      r == FoldLeft(Grow, Done(skb_data_put(x, k, SubSeq(b, 1, use)).x), [i \in 1..rest |-> i])
  IN IF room + (seg - pre) * (MaxNum - x.skb[k].num) < Len(b) THEN Fail(x)
     ELSE IF r.ok THEN r
     ELSE Fail([r.x EXCEPT !.skb[k] = x.skb[k], !.ref = x.ref])

-----------------------------------------------------------------------------
(* Clones, copies, splitting and joining. *)

(* Mutant: the clone does not count its references to the slots. *)
skb_clone_uncounted(x, k, c) == Claim(x, c, "wire", x.skb[k].di, x.skb[k].len)

skb_clone(x, k, c) == Claim(FoldLeft(Inc, x, x.skb[k].di), c, "wire", x.skb[k].di, x.skb[k].len)

\* A new slot for d, with its head room and the bytes b.
CopyInfo(x, d, b) ==
  LET n == [slot |-> SomeSlot(x), s |-> d.s, e |-> d.s + Len(b), size |-> d.size]
  IN [x |-> Store(Inc(x, n), n, d.s, b), d |-> n]

\* Not called in the tree.
skb_copy(x, k, c) ==
  LET Step(a, d) == LET r == CopyInfo(a.x, d, Cells(a.x, d))
                    IN [x |-> r.x, di |-> Append(a.di, r.d)]
      r == FoldLeft(Step, [x |-> x, di |-> <<>>], x.skb[k].di)
  IN Claim(r.x, c, "wire", r.di, x.skb[k].len)

\* The data_info in which the byte after the first n lies, and those before it.
Where(di, n) == CHOOSE i \in 1..Len(di) : /\ Total(SubSeq(di, 1, i)) > n
                                          /\ Total(SubSeq(di, 1, i - 1)) <= n
Before(di, n) == SubSeq(di, 1, Where(di, n) - 1)
After(di, n) == SubSeq(di, Where(di, n) + 1, Len(di))

(* Mutant: the tail refers to its part of the slot, without a copy. *)
skb_split_shares(x, k, n, t) ==
  LET all == x.skb[k]
      d == all.di[Where(all.di, n)]
      cut == n - Total(Before(all.di, n))
  IN IF n >= all.len \/ FreeSkbs(x) = {} \/ n = 0 THEN Fail(x)
     ELSE Done([Claim(Inc(x, d), t, all.use, <<[d EXCEPT !.s = @ + cut]>> \o After(all.di, n), all.len - n)
                  EXCEPT !.skb[k] = [@ EXCEPT !.di = Append(Before(all.di, n), [d EXCEPT !.e = d.s + cut]),
                                             !.len = n, !.num = Where(all.di, n)]])

\* k keeps the first n bytes and t gets the rest.  A slot that is cut in two
\* is copied, so that each part has head room of its own.
skb_split(x, k, n, t) ==
  LET all == x.skb[k]
      d == all.di[Where(all.di, n)]
      cut == n - Total(Before(all.di, n))
      c == CopyInfo(x, d, SubSeq(Cells(x, d), cut + 1, Size(d)))
      Halves(x1, head, tail) ==
        Done([Claim(x1, t, all.use, tail, all.len - n) EXCEPT
                !.skb[k] = [@ EXCEPT !.di = head, !.len = n,
                                     !.num = @ - (Len(tail) - IF cut > 0 THEN 1 ELSE 0)]])
  IN IF n >= all.len \/ FreeSkbs(x) = {} \/ n = 0 THEN Fail(x)
     ELSE IF cut = 0 THEN Halves(x, Before(all.di, n), <<d>> \o After(all.di, n))
     ELSE IF FreeSlots(x) = {} THEN Fail(x)
     ELSE Halves(c.x, Append(Before(all.di, n), [d EXCEPT !.e = d.s + cut]), <<c.d>> \o After(all.di, n))

\* b's bytes go to the end of a, into its slot (copy) or by moving the chain.
skb_append_skb(x, a, b, copy) ==
  LET put == skb_data_put(x, a, Bytes(x, b))
      moved == [x EXCEPT !.skb[a] = [@ EXCEPT !.di = @ \o x.skb[b].di, !.num = @ + x.skb[b].num,
                                             !.len = @ + x.skb[b].len],
                         !.skb[b] = NoSkb]
  IN IF copy THEN IF put.ok THEN Done(skb_destroy(put.x, b)) ELSE put
     ELSE IF x.skb[a].num + x.skb[b].num > MaxNum THEN Fail(x) ELSE Done(moved)

-----------------------------------------------------------------------------
(* The TCP sender.  All of it runs on the worker that owns the socket. *)

Byte(k) == Head(want[k])            \* tcp.seq of a queued skb
Stop(k, w) == [w EXCEPT ![k] = <<>>]

\* One chunk of a write: the last queued skb while it has room, else a new one.
tcp_write ==
  \E n \in 1..Mss :
    LET old == sendq # <<>> /\ buf.skb[Last(sendq)].len + n <= Mss
        k == IF old THEN Last(sendq) ELSE SomeSkb(buf)
        b == [i \in 1..n |-> snd.end + i]
        r == skb_data_append(IF old THEN buf ELSE skb_alloc(buf, k, SlotCells), k, b, 0, Mss)
    IN /\ n <= plan.bytes
       /\ old \/ CanAlloc(buf)
       /\ r.ok
       /\ buf' = r.x
       /\ want' = [want EXCEPT ![k] = @ \o b]
       /\ sendq' = IF old THEN sendq ELSE Append(sendq, k)
       /\ snd' = [snd EXCEPT !.end = @ + n]
       /\ plan' = [plan EXCEPT !.bytes = @ - n]
       /\ UNCHANGED rtxq

\* A clone of the first n bytes of k goes out with a header of its own.
tcp_xmit_segment(x, k, c, n) ==
  LET p == skb_data_push(skb_truncate(skb_clone(x, k, c), c, n), c)
  IN IF FreeSkbs(x) = {} THEN Fail(x) ELSE IF p.ok THEN p ELSE Fail(skb_destroy(p.x, c))
Sent(w, k, c, n) == [w EXCEPT ![c] = [i \in 1..Hdr |-> 0] \o SubSeq(w[k], 1, n)]

tcp_retransmit_enqueue(x, k, w) ==
  LET l == Last(rtxq)
      r == skb_append_skb(x, l, k, TRUE)
  IN IF /\ rtxq # <<>> /\ x.skb[k].len <= Third
        /\ x.skb[l].len + x.skb[k].len <= Mss /\ r.ok
     THEN buf' = r.x /\ want' = Stop(k, [w EXCEPT ![l] = @ \o w[k]]) /\ UNCHANGED rtxq
     ELSE buf' = x /\ want' = w /\ rtxq' = Append(rtxq, k)

\* The skb goes to the retransmit queue, or back to the front of what is left.
XmitFrom(x, k, n, w, rest) ==
  LET c == SomeSkb(x) IN
  \E r \in {tcp_xmit_segment(x, k, c, n)} :
    \/ r.ok /\ sendq' = rest /\ tcp_retransmit_enqueue(r.x, k, Sent(w, k, c, n))
    \/ ~ r.ok /\ buf' = r.x /\ want' = w /\ sendq' = <<k>> \o rest /\ UNCHANGED rtxq

\* n bytes fit the window.  The rest is split off before anything is sent.
tcp_xmit_new_skb ==
  /\ sendq # <<>>
  /\ LET k == Head(sendq)
         t == SomeSkb(buf)
     IN \/ XmitFrom(buf, k, buf.skb[k].len, want, Tail(sendq))
        \/ \E n \in 1..buf.skb[k].len - 1 : \E s \in {skb_split(buf, k, n, t)} :
             s.ok /\ XmitFrom(s.x, k, n, [want EXCEPT ![k] = SubSeq(@, 1, n),
                                                     ![t] = SubSeq(want[k], n + 1, Len(want[k]))],
                              <<t>> \o Tail(sendq))
  /\ UNCHANGED <<snd, plan>>

\* The timer, duplicate acknowledgements, a window probe (n = 1).
tcp_retransmit_skb ==
  /\ rtxq # <<>> /\ plan.ops > 0 /\ FreeSkbs(buf) # {}
  /\ \E n \in 1..buf.skb[Head(rtxq)].len :
       LET k == Head(rtxq)
           c == SomeSkb(buf)
           r == tcp_xmit_segment(buf, k, c, n)
       IN r.ok /\ buf' = r.x /\ want' = Sent(want, k, c, n)
  /\ plan' = [plan EXCEPT !.ops = @ - 1]
  /\ UNCHANGED <<sendq, rtxq, snd>>

tcp_update_retransmit_queue ==
  \E a \in snd.una + 1..snd.end :
    LET Acked(k) == a >= Byte(k) + Len(want[k]) - 1
        Partly(k) == a >= Byte(k) /\ ~ Acked(k)
        Step(x, k) == IF Acked(k) THEN skb_destroy(x, k)
                      ELSE IF Partly(k) THEN skb_consume(x, k, a - Byte(k) + 1, FALSE) ELSE x
    IN /\ rtxq # <<>> /\ a <= Last(want[Last(rtxq)])
       /\ buf' = FoldLeft(Step, buf, rtxq)
       /\ want' = [k \in Skbs |-> IF k \in Range(rtxq) THEN SelectSeq(want[k], LAMBDA v : v > a)
                                  ELSE want[k]]
       /\ rtxq' = SelectSeq(rtxq, LAMBDA k : ~ Acked(k))
       /\ snd' = [snd EXCEPT !.una = a]
       /\ UNCHANGED <<sendq, plan>>

-----------------------------------------------------------------------------
(* Datagrams, and skbs on their way through the receive path: `wire`. *)

Wire == {k \in Skbs : buf.skb[k].use = "wire"}
Sender == UNCHANGED <<sendq, rtxq, snd>>
Op == plan.ops > 0 /\ plan' = [plan EXCEPT !.ops = @ - 1]

\* Here a datagram may take more than its first slot, which skb_data_append()
\* provides for; udp_sendto() asks for one slot that holds it all.
udp_sendto ==
  /\ plan.dgram > 0 /\ CanAlloc(buf)
  /\ LET k == SomeSkb(buf)
         b == [i \in 1..plan.dgram |-> snd.end + i]
         x == [skb_alloc(buf, k, SlotCells) EXCEPT !.skb[k].use = "wire"]
         r == skb_data_append(x, k, b, Hdr, SlotCells)
     IN IF r.ok THEN buf' = r.x /\ want' = [want EXCEPT ![k] = b]
        ELSE buf' = skb_destroy(r.x, k) /\ UNCHANGED want
  /\ plan' = [plan EXCEPT !.dgram = 0]
  /\ Sender

\* udp_output: fragmentation works on a clone.
udp_output ==
  /\ Op /\ FreeSkbs(buf) # {}
  /\ \E k \in Wire : LET c == SomeSkb(buf)
                     IN /\ buf.skb[k].len > 0
                        /\ buf' = skb_clone(buf, k, c)
                        /\ want' = [want EXCEPT ![c] = want[k]]
  /\ Sender

copy ==
  /\ Op /\ FreeSkbs(buf) # {}
  /\ \E k \in Wire : LET c == SomeSkb(buf)
                     IN /\ Len(buf.skb[k].di) \in 1..Cardinality(FreeSlots(buf))
                        /\ buf' = skb_copy(buf, k, c)
                        /\ want' = [want EXCEPT ![c] = want[k]]
  /\ Sender

\* One turn of ipv4_frag(): the tail is split off and gets a header; without
\* memory for the header it is dropped.
ipv4_frag ==
  /\ Op
  /\ \E k \in Wire : \E n \in 1..buf.skb[k].len - 1 :
       LET t == SomeSkb(buf)
           s == skb_split(buf, k, n, t)
           p == skb_data_push(s.x, t)
           w == [want EXCEPT ![k] = SubSeq(@, 1, n)]
       IN /\ s.ok
          /\ IF p.ok THEN /\ buf' = p.x
                          /\ want' = [w EXCEPT ![t] = [i \in 1..Hdr |-> 0]
                                                      \o SubSeq(want[k], n + 1, Len(want[k]))]
             ELSE buf' = skb_destroy(p.x, t) /\ want' = w
  /\ Sender

\* Reassembly: b's header is consumed and its chain goes behind a's.
defrag ==
  /\ Op
  /\ \E a \in Wire : \E b \in Wire \ {a} :
       LET r == skb_append_skb(skb_consume(buf, b, Hdr, TRUE), a, b, FALSE)
       IN /\ buf.skb[a].len > 0 /\ buf.skb[b].len > Hdr /\ Head(want[b]) = 0
          /\ r.ok
          /\ buf' = r.x
          /\ want' = Stop(b, [want EXCEPT ![a] = @ \o SubSeq(want[b], Hdr + 1, Len(want[b]))])
  /\ Sender

\* Headers (within data0), a prefix already received, bytes read by the
\* application; bytes past the window or past the length in the header.
consume ==
  /\ Op
  /\ \E k \in Wire : \E n \in 1..buf.skb[k].len, linear \in BOOLEAN :
       LET x == skb_consume(buf, k, n, linear)
       IN /\ linear => n <= Size(Head(buf.skb[k].di))
          /\ buf' = x
          /\ want' = [want EXCEPT ![k] = SubSeq(@, n + 1, Len(@))]
  /\ Sender

truncate ==
  /\ Op
  /\ \E k \in Wire : \E n \in 0..buf.skb[k].len - 1 :
       /\ buf' = skb_truncate(buf, k, n)
       /\ want' = [want EXCEPT ![k] = SubSeq(@, 1, n)]
  /\ Sender

drop ==
  /\ \E k \in Wire : buf' = skb_destroy(buf, k) /\ want' = Stop(k, want)
  /\ UNCHANGED plan /\ Sender

Next ==
  \/ tcp_write \/ tcp_xmit_new_skb \/ tcp_retransmit_skb \/ tcp_update_retransmit_queue
  \/ udp_sendto \/ udp_output \/ copy \/ ipv4_frag \/ defrag \/ consume \/ truncate \/ drop

Spec == Init /\ [][Next]_vars

-----------------------------------------------------------------------------

(* Chains and counts agree after any sequence of operations: data_num and  *)
(* data_total_len are those of the chain, intervals lie inside their slot, *)
(* and a slot's reference count is the number of data_infos that name it - *)
(* so it goes back to the cache when the last of them goes and not before. *)
(* An skb in a TCP queue has room for its header: make_tcp_hdr() does not  *)
(* expect skb_data_push() to fail.                                         *)
ChainsExact ==
  /\ \A k \in Skbs : LET r == buf.skb[k] IN
       /\ r.num = Len(r.di) /\ r.num <= MaxNum /\ r.len = Total(r.di)
       /\ \A i \in 1..Len(r.di) : 0 <= r.di[i].s /\ r.di[i].s <= r.di[i].e /\ r.di[i].e <= SlotCells
  /\ \A s \in Slots :
       buf.ref[s] = Cardinality({p \in Skbs \X (1..MaxNum) :
                       p[2] <= Len(buf.skb[p[1]].di) /\ buf.skb[p[1]].di[p[2]].slot = s})
  /\ \A k \in Range(sendq \o rtxq) : buf.skb[k].di # <<>> /\ skb_pre_space(buf, k) >= Hdr

(* Sharing does not change what is sent (skb_clone, skb_split,             *)
(* tcp_retransmit_enqueue): the queues hold the bytes written and not yet  *)
(* acknowledged, in order; and an skb on its way reads as it was made,     *)
(* except that the header of a later transmission may be written over      *)
(* bytes that have been acknowledged.                                      *)
BytesIntact ==
  /\ FoldLeft(LAMBDA a, k : a \o Bytes(buf, k), <<>>, rtxq \o sendq)
       = [i \in 1..snd.end - snd.una |-> snd.una + i]
  /\ \A k \in Skbs : LET b == Bytes(buf, k) IN
       /\ Len(b) = Len(want[k])
       /\ \A i \in 1..Len(b) : b[i] = want[k][i] \/ (b[i] = 0 /\ want[k][i] <= snd.una)
=============================================================================
