-------------------------------- MODULE Frames --------------------------------
(***************************************************************************)
(* Where the frames of the UMEM are: lib/frame_cache.c above its rings     *)
(* (FrameRing has those) and the data path of lib/xdp.c.  A frame is in    *)
(* the pool or is a page of slots of one size; a slot is cached by a       *)
(* worker or by all, or referred to by skbs and by descriptors that the    *)
(* kernel has or gave back.  One queue, whose rings belong to one worker;  *)
(* the others reach it through its inbox (worker.c).  A handler runs as    *)
(* one step: its rings have no other user than the kernel.                 *)
(***************************************************************************)
EXTENDS Integers, Sequences, FiniteSets, SequencesExt, TLC

CONSTANTS Workers, Owner,     \* the owner of the queue
          NFrames,            \* XDP_UMEM_FRAME_CNT
          NSkbs,              \* bound: skbs alive at once
          Limit, Low,         \* THREAD_FRAME_CACHE_LIMIT, THREAD_FRAME_CACHE_LOW
          Shared,             \* GLOBAL_FRAME_CACHE_LIMIT
          FqSize, TxSize,     \* sizes of the fill and of the TX ring
          PendingLimit,       \* XDP_TX_PENDING_FRAME_LIMIT
          KickThreshold,      \* XDP_TX_KICK_THRESHOLD
          Scenarios           \* bounds: skbs made, packets received and
                              \* times the interface goes down

VARIABLES mem,                \* pages, slots, pool and caches
          ix,                 \* the if_xdp: rings, pending queue, flags
          skb,                \* skb[k]: its slots and its references
          inbox,              \* pkt_msg of the owner
          left                \* what remains of the bounds

vars == <<mem, ix, skb, inbox, left>>

Classes == {"full", "small"}  \* a frame in one slot, or in two
SlotsOf(c) == IF c = "full" THEN 1 ELSE 2
None == <<0, 0>>
Skbs == 1..NSkbs

Rings == [fq |-> <<>>,        \* submitted to the kernel
          unsub |-> <<>>,     \* written, behind the producer index
          rx |-> <<>>, tx |-> <<>>, cq |-> <<>>,
          sent |-> <<>>,      \* taken from TX by the kernel, not completed
          pending |-> <<>>, rw |-> FALSE, kick |-> 0,
          awake |-> FALSE]    \* the kernel needs no wakeup

Init ==
  /\ mem = [pool |-> 1..NFrames, cls |-> [f \in 1..NFrames |-> "full"],
            page |-> [f \in 1..NFrames |-> 0], ref |-> [s \in (1..NFrames) \X (1..2) |-> 0],
            local |-> [w \in Workers |-> [c \in Classes |-> <<>>]],
            global |-> [c \in Classes |-> <<>>]]
  /\ ix = Rings @@ [up |-> FALSE, lost |-> {}, refused |-> FALSE]
  /\ skb = [k \in Skbs |-> [slots |-> <<>>, ref |-> 0, held |-> FALSE]]
  /\ inbox = <<>>
  /\ left \in Scenarios

-----------------------------------------------------------------------------
(* frame_cache.c *)

xdp_frame_free(m, f) == [m EXCEPT !.pool = @ \cup {f}, !.page[f] = 0]
PutPage(m, s) ==
  LET f == s[1] IN IF m.page[f] = 1 THEN xdp_frame_free(m, f) ELSE [m EXCEPT !.page[f] = @ - 1]

(* Mutant: what the shared cache does not take is forgotten. *)
local_cache_spill_forgets(m, w, c) ==
  LET all == m.local[w][c]
      out == SubSeq(all, Low + 1, Len(all))
  IN [m EXCEPT !.local[w][c] = SubSeq(all, 1, Low),
               !.global[c] = @ \o SubSeq(out, 1, Shared - Len(m.global[c]))]

local_cache_spill(m, w, c) ==
  LET all == m.local[w][c]
      out == SubSeq(all, Low + 1, Len(all))
      pushed == SubSeq(out, 1, Shared - Len(m.global[c]))
      m1 == [m EXCEPT !.local[w][c] = SubSeq(all, 1, Low), !.global[c] = @ \o pushed]
  IN FoldLeft(PutPage, m1, SubSeq(out, Len(pushed) + 1, Len(out)))

local_cache_push(m, w, c, s) ==
  LET m1 == IF Len(m.local[w][c]) >= Limit THEN local_cache_spill(m, w, c) ELSE m
  IN [m1 EXCEPT !.local[w][c] = Append(@, s)]

cache_free_slot(m, w, s) == local_cache_push(m, w, m.cls[s[1]], s)

PutSlot(m, w, s) ==
  LET m1 == [m EXCEPT !.ref[s] = @ - 1]
  IN IF m.ref[s] = 1 THEN cache_free_slot(m1, w, s) ELSE m1
PutSlots(m, w, q) == FoldLeft(LAMBDA a, s : PutSlot(a, w, s), m, q)
IncSlots(m, q) == FoldLeft(LAMBDA a, s : [a EXCEPT !.ref[s] = @ + 1], m, q)

local_cache_pop(m, w, c) ==
  LET s == Last(m.local[w][c])
  IN [m |-> [m EXCEPT !.local[w][c] = Front(@), !.ref[s] = 1], s |-> s]

Fewer(a, b) == IF a < b THEN a ELSE b
local_cache_refill(m, w, c) ==
  LET room == Limit - Len(m.local[w][c])
      added == Fewer(Fewer(Low, room), Len(m.global[c]))
  IN [m EXCEPT !.local[w][c] = @ \o SubSeq(m.global[c], 1, added),
               !.global[c] = SubSeq(@, added + 1, Len(@))]

(* Which free frame is taken makes no difference. *)
alloc_slot_page(m, w, c) ==
  LET f == CHOOSE x \in m.pool : \A y \in m.pool : x <= y
      rest == [i \in 1..SlotsOf(c) - 1 |-> <<f, i + 1>>]
      m1 == [m EXCEPT !.pool = @ \ {f}, !.cls[f] = c, !.page[f] = SlotsOf(c),
                      !.ref = [s \in DOMAIN m.ref |-> IF s[1] # f THEN m.ref[s]
                                                    ELSE IF s[2] = 1 THEN 1 ELSE 0]]
  IN IF m.pool = {} THEN [m |-> m, s |-> None]
     ELSE [m |-> FoldLeft(LAMBDA a, s : local_cache_push(a, w, c, s), m1, rest), s |-> <<f, 1>>]

frame_slot_alloc(m, w, c) ==
  LET m1 == IF m.local[w][c] = <<>> THEN local_cache_refill(m, w, c) ELSE m
  IN IF m1.local[w][c] # <<>> THEN local_cache_pop(m1, w, c) ELSE alloc_slot_page(m1, w, c)

-----------------------------------------------------------------------------
(* skbs: a set of references to slots. *)

FreeSkbs == {k \in Skbs : skb[k].ref = 0}
PutSkb(x, w, k) ==
  LET r == x.skb[k]
  IN IF r.ref = 1
     THEN [x EXCEPT !.skb[k] = [slots |-> <<>>, ref |-> 0, held |-> FALSE],
                    !.mem = PutSlots(@, w, r.slots)]
     ELSE [x EXCEPT !.skb[k].ref = @ - 1]
IncSkb(x, k) == [x EXCEPT !.skb[k].ref = @ + 1]
Drop(x, w, k) == PutSkb([x EXCEPT !.skb[k].held = FALSE], w, k)

-----------------------------------------------------------------------------
(* xdp.c, as functions of x: mem, ix and skb together. *)

X == [mem |-> mem, ix |-> ix, skb |-> skb]

(* The fill ring.  Without memory for all of the free places nothing is    *)
(* submitted, and what was written stays behind the producer index for     *)
(* good: a later submission moves the index by its own number only.        *)
umem_refill_fq(x) ==
  LET n == FqSize - Len(x.ix.fq) - Len(x.ix.unsub)
      Fill(a, i) == LET r == frame_slot_alloc(a.m, Owner, "full")
                    IN IF a.short \/ r.s = None THEN [a EXCEPT !.short = TRUE]
                       ELSE [a EXCEPT !.m = r.m, !.new = Append(@, r.s)]
      done == FoldLeft(Fill, [m |-> x.mem, new |-> <<>>, short |-> FALSE], [i \in 1..n |-> i])
      written == x.ix.unsub \o done.new
      visible == IF done.short THEN 0 ELSE n
  IN [x EXCEPT !.mem = done.m, !.ix.fq = @ \o SubSeq(written, 1, visible),
               !.ix.unsub = SubSeq(written, visible + 1, Len(written))]

umem_complete_tx(x) == [x EXCEPT !.mem = PutSlots(@, Owner, x.ix.cq), !.ix.cq = <<>>]

(* sendto() wakes the kernel, or is refused (EAGAIN, EBUSY). *)
xdp_tx_flush(x, ok) ==
  IF x.ix.kick = 0 /\ x.ix.pending = <<>> THEN x
  ELSE [x EXCEPT !.ix.kick = 0, !.ix.awake = @ \/ ok, !.ix.refused = ~ (x.ix.awake \/ ok)]

xdp_tx_update_watch(x) == [x EXCEPT !.ix.rw = x.ix.pending # <<>>]

Kicked(x, ok) == IF x.ix.kick >= KickThreshold THEN xdp_tx_flush(x, ok) ELSE x
Place(x, q, ok) ==
  IF Len(x.ix.tx) + Len(q) > TxSize THEN [x |-> x, sent |-> FALSE]
  ELSE [x |-> Kicked([x EXCEPT !.mem = IncSlots(@, q), !.ix.tx = @ \o q, !.ix.kick = @ + Len(q)], ok),
        sent |-> TRUE]
xdp_tx_submit(x, k, ok) == Place(umem_complete_tx(umem_refill_fq(x)), x.skb[k].slots, ok)

(* Mutant: the first skb that waits does not ask for a writable socket. *)
xdp_tx_enqueue_unwatched(x, k) ==
  IF Len(x.ix.pending) >= PendingLimit THEN x
  ELSE [IncSkb(x, k) EXCEPT !.ix.pending = Append(@, k)]

xdp_tx_enqueue(x, k) ==
  IF Len(x.ix.pending) >= PendingLimit THEN x
  ELSE xdp_tx_update_watch([IncSkb(x, k) EXCEPT !.ix.pending = Append(@, k)])

OrWait(r, k) == IF r.sent THEN r.x ELSE xdp_tx_enqueue(r.x, k)
xdp_tx_send(x, k, ok) ==
  IF x.ix.pending # <<>> THEN xdp_tx_enqueue(x, k) ELSE OrWait(xdp_tx_submit(x, k, ok), k)

OrRetry(r, k, ok) == IF r.sent THEN r ELSE xdp_tx_submit(umem_complete_tx(r.x), k, ok)
OrStop(r, k) ==
  IF r.sent THEN [x |-> PutSkb([r.x EXCEPT !.ix.pending = Tail(@)], Owner, k), stop |-> FALSE]
  ELSE [x |-> r.x, stop |-> TRUE]
TryNext(a, k, ok) == IF a.stop THEN a ELSE OrStop(OrRetry(xdp_tx_submit(a.x, k, ok), k, ok), k)
xdp_tx_drain_pending(x, ok) ==
  IF x.ix.pending = <<>> THEN x
  ELSE xdp_tx_update_watch(FoldLeft(LAMBDA a, k : TryNext(a, k, ok),
                                    [x |-> umem_complete_tx(x), stop |-> FALSE], x.ix.pending).x)

(* Teardown: the rings are given back, but not what the kernel has taken   *)
(* from TX and not completed, nor what was never submitted.                *)
xdp_tx_drop_pending(x) ==
  LET x1 == FoldLeft(LAMBDA a, k : PutSkb(a, Owner, k), x, x.ix.pending)
  IN [x1 EXCEPT !.ix.pending = <<>>]

Frame(s) == s[1]
xdp_drain_ring_pending(x) ==
  LET m1 == PutSlots(x.mem, Owner, x.ix.tx)
      raw == x.ix.fq \o [i \in DOMAIN x.ix.rx |-> x.ix.rx[i].s]
  IN [x EXCEPT !.mem = FoldLeft(LAMBDA a, s : xdp_frame_free(a, Frame(s)), m1, raw),
               !.ix = Rings @@ [x.ix EXCEPT !.up = FALSE,
                                            !.lost = @ \cup ToSet(x.ix.sent \o x.ix.unsub),
                                            !.refused = FALSE]]

(* A received descriptor: a bad one goes back to the pool as it is, a good  *)
(* one becomes the only slot of an skb, if there is one.                    *)
Received(x, d, keep) ==
  LET free == {k \in Skbs : x.skb[k].ref = 0}
      k == CHOOSE i \in free : \A j \in free : i <= j
      x1 == [x EXCEPT !.skb[k] = [slots |-> <<d.s>>, ref |-> 1, held |-> TRUE]]
  IN IF ~ d.good THEN [x EXCEPT !.mem = xdp_frame_free(@, Frame(d.s))]
     ELSE IF free = {} THEN [x EXCEPT !.mem = PutSlot(@, Owner, d.s)]
     ELSE IF keep THEN x1 ELSE Drop(x1, Owner, k)

-----------------------------------------------------------------------------
Become(x) == \E y \in {x} : mem' = y.mem /\ ix' = y.ix /\ skb' = y.skb
Spend(what) == left[what] > 0 /\ left' = [left EXCEPT ![what] = @ - 1]

xdp_if_start ==
  /\ ~ ix.up
  /\ Become(umem_refill_fq([X EXCEPT !.ix.up = TRUE])) /\ UNCHANGED <<inbox, left>>

xdp_if_stop ==
  /\ ix.up /\ Spend("stops")
  /\ Become(xdp_drain_ring_pending(umem_complete_tx(xdp_tx_drop_pending(X)))) /\ UNCHANGED inbox

xdp_if_read ==
  \E keep \in BOOLEAN :
    LET x1 == FoldLeft(LAMBDA a, d : Received(a, d, keep), X, ix.rx)
    IN /\ ix.rx # <<>>
       /\ Become(umem_complete_tx(umem_refill_fq([x1 EXCEPT !.ix.rx = <<>>]))) /\ UNCHANGED <<inbox, left>>

xdp_if_write ==
  \E ok \in BOOLEAN :
    ix.up /\ ix.rw /\ Become(xdp_tx_drain_pending(X, ok)) /\ UNCHANGED <<inbox, left>>

xdp_tx_kick_loop ==
  \E ok \in BOOLEAN :
    ix.up /\ Become(xdp_tx_flush(umem_complete_tx(X), ok)) /\ UNCHANGED <<inbox, left>>

(* A worker has an skb: a new one, or a clone that shares its slots. *)
skb_alloc ==
  \E w \in Workers, n \in 1..2 :
    LET one == frame_slot_alloc(mem, w, "small")
        two == frame_slot_alloc(one.m, w, "small")
        k == CHOOSE i \in FreeSkbs : \A j \in FreeSkbs : i <= j
        all == IF n = 2 /\ two.s # None THEN <<one.s, two.s>> ELSE <<one.s>>
    IN /\ FreeSkbs # {} /\ one.s # None
       /\ mem' = IF Len(all) = 2 THEN two.m ELSE one.m
       /\ skb' = [skb EXCEPT ![k] = [slots |-> all, ref |-> 1, held |-> TRUE]]
       /\ UNCHANGED <<ix, inbox>> /\ Spend("made")

skb_clone ==
  \E k \in Skbs :
    LET n == CHOOSE i \in FreeSkbs : \A j \in FreeSkbs : i <= j
    IN /\ FreeSkbs # {} /\ skb[k].held
       /\ mem' = IncSlots(mem, skb[k].slots)
       /\ skb' = [skb EXCEPT ![n] = [slots |-> skb[k].slots, ref |-> 1, held |-> TRUE]]
       /\ UNCHANGED <<ix, inbox>> /\ Spend("made")

free_skb ==
  \E w \in Workers, k \in Skbs :
    skb[k].held /\ Become(Drop(X, w, k)) /\ UNCHANGED <<inbox, left>>

(* xdp_transmit_skb(): the owner sends, another worker hands over; then    *)
(* the caller lets go of the skb.                                          *)
xdp_transmit_skb ==
  \E w \in Workers, k \in Skbs, ok \in BOOLEAN :
    /\ skb[k].held /\ ix.up
    /\ \/ w = Owner /\ Become(Drop(xdp_tx_send(X, k, ok), w, k)) /\ UNCHANGED <<inbox, left>>
       \/ /\ w # Owner
          /\ inbox' = Append(inbox, k)
          /\ Become(Drop(IncSkb(X, k), w, k)) /\ UNCHANGED left

xdp_process_send ==
  \E ok \in BOOLEAN :
    /\ inbox # <<>>
    /\ inbox' = Tail(inbox)
    /\ IF ix.up THEN Become(PutSkb(xdp_tx_send(X, Head(inbox), ok), Owner, Head(inbox)))
       ELSE Become(PutSkb(X, Owner, Head(inbox)))
    /\ UNCHANGED left

(* The kernel. *)
kernel_receives ==
  \E good \in BOOLEAN :
    /\ ix.up /\ ix.fq # <<>>
    /\ ix' = [ix EXCEPT !.fq = Tail(@), !.rx = Append(@, [s |-> Head(ix.fq), good |-> good])]
    /\ UNCHANGED <<mem, skb, inbox>> /\ Spend("packets")

kernel_sends ==
  /\ ix.up /\ ix.awake
  /\ ix' = IF ix.tx = <<>> THEN [ix EXCEPT !.awake = FALSE]
           ELSE [ix EXCEPT !.tx = Tail(@), !.sent = Append(@, Head(ix.tx))]
  /\ UNCHANGED <<mem, skb, inbox, left>>

kernel_completes ==
  /\ ix.sent # <<>>
  /\ ix' = [ix EXCEPT !.sent = Tail(@), !.cq = Append(@, Head(ix.sent))]
  /\ UNCHANGED <<mem, skb, inbox, left>>

Next ==
  \/ xdp_if_start \/ xdp_if_stop \/ xdp_if_read \/ xdp_if_write \/ xdp_tx_kick_loop
  \/ skb_alloc \/ skb_clone \/ free_skb \/ xdp_transmit_skb \/ xdp_process_send
  \/ kernel_receives \/ kernel_sends \/ kernel_completes

Spec == Init /\ [][Next]_vars

-----------------------------------------------------------------------------
(* Every frame is accounted for (frame_cache.c, xdp.c): a slot's references *)
(* are the skbs and descriptors that name it, only one without any is in a  *)
(* cache, once, and a frame is in the pool if and only if none of its slots   *)
(* is referred to or cached - whatever came first of completions, refills,  *)
(* spills, drops and teardown.  What a teardown leaves with the kernel, or  *)
(* behind the producer index, is lost (ix.lost), and nothing else.          *)
Named(s) ==
  LET Count(q) == Cardinality({i \in DOMAIN q : q[i] = s})
  IN FoldLeft(LAMBDA n, k : n + Count(skb[k].slots), 0, [k \in Skbs |-> k])
     + Count(ix.fq) + Count(ix.unsub) + Count([i \in DOMAIN ix.rx |-> ix.rx[i].s])
     + Count(ix.tx) + Count(ix.sent) + Count(ix.cq)
Cached(s) == Cardinality({<<w, i>> \in Workers \X (1..Limit) :
                            \E c \in Classes : i \in DOMAIN mem.local[w][c] /\ mem.local[w][c][i] = s})
             + Cardinality({i \in 1..Shared :
                              \E c \in Classes : i \in DOMAIN mem.global[c] /\ mem.global[c][i] = s})
SlotsIn(f) == {f} \X (1..SlotsOf(mem.cls[f]))

FramesAccounted ==
  \A f \in 1..NFrames :
    IF f \in mem.pool THEN \A s \in SlotsIn(f) : Named(s) + Cached(s) = 0
    ELSE /\ \A s \in SlotsIn(f) :
              /\ IF s \in ix.lost THEN mem.ref[s] > Named(s) ELSE mem.ref[s] = Named(s)
              /\ Cached(s) <= IF mem.ref[s] > 0 THEN 0 ELSE 1
         /\ mem.page[f] = Cardinality({s \in SlotsIn(f) : mem.ref[s] > 0 \/ Cached(s) = 1})
         /\ mem.page[f] > 0

(* Nothing that was accepted for sending is forgotten (xdp_tx_update_watch, *)
(* xdp_tx_flush): while skbs wait the socket is watched for writing, and    *)
(* while descriptors lie in front of a sleeping kernel a kick is due -      *)
(* unless the last one was refused.                                         *)
TxNotForgotten ==
  /\ ix.pending # <<>> => ix.up /\ ix.rw
  /\ ix.tx # <<>> /\ ~ ix.awake /\ ~ ix.refused => ix.kick > 0
=============================================================================
