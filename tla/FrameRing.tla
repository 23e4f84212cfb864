------------------------------ MODULE FrameRing ------------------------------
(***************************************************************************)
(* The two lock-free rings that frames travel through: the pool of free    *)
(* UMEM frames (lib/xdp.c) and the cache that workers share (one size      *)
(* class of lib/frame_cache.c).  Every load of a sequence number, every    *)
(* compare-and-exchange and every publication is a step of its own.        *)
(*                                                                         *)
(* A slot is read or written between two accesses to its sequence number,  *)
(* with acquire and release, so that this goes with the publication.  A    *)
(* weak exchange that fails for no reason only repeats the scan.           *)
(***************************************************************************)
EXTENDS Integers, Sequences, FiniteSets, TLC

CONSTANTS Threads,
          PoolSizes,          \* XDP_UMEM_FRAME_CNT: as many slots as frames
          CacheSize,          \* GLOBAL_FRAME_CACHE_LIMIT
          Batch,              \* THREAD_FRAME_CACHE_LOW: most that move at once
          Ops                 \* bound: operations of a thread

VARIABLES ring,               \* ring[q]: slots, enqueue_pos, dequeue_pos
          thr                 \* thr[t]: a thread in an operation on a ring

vars == <<ring, thr>>

Size(q) == Cardinality(DOMAIN ring[q].slots)
PoolSize == Size("pool")
Frames == 0..PoolSize - 1
Slot(q, pos) == pos % Size(q)
Sequence(q, pos) == ring[q].slots[Slot(q, pos)].seq

Idle == [pc |-> "idle", op |-> "none", q |-> "pool", pos |-> 0, ready |-> 0, i |-> 0, most |-> 0,
         spill |-> FALSE]

(* xdp_frame_pool_init() fills the pool; frame_global_cache_init(). *)
InitPool(n) == [slots |-> [i \in 0..n - 1 |-> [seq |-> i + 1, entry |-> i]], enq |-> n, deq |-> 0]
InitCache == [slots |-> [i \in 0..CacheSize - 1 |-> [seq |-> i, entry |-> 0]], enq |-> 0, deq |-> 0]

Init ==
  /\ \E n \in PoolSizes : ring = [pool |-> InitPool(n), cache |-> InitCache]
  /\ thr = [t \in Threads |-> Idle @@ [hold |-> <<>>, left |-> Ops, lost |-> {}]]

-----------------------------------------------------------------------------
Set(t, r) == thr' = [thr EXCEPT ![t] = r @@ thr[t]]
Return(t, hold) == Set(t, [hold |-> hold] @@ Idle)
Position(q, op) == IF op = "enqueue" THEN ring[q].enq ELSE ring[q].deq

(* The first load of a position, and how many entries are wanted. *)
Begin(t, q, op, most) ==
  /\ thr[t].pc = "idle" /\ thr[t].left > 0
  /\ Set(t, [pc |-> "scan", op |-> op, q |-> q, pos |-> Position(q, op), ready |-> 0,
             i |-> 0, most |-> most, left |-> thr[t].left - 1,
             spill |-> q = "cache" /\ op = "enqueue"])
  /\ UNCHANGED ring

xdp_frame_alloc(t) == Len(thr[t].hold) < Batch /\ Begin(t, "pool", "dequeue", 1)
xdp_frame_free(t) == thr[t].hold # <<>> /\ Begin(t, "pool", "enqueue", 1)
local_cache_refill(t) == thr[t].hold = <<>> /\ Begin(t, "cache", "dequeue", Batch)
local_cache_spill(t) == thr[t].hold # <<>> /\ Begin(t, "cache", "enqueue", Len(thr[t].hold))

(* What the slot at the next position says, as the sign of diff. *)
Diff(r, turn) == Sequence(r.q, r.pos + r.ready) - (r.pos + r.ready + turn)

Turn(r) == IF r.op = "enqueue" THEN 0 ELSE 1

(* A scan of the slots from pos: ready counts those in the right turn, the  *)
(* first in a later turn shows that pos is stale, one in an earlier turn    *)
(* ends the scan.  The pool asks for one and waits for a slot that a        *)
(* consumer has claimed but not yet given back.                             *)
Reload(t) == Set(t, [pos |-> Position(thr[t].q, thr[t].op), ready |-> 0])

scan_ready(t) ==
  LET r == thr[t] IN
  /\ r.pc = "scan" /\ r.ready < r.most /\ Diff(r, Turn(r)) = 0
  /\ Set(t, [ready |-> r.ready + 1])
  /\ UNCHANGED ring

scan_stale(t) ==
  LET r == thr[t] IN
  /\ r.pc = "scan" /\ r.ready < r.most /\ Diff(r, Turn(r)) > 0
  /\ Reload(t)
  /\ UNCHANGED ring

scan_ends(t) ==
  LET r == thr[t] IN
  /\ r.pc = "scan" /\ r.ready < r.most /\ Diff(r, Turn(r)) < 0
  /\ \/ r.ready > 0 /\ Set(t, [pc |-> "claim"])
     \/ /\ r.ready = 0 /\ ~ (r.q = "pool" /\ r.op = "enqueue")
        /\ Set(t, [pc |-> "rest"])
     \/ /\ r.ready = 0 /\ r.q = "pool" /\ r.op = "enqueue"
        /\ Set(t, [pc |-> "full"])
  /\ UNCHANGED ring

(* pos - dequeue >= ring_size, by a later load of dequeue_pos and without  *)
(* sign: a ring that other threads have emptied past pos in the meantime    *)
(* passes for a full one.  The caller drops the frame.                      *)
push_full(t) ==
  LET r == thr[t]
      gap == r.pos - ring["pool"].deq
  IN /\ r.pc = "full"
     /\ IF gap \in 0..PoolSize - 1
          THEN Set(t, [pc |-> "scan", pos |-> ring["pool"].enq, ready |-> 0])
        ELSE Set(t, [pc |-> IF gap < 0 THEN "rest" ELSE "failed", hold |-> Tail(r.hold),
                     lost |-> r.lost \cup {Head(r.hold)}])
     /\ UNCHANGED ring

(* Everything wanted is there.  Then the exchange. *)
scan_done(t) ==
  /\ thr[t].pc = "scan" /\ thr[t].ready = thr[t].most
  /\ Set(t, [pc |-> "claim"])
  /\ UNCHANGED ring

(* Mutant: positions are taken with a plain store. *)
claim_store(t) ==
  LET r == thr[t]
      next == r.pos + r.ready
  IN /\ r.pc = "claim"
     /\ Set(t, [pc |-> "move"])
     /\ ring' = IF r.op = "enqueue" THEN [ring EXCEPT ![r.q].enq = next]
                ELSE [ring EXCEPT ![r.q].deq = next]

claim(t) ==
  LET r == thr[t]
      won == Position(r.q, r.op) = r.pos
      next == r.pos + r.ready
  IN /\ r.pc = "claim"
     /\ IF won THEN Set(t, [pc |-> "move"])
        ELSE Set(t, [pc |-> "scan", pos |-> Position(r.q, r.op), ready |-> 0])
     /\ ring' = IF ~ won THEN ring
                ELSE IF r.op = "enqueue" THEN [ring EXCEPT ![r.q].enq = next]
                ELSE [ring EXCEPT ![r.q].deq = next]

enqueue_slot(t) ==
  LET r == thr[t]
      at == r.pos + r.i
  IN /\ r.pc = "move" /\ r.op = "enqueue" /\ r.i < r.ready
     /\ ring' = [ring EXCEPT ![r.q].slots[Slot(r.q, at)] = [seq |-> at + 1, entry |-> Head(r.hold)]]
     /\ Set(t, [i |-> r.i + 1, hold |-> Tail(r.hold)])

dequeue_slot(t) ==
  LET r == thr[t]
      at == r.pos + r.i
  IN /\ r.pc = "move" /\ r.op = "dequeue" /\ r.i < r.ready
     /\ ring' = [ring EXCEPT ![r.q].slots[Slot(r.q, at)].seq = at + Size(r.q)]
     /\ Set(t, [i |-> r.i + 1, hold |-> Append(r.hold, ring[r.q].slots[Slot(r.q, at)].entry)])

(* The end: what the cache did not take goes on to the pool, frame by      *)
(* frame; an empty cache sends a thread to the pool.                       *)
moved(t) ==
  LET r == thr[t] IN
  /\ r.pc = "rest" \/ (r.pc = "move" /\ r.i = r.ready)
  /\ IF r.spill /\ r.hold # <<>>
       THEN Set(t, [pc |-> "scan", q |-> "pool", pos |-> ring["pool"].enq, ready |-> 0, i |-> 0,
                    most |-> 1])
     ELSE IF r.q = "cache" /\ r.op = "dequeue" /\ r.hold = <<>>
       THEN Set(t, [pc |-> "scan", q |-> "pool", pos |-> ring["pool"].deq, ready |-> 0, i |-> 0,
                    most |-> 1])
     ELSE Return(t, r.hold)
  /\ UNCHANGED ring

Next ==
  \E t \in Threads :
    \/ xdp_frame_alloc(t) \/ xdp_frame_free(t) \/ local_cache_refill(t) \/ local_cache_spill(t)
    \/ scan_ready(t) \/ scan_stale(t) \/ scan_ends(t) \/ scan_done(t)
    \/ push_full(t) \/ claim(t) \/ enqueue_slot(t) \/ dequeue_slot(t) \/ moved(t)

Spec == Init /\ [][Next]_vars

-----------------------------------------------------------------------------
Full(q) == {i \in DOMAIN ring[q].slots : ring[q].slots[i].seq % Size(q) = (i + 1) % Size(q)}
InRings(f) == {<<q, i>> \in {"pool", "cache"} \X (0..PoolSize + CacheSize) :
                 i \in Full(q) /\ ring[q].slots[i].entry = f}
WithThreads(f) == {<<t, i>> \in Threads \X (1..PoolSize) :
                     i \in DOMAIN thr[t].hold /\ thr[t].hold[i] = f}
Dropped(f) == {t \in Threads : f \in thr[t].lost}

(* No frame is lost or given out twice, however threads overlap in         *)
(* global_cache_class_enqueue_batch(), global_cache_class_dequeue_batch(), *)
(* xdp_frame_pool_pop_idx() and xdp_frame_pool_push_idx(): each is in one  *)
(* ring or with one thread, and the pool is never full when one comes back *)
(* ("possible duplicate free or pool corruption").  The one exception is a *)
(* frame dropped by the unsigned comparison in push_full.                  *)
FrameInOnePlace ==
  /\ \A f \in Frames :
       Cardinality(InRings(f)) + Cardinality(WithThreads(f)) + Cardinality(Dropped(f)) = 1
  /\ \A t \in Threads : thr[t].pc # "failed"
=============================================================================
