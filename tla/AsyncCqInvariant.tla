-------------------------- MODULE AsyncCqInvariant --------------------------
(***************************************************************************)
(* The inductive invariant behind the proofs about AsyncCq: where a request *)
(* may be, what the close has swept, what the counters count, and who      *)
(* wakes a waiter that has enough completions.                             *)
(***************************************************************************)
EXTENDS AsyncCq

-----------------------------------------------------------------------------
(* Types; that no counter goes below zero follows from what it counts.     *)

CqRecs == [open : BOOLEAN, refs : Int, submit : SUBSET Reqs, list : Seq(Reqs), count : Int,
           need : 1..UINT_MAX, buffered : 1..NoStore, pending : {0, 1}, efd : Nat]
ReqRecs == [worker : 0..NumWorkers, done : BOOLEAN, parked : BOOLEAN, moved : BOOLEAN,
            freed : BOOLEAN]
Places == {"idle", "migrate", "cancel", "notify", "count", "push", "need", "claim", "write"}
WkRecs == [inbox : Seq(Reqs \cup {Cancel}), pc : Places, cur : Reqs \cup {Cancel}, queued : Nat,
           todo : SUBSET (Reqs \cup {Cancel})]
Stages == {"call", "pop", "recheck", "unlock", "poll", "relock", "clear", "remove", "renotify",
           "claim", "write", "after", "out"}
Polls == {"none", "ready", "timeout", "error"}
WtRecs == [pc : Stages, got : SUBSET Reqs, poll : Polls, expired : BOOLEAN, armed : BOOLEAN,
           late : BOOLEAN]
Phases == {"open", "claim", "write", "visit", "visiting", "check", "free", "assert", "closed"}
ClRecs == [pc : Phases, visit : Workers]

Types ==
  /\ mtx \in Waiters \cup {"free", "closer"} /\ cq \in CqRecs /\ req \in [Reqs -> ReqRecs]
  /\ wk \in [Workers -> WkRecs] /\ wt \in [Waiters -> WtRecs] /\ cl \in ClRecs

(* entry->mtx is with the waiter that is in async_wait() and not in poll(), *)
(* or with the close, which has cleared entry->value.                       *)
Inside == {"pop", "recheck", "unlock", "clear", "remove", "renotify", "claim", "write", "after"}
Mutex ==
  /\ \A t \in Waiters : wt[t].pc \in Inside => mtx = t
  /\ cl.pc \notin {"open", "closed"} => mtx = "closer"
  /\ cl.pc = "open" <=> cq.open
  /\ cl.pc \in {"open", "claim", "write"} => cl.visit = 1

(* What there is to count is finite: requests, workers and waiters have     *)
(* their numbers, and a set of needs has a least one.                       *)
Sized ==
  /\ \A S \in SUBSET Reqs : Cardinality(S) \in Nat
  /\ \A S \in SUBSET (1..UINT_MAX) : S # {} => \E n \in S : \A m \in S : n <= m
  /\ \A U \in {Workers, Waiters} : \A S \in SUBSET U :
       /\ Cardinality(S) \in Nat /\ (Cardinality(S) = 0 <=> S = {})
       /\ \A x \in U : x \notin S => Cardinality(S \cup {x}) = Cardinality(S) + 1
       /\ \A x \in S : Cardinality(S \ {x}) = Cardinality(S) - 1

-----------------------------------------------------------------------------
(* Where a request is.                                                     *)

Notifying == {"notify", "count", "push", "need", "claim", "write"}

(* A worker walks for the close that visits it, and for no other.          *)
WalkOk(w, k) ==
  /\ k.todo # {} => Cancel \in k.todo /\ k.pc \in Notifying \cup {"cancel"}
  /\ k.todo # {} => Cancel \notin Range(k.inbox)
  /\ k.pc = "cancel" => k.todo # {}
  /\ k.todo # {} \/ Cancel \in Range(k.inbox) => cl.pc = "visiting" /\ cl.visit = w
  /\ k.pc \in Notifying \cup {"migrate"} => k.cur \in Reqs
  /\ IsInjective(k.inbox)

(* A queued request is the worker's own; the cancellation is queued behind  *)
(* the ones that have not moved.                                            *)
Behind(q, r) == \A i, j \in 1..Len(q) : q[i] = r /\ q[j] = Cancel => i < j
InboxOk(w, k, r, o) ==
  r \in Range(k.inbox) =>
    /\ o.worker = w /\ ~ o.parked
    /\ ~ o.moved => ~ o.done /\ k.todo = {} /\ Behind(k.inbox, r)

(* req_notify() runs on the request's worker, and once for a request that   *)
(* stayed at home.                                                          *)
NotifyOk(w, k, r, o) ==
  k.pc \in Notifying /\ k.cur = r =>
    /\ o.worker = w
    /\ k.pc = "notify" /\ ~ o.moved => ~ o.done /\ r \notin Range(k.inbox)
    /\ k.pc # "notify" => o.done

(* A request on its way to another worker is nowhere else. *)
MigrateOk(w, k, r, o) ==
  k.pc = "migrate" /\ k.cur = r =>
    /\ o.moved /\ ~ o.parked /\ o.worker # 0 /\ o.worker # w
    /\ \A v \in Workers : r \notin Range(wk[v].inbox)
    /\ \A v \in Workers : wk[v].pc = "migrate" /\ wk[v].cur = r => v = w

At(w, r) ==
  InboxOk(w, wk[w], r, req[r]) /\ NotifyOk(w, wk[w], r, req[r]) /\ MigrateOk(w, wk[w], r, req[r])

Walks == \A w \in Workers : WalkOk(w, wk[w])
InPlace == \A w \in Workers, r \in Reqs : At(w, r)

-----------------------------------------------------------------------------
(* What the close has swept: a request that stayed at home is done when its *)
(* worker was visited, and the walk that visits it will find it.            *)
Visited(w) ==
  \/ cl.pc \in {"visit", "visiting"} /\ w < cl.visit
  \/ cl.pc \in {"check", "free", "assert", "closed"}
SweptOk(w, k, r, o) ==
  o.worker = w /\ ~ o.moved =>
    /\ k.todo # {} => o.done \/ r \in k.todo \/ (k.pc = "notify" /\ k.cur = r)
    /\ Visited(w) => o.done /\ ~ (k.pc \in Notifying /\ k.cur = r)

SweptAt(w, r) == SweptOk(w, wk[w], r, req[r])
Swept == \A w \in Workers, r \in Reqs : SweptAt(w, r)

-----------------------------------------------------------------------------
(* Who has a completed request: the list, a waiter, or the close.          *)

Gets(t, r) == r \in wt[t].got
Completing(r) == \E w \in Workers : wk[w].pc \in {"count", "push"} /\ wk[w].cur = r
Handed(r) == req[r].freed \/ \E t \in Waiters : Gets(t, r)

ReqOk(r, o) ==
  /\ o.parked => ~ o.done
  /\ o.worker = 0 => ~ o.done /\ ~ o.parked /\ ~ o.moved /\ r \notin cq.submit
  /\ o.worker # 0 => r \in cq.submit \/ Handed(r)
OnceOk(r, o) ==
  /\ Handed(r) \/ r \in Range(cq.list) => o.done
  /\ Completing(r) => r \notin Range(cq.list)
  /\ Completing(r) \/ r \in Range(cq.list) => ~ Handed(r)
  /\ o.freed => \A t \in Waiters : ~ Gets(t, r)
  /\ \A t, u \in Waiters : Gets(t, r) /\ Gets(u, r) => t = u

OwnedAt(r) == ReqOk(r, req[r]) /\ OnceOk(r, req[r])
Owned == \A r \in Reqs : OwnedAt(r)
Closed == cl.pc = "closed" => cq.submit = {}

Pushers == {w \in Workers : wk[w].pc = "push"}
Inmates == {t \in Waiters : wt[t].pc \notin {"call", "out"}}
Counts ==
  /\ IsInjective(cq.list)
  /\ cq.count = Len(cq.list) + Cardinality(Pushers)
  /\ cq.refs = (IF cl.pc = "closed" THEN 0 ELSE 1) + Cardinality(Inmates)

Requests == Types /\ Mutex /\ Walks /\ InPlace /\ Swept /\ Owned /\ Closed

-----------------------------------------------------------------------------
(* Who wakes a waiter.                                                     *)

WaiterOk(t, u) ==
  /\ u.armed <=> u.pc \in {"recheck", "unlock", "poll", "relock", "clear", "remove"}
  /\ u.armed => Missing(t) >= 1

(* wait_need is not above what an armed waiter misses, or the store of the  *)
(* waiter that holds the mutex is under way.                                *)
NeedOk ==
  /\ \A t \in Waiters : wt[t].armed =>
       cq.need <= Missing(t) \/ (mtx = t /\ cq.buffered # NoStore)
  /\ cq.buffered # NoStore =>
       /\ mtx \in Waiters /\ wt[mtx].pc \in {"recheck", "unlock"}
       /\ cq.buffered = Missing(mtx) /\ cq.buffered < cq.need
  /\ \A t \in Waiters : wt[t].pc = "unlock" /\ ~ wt[t].late => cq.buffered = NoStore

PendingOk ==
  cq.pending = 1 =>
    \/ cq.efd > 0 \/ cl.pc = "write"
    \/ \E w \in Workers : wk[w].pc = "write"
    \/ \E t \in Waiters : wt[t].pc \in {"write", "clear"}

Hope(n) ==
  \/ cq.efd > 0 \/ cl.pc = "write"
  \/ \E w \in Workers : wk[w].pc \in {"claim", "write"}
  \/ \E w \in Workers : wk[w].pc \in {"push", "need"} /\ wk[w].queued >= n
  \/ \E t \in Waiters : wt[t].pc \in {"relock", "clear", "remove", "renotify", "claim", "write"}
WakeOk ==
  \A t \in Waiters :
    wt[t].pc \in {"unlock", "poll"} /\ ~ wt[t].late /\ cq.count >= Missing(t) => Hope(Missing(t))

Waits == (\A t \in Waiters : WaiterOk(t, wt[t])) /\ NeedOk /\ PendingOk /\ WakeOk

Sound == Requests /\ Counts /\ Waits

(* A worker's step that is not one of req_notify() after the count: no      *)
(* completion is published and nobody is woken.                             *)
Early == {"idle", "migrate", "cancel", "notify", "count"}
Quiet ==
  \A w \in Workers :
    \/ wk'[w].pc = wk[w].pc /\ wk'[w].queued = wk[w].queued
    \/ wk'[w].pc \in Early /\ wk[w].pc \in Early

-----------------------------------------------------------------------------
(* What a step does: to the CQ, to one worker, one request, one waiter.    *)

CqTo(o, rf, s, l, c, n, b, p, e) ==
  /\ cq' \in CqRecs /\ cq'.open = o /\ cq'.refs = rf /\ cq'.submit = s /\ cq'.list = l
  /\ cq'.count = c /\ cq'.need = n /\ cq'.buffered = b /\ cq'.pending = p /\ cq'.efd = e
WkTo(w, i, p, c, n, t) ==
  /\ wk' \in [Workers -> WkRecs] /\ \A v \in Workers : v # w => wk'[v] = wk[v]
  /\ wk'[w].inbox = i /\ wk'[w].pc = p /\ wk'[w].cur = c /\ wk'[w].queued = n
  /\ wk'[w].todo = t
Returns(w) ==
  LET k == wk[w]
  IN  WkTo(w, k.inbox, IF k.todo = {} THEN "idle" ELSE "cancel", Cancel, 0, k.todo)
ReqTo(r, w, d, p, m, f) ==
  /\ req' \in [Reqs -> ReqRecs] /\ \A s \in Reqs : s # r => req'[s] = req[s]
  /\ req'[r].worker = w /\ req'[r].done = d /\ req'[r].parked = p /\ req'[r].moved = m
  /\ req'[r].freed = f
WtTo(t, p, g, a, l) ==
  /\ wt' \in [Waiters -> WtRecs] /\ \A u \in Waiters : u # t => wt'[u] = wt[u]
  /\ wt'[t].pc = p /\ wt'[t].got = g /\ wt'[t].armed = a /\ wt'[t].late = l
=============================================================================
