---------------------------- MODULE EpollKeeps ------------------------------
(***************************************************************************)
(* No step of a worker, of the network or of a thread breaks the           *)
(* invariant that keeps the sleepers of net_epoll_wait() from being        *)
(* forgotten.                                                              *)
(***************************************************************************)
EXTENDS EpollSteps

USE Zenon, SMT

-----------------------------------------------------------------------------
(* The mutex. *)

(* A step of the only thread inside keeps the mutex exclusive. *)
LEMMA MutexKept ==
  ASSUME NEW t \in Threads, Alone(t), NEW pc, NEW snap, Moved(t, pc, snap),
         pc \in Inside => mtx' = t
  PROVE  Mutex'
BY DEF Mutex, Alone, Moved

(* No worker owes a reply to a request that is not with a worker. *)
LEMMA NothingOwed ==
  ASSUME Owes, call.st # "sent", wk' = wk
  PROVE  Owes'
BY DEF Owes

-----------------------------------------------------------------------------
(* The workers' side. *)

(* A list that has not grown is not empty only if it was not. *)
LEMMA NotGrown ==
  ASSUME Types, Types', Len(ready') <= Len(ready), ready' # <<>>
  PROVE  ready # <<>>
BY SMT DEF Types, ListTypes

(* A step on the workers' side keeps what the sleepers rely on. *)
LEMMA WorkSideKeeps ==
  ASSUME Wake, WorkSide
  PROVE  Wake'
<1>1. Mutex' /\ SnapAt'
  BY DEF Wake, WorkSide, Mutex, SnapAt
<1>2. Calls'
  BY DEF Wake, WorkSide, Calls, CtlCalls, PollCalls, CallKept
<1>3. ClosedLoud'
  BY DEF Wake, WorkSide, ClosedLoud, Heard
<1>4. LateAnnounced'
  <2> SUFFICES ASSUME NEW t \in Waiters, ~ Announced'
               PROVE  /\ ~ (th[t].pc = "take" /\ Len(ready') > th[t].room)
                      /\ ~ (th[t].pc \in {"item", "decide"} /\ ready' # <<>>)
    BY DEF LateAnnounced, WorkSide
  <2>1. ~ Announced /\ Len(ready') <= Len(ready)
    BY DEF WorkSide, Heard
  <2>2. Len(ready) \in Nat /\ Len(ready') \in Nat /\ th[t].room \in Nat
    <3>1. th[t].room \in Nat
      BY DEF Wake, Types, ThreadTypes, Places, Threads
    <3> QED BY <3>1, SMT DEF Wake, WorkSide, Types, ListTypes
  <2>3. /\ ~ (th[t].pc = "take" /\ Len(ready) > th[t].room)
        /\ ~ (th[t].pc \in {"item", "decide"} /\ ready # <<>>)
    BY <2>1 DEF Wake, LateAnnounced
  <2>4. ready' # <<>> => ready # <<>>
    BY <2>1, NotGrown DEF Wake, WorkSide
  <2> QED BY <2>1, <2>2, <2>3, <2>4, SMT
<1>5. NoSleepOverReady'
  <2> SUFFICES ASSUME ready' # <<>>, NEW t \in Waiters, th[t].pc = "sleep", ~ Announced'
               PROVE  Attended'
    BY DEF NoSleepOverReady, Announced, Attended, WorkSide
  <2>1. ~ Announced /\ Len(ready') <= Len(ready)
    BY DEF WorkSide, Heard
  <2>2. ready # <<>>
    BY <2>1, NotGrown DEF Wake, WorkSide
  <2>3. Attended
    BY <2>2 DEF NoSleepOverReady, Wake, WorkSide
  <2> QED BY <2>1, <2>3 DEF Attended, Announced, WorkSide
<1> QED BY <1>1, <1>2, <1>3, <1>4, <1>5 DEF Wake, WorkSide

(* A step that leaves the threads and the mutex alone keeps the types. *)
LEMMA RestTypes ==
  ASSUME Types, Rest
  PROVE  Types'
BY DEF Types, ThreadTypes, Rest, Counted

(* A worker that asks for no notification, or has made its own, leaves the  *)
(* others' as they are.                                                     *)
LEMMA StillAnnounced ==
  ASSUME NEW s \in Sockets, NEW pc, NEW todo, NEW ev, NEW reply, Served(s, pc, todo, ev, reply),
         th' = th, ep.efd => ep'.efd, wk[s].pc = "notify" => ep'.efd
  PROVE  Announced => Announced'
BY DEF Announced, Served

(* A worker that handles a request answers it, or notifies first. *)
LEMMA RepliedSide ==
  ASSUME Types, Owes, NEW s \in Sockets, wk[s].pc = "idle", call.st = "sent", call.s = s,
         NEW reply, Replied(s, reply), Rest, ep'.open = ep.open, ep'.efd = ep.efd
  PROVE  WorkSide
<1>1. CASE Served(s, "notify", wk[s].todo, wk[s].ev, reply) /\ call' = call
  <2>1. Announced' /\ CallKept
    BY <1>1 DEF Announced, Served, CallKept
  <2>2. Owes'
    BY <1>1 DEF Owes, Served
  <2> QED BY <2>1, <2>2, RestTypes DEF WorkSide, Heard, Rest
<1>2. CASE /\ Served(s, "idle", wk[s].todo, wk[s].ev, NoReply)
           /\ call' = [call EXCEPT !.st = "done", !.mask = reply]
           /\ Len(ready') <= Len(ready)
  <2>1. CallKept
    BY <1>2, DoneIs DEF CallKept
  <2>2. Owes'
    BY <1>2 DEF Owes, Served
  <2>3. Announced => Announced'
    BY <1>2, StillAnnounced DEF Rest
  <2> QED BY <1>2, <2>1, <2>2, <2>3, RestTypes DEF WorkSide, Heard, Rest
<1> QED BY <1>1, <1>2 DEF Replied

(* A refused request: EBADF, EEXIST or ENOENT. *)
LEMMA RefusedSide ==
  ASSUME Types, Owes, NEW s \in Sockets, wk[s].pc = "idle", call.st = "sent", call.s = s,
         Answer(s, {}), UNCHANGED <<mtx, ep, ready, item, sk, th>>
  PROVE  WorkSide
<1>1. RefusedEffect(s)
  BY RefusedIs
<1>2. Replied(s, {})
  BY <1>1, SMT DEF RefusedEffect, Replied, Types, ListTypes
<1>3. Rest
  BY <1>1 DEF Rest, RefusedEffect, Types, ListTypes, WorkTypes, Served, Once
<1> QED BY <1>2, <1>3, RepliedSide

(* An EBADF answer. *)
LEMMA CallBadfSide ==
  ASSUME Types, Owes, NEW s \in Sockets, CallBadf(s)
  PROVE  WorkSide
BY RefusedSide DEF CallBadf

(* _poll() owes a notification when it puts the item on the list. *)
LEMMA PollSide ==
  ASSUME Types, Owes, NEW s \in Sockets, _poll(s)
  PROVE  WorkSide
<1>1. PollEffect(s)
  BY PollIs
<1>2. wk[s].pc = "idle" /\ call.st = "sent" /\ call.s = s /\ UNCHANGED <<mtx, ep, sk, th>>
  BY DEF _poll, Called
<1>3. Rest
  BY <1>1, <1>2 DEF Rest, PollEffect, Relisted, Replied, Types, ListTypes, WorkTypes, Served, Once
<1> QED BY <1>1, <1>2, <1>3, RepliedSide DEF PollEffect

(* epoll_ctl_add() owes a notification when the socket is ready. *)
LEMMA AddSide ==
  ASSUME Types, Owes, NEW s \in Sockets, epoll_ctl_add(s)
  PROVE  WorkSide
<1>1. wk[s].pc = "idle" /\ call.st = "sent" /\ call.s = s /\ UNCHANGED <<mtx, sk, th>>
  BY DEF epoll_ctl_add, Called
<1>2. CASE item[s].reg
  BY <1>1, <1>2, RefusedCtlIs, RefusedSide
<1>3. CASE ~ item[s].reg
  <2>1. AddEffect(s)
    BY <1>3, AddIs
  <2>2. ep' \in Eps /\ ep'.open = ep.open /\ ep'.efd = ep.efd
    BY <2>1, EpRefs, EpRefsInt DEF AddEffect, Types
  <2>3. Rest
    BY <1>1, <2>1, <2>2
    DEF Rest, AddEffect, Relisted, Replied, Types, ListTypes, WorkTypes, Served, Once, Eps
  <2> QED BY <1>1, <2>1, <2>2, <2>3, RepliedSide DEF AddEffect
<1> QED BY <1>2, <1>3

(* epoll_ctl_mod() owes a notification when the socket is ready. *)
LEMMA ModSide ==
  ASSUME Types, Owes, NEW s \in Sockets, epoll_ctl_mod(s)
  PROVE  WorkSide
<1>1. wk[s].pc = "idle" /\ call.st = "sent" /\ call.s = s /\ UNCHANGED <<mtx, ep, sk, th>>
  BY DEF epoll_ctl_mod, Called
<1>2. CASE ~ item[s].reg
  BY <1>1, <1>2, RefusedCtlIs, RefusedSide
<1>3. CASE item[s].reg
  <2>1. ModEffect(s)
    BY <1>3, ModIs
  <2>2. Replied(s, {})
    BY <2>1 DEF ModEffect
  <2>3. Rest
    BY <1>1, <2>1, SMT
    DEF Rest, ModEffect, Relisted, Replied, Types, ListTypes, WorkTypes, Served, Once
  <2> QED BY <1>1, <2>2, <2>3, RepliedSide
<1> QED BY <1>2, <1>3

(* epoll_ctl_del() only takes items off the list. *)
LEMMA DelSide ==
  ASSUME Types, Owes, NEW s \in Sockets, epoll_ctl_del(s)
  PROVE  WorkSide
<1>1. wk[s].pc = "idle" /\ call.st = "sent" /\ call.s = s /\ UNCHANGED <<mtx, sk, th>>
  BY DEF epoll_ctl_del, Called
<1>2. CASE ~ item[s].reg
  BY <1>1, <1>2, RefusedCtlIs, RefusedSide
<1>3. CASE item[s].reg
  <2>1. UnregisterEffect(s) /\ RefusedEffect(s)
    BY <1>3, DelIs, UnregisterIs, RefusedIs DEF Types
  <2>2. ep' \in Eps /\ ep'.open = ep.open /\ ep'.efd = ep.efd
    BY <2>1, EpPut DEF UnregisterEffect, Types, EpPutFact
  <2>3. Replied(s, {})
    BY <2>1 DEF RefusedEffect, UnregisterEffect, Replied
  <2>4. Rest
    BY <1>1, <2>1, <2>2
    DEF Rest, UnregisterEffect, RefusedEffect, Types, ListTypes, WorkTypes, Served, Once, Eps
  <2> QED BY <1>1, <2>2, <2>3, <2>4, RepliedSide
<1> QED BY <1>2, <1>3

(* The notification that was owed. *)
LEMMA NotifyWorkerSide ==
  ASSUME Types, Owes, NEW s \in Sockets, NotifyWorker(s)
  PROVE  WorkSide
<1>1. NotifyWorkerEffect(s)
  BY NotifyWorkerIs
<1>2. UNCHANGED <<mtx, ready, item, sk, th>> /\ ep' = [ep EXCEPT !.efd = TRUE]
  BY DEF NotifyWorker
<1>3. EpEfdFact(TRUE)
  BY <1>2, EpEfd DEF Types
<1>4. Rest /\ Heard
  <2>1. Announced' /\ ep'.open = ep.open /\ ep'.efd
    BY <1>3 DEF EpEfdFact, Announced
  <2>2. Rest
    BY <1>1, <1>2, <1>3
    DEF Rest, NotifyWorkerEffect, EpEfdFact, Types, ThreadTypes, ListTypes, WorkTypes, Served, Once, Eps
  <2> QED BY <2>1, <2>2 DEF Heard
<1>5. Owes' /\ CallKept
  <2>1. CASE wk[s].reply = NoReply
    BY <1>1, <2>1, SMT DEF NotifyWorkerEffect, Owes, Served, CallKept
  <2>2. CASE wk[s].reply # NoReply
    <3>1. /\ Served(s, "idle", wk[s].todo, wk[s].ev, NoReply)
          /\ call' = [call EXCEPT !.st = "done", !.mask = wk[s].reply]
      BY <1>1, <2>2 DEF NotifyWorkerEffect
    <3>2. call.st = "sent" /\ call.s = s
      BY <2>2 DEF Owes
    <3>3. Owes'
      BY <3>1, <3>2 DEF Owes, Served
    <3>4. CallKept
      BY <3>1, <3>2, DoneIs DEF CallKept
    <3> QED BY <3>3, <3>4
  <2> QED BY <2>1, <2>2
<1> QED BY <1>4, <1>5, RestTypes DEF WorkSide, Rest

(* A worker between notifications, which answers no request. *)
LEMMA ServedSide ==
  ASSUME Types, Owes, NEW s \in Sockets, NEW pc, NEW todo, NEW ev, NEW reply,
         Served(s, pc, todo, ev, reply), reply \in {NoReply, wk[s].reply}, wk[s].pc # "notify",
         pc = "notify" \/ Len(ready') <= Len(ready),
         Rest, call' = call, ep'.open = ep.open, ep'.efd = ep.efd
  PROVE  WorkSide
<1>1. Owes'
  BY SMT DEF Owes, Served
<1>2. Announced => Announced'
  BY StillAnnounced DEF Rest
<1>3. pc = "notify" => Announced'
  BY DEF Announced, Served
<1> QED BY <1>1, <1>2, <1>3, RestTypes DEF WorkSide, Heard, Rest, CallKept

(* A step that concerns no worker. *)
LEMMA SocketSide ==
  ASSUME Types, Owes, Rest, wk' = wk, call' = call, ep'.open = ep.open, ep'.efd = ep.efd,
         Len(ready') <= Len(ready)
  PROVE  WorkSide
<1>1. Owes' /\ (Announced => Announced')
  BY DEF Owes, Announced, Rest
<1> QED BY <1>1, RestTypes DEF WorkSide, Heard, Rest, CallKept

(* A step that changes a socket and nothing else. *)
LEMMA QuietSide ==
  ASSUME Types, Owes, NEW s \in Sockets, Socked(s),
         UNCHANGED <<mtx, ep, ready, item, wk, th, call>>
  PROVE  WorkSide
<1>1. Rest /\ Len(ready') <= Len(ready)
  BY SMT DEF Rest, Types, ThreadTypes, ListTypes, WorkTypes, Once, Socked
<1> QED BY <1>1, SocketSide

(* socket_pending_task_cb() starts its walk. *)
LEMMA PendingTaskSide ==
  ASSUME Types, Owes, NEW s \in Sockets, PendingTask(s)
  PROVE  WorkSide
<1>1. PendingTaskEffect(s)
  BY PendingTaskIs
<1>2. wk[s].pc = "idle" /\ UNCHANGED <<mtx, ep, ready, item, th, call>>
  BY DEF PendingTask, Serving
<1>3. Rest /\ Len(ready') <= Len(ready)
  BY <1>1, <1>2, SMT
  DEF Rest, PendingTaskEffect, Types, ThreadTypes, ListTypes, WorkTypes, Once, Socked, Served
<1> QED BY <1>1, <1>2, <1>3, ServedSide DEF PendingTaskEffect

(* epoll_pending_cb() owes a notification when it merges events. *)
LEMMA WalkItemSide ==
  ASSUME Types, Owes, NEW s \in Sockets, WalkItem(s)
  PROVE  WorkSide
<1>1. WalkItemEffect(s)
  BY WalkItemIs
<1>2. wk[s].pc = "walk" /\ UNCHANGED <<mtx, ep, sk, th, call>>
  BY DEF WalkItem
<1>3. Rest
  BY <1>1, <1>2
  DEF Rest, WalkItemEffect, Types, ThreadTypes, ListTypes, WorkTypes, Once, Relisted, Served
<1>4. CASE Served(s, "notify", Tail(wk[s].todo), wk[s].ev, wk[s].reply)
  BY <1>2, <1>3, <1>4, ServedSide
<1>5. CASE /\ Served(s, "walk", Tail(wk[s].todo), wk[s].ev, wk[s].reply)
           /\ Len(ready') <= Len(ready)
  BY <1>2, <1>3, <1>5, ServedSide
<1> QED BY <1>1, <1>4, <1>5 DEF WalkItemEffect

(* req_pending_cb() does not touch the list. *)
LEMMA WalkReaderSide ==
  ASSUME Types, Owes, NEW s \in Sockets, WalkReader(s)
  PROVE  WorkSide
<1>1. WalkReaderEffect(s)
  BY WalkReaderIs
<1>2. wk[s].pc = "walk" /\ UNCHANGED <<mtx, ep, ready, item, th, call>>
  BY DEF WalkReader
<1>3. Rest /\ Len(ready') <= Len(ready)
  BY <1>1, <1>2, SMT
  DEF Rest, WalkReaderEffect, Types, ThreadTypes, ListTypes, WorkTypes, Once, Socked, Served
<1> QED BY <1>1, <1>2, <1>3, ServedSide DEF WalkReaderEffect

(* The walk ends. *)
LEMMA WalkEndSide ==
  ASSUME Types, Owes, NEW s \in Sockets, WalkEnd(s)
  PROVE  WorkSide
<1>1. Served(s, "idle", wk[s].todo, {}, wk[s].reply)
  BY WalkEndIs
<1>2. wk[s].pc = "walk" /\ UNCHANGED <<mtx, ep, ready, item, sk, th, call>>
  BY DEF WalkEnd
<1>3. Rest /\ Len(ready') <= Len(ready)
  BY <1>1, <1>2, SMT DEF Rest, Types, ThreadTypes, ListTypes, WorkTypes, Once, Served
<1> QED BY <1>1, <1>2, <1>3, ServedSide

(* A socket that goes only takes its item off the list. *)
LEMMA DetachSocketSide ==
  ASSUME Types, Owes, NEW s \in Sockets, DetachSocket(s)
  PROVE  WorkSide
<1>1. Socked(s) /\ UNCHANGED <<mtx, wk, th, call>>
  BY DetachSocketIs DEF DetachSocket
<1>2. CASE ~ item[s].reg
  <2>1. UNCHANGED <<ep, ready, item>>
    BY <1>2 DEF DetachSocket
  <2> QED BY <1>1, <2>1, QuietSide
<1>3. CASE item[s].reg
  <2>1. UnregisterEffect(s)
    BY <1>3, UnregisterIs DEF DetachSocket, Types
  <2>2. ep' \in Eps /\ ep'.open = ep.open /\ ep'.efd = ep.efd
    BY <2>1, EpPut DEF UnregisterEffect, Types, EpPutFact
  <2>3. Rest /\ Len(ready') <= Len(ready)
    BY <1>1, <2>1, <2>2
    DEF Rest, UnregisterEffect, Types, ThreadTypes, ListTypes, WorkTypes, Socked, Once, Eps
  <2> QED BY <1>1, <2>2, <2>3, SocketSide
<1> QED BY <1>2, <1>3

(* A step of a worker, and what the network and readers do to a socket. *)
LEMMA WorkerSide ==
  ASSUME Types, Owes, NEW s \in Sockets, WorkerStep(s)
  PROVE  WorkSide
BY CallBadfSide, PollSide, AddSide, ModSide, DelSide, NotifyWorkerSide, PendingTaskSide,
   WalkItemSide, WalkReaderSide, WalkEndSide, DetachSocketSide DEF WorkerStep

(* The steps of a socket do not touch the list. *)
LEMMA SocketStepSide ==
  ASSUME Types, Owes, NEW s \in Sockets, SocketStep(s)
  PROVE  WorkSide
<1>1. Socked(s)
  BY ArriveIs, NonblockingReadIs, FailIs, CloseSocketIs, ReopenSocketIs, BlockingReadIs
  DEF SocketStep, ArriveEffect, NonblockingReadEffect, FailEffect, CloseSocketEffect,
      BlockingReadEffect
<1>2. UNCHANGED <<mtx, ep, ready, item, wk, th, call>>
  BY DEF SocketStep, Arrive, NonblockingRead, Fail, CloseSocket, ReopenSocket, BlockingRead
<1> QED BY <1>1, <1>2, QuietSide

-----------------------------------------------------------------------------
(* The waiters' side. *)

(* A waiter that works in the loop of net_epoll_wait(). *)
LEMMA InsideKeeps ==
  ASSUME Wake, Types', Calls', Owes', NEW t \in Waiters, Alone(t),
         NEW pc \in {"count", "take", "item", "notify", "decide"}, NEW snap, Moved(t, pc, snap),
         snap # <<>> => pc = "item", mtx' = t,
         pc = "take" /\ Len(ready') > th'[t].room => Announced',
         pc \in {"item", "decide"} /\ ready' # <<>> => Announced',
         ep'.open = ep.open, ep.efd => ep'.efd \/ ep.open
  PROVE  Wake'
<1>1. t \in Threads /\ Ctl \in Threads /\ t # Ctl
  BY EpollAssumption DEF Threads
<1>2. th'[Ctl] = th[Ctl] /\ th'[t].pc = pc /\ \A u \in Waiters : u # t => th'[u] = th[u]
  BY <1>1 DEF Moved, Threads
<1>3. Mutex' /\ SnapAt'
  BY <1>1, <1>2, MutexKept DEF Wake, SnapAt, Moved
<1>4. ClosedLoud'
  BY <1>2 DEF Wake, ClosedLoud
<1>5. LateAnnounced'
  BY <1>2 DEF LateAnnounced, Alone, Inside, Threads
<1>6. NoSleepOverReady'
  BY <1>1, <1>2 DEF NoSleepOverReady, Attended, Announced
<1> QED BY <1>3, <1>4, <1>5, <1>6 DEF Wake

(* A waiter that goes to sleep, wakes up or leaves. *)
LEMMA LeaveKeeps ==
  ASSUME Wake, Types', Calls', Owes', NEW t \in Waiters, Mutex',
         NEW pc \in {"exit", "idle", "sleep", "relock", "expired"}, NEW snap, Moved(t, pc, snap),
         snap = <<>>, th[t].pc \in {"decide", "sleep", "relock", "expired", "exit"},
         pc = "sleep" => th[t].pc = "decide",
         ep'.open = ep.open, ep'.efd = ep.efd, ready' = ready, wk' = wk
  PROVE  Wake'
<1>1. t \in Threads /\ Ctl \in Threads /\ t # Ctl
  BY EpollAssumption DEF Threads
<1>2. th'[Ctl] = th[Ctl] /\ th'[t].pc = pc /\ \A u \in Threads : u # t => th'[u] = th[u]
  BY <1>1 DEF Moved
<1>3. SnapAt'
  BY <1>1, <1>2 DEF Wake, SnapAt, Moved, Threads
<1>4. ClosedLoud'
  BY <1>2 DEF Wake, ClosedLoud
<1>5. (Announced => Announced') /\ (Attended => Attended')
  BY <1>2 DEF Announced, Attended
<1>6. LateAnnounced'
  BY <1>2, <1>5 DEF LateAnnounced, Wake, Threads
<1>7. NoSleepOverReady'
  <2>1. Announced => Attended
    BY DEF Announced, Attended
  <2> QED BY <1>2, <1>5, <2>1 DEF NoSleepOverReady, LateAnnounced, Wake, Threads
<1> QED BY <1>3, <1>4, <1>6, <1>7 DEF Wake

(* A thread's step has types if what else it changes has. *)
LEMMA MovedTypes ==
  ASSUME Types, NEW t \in Threads, NEW pc, NEW snap, Moved(t, pc, snap),
         mtx' \in Threads \cup {"free"}, call' \in Requests, ListTypes', UNCHANGED <<sk, wk>>
  PROVE  Types'
BY DEF Types, ThreadTypes, WorkTypes, Moved, Counted

(* The list and the items stay as they are. *)
LEMMA ListKept ==
  ASSUME Types, ep' \in Eps, UNCHANGED <<ready, item>>
  PROVE  ListTypes'
BY DEF Types, ListTypes, Eps, Once

(* A step of a thread without a request. *)
LEMMA NoCallKept ==
  ASSUME Wake, NEW t \in Threads, Alone(t), th[t].pc \notin {"item", "ctl", "close"},
         UNCHANGED <<wk, call>>
  PROVE  Calls' /\ Owes' /\ call' \in Requests
<1>1. call.st = "none"
  BY NoCallIs DEF Wake
<1> QED BY <1>1, NothingOwed DEF Calls, Wake, Types, ThreadTypes

(* net_epoll_wait() keeps the invariant. *)
LEMMA WaitCallKeeps ==
  ASSUME Wake, NEW t \in Waiters, WaitCall(t)
  PROVE  Wake'
<1>1. /\ th[t].pc = "idle" /\ mtx = "free" /\ mtx' = t /\ ep' = [ep EXCEPT !.refs = @ + 1]
      /\ UNCHANGED <<ready, item, sk, wk, call>> /\ t \in Threads
  BY DEF WaitCall, Threads
<1>2. Alone(t)
  BY <1>1, AloneIs DEF Wake
<1>3. Moved(t, "count", th[t].snap)
  BY WaitCallMoves DEF Wake, Types
<1>4. ep' \in Eps /\ ep'.open = ep.open /\ ep'.efd = ep.efd
  BY <1>1, EpRefs, EpRefsInt DEF Wake, Types
<1>5. Calls' /\ Owes' /\ call' \in Requests
  BY <1>1, <1>2, NoCallKept
<1>6. Types'
  BY <1>1, <1>3, <1>4, <1>5, ListKept, MovedTypes DEF Wake
<1>7. th[t].snap = <<>>
  BY <1>1 DEF Wake, SnapAt
<1> QED BY <1>1, <1>2, <1>3, <1>4, <1>5, <1>6, <1>7, InsideKeeps

(* The count of epoll_take_snapshot() keeps the invariant. *)
LEMMA SnapshotCountKeeps ==
  ASSUME Wake, NEW t \in Waiters, SnapshotCount(t)
  PROVE  Wake'
<1>1. /\ th[t].pc = "count" /\ UNCHANGED <<mtx, ep, ready, item, sk, wk, call>>
      /\ t \in Threads
  BY DEF SnapshotCount, Threads
<1>2. Alone(t) /\ mtx' = t
  BY <1>1, AloneIs DEF Wake, Mutex, Inside
<1>3. Moved(t, "take", th[t].snap) /\ th'[t].room = Len(ready)
  BY SnapshotCountMoves DEF Wake, Types
<1>4. Calls' /\ Owes' /\ call' \in Requests
  BY <1>1, <1>2, NoCallKept
<1>5. Types'
  <2>1. ep' \in Eps /\ mtx' \in Threads \cup {"free"}
    BY <1>1 DEF Wake, Types, ThreadTypes, ListTypes, Eps
  <2> QED BY <1>1, <1>3, <1>4, <2>1, ListKept, MovedTypes, SMTT(30) DEF Wake
<1>6. th[t].snap = <<>> /\ ~ Len(ready') > th'[t].room
  BY <1>1, <1>3, SMT DEF Wake, SnapAt, Types, ListTypes
<1> QED BY <1>1, <1>2, <1>3, <1>4, <1>5, <1>6, InsideKeeps

(* A thread that does not give up a notification leaves them all. *)
LEMMA MovedAnnounced ==
  ASSUME NEW t \in Threads, NEW pc, NEW snap, Moved(t, pc, snap), th[t].pc # "notify",
         wk' = wk, ep'.efd = ep.efd
  PROVE  Announced => Announced'
BY DEF Announced, Moved

(* Taking the snapshot keeps the invariant. *)
LEMMA SnapshotTakeKeeps ==
  ASSUME Wake, NEW t \in Waiters, NEW n \in 0..Len(ready), SnapshotTake(t, n)
  PROVE  Wake'
<1>1. th[t].pc = "take" /\ UNCHANGED <<mtx, ep, sk, wk, call>>
  BY DEF SnapshotTake
<1>2. t \in Threads /\ Alone(t) /\ mtx' = t
  BY <1>1, AtItem DEF Inside
<1>3. SnapshotTakeMove(t, n)
  BY SnapshotTakeMoves DEF Wake
<1>4. SnapshotTakeEffect(t, n)
  BY <1>3, SnapshotTakeIs DEF SnapshotTakeMove, Wake
<1>5. Calls' /\ Owes' /\ call' \in Requests
  BY <1>1, <1>2, NoCallKept
<1>6. Types'
  <2>1. ListTypes'
    BY <1>1, <1>4 DEF Wake, Types, ListTypes, SnapshotTakeEffect
  <2> QED BY <1>1, <1>2, <1>3, <1>5, <2>1, MovedTypes, SMTT(30) DEF Wake, SnapshotTakeMove
<1>7. ready' # <<>> => Announced'
  <2>1. Announced => Announced'
    BY <1>1, <1>2, <1>3, MovedAnnounced, SMTT(30) DEF SnapshotTakeMove
  <2>2. th[t].room \in Nat /\ Len(ready) \in Nat /\ n \in Int
    <3>1. th[t].room \in Nat
      BY <1>2 DEF Wake, Types, ThreadTypes, Places
    <3> QED BY <1>3, <3>1, SMT DEF Wake, Types, ListTypes, SnapshotTakeMove
  <2>3. ready' # <<>> => Len(ready) > th[t].room
    BY <1>3, <1>4, <2>2, SMT DEF SnapshotTakeMove, SnapshotTakeEffect
  <2> QED BY <1>1, <2>1, <2>3 DEF Wake, LateAnnounced
<1> QED BY <1>1, <1>2, <1>3, <1>5, <1>6, <1>7, InsideKeeps DEF SnapshotTakeMove

(* A waiter at its snapshot leaves the list and the notifications alone. *)
LEMMA ItemKeeps ==
  ASSUME Wake, Types', Calls', Owes', NEW t \in Waiters, th[t].pc = "item",
         NEW pc \in {"item", "decide"}, NEW snap, Moved(t, pc, snap), snap # <<>> => pc = "item",
         ep'.open = ep.open, ep'.efd = ep.efd, UNCHANGED <<mtx, ready, wk>>
  PROVE  Wake'
<1>1. t \in Threads /\ Alone(t) /\ mtx' = t
  BY AtItem DEF Inside
<1>2. ready' # <<>> => Announced'
  BY <1>1, MovedAnnounced DEF Wake, LateAnnounced
<1> QED BY <1>1, <1>2, InsideKeeps

(* An item that loses a reference concerns no sleeper. *)
LEMMA DroppedQuiet ==
  ASSUME Types, NEW s, Dropped(s), ready' = ready
  PROVE  ListTypes' /\ ep'.open = ep.open /\ ep'.efd = ep.efd
<1>1. ep' \in Eps /\ ep'.open = ep.open /\ ep'.efd = ep.efd
  BY EpPut DEF Dropped, Types, EpPutFact
<1>2. item' \in [Sockets -> Items]
  BY DEF Dropped
<1> QED BY <1>1, <1>2 DEF Types, ListTypes, Eps, Once

(* Polling or dropping a candidate keeps the invariant. *)
LEMMA PollItemKeeps ==
  ASSUME Wake, NEW t \in Waiters, PollItem(t)
  PROVE  Wake'
<1>1. /\ th[t].pc = "item" /\ call.st = "none" /\ th[t].snap # <<>>
      /\ UNCHANGED <<mtx, ready, sk, wk>>
  BY DEF PollItem, More
<1>2. t \in Threads /\ Owes' /\ mtx' \in Threads \cup {"free"}
  BY <1>1, NothingOwed DEF Wake, Types, ThreadTypes, Threads
<1>3. PollItemEffect(t)
  BY PollItemIs DEF Wake
<1> DEFINE s == Head(th[t].snap).s
<1>4. s \in Sockets
  BY <1>1, HeadOfSnap DEF HeadOfSnapFact, Wake, Types
<1>5. CASE /\ UNCHANGED <<ep, item, th>> /\ call' \in Requests /\ call'.st = "sent"
           /\ call'.s = s /\ call'.op = "poll"
  <2>1. Moved(t, "item", th[t].snap) /\ ep' \in Eps
    BY <1>1, <1>2, <1>5, SMTT(30) DEF Wake, Types, ThreadTypes, ListTypes, Moved, Eps
  <2>2. Calls'
    BY <1>1, <1>4, <1>5 DEF Calls, PollCalls
  <2>3. Types'
    BY <1>1, <1>2, <1>5, <2>1, ListKept, MovedTypes DEF Wake
  <2> QED BY <1>1, <1>2, <1>5, <2>1, <2>2, <2>3, ItemKeeps, SMTT(30)
<1>6. CASE Dropped(s) /\ Moved(t, "item", Tail(th[t].snap)) /\ call' = call
  <2>1. ListTypes' /\ ep'.open = ep.open /\ ep'.efd = ep.efd
    BY <1>1, <1>6, DroppedQuiet DEF Wake
  <2>2. Calls' /\ call' \in Requests
    BY <1>1, <1>6 DEF Calls, Wake, Types, ThreadTypes
  <2>3. Types'
    BY <1>1, <1>2, <1>6, <2>1, <2>2, MovedTypes, SMTT(30) DEF Wake
  <2> QED BY <1>1, <1>2, <1>6, <2>1, <2>2, <2>3, ItemKeeps
<1> HIDE DEF s
<1> QED BY <1>3, <1>5, <1>6 DEF PollItemEffect, s

(* The answer to a poll keeps the invariant. *)
LEMMA PollReplyKeeps ==
  ASSUME Wake, NEW t \in Waiters, PollReply(t)
  PROVE  Wake'
<1>1. th[t].pc = "item" /\ call.st = "done" /\ UNCHANGED <<mtx, ready, sk, wk>>
  BY DEF PollReply
<1>2. t \in Threads /\ Owes' /\ mtx' \in Threads \cup {"free"} /\ th[t].snap # <<>>
  BY <1>1, NothingOwed, ReplyForHead DEF Wake, Types, ThreadTypes, Threads
<1>3. PollReplyEffect(t)
  BY <1>2, PollReplyIs DEF Wake
<1>4. ListTypes' /\ ep'.open = ep.open /\ ep'.efd = ep.efd
  BY <1>1, <1>3, DroppedQuiet DEF PollReplyEffect, Wake
<1>5. Calls' /\ call' \in Requests
  BY <1>3, NoCallTypes DEF Calls, PollReplyEffect
<1>6. Types'
  BY <1>1, <1>2, <1>3, <1>4, <1>5, MovedTypes DEF Wake, PollReplyEffect
<1> QED BY <1>1, <1>2, <1>3, <1>4, <1>5, <1>6, ItemKeeps DEF PollReplyEffect

(* epoll_restore_snapshot() keeps the invariant: it notifies what it puts   *)
(* back.                                                                    *)
LEMMA RestoreKeeps ==
  ASSUME Wake, NEW t \in Waiters, epoll_restore_snapshot(t)
  PROVE  Wake'
<1>1. th[t].pc = "item" /\ call.st = "none" /\ UNCHANGED <<mtx, sk, wk, call>>
  BY DEF epoll_restore_snapshot
<1>2. t \in Threads /\ Alone(t) /\ mtx' = t
  BY <1>1, AtItem DEF Inside
<1>3. RestoreEffect(t)
  BY RestoreIs DEF Wake
<1>4. Moved(t, IF Kept(t) # {} THEN "notify" ELSE "decide", <<>>)
  BY RestoreMoves DEF Wake, Types
<1>5. Calls' /\ Owes' /\ call' \in Requests
  BY <1>1, NothingOwed DEF Calls, Wake, Types, ThreadTypes
<1>6. Types'
  <2>1. ListTypes'
    BY <1>3 DEF RestoreEffect, ListTypes, Eps
  <2> QED BY <1>1, <1>2, <1>4, <1>5, <2>1, MovedTypes DEF Wake
<1>7. ep'.open = ep.open /\ ep'.efd = ep.efd
  BY <1>3 DEF RestoreEffect
<1>8. CASE Kept(t) = {}
  <2>1. Moved(t, "decide", <<>>) /\ ready' = ready
    BY <1>3, <1>4, <1>8, SMTT(30) DEF RestoreEffect
  <2> QED BY <1>1, <1>5, <1>6, <1>7, <2>1, ItemKeeps, SMTT(30)
<1>9. CASE Kept(t) # {}
  <2>1. Moved(t, "notify", <<>>)
    BY <1>4, <1>9
  <2> QED BY <1>2, <1>5, <1>6, <1>7, <2>1, InsideKeeps
<1> QED BY <1>8, <1>9

(* A thread falls asleep only over an empty list or a notification. *)
LEMMA DecideKeeps ==
  ASSUME Wake, NEW t \in Waiters, Decide(t)
  PROVE  Wake'
<1>1. th[t].pc = "decide" /\ UNCHANGED <<ep, ready, item, sk, wk, call>>
  BY DEF Decide
<1>2. t \in Threads /\ Alone(t) /\ mtx = t /\ th[t].snap = <<>>
  BY <1>1, AtItem DEF Inside, Wake, SnapAt
<1>3. Calls' /\ Owes' /\ call' \in Requests
  BY <1>1, <1>2, NoCallKept, SMTT(30)
<1>4. ep' \in Eps /\ ep'.open = ep.open /\ ep'.efd = ep.efd
  BY <1>1, SMTT(30) DEF Wake, Types, ListTypes, Eps
<1>5. ASSUME NEW pc \in {"exit", "sleep"}, Moved(t, pc, th[t].snap), mtx' \in {mtx, "free"},
             pc = "exit" => mtx' = mtx
      PROVE  Wake'
  <2>1. Mutex'
    BY <1>2, <1>5, MutexKept DEF Inside
  <2>2. mtx' \in Threads \cup {"free"}
    BY <1>2, <1>5
  <2>3. Types'
    BY <1>1, <1>2, <1>3, <1>4, <1>5, <2>2, ListKept, MovedTypes DEF Wake
  <2> QED BY <1>1, <1>2, <1>3, <1>4, <1>5, <2>1, <2>3, LeaveKeeps
<1>6. DecideMove(t)
  BY DecideMoves DEF Wake, Types
<1> QED BY <1>5, <1>6 DEF DecideMove

(* Waking up keeps the invariant. *)
LEMMA PollReturnsKeeps ==
  ASSUME Wake, NEW t \in Waiters, PollReturns(t)
  PROVE  Wake'
<1>1. /\ th[t].pc = "sleep" /\ UNCHANGED <<mtx, ep, ready, item, sk, wk, call>>
      /\ t \in Threads /\ t # Ctl
  BY EpollAssumption DEF PollReturns, Threads
<1>2. th[t].snap = <<>>
  BY <1>1 DEF Wake, SnapAt
<1>3. ASSUME NEW pc \in {"relock", "expired"}, Moved(t, pc, th[t].snap)
      PROVE  Wake'
  <2>1. Mutex'
    BY <1>1, <1>3, SMTT(30) DEF Wake, Mutex, Moved, Inside
  <2>2. Calls' /\ Owes'
    BY <1>1, <1>3 DEF Wake, Calls, CtlCalls, PollCalls, Owes, Moved, Threads
  <2>3. mtx' \in Threads \cup {"free"} /\ call' \in Requests /\ ep' \in Eps
    BY <1>1, SMTT(30) DEF Wake, Types, ThreadTypes, ListTypes, Eps
  <2>4. Types'
    BY <1>1, <1>3, <2>3, ListKept, MovedTypes DEF Wake
  <2> QED BY <1>1, <1>2, <1>3, <2>1, <2>2, <2>4, LeaveKeeps
<1>4. Moved(t, "relock", th[t].snap) \/ Moved(t, "expired", th[t].snap)
  BY PollReturnsMoves DEF Wake, Types
<1> QED BY <1>3, <1>4

(* A thread that drains the eventfd looks at the list next. *)
LEMMA RelockKeeps ==
  ASSUME Wake, NEW t \in Waiters, Relock(t)
  PROVE  Wake'
<1>1. /\ th[t].pc \in {"relock", "expired"} /\ mtx = "free" /\ mtx' = t
      /\ UNCHANGED <<ready, item, sk, wk, call>> /\ t \in Threads
  BY DEF Relock, Threads
<1>2. Alone(t) /\ th[t].snap = <<>>
  BY <1>1, AloneIs DEF Wake, SnapAt
<1>3. Calls' /\ Owes' /\ call' \in Requests
  BY <1>1, <1>2, NoCallKept, SMTT(30)
<1>4. CASE Moved(t, "exit", th[t].snap) /\ ep' = ep
  <2>1. Mutex' /\ ep' \in Eps
    BY <1>1, <1>2, <1>4, MutexKept DEF Wake, Types, ListTypes, Eps
  <2>2. Types'
    BY <1>1, <1>3, <1>4, <2>1, ListKept, MovedTypes DEF Wake
  <2> QED BY <1>1, <1>2, <1>3, <1>4, <2>1, <2>2, LeaveKeeps, SMTT(30)
<1>5. CASE Moved(t, "count", th[t].snap) /\ ep.open /\ ep' = [ep EXCEPT !.efd = FALSE]
  <2>1. ep' \in Eps /\ ep'.open = ep.open
    BY <1>5, EpEfd DEF Wake, Types, EpEfdFact
  <2>2. Types'
    BY <1>1, <1>3, <1>5, <2>1, ListKept, MovedTypes DEF Wake
  <2> QED BY <1>1, <1>2, <1>3, <1>5, <2>1, <2>2, InsideKeeps
<1>6. RelockMove(t)
  BY RelockMoves DEF Wake, Types
<1> QED BY <1>4, <1>5, <1>6 DEF RelockMove

(* A waiter that notifies keeps the invariant. *)
LEMMA NotifyWaiterKeeps ==
  ASSUME Wake, NEW t \in Waiters, NotifyThread(t)
  PROVE  Wake'
<1>1. /\ th[t].pc = "notify" /\ ep' = [ep EXCEPT !.efd = TRUE] /\ t # Ctl
      /\ UNCHANGED <<mtx, ready, item, sk, wk, call>>
  BY EpollAssumption DEF NotifyThread
<1>2. t \in Threads /\ Alone(t) /\ mtx' = t /\ th[t].snap = <<>>
  BY <1>1, AtItem DEF Inside, Wake, SnapAt
<1>3. Calls' /\ Owes' /\ call' \in Requests
  BY <1>1, <1>2, NoCallKept
<1>4. Moved(t, "decide", th[t].snap)
  BY <1>1, <1>2, NotifyThreadMoves DEF Wake, Types
<1>5. ep' \in Eps /\ ep'.open = ep.open /\ ep'.efd
  BY <1>1, EpEfd DEF Wake, Types, EpEfdFact
<1>6. Types'
  BY <1>1, <1>2, <1>3, <1>4, <1>5, ListKept, MovedTypes DEF Wake
<1>7. Announced'
  BY <1>5 DEF Announced
<1> QED BY <1>2, <1>3, <1>4, <1>5, <1>6, <1>7, InsideKeeps

(* A waiter that returns keeps the invariant. *)
LEMMA ExitWaiterKeeps ==
  ASSUME Wake, NEW t \in Waiters, Exit(t)
  PROVE  Wake'
<1>1. /\ th[t].pc = "exit" /\ mtx' = "free" /\ ep' = [ep EXCEPT !.refs = @ - 1]
      /\ UNCHANGED <<ready, item, sk, wk, call>>
  BY DEF Exit
<1>2. t \in Threads /\ Alone(t)
  BY <1>1, AtItem DEF Inside
<1>3. Calls' /\ Owes' /\ call' \in Requests
  BY <1>1, <1>2, NoCallKept
<1>4. Moved(t, "idle", <<>>)
  BY <1>2, ExitMoves DEF Wake, Types
<1>5. ep' \in Eps /\ ep'.open = ep.open /\ ep'.efd = ep.efd
  BY <1>1, EpRefs, EpRefsInt DEF Wake, Types
<1>6. Types'
  BY <1>1, <1>2, <1>3, <1>4, <1>5, ListKept, MovedTypes DEF Wake
<1>7. Mutex'
  BY <1>2, <1>4, MutexKept, SMTT(30) DEF Inside
<1> QED BY <1>1, <1>3, <1>4, <1>5, <1>6, <1>7, LeaveKeeps

-----------------------------------------------------------------------------
(* The control thread's side. *)

(* A step of the control thread that leaves the object alone keeps the      *)
(* invariant.                                                               *)
LEMMA CtlKeeps ==
  ASSUME Wake, Types', Calls', Owes', Alone(Ctl),
         NEW pc \in {"idle", "ctl", "close", "notify", "exit"}, NEW snap, Moved(Ctl, pc, snap),
         pc # "idle" => mtx' = Ctl, UNCHANGED <<ready, wk>>, ClosedLoud',
         ep.efd => ep'.efd, th[Ctl].pc = "notify" => ep'.efd
  PROVE  Wake'
<1>1. Ctl \in Threads /\ Ctl \notin Waiters /\ \A u \in Waiters : u \in Threads /\ th'[u] = th[u]
  BY EpollAssumption DEF Threads, Moved
<1>2. Mutex'
  BY <1>1, MutexKept DEF Inside
<1>3. SnapAt'
  BY <1>1, SMTT(30) DEF Wake, SnapAt, Moved
<1>4. LateAnnounced'
  BY <1>1 DEF LateAnnounced, Alone, Inside
<1>5. NoSleepOverReady'
  <2>1. Attended => Attended'
    <3>1. th[Ctl].pc \notin {"count", "take"}
      BY DEF Wake, SnapAt
    <3>2. \A u \in Threads : th[u].pc \in {"notify", "count", "take"} => u = Ctl
      BY DEF Alone, Inside
    <3> QED BY <3>1, <3>2, SMTT(30) DEF Attended
  <2> QED BY <1>1, <2>1 DEF NoSleepOverReady, Wake
<1> QED BY <1>2, <1>3, <1>4, <1>5, SMTT(30) DEF Wake

(* What the control thread knows when it holds the mutex. *)
LEMMA AtCtl ==
  ASSUME Wake, th[Ctl].pc \in Inside
  PROVE  Ctl \in Threads /\ Alone(Ctl) /\ mtx = Ctl
BY AloneIs DEF Wake, Mutex, Threads

(* The notification of req_epoll_close() keeps the invariant. *)
LEMMA NotifyCtlKeeps ==
  ASSUME Wake, NotifyThread(Ctl)
  PROVE  Wake'
<1>1. /\ th[Ctl].pc = "notify" /\ ep' = [ep EXCEPT !.efd = TRUE]
      /\ UNCHANGED <<mtx, ready, item, sk, wk, call>>
  BY DEF NotifyThread
<1>2. Ctl \in Threads /\ Alone(Ctl) /\ mtx' = Ctl
  BY <1>1, AtCtl DEF Inside
<1>3. Calls' /\ Owes' /\ call' \in Requests
  BY <1>1, <1>2, NoCallKept
<1>4. Moved(Ctl, "exit", th[Ctl].snap)
  BY <1>2, NotifyThreadMoves DEF Wake, Types
<1>5. ep' \in Eps /\ ep'.open = ep.open /\ ep'.efd
  BY <1>1, EpEfd DEF Wake, Types, EpEfdFact
<1>6. Types'
  BY <1>1, <1>2, <1>3, <1>4, <1>5, ListKept, MovedTypes DEF Wake
<1>7. ClosedLoud'
  BY <1>1, <1>5 DEF Wake, ClosedLoud
<1> QED BY <1>1, <1>2, <1>3, <1>4, <1>5, <1>6, <1>7, CtlKeeps

(* The end of req_epoll_close() keeps the invariant. *)
LEMMA ExitCtlKeeps ==
  ASSUME Wake, Exit(Ctl)
  PROVE  Wake'
<1>1. /\ th[Ctl].pc = "exit" /\ mtx' = "free" /\ ep' = [ep EXCEPT !.refs = @ - 1]
      /\ UNCHANGED <<ready, item, sk, wk, call>>
  BY DEF Exit
<1>2. Ctl \in Threads /\ Alone(Ctl)
  BY <1>1, AtCtl DEF Inside
<1>3. Calls' /\ Owes' /\ call' \in Requests
  BY <1>1, <1>2, NoCallKept
<1>4. Moved(Ctl, "idle", <<>>)
  BY <1>2, ExitMoves DEF Wake, Types
<1>5. ep' \in Eps /\ ep'.open = ep.open /\ ep'.efd = ep.efd
  BY <1>1, EpRefs, EpRefsInt DEF Wake, Types
<1>6. Types'
  BY <1>1, <1>2, <1>3, <1>4, <1>5, ListKept, MovedTypes DEF Wake
<1>7. ClosedLoud'
  BY <1>1, <1>4, <1>5 DEF Wake, ClosedLoud, Moved
<1> QED BY <1>1, <1>2, <1>3, <1>4, <1>5, <1>6, <1>7, CtlKeeps

(* net_epoll_ctl() keeps the invariant. *)
LEMMA CtlCallKeeps ==
  ASSUME Wake, NEW s \in Faulty, NEW op \in {"add", "mod", "del"}, NEW w \in Watches,
         CtlCall(s, op, w)
  PROVE  Wake'
<1>1. /\ th[Ctl].pc = "idle" /\ mtx = "free" /\ mtx' = Ctl
      /\ UNCHANGED <<ep, ready, item, sk, wk>> /\ Ctl \in Threads
  BY DEF CtlCall, Threads
<1>2. Alone(Ctl) /\ ep' \in Eps
  BY <1>1, AloneIs DEF Wake, Types, ListTypes, Eps
<1>3. CtlCallMove(s, op, w)
  BY CtlCallMoves DEF Wake, Types
<1>4. Owes'
  BY <1>1, <1>2, NoCallIs, NothingOwed, SMTT(30) DEF Wake
<1>5. Calls' /\ call' \in Requests
  BY <1>3 DEF CtlCallMove, Calls, CtlCalls, Moved
<1>6. Types'
  BY <1>1, <1>2, <1>3, <1>5, ListKept, MovedTypes, SMTT(30) DEF Wake, CtlCallMove
<1>7. ClosedLoud'
  BY <1>1, <1>3, SMTT(30) DEF Wake, ClosedLoud, CtlCallMove, Moved
<1> QED BY <1>1, <1>2, <1>3, <1>4, <1>5, <1>6, <1>7, CtlKeeps DEF CtlCallMove

(* Its return keeps the invariant. *)
LEMMA CtlReturnsKeeps ==
  ASSUME Wake, CtlReturns
  PROVE  Wake'
<1>1. /\ th[Ctl].pc = "ctl" /\ call.st = "done" /\ call' = NoCall /\ mtx' = "free"
      /\ UNCHANGED <<ep, ready, item, sk, wk>>
  BY DEF CtlReturns
<1>2. Ctl \in Threads /\ Alone(Ctl) /\ ep' \in Eps
  BY <1>1, AtCtl DEF Inside, Wake, Types, ListTypes, Eps
<1>3. Moved(Ctl, "idle", th[Ctl].snap)
  BY CtlReturnsMoves, SMTT(30) DEF Wake, Types
<1>4. Owes' /\ Calls' /\ call' \in Requests
  BY <1>1, NothingOwed, NoCallTypes, SMTT(30) DEF Wake, Calls
<1>5. Types'
  BY <1>1, <1>2, <1>3, <1>4, ListKept, MovedTypes DEF Wake
<1>6. ClosedLoud'
  BY <1>1, <1>3, SMTT(30) DEF Wake, ClosedLoud, Moved
<1> QED BY <1>1, <1>2, <1>3, <1>4, <1>5, <1>6, CtlKeeps

(* The start of req_epoll_close() keeps the invariant. *)
LEMMA CloseCallKeeps ==
  ASSUME Wake, CloseCall
  PROVE  Wake'
<1>1. /\ th[Ctl].pc = "idle" /\ mtx = "free" /\ mtx' = Ctl
      /\ UNCHANGED <<ep, ready, item, sk, wk, call>> /\ Ctl \in Threads
  BY DEF CloseCall, Threads
<1>2. Alone(Ctl) /\ ep' \in Eps
  BY <1>1, AloneIs DEF Wake, Types, ListTypes, Eps
<1>3. PICK list \in Seq(Sockets) : Moved(Ctl, "close", list)
  BY CloseCallMoves DEF Wake
<1>4. Calls' /\ Owes' /\ call' \in Requests
  BY <1>1, <1>2, NoCallKept, SMTT(30)
<1>5. Types'
  BY <1>1, <1>2, <1>3, <1>4, ListKept, MovedTypes, SMTT(30) DEF Wake
<1>6. ClosedLoud'
  BY <1>1, <1>3 DEF Wake, ClosedLoud, Moved
<1> QED BY <1>1, <1>2, <1>3, <1>4, <1>5, <1>6, CtlKeeps

(* A DEL of req_epoll_close() keeps the invariant. *)
LEMMA CloseNextKeeps ==
  ASSUME Wake, CloseNext
  PROVE  Wake'
<1>1. /\ th[Ctl].pc = "close" /\ th[Ctl].snap # <<>> /\ call.st # "sent"
      /\ UNCHANGED <<mtx, ep, ready, item, sk, wk>>
  BY DEF CloseNext
<1>2. Ctl \in Threads /\ Alone(Ctl) /\ mtx' = Ctl /\ ep' \in Eps
  BY <1>1, AtCtl DEF Inside, Wake, Types, ListTypes, Eps
<1>3. Owes'
  BY <1>1, NothingOwed DEF Wake
<1>4. ASSUME NEW snap, Moved(Ctl, "close", snap), call' \in Requests, Calls'
      PROVE  Wake'
  <2>1. Types'
    BY <1>1, <1>2, <1>4, ListKept, MovedTypes, SMTT(30) DEF Wake
  <2>2. ClosedLoud'
    BY <1>1, <1>4 DEF Wake, ClosedLoud, Moved
  <2> QED BY <1>1, <1>2, <1>3, <1>4, <2>1, <2>2, CtlKeeps, SMTT(30)
<1>5. CASE /\ th' = th /\ call' \in Requests /\ call'.st = "sent" /\ call'.op = "del"
           /\ call'.s \in Sockets
  <2>1. Calls'
    BY <1>1, <1>5 DEF Calls, CtlCalls
  <2>2. Moved(Ctl, "close", th[Ctl].snap)
    BY <1>1, <1>5 DEF Wake, Types, ThreadTypes, Moved
  <2> QED BY <1>4, <1>5, <2>1, <2>2
<1>6. CASE Moved(Ctl, "close", Tail(th[Ctl].snap)) /\ call' = NoCall
  <2>1. Calls' /\ call' \in Requests
    BY <1>6, NoCallTypes DEF Calls
  <2> QED BY <1>4, <1>6, <2>1
<1>7. CloseNextMove
  BY CloseNextMoves DEF Wake, Types
<1> QED BY <1>5, <1>6, <1>7 DEF CloseNextMove

(* The cleared entry is announced by the thread that cleared it. *)
LEMMA CloseEntryKeeps ==
  ASSUME Wake, CloseEntry
  PROVE  Wake'
<1>1. /\ th[Ctl].pc = "close" /\ th[Ctl].snap = <<>> /\ ep' = [ep EXCEPT !.open = FALSE]
      /\ UNCHANGED <<mtx, ready, item, sk, wk, call>>
  BY DEF CloseEntry
<1>2. Ctl \in Threads /\ Alone(Ctl) /\ mtx' = Ctl
  BY <1>1, AtCtl DEF Inside
<1>3. call.st = "none"
  BY <1>1, <1>2 DEF Wake, Calls, CtlCalls, PollCalls, Alone, Threads, Inside
<1>4. Calls' /\ Owes' /\ call' \in Requests
  BY <1>1, <1>3, NothingOwed DEF Wake, Calls, Types, ThreadTypes
<1>5. Moved(Ctl, "notify", th[Ctl].snap)
  BY CloseEntryMoves DEF Wake, Types
<1>6. EpCloseFact
  BY <1>1, EpClose DEF Wake, Types
<1>7. Types'
  BY <1>1, <1>2, <1>4, <1>5, <1>6, ListKept, MovedTypes DEF Wake, EpCloseFact
<1>8. ClosedLoud'
  BY <1>5, <1>6 DEF ClosedLoud, Moved, EpCloseFact
<1> QED BY <1>1, <1>2, <1>4, <1>5, <1>6, <1>7, <1>8, CtlKeeps DEF EpCloseFact

-----------------------------------------------------------------------------
(* The invariant. *)

(* Every step of the epoll object keeps what wakes the sleepers. *)
LEMMA NextWake == Wake /\ [Next]_vars => Wake'
<1> SUFFICES ASSUME Wake, [Next]_vars PROVE Wake'
  OBVIOUS
<1>1. ASSUME NEW s \in Sockets, WorkerStep(s) PROVE Wake'
  BY <1>1, WorkerSide, WorkSideKeeps DEF Wake
<1>2. ASSUME NEW s \in Sockets, SocketStep(s) PROVE Wake'
  BY <1>2, SocketStepSide, WorkSideKeeps DEF Wake
<1>3. ASSUME NEW t \in Waiters, WaitCall(t) \/ ThreadStep(t) PROVE Wake'
  BY <1>3, WaitCallKeeps, SnapshotCountKeeps, SnapshotTakeKeeps, PollItemKeeps, PollReplyKeeps,
     RestoreKeeps, DecideKeeps, PollReturnsKeeps, RelockKeeps DEF ThreadStep
<1>4. ASSUME NEW t \in Threads, Leaving(t) PROVE Wake'
  BY <1>4, NotifyWaiterKeeps, ExitWaiterKeeps, NotifyCtlKeeps, ExitCtlKeeps
  DEF Leaving, Threads
<1>5. ASSUME CtlStep \/ CloseCall PROVE Wake'
  BY <1>5, CtlReturnsKeeps, CloseNextKeeps, CloseEntryKeeps, CloseCallKeeps DEF CtlStep
<1>6. ASSUME NEW s \in Faulty, NEW op \in {"add", "mod", "del"}, NEW w \in Watches,
             CtlCall(s, op, w)
      PROVE  Wake'
  BY <1>6, CtlCallKeeps
<1>7. CASE UNCHANGED vars
  <2>1. mtx' = mtx /\ ep' = ep /\ ready' = ready /\ item' = item /\ sk' = sk /\ wk' = wk
        /\ th' = th /\ call' = call /\ fuel' = fuel
    BY <1>7 DEF vars
  <2>2. Types
    BY DEF Wake
  <2>3. ThreadTypes'
    BY <2>1, <2>2 DEF Types, ThreadTypes
  <2>4. ListTypes'
    BY <2>1, <2>2 DEF Types, ListTypes, Once
  <2>5. WorkTypes'
    BY <2>1, <2>2 DEF Types, WorkTypes
  <2>6. Types'
    BY <2>2, <2>3, <2>4, <2>5 DEF Types, Counted
  <2>7. Mutex'
    BY <2>1 DEF Wake, Mutex
  <2>8. Calls'
    BY <2>1 DEF Wake, Calls, CtlCalls, PollCalls
  <2>9. SnapAt'
    BY <2>1 DEF Wake, SnapAt
  <2>10. Owes'
    BY <2>1 DEF Wake, Owes
  <2>11. ClosedLoud'
    BY <2>1 DEF Wake, ClosedLoud
  <2>12. LateAnnounced'
    BY <2>1 DEF Wake, LateAnnounced, Announced
  <2>13. NoSleepOverReady'
    BY <2>1 DEF Wake, NoSleepOverReady, Announced, Attended
  <2> QED BY <2>6, <2>7, <2>8, <2>9, <2>10, <2>11, <2>12, <2>13 DEF Wake
<1>8. CASE Next
  <2>1. \/ \E s \in Sockets : WorkerStep(s)
        \/ \E t \in Waiters : WaitCall(t) \/ ThreadStep(t)
        \/ \E t \in Threads : Leaving(t)
        \/ CtlStep \/ CloseCall
        \/ \E s \in Sockets : SocketStep(s)
        \/ \E s \in Faulty, op \in {"add", "mod", "del"} : \E w \in Watches : CtlCall(s, op, w)
    <3>1. Faulty \subseteq Sockets
      BY EpollAssumption
    <3> QED BY <1>8, <3>1 DEF Next, SocketStep
  <2> QED BY <1>1, <1>2, <1>3, <1>4, <1>5, <1>6, <2>1
<1> QED BY <1>7, <1>8

=============================================================================
