-------------------------------- MODULE Epoll --------------------------------
(***************************************************************************)
(* The epoll object of main/req_epoll.c and the readiness notifications of *)
(* main/stack.c that feed it.  Application threads call net_epoll_wait(),  *)
(* net_epoll_ctl() and net_close(); every socket is served by a worker of  *)
(* its own, which handles requests, runs the socket's pending task and     *)
(* closes the socket while threads sleep or hold a snapshot.               *)
(*                                                                         *)
(* A thread holds entry->mtx except across poll(), so at most one thread   *)
(* has a request under way (call).  The steps are cut at ready_lock, at    *)
(* notify_queue_notify() and at the request handed to a worker.            *)
(* NotifyQueue has the compare-exchange and the write inside a             *)
(* notification; here it makes the eventfd readable in one step.           *)
(***************************************************************************)
EXTENDS Integers, FiniteSets, Sequences, Functions

CONSTANTS Sockets,          \* socket fds; each has a worker of its own
          Waiters,          \* threads that call net_epoll_wait()
          Hasty,            \* waiters whose poll() may time out or be interrupted
          Ctl,              \* the thread that calls net_epoll_ctl(), net_close()
          Faulty,           \* sockets that may report an error, be closed, and be
                            \* registered, modified and removed meanwhile
          Readers,          \* blocking net_read() calls, on the other sockets
          MaxEvents,        \* maxevents of net_epoll_wait()
          Bound,            \* bound on what the environment does (fuel)
          Watches           \* the event masks that are registered for Faulty sockets

Threads == Waiters \cup {Ctl}

ASSUME EpollAssumption ==
  /\ Hasty \subseteq Waiters /\ Ctl \notin Waiters /\ Faulty \subseteq Sockets
  /\ "free" \notin Threads
  /\ IsFiniteSet(Sockets) /\ IsFiniteSet(Readers) /\ Sockets \cap Readers = {}
  /\ IsFiniteSet(Waiters)
  /\ MaxEvents \in Nat \ {0}
  /\ Watches \subseteq SUBSET {"in", "et"} /\ {"in"} \in Watches

VARIABLES
  mtx,    \* the holder of entry->mtx
  ep,     \* open: entry->value points to it; refs; efd: ready_q is readable
  ready,  \* ep->ready_items, from the head
  item,   \* each socket's net_epoll_item: reg (in registered_sockfds and in
          \* sock->pending), useful, watch, ev (ready_events), refs
  sk,     \* each socket: st (value is set, cleared, slot empty), data, err,
          \* bits (notified_events), task (pending_task registered), parked
  wk,     \* each worker: pc, the rest of the pending walk, its events, and
          \* the reply it owes once the notification is out
  th,     \* each thread: pc, snapshot, the room counted for it, events found
  call,   \* the request of the mutex holder: st, s, op, watch, mask
  fuel    \* arrivals, errors, reads, closes and calls of the control thread left

vars == <<mtx, ep, ready, item, sk, wk, th, call, fuel>>

NoItem == [reg |-> FALSE, useful |-> FALSE, watch |-> {}, ev |-> {}, refs |-> 0]
NewSock == [st |-> "open", data |-> 0, err |-> FALSE, bits |-> {}, task |-> FALSE,
            parked |-> {}]
NoCall == [st |-> "none", s |-> "-", op |-> "-", watch |-> {}, mask |-> {}]
NoReply == {"none"}
IdleThread == [pc |-> "idle", snap |-> <<>>, room |-> 0, got |-> 0]

(* After req_epoll_create() and an ADD of each socket that is not Faulty. *)
Init ==
  /\ mtx = "free"
  /\ ep = [open |-> TRUE, refs |-> 1 + Cardinality(Sockets \ Faulty), efd |-> FALSE]
  /\ ready = <<>>
  /\ item = [s \in Sockets |->
               IF s \in Faulty THEN NoItem
               ELSE [reg |-> TRUE, useful |-> TRUE, watch |-> {"in"}, ev |-> {}, refs |-> 1]]
  /\ sk = [s \in Sockets |-> NewSock]
  /\ wk = [s \in Sockets |-> [pc |-> "idle", todo |-> <<>>, ev |-> {}, reply |-> NoReply]]
  /\ th = [t \in Threads |-> IdleThread]
  /\ call = NoCall
  /\ fuel = Bound

(* The lists that hold each element of a set once. *)
Orders(S) == Bijection(1..Cardinality(S), S)

-----------------------------------------------------------------------------
(* The socket as its worker sees it.                                       *)

(* protocol_ops->poll(), e.g. udp_poll(), for the events in question. *)
Poll(s) == (IF sk[s].data > 0 THEN {"in"} ELSE {}) \cup (IF sk[s].err THEN {"err"} ELSE {})

(* epoll_notify_hint() for notify_data_read and notify_err. *)
epoll_notify_hint(ev) == ev

HasWaiter(s) == item[s].reg \/ sk[s].parked # {}

(* Mutation: a notification is coalesced with bits that nobody will deliver. *)
NotifiedSkipStale(s, so, ev) ==
  [so EXCEPT !.bits = @ \cup {ev}, !.task = @ \/ (HasWaiter(s) /\ ev \notin so.bits)]

(* socket_notify_event(): the event bit is kept in any case; the pending   *)
(* task is registered unless nobody waits.                                 *)
Notified(s, so, ev) ==
  [so EXCEPT !.bits = @ \cup {ev}, !.task = @ \/ HasWaiter(s)]

-----------------------------------------------------------------------------
(* ready_lock sections.                                                    *)

(* EPOLLERR and EPOLLHUP are reported even when they were not requested. *)
epoll_interest(watch) == watch \cup {"err"}

Fresh(it, events, merge) ==
  (events \cap epoll_interest(it.watch)) \cup (IF merge THEN it.ev ELSE {})

(* The item's node leaves the list it is on; it is there once at most. *)
Unlinked(q, s) ==
  LET i == CHOOSE j \in 1..Len(q) : q[j] = s
  IN  IF s \in Range(q) THEN SubSeq(q, 1, i - 1) \o SubSeq(q, i + 1, Len(q)) ELSE q

(* epoll_update_ready_locked(): it is s's item as it is to be afterwards,   *)
(* but for its ready_events.                                               *)
UpdateReady(s, it, events, merge) ==
  LET new == Fresh(it, events, merge) IN
  /\ item' = [item EXCEPT ![s] = [it EXCEPT !.ev = new]]
  /\ ready' = CASE new = {} -> Unlinked(ready, s)
                [] new # {} /\ s \notin Range(ready) -> <<s>> \o ready
                [] OTHER -> ready

(* Mutation: only the first item on the list is worth a wakeup. *)
WakesIfFirst(s, it, events, merge) == Fresh(it, events, merge) # {} /\ ready = <<>>

(* ... and its result: a waiter should be woken. *)
Wakes(s, it, events, merge) ==
  LET new == Fresh(it, events, merge) IN
  new # {} /\ (s \notin Range(ready) \/ new # it.ev)

(* PUT_REF() of an item, which frees it with the last reference; the freed  *)
(* item gives back its own reference to the epoll object.                  *)
PutItem(it) == IF it.refs = 1 THEN NoItem ELSE [it EXCEPT !.refs = @ - 1]
EpAfterPut(it) == [ep EXCEPT !.refs = IF it.refs = 1 THEN @ - 1 ELSE @]

(* Mutation: an unregistered item stays useful. *)
UnregisterUseful(s) ==
  /\ UpdateReady(s, PutItem([item[s] EXCEPT !.reg = FALSE]), {}, FALSE)
  /\ ep' = EpAfterPut(item[s])

(* epoll_item_unregister(), after the item left the hash and sock->pending. *)
epoll_item_unregister(s) ==
  /\ UpdateReady(s, PutItem([item[s] EXCEPT !.reg = FALSE, !.useful = FALSE]), {}, FALSE)
  /\ ep' = EpAfterPut(item[s])

-----------------------------------------------------------------------------
(* Workers.                                                                *)

(* The request is answered (req_notify()), or the worker goes on with the  *)
(* pending list it walks.                                                  *)
Answer(s, reply) ==
  /\ wk' = [wk EXCEPT ![s].pc = IF reply = NoReply THEN "walk" ELSE "idle", ![s].reply = NoReply]
  /\ call' = IF reply = NoReply THEN call ELSE [call EXCEPT !.st = "done", !.mask = reply]

(* One ready_lock section of worker s, and what follows it. *)
Update(s, it, events, merge, reply) ==
  /\ UpdateReady(s, it, events, merge)
  /\ IF Wakes(s, it, events, merge)
       THEN wk' = [wk EXCEPT ![s].pc = "notify", ![s].reply = reply] /\ UNCHANGED call
       ELSE Answer(s, reply)

Called(s, op) == wk[s].pc = "idle" /\ call.st = "sent" /\ call.s = s /\ call.op = op

(* The socket is gone: _epoll_ctl() and _poll() answer EBADF, and so does   *)
(* process_request() for an entry that has no worker any more.             *)
CallBadf(s) ==
  /\ wk[s].pc = "idle" /\ call.st = "sent" /\ call.s = s /\ sk[s].st # "open"
  /\ Answer(s, {})
  /\ UNCHANGED <<mtx, ep, ready, item, sk, th>>

(* _poll() with epoll_poll_complete(): a level-triggered item that is still *)
(* ready goes back on the list.                                            *)
_poll(s) ==
  /\ Called(s, "poll") /\ sk[s].st = "open"
  /\ Update(s, item[s], IF "et" \in item[s].watch THEN {} ELSE Poll(s), FALSE, Poll(s))
  /\ UNCHANGED <<mtx, ep, sk, th>>

(* epoll_ctl_add(): EEXIST, or a new item with one reference. *)
epoll_ctl_add(s) ==
  /\ Called(s, "add") /\ sk[s].st = "open"
  /\ IF item[s].reg
       THEN Answer(s, {}) /\ UNCHANGED <<ep, ready, item>>
       ELSE /\ Update(s, [reg |-> TRUE, useful |-> TRUE, watch |-> call.watch, ev |-> {},
                          refs |-> 1], Poll(s), FALSE, {})
            /\ ep' = [ep EXCEPT !.refs = @ + 1]
  /\ UNCHANGED <<mtx, sk, th>>

(* Mutation: the new mask is not compared with the socket's readiness. *)
ModQuiet(s) ==
  /\ Called(s, "mod") /\ sk[s].st = "open"
  /\ item' = [item EXCEPT ![s].watch = IF item[s].reg THEN call.watch ELSE @]
  /\ Answer(s, {})
  /\ UNCHANGED <<mtx, ep, sk, th, ready>>

(* epoll_ctl_mod(): ENOENT, or the new mask and, if the socket is ready for *)
(* it, the new readiness.                                                  *)
epoll_ctl_mod(s) ==
  LET it == [item[s] EXCEPT !.watch = call.watch] IN
  /\ Called(s, "mod") /\ sk[s].st = "open"
  /\ IF item[s].reg /\ Poll(s) \cap epoll_interest(call.watch) # {}
       THEN Update(s, it, Poll(s), FALSE, {})
       ELSE /\ item' = IF item[s].reg THEN [item EXCEPT ![s] = it] ELSE item
            /\ Answer(s, {})
            /\ UNCHANGED ready
  /\ UNCHANGED <<mtx, ep, sk, th>>

epoll_ctl_del(s) ==
  /\ Called(s, "del") /\ sk[s].st = "open"
  /\ IF item[s].reg THEN epoll_item_unregister(s) ELSE UNCHANGED <<ep, ready, item>>
  /\ Answer(s, {})
  /\ UNCHANGED <<mtx, sk, th>>

(* notify_queue_notify() after the ready_lock section. *)
NotifyWorker(s) ==
  /\ wk[s].pc = "notify"
  /\ ep' = [ep EXCEPT !.efd = TRUE]
  /\ Answer(s, wk[s].reply)
  /\ UNCHANGED <<mtx, ready, item, sk, th>>

-----------------------------------------------------------------------------
(* What else happens to a socket on its worker.                            *)

Serving(s) == wk[s].pc = "idle" /\ sk[s].st = "open"

(* Data arrives (socket_recv_skb(), tcp_recv_data()); one item is enough.   *)
Arrive(s) ==
  /\ Serving(s) /\ sk[s].data = 0
  /\ sk' = [sk EXCEPT ![s] = Notified(s, [@ EXCEPT !.data = 1], "in")]
  /\ UNCHANGED <<mtx, ep, ready, item, wk, th, call>>

(* An error is reported, e.g. udp_icmp_process(). *)
Fail(s) ==
  /\ Serving(s) /\ ~ sk[s].err
  /\ sk' = [sk EXCEPT ![s] = Notified(s, [@ EXCEPT !.err = TRUE], "err")]
  /\ UNCHANGED <<mtx, ep, ready, item, wk, th, call>>

(* A read takes the data, or the pending error. *)
Take(so) == IF so.data > 0 THEN [so EXCEPT !.data = 0] ELSE [so EXCEPT !.err = FALSE]
Readable(so) == so.data > 0 \/ so.err

NonblockingRead(s) ==
  /\ Serving(s) /\ Readable(sk[s])
  /\ sk' = [sk EXCEPT ![s] = Take(@)]
  /\ UNCHANGED <<mtx, ep, ready, item, wk, th, call>>

(* A blocking read that finds nothing is parked by wait(). *)
BlockingRead(s, r) ==
  /\ Serving(s) /\ ~ Readable(sk[s])
  /\ \A x \in Sockets : r \notin sk[x].parked
  /\ sk' = [sk EXCEPT ![s].parked = @ \cup {r}]
  /\ UNCHANGED <<mtx, ep, ready, item, wk, th, call>>

(* socket_pending_task_cb(): the events are taken and cleared before the   *)
(* callbacks run.                                                          *)
PendingTask(s) ==
  /\ Serving(s) /\ sk[s].task
  /\ \E walk \in Orders(sk[s].parked \cup (IF item[s].reg THEN {s} ELSE {})) :
       wk' = [wk EXCEPT ![s] = [pc |-> "walk", todo |-> walk, ev |-> sk[s].bits,
                                reply |-> NoReply]]
  /\ sk' = [sk EXCEPT ![s].task = FALSE, ![s].bits = {}]
  /\ UNCHANGED <<mtx, ep, ready, item, th, call>>

(* epoll_pending_cb(): what was notified and is still so is merged. *)
WalkItem(s) ==
  /\ wk[s].pc = "walk" /\ wk[s].todo # <<>> /\ Head(wk[s].todo) = s
  /\ LET hit == epoll_notify_hint(wk[s].ev) \cap Poll(s) IN
     /\ UpdateReady(s, item[s], hit, TRUE)
     /\ wk' = [wk EXCEPT ![s].todo = Tail(@),
                         ![s].pc = IF Wakes(s, item[s], hit, TRUE) THEN "notify" ELSE "walk"]
  /\ UNCHANGED <<mtx, ep, sk, th, call>>

(* req_pending_cb(): the parked request leaves the list and runs again; it *)
(* completes, or wait() parks it anew.                                     *)
WalkReader(s) ==
  /\ wk[s].pc = "walk" /\ wk[s].todo # <<>> /\ Head(wk[s].todo) \in Readers
  /\ wk' = [wk EXCEPT ![s].todo = Tail(@)]
  /\ sk' = IF Readable(sk[s])
             THEN [sk EXCEPT ![s] = [Take(@) EXCEPT !.parked = sk[s].parked \ {Head(wk[s].todo)}]]
             ELSE sk
  /\ UNCHANGED <<mtx, ep, ready, item, th, call>>

WalkEnd(s) ==
  /\ wk[s].pc = "walk" /\ wk[s].todo = <<>>
  /\ wk' = [wk EXCEPT ![s].pc = "idle", ![s].ev = {}]
  /\ UNCHANGED <<mtx, ep, ready, item, sk, th, call>>

(* _close(): socket_detach_with_fd_entry() clears the entry's value ... *)
CloseSocket(s) ==
  /\ Serving(s)
  /\ sk' = [sk EXCEPT ![s].st = "closing"]
  /\ UNCHANGED <<mtx, ep, ready, item, wk, th, call>>

(* ... takes the items out of their epoll objects and fails the parked     *)
(* requests; the socket is destroyed with its pending task.                *)
DetachSocket(s) ==
  /\ wk[s].pc = "idle" /\ sk[s].st = "closing"
  /\ IF item[s].reg THEN epoll_item_unregister(s) ELSE UNCHANGED <<ep, ready, item>>
  /\ sk' = [sk EXCEPT ![s] = [NewSock EXCEPT !.st = "closed"]]
  /\ UNCHANGED <<mtx, wk, th, call>>

(* alloc_fd_entry_with_worker() reuses the slot for a new socket once the  *)
(* last holder of the old entry let go of it (destroy_fd_entry()).         *)
ReopenSocket(s) ==
  /\ sk[s].st = "closed" /\ wk[s].pc = "idle"
  /\ ~ (call.st # "none" /\ call.s = s)
  /\ sk' = [sk EXCEPT ![s] = NewSock]
  /\ UNCHANGED <<mtx, ep, ready, item, wk, th, call>>

WorkerStep(s) ==
  \/ CallBadf(s) \/ _poll(s) \/ epoll_ctl_add(s) \/ epoll_ctl_mod(s) \/ epoll_ctl_del(s)
  \/ NotifyWorker(s)
  \/ PendingTask(s) \/ WalkItem(s) \/ WalkReader(s) \/ WalkEnd(s) \/ DetachSocket(s)

-----------------------------------------------------------------------------
(* Threads.                                                                *)

Go(t, pc) == th' = [th EXCEPT ![t].pc = pc]

(* req_push_wait() to the worker of the held entry. *)
Push(s, op, watch) == call' = [st |-> "sent", s |-> s, op |-> op, watch |-> watch, mask |-> {}]

(* net_epoll_wait(): EBADF on a closed object, else a reference to it. *)
WaitCall(t) ==
  /\ th[t].pc = "idle" /\ mtx = "free" /\ ep.open
  /\ mtx' = t
  /\ ep' = [ep EXCEPT !.refs = @ + 1]
  /\ Go(t, "count")
  /\ UNCHANGED <<ready, item, sk, wk, call>>

(* epoll_take_snapshot(): count the items and make room for them ... *)
SnapshotCount(t) ==
  /\ th[t].pc = "count"
  /\ th' = [th EXCEPT ![t].room = Len(ready), ![t].pc = "take"]
  /\ UNCHANGED <<mtx, ep, ready, item, sk, wk, call>>

(* ... and detach the first n, as many as there is room for, in a second    *)
(* section; the array may be larger from an earlier turn of the loop.      *)
SnapshotTake(t, n) ==
  LET took == SubSeq(ready, 1, n) IN
  /\ th[t].pc = "take"
  /\ n = Len(ready) \/ n \in th[t].room..Len(ready)
  /\ th' = [th EXCEPT ![t].pc = "item", ![t].room = 0,
                      ![t].snap = [i \in 1..n |-> [s |-> took[i], watch |-> item[took[i]].watch,
                                                   ev |-> item[took[i]].ev]]]
  /\ item' = [s \in Sockets |-> IF s \in Range(took)
                                  THEN [item[s] EXCEPT !.ev = {}, !.refs = @ + 1] ELSE item[s]]
  /\ ready' = SubSeq(ready, n + 1, Len(ready))
  /\ UNCHANGED <<mtx, ep, sk, wk, call>>

More(t) == th[t].snap # <<>> /\ th[t].got < MaxEvents

(* The next candidate is polled on its worker if its entry can be held and *)
(* the item is still registered; otherwise it is dropped.                  *)
PollItem(t) ==
  LET s == Head(th[t].snap).s IN
  /\ th[t].pc = "item" /\ More(t) /\ call.st = "none"
  /\ IF sk[s].st # "closed" /\ item[s].useful
       THEN Push(s, "poll", {}) /\ UNCHANGED <<ep, item, th>>
       ELSE /\ item' = [item EXCEPT ![s] = PutItem(@)]
            /\ ep' = EpAfterPut(item[s])
            /\ th' = [th EXCEPT ![t].snap = Tail(@)]
            /\ UNCHANGED call
  /\ UNCHANGED <<mtx, ready, sk, wk>>

PollReply(t) ==
  LET c == Head(th[t].snap)
      mask == call.mask \cap epoll_interest(c.watch)
  IN
  /\ th[t].pc = "item" /\ call.st = "done"
  /\ call' = NoCall
  /\ item' = [item EXCEPT ![c.s] = PutItem(@)]
  /\ ep' = EpAfterPut(item[c.s])
  /\ th' = [th EXCEPT ![t].snap = Tail(@), ![t].got = IF mask # {} THEN @ + 1 ELSE @]
  /\ UNCHANGED <<mtx, ready, sk, wk>>

(* epoll_restore_snapshot(): what lies beyond maxevents goes back to the   *)
(* head of the list in its old order, unless it was unregistered meanwhile. *)
epoll_restore_snapshot(t) ==
  LET rest == th[t].snap
      held == {rest[i].s : i \in DOMAIN rest}
      queued(s) == UNION {rest[i].ev : i \in {j \in DOMAIN rest : rest[j].s = s}}
      ev(s) == item[s].ev \cup queued(s)
      kept == {s \in held : item[s].useful /\ ev(s) # {} /\ s \notin Range(ready)}
      place(s) == CHOOSE i \in DOMAIN rest : rest[i].s = s
  IN
  /\ th[t].pc = "item" /\ ~ More(t) /\ call.st = "none"
  /\ item' = [s \in Sockets |->
                IF s \notin held THEN item[s]
                ELSE PutItem(IF item[s].useful THEN [item[s] EXCEPT !.ev = ev(s)] ELSE item[s])]
  /\ ep' = [ep EXCEPT !.refs = @ - Cardinality({s \in held : item[s].refs = 1})]
  /\ \E back \in Orders(kept) :
       /\ \A i, j \in DOMAIN back : i < j => place(back[i]) < place(back[j])
       /\ ready' = back \o ready
  /\ th' = [th EXCEPT ![t].snap = <<>>,
                      ![t].pc = IF kept # {} THEN "notify" ELSE "decide"]
  /\ UNCHANGED <<mtx, sk, wk, call>>

(* notify_queue_notify() by a thread. *)
NotifyThread(t) ==
  /\ th[t].pc = "notify"
  /\ ep' = [ep EXCEPT !.efd = TRUE]
  /\ Go(t, IF t = Ctl THEN "exit" ELSE "decide")
  /\ UNCHANGED <<mtx, ready, item, sk, wk, call>>

(* Events were found: return; otherwise sleep without the mutex, unless    *)
(* the deadline has passed.                                                *)
Decide(t) ==
  /\ th[t].pc = "decide"
  /\ \/ th[t].got > 0 /\ Go(t, "exit") /\ UNCHANGED mtx
     \/ th[t].got = 0 /\ t \in Hasty /\ Go(t, "exit") /\ UNCHANGED mtx
     \/ th[t].got = 0 /\ Go(t, "sleep") /\ mtx' = "free"
  /\ UNCHANGED <<ep, ready, item, sk, wk, call>>

(* poll() returns: the eventfd is readable, the time is up, or a signal. *)
PollReturns(t) ==
  /\ th[t].pc = "sleep"
  /\ \/ ep.efd /\ Go(t, "relock")
     \/ t \in Hasty /\ Go(t, "expired")
  /\ UNCHANGED <<mtx, ep, ready, item, sk, wk, call>>

(* Mutation: the eventfd is drained before the entry is looked at. *)
RelockDrains(t) ==
  /\ th[t].pc \in {"relock", "expired"} /\ mtx = "free"
  /\ mtx' = t
  /\ ep' = [ep EXCEPT !.efd = FALSE]
  /\ Go(t, IF ~ ep.open \/ th[t].pc = "expired" THEN "exit" ELSE "count")
  /\ UNCHANGED <<ready, item, sk, wk, call>>

(* The mutex is taken again: closed meanwhile, no event, or                *)
(* notify_queue_drain() and another turn of the loop.                      *)
Relock(t) ==
  /\ th[t].pc \in {"relock", "expired"} /\ mtx = "free"
  /\ mtx' = t
  /\ LET leave == ~ ep.open \/ th[t].pc = "expired" IN
     /\ ep' = IF leave THEN ep ELSE [ep EXCEPT !.efd = FALSE]
     /\ Go(t, IF leave THEN "exit" ELSE "count")
  /\ UNCHANGED <<ready, item, sk, wk, call>>

(* The end of net_epoll_wait() and of the close: unlock, PUT_REF(ep). *)
Exit(t) ==
  /\ th[t].pc = "exit"
  /\ mtx' = "free"
  /\ ep' = [ep EXCEPT !.refs = @ - 1]
  /\ th' = [th EXCEPT ![t] = IdleThread]
  /\ UNCHANGED <<ready, item, sk, wk, call>>

(* net_epoll_ctl(): the socket's entry must be there and hold a socket. *)
CtlCall(s, op, watch) ==
  /\ th[Ctl].pc = "idle" /\ mtx = "free" /\ ep.open
  /\ sk[s].st = "open"
  /\ mtx' = Ctl
  /\ Push(s, op, watch)
  /\ Go(Ctl, "ctl")
  /\ UNCHANGED <<ep, ready, item, sk, wk>>

CtlReturns ==
  /\ th[Ctl].pc = "ctl" /\ call.st = "done"
  /\ call' = NoCall /\ mtx' = "free"
  /\ Go(Ctl, "idle")
  /\ UNCHANGED <<ep, ready, item, sk, wk>>

(* req_epoll_close(): the registered sockets are listed under the mutex ... *)
CloseCall ==
  /\ th[Ctl].pc = "idle" /\ mtx = "free" /\ ep.open
  /\ mtx' = Ctl
  /\ \E list \in Orders({s \in Sockets : item[s].reg}) :
       th' = [th EXCEPT ![Ctl].pc = "close", ![Ctl].snap = list]
  /\ UNCHANGED <<ep, ready, item, sk, wk, call>>

(* ... a DEL is sent to the worker of each that still has its socket ... *)
CloseNext ==
  LET s == Head(th[Ctl].snap) IN
  /\ th[Ctl].pc = "close" /\ th[Ctl].snap # <<>> /\ call.st # "sent"
  /\ IF call.st = "none" /\ sk[s].st = "open"
       THEN Push(s, "del", {}) /\ UNCHANGED th
       ELSE call' = NoCall /\ th' = [th EXCEPT ![Ctl].snap = Tail(@)]
  /\ UNCHANGED <<mtx, ep, ready, item, sk, wk>>

(* ... and the entry is cleared, the waiters notified, the object let go. *)
CloseEntry ==
  /\ th[Ctl].pc = "close" /\ th[Ctl].snap = <<>>
  /\ ep' = [ep EXCEPT !.open = FALSE]
  /\ Go(Ctl, "notify")
  /\ UNCHANGED <<mtx, ready, item, sk, wk, call>>

ThreadStep(t) ==
  \/ SnapshotCount(t) \/ (\E n \in 0..Len(ready) : SnapshotTake(t, n))
  \/ PollItem(t) \/ PollReply(t)
  \/ epoll_restore_snapshot(t) \/ Decide(t) \/ PollReturns(t) \/ Relock(t)

Leaving(t) == NotifyThread(t) \/ Exit(t)

CtlStep == CtlReturns \/ CloseNext \/ CloseEntry

Next ==
  \/ /\ \/ \E s \in Sockets : WorkerStep(s)
        \/ \E t \in Waiters : WaitCall(t) \/ ThreadStep(t)
        \/ \E t \in Threads : Leaving(t)
        \/ CtlStep \/ CloseCall
     /\ UNCHANGED fuel
  \/ /\ fuel > 0 /\ fuel' = fuel - 1
     /\ \/ \E s \in Sockets : Arrive(s) \/ NonblockingRead(s)
        \/ \E s \in Faulty : Fail(s) \/ CloseSocket(s) \/ ReopenSocket(s)
        \/ \E s \in Sockets \ Faulty, r \in Readers : BlockingRead(s, r)
        \/ \E s \in Faulty, op \in {"add", "mod", "del"} :
             \E w \in Watches : CtlCall(s, op, w)

Spec == Init /\ [][Next]_vars

-----------------------------------------------------------------------------
(* The epoll object, its items, the sockets and the threads are in the     *)
(* states that req_epoll.c and stack.c know.                               *)
TypeOK ==
  /\ mtx \in Threads \cup {"free"}
  /\ ep \in [open : BOOLEAN, refs : Nat, efd : BOOLEAN]
  /\ ready \in Seq(Sockets) /\ IsInjective(ready)
  /\ \A s \in Sockets :
       /\ item[s].refs \in Nat /\ item[s].ev \subseteq {"in", "err"}
       /\ item[s].watch \in Watches \cup {{}}
       /\ sk[s].st \in {"open", "closing", "closed"} /\ sk[s].parked \subseteq Readers
       /\ wk[s].pc \in {"idle", "notify", "walk"}
  /\ \A t \in Threads :
       th[t].pc \in {"idle", "count", "take", "item", "notify", "decide", "sleep",
                     "relock", "expired", "exit", "ctl", "close"}

(* Someone is about to write the eventfd, or will look at the list before  *)
(* it sleeps.                                                              *)
Attended ==
  \/ ep.efd
  \/ \E s \in Sockets : wk[s].pc = "notify"
  \/ \E t \in Threads : th[t].pc \in {"notify", "count", "take"}

(* req_epoll_wait() never sleeps over a ready item: while a thread is in   *)
(* poll() and ready_items is not empty, the eventfd is readable, a         *)
(* notification is under way, or the thread that drained it has yet to     *)
(* take its snapshot.                                                      *)
NoSleepOverReady ==
  (ready # <<>> /\ \E t \in Waiters : th[t].pc = "sleep") => Attended

(* The candidate is in the snapshot of a waiter that has yet to poll it. *)
InSnapshot(s) ==
  \E t \in Waiters : \E i \in DOMAIN th[t].snap : th[t].snap[i].s = s

(* The socket's pending task will run epoll_pending_cb() with event e. *)
Underway(s, e) ==
  \/ sk[s].task /\ e \in sk[s].bits
  \/ wk[s].pc # "idle" /\ s \in Range(wk[s].todo) /\ e \in wk[s].ev

(* A level-triggered registration never loses readiness: an event that the *)
(* socket has and the item watches is in ready_events, or the item is in a *)
(* snapshot that will be polled or put back, or the notification is still  *)
(* on its way (socket_notify_event(), epoll_poll_complete(),               *)
(* epoll_ctl_mod(), epoll_restore_snapshot()).                             *)
LevelNeverLost ==
  \A s \in Sockets :
    (item[s].reg /\ "et" \notin item[s].watch /\ sk[s].st = "open") =>
      \A e \in Poll(s) \cap epoll_interest(item[s].watch) :
        \/ s \in Range(ready) /\ e \in item[s].ev
        \/ InSnapshot(s) \/ Underway(s, e)

(* A read that is parked on a socket with something to read will run       *)
(* again: the pending task is registered or its walk has yet to reach the  *)
(* request (wait(), socket_notify_event(), socket_pending_task_cb()).      *)
ParkedReadWillRun ==
  \A s \in Sockets : \A r \in sk[s].parked :
    Readable(sk[s]) => sk[s].task \/ r \in Range(wk[s].todo)

(* The reference counts are exact, an item on the ready list is alive and  *)
(* useful, and when the last reference goes the hash and the ready list    *)
(* are empty: the assertions of destroy_net_epoll() and                    *)
(* destroy_net_epoll_item().                                               *)
RefsExact ==
  /\ TypeOK
  /\ \A s \in Sockets :
       /\ item[s].refs = (IF item[s].reg THEN 1 ELSE 0) + (IF InSnapshot(s) THEN 1 ELSE 0)
       /\ s \in Range(ready) => item[s].reg /\ item[s].useful
  /\ ep.refs = (IF ep.open \/ th[Ctl].pc \in {"notify", "exit"} THEN 1 ELSE 0)
               + Cardinality({s \in Sockets : item[s].refs > 0})
               + Cardinality({t \in Waiters : th[t].pc # "idle"})

(* A close reaches every thread that sleeps in net_epoll_wait(), although   *)
(* ready_q has a single eventfd: once entry->value is cleared it stays     *)
(* readable, since nobody who leaves with EBADF drains it, or the closing  *)
(* thread or an earlier notification has yet to write it.                  *)
CloseReachesSleepers ==
  \A t \in Waiters :
    (~ ep.open /\ th[t].pc = "sleep") => ep.efd \/ th[Ctl].pc = "notify"

=============================================================================
