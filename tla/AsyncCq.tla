------------------------------- MODULE AsyncCq -------------------------------
(***************************************************************************)
(* The asynchronous completion queue of main/req_async.c: applications     *)
(* submit requests and wait for completions from several threads, workers  *)
(* process, park, migrate and complete the requests (req_notify), and one  *)
(* thread may close the queue at any time.                                 *)
(*                                                                         *)
(* async_wait and async_close hold entry->mtx except across the poll, so   *)
(* their steps are cut only where a worker can interfere: at               *)
(* complete_count, wait_need, pending, the eventfd and the completion      *)
(* list.  waiters_mtx is only ever taken under entry->mtx.                 *)
(***************************************************************************)
EXTENDS Integers, FiniteSets, Sequences, Functions

CONSTANTS Reqs, Waiters,
          NumWorkers,
          Home,             \* the worker of each request's socket, at first
          MinComplete,      \* min of each waiter's net_async_wait()
          MaxComplete,      \* max of each waiter's net_async_wait()
          Timed,            \* waiters with a finite timeout
          Interrupted,      \* waiters whose ppoll() may fail with EINTR
          Mobile            \* requests whose socket may move to another worker

Workers == 1..NumWorkers
UINT_MAX == Cardinality(Reqs) + 1
NoStore == UINT_MAX + 1
Cancel == "cancel"          \* the message of submit_req_2_worker()

ASSUME CqAssumption ==
  /\ IsFiniteSet(Reqs) /\ IsFiniteSet(Waiters)
  /\ Cancel \notin Reqs /\ Waiters \cap {"free", "closer"} = {}
  /\ NumWorkers \in Nat \ {0} /\ Home \in [Reqs -> Workers]
  /\ MinComplete \in [Waiters -> 1..Cardinality(Reqs)]
  /\ MaxComplete \in [Waiters -> Nat]
  /\ \A t \in Waiters : MinComplete[t] <= MaxComplete[t]

VARIABLES
  mtx,    \* holder of the CQ's entry->mtx
  cq,     \* the async_cq, and open: entry->value still points to it
  req,    \* each request: its worker (0: not submitted), done, parked on a
          \* socket's pending list, moved (its one migration is used), freed
  wk,     \* each worker: its inbox, where it is (pc) and with which request
          \* (cur), req_notify's local queued, the rest of a cancel walk
  wt,     \* each waiter: where it is in async_wait, what it popped, poll_ret,
          \* whether total_deadline has passed, whether it is on cq->waiters,
          \* late: its re-check came before its wait_need was visible
  cl      \* async_close: where it is, and the worker it visits

vars == <<mtx, cq, req, wk, wt, cl>>

NewWaiter == [pc |-> "call", got |-> {}, poll |-> "none", expired |-> FALSE,
              armed |-> FALSE, late |-> FALSE]

Init ==
  /\ mtx = "free"
  /\ cq = [open |-> TRUE, refs |-> 1, submit |-> {}, list |-> <<>>, count |-> 0,
           need |-> UINT_MAX, buffered |-> NoStore, pending |-> 0, efd |-> 0]
  /\ req = [r \in Reqs |-> [worker |-> 0, done |-> FALSE, parked |-> FALSE,
                            moved |-> FALSE, freed |-> FALSE]]
  /\ wk = [w \in Workers |-> [inbox |-> <<>>, pc |-> "idle", cur |-> Cancel,
                              queued |-> 0, todo |-> {}]]
  /\ wt = [t \in Waiters |-> NewWaiter]
  /\ cl = [pc |-> "open", visit |-> 1]

-----------------------------------------------------------------------------
(* Mutation: the request is queued but not linked into submit_reqs. *)
SubmitUntracked(r) ==
  /\ mtx = "free" /\ cq.open /\ req[r].worker = 0
  /\ req' = [req EXCEPT ![r].worker = Home[r]]
  /\ wk' = [wk EXCEPT ![Home[r]].inbox = Append(@, r)]
  /\ UNCHANGED <<mtx, cq, wt, cl>>

(* async_submit_one() for a fresh request: it is linked into submit_reqs   *)
(* and pushed to the worker of its socket.  A request is submitted once,   *)
(* since its done flag is never cleared.  The notification of the worker   *)
(* at the end of the batch is NotifyQueue's subject.                       *)
Submit(r) ==
  /\ mtx = "free" /\ cq.open /\ req[r].worker = 0
  /\ cq' = [cq EXCEPT !.submit = @ \cup {r}]
  /\ req' = [req EXCEPT ![r].worker = Home[r]]
  /\ wk' = [wk EXCEPT ![Home[r]].inbox = Append(@, r)]
  /\ UNCHANGED <<mtx, wt, cl>>

-----------------------------------------------------------------------------
(* Workers. *)

(* process_request() on worker w, whose record is wk0 after the pop: the   *)
(* operation completes, or waits on its socket, or finds that the socket   *)
(* belongs to another worker.  change_req_worker() then stores r->worker   *)
(* first and pushes in a later step.                                       *)
Process(w, r, wk0) ==
  \/ /\ wk' = [wk0 EXCEPT ![w].pc = "notify", ![w].cur = r]
     /\ req' = [req EXCEPT ![r].parked = FALSE]
  \/ /\ wk' = wk0
     /\ req' = [req EXCEPT ![r].parked = TRUE]
  \/ /\ r \in Mobile /\ ~ req[r].moved
     /\ wk' = [wk0 EXCEPT ![w].pc = "migrate", ![w].cur = r]
     /\ \E w2 \in Workers \ {w} :
          req' = [req EXCEPT ![r].worker = w2, ![r].moved = TRUE, ![r].parked = FALSE]

(* req_task_cb() pops a request.  One that was cancelled meanwhile has its *)
(* async_cancel flag set, and req_notify() finds it done.                  *)
TakeRequest(w) ==
  /\ wk[w].pc = "idle" /\ wk[w].inbox # <<>>
  /\ LET r == Head(wk[w].inbox)
         popped == [wk EXCEPT ![w].inbox = Tail(@)]
     IN /\ r \in Reqs
        /\ IF req[r].done THEN wk' = popped /\ UNCHANGED req
                          ELSE Process(w, r, popped)
  /\ UNCHANGED <<mtx, cq, wt, cl>>

(* req_pending_cb() or wait_timeout_cb() runs a parked request again. *)
Resume(w, r) ==
  /\ wk[w].pc = "idle" /\ req[r].parked /\ req[r].worker = w
  /\ Process(w, r, wk)
  /\ UNCHANGED <<mtx, cq, wt, cl>>

(* The push of change_req_worker(). *)
MigratePush(w) ==
  /\ wk[w].pc = "migrate"
  /\ wk' = [wk EXCEPT ![w].pc = "idle", ![w].cur = Cancel,
                      ![req[wk[w].cur].worker].inbox = Append(@, wk[w].cur)]
  /\ UNCHANGED <<mtx, cq, req, wt, cl>>

(* cancel_worker_reqs(), queued behind the worker's earlier requests. *)
TakeCancel(w) ==
  /\ wk[w].pc = "idle" /\ wk[w].inbox # <<>> /\ Head(wk[w].inbox) = Cancel
  /\ wk' = [wk EXCEPT ![w].inbox = Tail(@), ![w].pc = "cancel",
                      ![w].todo = cq.submit \cup {Cancel}]
  /\ UNCHANGED <<mtx, cq, req, wt, cl>>

(* Mutation: requests parked on a socket are not cancelled. *)
CancelNextQueued(w) ==
  /\ wk[w].pc = "cancel"
  /\ \E r \in wk[w].todo \cap Reqs :
       wk' = IF req[r].worker = w /\ ~ req[r].done /\ ~ req[r].parked
             THEN [wk EXCEPT ![w].todo = @ \ {r}, ![w].pc = "notify", ![w].cur = r]
             ELSE [wk EXCEPT ![w].todo = @ \ {r}]
  /\ UNCHANGED <<mtx, cq, req, wt, cl>>

CancelNext(w) ==
  /\ wk[w].pc = "cancel"
  /\ \E r \in wk[w].todo \cap Reqs :
       wk' = IF req[r].worker = w /\ ~ req[r].done
             THEN [wk EXCEPT ![w].todo = @ \ {r}, ![w].pc = "notify", ![w].cur = r]
             ELSE [wk EXCEPT ![w].todo = @ \ {r}]
  /\ UNCHANGED <<mtx, cq, req, wt, cl>>

(* The callback returns and process_submit_req() wakes async_close(), which *)
(* goes on to the next worker.                                              *)
CancelEnd(w) ==
  /\ wk[w].pc = "cancel" /\ wk[w].todo = {Cancel}
  /\ wk' = [wk EXCEPT ![w].todo = {}, ![w].pc = "idle"]
  /\ cl' = IF cl.visit < NumWorkers
           THEN [pc |-> "visit", visit |-> cl.visit + 1]
           ELSE [cl EXCEPT !.pc = "check"]
  /\ UNCHANGED <<mtx, cq, req, wt>>

-----------------------------------------------------------------------------
(* req_notify() on an asynchronous request. *)

(* req_notify() returns, to the event loop or to the cancel walk. *)
Notified(w) ==
  [wk EXCEPT ![w].pc = IF wk[w].todo = {} THEN "idle" ELSE "cancel",
             ![w].cur = Cancel, ![w].queued = 0]

(* Under done_mtx: the first caller wins, the request leaves its lists. *)
NotifyDone(w) ==
  /\ wk[w].pc = "notify"
  /\ LET r == wk[w].cur IN
     /\ req' = [req EXCEPT ![r].done = TRUE, ![r].parked = FALSE]
     /\ wk' = IF req[r].done THEN Notified(w) ELSE [wk EXCEPT ![w].pc = "count"]
  /\ UNCHANGED <<mtx, cq, wt, cl>>

NotifyCount(w) ==
  /\ wk[w].pc = "count"
  /\ cq' = [cq EXCEPT !.count = @ + 1]
  /\ wk' = [wk EXCEPT ![w].queued = cq.count + 1, ![w].pc = "push"]
  /\ UNCHANGED <<mtx, req, wt, cl>>

NotifyPush(w) ==
  /\ wk[w].pc = "push"
  /\ cq' = [cq EXCEPT !.list = Append(@, wk[w].cur)]
  /\ wk' = [wk EXCEPT ![w].pc = "need"]
  /\ UNCHANGED <<mtx, req, wt, cl>>

NotifyNeed(w) ==
  /\ wk[w].pc = "need"
  /\ wk' = IF cq.need # UINT_MAX /\ wk[w].queued >= cq.need
           THEN [wk EXCEPT ![w].pc = "claim"] ELSE Notified(w)
  /\ UNCHANGED <<mtx, cq, req, wt, cl>>

(* notify_queue_notify(): the compare-exchange, then the write. *)
NotifyClaim(w) ==
  /\ wk[w].pc = "claim"
  /\ cq' = [cq EXCEPT !.pending = 1]
  /\ wk' = IF cq.pending = 0 THEN [wk EXCEPT ![w].pc = "write"] ELSE Notified(w)
  /\ UNCHANGED <<mtx, req, wt, cl>>

NotifyWrite(w) ==
  /\ wk[w].pc = "write"
  /\ cq' = [cq EXCEPT !.efd = @ + 1]
  /\ wk' = Notified(w)
  /\ UNCHANGED <<mtx, req, wt, cl>>

-----------------------------------------------------------------------------
(* Waiters: async_wait(). *)

Missing(t) == MinComplete[t] - Cardinality(wt[t].got)       \* waiter.need

(* The smallest need of the waiters in S, as async_waiter_remove() finds it. *)
Needs(S) == {Missing(t) : t \in S} \cup {UINT_MAX}
LeastNeed(S) == CHOOSE n \in Needs(S) : \A m \in Needs(S) : n <= m
Armed == {t \in Waiters : wt[t].armed}

(* mpscq_pop() finds nothing: the list is empty, or a push is under way. *)
PopFails == cq.list = <<>> \/ \E w \in Workers : wk[w].pc = "push"

(* Mutation: the node is read and not removed. *)
CqPeek == [cq EXCEPT !.count = @ - 1, !.submit = @ \ {Head(cq.list)}]

(* async_cq_pop(); the fetch_sub that follows the pop can only let a       *)
(* concurrent req_notify() count one more, and notify once too often.      *)
CqPop == [cq EXCEPT !.list = Tail(@), !.count = @ - 1, !.submit = @ \ {Head(cq.list)}]

(* The waiter returns with what it popped; only that still matters. *)
Leave(t) ==
  /\ mtx' = "free"
  /\ wt' = [wt EXCEPT ![t] = [NewWaiter EXCEPT !.pc = "out", !.got = wt[t].got]]
  /\ cq' = [cq EXCEPT !.refs = @ - 1]

Call(t) ==
  /\ wt[t].pc = "call" /\ mtx = "free"
  /\ \/ /\ cq.open
        /\ mtx' = t
        /\ wt' = [wt EXCEPT ![t].pc = "pop"]
        /\ cq' = [cq EXCEPT !.refs = @ + 1]
     \/ /\ ~ cq.open
        /\ wt' = [wt EXCEPT ![t].pc = "out"]
        /\ UNCHANGED <<mtx, cq>>
  /\ UNCHANGED <<req, wk, cl>>

(* The deadline passes; only the loop and ppoll() look at the clock. *)
Expire(t) ==
  /\ t \in Timed /\ wt[t].pc \in {"pop", "poll"} /\ ~ wt[t].expired
  /\ wt' = [wt EXCEPT ![t].expired = TRUE]
  /\ UNCHANGED <<mtx, cq, req, wk, cl>>

PopOne(t) ==
  /\ wt[t].pc = "pop" /\ Cardinality(wt[t].got) < MaxComplete[t] /\ cq.list # <<>>
  /\ wt' = [wt EXCEPT ![t].got = @ \cup {Head(cq.list)}]
  /\ cq' = CqPop
  /\ UNCHANGED <<mtx, req, wk, cl>>

(* The loop over async_cq_pop() ends. *)
PopEnds(t) == wt[t].pc = "pop" /\ (Cardinality(wt[t].got) = MaxComplete[t] \/ PopFails)

(* Enough, or the deadline has passed: return what there is. *)
Finish(t) ==
  /\ PopEnds(t) /\ (Missing(t) <= 0 \/ wt[t].expired)
  /\ Leave(t)
  /\ UNCHANGED <<req, wk, cl>>

(* async_waiter_add(): publish a smaller need, with a release store that   *)
(* the load of the re-check may overtake (x86-TSO keeps it buffered).      *)
Arm(t) ==
  /\ PopEnds(t) /\ Missing(t) > 0 /\ ~ wt[t].expired
  /\ wt' = [wt EXCEPT ![t].pc = "recheck", ![t].armed = TRUE]
  /\ cq' = IF Missing(t) < cq.need THEN [cq EXCEPT !.buffered = Missing(t)] ELSE cq
  /\ UNCHANGED <<mtx, req, wk, cl>>

(* The store of wait_need becomes visible to the workers. *)
Flush ==
  /\ cq.buffered # NoStore
  /\ cq' = [cq EXCEPT !.need = cq.buffered, !.buffered = NoStore]
  /\ UNCHANGED <<mtx, req, wk, wt, cl>>

(* Mutation: the waiter polls without reading complete_count again. *)
RecheckNever(t) ==
  /\ wt[t].pc = "recheck"
  /\ wt' = [wt EXCEPT ![t].pc = "unlock"]
  /\ UNCHANGED <<mtx, cq, req, wk, cl>>

(* complete_count is read again after arming. *)
Recheck(t) ==
  /\ wt[t].pc = "recheck"
  /\ \/ /\ cq.count >= Missing(t)
        /\ wt' = [wt EXCEPT ![t].pc = "pop", ![t].armed = FALSE]
        /\ cq' = [cq EXCEPT !.need = LeastNeed(Armed \ {t}), !.buffered = NoStore]
     \/ /\ cq.count < Missing(t)
        /\ wt' = [wt EXCEPT ![t].pc = "unlock", ![t].late = cq.buffered # NoStore]
        /\ UNCHANGED cq
  /\ UNCHANGED <<mtx, req, wk, cl>>

(* mutex_unlock() is a locked instruction: the store buffer is empty. *)
Unlock(t) ==
  /\ wt[t].pc = "unlock" /\ cq.buffered = NoStore
  /\ mtx' = "free"
  /\ wt' = [wt EXCEPT ![t].pc = "poll"]
  /\ UNCHANGED <<cq, req, wk, cl>>

(* ppoll() returns: the eventfd is readable, time is up, or a signal came. *)
Poll(t) ==
  /\ wt[t].pc = "poll"
  /\ \E ret \in {"ready", "timeout", "error"} :
       /\ ret = "ready" => cq.efd > 0
       /\ ret = "timeout" => wt[t].expired /\ cq.efd = 0
       /\ ret = "error" => t \in Interrupted
       /\ wt' = [wt EXCEPT ![t].pc = "relock", ![t].poll = ret]
  /\ UNCHANGED <<mtx, cq, req, wk, cl>>

(* The waiter gets the mutex back; notify_queue_drain() reads the eventfd ... *)
Relock(t) ==
  /\ wt[t].pc = "relock" /\ mtx = "free"
  /\ mtx' = t
  /\ \/ /\ wt[t].poll = "ready"
        /\ cq' = [cq EXCEPT !.efd = 0]
        /\ wt' = [wt EXCEPT ![t].pc = "clear"]
     \/ /\ wt[t].poll # "ready"
        /\ wt' = [wt EXCEPT ![t].pc = "remove"]
        /\ UNCHANGED cq
  /\ UNCHANGED <<req, wk, cl>>

(* ... and then clears pending. *)
DrainClear(t) ==
  /\ wt[t].pc = "clear"
  /\ cq' = [cq EXCEPT !.pending = 0]
  /\ wt' = [wt EXCEPT ![t].pc = "remove"]
  /\ UNCHANGED <<mtx, req, wk, cl>>

(* Mutation: the need of the waiters that stay is forgotten. *)
DisarmAll(t) ==
  /\ wt[t].pc = "remove"
  /\ wt' = [wt EXCEPT ![t].pc = "renotify", ![t].armed = FALSE, ![t].late = FALSE]
  /\ cq' = [cq EXCEPT !.need = UINT_MAX]
  /\ UNCHANGED <<mtx, req, wk, cl>>

(* async_waiter_remove(): the need of the waiters that stay. *)
Disarm(t) ==
  /\ wt[t].pc = "remove"
  /\ wt' = [wt EXCEPT ![t].pc = "renotify", ![t].armed = FALSE, ![t].late = FALSE]
  /\ cq' = [cq EXCEPT !.need = LeastNeed(Armed \ {t})]
  /\ UNCHANGED <<mtx, req, wk, cl>>

(* async_notify_ready_waiters(): pass the wakeup on if someone else can run. *)
NotifyReady(t) ==
  /\ wt[t].pc = "renotify"
  /\ wt' = [wt EXCEPT ![t].pc =
              IF cq.need # UINT_MAX /\ cq.count >= cq.need THEN "claim" ELSE "after"]
  /\ UNCHANGED <<mtx, cq, req, wk, cl>>

ReadyClaim(t) ==
  /\ wt[t].pc = "claim"
  /\ cq' = [cq EXCEPT !.pending = 1]
  /\ wt' = [wt EXCEPT ![t].pc = IF cq.pending = 0 THEN "write" ELSE "after"]
  /\ UNCHANGED <<mtx, req, wk, cl>>

ReadyWrite(t) ==
  /\ wt[t].pc = "write"
  /\ cq' = [cq EXCEPT !.efd = @ + 1]
  /\ wt' = [wt EXCEPT ![t].pc = "after"]
  /\ UNCHANGED <<mtx, req, wk, cl>>

(* The CQ was closed meanwhile, or ppoll() failed, or the loop goes on. *)
After(t) ==
  /\ wt[t].pc = "after"
  /\ \/ (~ cq.open \/ wt[t].poll = "error") /\ Leave(t)
     \/ /\ cq.open /\ wt[t].poll # "error"
        /\ wt' = [wt EXCEPT ![t].pc = "pop", ![t].poll = "none"]
        /\ UNCHANGED <<mtx, cq>>
  /\ UNCHANGED <<req, wk, cl>>

-----------------------------------------------------------------------------
(* async_close(), under entry->mtx from beginning to end. *)

CloseBegin ==
  /\ cl.pc = "open" /\ mtx = "free"
  /\ mtx' = "closer"
  /\ cq' = [cq EXCEPT !.open = FALSE]
  /\ cl' = [cl EXCEPT !.pc = "claim"]
  /\ UNCHANGED <<req, wk, wt>>

CloseClaim ==
  /\ cl.pc = "claim"
  /\ cq' = [cq EXCEPT !.pending = 1]
  /\ cl' = [cl EXCEPT !.pc = IF cq.pending = 0 THEN "write" ELSE "visit"]
  /\ UNCHANGED <<mtx, req, wk, wt>>

CloseWrite ==
  /\ cl.pc = "write"
  /\ cq' = [cq EXCEPT !.efd = @ + 1]
  /\ cl' = [cl EXCEPT !.pc = "visit"]
  /\ UNCHANGED <<mtx, req, wk, wt>>

(* Mutation: the cancellation overtakes the worker's queued requests. *)
CloseVisitFirst ==
  /\ cl.pc = "visit"
  /\ wk' = [wk EXCEPT ![cl.visit].inbox = <<Cancel>> \o @]
  /\ cl' = [cl EXCEPT !.pc = "visiting"]
  /\ UNCHANGED <<mtx, cq, req, wt>>

(* submit_req_2_worker(..., cancel_worker_reqs, true): CancelEnd answers. *)
CloseVisit ==
  /\ cl.pc = "visit"
  /\ wk' = [wk EXCEPT ![cl.visit].inbox = Append(@, Cancel)]
  /\ cl' = [cl EXCEPT !.pc = "visiting"]
  /\ UNCHANGED <<mtx, cq, req, wt>>

(* Is every submitted request done?  done is never cleared, so that reading *)
(* the flags one by one is reading them at once.                            *)
CloseCheck ==
  /\ cl.pc = "check"
  /\ cl' = IF \A r \in cq.submit : req[r].done
           THEN [cl EXCEPT !.pc = "free"]
           ELSE [pc |-> "visit", visit |-> 1]
  /\ UNCHANGED <<mtx, cq, req, wk, wt>>

CloseFree ==
  /\ cl.pc = "free" /\ cq.list # <<>>
  /\ req' = [req EXCEPT ![Head(cq.list)].freed = TRUE]
  /\ cq' = CqPop
  /\ UNCHANGED <<mtx, wk, wt, cl>>

CloseFreeEnd ==
  /\ cl.pc = "free" /\ PopFails
  /\ cl' = [cl EXCEPT !.pc = "assert"]
  /\ UNCHANGED <<mtx, cq, req, wk, wt>>

(* assert(cq->submit_reqs.next == NULL) stops the program when it fails. *)
CloseDestroy ==
  /\ cl.pc = "assert" /\ cq.submit = {}
  /\ mtx' = "free"
  /\ cq' = [cq EXCEPT !.refs = @ - 1]
  /\ cl' = [cl EXCEPT !.pc = "closed"]
  /\ UNCHANGED <<req, wk, wt>>

-----------------------------------------------------------------------------
Take(w) == TakeRequest(w) \/ TakeCancel(w)

Continue(w) ==
  \/ MigratePush(w) \/ CancelNext(w) \/ CancelEnd(w)
  \/ NotifyDone(w) \/ NotifyCount(w) \/ NotifyPush(w) \/ NotifyNeed(w)
  \/ NotifyClaim(w) \/ NotifyWrite(w)

Wait(t) ==
  \/ PopOne(t) \/ Finish(t) \/ Arm(t) \/ Recheck(t) \/ Unlock(t)
  \/ Poll(t) \/ Relock(t) \/ DrainClear(t) \/ Disarm(t)
  \/ NotifyReady(t) \/ ReadyClaim(t) \/ ReadyWrite(t) \/ After(t)

Close ==
  \/ CloseClaim \/ CloseWrite \/ CloseVisit \/ CloseCheck
  \/ CloseFree \/ CloseFreeEnd \/ CloseDestroy

Next ==
  \/ \E r \in Reqs : Submit(r)
  \/ \E w \in Workers : Take(w) \/ Continue(w) \/ \E r \in Reqs : Resume(w, r)
  \/ \E t \in Waiters : Call(t) \/ Expire(t) \/ Wait(t)
  \/ CloseBegin \/ Close \/ Flush

(* Running threads keep running, workers keep emptying their inboxes, and  *)
(* stores become visible.  Nothing obliges anyone to submit, to complete a *)
(* parked request, to call wait or close, or a deadline to pass.           *)
Fairness ==
  /\ \A w \in Workers : WF_vars(Take(w) \/ Continue(w))
  /\ \A t \in Waiters : WF_vars(Wait(t))
  /\ WF_vars(Close) /\ WF_vars(Flush)

Spec == Init /\ [][Next]_vars /\ Fairness

-----------------------------------------------------------------------------
(* Every field of the CQ, the requests and the three kinds of threads keeps *)
(* the values the code can give it; no counter goes below zero.            *)
TypeOK ==
  /\ mtx \in Waiters \cup {"free", "closer"}
  /\ cq \in [open : BOOLEAN, refs : Nat, submit : SUBSET Reqs, list : Seq(Reqs),
             count : Nat, need : 1..UINT_MAX, buffered : 1..NoStore,
             pending : {0, 1}, efd : Nat]
  /\ req \in [Reqs -> [worker : 0..NumWorkers, done : BOOLEAN, parked : BOOLEAN,
                       moved : BOOLEAN, freed : BOOLEAN]]
  /\ wk \in [Workers -> [inbox : Seq(Reqs \cup {Cancel}),
                         pc : {"idle", "migrate", "cancel", "notify", "count", "push",
                               "need", "claim", "write"},
                         cur : Reqs \cup {Cancel}, queued : Nat,
                         todo : SUBSET (Reqs \cup {Cancel})]]
  /\ wt \in [Waiters -> [pc : {"call", "pop", "recheck", "unlock", "poll",
                               "relock", "clear", "remove", "renotify",
                               "claim", "write", "after", "out"},
                         got : SUBSET Reqs,
                         poll : {"none", "ready", "timeout", "error"},
                         expired : BOOLEAN, armed : BOOLEAN, late : BOOLEAN]]
  /\ cl \in [pc : {"open", "claim", "write", "visit", "visiting", "check", "free",
                   "assert", "closed"}, visit : Workers]

(* Someone is on the way to make the eventfd readable, or it is. *)
WakeupUnderWay ==
  \/ cq.efd > 0 \/ cl.pc = "write"
  \/ \E w \in Workers : wk[w].pc \in {"push", "need", "claim", "write"}
  \/ \E t \in Waiters : wt[t].pc \in {"relock", "clear", "remove",
                                      "renotify", "claim", "write"}

(* The comment in async_wait(): "Recheck after arming so a completion      *)
(* cannot fall between the empty check and poll()".  A waiter never sleeps *)
(* on enough completions without a wakeup under way, provided its re-check  *)
(* did not overtake its own store of wait_need.                            *)
NoStrandedWaiter ==
  \A t \in Waiters :
    wt[t].pc = "poll" /\ cq.count >= Missing(t) /\ ~ wt[t].late => WakeupUnderWay

(* A waiter never stays in poll() for ever while there are enough          *)
(* completions for it: it leaves, or another waiter takes them first       *)
(* (async_notify_ready_waiters), under the same proviso.                   *)
ReadyWaiterRuns ==
  \A t \in Waiters :
    []<>~ (wt[t].pc = "poll" /\ cq.count >= Missing(t) /\ ~ wt[t].late)

(* README: "each completion is delivered to exactly one waiter".  Nor is a *)
(* completion both delivered and freed by the close, or queued twice, when *)
(* a cancellation meets a request that is moving between workers; and      *)
(* complete_count counts the completions published and about to be, so     *)
(* that the assert(old != 0) of async_cq_pop() holds.                      *)
DeliveredOnce ==
  /\ TypeOK
  /\ IsInjective(cq.list)
  /\ cq.count = Len(cq.list) + Cardinality({w \in Workers : wk[w].pc = "push"})
  /\ \A r \in Reqs :
       Cardinality({t \in Waiters : r \in wt[t].got})
         + (IF req[r].freed THEN 1 ELSE 0) + (IF r \in Range(cq.list) THEN 1 ELSE 0) <= 1

(* README: a successful submit "transfers ownership to the CQ".  When the  *)
(* close has returned, every request it owned was delivered or freed.      *)
ClosedOwnsNothing ==
  cl.pc = "closed" =>
    \A r \in Reqs : req[r].worker # 0 =>
      req[r].freed \/ \E t \in Waiters : r \in wt[t].got

(* No worker still has to look at r or still has to queue it. *)
Unused(r) ==
  \A w \in Workers :
    /\ r \notin Range(wk[w].inbox)
    /\ wk[w].cur = r => wk[w].pc \notin {"migrate", "notify", "count", "push"}

(* async_close(): the cancellation "cannot race that worker's request/timer *)
(* processing".  A request is freed only when no worker uses it any more.   *)
FreedUnused == \A r \in Reqs : req[r].freed => Unused(r)

(* The CQ is not destroyed under a waiter (the reference that keeps the    *)
(* eventfd alive), nor under a worker inside req_notify() whose request    *)
(* stayed at home: the close waits for that worker's cancel callback.      *)
CqAlive ==
  cq.refs = 0 =>
    /\ \A t \in Waiters : wt[t].pc \in {"call", "out"}
    /\ \A w \in Workers :
         wk[w].pc \in {"count", "push", "need", "claim", "write"} => req[wk[w].cur].moved

(* FreedUnused for the requests whose socket stayed on its worker; nor is  *)
(* the CQ freed under anyone.                                              *)
FreedUnusedAtHome ==
  CqAlive /\ \A r \in Reqs : req[r].freed /\ ~ req[r].moved => Unused(r)

(* async_close() is never under way for ever, whatever the requests are    *)
(* waiting for and wherever they move: the passes over the workers end.    *)
CloseReturns == []<>(cl.pc \in {"open", "assert", "closed"})

(* test_async_multi_wait_close: after net_async_close() every waiter       *)
(* returns.                                                                *)
ClosedWaitersReturn ==
  \A t \in Waiters : (~ cq.open /\ wt[t].pc # "call") ~> wt[t].pc = "out"
=============================================================================
