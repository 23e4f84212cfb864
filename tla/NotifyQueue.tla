----------------------------- MODULE NotifyQueue -----------------------------
(***************************************************************************)
(* A worker's inbox: the notify_queue of lib/queue.c (an MPSC queue, an    *)
(* eventfd and the pending flag that coalesces its wakeups), its producers *)
(* (application threads that submit requests, workers that hand over       *)
(* requests or packets) and its consumer, the task callback that the       *)
(* worker's event loop runs when the eventfd is readable (main/stack.c,    *)
(* lib/thread.c).  The queue itself is MpscqSpec, which Mpscq implements.  *)
(***************************************************************************)
EXTENDS Naturals, FiniteSets, MpscqSpec

CONSTANTS Producers,
          Batch,            \* most nodes a producer pushes before it notifies
          Budget            \* REQ_TASK_BUDGET, PKT_TASK_BUDGET

ASSUME NodesAssumption == Nodes = Producers \X (1..Batch)
ASSUME BatchAssumption == Batch \in Nat \ {0}
ASSUME BudgetAssumption == Budget \in Nat \ {0}

VARIABLES pending,          \* notify_queue.pending
          efd,              \* the eventfd's counter
          pc,               \* where each producer is
          cur,              \* how many nodes of its batch it has pushed
          wpc,              \* where the worker is
          left,             \* what is left of the callback's budget
          buffered,         \* pending = 0 is still in the worker's store buffer
          late              \* the last re-check read the queue before that store
                            \* was visible, and found nothing

vars == <<order, unlinked, pending, efd, pc, cur, wpc, left, buffered, late>>

Init ==
  /\ QueueInit
  /\ pending = 0 /\ efd = 0
  /\ pc = [p \in Producers |-> "idle"]
  /\ cur = [p \in Producers |-> 0]
  /\ wpc = "wait" /\ left = 0 /\ buffered = FALSE /\ late = FALSE

-----------------------------------------------------------------------------
(* Producers: req_push_wait, async_submit_batch, change_req_worker,        *)
(* transmit_skb_2_worker.                                                  *)

goto(p, to) == pc' = [pc EXCEPT ![p] = to]

(* The first half of mpscq_push() for the next node of the batch.  One node *)
(* is notify_queue_push(); several are async_submit_batch(), which pushes   *)
(* every accepted request before it notifies the worker.                    *)
PushExchange(p) ==
  /\ pc[p] \in {"idle", "linked"} /\ cur[p] < Batch
  /\ Exchange(<<p, cur[p] + 1>>)
  /\ cur' = [cur EXCEPT ![p] = @ + 1]
  /\ goto(p, "exchanged")
  /\ UNCHANGED <<pending, efd, wpc, left, buffered, late>>

PushLink(p) ==
  /\ pc[p] = "exchanged"
  /\ Link(<<p, cur[p]>>)
  /\ goto(p, "linked")
  /\ UNCHANGED <<pending, efd, cur, wpc, left, buffered, late>>

(* notify_queue_notify(): the compare-exchange of pending from 0 to 1. *)
NotifyClaim(p) ==
  /\ pc[p] = "linked"
  /\ pending' = 1
  /\ goto(p, IF pending = 0 THEN "claimed" ELSE "sent")
  /\ UNCHANGED <<order, unlinked, efd, cur, wpc, left, buffered, late>>

(* notify_queue_notify(): eventfd_write(q->efd, 1). *)
NotifyWrite(p) ==
  /\ pc[p] = "claimed"
  /\ efd' = efd + 1
  /\ goto(p, "sent")
  /\ UNCHANGED <<order, unlinked, pending, cur, wpc, left, buffered, late>>

(* The producer may use its nodes again when all were taken: a synchronous *)
(* caller waits for that, a request that is done can be submitted again,   *)
(* and a packet buffer is recycled.                                        *)
Reuse(p) ==
  /\ pc[p] = "sent"
  /\ \A i \in 1..cur[p] : <<p, i>> \notin Queued
  /\ cur' = [cur EXCEPT ![p] = 0]
  /\ goto(p, "idle")
  /\ UNCHANGED <<order, unlinked, pending, efd, wpc, left, buffered, late>>

-----------------------------------------------------------------------------
(* The worker: do_fd_tasks() calls req_task_cb() or pkt_task_cb() while    *)
(* the eventfd is readable (its epoll set is level-triggered).             *)

Wake ==
  /\ wpc = "wait" /\ efd > 0 /\ ~ buffered
  /\ wpc' = "drain"
  /\ UNCHANGED <<order, unlinked, pending, efd, pc, cur, left, buffered, late>>

(* notify_queue_drain(): eventfd_read() ... *)
DrainRead ==
  /\ wpc = "drain"
  /\ efd' = 0
  /\ wpc' = "rearm"
  /\ UNCHANGED <<order, unlinked, pending, pc, cur, left, buffered, late>>

(* ... and only then pending = 0: a release store, which the loads of the  *)
(* pops that follow may overtake (x86-TSO keeps it in the store buffer).   *)
DrainClear ==
  /\ wpc = "rearm"
  /\ buffered' = TRUE
  /\ wpc' = "pop" /\ left' = Budget
  /\ UNCHANGED <<order, unlinked, pending, efd, pc, cur, late>>

(* The store becomes visible to the other cores. *)
Flush ==
  /\ buffered
  /\ pending' = 0 /\ buffered' = FALSE
  /\ UNCHANGED <<order, unlinked, efd, pc, cur, wpc, left, late>>

(* One turn of the callback's loop; the node is processed and handed back, *)
(* with locked instructions (done_mtx, PUT_REF) that empty the buffer.      *)
Take ==
  /\ wpc = "pop" /\ left > 0
  /\ PopNode
  /\ left' = left - 1
  /\ pending' = IF buffered THEN 0 ELSE pending
  /\ buffered' = FALSE
  /\ UNCHANGED <<efd, pc, cur, wpc, late>>

(* The loop ends: the budget is spent or mpscq_pop() returned NULL. *)
Stop ==
  /\ wpc = "pop"
  /\ left = 0 \/ PopMayFail
  /\ wpc' = "check" /\ left' = 0
  /\ UNCHANGED <<order, unlinked, pending, efd, pc, cur, buffered, late>>

(* Mutation: the callback returns without looking at the queue again. *)
RecheckNever ==
  /\ wpc = "check"
  /\ wpc' = "wait"
  /\ UNCHANGED <<order, unlinked, pending, efd, pc, cur, left, buffered, late>>

(* if (!mpscq_is_empty(...)) notify_queue_notify(...); the work_pending     *)
(* flag set beside it only shortens the next epoll_wait().                  *)
Recheck ==
  /\ wpc = "check"
  /\ wpc' = IF HeadReachable THEN "renotify" ELSE "wait"
  /\ late' = (buffered /\ ~ HeadReachable)
  /\ UNCHANGED <<order, unlinked, pending, efd, pc, cur, left, buffered>>

(* Mutation: the flag is set and the eventfd is not written. *)
RenotifyClaimOnly ==
  /\ wpc = "renotify" /\ ~ buffered
  /\ pending' = 1
  /\ wpc' = "wait"
  /\ UNCHANGED <<order, unlinked, efd, pc, cur, left, buffered, late>>

RenotifyClaim ==
  /\ wpc = "renotify" /\ ~ buffered
  /\ pending' = 1
  /\ wpc' = IF pending = 0 THEN "rewrite" ELSE "wait"
  /\ UNCHANGED <<order, unlinked, efd, pc, cur, left, buffered, late>>

RenotifyWrite ==
  /\ wpc = "rewrite"
  /\ efd' = efd + 1
  /\ wpc' = "wait"
  /\ UNCHANGED <<order, unlinked, pending, pc, cur, left, buffered, late>>

-----------------------------------------------------------------------------
Worker == Wake \/ DrainRead \/ DrainClear \/ Take \/ Stop \/ Recheck
            \/ RenotifyClaim \/ RenotifyWrite \/ Flush

Producer(p) == PushExchange(p) \/ PushLink(p) \/ NotifyClaim(p) \/ NotifyWrite(p) \/ Reuse(p)

Next == Worker \/ \E p \in Producers : Producer(p)

(* A thread that has started a push finishes it, and the worker's loop     *)
(* keeps running: both are ordinary running threads.  Nobody is obliged to *)
(* push.                                                                   *)
Fairness ==
  /\ WF_vars(Worker) /\ WF_vars(Flush)
  /\ \A p \in Producers : WF_vars(PushLink(p) \/ NotifyClaim(p) \/ NotifyWrite(p))

Spec == Init /\ [][Next]_vars /\ Fairness

-----------------------------------------------------------------------------
(* The queue holds nodes, the flag is 0 or 1, and a batch never takes more *)
(* than its budget (req_task_cb, pkt_task_cb).                             *)
TypeOK ==
  /\ order \in Seq(Nodes)
  /\ unlinked \subseteq Nodes
  /\ pending \in {0, 1}
  /\ efd \in Nat
  /\ pc \in [Producers -> {"idle", "exchanged", "linked", "claimed", "sent"}]
  /\ cur \in [Producers -> 0..Batch]
  /\ wpc \in {"wait", "drain", "rearm", "pop", "check", "renotify", "rewrite"}
  /\ left \in 0..Budget
  /\ buffered \in BOOLEAN /\ late \in BOOLEAN

(* p has pushed and has not finished the notification that follows. *)
WillNotify(p) == pc[p] \in {"exchanged", "linked", "claimed"}

(* No lost wakeup: the worker never goes back to epoll_wait() with work in  *)
(* its inbox unless the eventfd is readable or some producer is still       *)
(* before its own notification (notify_queue_drain, notify_queue_notify and *)
(* the re-check at the end of req_task_cb and pkt_task_cb), provided that   *)
(* re-check did not overtake the clearing of pending.                       *)
NoLostWakeup ==
  (wpc = "wait" /\ order # <<>> /\ ~ late)
    => (efd > 0 \/ \E p \in Producers : WillNotify(p))

(* pending = 1 always has someone behind it who makes the eventfd readable  *)
(* or who clears it again.  Otherwise notify_queue_notify() would skip the  *)
(* write for every later push as well, and the inbox would be dead.         *)
PendingBacked ==
  pending = 1 =>
    \/ efd > 0
    \/ \E p \in Producers : pc[p] = "claimed"
    \/ wpc \in {"drain", "rearm", "rewrite"}
    \/ buffered

(* At most one thread is between winning pending and writing, so that the  *)
(* eventfd's counter stays at 0 or 1 and eventfd_write() never meets its   *)
(* limit (the failure branch of notify_queue_notify is dead here).         *)
EventfdBounded ==
  /\ efd <= 1
  /\ \A p, q \in Producers : pc[p] = "claimed" /\ pc[q] = "claimed" => p = q
  /\ \A p \in Producers : pc[p] = "claimed" => efd = 0 /\ wpc # "rewrite"

(* The coalescing flag of notify_queue_notify() is exact: a set one has a   *)
(* wakeup or a clearing behind it, and a clear one lets at most one thread  *)
(* write the eventfd.                                                       *)
PendingExact == PendingBacked /\ EventfdBounded

(* README.md:177, "Requests are routed to that worker": every node that a  *)
(* producer pushes is taken by the worker in the end.                      *)
EveryPushServed ==
  \A p \in Producers : pc[p] = "exchanged" ~> \A i \in 1..Batch : <<p, i>> \notin Queued

(* The same, on a machine (or with a fence) where the re-check of           *)
(* req_task_cb() never overtakes the store of notify_queue_drain().         *)
ServedInOrder == [](~ late) => EveryPushServed
=============================================================================
