-------------------------- MODULE NotifyQueueProofs --------------------------
(***************************************************************************)
(* The worker inbox loses no wakeup, for any set of producers, any batch   *)
(* size and any budget.                                                    *)
(***************************************************************************)
EXTENDS NotifyQueue, TLAPS

(* The token of the notification protocol: pending = 1 exactly while one   *)
(* thread is between winning it and writing, or the eventfd is readable,   *)
(* or the worker is between eventfd_read() and the visible clearing.       *)
Token ==
  /\ wpc = "drain" => efd = 1
  /\ wpc \in {"rearm", "rewrite"} => efd = 0
  /\ wpc \in {"drain", "rearm", "rewrite"} => ~ buffered
  /\ pending = 0 => efd = 0 /\ wpc \notin {"drain", "rearm", "rewrite"}
  /\ buffered => pending = 1 /\ efd = 0
  /\ \A p \in Producers :
       pc[p] = "claimed" =>
         pending = 1 /\ ~ buffered /\ wpc \notin {"drain", "rearm", "rewrite"}

(* A node whose link is not written is the latest one of a producer that   *)
(* is between the two halves of its push.                                  *)
UnlinkedAt == \A n \in unlinked :
  \E p \in Producers : pc[p] = "exchanged" /\ n = <<p, cur[p]>>

(* A worker that sleeps after a re-check in program order has no store     *)
(* under way, so that pending = 1 means a wakeup for it.                   *)
InOrder == (wpc = "wait" /\ ~ late => ~ buffered) /\ NoLostWakeup

IInv == TypeOK /\ Token /\ PendingBacked /\ EventfdBounded /\ UnlinkedAt /\ InOrder

(* The inbox of a new worker satisfies the inductive invariant. *)
LEMMA InitIInv == Init => IInv
<1> SUFFICES ASSUME Init PROVE IInv
  OBVIOUS
<1>1. ~ buffered
  BY DEF Init
<1>2. TypeOK
  <2>1. buffered \in BOOLEAN /\ late \in BOOLEAN
    BY Zenon DEF Init
  <2>2. left \in 0..Budget /\ cur \in [Producers -> 0..Batch]
    BY BatchAssumption, BudgetAssumption DEF Init
  <2> QED BY <2>1, <2>2 DEF Init, QueueInit, TypeOK
<1>3. Token /\ PendingBacked /\ EventfdBounded
  <2>1. pending = 0 /\ efd = 0 /\ wpc = "wait" /\ \A p \in Producers : pc[p] = "idle"
    BY DEF Init
  <2> QED BY <1>1, <2>1 DEF Token, PendingBacked, EventfdBounded
<1>4. UnlinkedAt /\ NoLostWakeup
  BY DEF Init, QueueInit, UnlinkedAt, NoLostWakeup
<1> QED BY <1>1, <1>2, <1>3, <1>4 DEF IInv, InOrder

(* The types are preserved by every step. *)
LEMMA TypeStep == TypeOK /\ [Next]_vars => TypeOK'
<1> SUFFICES ASSUME TypeOK, [Next]_vars PROVE TypeOK'
  OBVIOUS
<1> USE DEF TypeOK
<1>1. CASE Worker
  <2>1. CASE Take
    <3>1. order' \in Seq(Nodes)
      BY <2>1 DEF Take, PopNode, HeadReachable
    <3>2. left' \in 0..Budget
      BY <2>1, BudgetAssumption DEF Take
    <3> QED BY <2>1, <3>1, <3>2, Zenon DEF Take, PopNode
  <2>2. CASE DrainClear
    <3>1. buffered' \in BOOLEAN
      BY <2>2 DEF DrainClear
    <3>2. left' \in 0..Budget
      BY <2>2, BudgetAssumption DEF DrainClear
    <3> QED BY <2>2, <3>1, <3>2 DEF DrainClear
  <2>3. CASE Flush
    BY <2>3, Zenon DEF Flush
  <2>4. CASE Stop
    BY <2>4, BudgetAssumption DEF Stop
  <2>5. CASE Wake \/ DrainRead \/ RenotifyClaim \/ RenotifyWrite
    BY <2>5 DEF Wake, DrainRead, RenotifyClaim, RenotifyWrite
  <2>6. CASE Recheck
    <3>1. late' \in BOOLEAN
      BY <2>6, Zenon DEF Recheck
    <3> QED BY <2>6, <3>1 DEF Recheck
  <2> QED BY <1>1, <2>1, <2>2, <2>3, <2>4, <2>5, <2>6, SMTT(30) DEF Worker
<1>2. ASSUME NEW p \in Producers, PushExchange(p) PROVE TypeOK'
  <2>1. cur[p] + 1 \in 1..Batch
    BY <1>2, BatchAssumption DEF PushExchange
  <2>2. <<p, cur[p] + 1>> \in Nodes
    BY <2>1, NodesAssumption
  <2>3. order' \in Seq(Nodes)
    <3>1. order' = Append(order, <<p, cur[p] + 1>>)
      BY <1>2 DEF PushExchange, Exchange
    <3> HIDE DEF TypeOK
    <3>2. order \in Seq(Nodes)
      BY DEF TypeOK
    <3> QED BY <2>2, <3>1, <3>2
  <2>4. unlinked' \subseteq Nodes
    BY <1>2, <2>2, Zenon DEF PushExchange, Exchange
  <2>5. cur' \in [Producers -> 0..Batch]
    BY <1>2, <2>1, BatchAssumption DEF PushExchange
  <2> QED BY <1>2, <2>3, <2>4, <2>5 DEF PushExchange, goto
<1>3. ASSUME NEW p \in Producers,
             PushLink(p) \/ NotifyClaim(p) \/ NotifyWrite(p) \/ Reuse(p)
      PROVE TypeOK'
  <2>1. CASE PushLink(p)
    BY <2>1 DEF PushLink, Link, goto
  <2>2. CASE NotifyClaim(p)
    <3>1. pc' \in [Producers -> {"idle", "exchanged", "linked", "claimed", "sent"}]
      BY <2>2 DEF NotifyClaim, goto
    <3>2. pending' \in {0, 1}
      BY <2>2 DEF NotifyClaim
    <3> QED BY <2>2, <3>1, <3>2 DEF NotifyClaim
  <2>3. CASE NotifyWrite(p)
    <3>1. pc' \in [Producers -> {"idle", "exchanged", "linked", "claimed", "sent"}]
      BY <2>3 DEF NotifyWrite, goto
    <3>2. efd' \in Nat
      BY <2>3 DEF NotifyWrite
    <3> QED BY <2>3, <3>1, <3>2 DEF NotifyWrite
  <2>4. CASE Reuse(p)
    <3>1. cur' \in [Producers -> 0..Batch]
      BY <2>4, BatchAssumption DEF Reuse
    <3> QED BY <2>4, <3>1 DEF Reuse, goto
  <2> QED BY <1>3, <2>1, <2>2, <2>3, <2>4
<1>4. CASE UNCHANGED vars
  BY <1>4 DEF vars
<1> QED BY <1>1, <1>2, <1>3, <1>4 DEF Next, Producer

-----------------------------------------------------------------------------
Preserved == Token /\ PendingBacked /\ EventfdBounded /\ UnlinkedAt /\ InOrder

(* The actions of the worker. *)
LEMMA WorkerStep == IInv /\ Worker => Preserved'
<1> SUFFICES ASSUME IInv, Worker
             PROVE Preserved'
  OBVIOUS
<1> USE DEF IInv, Preserved
<1>t. TypeOK
  OBVIOUS
<1>u. UnlinkedAt'
  BY DEF UnlinkedAt, Worker, Wake, DrainRead, DrainClear, Take, Stop, Recheck,
         RenotifyClaim, RenotifyWrite, Flush, PopNode
<1>1. CASE Wake
  BY <1>t, <1>u, <1>1
  DEF TypeOK, Wake, Token, PendingBacked, EventfdBounded, InOrder, NoLostWakeup, WillNotify
<1>2. CASE DrainRead
  BY <1>t, <1>u, <1>2
  DEF TypeOK, DrainRead, Token, PendingBacked, EventfdBounded, InOrder, NoLostWakeup, WillNotify
<1>3. CASE DrainClear
  BY <1>t, <1>u, <1>3
  DEF TypeOK, DrainClear, Token, PendingBacked, EventfdBounded, InOrder, NoLostWakeup, WillNotify
<1>4. CASE Take
  BY <1>t, <1>u, <1>4
  DEF TypeOK, Take, Token, PendingBacked, EventfdBounded, InOrder, NoLostWakeup, WillNotify
<1>5. CASE Stop
  BY <1>t, <1>u, <1>5
  DEF TypeOK, Stop, Token, PendingBacked, EventfdBounded, InOrder, NoLostWakeup, WillNotify
<1>6. CASE Recheck
  <2>1. (Token /\ PendingBacked /\ EventfdBounded)'
    BY <1>t, <1>6 DEF TypeOK, Recheck, Token, PendingBacked, EventfdBounded
  <2>2. InOrder'
    BY <1>6, Zenon DEF Recheck, InOrder, NoLostWakeup, HeadReachable, UnlinkedAt, WillNotify
  <2> QED BY <1>u, <2>1, <2>2
<1>7. CASE RenotifyClaim
  <2>1. (Token /\ PendingBacked /\ EventfdBounded)'
    BY <1>t, <1>7 DEF TypeOK, RenotifyClaim, Token, PendingBacked, EventfdBounded
  <2>2. InOrder'
    BY <1>t, <1>7 DEF TypeOK, RenotifyClaim, InOrder, NoLostWakeup, PendingBacked, WillNotify
  <2> QED BY <1>u, <2>1, <2>2
<1>9. CASE Flush
  BY <1>t, <1>u, <1>9, SMTT(30)
  DEF TypeOK, Flush, Token, PendingBacked, EventfdBounded, InOrder, NoLostWakeup, WillNotify
<1>8. CASE RenotifyWrite
  BY <1>t, <1>u, <1>8
  DEF TypeOK, RenotifyWrite, Token, PendingBacked, EventfdBounded, InOrder, NoLostWakeup, WillNotify
<1> QED BY <1>1, <1>2, <1>3, <1>4, <1>5, <1>6, <1>7, <1>8, <1>9, SMTT(30) DEF Worker

(* The actions of one producer. *)
LEMMA ProducerStep ==
  ASSUME IInv, NEW p \in Producers, Producer(p)
  PROVE Preserved'
<1> USE DEF IInv, Preserved
<1>t. TypeOK
  OBVIOUS
<1>1. CASE PushExchange(p)
  <2>1. (Token /\ PendingBacked /\ EventfdBounded)'
    BY <1>t, <1>1 DEF TypeOK, PushExchange, goto, Token, PendingBacked, EventfdBounded
  <2>2. UnlinkedAt'
    BY <1>t, <1>1 DEF TypeOK, PushExchange, Exchange, goto, UnlinkedAt
  <2>3. InOrder'
    BY <1>t, <1>1, SMTT(30) DEF TypeOK, PushExchange, goto, InOrder, NoLostWakeup, WillNotify
  <2> QED BY <2>1, <2>2, <2>3
<1>2. CASE PushLink(p)
  <2>1. (Token /\ PendingBacked /\ EventfdBounded)'
    BY <1>t, <1>2 DEF TypeOK, PushLink, goto, Token, PendingBacked, EventfdBounded
  <2>2. UnlinkedAt'
    BY <1>t, <1>2 DEF TypeOK, PushLink, Link, goto, UnlinkedAt
  <2>3. InOrder'
    BY <1>t, <1>2, SMTT(30) DEF TypeOK, PushLink, Link, goto, InOrder, NoLostWakeup, WillNotify
  <2> QED BY <2>1, <2>2, <2>3
<1>3. CASE NotifyClaim(p)
  <2>1. (Token /\ PendingBacked /\ EventfdBounded)'
    BY <1>t, <1>3 DEF TypeOK, NotifyClaim, goto, Token, PendingBacked, EventfdBounded
  <2>2. UnlinkedAt'
    BY <1>t, <1>3 DEF TypeOK, NotifyClaim, goto, UnlinkedAt
  <2>3. InOrder'
    BY <1>t, <1>3, SMTT(30) DEF TypeOK, NotifyClaim, goto, InOrder, NoLostWakeup, WillNotify, PendingBacked
  <2> QED BY <2>1, <2>2, <2>3
<1>4. CASE NotifyWrite(p)
  <2>1. (Token /\ PendingBacked /\ EventfdBounded)'
    BY <1>t, <1>4 DEF TypeOK, NotifyWrite, goto, Token, PendingBacked, EventfdBounded
  <2>2. UnlinkedAt'
    BY <1>t, <1>4 DEF TypeOK, NotifyWrite, goto, UnlinkedAt
  <2>3. InOrder'
    BY <1>t, <1>4, SMTT(30) DEF TypeOK, NotifyWrite, goto, InOrder, NoLostWakeup, WillNotify
  <2> QED BY <2>1, <2>2, <2>3
<1>5. CASE Reuse(p)
  <2>1. (Token /\ PendingBacked /\ EventfdBounded)'
    BY <1>t, <1>5 DEF TypeOK, Reuse, goto, Token, PendingBacked, EventfdBounded
  <2>2. UnlinkedAt'
    BY <1>t, <1>5 DEF TypeOK, Reuse, goto, UnlinkedAt
  <2>3. InOrder'
    BY <1>t, <1>5 DEF TypeOK, Reuse, goto, InOrder, NoLostWakeup, WillNotify
  <2> QED BY <2>1, <2>2, <2>3
<1> QED BY <1>1, <1>2, <1>3, <1>4, <1>5, SMTT(30) DEF Producer

(* Every step of the worker or of a producer keeps it. *)
LEMMA IInvStep == IInv /\ [Next]_vars => IInv'
<1> SUFFICES ASSUME IInv, [Next]_vars PROVE IInv'
  OBVIOUS
<1>1. TypeOK'
  BY TypeStep DEF IInv
<1>2. CASE Worker
  BY <1>1, <1>2, WorkerStep DEF IInv, Preserved
<1>3. ASSUME NEW p \in Producers, Producer(p) PROVE IInv'
  BY <1>1, <1>3, ProducerStep, SMTT(30) DEF IInv, Preserved
<1>4. CASE UNCHANGED vars
  BY <1>1, <1>4 DEF vars, IInv, Token, PendingBacked, EventfdBounded, UnlinkedAt,
     InOrder, NoLostWakeup, WillNotify
<1> QED BY <1>2, <1>3, <1>4 DEF Next

-----------------------------------------------------------------------------
(* Every behaviour keeps the inductive invariant. *)
LEMMA Inductive == Spec => []IInv
  BY InitIInv, IInvStep, PTL DEF Spec

(* The variables of the inbox keep their types. *)
THEOREM TypeCorrect == Spec => []TypeOK
<1>1. IInv => TypeOK
  BY DEF IInv
<1> QED BY <1>1, Inductive, PTL

(* The worker never sleeps on a non-empty inbox that nobody will notify:    *)
(* the order of notify_queue_drain() (read the eventfd, then clear pending, *)
(* then pop) and the re-check after the last pop leave no window, unless    *)
(* that re-check overtakes the clearing.                                    *)
THEOREM WakeupNeverLost == Spec => []NoLostWakeup
<1>1. IInv => NoLostWakeup
  BY DEF IInv, InOrder
<1> QED BY <1>1, Inductive, PTL

(* A set pending flag always has a wakeup or a clearing behind it, so that  *)
(* the compare-exchange in notify_queue_notify() skips only redundant       *)
(* writes, and the eventfd counter never exceeds 1, whatever the number of  *)
(* producers.                                                               *)
THEOREM PendingAlwaysExact == Spec => []PendingExact
<1>1. IInv => PendingExact
  BY DEF IInv, PendingExact
<1> QED BY <1>1, Inductive, PTL
=============================================================================
