------------------------------ MODULE MpscqSpec ------------------------------
(***************************************************************************)
(* What the intrusive multi-producer queue of lib/queue.c promises to its  *)
(* users: a FIFO in the order of the atomic exchanges, in which a node is  *)
(* out of the consumer's reach until its producer has also written the     *)
(* link from its predecessor.  A push is two steps of one producer, and    *)
(* any other thread may run between them.                                  *)
(***************************************************************************)
EXTENDS Sequences

CONSTANT Nodes              \* every mpsc_node of the callers (req.node, skb.node)

VARIABLES order,            \* the nodes exchanged in and not yet popped, oldest first
          unlinked          \* those whose predecessor does not point to them yet

queueVars == <<order, unlinked>>

Queued == {order[i] : i \in DOMAIN order}

QueueInit == order = <<>> /\ unlinked = {}

(* First half of mpscq_push(): the exchange of q->head. *)
Exchange(n) ==
  /\ n \notin Queued
  /\ order' = Append(order, n)
  /\ unlinked' = unlinked \cup {n}

(* Second half: prev->next = node. *)
Link(n) ==
  /\ n \in unlinked
  /\ unlinked' = unlinked \ {n}
  /\ UNCHANGED order

(* The consumer can stand on the oldest node only when it is linked. *)
HeadReachable == order # <<>> /\ Head(order) \notin unlinked

(* mpscq_pop() returns the oldest node. *)
PopNode ==
  /\ HeadReachable
  /\ order' = Tail(order)
  /\ UNCHANGED unlinked

(* mpscq_pop() may return NULL for no other reason than these: the queue   *)
(* is empty, or some push is between its two halves.                       *)
PopMayFail == order = <<>> \/ unlinked # {}

QueueNext == PopNode \/ \E n \in Nodes : Exchange(n) \/ Link(n)

QueueSpec == QueueInit /\ [][QueueNext]_queueVars
=============================================================================
