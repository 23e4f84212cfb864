-------------------------------- MODULE Mpscq --------------------------------
(***************************************************************************)
(* The lock-free queue of lib/queue.c at the level of its pointers: one    *)
(* step per atomic access, any number of producers and one consumer.       *)
(***************************************************************************)
EXTENDS Integers, Sequences

CONSTANTS Producers, Nodes,
          Stub,             \* &q->stub
          NIL               \* NULL

Addr == Nodes \cup {Stub}

ASSUME AddrAssumption == Stub \notin Nodes /\ NIL \notin Addr

VARIABLES head, tail,       \* q->head (shared), q->tail (the consumer's)
          next,             \* node->next of every node
          node,             \* node[p]: what p is pushing between its two halves
          prev,             \* prev[p]: what p's exchange returned
          owned,            \* nodes handed to the queue and not yet returned
          cpc, cprev,       \* the consumer's place in mpscq_pop(), its own prev
          ret,              \* result of the last pop (NIL while there is none)
          failSeen,         \* auxiliary: NULL was justified since the pop began
          chain             \* auxiliary: the nodes from tail on, the stub among
                            \* them, in the order of the exchanges of head

vars == <<head, tail, next, node, prev, owned, cpc, cprev, ret, failSeen, chain>>

Init ==
  /\ head = Stub /\ tail = Stub
  /\ next = [a \in Addr |-> NIL]
  /\ node = [p \in Producers |-> NIL]
  /\ prev = [p \in Producers |-> NIL]
  /\ owned = {}
  /\ cpc = "idle" /\ cprev = NIL /\ ret = NIL
  /\ failSeen = FALSE
  /\ chain = <<Stub>>

-----------------------------------------------------------------------------
(* The queue the chain stands for: the stub is not part of it. *)

Pushing == {p \in Producers : node[p] # NIL}

StubAt(c) == CHOOSE i \in DOMAIN c : c[i] = Stub
WithoutStub(c) ==
  IF \A i \in DOMAIN c : c[i] # Stub THEN c
  ELSE [i \in 1..Len(c) - 1 |-> IF i < StubAt(c) THEN c[i] ELSE c[i + 1]]
Order == WithoutStub(chain)
Unlinked == {node[p] : p \in Pushing}

Fifo == INSTANCE MpscqSpec WITH order <- Order, unlinked <- Unlinked

-----------------------------------------------------------------------------
(* mpscq_push(): node->next = NULL, then the exchange, then the link. *)

PushExchange(p, n) ==
  /\ node[p] = NIL /\ n \notin owned
  /\ next' = [next EXCEPT ![n] = NIL]
  /\ prev' = [prev EXCEPT ![p] = head]
  /\ head' = n
  /\ node' = [node EXCEPT ![p] = n]
  /\ owned' = owned \cup {n}
  /\ chain' = Append(chain, n)
  /\ UNCHANGED <<tail, cpc, cprev, ret>>

PushLink(p) ==
  /\ node[p] # NIL
  /\ next' = [next EXCEPT ![prev[p]] = node[p]]
  /\ node' = [node EXCEPT ![p] = NIL]
  /\ prev' = [prev EXCEPT ![p] = NIL]
  /\ UNCHANGED <<head, tail, owned, cpc, cprev, ret, chain>>

-----------------------------------------------------------------------------
(* mpscq_pop(), one action per load or store that another thread can see. *)

Return(a) ==
  /\ ret' = a /\ cpc' = "idle"
  /\ owned' = owned \ {a}

StepTo(n) == tail' = n /\ chain' = Tail(chain)
Advance(n) == StepTo(n) /\ Return(tail)

(* tail = q->tail; next = tail->next, and the branch on the stub. *)
PopLoad ==
  /\ cpc = "idle"
  /\ LET n == next[tail] IN
     \/ tail = Stub /\ n = NIL /\ Return(NIL) /\ UNCHANGED <<tail, chain>>
     \/ tail = Stub /\ n # NIL /\ StepTo(n) /\ cpc' = "reload" /\ UNCHANGED <<ret, owned>>
     \/ tail # Stub /\ n # NIL /\ Advance(n)
     \/ tail # Stub /\ n = NIL /\ cpc' = "head" /\ UNCHANGED <<tail, ret, owned, chain>>
  /\ UNCHANGED <<head, next, node, prev, cprev>>

(* next = tail->next after stepping over the stub. *)
PopReload ==
  /\ cpc = "reload"
  /\ \/ next[tail] # NIL /\ Advance(next[tail])
     \/ next[tail] = NIL /\ cpc' = "head" /\ UNCHANGED <<tail, ret, owned, chain>>
  /\ UNCHANGED <<head, next, node, prev, cprev>>

(* Mutation: the last node is left to a later call instead of the stub being pushed. *)
PopHeadGivesUp ==
  /\ cpc = "head"
  /\ Return(NIL)
  /\ UNCHANGED <<head, tail, next, node, prev, cprev, chain>>

(* head = q->head; if (tail != head) return NULL. *)
PopHead ==
  /\ cpc = "head"
  /\ \/ tail # head /\ Return(NIL)
     \/ tail = head /\ cpc' = "stub_exchange" /\ UNCHANGED <<ret, owned>>
  /\ UNCHANGED <<head, tail, next, node, prev, cprev, chain>>

(* Mutation: a plain store of head, which misses a push since the load of head. *)
PopStubStore ==
  /\ cpc = "stub_exchange"
  /\ next' = [next EXCEPT ![Stub] = NIL]
  /\ cprev' = tail
  /\ head' = Stub
  /\ cpc' = "stub_link"
  /\ chain' = Append(chain, Stub)
  /\ UNCHANGED <<tail, node, prev, owned, ret>>

(* mpscq_push(q, &q->stub) by the consumer itself. *)
PopStubExchange ==
  /\ cpc = "stub_exchange"
  /\ next' = [next EXCEPT ![Stub] = NIL]
  /\ cprev' = head
  /\ head' = Stub
  /\ cpc' = "stub_link"
  /\ chain' = Append(chain, Stub)
  /\ UNCHANGED <<tail, node, prev, owned, ret>>

PopStubLink ==
  /\ cpc = "stub_link"
  /\ next' = [next EXCEPT ![cprev] = Stub]
  /\ cprev' = NIL
  /\ cpc' = "last"
  /\ UNCHANGED <<head, tail, node, prev, owned, ret, chain>>

(* Mutation: the stub is taken to follow the tail without reading the link again. *)
PopLastUnchecked ==
  /\ cpc = "last"
  /\ Advance(Stub)
  /\ UNCHANGED <<head, next, node, prev, cprev>>

(* next = tail->next once more; the last chance to return the tail. *)
PopLast ==
  /\ cpc = "last"
  /\ \/ next[tail] # NIL /\ Advance(next[tail])
     \/ next[tail] = NIL /\ Return(NIL) /\ UNCHANGED <<tail, chain>>
  /\ UNCHANGED <<head, next, node, prev, cprev>>

(* Mutation: only the link is read, not whether the tail is the stub. *)
MpscqIsEmptyByLink == next[tail] = NIL

(* mpscq_is_empty(), read by the consumer between two pops. *)
MpscqIsEmpty == tail = Stub /\ next[Stub] = NIL

Pop == PopLoad \/ PopReload \/ PopHead \/ PopStubExchange \/ PopStubLink \/ PopLast

(* The pop in progress has met a moment at which NULL is a right answer. *)
Observe ==
  failSeen' = (Fifo!PopMayFail \/ (cpc # "idle" /\ failSeen))

Next ==
  /\ Pop \/ \E p \in Producers : PushLink(p) \/ \E n \in Nodes : PushExchange(p, n)
  /\ Observe

Spec == Init /\ [][Next]_vars

-----------------------------------------------------------------------------
(* Every pointer is a node, the stub or NULL where the code allows NULL. *)
TypeOK ==
  /\ head \in Addr /\ tail \in Addr
  /\ next \in [Addr -> Addr \cup {NIL}]
  /\ node \in [Producers -> Nodes \cup {NIL}]
  /\ prev \in [Producers -> Addr \cup {NIL}]
  /\ owned \subseteq Nodes
  /\ cpc \in {"idle", "reload", "head", "stub_exchange", "stub_link", "last"}
  /\ cprev \in Addr \cup {NIL}
  /\ ret \in Nodes \cup {NIL}
  /\ failSeen \in BOOLEAN
  /\ chain \in Seq(Addr)

(* b follows a in the queue: by the pointer, or by the claim of a push that *)
(* has exchanged head and not yet written the pointer.                      *)
Follows(a, b) ==
  \/ next[a] = b
  \/ next[a] = NIL /\ \E p \in Pushing : prev[p] = a /\ node[p] = b
  \/ next[a] = NIL /\ cprev = a /\ b = Stub

(* The chain of pointers from tail holds every node given to the queue     *)
(* exactly once, and ends at head: nothing is lost or duplicated by        *)
(* re-inserting the stub while producers push (mpscq_pop, mpscq_push).     *)
ChainComplete ==
  /\ TypeOK
  /\ chain # <<>> /\ chain[1] = tail /\ chain[Len(chain)] = head
  /\ \A i, j \in 1..Len(chain) : chain[i] = chain[j] => i = j
  /\ \A i \in 1..Len(chain) : chain[i] \in owned \cup {Stub}
  /\ \A n \in owned : \E i \in 1..Len(chain) : chain[i] = n
  /\ \A i \in 1..Len(chain) - 1 : Follows(chain[i], chain[i + 1])
  /\ next[head] = NIL

(* The store prev->next of a push never goes to a node that the consumer   *)
(* has already returned, and so may have been freed by its owner.          *)
LinkTargetLive ==
  /\ \A p \in Pushing : prev[p] \in owned \cup {Stub}
  /\ cprev # NIL => cprev \in owned

(* mpscq_is_empty() between two pops says "empty" exactly when the queue   *)
(* is empty or its oldest node is not linked yet.  The re-notification of  *)
(* req_task_cb() and pkt_task_cb() rests on this.                          *)
IsEmptyExact == cpc = "idle" => (MpscqIsEmpty <=> ~ Fifo!HeadReachable)

(* The queue is a FIFO in exchange order (the abstract specification). *)
RefinesFifo == Fifo!QueueSpec

(* A pop that returns NULL overlapped a moment at which the queue was      *)
(* empty or a push was between its exchange and its link.                  *)
NullJustified ==
  [][cpc # "idle" /\ cpc' = "idle" /\ ret' = NIL
        => failSeen \/ Fifo!PopMayFail]_vars
=============================================================================
