---------------------------- MODULE AsyncCqSteps ----------------------------
(***************************************************************************)
(* The steps of AsyncCq keep its invariant: all of them the part about the *)
(* requests and the counters; those of the workers, of the close and of a  *)
(* waiter that has not gone to sleep the part about the waiters.           *)
(***************************************************************************)
EXTENDS AsyncCqInvariant, TLAPS

USE Zenon, SMT

-----------------------------------------------------------------------------
(* Queues. *)

(* What is in a queue from which the head was taken. *)
LEMMA TailIs ==
  ASSUME NEW S, NEW q \in Seq(S), q # <<>>
  PROVE  /\ Head(q) \in S /\ Head(q) \in Range(q) /\ Tail(q) \in Seq(S)
         /\ Range(Tail(q)) \subseteq Range(q)
         /\ Range(q) \subseteq Range(Tail(q)) \cup {Head(q)}
         /\ IsInjective(q) => IsInjective(Tail(q)) /\ Head(q) \notin Range(Tail(q))
         /\ \A r : Behind(q, r) => Behind(Tail(q), r)
         /\ \A r : Behind(q, r) /\ Head(q) = Cancel => r \notin Range(q)
<1>1. /\ Len(q) \in Nat /\ Len(q) >= 1 /\ DOMAIN q = 1..Len(q) /\ Head(q) = q[1] /\ q[1] \in S
      /\ Tail(q) \in Seq(S) /\ DOMAIN Tail(q) = 1..(Len(q) - 1) /\ Len(Tail(q)) = Len(q) - 1
      /\ \A i \in 1..(Len(q) - 1) : Tail(q)[i] = q[i + 1]
  BY SMT
<1>2. 1 \in DOMAIN q /\ Head(q) \in Range(q)
  BY <1>1, SMT DEF Range
<1>3. Range(Tail(q)) \subseteq Range(q)
  <2>1. ASSUME NEW i \in DOMAIN Tail(q) PROVE Tail(q)[i] \in Range(q)
    BY <1>1, SMT DEF Range
  <2> QED BY <2>1 DEF Range
<1>4. Range(q) \subseteq Range(Tail(q)) \cup {Head(q)}
  <2>1. ASSUME NEW i \in DOMAIN q, i # 1 PROVE q[i] \in Range(Tail(q))
    <3>1. i - 1 \in DOMAIN Tail(q) /\ Tail(q)[i - 1] = q[i]
      BY <1>1, <2>1, SMT
    <3> QED BY <3>1 DEF Range
  <2> QED BY <1>1, <2>1 DEF Range
<1>5. IsInjective(q) => IsInjective(Tail(q)) /\ Head(q) \notin Range(Tail(q))
  <2> SUFFICES ASSUME IsInjective(q) PROVE IsInjective(Tail(q)) /\ Head(q) \notin Range(Tail(q))
    OBVIOUS
  <2>1. \A i, j \in 1..Len(q) : q[i] = q[j] => i = j
    BY <1>1 DEF IsInjective
  <2>2. ASSUME NEW i \in DOMAIN Tail(q) PROVE Tail(q)[i] # q[1]
    BY <1>1, <2>1, SMT
  <2>3. ASSUME NEW i \in DOMAIN Tail(q), NEW j \in DOMAIN Tail(q), Tail(q)[i] = Tail(q)[j]
        PROVE  i = j
    <3>1. i + 1 \in 1..Len(q) /\ j + 1 \in 1..Len(q) /\ q[i + 1] = q[j + 1]
      BY <1>1, <2>3, SMT
    <3>2. i + 1 = j + 1
      BY <2>1, <3>1
    <3> QED BY <1>1, <3>2, SMT
  <2> QED BY <1>1, <2>2, <2>3, SMT DEF IsInjective, Range
<1>6. ASSUME NEW r, Behind(q, r) PROVE Behind(Tail(q), r)
  <2>1. ASSUME NEW i \in 1..Len(Tail(q)), NEW j \in 1..Len(Tail(q)), Tail(q)[i] = r,
               Tail(q)[j] = Cancel
        PROVE  i < j
    <3>1. i + 1 \in 1..Len(q) /\ j + 1 \in 1..Len(q) /\ q[i + 1] = r /\ q[j + 1] = Cancel
      BY <1>1, <2>1, SMT
    <3>2. i + 1 < j + 1
      BY <1>6, <3>1 DEF Behind
    <3> QED BY <1>1, <3>2, SMT
  <2> QED BY <2>1 DEF Behind
<1>7. ASSUME NEW r, Behind(q, r), Head(q) = Cancel PROVE r \notin Range(q)
  <2>1. ASSUME NEW i \in 1..Len(q), q[i] = r PROVE FALSE
    BY <1>1, <1>7, <2>1, SMT DEF Behind
  <2> QED BY <1>1, <2>1 DEF Range
<1> QED BY <1>1, <1>2, <1>3, <1>4, <1>5, <1>6, <1>7

(* What is in a queue to which e was added. *)
LEMMA AppendIs ==
  ASSUME NEW S, NEW q \in Seq(S), NEW e \in S
  PROVE  /\ Append(q, e) \in Seq(S) /\ Range(Append(q, e)) = Range(q) \cup {e}
         /\ IsInjective(q) /\ e \notin Range(q) => IsInjective(Append(q, e))
         /\ \A r : Behind(q, r) /\ e # Cancel /\ r # e => Behind(Append(q, e), r)
         /\ Cancel \notin Range(q) /\ e # Cancel => Behind(Append(q, e), e)
         /\ \A r : Cancel \notin Range(q) /\ e = Cancel /\ r # e => Behind(Append(q, e), r)
<1> DEFINE p == Append(q, e)
<1>1. /\ Len(q) \in Nat /\ DOMAIN q = 1..Len(q) /\ p \in Seq(S) /\ Len(p) = Len(q) + 1
      /\ DOMAIN p = 1..(Len(q) + 1) /\ p[Len(q) + 1] = e /\ \A i \in 1..Len(q) : p[i] = q[i]
  BY SMT
<1> HIDE DEF p
<1>2. \A i \in 1..(Len(q) + 1) : i # Len(q) + 1 => i \in 1..Len(q)
  BY <1>1, SMT
<1>3. Range(p) = Range(q) \cup {e}
  BY <1>1, <1>2, SMT DEF Range
<1>4. \A i \in 1..Len(q) : q[i] \in Range(q)
  BY <1>1 DEF Range
<1>5. IsInjective(q) /\ e \notin Range(q) => IsInjective(p)
  BY <1>1, <1>2, <1>4 DEF IsInjective
<1>6. ASSUME NEW r, Behind(q, r), e # Cancel, r # e PROVE Behind(p, r)
  BY <1>1, <1>2, <1>6 DEF Behind
<1>7. ASSUME NEW r, Cancel \notin Range(q), r # Cancel \/ e # Cancel PROVE Behind(p, r)
  <2>1. ASSUME NEW i \in 1..Len(p), NEW j \in 1..Len(p), p[i] = r, p[j] = Cancel PROVE i < j
    <3>1. j = Len(q) + 1 /\ e = Cancel
      BY <1>1, <1>2, <1>4, <1>7, <2>1
    <3>2. i # j
      BY <1>7, <2>1, <3>1
    <3> QED BY <1>1, <2>1, <3>1, <3>2, SMT
  <2> QED BY <2>1 DEF Behind
<1> QED BY <1>1, <1>3, <1>5, <1>6, <1>7 DEF p

-----------------------------------------------------------------------------
(* What the steps do. *)

(* A worker's record is replaced. *)
LEMMA WkSet ==
  ASSUME Types, NEW w \in Workers, NEW k \in WkRecs, wk' = [wk EXCEPT ![w] = k]
  PROVE  WkTo(w, k.inbox, k.pc, k.cur, k.queued, k.todo)
BY DEF Types, WkTo

(* The fields of a worker's record. *)
LEMMA WkIs ==
  ASSUME Types, NEW w \in Workers
  PROVE  /\ wk \in [Workers -> WkRecs] /\ wk[w] \in WkRecs
         /\ wk[w].inbox \in Seq(Reqs \cup {Cancel}) /\ wk[w].pc \in Places
         /\ wk[w].cur \in Reqs \cup {Cancel} /\ wk[w].queued \in Nat
         /\ wk[w].todo \in SUBSET (Reqs \cup {Cancel})
BY DEF Types, WkRecs

(* The fields of a request. *)
LEMMA ReqIs ==
  ASSUME Types, NEW r \in Reqs
  PROVE  /\ req \in [Reqs -> ReqRecs] /\ req[r] \in ReqRecs /\ req[r].worker \in 0..NumWorkers
         /\ req[r].done \in BOOLEAN /\ req[r].parked \in BOOLEAN /\ req[r].moved \in BOOLEAN
         /\ req[r].freed \in BOOLEAN
BY DEF Types, ReqRecs

(* The fields of the CQ. *)
LEMMA CqIs ==
  ASSUME Types
  PROVE  /\ cq \in CqRecs /\ cq.open \in BOOLEAN /\ cq.refs \in Int /\ cq.submit \in SUBSET Reqs
         /\ cq.list \in Seq(Reqs) /\ cq.count \in Int /\ cq.need \in 1..UINT_MAX
         /\ cq.buffered \in 1..NoStore /\ cq.pending \in {0, 1} /\ cq.efd \in Nat
BY DEF Types, CqRecs

(* The fields of a waiter. *)
LEMMA WtIs ==
  ASSUME Types, NEW t \in Waiters
  PROVE  /\ wt \in [Waiters -> WtRecs] /\ wt[t] \in WtRecs /\ wt[t].pc \in Stages
         /\ wt[t].got \in SUBSET Reqs /\ wt[t].poll \in Polls /\ wt[t].expired \in BOOLEAN
         /\ wt[t].armed \in BOOLEAN /\ wt[t].late \in BOOLEAN
BY DEF Types, WtRecs

(* A worker is no absent worker. *)
LEMMA WorkerIs ==
  /\ \A w \in Workers : w \in 0..NumWorkers /\ w # 0 /\ w \in Nat
  /\ \A w \in 0..NumWorkers : w # 0 => w \in Workers
  /\ 1 \in Workers /\ NumWorkers \in Nat
BY CqAssumption, SMT DEF Workers

(* async_submit_one() *)
LEMMA SubmitIs ==
  ASSUME Types, NEW r \in Reqs, Submit(r)
  PROVE  /\ Home[r] \in Workers
         /\ CqTo(cq.open, cq.refs, cq.submit \cup {r}, cq.list, cq.count, cq.need, cq.buffered,
                 cq.pending, cq.efd)
         /\ ReqTo(r, Home[r], req[r].done, req[r].parked, req[r].moved, req[r].freed)
         /\ LET k == wk[Home[r]]
            IN  WkTo(Home[r], Append(k.inbox, r), k.pc, k.cur, k.queued, k.todo)
<1>1. Home[r] \in Workers /\ Home[r] \in 0..NumWorkers
  BY CqAssumption, WorkerIs
<1>2. cq' = [cq EXCEPT !.submit = cq.submit \cup {r}] /\ cq.submit \cup {r} \in SUBSET Reqs
  BY CqIs DEF Submit
<1>3. CqTo(cq.open, cq.refs, cq.submit \cup {r}, cq.list, cq.count, cq.need, cq.buffered,
           cq.pending, cq.efd)
  BY <1>2 DEF Types, CqTo, CqRecs
<1>4. req' = [req EXCEPT ![r] = [req[r] EXCEPT !.worker = Home[r]]]
  BY DEF Submit
<1>5. ReqTo(r, Home[r], req[r].done, req[r].parked, req[r].moved, req[r].freed)
  BY <1>1, <1>4 DEF Types, ReqTo, ReqRecs
<1> DEFINE h == Home[r]
           k == wk[h]
           n == [k EXCEPT !.inbox = Append(k.inbox, r)]
<1>6. wk' = [wk EXCEPT ![h] = n]
  BY DEF Submit
<1>7. Append(k.inbox, r) \in Seq(Reqs \cup {Cancel})
  BY <1>1, WkIs, AppendIs
<1>8. /\ n \in WkRecs /\ n.inbox = Append(k.inbox, r) /\ n.pc = k.pc /\ n.cur = k.cur
      /\ n.queued = k.queued /\ n.todo = k.todo
  BY <1>1, <1>7, WkIs DEF WkRecs
<1> HIDE DEF n
<1>9. WkTo(h, n.inbox, n.pc, n.cur, n.queued, n.todo)
  BY <1>1, <1>6, <1>8, WkSet
<1> QED BY <1>1, <1>3, <1>5, <1>8, <1>9

(* process_request(), with what is left in the inbox. *)
LEMMA ProcessIs ==
  ASSUME Types, NEW w \in Workers, NEW r \in Reqs, NEW i \in Seq(Reqs \cup {Cancel}),
         Process(w, r, [wk EXCEPT ![w] = [wk[w] EXCEPT !.inbox = i]])
  PROVE  LET k == wk[w]
             o == req[r]
         IN  \/ /\ WkTo(w, i, "notify", r, k.queued, k.todo)
                /\ ReqTo(r, o.worker, o.done, FALSE, o.moved, o.freed)
             \/ /\ WkTo(w, i, k.pc, k.cur, k.queued, k.todo)
                /\ ReqTo(r, o.worker, o.done, TRUE, o.moved, o.freed)
             \/ /\ WkTo(w, i, "migrate", r, k.queued, k.todo)
                /\ \E w2 \in Workers \ {w} : ReqTo(r, w2, o.done, FALSE, TRUE, o.freed)
<1> DEFINE k == wk[w]
           o == req[r]
           k0 == [k EXCEPT !.inbox = i]
           wk0 == [wk EXCEPT ![w] = k0]
<1>1. wk \in [Workers -> WkRecs] /\ k \in WkRecs /\ req \in [Reqs -> ReqRecs] /\ o \in ReqRecs
  BY WkIs, ReqIs
<1>2. /\ k0 \in WkRecs /\ k0.inbox = i /\ k0.pc = k.pc /\ k0.cur = k.cur
      /\ k0.queued = k.queued /\ k0.todo = k.todo
  BY <1>1 DEF WkRecs
<1>3. wk' = wk0 => WkTo(w, i, k.pc, k.cur, k.queued, k.todo)
  BY <1>1, <1>2 DEF WkTo
<1>4. ASSUME NEW p \in Places, wk' = [wk0 EXCEPT ![w].pc = p, ![w].cur = r]
      PROVE  WkTo(w, i, p, r, k.queued, k.todo)
  <2> DEFINE n == [k EXCEPT !.inbox = i, !.pc = p, !.cur = r]
  <2>1. /\ n \in WkRecs /\ n.inbox = i /\ n.pc = p /\ n.cur = r
        /\ n.queued = k.queued /\ n.todo = k.todo
    BY <1>1 DEF WkRecs
  <2>2. wk' = [wk EXCEPT ![w] = n]
    BY <1>1, <1>4
  <2> HIDE DEF n, k
  <2> QED BY <2>1, <2>2, WkSet
<1>5. ASSUME NEW p \in BOOLEAN, req' = [req EXCEPT ![r].parked = p]
      PROVE  ReqTo(r, o.worker, o.done, p, o.moved, o.freed)
  BY <1>1, <1>5 DEF ReqTo, ReqRecs
<1>6. ASSUME NEW w2 \in Workers,
             req' = [req EXCEPT ![r].worker = w2, ![r].moved = TRUE, ![r].parked = FALSE]
      PROVE  ReqTo(r, w2, o.done, FALSE, TRUE, o.freed)
  <2>1. w2 \in 0..NumWorkers
    BY WorkerIs
  <2> QED BY <1>1, <1>6, <2>1 DEF ReqTo, ReqRecs
<1>7. "notify" \in Places /\ "migrate" \in Places
  BY DEF Places
<1> HIDE DEF k, o, k0, wk0
<1>8. \/ wk' = [wk0 EXCEPT ![w].pc = "notify", ![w].cur = r] /\ req' = [req EXCEPT ![r].parked = FALSE]
      \/ wk' = wk0 /\ req' = [req EXCEPT ![r].parked = TRUE]
      \/ /\ wk' = [wk0 EXCEPT ![w].pc = "migrate", ![w].cur = r]
         /\ \E w2 \in Workers \ {w} :
              req' = [req EXCEPT ![r].worker = w2, ![r].moved = TRUE, ![r].parked = FALSE]
  BY DEF Process, k, k0, wk0
<1> QED BY <1>3, <1>4, <1>5, <1>6, <1>7, <1>8 DEF k, o

(* A worker goes on, or req_notify() returns. *)
LEMMA GoesOn ==
  ASSUME Types, NEW w \in Workers
  PROVE  LET k == wk[w]
         IN  /\ \A p \in Places : wk' = [wk EXCEPT ![w].pc = p] =>
                  WkTo(w, k.inbox, p, k.cur, k.queued, k.todo)
             /\ wk' = Notified(w) =>
                  WkTo(w, k.inbox, IF k.todo = {} THEN "idle" ELSE "cancel", Cancel, 0, k.todo)
<1> DEFINE k == wk[w]
<1>1. wk \in [Workers -> WkRecs] /\ k \in WkRecs
  BY WkIs
<1>2. ASSUME NEW p \in Places, wk' = [wk EXCEPT ![w].pc = p]
      PROVE  WkTo(w, k.inbox, p, k.cur, k.queued, k.todo)
  BY <1>1, <1>2 DEF WkTo, WkRecs
<1>3. ASSUME wk' = Notified(w)
      PROVE  WkTo(w, k.inbox, IF k.todo = {} THEN "idle" ELSE "cancel", Cancel, 0, k.todo)
  <2> DEFINE p == IF k.todo = {} THEN "idle" ELSE "cancel"
             n == [k EXCEPT !.pc = p, !.cur = Cancel, !.queued = 0]
  <2>1. p \in Places /\ 0 \in Nat
    BY DEF Places
  <2>2. wk' = [wk EXCEPT ![w] = n]
    BY <1>1, <1>3 DEF Notified
  <2> HIDE DEF p
  <2>3. /\ n \in WkRecs /\ n.inbox = k.inbox /\ n.pc = p /\ n.cur = Cancel /\ n.queued = 0
        /\ n.todo = k.todo
    BY <1>1, <2>1 DEF WkRecs
  <2> HIDE DEF n, k
  <2>4. WkTo(w, n.inbox, n.pc, n.cur, n.queued, n.todo)
    BY <2>2, <2>3, WkSet
  <2> QED BY <2>3, <2>4 DEF p
<1> QED BY <1>2, <1>3

(* One field of the CQ changes, or two. *)
LEMMA CqFields ==
  ASSUME Types
  PROVE  /\ \A x \in Int : cq' = [cq EXCEPT !.refs = x] =>
              CqTo(cq.open, x, cq.submit, cq.list, cq.count, cq.need, cq.buffered, cq.pending, cq.efd)
         /\ \A x \in Int : cq' = [cq EXCEPT !.count = x] =>
              CqTo(cq.open, cq.refs, cq.submit, cq.list, x, cq.need, cq.buffered, cq.pending, cq.efd)
         /\ \A x \in Seq(Reqs) : cq' = [cq EXCEPT !.list = x] =>
              CqTo(cq.open, cq.refs, cq.submit, x, cq.count, cq.need, cq.buffered, cq.pending, cq.efd)
         /\ \A x \in {0, 1} : cq' = [cq EXCEPT !.pending = x] =>
              CqTo(cq.open, cq.refs, cq.submit, cq.list, cq.count, cq.need, cq.buffered, x, cq.efd)
         /\ \A x \in Nat : cq' = [cq EXCEPT !.efd = x] =>
              CqTo(cq.open, cq.refs, cq.submit, cq.list, cq.count, cq.need, cq.buffered, cq.pending, x)
         /\ \A x \in 1..NoStore : cq' = [cq EXCEPT !.buffered = x] =>
              CqTo(cq.open, cq.refs, cq.submit, cq.list, cq.count, cq.need, x, cq.pending, cq.efd)
         /\ cq' = [cq EXCEPT !.open = FALSE] =>
              CqTo(FALSE, cq.refs, cq.submit, cq.list, cq.count, cq.need, cq.buffered, cq.pending, cq.efd)
         /\ \A x \in 1..UINT_MAX : cq' = [cq EXCEPT !.need = x] =>
              CqTo(cq.open, cq.refs, cq.submit, cq.list, cq.count, x, cq.buffered, cq.pending, cq.efd)
         /\ \A x \in 1..UINT_MAX :
              NoStore \in 1..NoStore /\ cq' = [cq EXCEPT !.need = x, !.buffered = NoStore] =>
              CqTo(cq.open, cq.refs, cq.submit, cq.list, cq.count, x, NoStore, cq.pending, cq.efd)
<1>1. cq \in CqRecs
  BY CqIs
<1>2. ASSUME NEW x \in Int, cq' = [cq EXCEPT !.refs = x]
      PROVE  CqTo(cq.open, x, cq.submit, cq.list, cq.count, cq.need, cq.buffered, cq.pending, cq.efd)
  BY <1>1, <1>2 DEF CqTo, CqRecs
<1>3. ASSUME NEW x \in Int, cq' = [cq EXCEPT !.count = x]
      PROVE  CqTo(cq.open, cq.refs, cq.submit, cq.list, x, cq.need, cq.buffered, cq.pending, cq.efd)
  BY <1>1, <1>3 DEF CqTo, CqRecs
<1>4. ASSUME NEW x \in Seq(Reqs), cq' = [cq EXCEPT !.list = x]
      PROVE  CqTo(cq.open, cq.refs, cq.submit, x, cq.count, cq.need, cq.buffered, cq.pending, cq.efd)
  BY <1>1, <1>4 DEF CqTo, CqRecs
<1>5. ASSUME NEW x \in {0, 1}, cq' = [cq EXCEPT !.pending = x]
      PROVE  CqTo(cq.open, cq.refs, cq.submit, cq.list, cq.count, cq.need, cq.buffered, x, cq.efd)
  BY <1>1, <1>5 DEF CqTo, CqRecs
<1>6. ASSUME NEW x \in Nat, cq' = [cq EXCEPT !.efd = x]
      PROVE  CqTo(cq.open, cq.refs, cq.submit, cq.list, cq.count, cq.need, cq.buffered, cq.pending, x)
  BY <1>1, <1>6 DEF CqTo, CqRecs
<1>7. ASSUME NEW x \in 1..NoStore, cq' = [cq EXCEPT !.buffered = x]
      PROVE  CqTo(cq.open, cq.refs, cq.submit, cq.list, cq.count, cq.need, x, cq.pending, cq.efd)
  BY <1>1, <1>7 DEF CqTo, CqRecs
<1>8. ASSUME cq' = [cq EXCEPT !.open = FALSE]
      PROVE  CqTo(FALSE, cq.refs, cq.submit, cq.list, cq.count, cq.need, cq.buffered, cq.pending, cq.efd)
  BY <1>1, <1>8 DEF CqTo, CqRecs
<1>9. ASSUME NEW x \in 1..UINT_MAX, cq' = [cq EXCEPT !.need = x]
      PROVE  CqTo(cq.open, cq.refs, cq.submit, cq.list, cq.count, x, cq.buffered, cq.pending, cq.efd)
  BY <1>1, <1>9 DEF CqTo, CqRecs
<1>10. ASSUME NEW x \in 1..UINT_MAX, NoStore \in 1..NoStore,
              cq' = [cq EXCEPT !.need = x, !.buffered = NoStore]
       PROVE  CqTo(cq.open, cq.refs, cq.submit, cq.list, cq.count, x, NoStore, cq.pending, cq.efd)
  BY <1>1, <1>10 DEF CqTo, CqRecs
<1> QED BY <1>2, <1>3, <1>4, <1>5, <1>6, <1>7, <1>8, <1>9, <1>10

(* async_cq_pop() *)
LEMMA PopIs ==
  ASSUME Types, cq.list # <<>>, cq' = CqPop
  PROVE  /\ CqTo(cq.open, cq.refs, cq.submit \ {Head(cq.list)}, Tail(cq.list), cq.count - 1,
                 cq.need, cq.buffered, cq.pending, cq.efd)
         /\ Head(cq.list) \in Reqs
<1>1. /\ cq \in CqRecs /\ Tail(cq.list) \in Seq(Reqs) /\ Head(cq.list) \in Reqs
      /\ cq.submit \ {Head(cq.list)} \in SUBSET Reqs /\ cq.count - 1 \in Int
  BY CqIs, TailIs, SMT
<1>2. cq' = [cq EXCEPT !.list = Tail(cq.list), !.count = cq.count - 1,
                       !.submit = cq.submit \ {Head(cq.list)}]
  BY <1>1 DEF CqPop, CqRecs
<1> QED BY <1>1, <1>2 DEF CqTo, CqRecs

(* The place of a waiter changes, or what it has. *)
LEMMA WtFields ==
  ASSUME Types, NEW t \in Waiters
  PROVE  LET u == wt[t]
         IN  /\ \A p \in Stages : wt' = [wt EXCEPT ![t].pc = p] => WtTo(t, p, u.got, u.armed, u.late)
             /\ \A g \in SUBSET Reqs : wt' = [wt EXCEPT ![t].got = g] =>
                  WtTo(t, u.pc, g, u.armed, u.late)
             /\ wt' = [wt EXCEPT ![t].expired = TRUE] => WtTo(t, u.pc, u.got, u.armed, u.late)
             /\ \A p \in Stages, a \in BOOLEAN : wt' = [wt EXCEPT ![t].pc = p, ![t].armed = a] =>
                  WtTo(t, p, u.got, a, u.late)
             /\ \A p \in Stages, l \in BOOLEAN : wt' = [wt EXCEPT ![t].pc = p, ![t].late = l] =>
                  WtTo(t, p, u.got, u.armed, l)
             /\ \A p \in Stages, x \in Polls : wt' = [wt EXCEPT ![t].pc = p, ![t].poll = x] =>
                  WtTo(t, p, u.got, u.armed, u.late)
<1> DEFINE u == wt[t]
<1>1. wt \in [Waiters -> WtRecs] /\ u \in WtRecs
  BY WtIs
<1>2. ASSUME NEW p \in Stages, wt' = [wt EXCEPT ![t].pc = p]
      PROVE  WtTo(t, p, u.got, u.armed, u.late)
  BY <1>1, <1>2 DEF WtTo, WtRecs
<1>3. ASSUME NEW g \in SUBSET Reqs, wt' = [wt EXCEPT ![t].got = g]
      PROVE  WtTo(t, u.pc, g, u.armed, u.late)
  BY <1>1, <1>3 DEF WtTo, WtRecs
<1>4. ASSUME wt' = [wt EXCEPT ![t].expired = TRUE]
      PROVE  WtTo(t, u.pc, u.got, u.armed, u.late)
  BY <1>1, <1>4 DEF WtTo, WtRecs
<1>5. ASSUME NEW p \in Stages, NEW a \in BOOLEAN, wt' = [wt EXCEPT ![t].pc = p, ![t].armed = a]
      PROVE  WtTo(t, p, u.got, a, u.late)
  BY <1>1, <1>5 DEF WtTo, WtRecs
<1>6. ASSUME NEW p \in Stages, NEW l \in BOOLEAN, wt' = [wt EXCEPT ![t].pc = p, ![t].late = l]
      PROVE  WtTo(t, p, u.got, u.armed, l)
  BY <1>1, <1>6 DEF WtTo, WtRecs
<1>7. ASSUME NEW p \in Stages, NEW x \in Polls, wt' = [wt EXCEPT ![t].pc = p, ![t].poll = x]
      PROVE  WtTo(t, p, u.got, u.armed, u.late)
  BY <1>1, <1>7 DEF WtTo, WtRecs
<1> QED BY <1>2, <1>3, <1>4, <1>5, <1>6, <1>7

(* async_wait() returns. *)
LEMMA LeaveIs ==
  ASSUME Types, NEW t \in Waiters, Leave(t)
  PROVE  /\ WtTo(t, "out", wt[t].got, FALSE, FALSE)
         /\ CqTo(cq.open, cq.refs - 1, cq.submit, cq.list, cq.count, cq.need, cq.buffered,
                 cq.pending, cq.efd)
<1> DEFINE u == wt[t]
           n == [NewWaiter EXCEPT !.pc = "out", !.got = u.got]
<1>1. wt \in [Waiters -> WtRecs] /\ u \in WtRecs /\ u.got \in SUBSET Reqs
  BY WtIs
<1>2. "call" \in Stages /\ "out" \in Stages /\ "none" \in Polls /\ {} \in SUBSET Reqs
  BY DEF Stages, Polls
<1>3. NewWaiter \in WtRecs /\ NewWaiter.armed = FALSE /\ NewWaiter.late = FALSE
  BY <1>2 DEF NewWaiter, WtRecs
<1>4. n \in WtRecs /\ n.pc = "out" /\ n.got = u.got /\ n.armed = FALSE /\ n.late = FALSE
  BY <1>1, <1>2, <1>3 DEF WtRecs
<1>5. wt' = [wt EXCEPT ![t] = n]
  BY DEF Leave
<1> HIDE DEF n, u
<1>6. WtTo(t, "out", u.got, FALSE, FALSE)
  BY <1>1, <1>4, <1>5 DEF WtTo
<1>7. cq' = [cq EXCEPT !.refs = cq.refs - 1] /\ cq.refs - 1 \in Int
  BY CqIs, SMT DEF Leave
<1> QED BY <1>6, <1>7, CqFields DEF u

-----------------------------------------------------------------------------
(* Requests stay where they may be. *)

(* No worker and no request goes anywhere, and the close sweeps no more.    *)
LEMMA PlacesKept ==
  ASSUME Requests,
         \A w \in Workers : /\ wk'[w].inbox = wk[w].inbox /\ wk'[w].pc = wk[w].pc
                            /\ wk'[w].cur = wk[w].cur /\ wk'[w].todo = wk[w].todo,
         \A r \in Reqs : /\ req'[r].worker = req[r].worker /\ req'[r].done = req[r].done
                         /\ req'[r].parked = req[r].parked /\ req'[r].moved = req[r].moved,
         cl' = cl \/ (cl.pc # "visiting" /\ \A w \in Workers : Visited(w)' => Visited(w))
  PROVE  Walks' /\ InPlace' /\ Swept'
<1>1. ASSUME NEW w \in Workers PROVE WalkOk(w, wk[w])'
  <2>1. WalkOk(w, wk[w])
    BY DEF Requests, Walks
  <2> QED BY <2>1 DEF WalkOk
<1>2. ASSUME NEW w \in Workers, NEW r \in Reqs PROVE At(w, r)'
  <2>1. At(w, r)
    BY DEF Requests, InPlace
  <2>2. InboxOk(w, wk[w], r, req[r])'
    BY <2>1 DEF At, InboxOk
  <2>3. NotifyOk(w, wk[w], r, req[r])'
    BY <2>1 DEF At, NotifyOk
  <2>4. MigrateOk(w, wk[w], r, req[r])'
    BY <2>1 DEF At, MigrateOk
  <2> QED BY <2>2, <2>3, <2>4 DEF At
<1>3. ASSUME NEW w \in Workers, NEW r \in Reqs PROVE SweptAt(w, r)'
  <2>1. SweptAt(w, r) /\ (Visited(w)' => Visited(w))
    BY DEF Requests, Swept, Visited
  <2> QED BY <2>1 DEF SweptAt, SweptOk
<1> QED BY <1>1, <1>2, <1>3 DEF Walks, InPlace, Swept

(* Who has a request does not change, except for r. *)
LEMMA OwnedKept ==
  ASSUME Owned, NEW r,
         \A s \in Reqs : s # r => /\ req'[s] = req[s] /\ (Completing(s)' <=> Completing(s))
                                  /\ s \in cq'.submit <=> s \in cq.submit
                                  /\ s \in Range(cq'.list) <=> s \in Range(cq.list)
                                  /\ \A t \in Waiters : Gets(t, s)' <=> Gets(t, s),
         r \in Reqs => OwnedAt(r)'
  PROVE  Owned'
<1> SUFFICES ASSUME NEW s \in Reqs, s # r PROVE OwnedAt(s)'
  BY DEF Owned
<1>1. /\ OwnedAt(s) /\ req'[s] = req[s] /\ (Completing(s)' <=> Completing(s))
      /\ s \in cq'.submit <=> s \in cq.submit
      /\ s \in Range(cq'.list) <=> s \in Range(cq.list)
      /\ \A t \in Waiters : Gets(t, s)' <=> Gets(t, s)
  BY DEF Owned
<1>2. Handed(s)' <=> Handed(s)
  BY <1>1 DEF Handed
<1> QED BY <1>1, <1>2 DEF OwnedAt, ReqOk, OnceOk

(* A request that a worker w has: no other worker has it in its inbox or    *)
(* completes it.                                                            *)
LEMMA Elsewhere ==
  ASSUME Requests, NEW w \in Workers, NEW r \in Reqs, req[r].worker = w, NEW v \in Workers, v # w
  PROVE  r \notin Range(wk[v].inbox) /\ ~ (wk[v].pc \in Notifying /\ wk[v].cur = r)
<1>1. At(v, r)
  BY DEF Requests, InPlace
<1> QED BY <1>1 DEF At, InboxOk, NotifyOk

(* A step of worker w on request r: it may take r from its inbox, and it    *)
(* may drop r from its walk.                                                *)
LEMMA PlacesStep ==
  ASSUME Requests, cl' = cl, NEW w \in Workers, NEW r \in Reqs, NEW i, NEW p, NEW c, NEW n, NEW t,
         WkTo(w, i, p, c, n, t), \A s \in Reqs : s # r => req'[s] = req[s],
         Range(i) \subseteq Range(wk[w].inbox),
         \A s : Behind(wk[w].inbox, s) => Behind(i, s),
         t # {} => wk[w].todo # {} /\ wk[w].todo \subseteq t \cup {r},
         p \in Notifying \cup {"migrate"} => c = r,
         wk[w].pc = "notify" => wk[w].cur = r,
         WalkOk(w, wk[w])', \A v \in Workers : At(v, r)' /\ SweptAt(v, r)'
  PROVE  Walks' /\ InPlace' /\ Swept'
<1>1. /\ \A v \in Workers : v # w => wk'[v] = wk[v]
      /\ wk'[w].inbox = i /\ wk'[w].pc = p /\ wk'[w].cur = c /\ wk'[w].todo = t
  BY DEF WkTo
<1>2. \A v \in Workers : Range(wk'[v].inbox) \subseteq Range(wk[v].inbox)
  BY <1>1
<1>3. ASSUME NEW v \in Workers, v # w PROVE WalkOk(v, wk[v])'
  <2>1. WalkOk(v, wk[v]) /\ wk'[v] = wk[v]
    BY <1>1, <1>3 DEF Requests, Walks
  <2> QED BY <2>1 DEF WalkOk
<1>4. ASSUME NEW v \in Workers, NEW s \in Reqs, s # r PROVE At(v, s)'
  <2>1. At(v, s) /\ req'[s] = req[s]
    BY <1>4 DEF Requests, InPlace
  <2>2. wk'[v].pc = "migrate" /\ wk'[v].cur = s => v # w /\ wk'[v] = wk[v]
    BY <1>1, <1>4
  <2>3. MigrateOk(v, wk[v], s, req[s])'
    <3>1. \A x \in Workers : wk'[x].pc = "migrate" /\ wk'[x].cur = s =>
                               wk[x].pc = "migrate" /\ wk[x].cur = s
      BY <1>1, <1>4
    <3> QED BY <1>2, <2>1, <2>2, <3>1 DEF At, MigrateOk
  <2>4. CASE v # w
    <3>1. wk'[v] = wk[v]
      BY <1>1, <2>4
    <3> QED BY <2>1, <2>3, <3>1 DEF At, InboxOk, NotifyOk
  <2>5. CASE v = w
    <3>1. InboxOk(v, wk[v], s, req[s])'
      BY <1>1, <1>2, <2>1, <2>5 DEF At, InboxOk
    <3>2. NotifyOk(v, wk[v], s, req[s])'
      BY <1>1, <1>4, <2>5 DEF NotifyOk
    <3> QED BY <2>3, <3>1, <3>2 DEF At
  <2> QED BY <2>4, <2>5
<1>5. ASSUME NEW v \in Workers, NEW s \in Reqs, s # r PROVE SweptAt(v, s)'
  <2>1. SweptAt(v, s) /\ req'[s] = req[s] /\ Visited(v)' = Visited(v)
    BY <1>5 DEF Requests, Swept, Visited
  <2>2. CASE v # w
    <3>1. wk'[v] = wk[v]
      BY <1>1, <2>2
    <3> QED BY <2>1, <3>1 DEF SweptAt, SweptOk
  <2>3. CASE v = w
    BY <1>1, <1>5, <2>1, <2>3, SMT DEF SweptAt, SweptOk
  <2> QED BY <2>2, <2>3
<1> QED BY <1>3, <1>4, <1>5 DEF Walks, InPlace, Swept

(* Types and mutual exclusion, when only workers and requests change. *)
LEMMA WorkKept ==
  ASSUME Requests, UNCHANGED <<mtx, wt, cl>>, cq' \in CqRecs, cq'.open = cq.open,
         cq'.submit \subseteq cq.submit, wk' \in [Workers -> WkRecs], req' \in [Reqs -> ReqRecs]
  PROVE  Types' /\ Mutex' /\ Closed'
<1>1. Types' /\ Mutex'
  BY DEF Requests, Types, Mutex
<1>2. Closed'
  BY DEF Requests, Closed
<1> QED BY <1>1, <1>2

(* The same, with a cq' that is the queue's. *)
LEMMA WorkSound ==
  ASSUME Requests, UNCHANGED <<mtx, wt, cl>>, cq' \in CqRecs, cq'.open = cq.open,
         cq'.submit \subseteq cq.submit, wk' \in [Workers -> WkRecs], req' \in [Reqs -> ReqRecs],
         Walks', InPlace', Swept', Owned'
  PROVE  Requests'
BY WorkKept DEF Requests

(* A worker's step leaves who has the requests alone, except for r. *)
LEMMA StillOwned ==
  ASSUME Requests, UNCHANGED wt, cq'.submit = cq.submit, cq'.list = cq.list, NEW r,
         \A s \in Reqs : s # r => req'[s] = req[s] /\ (Completing(s)' <=> Completing(s)),
         r \in Reqs => OwnedAt(r)'
  PROVE  Owned'
<1>1. \A s, t : Gets(t, s)' <=> Gets(t, s)
  BY DEF Gets
<1>2. \A s \in Reqs : s # r => /\ req'[s] = req[s] /\ (Completing(s)' <=> Completing(s))
                               /\ s \in cq'.submit <=> s \in cq.submit
                               /\ s \in Range(cq'.list) <=> s \in Range(cq.list)
                               /\ \A t \in Waiters : Gets(t, s)' <=> Gets(t, s)
  BY <1>1
<1> QED BY <1>2, OwnedKept DEF Requests

(* Nothing is submitted, completed or delivered. *)
LEMMA SameOwners ==
  ASSUME Requests, UNCHANGED <<wt, req>>, cq'.submit = cq.submit, cq'.list = cq.list,
         \A s \in Reqs : Completing(s)' <=> Completing(s)
  PROVE  Owned'
<1>1. Cancel \notin Reqs
  BY CqAssumption
<1> QED BY <1>1, StillOwned

(* process_request() completes, parks or moves a request of its worker. *)
LEMMA ProcessKeeps ==
  ASSUME Requests, NEW w \in Workers, NEW r \in Reqs, wk[w].pc = "idle", ~ req[r].done,
         req[r].worker = w, NEW i \in Seq(Reqs \cup {Cancel}), IsInjective(i),
         Range(i) \subseteq Range(wk[w].inbox), r \notin Range(i),
         \A s : Behind(wk[w].inbox, s) => Behind(i, s),
         \A v \in Workers : ~ (wk[v].pc = "migrate" /\ wk[v].cur = r),
         Process(w, r, [wk EXCEPT ![w] = [wk[w] EXCEPT !.inbox = i]]),
         UNCHANGED <<mtx, cq, wt, cl>>
  PROVE  Requests'
<1>1. Types /\ WalkOk(w, wk[w]) /\ At(w, r) /\ SweptAt(w, r) /\ OwnedAt(r) /\ Owned
  BY DEF Requests, Walks, InPlace, Swept, Owned
<1>2. wk[w].todo = {}
  BY <1>1 DEF WalkOk, Notifying
<1>3. \A v \in Workers : v # w => /\ r \notin Range(wk[v].inbox)
                                  /\ ~ (wk[v].pc \in Notifying /\ wk[v].cur = r)
  BY Elsewhere
<1>4. ~ req[r].moved => ~ Visited(w)
  BY <1>1 DEF SweptAt, SweptOk
<1>5. \A v \in Workers : Visited(v)' = Visited(v)
  BY DEF Visited
<1>6. cq' \in CqRecs /\ cq'.open = cq.open /\ cq'.submit = cq.submit /\ cq'.list = cq.list
  BY <1>1, CqIs
<1>7. r \in cq.submit /\ ~ Handed(r)
  BY <1>1, WorkerIs DEF OwnedAt, ReqOk, OnceOk
<1>8. ASSUME NEW p, NEW c, NEW n, NEW t, WkTo(w, i, p, c, n, t), p \in {"idle", "notify", "migrate"},
             t = {}, p # "idle" => c = r,
             NEW h, NEW d, NEW k, NEW m, NEW f, ReqTo(r, h, d, k, m, f), d = FALSE,
             f = req[r].freed, h # 0,
             \A v \in Workers : At(v, r)' /\ SweptAt(v, r)'
      PROVE  Requests'
  <2>1. /\ \A v \in Workers : v # w => wk'[v] = wk[v]
        /\ wk'[w].inbox = i /\ wk'[w].pc = p /\ wk'[w].cur = c /\ wk'[w].todo = t
        /\ wk' \in [Workers -> WkRecs]
    BY <1>8 DEF WkTo
  <2>2. /\ \A s \in Reqs : s # r => req'[s] = req[s]
        /\ ~ req'[r].done /\ req'[r].worker # 0 /\ req'[r].freed = req[r].freed
        /\ req' \in [Reqs -> ReqRecs]
    BY <1>8 DEF ReqTo
  <2>3. p \notin {"count", "push", "cancel", "claim", "write", "need"}
    BY <1>8
  <2>4. WalkOk(w, wk[w])'
    BY <1>1, <1>8, <2>1, <2>3 DEF WalkOk, Notifying
  <2>5. Walks' /\ InPlace' /\ Swept'
    BY <1>8, <2>2, <2>4, PlacesStep DEF Notifying
  <2>6. \A s : Completing(s)' <=> Completing(s)
    BY <2>1, <2>3 DEF Completing
  <2>7. OwnedAt(r)'
    <3>1. Handed(r)' <=> Handed(r)
      BY <2>2 DEF Handed, Gets
    <3>2. ~ Completing(r) /\ r \notin Range(cq.list)
      <4>1. ASSUME NEW v \in Workers, wk[v].pc \in {"count", "push"}, wk[v].cur = r PROVE FALSE
        BY <1>3, <4>1 DEF Notifying
      <4> QED BY <1>1, <4>1 DEF Completing, OwnedAt, OnceOk
    <3> QED BY <1>6, <1>7, <2>2, <2>6, <3>1, <3>2 DEF OwnedAt, ReqOk, OnceOk, Handed
  <2>8. Owned'
    <3>1. \A s \in Reqs : s # r => req'[s] = req[s] /\ (Completing(s)' <=> Completing(s))
      BY <2>2, <2>6
    <3> QED BY <1>6, <2>7, <3>1, StillOwned
  <2> QED BY <1>6, <2>1, <2>2, <2>5, <2>8, WorkKept DEF Requests
<1> DEFINE k == wk[w]
           o == req[r]
<1>9. o.worker # 0 /\ o.done = FALSE
  BY <1>1, WorkerIs, ReqIs
<1>10. CASE /\ WkTo(w, i, "notify", r, k.queued, k.todo)
            /\ ReqTo(r, o.worker, o.done, FALSE, o.moved, o.freed)
  <2>1. /\ \A v \in Workers : v # w => wk'[v] = wk[v]
        /\ wk'[w].inbox = i /\ wk'[w].pc = "notify" /\ wk'[w].cur = r /\ wk'[w].todo = {}
    BY <1>2, <1>10 DEF WkTo
  <2>2. ~ req'[r].done /\ req'[r].worker = w /\ req'[r].moved = req[r].moved
    BY <1>10 DEF ReqTo
  <2>3. ASSUME NEW v \in Workers PROVE At(v, r)'
    BY <1>3, <2>1, <2>2 DEF At, InboxOk, NotifyOk, MigrateOk
  <2>4. ASSUME NEW v \in Workers PROVE SweptAt(v, r)'
    BY <1>4, <1>5, <2>1, <2>2 DEF SweptAt, SweptOk
  <2> QED BY <1>2, <1>8, <1>9, <1>10, <2>3, <2>4
<1>11. CASE /\ WkTo(w, i, k.pc, k.cur, k.queued, k.todo)
            /\ ReqTo(r, o.worker, o.done, TRUE, o.moved, o.freed)
  <2>1. /\ \A v \in Workers : v # w => wk'[v] = wk[v]
        /\ wk'[w].inbox = i /\ wk'[w].pc = "idle" /\ wk'[w].todo = {}
    BY <1>2, <1>11 DEF WkTo
  <2>2. ~ req'[r].done /\ req'[r].worker = w /\ req'[r].moved = req[r].moved
    BY <1>11 DEF ReqTo
  <2>3. ASSUME NEW v \in Workers PROVE At(v, r)'
    BY <1>3, <2>1, <2>2 DEF At, InboxOk, NotifyOk, MigrateOk, Notifying
  <2>4. ASSUME NEW v \in Workers PROVE SweptAt(v, r)'
    BY <1>4, <1>5, <2>1, <2>2 DEF SweptAt, SweptOk
  <2> QED BY <1>2, <1>8, <1>9, <1>11, <2>3, <2>4
<1>12. CASE /\ WkTo(w, i, "migrate", r, k.queued, k.todo)
            /\ \E w2 \in Workers \ {w} : ReqTo(r, w2, o.done, FALSE, TRUE, o.freed)
  <2>1. /\ \A v \in Workers : v # w => wk'[v] = wk[v]
        /\ wk'[w].inbox = i /\ wk'[w].pc = "migrate" /\ wk'[w].cur = r /\ wk'[w].todo = {}
    BY <1>2, <1>12 DEF WkTo
  <2>2. PICK w2 \in Workers \ {w} : ReqTo(r, w2, o.done, FALSE, TRUE, o.freed)
    BY <1>12
  <2>3. req'[r].worker = w2 /\ ~ req'[r].parked /\ req'[r].moved /\ w2 # 0 /\ w2 # w
    BY <2>2, WorkerIs DEF ReqTo
  <2>4. ASSUME NEW v \in Workers PROVE At(v, r)'
    <3>1. \A x \in Workers : r \notin Range(wk'[x].inbox)
      BY <1>3, <2>1
    <3>2. \A x \in Workers : wk'[x].pc = "migrate" /\ wk'[x].cur = r => x = w
      BY <2>1
    <3>3. ~ (wk'[v].pc \in Notifying /\ wk'[v].cur = r)
      BY <1>3, <2>1 DEF Notifying
    <3> QED BY <2>3, <3>1, <3>2, <3>3 DEF At, InboxOk, NotifyOk, MigrateOk
  <2>5. ASSUME NEW v \in Workers PROVE SweptAt(v, r)'
    BY <2>3 DEF SweptAt, SweptOk
  <2> QED BY <1>2, <1>8, <1>9, <1>12, <2>2, <2>3, <2>4, <2>5
<1> QED BY <1>1, <1>10, <1>11, <1>12, ProcessIs

(* req_task_cb() with a request. *)
LEMMA TakeRequestKeeps ==
  ASSUME Requests, NEW w \in Workers, TakeRequest(w)
  PROVE  Requests'
<1> DEFINE k == wk[w]
           q == k.inbox
<1>0. PICK r \in Reqs : r = Head(q)
  BY DEF TakeRequest
<1>1. Types /\ WalkOk(w, k) /\ (\A v \in Workers : At(v, r)) /\ Owned
  BY DEF Requests, Walks, InPlace
<1>2. /\ q \in Seq(Reqs \cup {Cancel}) /\ q # <<>> /\ k.pc = "idle"
      /\ UNCHANGED <<mtx, cq, wt, cl>>
      /\ wk \in [Workers -> WkRecs] /\ k \in WkRecs
  BY <1>1, WkIs DEF TakeRequest
<1>3. /\ r \in Range(q) /\ Tail(q) \in Seq(Reqs \cup {Cancel}) /\ Range(Tail(q)) \subseteq Range(q)
      /\ IsInjective(Tail(q)) /\ r \notin Range(Tail(q))
      /\ \A s : Behind(q, s) => Behind(Tail(q), s)
  <2>1. IsInjective(q)
    BY <1>1 DEF WalkOk
  <2> QED BY <1>0, <1>2, <2>1, TailIs, SMT
<1>4. req[r].worker = w
  BY <1>1, <1>2, <1>3 DEF At, InboxOk
<1>5. \A v \in Workers : ~ (wk[v].pc = "migrate" /\ wk[v].cur = r)
  BY <1>1, <1>2, <1>3 DEF At, MigrateOk
<1>6. CASE ~ req[r].done
  <2>1. Process(w, r, [wk EXCEPT ![w] = [wk[w] EXCEPT !.inbox = Tail(q)]])
    BY <1>0, <1>6 DEF TakeRequest
  <2> HIDE DEF q, k
  <2> QED BY <1>2, <1>3, <1>4, <1>5, <1>6, <2>1, ProcessKeeps DEF k, q
<1>7. CASE req[r].done
  <2> DEFINE n == [k EXCEPT !.inbox = Tail(q)]
  <2>1. wk' = [wk EXCEPT ![w] = n] /\ req' = req
    BY <1>0, <1>7 DEF TakeRequest
  <2>2. /\ n \in WkRecs /\ n.inbox = Tail(q) /\ n.pc = "idle" /\ n.cur = k.cur
        /\ n.queued = k.queued /\ n.todo = k.todo
    BY <1>2, <1>3 DEF WkRecs
  <2>3. WkTo(w, Tail(q), "idle", k.cur, k.queued, k.todo)
    <3> HIDE DEF n, k, q
    <3> QED BY <1>1, <2>1, <2>2, WkSet
  <2>4. /\ \A v \in Workers : v # w => wk'[v] = wk[v]
        /\ wk'[w].inbox = Tail(q) /\ wk'[w].pc = "idle" /\ wk'[w].todo = k.todo
        /\ wk'[w].cur = k.cur /\ wk' \in [Workers -> WkRecs]
    BY <2>3 DEF WkTo
  <2> HIDE DEF n
  <2>5. k.todo = {}
    BY <1>1, <1>2 DEF WalkOk, Notifying
  <2>6. WalkOk(w, wk[w])'
    BY <1>1, <1>2, <1>3, <2>4, <2>5 DEF WalkOk, Notifying
  <2>7. ASSUME NEW v \in Workers PROVE At(v, r)' /\ SweptAt(v, r)'
    <3>1. At(v, r) /\ SweptAt(v, r) /\ (Visited(v)' <=> Visited(v))
      BY <1>1, <1>2 DEF Requests, Swept, Visited
    <3>2. CASE v = w
      <4>1. wk'[v].pc \notin Notifying /\ wk'[v].pc # "migrate"
        BY <2>4, <3>2 DEF Notifying
      <4>2. At(v, r)'
        BY <1>3, <2>4, <3>2, <4>1 DEF At, InboxOk, NotifyOk, MigrateOk
      <4> QED BY <2>1, <2>4, <2>5, <3>1, <3>2, <4>1, <4>2 DEF SweptAt, SweptOk
    <3>3. CASE v # w
      <4>1. wk'[v] = wk[v] /\ ~ (wk'[v].pc = "migrate" /\ wk'[v].cur = r)
        BY <1>5, <2>4, <3>3
      <4> QED BY <2>1, <3>1, <4>1 DEF At, InboxOk, NotifyOk, MigrateOk, SweptAt, SweptOk
    <3> QED BY <3>2, <3>3
  <2>8. Walks' /\ InPlace' /\ Swept'
    <3>1. "idle" \notin Notifying \cup {"migrate"} /\ k.pc # "notify"
      BY <1>2 DEF Notifying
    <3> QED BY <1>2, <1>3, <2>1, <2>3, <2>5, <2>6, <2>7, <3>1, PlacesStep
  <2>9. \A s : Completing(s)' <=> Completing(s)
    BY <1>2, <2>4 DEF Completing
  <2>10. cq' \in CqRecs /\ req' \in [Reqs -> ReqRecs] /\ Owned'
    BY <1>1, <1>2, <2>1, <2>9, SameOwners, CqIs, ReqIs DEF Types
  <2> QED BY <1>2, <2>4, <2>8, <2>10, WorkSound
<1> QED BY <1>6, <1>7

(* req_pending_cb(), wait_timeout_cb() *)
LEMMA ResumeKeeps ==
  ASSUME Requests, NEW w \in Workers, NEW r \in Reqs, Resume(w, r)
  PROVE  Requests'
<1>1. /\ Types /\ WalkOk(w, wk[w]) /\ (\A v \in Workers : At(v, r)) /\ OwnedAt(r)
      /\ wk[w].pc = "idle" /\ req[r].parked /\ req[r].worker = w /\ UNCHANGED <<mtx, cq, wt, cl>>
  BY DEF Requests, Walks, InPlace, Owned, Resume
<1>2. /\ wk \in [Workers -> WkRecs] /\ wk[w] \in WkRecs /\ wk[w].inbox \in Seq(Reqs \cup {Cancel})
  BY <1>1, WkIs
<1>3. Process(w, r, [wk EXCEPT ![w] = [wk[w] EXCEPT !.inbox = wk[w].inbox]])
  <2>1. [wk[w] EXCEPT !.inbox = wk[w].inbox] = wk[w]
    BY <1>2 DEF WkRecs
  <2>2. [wk EXCEPT ![w] = wk[w]] = wk
    BY <1>2
  <2> QED BY <2>1, <2>2 DEF Resume
<1>4. ~ req[r].done /\ r \notin Range(wk[w].inbox) /\ IsInjective(wk[w].inbox)
  BY <1>1 DEF OwnedAt, ReqOk, At, InboxOk, WalkOk
<1>5. \A v \in Workers : ~ (wk[v].pc = "migrate" /\ wk[v].cur = r)
  BY <1>1 DEF At, MigrateOk
<1> QED BY <1>1, <1>2, <1>3, <1>4, <1>5, ProcessKeeps

(* Request e is queued, by the submitter or by the worker it leaves. *)
LEMMA QueuedKeeps ==
  ASSUME Requests, cl' = cl, NEW v \in Workers, NEW e \in Reqs, e \notin Range(wk[v].inbox),
         wk'[v].inbox = Append(wk[v].inbox, e),
         \A x \in Workers : x # v => wk'[x].inbox = wk[x].inbox,
         \A x \in Workers : wk'[x].todo = wk[x].todo,
         \A x \in Workers : \/ wk'[x].pc = wk[x].pc /\ wk'[x].cur = wk[x].cur
                            \/ wk[x].pc = "migrate" /\ wk[x].cur = e /\ wk'[x].pc = "idle",
         \A s \in Reqs : s # e => req'[s] = req[s],
         \A x \in Workers : At(x, e)' /\ SweptAt(x, e)'
  PROVE  Walks' /\ InPlace' /\ Swept'
<1>1. Types /\ e # Cancel
  BY CqAssumption DEF Requests
<1>2. /\ Range(wk'[v].inbox) = Range(wk[v].inbox) \cup {e}
      /\ IsInjective(wk[v].inbox) => IsInjective(wk'[v].inbox)
      /\ \A s : Behind(wk[v].inbox, s) /\ s # e => Behind(wk'[v].inbox, s)
  <2>1. wk[v].inbox \in Seq(Reqs \cup {Cancel}) /\ e \in Reqs \cup {Cancel}
    BY <1>1, WkIs
  <2> QED BY <1>1, <2>1, AppendIs, SMT
<1>3. ASSUME NEW x \in Workers
      PROVE  /\ \A s : s # e => (s \in Range(wk'[x].inbox) <=> s \in Range(wk[x].inbox))
             /\ IsInjective(wk[x].inbox) => IsInjective(wk'[x].inbox)
             /\ \A s : Behind(wk[x].inbox, s) /\ s # e => Behind(wk'[x].inbox, s)
             /\ wk'[x].todo = wk[x].todo
             /\ \A s \in Reqs : \A p : p # "idle" /\ s # e =>
                  (wk'[x].pc = p /\ wk'[x].cur = s <=> wk[x].pc = p /\ wk[x].cur = s)
  <2>1. ASSUME NEW s, s # e PROVE s \in Range(wk'[x].inbox) <=> s \in Range(wk[x].inbox)
    <3>1. CASE x = v
      BY <1>2, <2>1, <3>1
    <3>2. CASE x # v
      BY <3>2
    <3> QED BY <3>1, <3>2
  <2>2. /\ IsInjective(wk[x].inbox) => IsInjective(wk'[x].inbox)
        /\ \A s : Behind(wk[x].inbox, s) /\ s # e => Behind(wk'[x].inbox, s)
    BY <1>2
  <2>3. ASSUME NEW s \in Reqs, NEW p, p # "idle", s # e
        PROVE  wk'[x].pc = p /\ wk'[x].cur = s <=> wk[x].pc = p /\ wk[x].cur = s
    <3>1. CASE wk'[x].pc = wk[x].pc /\ wk'[x].cur = wk[x].cur
      BY <3>1
    <3>2. CASE wk[x].pc = "migrate" /\ wk[x].cur = e /\ wk'[x].pc = "idle"
      BY <2>3, <3>2
    <3> QED BY <3>1, <3>2
  <2> QED BY <2>1, <2>2, <2>3
<1>4. "idle" \notin Notifying \cup {"migrate", "cancel"} /\ "migrate" \notin Notifying
  BY DEF Notifying
<1>5. ASSUME NEW x \in Workers PROVE WalkOk(x, wk[x])'
  <2>1. WalkOk(x, wk[x]) /\ (Cancel \in Range(wk'[x].inbox) <=> Cancel \in Range(wk[x].inbox))
    BY <1>1, <1>3 DEF Requests, Walks
  <2>2. /\ wk'[x].pc \in Notifying \cup {"migrate"} => wk'[x].cur \in Reqs
        /\ wk'[x].pc = "cancel" => wk[x].pc = "cancel"
        /\ wk[x].todo # {} => wk'[x].pc = wk[x].pc
    BY <1>4, <2>1 DEF WalkOk
  <2> QED BY <1>3, <2>1, <2>2 DEF WalkOk
<1>6. ASSUME NEW x \in Workers, NEW s \in Reqs, s # e PROVE At(x, s)'
  <2>1. At(x, s) /\ req'[s] = req[s]
    BY <1>6 DEF Requests, InPlace
  <2>2. InboxOk(x, wk[x], s, req[s])'
    BY <1>3, <1>6, <2>1 DEF At, InboxOk
  <2>3. NotifyOk(x, wk[x], s, req[s])'
    <3>1. wk'[x].pc \in Notifying /\ wk'[x].cur = s => wk[x].pc = wk'[x].pc /\ wk[x].cur = s
      BY <1>3, <1>4, <1>6, SMT
    <3> QED BY <1>3, <1>6, <2>1, <3>1 DEF At, NotifyOk
  <2>4. MigrateOk(x, wk[x], s, req[s])'
    <3>1. \A y \in Workers : wk'[y].pc = "migrate" /\ wk'[y].cur = s =>
                               wk[y].pc = "migrate" /\ wk[y].cur = s
      BY <1>3, <1>4, <1>6
    <3>2. \A y \in Workers : s \in Range(wk'[y].inbox) => s \in Range(wk[y].inbox)
      BY <1>3, <1>6
    <3> QED BY <2>1, <3>1, <3>2 DEF At, MigrateOk
  <2> QED BY <2>2, <2>3, <2>4 DEF At
<1>7. ASSUME NEW x \in Workers, NEW s \in Reqs, s # e PROVE SweptAt(x, s)'
  <2>1. SweptAt(x, s) /\ req'[s] = req[s] /\ (Visited(x)' <=> Visited(x)) /\ wk'[x].todo = wk[x].todo
    BY <1>7 DEF Requests, Swept, Visited
  <2>2. ASSUME NEW p \in Notifying
        PROVE  wk'[x].pc = p /\ wk'[x].cur = s <=> wk[x].pc = p /\ wk[x].cur = s
    <3>1. p # "idle"
      BY <1>4
    <3> QED BY <1>3, <1>7, <3>1, SMT
  <2>3. "notify" \in Notifying
    BY DEF Notifying
  <2> QED BY <2>1, <2>2, <2>3 DEF SweptAt, SweptOk
<1> QED BY <1>5, <1>6, <1>7 DEF Walks, InPlace, Swept

(* async_submit_one() *)
LEMMA SubmitKeeps ==
  ASSUME Requests, NEW r \in Reqs, Submit(r)
  PROVE  Requests'
<1> DEFINE h == Home[r]
           q == wk[h].inbox
<1>1. /\ Types /\ Mutex /\ Closed /\ Owned /\ OwnedAt(r)
      /\ cq.open /\ req[r].worker = 0 /\ UNCHANGED <<mtx, wt, cl>>
  BY DEF Requests, Owned, Submit
<1>2. /\ h \in Workers /\ h # 0 /\ q \in Seq(Reqs \cup {Cancel})
      /\ cq' \in CqRecs /\ cq'.open = cq.open /\ cq'.submit = cq.submit \cup {r} /\ cq'.list = cq.list
      /\ req' \in [Reqs -> ReqRecs] /\ (\A s \in Reqs : s # r => req'[s] = req[s])
      /\ req'[r].worker = h /\ req'[r].done = req[r].done /\ req'[r].parked = req[r].parked
      /\ req'[r].moved = req[r].moved /\ req'[r].freed = req[r].freed
  BY <1>1, SubmitIs, WkIs, WorkerIs DEF CqTo, ReqTo
<1>3. /\ wk' \in [Workers -> WkRecs] /\ (\A v \in Workers : v # h => wk'[v] = wk[v])
      /\ wk'[h].inbox = Append(q, r) /\ wk'[h].pc = wk[h].pc /\ wk'[h].cur = wk[h].cur
      /\ wk'[h].todo = wk[h].todo
  BY <1>1, SubmitIs DEF WkTo
<1> HIDE DEF h
<1>4. cl.pc = "open" /\ cl'.pc = "open"
  BY <1>1 DEF Mutex
<1>5. \A v \in Workers : ~ Visited(v) /\ ~ Visited(v)'
  BY <1>4 DEF Visited
<1>6. \A v \in Workers : wk[v].todo = {} /\ Cancel \notin Range(wk[v].inbox)
  BY <1>4 DEF Requests, Walks, WalkOk
<1>7. ~ req[r].done /\ ~ req[r].parked /\ ~ req[r].moved
  BY <1>1 DEF OwnedAt, ReqOk
<1>8. ASSUME NEW v \in Workers
      PROVE  r \notin Range(wk[v].inbox) /\ ~ (wk[v].pc \in Notifying \cup {"migrate"} /\ wk[v].cur = r)
  <2>1. At(v, r) /\ v # 0
    BY WorkerIs DEF Requests, InPlace
  <2> QED BY <1>1, <1>7, <2>1 DEF At, InboxOk, NotifyOk, MigrateOk
<1>9. r # Cancel /\ Range(Append(q, r)) = Range(q) \cup {r} /\ Behind(Append(q, r), r)
  BY <1>2, <1>6, AppendIs, CqAssumption, SMT
<1>10. ASSUME NEW v \in Workers PROVE At(v, r)' /\ SweptAt(v, r)'
  <2>1. wk'[v].pc = wk[v].pc /\ wk'[v].cur = wk[v].cur /\ wk'[v].todo = {}
    BY <1>3, <1>6
  <2>2. ~ (wk'[v].pc \in Notifying \cup {"migrate"} /\ wk'[v].cur = r)
    BY <1>8, <2>1
  <2>3. NotifyOk(v, wk[v], r, req[r])' /\ MigrateOk(v, wk[v], r, req[r])'
    BY <2>2 DEF NotifyOk, MigrateOk
  <2>4. InboxOk(v, wk[v], r, req[r])'
    <3>1. r \in Range(wk'[v].inbox) => v = h
      BY <1>3, <1>8
    <3> QED BY <1>2, <1>3, <1>7, <1>9, <2>1, <3>1 DEF InboxOk
  <2> QED BY <1>5, <2>1, <2>3, <2>4 DEF At, SweptAt, SweptOk
<1>11. Walks' /\ InPlace' /\ Swept'
  <2>1. \A x \in Workers : /\ x # h => wk'[x].inbox = wk[x].inbox
                           /\ wk'[x].todo = wk[x].todo
                           /\ wk'[x].pc = wk[x].pc /\ wk'[x].cur = wk[x].cur
    BY <1>3
  <2> QED BY <1>1, <1>2, <1>3, <1>8, <1>10, <2>1, QueuedKeeps, SMT
<1>12. Owned'
  <2>1. ASSUME NEW s PROVE (Completing(s)' <=> Completing(s)) /\ \A t \in Waiters : Gets(t, s)' <=> Gets(t, s)
    <3>1. \A x \in Workers : wk'[x].pc = wk[x].pc /\ wk'[x].cur = wk[x].cur
      BY <1>3
    <3> QED BY <1>1, <3>1 DEF Completing, Gets
  <2>2. Handed(r)' <=> Handed(r)
    BY <1>2, <2>1 DEF Handed
  <2>3. OwnedAt(r)'
    BY <1>1, <1>2, <1>7, <2>1, <2>2 DEF OwnedAt, ReqOk, OnceOk
  <2>4. \A s \in Reqs : s # r => /\ req'[s] = req[s] /\ (Completing(s)' <=> Completing(s))
                                 /\ s \in cq'.submit <=> s \in cq.submit
                                 /\ s \in Range(cq'.list) <=> s \in Range(cq.list)
                                 /\ \A t \in Waiters : Gets(t, s)' <=> Gets(t, s)
    BY <1>2, <2>1
  <2> QED BY <1>1, <2>3, <2>4, OwnedKept
<1>13. Types' /\ Mutex'
  BY <1>1, <1>2, <1>3 DEF Types, Mutex
<1>14. Closed'
  BY <1>4 DEF Closed
<1> QED BY <1>11, <1>12, <1>13, <1>14 DEF Requests

(* The records of two workers are replaced. *)
LEMMA TwoWorkers ==
  ASSUME Types, NEW w \in Workers, NEW v \in Workers, v # w, NEW k \in WkRecs, NEW n \in WkRecs,
         wk' = [[wk EXCEPT ![w] = k] EXCEPT ![v] = n]
  PROVE  /\ wk' \in [Workers -> WkRecs] /\ wk'[w] = k /\ wk'[v] = n
         /\ \A x \in Workers : x # w /\ x # v => wk'[x] = wk[x]
<1>1. wk \in [Workers -> WkRecs]
  BY DEF Types
<1>2. PICK f : f = [wk EXCEPT ![w] = k]
  OBVIOUS
<1>3. f \in [Workers -> WkRecs] /\ f[w] = k /\ \A x \in Workers : x # w => f[x] = wk[x]
  BY <1>1, <1>2
<1>4. wk' = [f EXCEPT ![v] = n]
  BY <1>2
<1> QED BY <1>3, <1>4

(* The push of change_req_worker() *)
LEMMA MigratePushKeeps ==
  ASSUME Requests, NEW w \in Workers, MigratePush(w)
  PROVE  Requests'
<1>1. Types /\ WalkOk(w, wk[w]) /\ wk[w].pc = "migrate" /\ UNCHANGED <<mtx, cq, req, wt, cl>>
  BY DEF Requests, Walks, MigratePush
<1>2. PICK r \in Reqs : r = wk[w].cur
  BY <1>1 DEF WalkOk
<1>3. /\ req[r].moved /\ ~ req[r].parked /\ req[r].worker # 0 /\ req[r].worker # w
      /\ (\A v \in Workers : r \notin Range(wk[v].inbox))
      /\ \A v \in Workers : wk[v].pc = "migrate" /\ wk[v].cur = r => v = w
  <2>1. At(w, r)
    BY DEF Requests, InPlace
  <2> QED BY <1>1, <1>2, <2>1 DEF At, MigrateOk
<1>4. PICK v \in Workers : v = req[r].worker /\ v # w
  BY <1>1, <1>3, ReqIs, WorkerIs
<1>5. /\ wk' \in [Workers -> WkRecs] /\ (\A x \in Workers : x # w /\ x # v => wk'[x] = wk[x])
      /\ wk'[w].inbox = wk[w].inbox /\ wk'[w].pc = "idle" /\ wk'[w].todo = wk[w].todo
      /\ wk'[v].inbox = Append(wk[v].inbox, r) /\ wk'[v].pc = wk[v].pc
      /\ wk'[v].cur = wk[v].cur /\ wk'[v].todo = wk[v].todo
  <2> DEFINE k == [wk[w] EXCEPT !.pc = "idle", !.cur = Cancel]
             n == [wk[v] EXCEPT !.inbox = Append(wk[v].inbox, r)]
  <2>1. /\ wk \in [Workers -> WkRecs] /\ wk[w] \in WkRecs /\ wk[v] \in WkRecs
        /\ wk[v].inbox \in Seq(Reqs \cup {Cancel}) /\ r \in Reqs \cup {Cancel}
        /\ Cancel \in Reqs \cup {Cancel} /\ "idle" \in Places
    BY <1>1, WkIs DEF Places
  <2>2. Append(wk[v].inbox, r) \in Seq(Reqs \cup {Cancel})
    BY <2>1, SMT
  <2>3. k \in WkRecs /\ k.inbox = wk[w].inbox /\ k.pc = "idle" /\ k.todo = wk[w].todo
    BY <2>1 DEF WkRecs
  <2>4. /\ n \in WkRecs /\ n.inbox = Append(wk[v].inbox, r) /\ n.pc = wk[v].pc
        /\ n.cur = wk[v].cur /\ n.todo = wk[v].todo
    BY <2>1, <2>2 DEF WkRecs
  <2>5. wk' = [[wk EXCEPT ![w] = k] EXCEPT ![v] = n]
    <3>1. wk' = [[wk EXCEPT ![w] = k] EXCEPT ![v].inbox = Append(@, r)]
      BY <1>2, <1>4, <2>1 DEF MigratePush
    <3> HIDE DEF k
    <3>2. [wk EXCEPT ![w] = k][v] = wk[v]
      BY <1>4, <2>1, <2>3
    <3> QED BY <3>1, <3>2
  <2> HIDE DEF k, n
  <2>6. /\ wk' \in [Workers -> WkRecs] /\ wk'[w] = k /\ wk'[v] = n
        /\ \A x \in Workers : x # w /\ x # v => wk'[x] = wk[x]
    <3>1. Types /\ v # w /\ k \in WkRecs /\ n \in WkRecs
      BY <1>1, <1>4, <2>3, <2>4
    <3> QED BY <2>5, <3>1, TwoWorkers
  <2> QED BY <2>3, <2>4, <2>6
<1>6. /\ \A x \in Workers : x # v => wk'[x].inbox = wk[x].inbox
      /\ \A x \in Workers : wk'[x].todo = wk[x].todo
      /\ \A x \in Workers : \/ wk'[x].pc = wk[x].pc /\ wk'[x].cur = wk[x].cur
                            \/ wk[x].pc = "migrate" /\ wk[x].cur = r /\ wk'[x].pc = "idle"
  BY <1>1, <1>2, <1>5
<1>7. "idle" \notin Notifying \cup {"migrate"} /\ "migrate" \notin Notifying
  BY DEF Notifying
<1>8. ASSUME NEW x \in Workers PROVE At(x, r)' /\ SweptAt(x, r)'
  <2>1. At(x, r) /\ req'[r] = req[r]
    BY <1>1 DEF Requests, InPlace
  <2>2. ~ (wk'[x].pc = "migrate" /\ wk'[x].cur = r)
    BY <1>3, <1>4, <1>5, <1>7, SMT
  <2>3. wk'[x].pc \in Notifying /\ wk'[x].cur = r => wk[x].pc = wk'[x].pc /\ wk[x].cur = r
    BY <1>6, <1>7
  <2>4. r \in Range(wk'[x].inbox) => x = v
    BY <1>3, <1>6
  <2> QED BY <1>3, <1>4, <2>1, <2>2, <2>3, <2>4
          DEF At, InboxOk, NotifyOk, MigrateOk, SweptAt, SweptOk
<1>9. Walks' /\ InPlace' /\ Swept'
  BY <1>1, <1>3, <1>4, <1>5, <1>6, <1>8, QueuedKeeps
<1>10. ASSUME NEW s PROVE Completing(s)' <=> Completing(s)
  <2>1. ASSUME NEW x \in Workers
        PROVE  wk'[x].pc \in {"count", "push"} /\ wk'[x].cur = s <=>
               wk[x].pc \in {"count", "push"} /\ wk[x].cur = s
    BY <1>6
  <2> QED BY <2>1 DEF Completing
<1>11. cq' \in CqRecs /\ req' \in [Reqs -> ReqRecs] /\ Owned'
  BY <1>1, <1>10, SameOwners, CqIs, ReqIs DEF Types
<1> QED BY <1>1, <1>5, <1>9, <1>11, WorkSound

(* The begin of cancel_worker_reqs() *)
LEMMA TakeCancelKeeps ==
  ASSUME Requests, NEW w \in Workers, TakeCancel(w)
  PROVE  Requests'
<1> DEFINE k == wk[w]
           q == k.inbox
           n == [k EXCEPT !.inbox = Tail(q), !.pc = "cancel", !.todo = cq.submit \cup {Cancel}]
<1>1. /\ Types /\ WalkOk(w, k) /\ Owned /\ k.pc = "idle" /\ q # <<>> /\ Head(q) = Cancel
      /\ UNCHANGED <<mtx, cq, req, wt, cl>>
  BY DEF Requests, Walks, TakeCancel
<1>2. q \in Seq(Reqs \cup {Cancel}) /\ wk \in [Workers -> WkRecs] /\ k \in WkRecs
  BY <1>1, WkIs
<1>3. /\ Cancel \in Range(q) /\ Tail(q) \in Seq(Reqs \cup {Cancel}) /\ Range(Tail(q)) \subseteq Range(q)
      /\ IsInjective(Tail(q)) /\ Cancel \notin Range(Tail(q))
      /\ \A s : Behind(q, s) => s \notin Range(q)
  <2>1. IsInjective(q)
    BY <1>1 DEF WalkOk
  <2> QED BY <1>1, <1>2, <2>1, TailIs
<1>4. "cancel" \in Places /\ cq.submit \cup {Cancel} \in SUBSET (Reqs \cup {Cancel})
  BY <1>1, CqIs DEF Places
<1>5. /\ n \in WkRecs /\ n.inbox = Tail(q) /\ n.pc = "cancel" /\ n.cur = k.cur
      /\ n.queued = k.queued /\ n.todo = cq.submit \cup {Cancel}
  BY <1>2, <1>3, <1>4 DEF WkRecs
<1>6. wk' = [wk EXCEPT ![w] = n]
  BY <1>1, <1>2 DEF TakeCancel
<1> HIDE DEF n
<1>7. /\ wk' \in [Workers -> WkRecs] /\ (\A x \in Workers : x # w => wk'[x] = wk[x])
      /\ wk'[w].inbox = Tail(q) /\ wk'[w].pc = "cancel" /\ wk'[w].todo = cq.submit \cup {Cancel}
  BY <1>2, <1>5, <1>6
<1>8. cl.pc = "visiting" /\ cl.visit = w /\ k.todo = {}
  BY <1>1, <1>3 DEF WalkOk, Notifying
<1>9. "cancel" \notin Notifying \cup {"migrate"}
  BY DEF Notifying
<1>10. ASSUME NEW x \in Workers PROVE WalkOk(x, wk[x])'
  <2>1. CASE x = w
    BY <1>1, <1>3, <1>7, <1>8, <1>9, <2>1 DEF WalkOk
  <2>2. CASE x # w
    <3>1. WalkOk(x, wk[x]) /\ wk'[x] = wk[x]
      BY <1>7, <2>2 DEF Requests, Walks
    <3> QED BY <1>1, <3>1 DEF WalkOk
  <2> QED BY <2>1, <2>2
<1>11. \A x \in Workers : \A s : s \in Range(wk'[x].inbox) => s \in Range(wk[x].inbox)
  BY <1>3, <1>7
<1>12. \A x \in Workers : \A s : wk'[x].pc = "migrate" /\ wk'[x].cur = s =>
                               wk[x].pc = "migrate" /\ wk[x].cur = s
  BY <1>7, <1>9
<1>13. ASSUME NEW x \in Workers, NEW s \in Reqs PROVE At(x, s)'
  <2>1. At(x, s) /\ req'[s] = req[s]
    BY <1>1 DEF Requests, InPlace
  <2>2. MigrateOk(x, wk[x], s, req[s])'
    BY <1>11, <1>12, <2>1 DEF At, MigrateOk
  <2>3. CASE x = w
    <3>1. InboxOk(x, wk[x], s, req[s])'
      BY <1>3, <1>7, <2>1, <2>3 DEF At, InboxOk
    <3>2. NotifyOk(x, wk[x], s, req[s])'
      BY <1>7, <1>9, <2>3 DEF NotifyOk
    <3> QED BY <2>2, <3>1, <3>2 DEF At
  <2>4. CASE x # w
    <3>1. wk'[x] = wk[x]
      BY <1>7, <2>4
    <3> QED BY <2>1, <2>2, <3>1 DEF At, InboxOk, NotifyOk
  <2> QED BY <2>3, <2>4
<1>14. ASSUME NEW x \in Workers, NEW s \in Reqs PROVE SweptAt(x, s)'
  <2>1. SweptAt(x, s) /\ OwnedAt(s) /\ req'[s] = req[s] /\ (Visited(x)' <=> Visited(x)) /\ x # 0
    BY <1>1, WorkerIs DEF Requests, Swept, Visited, Owned
  <2>2. CASE x = w
    <3>1. req[s].worker = w => req[s].done \/ s \in wk'[w].todo
      BY <1>7, <2>1, <2>2 DEF OwnedAt, ReqOk, OnceOk
    <3> QED BY <1>7, <1>9, <2>1, <2>2, <3>1 DEF SweptAt, SweptOk
  <2>3. CASE x # w
    <3>1. wk'[x] = wk[x]
      BY <1>7, <2>3
    <3> QED BY <2>1, <3>1 DEF SweptAt, SweptOk
  <2> QED BY <2>2, <2>3
<1>15. Walks' /\ InPlace' /\ Swept'
  BY <1>10, <1>13, <1>14 DEF Walks, InPlace, Swept
<1>16. ASSUME NEW s PROVE Completing(s)' <=> Completing(s)
  BY <1>1, <1>7 DEF Completing
<1>17. cq' \in CqRecs /\ req' \in [Reqs -> ReqRecs] /\ Owned'
  BY <1>1, <1>16, SameOwners, CqIs, ReqIs DEF Types
<1> QED BY <1>1, <1>7, <1>15, <1>17, WorkSound

(* A request of the walk is completed, or passed over. *)
LEMMA CancelNextKeeps ==
  ASSUME Requests, NEW w \in Workers, CancelNext(w)
  PROVE  Requests'
<1> DEFINE k == wk[w]
<1>1. /\ Types /\ WalkOk(w, k) /\ k.pc = "cancel" /\ UNCHANGED <<mtx, cq, req, wt, cl>>
  BY DEF Requests, Walks, CancelNext
<1>2. PICK r \in k.todo \cap Reqs :
        wk' = IF req[r].worker = w /\ ~ req[r].done
              THEN [wk EXCEPT ![w].todo = @ \ {r}, ![w].pc = "notify", ![w].cur = r]
              ELSE [wk EXCEPT ![w].todo = @ \ {r}]
  BY DEF CancelNext
<1>3. /\ wk \in [Workers -> WkRecs] /\ k \in WkRecs /\ k.todo \ {r} \in SUBSET (Reqs \cup {Cancel})
      /\ "notify" \in Places /\ r \in Reqs /\ r \in Reqs \cup {Cancel}
  BY <1>1, WkIs DEF Places
<1>4. cl.pc = "visiting" /\ cl.visit = w /\ Cancel \in k.todo \ {r} /\ k.todo # {}
  BY <1>1, CqAssumption DEF WalkOk
<1>5. ~ Visited(w) /\ ~ Visited(w)'
  BY <1>1, <1>4, WorkerIs, SMT DEF Visited
<1>6. At(w, r) /\ r \in Reqs /\ \A v \in Workers : At(v, r) /\ SweptAt(v, r)
  BY <1>3 DEF Requests, InPlace, Swept
<1>7. ASSUME NEW p, NEW c, WkTo(w, k.inbox, p, c, k.queued, k.todo \ {r}),
             \/ p = "notify" /\ c = r /\ req[r].worker = w /\ ~ req[r].done
             \/ p = "cancel" /\ c = k.cur /\ ~ (req[r].worker = w /\ ~ req[r].done)
      PROVE  Requests'
  <2>1. /\ wk' \in [Workers -> WkRecs] /\ (\A v \in Workers : v # w => wk'[v] = wk[v])
        /\ wk'[w].inbox = k.inbox /\ wk'[w].pc = p /\ wk'[w].cur = c /\ wk'[w].todo = k.todo \ {r}
    BY <1>7 DEF WkTo
  <2>2. p \in {"notify", "cancel"} /\ p \in Notifying \cup {"cancel"} /\ p # "migrate"
    BY <1>7 DEF Notifying
  <2>3. p = "notify" <=> p \in Notifying
    BY <2>2 DEF Notifying
  <2>4. WalkOk(w, wk[w])'
    <3>1. /\ wk'[w].todo # {} => Cancel \in wk'[w].todo /\ wk'[w].pc \in Notifying \cup {"cancel"}
          /\ wk'[w].todo # {} => Cancel \notin Range(wk'[w].inbox)
          /\ wk'[w].pc = "cancel" => wk'[w].todo # {}
      BY <1>1, <1>4, <2>1, <2>2 DEF WalkOk
    <3>2. wk'[w].pc \in Notifying \cup {"migrate"} => wk'[w].cur \in Reqs
      BY <1>3, <1>7, <2>1, <2>2, <2>3
    <3> QED BY <1>1, <1>4, <2>1, <3>1, <3>2 DEF WalkOk
  <2>5. ASSUME NEW v \in Workers PROVE At(v, r)' /\ SweptAt(v, r)'
    <3>1. At(v, r) /\ SweptAt(v, r) /\ req'[r] = req[r] /\ (Visited(v)' <=> Visited(v))
      BY <1>1, <1>6 DEF Visited
    <3>2. \A x \in Workers : /\ wk'[x].inbox = wk[x].inbox
                             /\ wk'[x].pc = "migrate" /\ wk'[x].cur = r =>
                                  wk[x].pc = "migrate" /\ wk[x].cur = r
      BY <2>1, <2>2
    <3>3. MigrateOk(v, wk[v], r, req[r])'
      BY <3>1, <3>2 DEF At, MigrateOk
    <3>4. CASE v # w
      <4>1. wk'[v] = wk[v]
        BY <2>1, <3>4
      <4> QED BY <3>1, <3>3, <4>1 DEF At, InboxOk, NotifyOk, SweptAt, SweptOk
    <3>5. CASE v = w
      <4>1. r \in Range(k.inbox) => req[r].moved
        BY <1>4, <1>6 DEF At, InboxOk
      <4>2. InboxOk(v, wk[v], r, req[r])'
        BY <3>1, <3>2, <3>5, <4>1 DEF At, InboxOk
      <4>3. NotifyOk(v, wk[v], r, req[r])'
        BY <1>7, <2>1, <2>3, <3>1, <3>2, <3>5, <4>1 DEF NotifyOk
      <4>4. SweptAt(v, r)'
        BY <1>5, <1>7, <2>1, <3>1, <3>5 DEF SweptAt, SweptOk
      <4> QED BY <3>3, <4>2, <4>3, <4>4 DEF At
    <3> QED BY <3>4, <3>5
  <2>6. Walks' /\ InPlace' /\ Swept'
    <3>1. /\ k.todo \subseteq (k.todo \ {r}) \cup {r} /\ k.pc # "notify"
          /\ p \in Notifying \cup {"migrate"} => c = r
      BY <1>1, <1>7, <2>2, <2>3
    <3>2. \A s \in Reqs : s # r => req'[s] = req[s]
      BY <1>1
    <3>3. /\ Range(k.inbox) \subseteq Range(k.inbox)
          /\ \A s : Behind(k.inbox, s) => Behind(k.inbox, s)
      OBVIOUS
    <3>4. WkTo(w, k.inbox, p, c, k.queued, k.todo \ {r}) /\ cl' = cl /\ r \in Reqs /\ k.todo # {}
      BY <1>1, <1>3, <1>4, <1>7
    <3> QED BY <2>4, <2>5, <3>1, <3>2, <3>3, <3>4, PlacesStep
  <2>7. ASSUME NEW s PROVE Completing(s)' <=> Completing(s)
    BY <1>1, <2>1, <2>2 DEF Completing
  <2>8. cq' \in CqRecs /\ req' \in [Reqs -> ReqRecs] /\ Owned'
    BY <1>1, <2>7, SameOwners, CqIs, ReqIs DEF Types
  <2> QED BY <1>1, <2>1, <2>6, <2>8, WorkSound
<1>8. CASE req[r].worker = w /\ ~ req[r].done
  <2> DEFINE n == [k EXCEPT !.todo = k.todo \ {r}, !.pc = "notify", !.cur = r]
  <2>1. /\ n \in WkRecs /\ n.inbox = k.inbox /\ n.pc = "notify" /\ n.cur = r
        /\ n.queued = k.queued /\ n.todo = k.todo \ {r}
    BY <1>3 DEF WkRecs
  <2>2. wk' = [wk EXCEPT ![w] = n]
    BY <1>2, <1>3, <1>8
  <2> HIDE DEF n, k
  <2>3. WkTo(w, n.inbox, n.pc, n.cur, n.queued, n.todo)
    BY <1>1, <2>1, <2>2, WkSet
  <2>4. WkTo(w, k.inbox, "notify", r, k.queued, k.todo \ {r})
    BY <2>1, <2>3
  <2> QED BY <1>7, <1>8, <2>4
<1>9. CASE ~ (req[r].worker = w /\ ~ req[r].done)
  <2> DEFINE n == [k EXCEPT !.todo = k.todo \ {r}]
  <2>1. /\ n \in WkRecs /\ n.inbox = k.inbox /\ n.pc = "cancel" /\ n.cur = k.cur
        /\ n.queued = k.queued /\ n.todo = k.todo \ {r}
    BY <1>1, <1>3 DEF WkRecs
  <2>2. wk' = [wk EXCEPT ![w] = n]
    BY <1>2, <1>3, <1>9
  <2> HIDE DEF n, k
  <2>3. WkTo(w, n.inbox, n.pc, n.cur, n.queued, n.todo)
    BY <1>1, <2>1, <2>2, WkSet
  <2>4. WkTo(w, k.inbox, "cancel", k.cur, k.queued, k.todo \ {r})
    BY <2>1, <2>3
  <2> QED BY <1>7, <1>9, <2>4
<1> QED BY <1>8, <1>9

-----------------------------------------------------------------------------
(* req_notify() *)

(* A step of req_notify() on request r: the worker goes on with it, or it   *)
(* returns.                                                                 *)
LEMMA NotifyPlaces ==
  ASSUME Requests, cl' = cl, NEW w \in Workers, NEW r \in Reqs, wk[w].pc \in Notifying,
         wk[w].cur = r, \A s \in Reqs : s # r => req'[s] = req[s],
         req'[r].worker = req[r].worker, req'[r].moved = req[r].moved, req'[r].done,
         ~ req'[r].parked, NEW p, NEW c, NEW n, WkTo(w, wk[w].inbox, p, c, n, wk[w].todo),
         \/ p \in Notifying \ {"notify"} /\ c = r
         \/ p = (IF wk[w].todo = {} THEN "idle" ELSE "cancel")
  PROVE  Walks' /\ InPlace' /\ Swept'
<1>1. /\ wk' \in [Workers -> WkRecs] /\ (\A v \in Workers : v # w => wk'[v] = wk[v])
      /\ wk'[w].inbox = wk[w].inbox /\ wk'[w].pc = p /\ wk'[w].cur = c /\ wk'[w].todo = wk[w].todo
  BY DEF WkTo
<1>2. /\ p \in Notifying \/ wk[w].todo = {} \/ p = "cancel"
      /\ p \in Notifying \cup {"migrate"} => p \in Notifying /\ c = r
      /\ p = "cancel" => wk[w].todo # {}
      /\ p # "migrate" /\ p # "notify"
  BY DEF Notifying
<1>3. WalkOk(w, wk[w]) /\ \A v \in Workers : At(v, r) /\ SweptAt(v, r)
  BY DEF Requests, Walks, InPlace, Swept
<1>4. /\ req[r].worker = w /\ (~ req[r].moved => ~ Visited(w))
      /\ \A v \in Workers : Visited(v)' <=> Visited(v)
  BY <1>3 DEF At, NotifyOk, SweptAt, SweptOk, Visited
<1>5. r \in Range(wk[w].inbox) => req[r].moved
  BY <1>3 DEF At, InboxOk, NotifyOk
<1>6. WalkOk(w, wk[w])'
  <2>1. /\ wk[w].todo # {} => Cancel \in wk[w].todo /\ p \in Notifying \cup {"cancel"}
        /\ wk[w].todo # {} => Cancel \notin Range(wk[w].inbox)
        /\ p \in Notifying \cup {"migrate"} => c \in Reqs
    BY <1>2, <1>3 DEF WalkOk
  <2> QED BY <1>1, <1>2, <1>3, <2>1 DEF WalkOk
<1>7. ASSUME NEW v \in Workers PROVE At(v, r)' /\ SweptAt(v, r)'
  <2>1. At(v, r) /\ SweptAt(v, r)
    BY <1>3
  <2>2. \A x \in Workers : /\ wk'[x].inbox = wk[x].inbox
                           /\ wk'[x].pc = "migrate" /\ wk'[x].cur = r =>
                                wk[x].pc = "migrate" /\ wk[x].cur = r
    BY <1>1, <1>2
  <2>3. MigrateOk(v, wk[v], r, req[r])'
    <3>1. wk'[v].pc = "migrate" /\ wk'[v].cur = r => v # w /\ wk[v].pc = "migrate" /\ wk[v].cur = r
      BY <1>1, <1>2, <2>2
    <3> QED BY <2>1, <2>2, <3>1 DEF At, MigrateOk
  <2>4. CASE v # w
    <3>1. r \notin Range(wk'[v].inbox) /\ ~ (wk'[v].pc \in Notifying /\ wk'[v].cur = r)
      <4>1. wk'[v] = wk[v] /\ req[r].worker = w
        BY <1>1, <1>4, <2>4
      <4>2. r \notin Range(wk[v].inbox) /\ ~ (wk[v].pc \in Notifying /\ wk[v].cur = r)
        BY <2>4, <4>1, Elsewhere
      <4> QED BY <4>1, <4>2
    <3> QED BY <1>4, <2>3, <2>4, <3>1 DEF At, InboxOk, NotifyOk, SweptAt, SweptOk
  <2>5. CASE v = w
    <3>1. InboxOk(v, wk[v], r, req[r])'
      BY <1>4, <1>5, <2>2, <2>5 DEF InboxOk
    <3>2. NotifyOk(v, wk[v], r, req[r])'
      BY <1>1, <1>2, <1>4, <2>5 DEF NotifyOk
    <3>3. SweptAt(v, r)'
      BY <1>4, <2>5 DEF SweptAt, SweptOk
    <3> QED BY <2>3, <3>1, <3>2, <3>3 DEF At
  <2> QED BY <2>4, <2>5
<1>8. /\ Range(wk[w].inbox) \subseteq Range(wk[w].inbox)
      /\ \A s : Behind(wk[w].inbox, s) => Behind(wk[w].inbox, s)
      /\ wk[w].todo # {} => wk[w].todo # {} /\ wk[w].todo \subseteq wk[w].todo \cup {r}
      /\ p \in Notifying \cup {"migrate"} => c = r
      /\ wk[w].pc = "notify" => wk[w].cur = r
  BY <1>2
<1> QED BY <1>6, <1>7, <1>8, PlacesStep

(* Under done_mtx *)
LEMMA NotifyDoneKeeps ==
  ASSUME Requests, NEW w \in Workers, NotifyDone(w)
  PROVE  Requests'
<1> DEFINE k == wk[w]
<1>1. /\ Types /\ WalkOk(w, k) /\ k.pc = "notify" /\ UNCHANGED <<mtx, cq, wt, cl>>
  BY DEF Requests, Walks, NotifyDone
<1>2. PICK r \in Reqs : k.cur = r
  BY <1>1 DEF WalkOk, Notifying
<1>3. /\ req' = [req EXCEPT ![r].done = TRUE, ![r].parked = FALSE]
      /\ wk' = IF req[r].done THEN Notified(w) ELSE [wk EXCEPT ![w].pc = "count"]
  BY <1>2 DEF NotifyDone
<1>4. /\ req' \in [Reqs -> ReqRecs] /\ (\A s \in Reqs : s # r => req'[s] = req[s])
      /\ req'[r].worker = req[r].worker /\ req'[r].moved = req[r].moved /\ req'[r].done
      /\ ~ req'[r].parked /\ req'[r].freed = req[r].freed
  BY <1>1, <1>3, ReqIs DEF ReqRecs
<1>5. At(w, r) /\ OwnedAt(r) /\ k.pc \in Notifying /\ "count" \in Places /\ "count" \in Notifying \ {"notify"}
  BY <1>1 DEF Requests, InPlace, Owned, Notifying, Places
<1>6. req[r].worker = w /\ w # 0
  BY <1>1, <1>2, <1>5, WorkerIs DEF At, NotifyOk
<1>7. \A v \in Workers : v # w => ~ (wk[v].pc \in Notifying /\ wk[v].cur = r)
  BY <1>6, Elsewhere
<1>8. cq' \in CqRecs /\ cq'.submit = cq.submit /\ cq'.list = cq.list /\ cq'.open = cq.open
  BY <1>1, CqIs
<1>9. (Handed(r)' <=> Handed(r)) /\ \A t \in Waiters : Gets(t, r)' <=> Gets(t, r)
  BY <1>1, <1>4 DEF Handed, Gets
<1>10. ~ req[r].done => ~ Handed(r) /\ r \notin Range(cq.list)
  BY <1>5 DEF OwnedAt, OnceOk
<1>11. CASE req[r].done
  <2> DEFINE p == IF k.todo = {} THEN "idle" ELSE "cancel"
  <2>1. WkTo(w, k.inbox, p, Cancel, 0, k.todo)
    BY <1>1, <1>3, <1>11, GoesOn
  <2>2. Walks' /\ InPlace' /\ Swept'
    BY <1>1, <1>2, <1>4, <1>5, <2>1, NotifyPlaces
  <2>3. wk'[w].pc \in {"idle", "cancel"} /\ (\A v \in Workers : v # w => wk'[v] = wk[v])
        /\ wk' \in [Workers -> WkRecs]
    BY <2>1 DEF WkTo
  <2>4. \A s : Completing(s)' <=> Completing(s)
    BY <1>1, <2>3 DEF Completing
  <2>5. OwnedAt(r)'
    BY <1>4, <1>5, <1>8, <1>9, <1>11, <2>4 DEF OwnedAt, ReqOk, OnceOk
  <2>6. Owned'
    BY <1>1, <1>4, <1>8, <2>4, <2>5, StillOwned
  <2> QED BY <1>1, <1>4, <1>8, <2>2, <2>3, <2>6, WorkSound
<1>12. CASE ~ req[r].done
  <2>1. WkTo(w, k.inbox, "count", k.cur, k.queued, k.todo)
    BY <1>1, <1>3, <1>5, <1>12, GoesOn
  <2>2. Walks' /\ InPlace' /\ Swept'
    BY <1>1, <1>2, <1>4, <1>5, <2>1, NotifyPlaces
  <2>3. wk'[w].pc = "count" /\ wk'[w].cur = r /\ (\A v \in Workers : v # w => wk'[v] = wk[v])
        /\ wk' \in [Workers -> WkRecs]
    BY <1>2, <2>1 DEF WkTo
  <2>4. \A s : s # r => (Completing(s)' <=> Completing(s))
    BY <1>1, <2>3 DEF Completing
  <2>5. OwnedAt(r)'
    BY <1>4, <1>5, <1>6, <1>8, <1>9, <1>10, <1>12 DEF OwnedAt, ReqOk, OnceOk
  <2>6. Owned'
    BY <1>1, <1>4, <1>8, <2>4, <2>5, StillOwned
  <2> QED BY <1>1, <1>4, <1>8, <2>2, <2>3, <2>6, WorkSound
<1> QED BY <1>11, <1>12

(* A completion is counted and published, and a waiter is notified. *)
LEMMA NotifyIs ==
  ASSUME Types, cq.count \in Nat, NEW w \in Workers
  PROVE  LET k == wk[w]
             Goes(p) == WkTo(w, k.inbox, p, k.cur, k.queued, k.todo)
         IN  /\ NotifyCount(w) =>
                  /\ CqTo(cq.open, cq.refs, cq.submit, cq.list, cq.count + 1, cq.need, cq.buffered,
                          cq.pending, cq.efd)
                  /\ WkTo(w, k.inbox, "push", k.cur, cq.count + 1, k.todo)
             /\ NotifyPush(w) /\ k.cur \in Reqs =>
                  /\ CqTo(cq.open, cq.refs, cq.submit, Append(cq.list, k.cur), cq.count, cq.need,
                          cq.buffered, cq.pending, cq.efd)
                  /\ Goes("need")
             /\ NotifyNeed(w) =>
                  /\ cq' = cq
                  /\ \/ cq.need # UINT_MAX /\ k.queued >= cq.need /\ Goes("claim")
                     \/ ~ (cq.need # UINT_MAX /\ k.queued >= cq.need) /\ Returns(w)
             /\ NotifyClaim(w) =>
                  /\ CqTo(cq.open, cq.refs, cq.submit, cq.list, cq.count, cq.need, cq.buffered, 1, cq.efd)
                  /\ \/ cq.pending = 0 /\ Goes("write")
                     \/ cq.pending = 1 /\ Returns(w)
             /\ NotifyWrite(w) =>
                  /\ CqTo(cq.open, cq.refs, cq.submit, cq.list, cq.count, cq.need, cq.buffered,
                          cq.pending, cq.efd + 1)
                  /\ Returns(w)
<1> DEFINE k == wk[w]
           Goes(p) == WkTo(w, k.inbox, p, k.cur, k.queued, k.todo)
<1>1. /\ wk \in [Workers -> WkRecs] /\ k \in WkRecs /\ cq \in CqRecs /\ cq.count + 1 \in Nat
      /\ cq.count + 1 \in Int /\ cq.efd + 1 \in Nat /\ cq.pending \in {0, 1}
      /\ {"push", "need", "claim", "write"} \subseteq Places
  BY WkIs, CqIs, SMT DEF Places
<1>2. \A p \in Places : wk' = [wk EXCEPT ![w].pc = p] => Goes(p)
  BY GoesOn
<1>3. wk' = Notified(w) => Returns(w)
  BY GoesOn DEF Returns
<1> HIDE DEF Goes
<1>4. ASSUME NotifyCount(w)
      PROVE  /\ CqTo(cq.open, cq.refs, cq.submit, cq.list, cq.count + 1, cq.need, cq.buffered,
                     cq.pending, cq.efd)
             /\ WkTo(w, k.inbox, "push", k.cur, cq.count + 1, k.todo)
  <2> DEFINE n == [k EXCEPT !.queued = cq.count + 1, !.pc = "push"]
  <2>1. wk' = [wk EXCEPT ![w] = n] /\ cq' = [cq EXCEPT !.count = cq.count + 1]
    BY <1>1, <1>4 DEF NotifyCount
  <2>2. "push" \in Places
    BY <1>1
  <2>3. /\ n \in WkRecs /\ n.inbox = k.inbox /\ n.pc = "push" /\ n.cur = k.cur
        /\ n.queued = cq.count + 1 /\ n.todo = k.todo
    BY <1>1, <2>2 DEF WkRecs
  <2> HIDE DEF n, k
  <2>4. WkTo(w, n.inbox, n.pc, n.cur, n.queued, n.todo)
    BY <2>1, <2>3, WkSet
  <2>5. WkTo(w, k.inbox, "push", k.cur, cq.count + 1, k.todo)
    BY <2>3, <2>4
  <2> QED BY <1>1, <2>1, <2>5, CqFields
<1>5. ASSUME NotifyPush(w), k.cur \in Reqs
      PROVE  /\ CqTo(cq.open, cq.refs, cq.submit, Append(cq.list, k.cur), cq.count, cq.need,
                     cq.buffered, cq.pending, cq.efd)
             /\ Goes("need")
  <2>1. Append(cq.list, k.cur) \in Seq(Reqs) /\ "need" \in Places
    BY <1>1, <1>5, CqIs, SMT
  <2>2. /\ cq' = [cq EXCEPT !.list = Append(cq.list, k.cur)]
        /\ wk' = [wk EXCEPT ![w].pc = "need"]
    BY <1>1, <1>5 DEF NotifyPush
  <2> QED BY <1>2, <2>1, <2>2, CqFields
<1>6. ASSUME NotifyNeed(w)
      PROVE  /\ cq' = cq
             /\ \/ cq.need # UINT_MAX /\ k.queued >= cq.need /\ Goes("claim")
                \/ ~ (cq.need # UINT_MAX /\ k.queued >= cq.need) /\ Returns(w)
  <2>1. "claim" \in Places
    BY <1>1
  <2>2. /\ cq' = cq
        /\ wk' = IF cq.need # UINT_MAX /\ k.queued >= cq.need
                 THEN [wk EXCEPT ![w].pc = "claim"] ELSE Notified(w)
    BY <1>6 DEF NotifyNeed
  <2> QED BY <1>2, <1>3, <2>1, <2>2
<1>7. ASSUME NotifyClaim(w)
      PROVE  /\ CqTo(cq.open, cq.refs, cq.submit, cq.list, cq.count, cq.need, cq.buffered, 1, cq.efd)
             /\ \/ cq.pending = 0 /\ Goes("write")
                \/ cq.pending = 1 /\ Returns(w)
  <2>1. "write" \in Places /\ 1 \in {0, 1}
    BY <1>1
  <2>2. /\ cq' = [cq EXCEPT !.pending = 1]
        /\ wk' = IF cq.pending = 0 THEN [wk EXCEPT ![w].pc = "write"] ELSE Notified(w)
    BY <1>7 DEF NotifyClaim
  <2>3. CqTo(cq.open, cq.refs, cq.submit, cq.list, cq.count, cq.need, cq.buffered, 1, cq.efd)
    BY <2>1, <2>2, CqFields
  <2> QED BY <1>1, <1>2, <1>3, <2>1, <2>2, <2>3
<1>8. ASSUME NotifyWrite(w)
      PROVE  /\ CqTo(cq.open, cq.refs, cq.submit, cq.list, cq.count, cq.need, cq.buffered,
                     cq.pending, cq.efd + 1)
             /\ Returns(w)
  <2>1. cq' = [cq EXCEPT !.efd = cq.efd + 1] /\ wk' = Notified(w)
    BY <1>1, <1>8 DEF NotifyWrite
  <2> QED BY <1>1, <1>3, <2>1, CqFields
<1> QED BY <1>4, <1>5, <1>6, <1>7, <1>8 DEF Goes

(* The steps of req_notify() after the request is done, the push excepted. *)
LEMMA NotifyKeeps ==
  ASSUME Requests, UNCHANGED <<mtx, req, wt, cl>>, NEW w \in Workers, NEW p, NEW n,
         \/ /\ wk[w].pc = "count" /\ p = "push"
            /\ WkTo(w, wk[w].inbox, p, wk[w].cur, n, wk[w].todo)
         \/ /\ wk[w].pc \in {"need", "claim", "write"} /\ p \in {"need", "claim", "write"}
            /\ WkTo(w, wk[w].inbox, p, wk[w].cur, n, wk[w].todo) \/ Returns(w),
         cq' \in CqRecs, cq'.open = cq.open, cq'.submit = cq.submit, cq'.list = cq.list
  PROVE  Requests'
<1>1. wk[w].pc \in Notifying /\ wk[w].pc # "notify" /\ p \in Notifying \ {"notify"}
  BY DEF Notifying
<1>2. WalkOk(w, wk[w]) /\ Types
  BY DEF Requests, Walks
<1>3. PICK r \in Reqs : wk[w].cur = r
  BY <1>1, <1>2 DEF WalkOk
<1>4. At(w, r) /\ OwnedAt(r) /\ req'[r] = req[r]
  BY DEF Requests, InPlace, Owned
<1>5. req[r].done /\ ~ req[r].parked
  BY <1>1, <1>3, <1>4 DEF At, NotifyOk, OwnedAt, ReqOk
<1>6. Walks' /\ InPlace' /\ Swept'
  <2>1. CASE WkTo(w, wk[w].inbox, p, wk[w].cur, n, wk[w].todo)
    BY <1>1, <1>3, <1>4, <1>5, <2>1, NotifyPlaces
  <2>2. CASE Returns(w)
    BY <1>1, <1>3, <1>4, <1>5, <2>2, NotifyPlaces DEF Returns
  <2> QED BY <2>1, <2>2
<1>7. /\ wk' \in [Workers -> WkRecs] /\ (\A v \in Workers : v # w => wk'[v] = wk[v])
      /\ wk'[w].cur = r \/ wk'[w].pc \notin {"count", "push"}
      /\ wk[w].pc = "count" => wk'[w].pc = "push"
      /\ wk[w].pc # "count" => wk[w].pc # "push" /\ wk'[w].pc \notin {"count", "push"}
  BY <1>3 DEF WkTo, Returns
<1>8. \A s \in Reqs : Completing(s)' <=> Completing(s)
  BY <1>3, <1>7 DEF Completing
<1>9. Owned' /\ req' \in [Reqs -> ReqRecs]
  BY <1>2, <1>8, SameOwners, ReqIs DEF Types
<1> QED BY <1>6, <1>7, <1>9, WorkSound

(* The request is published. *)
LEMMA NotifyPushKeeps ==
  ASSUME Requests, cq.count \in Nat, NEW w \in Workers, NotifyPush(w)
  PROVE  Requests'
<1>1. /\ WalkOk(w, wk[w]) /\ Types /\ Owned /\ wk[w].pc = "push" /\ UNCHANGED <<mtx, req, wt, cl>>
  BY DEF Requests, Walks, NotifyPush
<1>2. PICK r \in Reqs : wk[w].cur = r
  BY <1>1 DEF WalkOk, Notifying
<1>3. At(w, r) /\ OwnedAt(r) /\ req'[r] = req[r]
  BY <1>1 DEF Requests, InPlace, Owned
<1>4. wk[w].pc \in Notifying /\ wk[w].pc # "notify" /\ "need" \in Notifying \ {"notify"}
  BY <1>1 DEF Notifying
<1>5. req[r].done /\ ~ req[r].parked /\ req[r].worker = w
  BY <1>2, <1>3, <1>4 DEF At, NotifyOk, OwnedAt, ReqOk
<1>6. /\ CqTo(cq.open, cq.refs, cq.submit, Append(cq.list, r), cq.count, cq.need, cq.buffered,
              cq.pending, cq.efd)
      /\ WkTo(w, wk[w].inbox, "need", r, wk[w].queued, wk[w].todo)
  BY <1>1, <1>2, NotifyIs
<1>7. Walks' /\ InPlace' /\ Swept'
  BY <1>1, <1>2, <1>3, <1>4, <1>5, <1>6, NotifyPlaces
<1>8. /\ wk' \in [Workers -> WkRecs] /\ (\A v \in Workers : v # w => wk'[v] = wk[v])
      /\ wk'[w].pc = "need"
  BY <1>6 DEF WkTo
<1>9. /\ cq' \in CqRecs /\ cq'.open = cq.open /\ cq'.submit = cq.submit
      /\ cq'.list = Append(cq.list, r) /\ Range(Append(cq.list, r)) = Range(cq.list) \cup {r}
  <2>1. cq.list \in Seq(Reqs)
    BY <1>1, CqIs
  <2>2. Range(Append(cq.list, r)) = Range(cq.list) \cup {r}
    BY <2>1, AppendIs
  <2> QED BY <1>6, <2>2 DEF CqTo
<1>10. \A s : s # r => (Completing(s)' <=> Completing(s))
  BY <1>1, <1>2, <1>8 DEF Completing
<1>11. Completing(r) /\ ~ Completing(r)'
  <2>1. Completing(r)
    BY <1>1, <1>2 DEF Completing
  <2>2. ASSUME NEW v \in Workers, wk'[v].pc \in {"count", "push"}, wk'[v].cur = r PROVE FALSE
    <3>1. v # w /\ wk[v].pc \in Notifying /\ wk[v].cur = r
      BY <1>8, <2>2 DEF Notifying
    <3> QED BY <1>5, <3>1, Elsewhere
  <2> QED BY <2>1, <2>2 DEF Completing
<1>12. \A s : (Handed(s)' <=> Handed(s)) /\ \A t \in Waiters : Gets(t, s)' <=> Gets(t, s)
  BY <1>1 DEF Handed, Gets
<1>13. OwnedAt(r)'
  BY <1>3, <1>5, <1>9, <1>11, <1>12 DEF OwnedAt, ReqOk, OnceOk
<1>14. Owned'
  <2>1. ASSUME NEW s \in Reqs, s # r
        PROVE  /\ req'[s] = req[s] /\ (Completing(s)' <=> Completing(s))
               /\ s \in cq'.submit <=> s \in cq.submit
               /\ s \in Range(cq'.list) <=> s \in Range(cq.list)
               /\ \A t \in Waiters : Gets(t, s)' <=> Gets(t, s)
    <3>1. s \in Range(cq'.list) <=> s \in Range(cq.list)
      BY <1>9, <2>1
    <3> QED BY <1>1, <1>9, <1>10, <1>12, <2>1, <3>1
  <2> QED BY <1>1, <1>13, <2>1, OwnedKept
<1>15. req' \in [Reqs -> ReqRecs]
  BY <1>1, ReqIs DEF Types
<1> QED BY <1>1, <1>7, <1>8, <1>9, <1>14, <1>15, WorkSound

(* req_notify(), from the count on. *)
LEMMA NotifyStepKeeps ==
  ASSUME Requests, cq.count \in Nat, NEW w \in Workers,
         NotifyCount(w) \/ NotifyPush(w) \/ NotifyNeed(w) \/ NotifyClaim(w) \/ NotifyWrite(w)
  PROVE  Requests'
<1>1. Types /\ cq \in CqRecs
  BY CqIs DEF Requests
<1>2. CASE NotifyCount(w)
  <2>1. wk[w].pc = "count" /\ UNCHANGED <<mtx, req, wt, cl>>
    BY <1>2 DEF NotifyCount
  <2>2. /\ WkTo(w, wk[w].inbox, "push", wk[w].cur, cq.count + 1, wk[w].todo)
        /\ cq' \in CqRecs /\ cq'.open = cq.open /\ cq'.submit = cq.submit /\ cq'.list = cq.list
    BY <1>1, <1>2, NotifyIs DEF CqTo
  <2> QED BY <2>1, <2>2, NotifyKeeps
<1>3. CASE NotifyNeed(w)
  <2>1. wk[w].pc \in {"need", "claim", "write"} /\ UNCHANGED <<mtx, req, wt, cl>>
    BY <1>3 DEF NotifyNeed
  <2>2. /\ \/ WkTo(w, wk[w].inbox, "claim", wk[w].cur, wk[w].queued, wk[w].todo)
           \/ Returns(w)
        /\ cq' \in CqRecs /\ cq'.open = cq.open /\ cq'.submit = cq.submit /\ cq'.list = cq.list
    BY <1>1, <1>3, NotifyIs
  <2>3. "claim" \in {"need", "claim", "write"}
    OBVIOUS
  <2> QED BY <2>1, <2>2, <2>3, NotifyKeeps
<1>4. CASE NotifyClaim(w)
  <2>1. wk[w].pc \in {"need", "claim", "write"} /\ UNCHANGED <<mtx, req, wt, cl>>
    BY <1>4 DEF NotifyClaim
  <2>2. /\ \/ WkTo(w, wk[w].inbox, "write", wk[w].cur, wk[w].queued, wk[w].todo)
           \/ Returns(w)
        /\ cq' \in CqRecs /\ cq'.open = cq.open /\ cq'.submit = cq.submit /\ cq'.list = cq.list
    BY <1>1, <1>4, NotifyIs DEF CqTo
  <2>3. "write" \in {"need", "claim", "write"}
    OBVIOUS
  <2> QED BY <2>1, <2>2, <2>3, NotifyKeeps
<1>5. CASE NotifyWrite(w)
  <2>1. wk[w].pc \in {"need", "claim", "write"} /\ UNCHANGED <<mtx, req, wt, cl>>
    BY <1>5 DEF NotifyWrite
  <2>2. /\ Returns(w)
        /\ cq' \in CqRecs /\ cq'.open = cq.open /\ cq'.submit = cq.submit /\ cq'.list = cq.list
    BY <1>1, <1>5, NotifyIs DEF CqTo
  <2>3. "write" \in {"need", "claim", "write"}
    OBVIOUS
  <2> QED BY <2>1, <2>2, <2>3, NotifyKeeps
<1> QED BY <1>2, <1>3, <1>4, <1>5, NotifyPushKeeps

-----------------------------------------------------------------------------
(* async_close() *)

(* The fields of the close. *)
LEMMA ClIs ==
  ASSUME Types
  PROVE  /\ cl \in ClRecs /\ cl.pc \in Phases /\ cl.visit \in Workers
         /\ \A p \in Phases : /\ [cl EXCEPT !.pc = p] \in ClRecs /\ [cl EXCEPT !.pc = p].pc = p
                              /\ [cl EXCEPT !.pc = p].visit = cl.visit
         /\ \A p \in Phases, v \in Workers : [pc |-> p, visit |-> v] \in ClRecs
BY DEF Types, ClRecs

(* The walk of worker w is over: all of its own requests are done. *)
LEMMA CancelEndKeeps ==
  ASSUME Requests, NEW w \in Workers, CancelEnd(w)
  PROVE  Requests'
<1> DEFINE k == wk[w]
           n == [k EXCEPT !.todo = {}, !.pc = "idle"]
<1>1. /\ Types /\ Mutex /\ Owned /\ k.pc = "cancel" /\ k.todo = {Cancel}
      /\ UNCHANGED <<mtx, cq, req, wt>> /\ \A v \in Workers : WalkOk(v, wk[v])
  BY DEF Requests, Walks, CancelEnd
<1>2. cl.pc = "visiting" /\ cl.visit = w /\ Cancel \notin Range(k.inbox)
  BY <1>1 DEF WalkOk
<1>3. /\ wk \in [Workers -> WkRecs] /\ k \in WkRecs /\ {} \in SUBSET (Reqs \cup {Cancel})
      /\ "idle" \in Places
  BY <1>1, WkIs DEF Places
<1>4. /\ n \in WkRecs /\ n.inbox = k.inbox /\ n.pc = "idle" /\ n.cur = k.cur
      /\ n.queued = k.queued /\ n.todo = {}
  BY <1>3 DEF WkRecs
<1>5. wk' = [wk EXCEPT ![w] = n]
  BY <1>3 DEF CancelEnd
<1>6. WkTo(w, k.inbox, "idle", k.cur, k.queued, {})
  <2> HIDE DEF n, k
  <2>1. WkTo(w, n.inbox, n.pc, n.cur, n.queued, n.todo)
    BY <1>1, <1>4, <1>5, WkSet
  <2> QED BY <1>4, <2>1
<1>7. /\ wk' \in [Workers -> WkRecs] /\ (\A v \in Workers : v # w => wk'[v] = wk[v])
      /\ wk'[w].inbox = k.inbox /\ wk'[w].pc = "idle" /\ wk'[w].cur = k.cur /\ wk'[w].todo = {}
  BY <1>6 DEF WkTo
<1> HIDE DEF n
<1>8. /\ cl' \in ClRecs /\ cl'.pc \in {"visit", "check"}
      /\ \A v \in Workers : Visited(v)' => v = w \/ Visited(v)
  <2>1. "visit" \in Phases /\ "check" \in Phases /\ NumWorkers \in Nat /\ w \in 1..NumWorkers
    BY WorkerIs DEF Phases, Workers
  <2>2. CASE w < NumWorkers
    <3>1. cl' = [pc |-> "visit", visit |-> w + 1] /\ w + 1 \in Workers
      BY <1>2, <2>1, <2>2, SMT DEF CancelEnd, Workers
    <3>2. cl' \in ClRecs /\ cl'.pc = "visit" /\ cl'.visit = w + 1
      BY <1>1, <2>1, <3>1, ClIs
    <3>3. ASSUME NEW v \in Workers, v < w + 1 PROVE v = w \/ v < w
      BY <3>3, WorkerIs, SMT
    <3> QED BY <1>2, <3>2, <3>3 DEF Visited
  <2>3. CASE ~ (w < NumWorkers)
    <3>1. cl' = [cl EXCEPT !.pc = "check"]
      BY <1>2, <2>3 DEF CancelEnd
    <3>2. cl' \in ClRecs /\ cl'.pc = "check"
      BY <1>1, <2>1, <3>1, ClIs
    <3>3. ASSUME NEW v \in Workers PROVE v = w \/ v < w
      BY <2>1, <2>3, SMT DEF Workers
    <3> QED BY <1>2, <3>2, <3>3 DEF Visited
  <2> QED BY <2>2, <2>3
<1>9. cl'.pc \notin {"open", "closed", "claim", "write"}
  BY <1>8
<1>10. ASSUME NEW v \in Workers PROVE WalkOk(v, wk[v])'
  <2>1. CASE v = w
    BY <1>1, <1>2, <1>7, <2>1 DEF WalkOk, Notifying
  <2>2. CASE v # w
    <3>1. wk'[v] = wk[v] /\ wk[v].todo = {} /\ Cancel \notin Range(wk[v].inbox)
      BY <1>1, <1>2, <1>7, <2>2 DEF WalkOk
    <3> QED BY <1>1, <3>1 DEF WalkOk
  <2> QED BY <2>1, <2>2
<1>11. ASSUME NEW v \in Workers, NEW r \in Reqs PROVE At(v, r)' /\ SweptAt(v, r)'
  <2>1. At(v, r) /\ SweptAt(v, r) /\ req'[r] = req[r] /\ r # Cancel
    BY <1>1, CqAssumption DEF Requests, InPlace, Swept
  <2>2. \A x \in Workers : /\ wk'[x].inbox = wk[x].inbox /\ wk'[x].cur = wk[x].cur
                           /\ wk'[x].pc = wk[x].pc \/ (x = w /\ wk'[x].pc = "idle")
                           /\ wk'[x].todo = wk[x].todo \/ wk'[x].todo = {}
    BY <1>7
  <2>3. "idle" \notin Notifying /\ "idle" # "migrate" /\ "idle" # "notify"
    BY DEF Notifying
  <2>4. MigrateOk(v, wk[v], r, req[r])'
    <3>1. \A x \in Workers : /\ wk'[x].inbox = wk[x].inbox
                             /\ wk'[x].pc = "migrate" /\ wk'[x].cur = r =>
                                  wk[x].pc = "migrate" /\ wk[x].cur = r
      BY <2>2, <2>3
    <3> QED BY <2>1, <3>1 DEF At, MigrateOk
  <2>5. InboxOk(v, wk[v], r, req[r])'
    BY <2>1, <2>2 DEF At, InboxOk
  <2>6. NotifyOk(v, wk[v], r, req[r])'
    BY <2>1, <2>2, <2>3 DEF At, NotifyOk
  <2>7. CASE v = w
    <3>1. req[r].worker = w /\ ~ req[r].moved => req[r].done
      BY <1>1, <2>1, <2>7 DEF SweptAt, SweptOk
    <3> QED BY <1>7, <2>1, <2>3, <2>4, <2>5, <2>6, <2>7, <3>1 DEF At, SweptAt, SweptOk
  <2>8. CASE v # w
    <3>1. wk'[v] = wk[v] /\ (Visited(v)' => Visited(v))
      BY <1>7, <1>8, <2>8
    <3> QED BY <2>1, <2>4, <2>5, <2>6, <3>1 DEF At, SweptAt, SweptOk
  <2> QED BY <2>7, <2>8
<1>12. Owned'
  <2>1. ASSUME NEW s PROVE Completing(s)' <=> Completing(s)
    BY <1>1, <1>7 DEF Completing
  <2> QED BY <1>1, <2>1, SameOwners
<1>13. Types'
  BY <1>1, <1>7, <1>8 DEF Types
<1>14. Mutex' /\ Closed'
  BY <1>1, <1>2, <1>9 DEF Mutex, Closed
<1> QED BY <1>10, <1>11, <1>12, <1>13, <1>14 DEF Requests, Walks, InPlace, Swept

(* The cancellation is queued behind the worker's requests. *)
LEMMA CloseVisitKeeps ==
  ASSUME Requests, CloseVisit
  PROVE  Requests'
<1>0. PICK w \in Workers : w = cl.visit
  BY ClIs DEF Requests
<1> DEFINE k == wk[w]
           q == Append(k.inbox, Cancel)
           n == [k EXCEPT !.inbox = q]
<1>1. /\ Types /\ Mutex /\ Owned /\ cl.pc = "visit"
      /\ UNCHANGED <<mtx, cq, req, wt>> /\ \A v \in Workers : WalkOk(v, wk[v])
  BY DEF Requests, Walks, CloseVisit
<1>2. \A v \in Workers : wk[v].todo = {} /\ Cancel \notin Range(wk[v].inbox)
  BY <1>1 DEF WalkOk
<1>3. wk \in [Workers -> WkRecs] /\ k \in WkRecs /\ k.inbox \in Seq(Reqs \cup {Cancel})
  BY <1>1, WkIs
<1>4. /\ q \in Seq(Reqs \cup {Cancel}) /\ Range(q) = Range(k.inbox) \cup {Cancel}
      /\ IsInjective(q) /\ \A r \in Reqs : Behind(q, r)
  <2>1. IsInjective(k.inbox) /\ Cancel \in Reqs \cup {Cancel} /\ \A r \in Reqs : r # Cancel
    BY <1>1, CqAssumption DEF WalkOk
  <2> QED BY <1>2, <1>3, <2>1, AppendIs, SMT
<1>5. /\ n \in WkRecs /\ n.inbox = q /\ n.pc = k.pc /\ n.cur = k.cur
      /\ n.queued = k.queued /\ n.todo = k.todo
  BY <1>3, <1>4 DEF WkRecs
<1>6. wk' = [wk EXCEPT ![w] = n] /\ cl' = [cl EXCEPT !.pc = "visiting"] /\ "visiting" \in Phases
  BY <1>0, <1>3 DEF CloseVisit, Phases
<1>7. /\ wk' \in [Workers -> WkRecs] /\ (\A v \in Workers : v # w => wk'[v] = wk[v])
      /\ wk'[w].inbox = q /\ wk'[w].pc = k.pc /\ wk'[w].cur = k.cur /\ wk'[w].todo = k.todo
  <2> HIDE DEF n, k, q
  <2>1. WkTo(w, n.inbox, n.pc, n.cur, n.queued, n.todo)
    BY <1>1, <1>5, <1>6, WkSet
  <2> QED BY <1>5, <2>1 DEF WkTo
<1>8. cl' \in ClRecs /\ cl'.pc = "visiting" /\ cl'.visit = w
  BY <1>0, <1>1, <1>6, ClIs
<1> HIDE DEF n, q
<1>9. ASSUME NEW v \in Workers PROVE WalkOk(v, wk[v])'
  <2>1. WalkOk(v, wk[v])
    BY <1>1
  <2>2. CASE v = w
    BY <1>2, <1>4, <1>7, <1>8, <2>1, <2>2 DEF WalkOk
  <2>3. CASE v # w
    BY <1>2, <1>7, <2>1, <2>3 DEF WalkOk
  <2> QED BY <2>2, <2>3
<1>10. ASSUME NEW v \in Workers, NEW r \in Reqs PROVE At(v, r)' /\ SweptAt(v, r)'
  <2>1. At(v, r) /\ SweptAt(v, r) /\ req'[r] = req[r] /\ r # Cancel
    BY <1>1, CqAssumption DEF Requests, InPlace, Swept
  <2>2. Visited(v)' <=> Visited(v)
    BY <1>0, <1>1, <1>8 DEF Visited
  <2>3. \A x \in Workers : /\ wk'[x].pc = wk[x].pc /\ wk'[x].cur = wk[x].cur
                           /\ wk'[x].todo = wk[x].todo
    BY <1>7
  <2>4. \A x \in Workers : r \in Range(wk'[x].inbox) <=> r \in Range(wk[x].inbox)
    <3>1. r \in Range(q) <=> r \in Range(k.inbox)
      BY <1>4, <2>1
    <3> QED BY <1>7, <3>1
  <2>5. Behind(wk[v].inbox, r) => Behind(wk'[v].inbox, r)
    BY <1>4, <1>7
  <2>6. InboxOk(v, wk[v], r, req[r])'
    BY <2>1, <2>3, <2>4, <2>5 DEF At, InboxOk
  <2>7. NotifyOk(v, wk[v], r, req[r])'
    BY <2>1, <2>3, <2>4 DEF At, NotifyOk
  <2>8. MigrateOk(v, wk[v], r, req[r])'
    BY <2>1, <2>3, <2>4 DEF At, MigrateOk
  <2>9. SweptAt(v, r)'
    BY <2>1, <2>2, <2>3 DEF SweptAt, SweptOk
  <2> QED BY <2>6, <2>7, <2>8, <2>9 DEF At
<1>11. Owned'
  <2>1. \A s : Completing(s)' <=> Completing(s)
    <3>1. \A x \in Workers : wk'[x].pc = wk[x].pc /\ wk'[x].cur = wk[x].cur
      BY <1>7
    <3> QED BY <3>1 DEF Completing
  <2> QED BY <1>1, <2>1, SameOwners
<1>12. Types'
  BY <1>1, <1>7, <1>8 DEF Types
<1>13. Mutex' /\ Closed'
  BY <1>1, <1>8 DEF Mutex, Closed
<1> QED BY <1>9, <1>10, <1>11, <1>12, <1>13 DEF Requests, Walks, InPlace, Swept

(* A step of the close that moves no request. *)
LEMMA CloseQuiet ==
  ASSUME Requests, UNCHANGED <<req, wk, wt>>, cq' \in CqRecs, cq'.submit = cq.submit,
         cq'.list = cq.list, cl' \in ClRecs, cl.pc # "visiting",
         \A w \in Workers : Visited(w)' => Visited(w),
         mtx' \in Waiters \cup {"free", "closer"}, Mutex', Closed'
  PROVE  Requests'
<1>1. Walks' /\ InPlace' /\ Swept'
  BY PlacesKept
<1>2. Owned'
  <2>1. \A s : Completing(s)' <=> Completing(s)
    BY DEF Completing
  <2> QED BY <2>1, SameOwners
<1>3. Types'
  BY DEF Requests, Types
<1> QED BY <1>1, <1>2, <1>3 DEF Requests

(* entry->value is cleared, the waiters are woken. *)
LEMMA CloseBeginKeeps ==
  ASSUME Requests, CloseBegin \/ CloseClaim \/ CloseWrite
  PROVE  Requests'
<1>1. Types /\ Mutex /\ Closed /\ UNCHANGED <<req, wk, wt>>
  BY DEF Requests, CloseBegin, CloseClaim, CloseWrite
<1>2. {"claim", "write", "visit"} \subseteq Phases /\ 1 \in {0, 1} /\ cq.efd + 1 \in Nat
  BY <1>1, CqIs, SMT DEF Phases
<1>3. /\ cq' \in CqRecs /\ cq'.submit = cq.submit /\ cq'.list = cq.list
      /\ cq'.open = FALSE
      /\ cl'.pc \in {"claim", "write", "visit"} /\ cl' \in ClRecs /\ cl'.visit = 1
      /\ cl.pc \in {"open", "claim", "write"} /\ mtx' = "closer"
  <2>1. CASE CloseBegin
    <3>1. CqTo(FALSE, cq.refs, cq.submit, cq.list, cq.count, cq.need, cq.buffered, cq.pending, cq.efd)
      BY <1>1, <2>1, CqFields DEF CloseBegin
    <3>2. cl' = [cl EXCEPT !.pc = "claim"] /\ cl.pc = "open" /\ mtx' = "closer"
      BY <2>1 DEF CloseBegin
    <3>3. cl' \in ClRecs /\ cl'.pc = "claim" /\ cl'.visit = cl.visit
      BY <1>1, <1>2, <3>2, ClIs
    <3> QED BY <1>1, <3>1, <3>2, <3>3 DEF CqTo, Mutex
  <2>2. CASE CloseClaim
    <3>1. CqTo(cq.open, cq.refs, cq.submit, cq.list, cq.count, cq.need, cq.buffered, 1, cq.efd)
      BY <1>1, <1>2, <2>2, CqFields DEF CloseClaim
    <3>2. PICK p \in {"write", "visit"} :
            cl' = [cl EXCEPT !.pc = p] /\ cl.pc = "claim" /\ mtx' = mtx
      BY <2>2 DEF CloseClaim
    <3>3. cl' \in ClRecs /\ cl'.pc = p /\ cl'.visit = cl.visit
      BY <1>1, <1>2, <3>2, ClIs
    <3>4. cq.open = FALSE /\ mtx = "closer"
      BY <1>1, <3>2, CqIs DEF Mutex
    <3> QED BY <1>1, <3>1, <3>2, <3>3, <3>4 DEF CqTo, Mutex
  <2>3. CASE CloseWrite
    <3>1. CqTo(cq.open, cq.refs, cq.submit, cq.list, cq.count, cq.need, cq.buffered, cq.pending,
               cq.efd + 1)
      BY <1>1, <1>2, <2>3, CqFields DEF CloseWrite
    <3>2. cl' = [cl EXCEPT !.pc = "visit"] /\ cl.pc = "write" /\ mtx' = mtx
      BY <2>3 DEF CloseWrite
    <3>3. cl' \in ClRecs /\ cl'.pc = "visit" /\ cl'.visit = cl.visit
      BY <1>1, <1>2, <3>2, ClIs
    <3>4. cq.open = FALSE /\ mtx = "closer"
      BY <1>1, <3>2, CqIs DEF Mutex
    <3> QED BY <1>1, <3>1, <3>2, <3>3, <3>4 DEF CqTo, Mutex
  <2> QED BY <2>1, <2>2, <2>3
<1>4. \A t \in Waiters : wt[t].pc \notin Inside
  <2>1. mtx = "free" \/ mtx = "closer"
    BY <1>1, <1>3 DEF CloseBegin, CloseClaim, CloseWrite, Mutex
  <2> QED BY <1>1, <2>1, CqAssumption DEF Mutex
<1>5. Mutex' /\ Closed' /\ cl.pc # "visiting"
  BY <1>1, <1>3, <1>4 DEF Mutex, Closed
<1>6. ASSUME NEW w \in Workers PROVE ~ Visited(w)'
  BY <1>3, <1>6, WorkerIs, SMT DEF Visited, Workers
<1>7. mtx' \in Waiters \cup {"free", "closer"}
  BY <1>3
<1> QED BY <1>1, <1>3, <1>5, <1>6, <1>7, CloseQuiet

(* The requests are looked at; all completions are freed; the CQ goes. *)
LEMMA CloseEndKeeps ==
  ASSUME Requests, CloseCheck \/ CloseFreeEnd \/ CloseDestroy
  PROVE  Requests'
<1>1. Types /\ Mutex /\ Closed /\ UNCHANGED <<req, wk, wt>>
  BY DEF Requests, CloseCheck, CloseFreeEnd, CloseDestroy
<1>2. {"free", "visit", "assert", "closed"} \subseteq Phases /\ cq.refs - 1 \in Int
  BY <1>1, CqIs, SMT DEF Phases
<1>3. /\ cq' \in CqRecs /\ cq'.submit = cq.submit /\ cq'.list = cq.list
      /\ cq'.open = cq.open
      /\ cl.pc \in {"check", "free", "assert"} /\ cl' \in ClRecs
      /\ \/ cl'.pc \in {"visit", "free", "assert"} /\ mtx' = mtx
         \/ cl'.pc = "closed" /\ mtx' = "free" /\ cq.submit = {}
  <2>1. CASE CloseCheck
    <3>1. /\ cl' = [cl EXCEPT !.pc = "free"] \/ cl' = [pc |-> "visit", visit |-> 1]
          /\ cl.pc = "check" /\ mtx' = mtx /\ cq' = cq
      BY <2>1 DEF CloseCheck
    <3>2. "free" \in Phases /\ "visit" \in Phases /\ 1 \in Workers
      BY <1>2, WorkerIs
    <3>3. cl' \in ClRecs /\ (cl'.pc = "free" \/ cl'.pc = "visit")
      <4>1. CASE cl' = [cl EXCEPT !.pc = "free"]
        BY <1>1, <3>2, <4>1, ClIs
      <4>2. CASE cl' = [pc |-> "visit", visit |-> 1]
        BY <3>2, <4>2 DEF ClRecs
      <4> QED BY <3>1, <4>1, <4>2
    <3> QED BY <1>1, <3>1, <3>3, CqIs
  <2>2. CASE CloseFreeEnd
    <3>1. cl' = [cl EXCEPT !.pc = "assert"] /\ cl.pc = "free" /\ mtx' = mtx /\ cq' = cq
      BY <2>2 DEF CloseFreeEnd
    <3>2. cl' \in ClRecs /\ cl'.pc = "assert"
      BY <1>1, <1>2, <3>1, ClIs
    <3> QED BY <1>1, <3>1, <3>2, CqIs
  <2>3. CASE CloseDestroy
    <3>1. CqTo(cq.open, cq.refs - 1, cq.submit, cq.list, cq.count, cq.need, cq.buffered, cq.pending,
               cq.efd)
      BY <1>1, <1>2, <2>3, CqFields DEF CloseDestroy
    <3>2. /\ cl' = [cl EXCEPT !.pc = "closed"] /\ cl.pc = "assert" /\ mtx' = "free"
          /\ cq.submit = {}
      BY <2>3 DEF CloseDestroy
    <3>3. cl' \in ClRecs /\ cl'.pc = "closed"
      BY <1>1, <1>2, <3>2, ClIs
    <3> QED BY <3>1, <3>2, <3>3 DEF CqTo
  <2> QED BY <2>1, <2>2, <2>3
<1>4. mtx = "closer" /\ ~ cq.open /\ \A t \in Waiters : wt[t].pc \notin Inside
  BY <1>1, <1>3, CqAssumption DEF Mutex
<1>5. Mutex' /\ Closed' /\ cl.pc # "visiting" /\ mtx' \in Waiters \cup {"free", "closer"}
  BY <1>1, <1>3, <1>4 DEF Mutex, Closed
<1>6. ASSUME NEW w \in Workers PROVE Visited(w)
  BY <1>3 DEF Visited
<1> QED BY <1>1, <1>3, <1>5, <1>6, CloseQuiet

-----------------------------------------------------------------------------
(* async_cq_pop(): a completion goes to a waiter, or is freed. *)

(* The head of the list leaves it and is handed over, once. *)
LEMMA PopOwned ==
  ASSUME Types, Owned, IsInjective(cq.list), cq.list # <<>>, NEW r, r = Head(cq.list),
         cq'.list = Tail(cq.list), cq'.submit = cq.submit \ {r}, UNCHANGED wk,
         \A s \in Reqs : s # r => req'[s] = req[s] /\ \A t \in Waiters : Gets(t, s)' <=> Gets(t, s),
         req'[r].worker = req[r].worker, req'[r].done = req[r].done,
         req'[r].parked = req[r].parked, req'[r].moved = req[r].moved,
         \/ req'[r].freed /\ \A t \in Waiters : Gets(t, r)' <=> Gets(t, r)
         \/ /\ req'[r].freed = req[r].freed
            /\ \E t \in Waiters : Gets(t, r)' /\ \A u \in Waiters : u # t => (Gets(u, r)' <=> Gets(u, r))
  PROVE  Owned'
<1>1. /\ cq.list \in Seq(Reqs) /\ r \in Reqs /\ r \in Range(cq.list) /\ OwnedAt(r)
  BY CqIs, TailIs DEF Owned
<1>2. /\ Range(Tail(cq.list)) \subseteq Range(cq.list)
      /\ Range(cq.list) \subseteq Range(Tail(cq.list)) \cup {r} /\ r \notin Range(Tail(cq.list))
  BY <1>1, TailIs
<1>3. req[r].done /\ ~ Handed(r) /\ ~ Completing(r) /\ req[r].worker # 0 /\ ~ req[r].parked
  BY <1>1 DEF OwnedAt, OnceOk, ReqOk
<1>4. \A s : Completing(s)' <=> Completing(s)
  BY DEF Completing
<1>5. ASSUME NEW s \in Reqs, s # r
      PROVE  /\ req'[s] = req[s] /\ (Completing(s)' <=> Completing(s))
             /\ s \in cq'.submit <=> s \in cq.submit
             /\ s \in Range(cq'.list) <=> s \in Range(cq.list)
             /\ \A t \in Waiters : Gets(t, s)' <=> Gets(t, s)
  <2>1. /\ s \in cq'.submit <=> s \in cq.submit
        /\ s \in Range(cq'.list) <=> s \in Range(cq.list)
    BY <1>2, <1>5
  <2> QED BY <1>4, <1>5, <2>1
<1>6. r \notin cq'.submit /\ r \notin Range(cq'.list) /\ ~ req[r].freed /\ \A t \in Waiters : ~ Gets(t, r)
  BY <1>2, <1>3 DEF Handed
<1>7. OwnedAt(r)'
  <2>1. CASE req'[r].freed /\ \A t \in Waiters : Gets(t, r)' <=> Gets(t, r)
    <3>1. Handed(r)' /\ \A t \in Waiters : ~ Gets(t, r)'
      BY <1>6, <2>1 DEF Handed
    <3> QED BY <1>3, <1>4, <1>6, <3>1 DEF OwnedAt, OnceOk, ReqOk
  <2>2. CASE /\ req'[r].freed = req[r].freed
             /\ \E t \in Waiters : Gets(t, r)' /\ \A u \in Waiters : u # t => (Gets(u, r)' <=> Gets(u, r))
    <3>1. PICK t \in Waiters : Gets(t, r)' /\ \A u \in Waiters : u # t => (Gets(u, r)' <=> Gets(u, r))
      BY <2>2
    <3>2. Handed(r)' /\ ~ req'[r].freed /\ \A u \in Waiters : Gets(u, r)' => u = t
      BY <1>6, <2>2, <3>1 DEF Handed
    <3> QED BY <1>3, <1>4, <1>6, <3>2 DEF OwnedAt, OnceOk, ReqOk
  <2> QED BY <2>1, <2>2
<1> QED BY <1>5, <1>7, OwnedKept

(* A completion is freed by the close. *)
LEMMA CloseFreeKeeps ==
  ASSUME Requests, IsInjective(cq.list), CloseFree
  PROVE  Requests'
<1>1. /\ Types /\ Owned /\ cl.pc = "free" /\ cq.list # <<>> /\ cq' = CqPop
      /\ UNCHANGED <<mtx, wk, wt, cl>>
  BY DEF Requests, CloseFree
<1>2. PICK r : r = Head(cq.list)
  OBVIOUS
<1>3. /\ r \in Reqs /\ req' = [req EXCEPT ![r].freed = TRUE]
      /\ cq' \in CqRecs /\ cq'.open = cq.open /\ cq'.submit = cq.submit \ {r}
      /\ cq'.list = Tail(cq.list)
  BY <1>1, <1>2, PopIs DEF CqTo, CloseFree
<1>4. /\ req' \in [Reqs -> ReqRecs] /\ (\A s \in Reqs : s # r => req'[s] = req[s])
      /\ req'[r].worker = req[r].worker /\ req'[r].done = req[r].done
      /\ req'[r].parked = req[r].parked /\ req'[r].moved = req[r].moved /\ req'[r].freed
  BY <1>1, <1>3, ReqIs DEF ReqRecs
<1>5. \A t \in Waiters : \A s : Gets(t, s)' <=> Gets(t, s)
  BY <1>1 DEF Gets
<1>6. Owned'
  <2>1. \A s \in Reqs : s # r => req'[s] = req[s] /\ \A t \in Waiters : Gets(t, s)' <=> Gets(t, s)
    BY <1>4, <1>5
  <2>2. req'[r].freed /\ \A t \in Waiters : Gets(t, r)' <=> Gets(t, r)
    BY <1>4, <1>5
  <2>3. wk' = wk
    BY <1>1
  <2>4. /\ cq'.list = Tail(cq.list) /\ cq'.submit = cq.submit \ {r} /\ cq.list # <<>> /\ Types /\ Owned
        /\ req'[r].worker = req[r].worker /\ req'[r].done = req[r].done
        /\ req'[r].parked = req[r].parked /\ req'[r].moved = req[r].moved
    BY <1>1, <1>3, <1>4
  <2> QED BY <1>2, <2>1, <2>2, <2>3, <2>4, PopOwned
<1>7. \A s \in Reqs : /\ req'[s].worker = req[s].worker /\ req'[s].done = req[s].done
                      /\ req'[s].parked = req[s].parked /\ req'[s].moved = req[s].moved
  BY <1>4
<1>8. Walks' /\ InPlace' /\ Swept'
  BY <1>1, <1>7, PlacesKept
<1>9. cq'.submit \subseteq cq.submit /\ wk' \in [Workers -> WkRecs]
  BY <1>1, <1>3 DEF Types
<1> QED BY <1>1, <1>3, <1>4, <1>6, <1>8, <1>9, WorkSound

-----------------------------------------------------------------------------
(* async_wait() *)

(* A step of waiter t that takes no completion: it takes the mutex when it  *)
(* is free, gives it back, or leaves it alone.                              *)
LEMMA WaiterKeeps ==
  ASSUME Requests, NEW t \in Waiters, NEW p, NEW a, NEW l, WtTo(t, p, wt[t].got, a, l),
         cq' \in CqRecs, cq'.open = cq.open, cq'.submit = cq.submit, cq'.list = cq.list,
         UNCHANGED <<req, wk, cl>>,
         \/ mtx' = mtx /\ (p \in Inside => wt[t].pc \in Inside)
         \/ mtx = "free" /\ mtx' = t
         \/ wt[t].pc \in Inside /\ mtx' = "free" /\ p \notin Inside
  PROVE  Requests'
<1>1. Types /\ Mutex /\ Owned /\ Closed
  BY DEF Requests
<1>2. /\ wt' \in [Waiters -> WtRecs] /\ (\A u \in Waiters : u # t => wt'[u] = wt[u])
      /\ wt'[t].pc = p /\ wt'[t].got = wt[t].got
  BY DEF WtTo
<1>3. Walks' /\ InPlace' /\ Swept'
  BY PlacesKept
<1>4. Owned'
  <2>1. \A u \in Waiters : \A s : Gets(u, s)' <=> Gets(u, s)
    BY <1>2 DEF Gets
  <2>2. \A s : Completing(s)' <=> Completing(s)
    BY DEF Completing
  <2>3. Cancel \notin Reqs
    BY CqAssumption
  <2>4. \A s \in Reqs : s # Cancel => /\ req'[s] = req[s] /\ (Completing(s)' <=> Completing(s))
                                      /\ s \in cq'.submit <=> s \in cq.submit
                                      /\ s \in Range(cq'.list) <=> s \in Range(cq.list)
                                      /\ \A u \in Waiters : Gets(u, s)' <=> Gets(u, s)
    BY <2>1, <2>2
  <2> QED BY <1>1, <2>3, <2>4, OwnedKept
<1>5. mtx' \in Waiters \cup {"free", "closer"} /\ t # "free" /\ t # "closer"
  BY <1>1, CqAssumption DEF Types
<1>6. Types'
  BY <1>1, <1>2, <1>5 DEF Types
<1>7. Mutex'
  <2>1. ASSUME NEW u \in Waiters, wt'[u].pc \in Inside PROVE mtx' = u
    <3>1. u # "free"
      BY CqAssumption
    <3>2. CASE u = t
      BY <1>1, <1>2, <2>1, <3>2 DEF Mutex
    <3>3. CASE u # t
      <4>1. wt[u].pc \in Inside /\ mtx = u
        BY <1>1, <1>2, <2>1, <3>3 DEF Mutex
      <4>2. wt[t].pc \notin Inside
        BY <1>1, <3>3, <4>1 DEF Mutex
      <4> QED BY <3>1, <4>1, <4>2
    <3> QED BY <3>2, <3>3
  <2>2. cl'.pc \notin {"open", "closed"} => mtx' = "closer"
    BY <1>1, <1>5 DEF Mutex
  <2> QED BY <1>1, <2>1, <2>2 DEF Mutex
<1>8. Closed'
  BY <1>1 DEF Closed
<1> QED BY <1>3, <1>4, <1>6, <1>7, <1>8 DEF Requests

(* A waiter takes a completion. *)
LEMMA PopOneKeeps ==
  ASSUME Requests, IsInjective(cq.list), NEW t \in Waiters, PopOne(t)
  PROVE  Requests'
<1>1. /\ Types /\ Owned /\ Mutex /\ wt[t].pc = "pop" /\ cq.list # <<>> /\ cq' = CqPop
      /\ UNCHANGED <<mtx, req, wk, cl>>
  BY DEF Requests, PopOne
<1>2. PICK r : r = Head(cq.list)
  OBVIOUS
<1>3. /\ r \in Reqs /\ wt' = [wt EXCEPT ![t].got = wt[t].got \cup {r}]
      /\ cq' \in CqRecs /\ cq'.open = cq.open /\ cq'.submit = cq.submit \ {r}
      /\ cq'.list = Tail(cq.list)
  BY <1>1, <1>2, PopIs DEF CqTo, PopOne
<1>4. wt[t].got \cup {r} \in SUBSET Reqs
  BY <1>1, <1>3, WtIs
<1>5. /\ wt' \in [Waiters -> WtRecs] /\ (\A u \in Waiters : u # t => wt'[u] = wt[u])
      /\ wt'[t].pc = wt[t].pc /\ wt'[t].got = wt[t].got \cup {r}
  <2>1. PICK g \in SUBSET Reqs : g = wt[t].got \cup {r}
    BY <1>4
  <2>2. WtTo(t, wt[t].pc, g, wt[t].armed, wt[t].late)
    BY <1>1, <1>3, <2>1, WtFields
  <2> QED BY <2>1, <2>2 DEF WtTo
<1>6. /\ \A s : s # r => \A u \in Waiters : Gets(u, s)' <=> Gets(u, s)
      /\ Gets(t, r)' /\ \A u \in Waiters : u # t => (Gets(u, r)' <=> Gets(u, r))
  <2>1. /\ r \in wt'[t].got /\ \A s : s # r => (s \in wt'[t].got <=> s \in wt[t].got)
    BY <1>5
  <2> QED BY <1>5, <2>1 DEF Gets
<1>7. req'[r].freed = req[r].freed /\ \A s \in Reqs : s # r => req'[s] = req[s]
  BY <1>1
<1>8. Owned'
  <2>1. \A s \in Reqs : s # r => req'[s] = req[s] /\ \A u \in Waiters : Gets(u, s)' <=> Gets(u, s)
    BY <1>6, <1>7
  <2>2. /\ req'[r].freed = req[r].freed
        /\ \E u \in Waiters : Gets(u, r)' /\ \A v \in Waiters : v # u => (Gets(v, r)' <=> Gets(v, r))
    BY <1>6, <1>7
  <2>3. wk' = wk
    BY <1>1
  <2>4. /\ cq'.list = Tail(cq.list) /\ cq'.submit = cq.submit \ {r} /\ cq.list # <<>> /\ Types /\ Owned
        /\ req'[r].worker = req[r].worker /\ req'[r].done = req[r].done
        /\ req'[r].parked = req[r].parked /\ req'[r].moved = req[r].moved
    BY <1>1, <1>3
  <2> QED BY <1>2, <2>1, <2>2, <2>3, <2>4, PopOwned
<1>9. Walks' /\ InPlace' /\ Swept'
  BY <1>1, PlacesKept
<1>10. Types'
  BY <1>1, <1>3, <1>5 DEF Types
<1>11. \A u \in Waiters : wt'[u].pc = wt[u].pc
  BY <1>5
<1>12. Mutex'
  BY <1>1, <1>3, <1>11 DEF Mutex
<1>13. Closed'
  BY <1>1, <1>3 DEF Requests, Closed
<1> QED BY <1>8, <1>9, <1>10, <1>12, <1>13 DEF Requests

-----------------------------------------------------------------------------
(* What the waiters miss. *)

-----------------------------------------------------------------------------
(* The waiters. *)

(* UINT_MAX is above every need, and NoStore is no need. *)
LEMMA NumbersAre ==
  ASSUME Sized
  PROVE  UINT_MAX \in Nat /\ UINT_MAX >= 1 /\ NoStore = UINT_MAX + 1 /\ NoStore \in 1..NoStore
<1>1. Cardinality(Reqs) \in Nat
  BY DEF Sized
<1> QED BY <1>1, SMT DEF UINT_MAX, NoStore

(* waiter.need is a number, below UINT_MAX. *)
LEMMA MissingIs ==
  ASSUME Sized, Types, NEW t \in Waiters
  PROVE  /\ Missing(t) \in Int /\ Missing(t) < UINT_MAX /\ UINT_MAX \in Nat /\ NoStore \in Nat
         /\ UINT_MAX >= 1 /\ NoStore = UINT_MAX + 1 /\ Cardinality(wt[t].got) \in Nat
<1>1. wt[t].got \in SUBSET Reqs /\ Reqs \in SUBSET Reqs
  BY WtIs
<1>2. Cardinality(wt[t].got) \in Nat /\ Cardinality(Reqs) \in Nat
  BY <1>1 DEF Sized
<1>3. MinComplete[t] \in 1..Cardinality(Reqs)
  BY CqAssumption
<1> QED BY <1>2, <1>3, SMT DEF Missing, UINT_MAX, NoStore

(* async_waiter_remove() finds the least need of the waiters that stay. *)
LEMMA LeastIs ==
  ASSUME Sized, Types, NEW S, S \subseteq Waiters, \A t \in S : Missing(t) >= 1
  PROVE  /\ LeastNeed(S) \in 1..UINT_MAX
         /\ \A t \in S : LeastNeed(S) <= Missing(t)
<1>1. UINT_MAX \in Nat /\ UINT_MAX >= 1
  BY NumbersAre
<1>2. \A t \in S : Missing(t) \in 1..UINT_MAX
  BY <1>1, MissingIs, SMT
<1>3. Needs(S) \subseteq 1..UINT_MAX /\ UINT_MAX \in Needs(S) /\ \A t \in S : Missing(t) \in Needs(S)
  BY <1>1, <1>2, SMT DEF Needs
<1>4. \E n \in Needs(S) : \A m \in Needs(S) : n <= m
  BY <1>3 DEF Sized
<1>5. LeastNeed(S) \in Needs(S) /\ \A m \in Needs(S) : LeastNeed(S) <= m
  BY <1>4, SMT DEF LeastNeed
<1> QED BY <1>3, <1>5

(* The fields of a waiter and of the CQ that a step of async_wait() sets.   *)
LEMMA CallIs ==
  ASSUME Types, NEW t \in Waiters, Call(t) \/ Expire(t)
  PROVE  LET u == wt[t]
         IN  \/ /\ WtTo(t, "pop", u.got, u.armed, u.late) /\ u.pc = "call" /\ mtx = "free" /\ mtx' = t
                /\ cq.open
                /\ CqTo(cq.open, cq.refs + 1, cq.submit, cq.list, cq.count, cq.need, cq.buffered,
                        cq.pending, cq.efd)
             \/ /\ WtTo(t, "out", u.got, u.armed, u.late) /\ u.pc = "call" /\ mtx' = mtx /\ cq' = cq
             \/ /\ WtTo(t, u.pc, u.got, u.armed, u.late) /\ mtx' = mtx /\ cq' = cq
<1>1. {"pop", "out"} \subseteq Stages /\ cq.refs + 1 \in Int
  BY CqIs, SMT DEF Stages
<1>2. "pop" \in Stages /\ "out" \in Stages
  BY <1>1
<1>3. CASE Call(t)
  BY <1>1, <1>2, <1>3, WtFields, CqFields DEF Call
<1>4. CASE Expire(t)
  BY <1>4, WtFields DEF Expire
<1> QED BY <1>3, <1>4

(* async_wait(), between the calls of poll(). *)
LEMMA WaitIs ==
  ASSUME Sized, Types, NEW t \in Waiters, \A u \in Waiters : WaiterOk(u, wt[u])
  PROVE  LET u == wt[t]
             n == LeastNeed(Armed \ {t})
         IN  /\ Arm(t) => /\ WtTo(t, "recheck", u.got, TRUE, u.late)
                          /\ \/ cq' = cq
                             \/ CqTo(cq.open, cq.refs, cq.submit, cq.list, cq.count, cq.need,
                                     Missing(t), cq.pending, cq.efd)
             /\ Recheck(t) =>
                  \/ /\ WtTo(t, "pop", u.got, FALSE, u.late)
                     /\ CqTo(cq.open, cq.refs, cq.submit, cq.list, cq.count, n, NoStore,
                             cq.pending, cq.efd)
                  \/ WtTo(t, "unlock", u.got, u.armed, cq.buffered # NoStore) /\ cq' = cq
             /\ Unlock(t) => WtTo(t, "poll", u.got, u.armed, u.late) /\ cq' = cq
             /\ Poll(t) => WtTo(t, "relock", u.got, u.armed, u.late) /\ cq' = cq
             /\ Relock(t) =>
                  \/ /\ WtTo(t, "clear", u.got, u.armed, u.late)
                     /\ CqTo(cq.open, cq.refs, cq.submit, cq.list, cq.count, cq.need, cq.buffered,
                             cq.pending, 0)
                  \/ WtTo(t, "remove", u.got, u.armed, u.late) /\ cq' = cq
             /\ DrainClear(t) => /\ WtTo(t, "remove", u.got, u.armed, u.late)
                                 /\ CqTo(cq.open, cq.refs, cq.submit, cq.list, cq.count, cq.need,
                                         cq.buffered, 0, cq.efd)
             /\ Disarm(t) => /\ WtTo(t, "renotify", u.got, FALSE, FALSE)
                             /\ CqTo(cq.open, cq.refs, cq.submit, cq.list, cq.count, n,
                                     cq.buffered, cq.pending, cq.efd)
<1> DEFINE u == wt[t]
           n == LeastNeed(Armed \ {t})
<1>1. /\ "recheck" \in Stages /\ "pop" \in Stages /\ "unlock" \in Stages /\ "poll" \in Stages
      /\ "relock" \in Stages /\ "clear" \in Stages /\ "remove" \in Stages /\ "renotify" \in Stages
      /\ 0 \in Nat /\ 0 \in {0, 1}
  BY DEF Stages
<1>2. n \in 1..UINT_MAX
  <2>1. Armed \ {t} \subseteq Waiters /\ \A x \in Armed \ {t} : Missing(x) >= 1
    BY DEF Armed, WaiterOk
  <2> QED BY <2>1, LeastIs
<1> HIDE DEF n
<1>3. ASSUME Arm(t)
      PROVE  /\ WtTo(t, "recheck", u.got, TRUE, u.late)
             /\ \/ cq' = cq
                \/ CqTo(cq.open, cq.refs, cq.submit, cq.list, cq.count, cq.need, Missing(t),
                        cq.pending, cq.efd)
  <2>1. Missing(t) \in 1..NoStore
    BY <1>3, MissingIs, SMT DEF Arm
  <2>2. cq' = cq \/ cq' = [cq EXCEPT !.buffered = Missing(t)]
    BY <1>3 DEF Arm
  <2>3. wt' = [wt EXCEPT ![t].pc = "recheck", ![t].armed = TRUE]
    BY <1>3 DEF Arm
  <2> QED BY <1>1, <2>1, <2>2, <2>3, WtFields, CqFields
<1>4. ASSUME Recheck(t)
      PROVE  \/ /\ WtTo(t, "pop", u.got, FALSE, u.late)
                /\ CqTo(cq.open, cq.refs, cq.submit, cq.list, cq.count, n, NoStore, cq.pending, cq.efd)
             \/ WtTo(t, "unlock", u.got, u.armed, cq.buffered # NoStore) /\ cq' = cq
  <2>1. CASE /\ wt' = [wt EXCEPT ![t].pc = "pop", ![t].armed = FALSE]
             /\ cq' = [cq EXCEPT !.need = n, !.buffered = NoStore]
    BY <1>1, <1>2, <2>1, NumbersAre, WtFields, CqFields
  <2>2. CASE /\ wt' = [wt EXCEPT ![t].pc = "unlock", ![t].late = cq.buffered # NoStore] /\ cq' = cq
    <3>1. (cq.buffered # NoStore) \in BOOLEAN
      OBVIOUS
    <3> QED BY <1>1, <2>2, <3>1, WtFields
  <2> QED BY <1>4, <2>1, <2>2 DEF Recheck, n
<1>5. ASSUME Unlock(t) PROVE WtTo(t, "poll", u.got, u.armed, u.late) /\ cq' = cq
  BY <1>1, <1>5, WtFields DEF Unlock
<1>6. ASSUME Poll(t) PROVE WtTo(t, "relock", u.got, u.armed, u.late) /\ cq' = cq
  <2>1. PICK x \in Polls : wt' = [wt EXCEPT ![t].pc = "relock", ![t].poll = x]
    BY <1>6 DEF Poll, Polls
  <2> QED BY <1>1, <1>6, <2>1, WtFields DEF Poll
<1>7. ASSUME Relock(t)
      PROVE  \/ /\ WtTo(t, "clear", u.got, u.armed, u.late)
                /\ CqTo(cq.open, cq.refs, cq.submit, cq.list, cq.count, cq.need, cq.buffered,
                        cq.pending, 0)
             \/ WtTo(t, "remove", u.got, u.armed, u.late) /\ cq' = cq
  BY <1>1, <1>7, WtFields, CqFields DEF Relock
<1>8. ASSUME DrainClear(t)
      PROVE  /\ WtTo(t, "remove", u.got, u.armed, u.late)
             /\ CqTo(cq.open, cq.refs, cq.submit, cq.list, cq.count, cq.need, cq.buffered, 0, cq.efd)
  BY <1>1, <1>8, WtFields, CqFields DEF DrainClear
<1>9. ASSUME Disarm(t)
      PROVE  /\ WtTo(t, "renotify", u.got, FALSE, FALSE)
             /\ CqTo(cq.open, cq.refs, cq.submit, cq.list, cq.count, n, cq.buffered, cq.pending, cq.efd)
  <2> DEFINE m == [u EXCEPT !.pc = "renotify", !.armed = FALSE, !.late = FALSE]
  <2>1. wt \in [Waiters -> WtRecs] /\ u \in WtRecs
    BY WtIs
  <2>2. wt' = [wt EXCEPT ![t] = m] /\ cq' = [cq EXCEPT !.need = n]
    BY <1>9, <2>1 DEF Disarm, n
  <2>3. m \in WtRecs /\ m.pc = "renotify" /\ m.got = u.got /\ m.armed = FALSE /\ m.late = FALSE
    BY <1>1, <2>1 DEF WtRecs
  <2> HIDE DEF m
  <2>4. WtTo(t, "renotify", u.got, FALSE, FALSE)
    BY <2>1, <2>2, <2>3 DEF WtTo
  <2> QED BY <1>2, <2>2, <2>4, CqFields
<1> QED BY <1>3, <1>4, <1>5, <1>6, <1>7, <1>8, <1>9 DEF n

(* async_notify_ready_waiters(), and after it. *)
LEMMA ReadyIs ==
  ASSUME Types, NEW t \in Waiters
  PROVE  LET u == wt[t]
         IN  /\ NotifyReady(t) => /\ cq' = cq
                                  /\ \/ /\ WtTo(t, "claim", u.got, u.armed, u.late)
                                        /\ cq.need # UINT_MAX /\ cq.count >= cq.need
                                     \/ /\ WtTo(t, "after", u.got, u.armed, u.late)
                                        /\ ~ (cq.need # UINT_MAX /\ cq.count >= cq.need)
             /\ ReadyClaim(t) =>
                  /\ CqTo(cq.open, cq.refs, cq.submit, cq.list, cq.count, cq.need, cq.buffered, 1, cq.efd)
                  /\ \/ WtTo(t, "write", u.got, u.armed, u.late) /\ cq.pending = 0
                     \/ WtTo(t, "after", u.got, u.armed, u.late) /\ cq.pending # 0
             /\ ReadyWrite(t) =>
                  /\ WtTo(t, "after", u.got, u.armed, u.late)
                  /\ CqTo(cq.open, cq.refs, cq.submit, cq.list, cq.count, cq.need, cq.buffered,
                          cq.pending, cq.efd + 1)
             /\ After(t) => \/ Leave(t)
                            \/ WtTo(t, "pop", u.got, u.armed, u.late) /\ mtx' = mtx /\ cq' = cq
<1> DEFINE u == wt[t]
<1>1. /\ "claim" \in Stages /\ "after" \in Stages /\ "write" \in Stages /\ "pop" \in Stages
      /\ 1 \in {0, 1} /\ cq.efd + 1 \in Nat /\ "none" \in Polls
  BY CqIs, SMT DEF Stages, Polls
<1>2. ASSUME NotifyReady(t)
      PROVE  \/ /\ WtTo(t, "claim", u.got, u.armed, u.late)
                /\ cq.need # UINT_MAX /\ cq.count >= cq.need
             \/ /\ WtTo(t, "after", u.got, u.armed, u.late)
                /\ ~ (cq.need # UINT_MAX /\ cq.count >= cq.need)
  <2>1. CASE cq.need # UINT_MAX /\ cq.count >= cq.need
    <3>1. wt' = [wt EXCEPT ![t].pc = "claim"]
      BY <1>2, <2>1 DEF NotifyReady
    <3> QED BY <1>1, <2>1, <3>1, WtFields
  <2>2. CASE ~ (cq.need # UINT_MAX /\ cq.count >= cq.need)
    <3>1. wt' = [wt EXCEPT ![t].pc = "after"]
      BY <1>2, <2>2 DEF NotifyReady
    <3> QED BY <1>1, <2>2, <3>1, WtFields
  <2> QED BY <2>1, <2>2
<1>3. ASSUME ReadyClaim(t)
      PROVE  /\ CqTo(cq.open, cq.refs, cq.submit, cq.list, cq.count, cq.need, cq.buffered, 1, cq.efd)
             /\ \/ WtTo(t, "write", u.got, u.armed, u.late) /\ cq.pending = 0
                \/ WtTo(t, "after", u.got, u.armed, u.late) /\ cq.pending # 0
  <2>1. \/ cq.pending = 0 /\ wt' = [wt EXCEPT ![t].pc = "write"]
        \/ cq.pending # 0 /\ wt' = [wt EXCEPT ![t].pc = "after"]
    BY <1>3 DEF ReadyClaim
  <2>2. cq' = [cq EXCEPT !.pending = 1]
    BY <1>3 DEF ReadyClaim
  <2> QED BY <1>1, <2>1, <2>2, WtFields, CqFields
<1>4. ASSUME ReadyWrite(t)
      PROVE  /\ WtTo(t, "after", u.got, u.armed, u.late)
             /\ CqTo(cq.open, cq.refs, cq.submit, cq.list, cq.count, cq.need, cq.buffered,
                     cq.pending, cq.efd + 1)
  BY <1>1, <1>4, WtFields, CqFields DEF ReadyWrite
<1>5. ASSUME After(t)
      PROVE  \/ Leave(t)
             \/ WtTo(t, "pop", u.got, u.armed, u.late) /\ mtx' = mtx /\ cq' = cq
  <2>1. Leave(t) \/ (wt' = [wt EXCEPT ![t].pc = "pop", ![t].poll = "none"] /\ mtx' = mtx /\ cq' = cq)
    BY <1>5 DEF After
  <2> QED BY <1>1, <2>1, WtFields
<1>6. NotifyReady(t) => cq' = cq
  BY DEF NotifyReady
<1> QED BY <1>2, <1>3, <1>4, <1>5, <1>6

(* A step of a waiter that takes no completion, and a store that becomes    *)
(* visible, leave the requests alone.                                       *)
LEMMA WaitKeeps ==
  ASSUME Sized, Requests, \A u \in Waiters : WaiterOk(u, wt[u]), NEW t \in Waiters,
         \/ Call(t) \/ Expire(t) \/ Finish(t) \/ Arm(t) \/ Recheck(t) \/ Unlock(t) \/ Poll(t)
         \/ Relock(t) \/ DrainClear(t) \/ Disarm(t) \/ NotifyReady(t) \/ ReadyClaim(t)
         \/ ReadyWrite(t) \/ After(t)
  PROVE  Requests'
<1> DEFINE u == wt[t]
<1>1. Types /\ cq \in CqRecs /\ UNCHANGED <<req, wk, cl>>
  BY CqIs DEF Requests, Call, Expire, Finish, Arm, Recheck, Unlock, Poll, Relock, DrainClear,
                     Disarm, NotifyReady, ReadyClaim, ReadyWrite, After
<1>2. /\ "pop" \in Inside /\ "recheck" \in Inside /\ "unlock" \in Inside /\ "clear" \in Inside
      /\ "remove" \in Inside /\ "renotify" \in Inside /\ "claim" \in Inside /\ "write" \in Inside
      /\ "after" \in Inside /\ "poll" \notin Inside /\ "relock" \notin Inside
      /\ "out" \notin Inside
  BY DEF Inside
<1>3. ASSUME NEW p, NEW a, NEW l, WtTo(t, p, u.got, a, l),
             cq' \in CqRecs, cq'.open = cq.open, cq'.submit = cq.submit, cq'.list = cq.list,
             \/ mtx' = mtx /\ (p \in Inside => u.pc \in Inside)
             \/ mtx = "free" /\ mtx' = t
             \/ u.pc \in Inside /\ mtx' = "free" /\ p \notin Inside
      PROVE  Requests'
  BY <1>1, <1>3, WaiterKeeps
<1>4. CASE Call(t) \/ Expire(t)
  <2>1. /\ cq' \in CqRecs /\ cq'.open = cq.open /\ cq'.submit = cq.submit /\ cq'.list = cq.list
    BY <1>1, <1>4, CallIs DEF CqTo
  <2> QED BY <1>1, <1>2, <1>3, <1>4, <2>1, CallIs
<1>5. CASE Leave(t) /\ u.pc \in Inside
  <2>1. /\ cq' \in CqRecs /\ cq'.open = cq.open /\ cq'.submit = cq.submit /\ cq'.list = cq.list
        /\ WtTo(t, "out", u.got, FALSE, FALSE) /\ mtx' = "free"
    BY <1>1, <1>5, LeaveIs DEF CqTo, Leave
  <2> QED BY <1>2, <1>3, <1>5, <2>1
<1>6. CASE Finish(t)
  <2>1. Leave(t) /\ u.pc = "pop"
    BY <1>6 DEF Finish, PopEnds
  <2> QED BY <1>2, <1>5, <2>1
<1>7. CASE Arm(t)
  <2>1. u.pc = "pop" /\ mtx' = mtx
    BY <1>7 DEF Arm, PopEnds
  <2>2. /\ cq' \in CqRecs /\ cq'.open = cq.open /\ cq'.submit = cq.submit /\ cq'.list = cq.list
        /\ WtTo(t, "recheck", u.got, TRUE, u.late)
    BY <1>1, <1>7, WaitIs DEF CqTo
  <2> QED BY <1>2, <1>3, <2>1, <2>2
<1>8. CASE Recheck(t)
  <2>1. u.pc = "recheck" /\ mtx' = mtx
    BY <1>8 DEF Recheck
  <2>2. /\ cq' \in CqRecs /\ cq'.open = cq.open /\ cq'.submit = cq.submit /\ cq'.list = cq.list
        /\ \/ WtTo(t, "pop", u.got, FALSE, u.late)
           \/ WtTo(t, "unlock", u.got, u.armed, cq.buffered # NoStore)
    BY <1>1, <1>8, WaitIs DEF CqTo
  <2> QED BY <1>2, <1>3, <2>1, <2>2
<1>9. CASE Unlock(t)
  <2>1. u.pc = "unlock" /\ mtx' = "free"
    BY <1>9 DEF Unlock
  <2>2. cq' = cq /\ WtTo(t, "poll", u.got, u.armed, u.late)
    BY <1>1, <1>9, WaitIs
  <2> QED BY <1>1, <1>2, <1>3, <2>1, <2>2
<1>10. CASE Poll(t)
  <2>1. mtx' = mtx
    BY <1>10 DEF Poll
  <2>2. cq' = cq /\ WtTo(t, "relock", u.got, u.armed, u.late)
    BY <1>1, <1>10, WaitIs
  <2> QED BY <1>1, <1>2, <1>3, <2>1, <2>2
<1>11. CASE Relock(t)
  <2>1. mtx = "free" /\ mtx' = t
    BY <1>11 DEF Relock
  <2>2. /\ cq' \in CqRecs /\ cq'.open = cq.open /\ cq'.submit = cq.submit /\ cq'.list = cq.list
        /\ WtTo(t, "clear", u.got, u.armed, u.late) \/ WtTo(t, "remove", u.got, u.armed, u.late)
    BY <1>1, <1>11, WaitIs DEF CqTo
  <2> QED BY <1>3, <2>1, <2>2
<1>12. CASE DrainClear(t)
  <2>1. u.pc = "clear" /\ mtx' = mtx
    BY <1>12 DEF DrainClear
  <2>2. /\ cq' \in CqRecs /\ cq'.open = cq.open /\ cq'.submit = cq.submit /\ cq'.list = cq.list
        /\ WtTo(t, "remove", u.got, u.armed, u.late)
    BY <1>1, <1>12, WaitIs DEF CqTo
  <2> QED BY <1>2, <1>3, <2>1, <2>2
<1>13. CASE Disarm(t)
  <2>1. u.pc = "remove" /\ mtx' = mtx
    BY <1>13 DEF Disarm
  <2>2. /\ cq' \in CqRecs /\ cq'.open = cq.open /\ cq'.submit = cq.submit /\ cq'.list = cq.list
        /\ WtTo(t, "renotify", u.got, FALSE, FALSE)
    BY <1>1, <1>13, WaitIs DEF CqTo
  <2> QED BY <1>2, <1>3, <2>1, <2>2
<1>14. CASE NotifyReady(t) \/ ReadyClaim(t) \/ ReadyWrite(t)
  <2>1. u.pc \in Inside /\ mtx' = mtx
    BY <1>2, <1>14 DEF NotifyReady, ReadyClaim, ReadyWrite
  <2>2. /\ cq' \in CqRecs /\ cq'.open = cq.open /\ cq'.submit = cq.submit /\ cq'.list = cq.list
        /\ \/ WtTo(t, "claim", u.got, u.armed, u.late)
           \/ WtTo(t, "write", u.got, u.armed, u.late)
           \/ WtTo(t, "after", u.got, u.armed, u.late)
    BY <1>1, <1>14, ReadyIs DEF CqTo
  <2> QED BY <1>2, <1>3, <2>1, <2>2
<1>15. CASE After(t)
  <2>1. u.pc = "after" /\ u.pc \in Inside
    BY <1>2, <1>15 DEF After
  <2>2. \/ Leave(t)
        \/ WtTo(t, "pop", u.got, u.armed, u.late) /\ mtx' = mtx /\ cq' = cq
    BY <1>1, <1>15, ReadyIs
  <2> QED BY <1>1, <1>2, <1>3, <1>5, <2>1, <2>2
<1> QED BY <1>4, <1>6, <1>7, <1>8, <1>9, <1>10, <1>11, <1>12, <1>13, <1>14, <1>15

(* The store of wait_need becomes visible. *)
LEMMA FlushIs ==
  ASSUME Sized, Types, Flush
  PROVE  CqTo(cq.open, cq.refs, cq.submit, cq.list, cq.count, cq.buffered, NoStore, cq.pending, cq.efd)
<1>1. UINT_MAX \in Nat /\ NoStore = UINT_MAX + 1 /\ NoStore \in 1..NoStore
  BY NumbersAre
<1>2. cq.buffered \in 1..UINT_MAX
  BY <1>1, CqIs, SMT DEF Flush
<1>3. cq' = [cq EXCEPT !.need = cq.buffered, !.buffered = NoStore]
  BY DEF Flush
<1> QED BY <1>1, <1>2, <1>3, CqFields

(* The requests are not concerned. *)
LEMMA FlushKeeps ==
  ASSUME Sized, Requests, Flush
  PROVE  Requests'
<1>1. Types /\ UNCHANGED <<mtx, req, wk, wt, cl>>
  BY DEF Requests, Flush
<1>2. cq' \in CqRecs /\ cq'.open = cq.open /\ cq'.submit = cq.submit /\ cq'.list = cq.list
  BY <1>1, FlushIs DEF CqTo
<1>3. Walks' /\ InPlace' /\ Swept'
  BY <1>1, PlacesKept
<1>4. \A s : Completing(s)' <=> Completing(s)
  BY <1>1 DEF Completing
<1>5. Owned'
  BY <1>1, <1>2, <1>4, SameOwners
<1>6. cq'.submit \subseteq cq.submit /\ wk' \in [Workers -> WkRecs] /\ req' \in [Reqs -> ReqRecs]
  BY <1>1, <1>2 DEF Types
<1> QED BY <1>1, <1>2, <1>3, <1>5, <1>6, WorkSound

-----------------------------------------------------------------------------
(* The counters. *)

(* What is counted does not change. *)
LEMMA CountsSame ==
  ASSUME Counts, cq'.list = cq.list, cq'.count = cq.count, cq'.refs = cq.refs,
         \A w \in Workers : wk'[w].pc = "push" <=> wk[w].pc = "push",
         \A t \in Waiters : wt'[t].pc \in {"call", "out"} <=> wt[t].pc \in {"call", "out"},
         cl'.pc = "closed" <=> cl.pc = "closed"
  PROVE  Counts'
<1>1. Pushers' = Pushers
  BY DEF Pushers
<1>2. Inmates' = Inmates
  BY DEF Inmates
<1> QED BY <1>1, <1>2 DEF Counts

(* The counters are natural numbers. *)
LEMMA CountIs ==
  ASSUME Sized, Types, Counts
  PROVE  /\ Cardinality(Pushers) \in Nat /\ Len(cq.list) \in Nat /\ Cardinality(Inmates) \in Nat
         /\ cq.count \in Nat /\ cq.refs \in Nat
<1>1. Pushers \in SUBSET Workers /\ Inmates \in SUBSET Waiters
  BY DEF Pushers, Inmates
<1>2. Cardinality(Pushers) \in Nat /\ Cardinality(Inmates) \in Nat
  BY <1>1 DEF Sized
<1>3. Len(cq.list) \in Nat
  BY CqIs, SMT
<1> QED BY <1>2, <1>3, SMT DEF Counts

(* A worker that counts or has pushed, and a waiter that comes or goes. *)
LEMMA OneMore ==
  ASSUME Sized
  PROVE  /\ \A w \in Workers \ Pushers : Cardinality(Pushers \cup {w}) = Cardinality(Pushers) + 1
         /\ \A w \in Pushers : Cardinality(Pushers \ {w}) = Cardinality(Pushers) - 1
         /\ \A t \in Waiters \ Inmates : Cardinality(Inmates \cup {t}) = Cardinality(Inmates) + 1
         /\ \A t \in Inmates : Cardinality(Inmates \ {t}) = Cardinality(Inmates) - 1
<1>1. Pushers \in SUBSET Workers /\ Inmates \in SUBSET Waiters
  BY DEF Pushers, Inmates
<1>2. Workers \in {Workers, Waiters} /\ Waiters \in {Workers, Waiters}
  OBVIOUS
<1> QED BY <1>1, <1>2 DEF Sized

(* Workers that take, move, cancel or complete a request, a submit and a    *)
(* visit of the close publish nothing and wake nobody.                      *)
LEMMA QuietIs ==
  ASSUME Requests,
         \/ \E r \in Reqs : Submit(r)
         \/ \E w \in Workers : \/ Take(w) \/ MigratePush(w) \/ CancelNext(w) \/ CancelEnd(w)
                               \/ NotifyDone(w) \/ \E r \in Reqs : Resume(w, r)
         \/ CloseVisit
  PROVE  Quiet
<1>1. Types
  BY DEF Requests
<1>2. /\ "idle" \in Early /\ "migrate" \in Early /\ "cancel" \in Early /\ "notify" \in Early
      /\ "count" \in Early
  BY DEF Early
<1>3. ASSUME NEW w \in Workers, NEW i, NEW p, NEW c, NEW t, WkTo(w, i, p, c, wk[w].queued, t),
             \/ p = wk[w].pc
             \/ p \in Early /\ wk[w].pc \in Early
      PROVE  Quiet
  BY <1>3 DEF WkTo, Quiet
<1>4. ASSUME NEW w \in Workers, NEW r \in Reqs, NEW i \in Seq(Reqs \cup {Cancel}), wk[w].pc = "idle",
             Process(w, r, [wk EXCEPT ![w] = [wk[w] EXCEPT !.inbox = i]])
      PROVE  Quiet
  BY <1>1, <1>2, <1>3, <1>4, ProcessIs
<1>5. ASSUME NEW w \in Workers, NEW n \in WkRecs, wk' = [wk EXCEPT ![w] = n],
             \/ n.pc = wk[w].pc /\ n.queued = wk[w].queued
             \/ n.pc \in Early /\ wk[w].pc \in Early
      PROVE  Quiet
  <2>1. WkTo(w, n.inbox, n.pc, n.cur, n.queued, n.todo)
    BY <1>1, <1>5, WkSet
  <2> QED BY <1>5, <2>1 DEF WkTo, Quiet
<1>6. \A w \in Workers : wk \in [Workers -> WkRecs] /\ wk[w] \in WkRecs
  BY <1>1, WkIs
<1>7. ASSUME NEW r \in Reqs, Submit(r) PROVE Quiet
  BY <1>1, <1>3, <1>7, SubmitIs
<1>8. ASSUME NEW w \in Workers, TakeRequest(w) PROVE Quiet
  <2> DEFINE q == wk[w].inbox
  <2>1. PICK r \in Reqs : r = Head(q)
    BY <1>8 DEF TakeRequest
  <2>2. wk[w].pc = "idle" /\ q \in Seq(Reqs \cup {Cancel}) /\ Tail(q) \in Seq(Reqs \cup {Cancel})
    <3>1. q \in Seq(Reqs \cup {Cancel}) /\ q # <<>> /\ wk[w].pc = "idle"
      BY <1>1, <1>8, WkIs DEF TakeRequest
    <3> QED BY <3>1, TailIs
  <2>3. CASE ~ req[r].done
    <3>1. Process(w, r, [wk EXCEPT ![w] = [wk[w] EXCEPT !.inbox = Tail(q)]])
      BY <1>8, <2>1, <2>3 DEF TakeRequest
    <3> HIDE DEF q
    <3> QED BY <1>4, <2>2, <3>1
  <2>4. CASE req[r].done
    <3> DEFINE n == [wk[w] EXCEPT !.inbox = Tail(q)]
    <3>1. wk' = [wk EXCEPT ![w] = n]
      BY <1>8, <2>1, <2>4 DEF TakeRequest
    <3>2. n \in WkRecs /\ n.pc = wk[w].pc /\ n.queued = wk[w].queued
      BY <1>6, <2>2 DEF WkRecs
    <3> HIDE DEF n, q
    <3> QED BY <1>5, <3>1, <3>2
  <2> QED BY <2>3, <2>4
<1>9. ASSUME NEW w \in Workers, NEW r \in Reqs, Resume(w, r) PROVE Quiet
  <2>1. wk[w].inbox \in Seq(Reqs \cup {Cancel}) /\ wk[w].pc = "idle"
    BY <1>1, <1>9, WkIs DEF Resume
  <2>2. wk = [wk EXCEPT ![w] = [wk[w] EXCEPT !.inbox = wk[w].inbox]]
    BY <1>6 DEF WkRecs
  <2>3. Process(w, r, [wk EXCEPT ![w] = [wk[w] EXCEPT !.inbox = wk[w].inbox]])
    BY <1>9, <2>2 DEF Resume
  <2> QED BY <1>4, <2>1, <2>3
<1>10. ASSUME NEW w \in Workers, TakeCancel(w) PROVE Quiet
  <2>1. \A v \in Workers : \/ wk'[v] = wk[v]
                           \/ v = w /\ wk'[v].pc = "cancel" /\ wk[v].pc = "idle"
    BY <1>6, <1>10 DEF TakeCancel, WkRecs
  <2> QED BY <1>2, <2>1 DEF Quiet
<1>11. ASSUME NEW w \in Workers, CancelNext(w) PROVE Quiet
  <2>1. wk[w].pc = "cancel"
        /\ \E r : \/ wk' = [wk EXCEPT ![w].todo = @ \ {r}, ![w].pc = "notify", ![w].cur = r]
                 \/ wk' = [wk EXCEPT ![w].todo = @ \ {r}]
    BY <1>11 DEF CancelNext
  <2>2. PICK r : \/ wk' = [wk EXCEPT ![w].todo = @ \ {r}, ![w].pc = "notify", ![w].cur = r]
                 \/ wk' = [wk EXCEPT ![w].todo = @ \ {r}]
    BY <2>1
  <2>3. CASE wk' = [wk EXCEPT ![w].todo = @ \ {r}, ![w].pc = "notify", ![w].cur = r]
    <3>1. \A v \in Workers : wk'[v] = wk[v] \/ (v = w /\ wk'[v].pc = "notify")
      BY <1>6, <2>3 DEF WkRecs
    <3> QED BY <1>2, <2>1, <3>1 DEF Quiet
  <2>4. CASE wk' = [wk EXCEPT ![w].todo = @ \ {r}]
    <3>1. \A v \in Workers : wk'[v].pc = wk[v].pc /\ wk'[v].queued = wk[v].queued
      BY <1>6, <2>4 DEF WkRecs
    <3> QED BY <3>1 DEF Quiet
  <2> QED BY <2>2, <2>3, <2>4
<1>12. ASSUME NEW w \in Workers, CancelEnd(w) PROVE Quiet
  <2>1. \A v \in Workers : \/ wk'[v] = wk[v]
                           \/ v = w /\ wk'[v].pc = "idle" /\ wk[v].pc = "cancel"
    BY <1>6, <1>12 DEF CancelEnd, WkRecs
  <2> QED BY <1>2, <2>1 DEF Quiet
<1>13. ASSUME NEW w \in Workers, NotifyDone(w) PROVE Quiet
  <2>1. wk[w].pc = "notify" /\ (wk' = Notified(w) \/ wk' = [wk EXCEPT ![w].pc = "count"])
    BY <1>13 DEF NotifyDone
  <2>2. CASE wk' = [wk EXCEPT ![w].pc = "count"]
    <3>1. \A v \in Workers : wk'[v] = wk[v] \/ (v = w /\ wk'[v].pc = "count")
      BY <1>6, <2>2 DEF WkRecs
    <3> QED BY <1>2, <2>1, <3>1 DEF Quiet
  <2>3. CASE wk' = Notified(w)
    <3>1. \A v \in Workers : wk'[v] = wk[v] \/ (v = w /\ (wk'[v].pc = "idle" \/ wk'[v].pc = "cancel"))
      BY <1>6, <2>3 DEF WkRecs, Notified
    <3> QED BY <1>2, <2>1, <3>1 DEF Quiet
  <2> QED BY <2>1, <2>2, <2>3
<1>14. ASSUME CloseVisit PROVE Quiet
  <2>1. \A v \in Workers : wk'[v].pc = wk[v].pc /\ wk'[v].queued = wk[v].queued
    BY <1>6, <1>14 DEF CloseVisit, WkRecs
  <2> QED BY <2>1 DEF Quiet
<1>15. ASSUME NEW w \in Workers, MigratePush(w) PROVE Quiet
  <2>1. wk[w].pc = "migrate"
    BY <1>15 DEF MigratePush
  <2>2. PICK h : h = req[wk[w].cur].worker
    OBVIOUS
  <2>3. wk' = [wk EXCEPT ![w].pc = "idle", ![w].cur = Cancel, ![h].inbox = Append(@, wk[w].cur)]
    BY <1>15, <2>2 DEF MigratePush
  <2>4. \A v \in Workers : \/ wk'[v].pc = wk[v].pc /\ wk'[v].queued = wk[v].queued
                           \/ v = w /\ wk'[v].pc = "idle"
    BY <1>6, <2>3 DEF WkRecs
  <2> QED BY <1>2, <2>1, <2>4 DEF Quiet
<1> QED BY <1>7, <1>8, <1>9, <1>10, <1>11, <1>12, <1>13, <1>14, <1>15 DEF Take

(* A quiet step publishes nothing and lets nobody in or out. *)
LEMMA QuietCounts ==
  ASSUME Counts, Quiet, UNCHANGED wt, cq'.list = cq.list, cq'.count = cq.count, cq'.refs = cq.refs,
         cl'.pc = "closed" <=> cl.pc = "closed"
  PROVE  Counts'
<1>1. "push" \notin Early
  BY DEF Early
<1>2. \A w \in Workers : wk'[w].pc = "push" <=> wk[w].pc = "push"
  BY <1>1 DEF Quiet
<1> QED BY <1>2, CountsSame

(* A completion is counted, published, and taken. *)
LEMMA NotifyCounts ==
  ASSUME Sized, Requests, Counts, NEW w \in Workers,
         NotifyCount(w) \/ NotifyPush(w) \/ NotifyNeed(w) \/ NotifyClaim(w) \/ NotifyWrite(w)
  PROVE  Counts'
<1>1. /\ Types /\ cq.count \in Nat /\ cq.list \in Seq(Reqs) /\ Cardinality(Pushers) \in Nat
      /\ UNCHANGED <<wt, cl>> /\ Len(cq.list) \in Nat
  BY CountIs, CqIs DEF Requests, NotifyCount, NotifyPush, NotifyNeed, NotifyClaim, NotifyWrite
<1>2. Inmates' = Inmates
  BY <1>1 DEF Inmates
<1>3. CASE NotifyCount(w)
  <2>1. /\ wk[w].pc = "count" /\ WkTo(w, wk[w].inbox, "push", wk[w].cur, cq.count + 1, wk[w].todo)
        /\ cq'.list = cq.list /\ cq'.count = cq.count + 1 /\ cq'.refs = cq.refs
    <3>1. wk[w].pc = "count"
      BY <1>3 DEF NotifyCount
    <3> QED BY <1>1, <1>3, <3>1, NotifyIs DEF CqTo
  <2>2. Pushers' = Pushers \cup {w} /\ w \notin Pushers
    BY <2>1 DEF Pushers, WkTo
  <2>3. Cardinality(Pushers') = Cardinality(Pushers) + 1
    BY <2>2, OneMore
  <2>4. cq'.count = Len(cq'.list) + Cardinality(Pushers')
    BY <1>1, <2>1, <2>3, SMT DEF Counts
  <2> QED BY <1>1, <1>2, <2>1, <2>4 DEF Counts
<1>4. CASE NotifyPush(w)
  <2>1. wk[w].pc = "push" /\ WalkOk(w, wk[w])
    BY <1>4 DEF NotifyPush, Requests, Walks
  <2>2. PICK r \in Reqs : wk[w].cur = r
    BY <2>1 DEF WalkOk, Notifying
  <2>3. /\ WkTo(w, wk[w].inbox, "need", r, wk[w].queued, wk[w].todo)
        /\ cq'.list = Append(cq.list, r) /\ cq'.count = cq.count /\ cq'.refs = cq.refs
    BY <1>1, <1>4, <2>2, NotifyIs DEF CqTo
  <2>4. r \notin Range(cq.list)
    <3>1. Completing(r) /\ OwnedAt(r)
      BY <2>1, <2>2 DEF Completing, Requests, Owned
    <3> QED BY <3>1 DEF OwnedAt, OnceOk
  <2>5. IsInjective(Append(cq.list, r))
    BY <1>1, <2>4, AppendIs DEF Counts
  <2>6. Pushers' = Pushers \ {w} /\ w \in Pushers
    BY <2>1, <2>3 DEF Pushers, WkTo
  <2>7. Cardinality(Pushers') = Cardinality(Pushers) - 1
    BY <2>6, OneMore
  <2>8. Len(Append(cq.list, r)) = Len(cq.list) + 1
    BY <1>1, SMT
  <2>9. cq'.count = Len(cq'.list) + Cardinality(Pushers')
    BY <1>1, <2>3, <2>7, <2>8, SMT DEF Counts
  <2> QED BY <1>1, <1>2, <2>3, <2>5, <2>9 DEF Counts
<1>5. CASE NotifyNeed(w) \/ NotifyClaim(w) \/ NotifyWrite(w)
  <2>1. wk[w].pc # "push"
    BY <1>5 DEF NotifyNeed, NotifyClaim, NotifyWrite
  <2>2. /\ cq'.list = cq.list /\ cq'.count = cq.count /\ cq'.refs = cq.refs
        /\ \/ WkTo(w, wk[w].inbox, "claim", wk[w].cur, wk[w].queued, wk[w].todo)
           \/ WkTo(w, wk[w].inbox, "write", wk[w].cur, wk[w].queued, wk[w].todo)
           \/ Returns(w)
    BY <1>1, <1>5, NotifyIs DEF CqTo
  <2>3. \A v \in Workers : wk'[v].pc = "push" <=> wk[v].pc = "push"
    <3>1. wk'[w].pc # "push" /\ \A v \in Workers : v # w => wk'[v] = wk[v]
      BY <2>2 DEF WkTo, Returns
    <3> QED BY <2>1, <3>1
  <2>4. /\ \A t \in Waiters : wt'[t].pc \in {"call", "out"} <=> wt[t].pc \in {"call", "out"}
        /\ cl'.pc = "closed" <=> cl.pc = "closed"
    BY <1>1
  <2> QED BY <2>2, <2>3, <2>4, CountsSame
<1> QED BY <1>3, <1>4, <1>5

(* async_cq_pop() *)
LEMMA PopCounts ==
  ASSUME Sized, Types, Counts, cq.list # <<>>, cq' = CqPop, UNCHANGED <<wk, cl>>,
         \A t \in Waiters : wt'[t].pc = wt[t].pc
  PROVE  Counts'
<1>1. /\ cq.list \in Seq(Reqs) /\ Cardinality(Pushers) \in Nat /\ Len(cq.list) \in Nat
      /\ cq.count \in Nat
  BY CountIs, CqIs
<1>2. cq'.list = Tail(cq.list) /\ cq'.count = cq.count - 1 /\ cq'.refs = cq.refs
  BY PopIs DEF CqTo
<1>3. IsInjective(Tail(cq.list))
  BY <1>1, TailIs DEF Counts
<1>4. Len(Tail(cq.list)) = Len(cq.list) - 1
  BY <1>1, SMT
<1>5. Pushers' = Pushers /\ Inmates' = Inmates
  BY DEF Pushers, Inmates
<1>6. cq'.count = Len(cq'.list) + Cardinality(Pushers')
  BY <1>1, <1>2, <1>4, <1>5, SMT DEF Counts
<1> QED BY <1>2, <1>3, <1>5, <1>6 DEF Counts

(* async_wait() takes a reference and gives it back. *)
LEMMA WaitCounts ==
  ASSUME Sized, Types, Counts, \A u \in Waiters : WaiterOk(u, wt[u]), NEW t \in Waiters,
         \/ Call(t) \/ Expire(t) \/ Finish(t) \/ Arm(t) \/ Recheck(t) \/ Unlock(t) \/ Poll(t)
         \/ Relock(t) \/ DrainClear(t) \/ Disarm(t) \/ NotifyReady(t) \/ ReadyClaim(t)
         \/ ReadyWrite(t) \/ After(t)
  PROVE  Counts'
<1> DEFINE u == wt[t]
<1>1. /\ UNCHANGED <<req, wk, cl>> /\ Cardinality(Inmates) \in Nat
      /\ cq.refs \in Nat
  BY CountIs DEF Call, Expire, Finish, Arm, Recheck, Unlock, Poll, Relock, DrainClear,
                     Disarm, NotifyReady, ReadyClaim, ReadyWrite, After
<1>2. Pushers' = Pushers
  BY <1>1 DEF Pushers
<1>3. ASSUME NEW p, NEW a, NEW l, WtTo(t, p, u.got, a, l), cq'.list = cq.list, cq'.count = cq.count,
             cq'.refs = cq.refs, p \in {"call", "out"} <=> u.pc \in {"call", "out"}
      PROVE  Counts'
  <2>1. \A x \in Waiters : wt'[x].pc \in {"call", "out"} <=> wt[x].pc \in {"call", "out"}
    BY <1>3 DEF WtTo
  <2>2. /\ \A w \in Workers : wk'[w].pc = "push" <=> wk[w].pc = "push"
        /\ cl'.pc = "closed" <=> cl.pc = "closed"
    BY <1>1
  <2> QED BY <1>3, <2>1, <2>2, CountsSame
<1>4. /\ \A p \in Inside \cup {"poll", "relock"} : p \notin {"call", "out"}
      /\ "pop" \in Inside /\ "recheck" \in Inside /\ "unlock" \in Inside /\ "clear" \in Inside
      /\ "remove" \in Inside /\ "renotify" \in Inside /\ "claim" \in Inside /\ "write" \in Inside
      /\ "after" \in Inside /\ "call" \in {"call", "out"} /\ "out" \in {"call", "out"}
  BY DEF Inside
<1>5. CASE Call(t) /\ cq.open
  <2>1. /\ WtTo(t, "pop", u.got, u.armed, u.late) /\ u.pc = "call" /\ cq'.refs = cq.refs + 1
        /\ cq'.list = cq.list /\ cq'.count = cq.count
    <3>1. u.pc = "call" /\ wt' = [wt EXCEPT ![t].pc = "pop"] /\ cq' = [cq EXCEPT !.refs = cq.refs + 1]
      BY <1>5 DEF Call
    <3>2. "pop" \in Stages /\ cq.refs + 1 \in Int
      BY <1>1, SMT DEF Stages
    <3> QED BY <3>1, <3>2, WtFields, CqFields DEF CqTo
  <2>2. Inmates' = Inmates \cup {t} /\ t \notin Inmates
    BY <2>1 DEF Inmates, WtTo
  <2>3. Cardinality(Inmates') = Cardinality(Inmates) + 1
    BY <2>2, OneMore
  <2>4. cq'.refs = (IF cl'.pc = "closed" THEN 0 ELSE 1) + Cardinality(Inmates')
    BY <1>1, <2>1, <2>3, SMT DEF Counts
  <2> QED BY <1>2, <2>1, <2>4 DEF Counts
<1>6. CASE Leave(t) /\ u.pc \in Inside
  <2>1. /\ WtTo(t, "out", u.got, FALSE, FALSE) /\ cq'.refs = cq.refs - 1
        /\ cq'.list = cq.list /\ cq'.count = cq.count
    BY <1>6, LeaveIs DEF CqTo
  <2>2. Inmates' = Inmates \ {t} /\ t \in Inmates
    BY <1>4, <1>6, <2>1 DEF Inmates, WtTo
  <2>3. Cardinality(Inmates') = Cardinality(Inmates) - 1
    BY <2>2, OneMore
  <2>4. cq'.refs = (IF cl'.pc = "closed" THEN 0 ELSE 1) + Cardinality(Inmates')
    BY <1>1, <2>1, <2>3, SMT DEF Counts
  <2> QED BY <1>2, <2>1, <2>4 DEF Counts
<1>7. CASE (Call(t) /\ ~ cq.open) \/ Expire(t)
  <2>1. \/ WtTo(t, "out", u.got, u.armed, u.late) /\ u.pc = "call" /\ cq' = cq
        \/ WtTo(t, u.pc, u.got, u.armed, u.late) /\ cq' = cq
    <3>1. CASE Call(t) /\ ~ cq.open
      BY <3>1, CallIs
    <3>2. CASE Expire(t)
      BY <3>2, WtFields DEF Expire
    <3> QED BY <1>7, <3>1, <3>2
  <2> QED BY <1>3, <1>4, <2>1
<1>8. ASSUME NEW p \in Inside \cup {"poll", "relock"}, NEW a, NEW l, WtTo(t, p, u.got, a, l),
             cq'.list = cq.list, cq'.count = cq.count, cq'.refs = cq.refs,
             u.pc \in Inside \cup {"poll", "relock"}
      PROVE  Counts'
  BY <1>3, <1>4, <1>8
<1>9. CASE Finish(t) \/ After(t)
  <2>2. u.pc \in Inside
    BY <1>4, <1>9 DEF Finish, PopEnds, After
  <2>3. Leave(t) \/ (WtTo(t, "pop", u.got, u.armed, u.late) /\ cq' = cq)
    BY <1>9, ReadyIs DEF Finish
  <2> QED BY <1>4, <1>6, <1>8, <2>2, <2>3
<1>10. CASE \/ Arm(t) \/ Recheck(t) \/ Unlock(t) \/ Poll(t) \/ Relock(t) \/ DrainClear(t) \/ Disarm(t)
  <2>1. u.pc \in Inside \cup {"poll", "relock"}
    BY <1>4, <1>10 DEF Arm, PopEnds, Recheck, Unlock, Poll, Relock, DrainClear, Disarm
  <2>2. cq'.list = cq.list /\ cq'.count = cq.count /\ cq'.refs = cq.refs
    BY <1>10, WaitIs DEF CqTo
  <2>3. \/ WtTo(t, "recheck", u.got, TRUE, u.late) \/ WtTo(t, "pop", u.got, FALSE, u.late)
        \/ WtTo(t, "unlock", u.got, u.armed, cq.buffered # NoStore)
        \/ WtTo(t, "poll", u.got, u.armed, u.late) \/ WtTo(t, "relock", u.got, u.armed, u.late)
        \/ WtTo(t, "clear", u.got, u.armed, u.late) \/ WtTo(t, "remove", u.got, u.armed, u.late)
        \/ WtTo(t, "renotify", u.got, FALSE, FALSE)
    BY <1>10, WaitIs
  <2> QED BY <1>4, <1>8, <2>1, <2>2, <2>3
<1>11. CASE NotifyReady(t) \/ ReadyClaim(t) \/ ReadyWrite(t)
  <2>1. u.pc \in Inside \cup {"poll", "relock"}
    BY <1>4, <1>11 DEF NotifyReady, ReadyClaim, ReadyWrite
  <2>2. cq'.list = cq.list /\ cq'.count = cq.count /\ cq'.refs = cq.refs
    BY <1>11, ReadyIs DEF CqTo
  <2>3. \/ WtTo(t, "claim", u.got, u.armed, u.late) \/ WtTo(t, "write", u.got, u.armed, u.late)
        \/ WtTo(t, "after", u.got, u.armed, u.late)
    BY <1>11, ReadyIs
  <2> QED BY <1>4, <1>8, <2>1, <2>2, <2>3
<1> QED BY <1>5, <1>7, <1>9, <1>10, <1>11

(* The close gives its reference back. *)
LEMMA CloseCounts ==
  ASSUME Sized, Types, Counts,
         CloseBegin \/ CloseClaim \/ CloseWrite \/ CloseCheck \/ CloseFreeEnd \/ CloseDestroy
  PROVE  Counts'
<1>1. /\ UNCHANGED <<wk, wt>> /\ cq.efd + 1 \in Nat /\ cq.refs - 1 \in Int /\ 1 \in {0, 1}
      /\ cq.refs \in Nat /\ Cardinality(Inmates) \in Nat
  <2>1. cq.efd \in Nat /\ cq.refs \in Nat /\ Cardinality(Inmates) \in Nat /\ UNCHANGED <<wk, wt>>
    BY CqIs, CountIs DEF CloseBegin, CloseClaim, CloseWrite, CloseCheck, CloseFreeEnd, CloseDestroy
  <2> QED BY <2>1, SMT
<1>2. /\ {"claim", "write", "visit", "free", "assert", "closed"} \subseteq Phases
  BY DEF Phases
<1>3. Quiet
  BY <1>1 DEF Quiet
<1>4. CASE CloseBegin \/ CloseClaim \/ CloseWrite
  <2>1. cq'.list = cq.list /\ cq'.count = cq.count /\ cq'.refs = cq.refs
    BY <1>1, <1>4, CqFields DEF CqTo, CloseBegin, CloseClaim, CloseWrite
  <2>2. cl.pc # "closed" /\ cl'.pc # "closed"
    <3>1. cl \in ClRecs
      BY ClIs
    <3> QED BY <1>4, <3>1 DEF CloseBegin, CloseClaim, CloseWrite, ClRecs
  <2> QED BY <1>1, <1>3, <2>1, <2>2, QuietCounts
<1>5. CASE CloseCheck \/ CloseFreeEnd
  <2>1. cq' = cq
    BY <1>5 DEF CloseCheck, CloseFreeEnd
  <2>2. cl.pc # "closed" /\ cl'.pc # "closed"
    <3>1. cl \in ClRecs
      BY ClIs
    <3> QED BY <1>5, <3>1, SMT DEF CloseCheck, CloseFreeEnd, ClRecs
  <2> QED BY <1>1, <1>3, <2>1, <2>2, QuietCounts
<1>6. CASE CloseDestroy
  <2>1. cq'.list = cq.list /\ cq'.count = cq.count /\ cq'.refs = cq.refs - 1
    BY <1>1, <1>6, CqFields DEF CqTo, CloseDestroy
  <2>2. cl.pc = "assert" /\ cl'.pc = "closed"
    <3>1. cl \in ClRecs
      BY ClIs
    <3> QED BY <1>6, <3>1 DEF CloseDestroy, ClRecs
  <2>3. Pushers' = Pushers /\ Inmates' = Inmates
    BY <1>1 DEF Pushers, Inmates
  <2>4. cq'.refs = (IF cl'.pc = "closed" THEN 0 ELSE 1) + Cardinality(Inmates')
    BY <1>1, <2>1, <2>2, <2>3, SMT DEF Counts
  <2> QED BY <2>1, <2>3, <2>4 DEF Counts
<1> QED BY <1>4, <1>5, <1>6

-----------------------------------------------------------------------------
(* Nobody is stranded in poll(). *)

(* The waiters' part does not change, and everyone who was going to wake    *)
(* somebody still is.                                                       *)
LEMMA QuietWaits ==
  ASSUME Sized, Types, Waits, Quiet, UNCHANGED wt, cq'.need = cq.need, cq'.buffered = cq.buffered,
         cq'.pending = cq.pending, cq'.efd = cq.efd, cq'.count \in Int, cq'.count <= cq.count,
         cl'.pc = "write" <=> cl.pc = "write",
         mtx' = mtx \/ (mtx \notin Waiters /\ mtx' \notin Waiters)
  PROVE  Waits'
<1>1. \A t \in Waiters : Missing(t)' = Missing(t)
  BY DEF Missing
<1>2. \A t \in Waiters : WaiterOk(t, wt[t])'
  BY <1>1 DEF Waits, WaiterOk
<1>3. NeedOk'
  BY <1>1 DEF Waits, NeedOk
<1>4. "push" \notin Early /\ "need" \notin Early /\ "claim" \notin Early /\ "write" \notin Early
  BY DEF Early
<1>5. \A w \in Workers : wk[w].pc \notin Early => wk'[w].pc = wk[w].pc /\ wk'[w].queued = wk[w].queued
  BY DEF Quiet
<1>6. PendingOk'
  BY <1>4, <1>5 DEF Waits, PendingOk
<1>7. ASSUME NEW n, Hope(n) PROVE Hope(n)'
  <2>1. CASE \E w \in Workers : wk[w].pc \in {"claim", "write"}
    <3>1. PICK w \in Workers : wk[w].pc \in {"claim", "write"}
      BY <2>1
    <3>2. wk'[w].pc = wk[w].pc
      BY <1>4, <1>5, <3>1
    <3> QED BY <3>1, <3>2 DEF Hope
  <2>2. CASE \E w \in Workers : wk[w].pc \in {"push", "need"} /\ wk[w].queued >= n
    <3>1. PICK w \in Workers : wk[w].pc \in {"push", "need"} /\ wk[w].queued >= n
      BY <2>2
    <3>2. wk'[w].pc = wk[w].pc /\ wk'[w].queued = wk[w].queued
      BY <1>4, <1>5, <3>1
    <3> QED BY <3>1, <3>2 DEF Hope
  <2> QED BY <1>7, <2>1, <2>2 DEF Hope
<1>8. WakeOk'
  <2> SUFFICES ASSUME NEW t \in Waiters, wt'[t].pc \in {"unlock", "poll"}, ~ wt'[t].late,
                      cq'.count >= Missing(t)'
               PROVE  Hope(Missing(t))'
    BY DEF WakeOk
  <2>1. cq.count >= Missing(t)
    BY <1>1, CqIs, MissingIs, SMT
  <2>2. Hope(Missing(t))
    BY <2>1 DEF Waits, WakeOk
  <2>3. PICK n : n = Missing(t)
    OBVIOUS
  <2>4. Hope(n)' /\ n = Missing(t)'
    BY <1>1, <1>7, <2>2, <2>3
  <2> QED BY <2>4
<1> QED BY <1>2, <1>3, <1>6, <1>8 DEF Waits

(* What wakes everybody. *)
LEMMA LoudIs ==
  /\ cq.efd > 0 \/ cl.pc = "write" => \A n : Hope(n)
  /\ \A w \in Workers : wk[w].pc = "claim" \/ wk[w].pc = "write" => \A n : Hope(n)
  /\ \A t \in Waiters :
       wt[t].pc \in {"relock", "clear", "remove", "renotify", "claim", "write"} => \A n : Hope(n)
<1>1. "claim" \in {"claim", "write"} /\ "write" \in {"claim", "write"}
  OBVIOUS
<1> QED BY <1>1 DEF Hope

(* A waiter whose store is visible: wait_need is not above what it misses.  *)
LEMMA AskedIs ==
  ASSUME Sized, Types, Waits, NEW t \in Waiters, wt[t].pc \in {"unlock", "poll"}, ~ wt[t].late
  PROVE  /\ cq.need <= Missing(t) /\ cq.need # UINT_MAX /\ cq.need \in Int /\ Missing(t) \in Int
<1>1. wt[t].armed
  BY DEF Waits, WaiterOk
<1>2. ~ (mtx = t /\ cq.buffered # NoStore)
  BY DEF Waits, NeedOk
<1>3. cq.need <= Missing(t)
  BY <1>1, <1>2 DEF Waits, NeedOk
<1> QED BY <1>3, MissingIs, CqIs, SMT

(* pending is only set when the eventfd is, or is going to be, written or   *)
(* cleared: everybody is woken.                                             *)
LEMMA PendingIs ==
  ASSUME Waits, cq.pending = 1
  PROVE  \A n : Hope(n)
<1>1. /\ "write" \in {"relock", "clear", "remove", "renotify", "claim", "write"}
      /\ \A x \in {"write", "clear"} : x \in {"relock", "clear", "remove", "renotify", "claim", "write"}
  OBVIOUS
<1> QED BY <1>1, LoudIs DEF Waits, PendingOk

(* A step of worker w that leaves the waiters alone. *)
LEMMA WorkerWaits ==
  ASSUME Waits, UNCHANGED <<mtx, wt, cl>>, cq'.need = cq.need, cq'.buffered = cq.buffered,
         PendingOk', WakeOk'
  PROVE  Waits'
<1>1. \A t \in Waiters : Missing(t)' = Missing(t)
  BY DEF Missing
<1>2. \A t \in Waiters : WaiterOk(t, wt[t])'
  BY <1>1 DEF Waits, WaiterOk
<1>3. NeedOk'
  BY <1>1 DEF Waits, NeedOk
<1> QED BY <1>2, <1>3 DEF Waits

(* req_notify(): the completion that is enough for a waiter wakes it, or    *)
(* leaves that to somebody on the way.                                      *)
LEMMA NotifyWaits ==
  ASSUME Sized, Requests, Counts, Waits, NEW w \in Workers,
         NotifyCount(w) \/ NotifyPush(w) \/ NotifyNeed(w) \/ NotifyClaim(w) \/ NotifyWrite(w)
  PROVE  Waits'
<1> DEFINE k == wk[w]
<1>1. /\ Types /\ cq.count \in Nat /\ UNCHANGED <<mtx, wt, cl>>
  BY CountIs DEF Requests, NotifyCount, NotifyPush, NotifyNeed, NotifyClaim, NotifyWrite
<1>2. \A t \in Waiters : Missing(t)' = Missing(t) /\ Missing(t) \in Int
  BY <1>1, MissingIs DEF Missing
<1>3. ASSUME \A n : Hope(n)' PROVE WakeOk'
  BY <1>3 DEF WakeOk
<1>4. ASSUME cq'.count = cq.count,
             \A t \in Waiters : wt[t].pc \in {"unlock", "poll"} /\ ~ wt[t].late =>
               \A n : n = Missing(t) /\ Hope(n) => Hope(n)'
      PROVE  WakeOk'
  <2> SUFFICES ASSUME NEW t \in Waiters, wt'[t].pc \in {"unlock", "poll"}, ~ wt'[t].late,
                      cq'.count >= Missing(t)'
               PROVE  Hope(Missing(t))'
    BY DEF WakeOk
  <2>1. PICK n : n = Missing(t)
    OBVIOUS
  <2>2. wt[t].pc \in {"unlock", "poll"} /\ ~ wt[t].late /\ cq.count >= Missing(t)
    BY <1>1, <1>2, <1>4
  <2>3. Hope(n)
    BY <2>1, <2>2 DEF Waits, WakeOk
  <2>4. Hope(n)'
    BY <1>4, <2>1, <2>2, <2>3
  <2>5. n = Missing(t)'
    BY <1>2, <2>1
  <2> QED BY <2>4, <2>5
<1>5. CASE NotifyCount(w)
  <2>1. wk[w].pc = "count"
    BY <1>5 DEF NotifyCount
  <2>2. /\ WkTo(w, k.inbox, "push", k.cur, cq.count + 1, k.todo)
        /\ cq'.count = cq.count + 1 /\ cq'.need = cq.need /\ cq'.buffered = cq.buffered
        /\ cq'.pending = cq.pending /\ cq'.efd = cq.efd
    BY <1>1, <1>5, NotifyIs DEF CqTo
  <2>3. PendingOk'
    <3>1. \A v \in Workers : wk[v].pc = "write" => wk'[v].pc = "write"
      BY <2>1, <2>2 DEF WkTo
    <3> QED BY <1>1, <2>2, <3>1 DEF Waits, PendingOk
  <2>4. WakeOk'
    <3> SUFFICES ASSUME NEW t \in Waiters, cq'.count >= Missing(t)' PROVE Hope(Missing(t))'
      BY DEF WakeOk
    <3>1. wk'[w].pc \in {"push", "need"} /\ wk'[w].queued >= Missing(t)'
      BY <2>2 DEF WkTo
    <3> QED BY <3>1 DEF Hope
  <2> QED BY <1>1, <2>2, <2>3, <2>4, WorkerWaits
<1>6. CASE NotifyPush(w)
  <2>1. wk[w].pc = "push"
    BY <1>6 DEF NotifyPush
  <2>2. PICK r \in Reqs : wk[w].cur = r
    <3>1. WalkOk(w, wk[w])
      BY DEF Requests, Walks
    <3> QED BY <2>1, <3>1 DEF WalkOk, Notifying
  <2>3. /\ WkTo(w, k.inbox, "need", r, k.queued, k.todo)
        /\ cq'.count = cq.count /\ cq'.need = cq.need /\ cq'.buffered = cq.buffered
        /\ cq'.pending = cq.pending /\ cq'.efd = cq.efd
    BY <1>1, <1>6, <2>2, NotifyIs DEF CqTo
  <2>4. /\ \A v \in Workers : v # w => wk'[v] = wk[v]
        /\ wk'[w].pc \in {"push", "need"} /\ wk'[w].queued = k.queued
    BY <2>3 DEF WkTo
  <2>5. PendingOk'
    <3>1. \A v \in Workers : wk[v].pc = "write" => wk'[v].pc = "write"
      BY <2>1, <2>4
    <3> QED BY <1>1, <2>3, <3>1 DEF Waits, PendingOk
  <2>6. ASSUME NEW n, Hope(n) PROVE Hope(n)'
    <3>1. \A v \in Workers : wk[v].pc \in {"claim", "write"} => wk'[v].pc \in {"claim", "write"}
      BY <2>1, <2>4
    <3>2. \A v \in Workers : wk[v].pc \in {"push", "need"} /\ wk[v].queued >= n =>
                               wk'[v].pc \in {"push", "need"} /\ wk'[v].queued >= n
      BY <2>4
    <3> QED BY <1>1, <2>3, <2>6, <3>1, <3>2 DEF Hope
  <2> QED BY <1>1, <1>4, <2>3, <2>5, <2>6, WorkerWaits
<1>7. CASE NotifyNeed(w)
  <2>1. k.pc = "need" /\ cq' = cq /\ k.queued \in Nat
    BY <1>1, <1>7, WkIs DEF NotifyNeed
  <2>2. CASE cq.need # UINT_MAX /\ k.queued >= cq.need
    <3>1. wk' = [wk EXCEPT ![w].pc = "claim"] /\ "claim" \in Places
      BY <1>7, <2>2 DEF NotifyNeed, Places
    <3>2. WkTo(w, k.inbox, "claim", k.cur, k.queued, k.todo)
      BY <1>1, <3>1, GoesOn
    <3>3. wk'[w].pc = "claim" /\ \A v \in Workers : v # w => wk'[v] = wk[v]
      BY <3>2 DEF WkTo
    <3>4. \A v \in Workers : wk[v].pc = "write" => wk'[v].pc = "write"
      BY <2>1, <3>3
    <3>5. PendingOk'
      BY <1>1, <2>1, <3>4 DEF Waits, PendingOk
    <3>6. \A n : Hope(n)'
      <4>1. "claim" \in {"claim", "write"}
        OBVIOUS
      <4> QED BY <3>3, <4>1 DEF Hope
    <3> QED BY <1>1, <1>3, <2>1, <3>5, <3>6, WorkerWaits
  <2>3. CASE ~ (cq.need # UINT_MAX /\ k.queued >= cq.need)
    <3>1. wk' = Notified(w)
      BY <1>7, <2>3 DEF NotifyNeed
    <3>2. \A v \in Workers : v # w => wk'[v] = wk[v]
      BY <1>1, <3>1, GoesOn DEF WkTo
    <3>3. \A v \in Workers : wk[v].pc \in {"claim", "write"} => wk'[v] = wk[v]
      BY <2>1, <3>2
    <3>4. PendingOk'
      <4>1. "write" \in {"claim", "write"}
        OBVIOUS
      <4> QED BY <1>1, <2>1, <3>3, <4>1 DEF Waits, PendingOk
    <3>5. ASSUME NEW t \in Waiters, wt[t].pc \in {"unlock", "poll"}, ~ wt[t].late, NEW n,
                 n = Missing(t), Hope(n)
          PROVE  Hope(n)'
      <4>1. ~ (k.queued >= n)
        BY <1>1, <2>1, <2>3, <3>5, AskedIs, SMT
      <4>2. \A v \in Workers : wk[v].queued >= n => wk'[v] = wk[v]
        BY <3>2, <4>1
      <4> QED BY <1>1, <2>1, <3>3, <3>5, <4>2 DEF Hope
    <3>6. WakeOk'
      BY <1>4, <2>1, <3>5
    <3> QED BY <1>1, <2>1, <3>4, <3>6, WorkerWaits
  <2> QED BY <2>2, <2>3
<1>8. CASE NotifyClaim(w)
  <2>1. k.pc = "claim" /\ cq.pending \in {0, 1}
    BY <1>1, <1>8, CqIs DEF NotifyClaim
  <2>2. /\ cq'.count = cq.count /\ cq'.need = cq.need /\ cq'.buffered = cq.buffered
        /\ cq'.pending = 1 /\ cq'.efd = cq.efd
    BY <1>1, <1>8, NotifyIs DEF CqTo
  <2>3. CASE cq.pending = 0
    <3>1. wk' = [wk EXCEPT ![w].pc = "write"] /\ "write" \in Places
      BY <1>8, <2>3 DEF NotifyClaim, Places
    <3>2. wk'[w].pc = "write"
      BY <1>1, <3>1, GoesOn DEF WkTo
    <3>3. PendingOk'
      BY <3>2 DEF PendingOk
    <3>4. \A n : Hope(n)'
      <4>1. "write" \in {"claim", "write"}
        OBVIOUS
      <4> QED BY <3>2, <4>1 DEF Hope
    <3> QED BY <1>1, <1>3, <2>2, <3>3, <3>4, WorkerWaits
  <2>4. CASE cq.pending = 1
    <3>1. wk' = Notified(w)
      BY <1>8, <2>4, SMT DEF NotifyClaim
    <3>2. \A v \in Workers : v # w => wk'[v] = wk[v]
      BY <1>1, <3>1, GoesOn DEF WkTo
    <3>3. \A v \in Workers : wk[v].pc = "write" => wk'[v].pc = "write"
      BY <2>1, <3>2
    <3>4. PendingOk'
      BY <1>1, <2>2, <2>4, <3>3 DEF Waits, PendingOk
    <3>5. \A n : Hope(n)'
      <4>1. /\ "write" \in {"claim", "write"}
            /\ \A x \in {"write", "clear"} :
                 x \in {"relock", "clear", "remove", "renotify", "claim", "write"}
        OBVIOUS
      <4> QED BY <2>2, <3>4, <4>1 DEF Hope, PendingOk
    <3> QED BY <1>1, <1>3, <2>2, <3>4, <3>5, WorkerWaits
  <2> QED BY <2>1, <2>3, <2>4
<1>9. CASE NotifyWrite(w)
  <2>1. /\ cq'.count = cq.count /\ cq'.need = cq.need /\ cq'.buffered = cq.buffered
        /\ cq'.efd = cq.efd + 1
    BY <1>1, <1>9, NotifyIs DEF CqTo
  <2>2. cq'.efd > 0
    BY <1>1, <2>1, CqIs, SMT
  <2>3. PendingOk' /\ \A n : Hope(n)'
    BY <2>2 DEF PendingOk, Hope
  <2> QED BY <1>1, <1>3, <2>1, <2>3, WorkerWaits
<1> QED BY <1>5, <1>6, <1>7, <1>8, <1>9

(* async_close() wakes the waiters. *)
LEMMA CloseWaits ==
  ASSUME Requests, Waits, CloseClaim \/ CloseWrite
  PROVE  Waits'
<1>1. Types /\ UNCHANGED <<mtx, wt, wk>> /\ cq.pending \in {0, 1} /\ cl \in ClRecs
  BY CqIs, ClIs DEF Requests, CloseClaim, CloseWrite
<1>2. \A t \in Waiters : Missing(t)' = Missing(t)
  BY <1>1 DEF Missing
<1>3. cq'.need = cq.need /\ cq'.buffered = cq.buffered
  <2>1. 1 \in {0, 1} /\ cq.efd + 1 \in Nat
    BY <1>1, CqIs, SMT
  <2> QED BY <1>1, <2>1, CqFields DEF CqTo, CloseClaim, CloseWrite
<1>4. (\A t \in Waiters : WaiterOk(t, wt[t])') /\ NeedOk'
  <2>1. \A t \in Waiters : WaiterOk(t, wt[t])'
    BY <1>1, <1>2 DEF Waits, WaiterOk
  <2>2. NeedOk'
    BY <1>1, <1>2, <1>3 DEF Waits, NeedOk
  <2> QED BY <2>1, <2>2
<1>5. PendingOk' /\ \A n : Hope(n)'
  <2>1. CASE CloseWrite
    <3>1. cq'.efd > 0
      BY <1>1, <2>1, CqIs, SMT DEF CloseWrite, CqRecs
    <3> QED BY <3>1 DEF PendingOk, Hope
  <2>2. CASE CloseClaim /\ cq.pending = 0
    <3>1. cl' = [cl EXCEPT !.pc = "write"] /\ "write" \in Phases
      BY <2>2 DEF CloseClaim, Phases
    <3>2. cl'.pc = "write"
      BY <1>1, <3>1, ClIs
    <3> QED BY <3>2 DEF PendingOk, Hope
  <2>3. CASE CloseClaim /\ cq.pending = 1
    <3>1. cq'.efd = cq.efd /\ cl.pc = "claim"
      <4>1. 1 \in {0, 1}
        OBVIOUS
      <4> QED BY <1>1, <2>3, <4>1, CqFields DEF CqTo, CloseClaim
    <3>2. \/ cq.efd > 0
          \/ \E w \in Workers : wk[w].pc = "write"
          \/ \E t \in Waiters : wt[t].pc \in {"write", "clear"}
      BY <2>3, <3>1 DEF Waits, PendingOk
    <3>3. /\ "write" \in {"claim", "write"}
          /\ \A x \in {"write", "clear"} :
               x \in {"relock", "clear", "remove", "renotify", "claim", "write"}
      OBVIOUS
    <3> QED BY <1>1, <3>1, <3>2, <3>3 DEF PendingOk, Hope
  <2> QED BY <1>1, <2>1, <2>2, <2>3
<1> QED BY <1>4, <1>5 DEF Waits, WakeOk

(* What a step of waiter t leaves alone. *)
LEMMA OthersWait ==
  ASSUME Waits, NEW t \in Waiters, NEW p, NEW g, NEW a, NEW l, WtTo(t, p, g, a, l)
  PROVE  /\ \A u \in Waiters : u # t => wt'[u] = wt[u] /\ Missing(u)' = Missing(u) /\ WaiterOk(u, wt[u])'
         /\ wt'[t].pc = p /\ wt'[t].got = g /\ wt'[t].armed = a /\ wt'[t].late = l
         /\ g = wt[t].got => Missing(t)' = Missing(t)
<1>1. /\ \A u \in Waiters : u # t => wt'[u] = wt[u]
      /\ wt'[t].pc = p /\ wt'[t].got = g /\ wt'[t].armed = a /\ wt'[t].late = l
  BY DEF WtTo
<1>2. \A u \in Waiters : u # t => Missing(u)' = Missing(u)
  BY <1>1 DEF Missing
<1>3. g = wt[t].got => Missing(t)' = Missing(t)
  BY <1>1 DEF Missing
<1>4. \A u \in Waiters : u # t => WaiterOk(u, wt[u])'
  BY <1>1, <1>2 DEF Waits, WaiterOk
<1> QED BY <1>1, <1>2, <1>3, <1>4

(* No store of wait_need is under way when nobody is between arming and     *)
(* unlocking.                                                               *)
LEMMA NoneBuffered ==
  ASSUME Mutex, Waits, mtx \notin Waiters \/ \E t \in Waiters : wt[t].pc \in Inside \ {"recheck", "unlock"}
  PROVE  cq.buffered = NoStore
BY DEF Mutex, Waits, NeedOk

(* wait_need stays as it is, while no store is under way. *)
LEMMA NeedSteady ==
  ASSUME Waits, NEW t \in Waiters, NEW p, NEW g, NEW a, NEW l, WtTo(t, p, g, a, l),
         cq.buffered = NoStore, cq'.buffered = NoStore, cq'.need = cq.need,
         a => wt[t].armed /\ g = wt[t].got
  PROVE  NeedOk'
<1>1. \A u \in Waiters : wt[u].armed => cq.need <= Missing(u)
  BY DEF Waits, NeedOk
<1>0. /\ \A u \in Waiters : u # t => wt'[u] = wt[u] /\ Missing(u)' = Missing(u) /\ WaiterOk(u, wt[u])'
      /\ wt'[t].pc = p /\ wt'[t].got = g /\ wt'[t].armed = a /\ wt'[t].late = l
      /\ g = wt[t].got => Missing(t)' = Missing(t)
  BY OthersWait
<1>2. ASSUME NEW u \in Waiters, wt'[u].armed PROVE cq'.need <= Missing(u)'
  <2>1. Missing(u)' = Missing(u) /\ wt[u].armed
    BY <1>0, <1>2
  <2> QED BY <1>1, <2>1
<1> QED BY <1>2 DEF NeedOk

(* A step of a waiter that is not between arming and unlocking. *)
LEMMA NeedAside ==
  ASSUME Waits, NEW t \in Waiters, NEW p, NEW g, NEW a, NEW l, WtTo(t, p, g, a, l),
         g = wt[t].got, a = wt[t].armed,
         cq'.need = cq.need, cq'.buffered = cq.buffered, mtx' = mtx,
         wt[t].pc \notin {"recheck", "unlock"}, p \notin {"recheck", "unlock"}
  PROVE  NeedOk'
<1>0. /\ \A u \in Waiters : u # t => wt'[u] = wt[u]
      /\ wt'[t].pc = p /\ wt'[t].got = wt[t].got /\ wt'[t].armed = wt[t].armed
  BY DEF WtTo
<1>1. /\ \A u \in Waiters : Missing(u)' = Missing(u) /\ wt'[u].armed = wt[u].armed
      /\ \A u \in Waiters : u # t => wt'[u] = wt[u]
      /\ wt'[t].pc = p
  <2>1. \A u \in Waiters : wt'[u].got = wt[u].got /\ wt'[u].armed = wt[u].armed
    BY <1>0
  <2> QED BY <1>0, <2>1 DEF Missing
<1>2. \A u \in Waiters : wt'[u].armed => cq'.need <= Missing(u)' \/ (mtx' = u /\ cq'.buffered # NoStore)
  BY <1>1 DEF Waits, NeedOk
<1>3. cq'.buffered # NoStore =>
        /\ mtx' \in Waiters /\ wt'[mtx'].pc \in {"recheck", "unlock"}
        /\ cq'.buffered = Missing(mtx)' /\ cq'.buffered < cq'.need
  <2> SUFFICES ASSUME cq'.buffered # NoStore
               PROVE  /\ mtx' \in Waiters /\ wt'[mtx'].pc \in {"recheck", "unlock"}
                      /\ cq'.buffered = Missing(mtx)' /\ cq'.buffered < cq'.need
    OBVIOUS
  <2>1. /\ mtx \in Waiters /\ wt[mtx].pc \in {"recheck", "unlock"} /\ cq.buffered = Missing(mtx)
        /\ cq.buffered < cq.need
    BY DEF Waits, NeedOk
  <2>2. mtx # t /\ wt'[mtx] = wt[mtx]
    BY <1>1, <2>1
  <2>3. Missing(mtx)' = Missing(mtx)
    BY <2>2 DEF Missing
  <2> QED BY <2>1, <2>2, <2>3
<1>4. ASSUME NEW u \in Waiters, wt'[u].pc = "unlock", ~ wt'[u].late PROVE cq'.buffered = NoStore
  <2>1. u # t /\ wt'[u] = wt[u]
    BY <1>1, <1>4
  <2> QED BY <1>4, <2>1 DEF Waits, NeedOk
<1> QED BY <1>2, <1>3, <1>4 DEF NeedOk

(* A step of a waiter that is no wakeup and delays none. *)
LEMMA PlainWait ==
  ASSUME Sized, Types, Waits, NEW t \in Waiters, NEW p, NEW g, NEW a, NEW l, WtTo(t, p, g, a, l),
         UNCHANGED <<wk, cl>>, WaiterOk(t, wt[t])', NeedOk',
         cq'.efd = cq.efd, cq'.count \in Int, cq'.count <= cq.count,
         cq'.pending = cq.pending \/ cq'.pending = 0,
         wt[t].pc \in {"write", "clear"} => cq'.pending = 0,
         wt[t].pc \in {"relock", "clear", "remove", "renotify", "claim", "write"} =>
           p \in {"relock", "clear", "remove", "renotify", "claim", "write"},
         p \in {"unlock", "poll"} /\ ~ l =>
           \/ wt[t].pc \in {"unlock", "poll"} /\ ~ wt[t].late /\ g = wt[t].got
           \/ ~ (cq'.count >= Missing(t)')
  PROVE  Waits'
<1>1. /\ \A u \in Waiters : u # t => wt'[u] = wt[u] /\ Missing(u)' = Missing(u) /\ WaiterOk(u, wt[u])'
      /\ wt'[t].pc = p /\ wt'[t].got = g /\ wt'[t].armed = a /\ wt'[t].late = l
      /\ g = wt[t].got => Missing(t)' = Missing(t)
  BY OthersWait
<1>2. PendingOk'
  <2> SUFFICES ASSUME cq'.pending = 1
               PROVE  \/ cq'.efd > 0 \/ cl'.pc = "write"
                      \/ \E w \in Workers : wk'[w].pc = "write"
                      \/ \E u \in Waiters : wt'[u].pc \in {"write", "clear"}
    BY DEF PendingOk
  <2>1. cq.pending = 1 /\ wt[t].pc \notin {"write", "clear"}
    BY SMT
  <2>2. \A u \in Waiters : wt[u].pc \in {"write", "clear"} => wt'[u] = wt[u]
    BY <1>1, <2>1
  <2> QED BY <2>1, <2>2 DEF Waits, PendingOk
<1>3. ASSUME NEW n, Hope(n) PROVE Hope(n)'
  <2>1. \A u \in Waiters : wt[u].pc \in {"relock", "clear", "remove", "renotify", "claim", "write"} =>
                           wt'[u].pc \in {"relock", "clear", "remove", "renotify", "claim", "write"}
    BY <1>1
  <2> QED BY <1>3, <2>1 DEF Hope
<1>4. WakeOk'
  <2> SUFFICES ASSUME NEW u \in Waiters, wt'[u].pc \in {"unlock", "poll"}, ~ wt'[u].late,
                      cq'.count >= Missing(u)'
               PROVE  Hope(Missing(u))'
    BY DEF WakeOk
  <2>1. wt[u].pc \in {"unlock", "poll"} /\ ~ wt[u].late /\ Missing(u)' = Missing(u)
    <3>1. CASE u # t
      BY <1>1, <3>1
    <3>2. CASE u = t
      BY <1>1, <3>2
    <3> QED BY <3>1, <3>2
  <2>3. PICK n : n = Missing(u)
    OBVIOUS
  <2>2. cq.count >= Missing(u)
    <3>1. cq'.count >= n /\ n \in Int /\ cq.count \in Int
      BY <2>1, <2>3, MissingIs, CqIs
    <3>2. cq.count >= n
      BY <3>1, SMT
    <3> QED BY <2>3, <3>2
  <2>4. Hope(n)
    BY <2>1, <2>2, <2>3 DEF Waits, WakeOk
  <2>5. Hope(n)' /\ n = Missing(u)'
    BY <1>3, <2>1, <2>3, <2>4
  <2> QED BY <2>5
<1>5. \A u \in Waiters : WaiterOk(u, wt[u])'
  BY <1>1
<1> QED BY <1>2, <1>4, <1>5 DEF Waits

(* A step of a waiter after which everybody is woken. *)
LEMMA LoudWait ==
  ASSUME Waits, NEW t \in Waiters, NEW p, NEW g, NEW a, NEW l, WtTo(t, p, g, a, l),
         WaiterOk(t, wt[t])', NeedOk', PendingOk', WakeOk' \/ \A n : Hope(n)'
  PROVE  Waits'
<1>1. \A u \in Waiters : WaiterOk(u, wt[u])'
  BY OthersWait
<1>2. WakeOk'
  BY DEF WakeOk
<1> QED BY <1>1, <1>2 DEF Waits

(* net_async_wait() is called, or its deadline passes. *)
LEMMA CallWaits ==
  ASSUME Sized, Requests, Waits, NEW t \in Waiters, Call(t) \/ Expire(t)
  PROVE  Waits'
<1> DEFINE u == wt[t]
<1>1. /\ Types /\ Mutex /\ UNCHANGED <<wk, cl>> /\ WaiterOk(t, u) /\ cq.count \in Int
  BY CqIs DEF Requests, Call, Expire, Waits
<1>2. ASSUME NEW p, WtTo(t, p, u.got, u.armed, u.late), NeedOk', cq'.efd = cq.efd,
             cq'.count = cq.count, cq'.pending = cq.pending,
             \/ u.pc = "call" /\ p \in {"pop", "out"}
             \/ u.pc \in {"pop", "poll"} /\ p = u.pc
      PROVE  Waits'
  <2>1. PICK g, a, l : g = u.got /\ a = u.armed /\ l = u.late
    OBVIOUS
  <2>2. WtTo(t, p, g, a, l)
    BY <1>2, <2>1
  <2>3. /\ wt'[t].pc = p /\ wt'[t].armed = a /\ Missing(t)' = Missing(t)
    BY <2>1, <2>2 DEF WtTo, Missing
  <2>4. WaiterOk(t, wt[t])'
    BY <1>1, <1>2, <2>1, <2>3 DEF WaiterOk
  <2>5. /\ u.pc \notin {"relock", "clear", "remove", "renotify", "claim", "write"}
        /\ u.pc \notin {"write", "clear"}
        /\ p \in {"unlock", "poll"} /\ ~ l => u.pc \in {"unlock", "poll"} /\ ~ u.late /\ g = u.got
    BY <1>2, <2>1
  <2>6. cq'.count \in Int /\ cq'.count <= cq.count
    BY <1>1, <1>2, SMT
  <2> QED BY <1>1, <1>2, <2>2, <2>4, <2>5, <2>6, PlainWait
<1>3. CASE Call(t) /\ cq.open
  <2>1. u.pc = "call" /\ mtx = "free" /\ "free" \notin Waiters
    BY <1>3, CqAssumption DEF Call
  <2>2. /\ WtTo(t, "pop", u.got, u.armed, u.late) /\ cq'.efd = cq.efd /\ cq'.count = cq.count
        /\ cq'.pending = cq.pending /\ cq'.need = cq.need /\ cq'.buffered = cq.buffered
    <3>1. wt' = [wt EXCEPT ![t].pc = "pop"] /\ cq' = [cq EXCEPT !.refs = cq.refs + 1]
      BY <1>3 DEF Call
    <3>2. "pop" \in Stages /\ cq.refs + 1 \in Int
      BY <1>1, CqIs, SMT DEF Stages
    <3> QED BY <1>1, <3>1, <3>2, WtFields, CqFields DEF CqTo
  <2>3. cq.buffered = NoStore
    BY <1>1, <2>1, NoneBuffered
  <2>4. NeedOk'
    BY <2>2, <2>3, NeedSteady
  <2>5. "pop" \in {"pop", "out"}
    OBVIOUS
  <2> QED BY <1>2, <2>1, <2>2, <2>4, <2>5
<1>4. CASE Call(t) /\ ~ cq.open
  <2>1. u.pc = "call" /\ mtx' = mtx /\ cq' = cq /\ "out" \in {"pop", "out"}
    BY <1>4 DEF Call
  <2>2. WtTo(t, "out", u.got, u.armed, u.late)
    <3>1. wt' = [wt EXCEPT ![t].pc = "out"] /\ "out" \in Stages
      BY <1>4 DEF Call, Stages
    <3> QED BY <1>1, <3>1, WtFields
  <2>3. u.pc \notin {"recheck", "unlock"} /\ "out" \notin {"recheck", "unlock"}
    BY <2>1
  <2>4. NeedOk'
    BY <2>1, <2>2, <2>3, NeedAside
  <2> QED BY <1>2, <2>1, <2>2, <2>4
<1>5. CASE Expire(t)
  <2>1. u.pc \in {"pop", "poll"} /\ mtx' = mtx /\ cq' = cq
    BY <1>5 DEF Expire
  <2>2. WtTo(t, u.pc, u.got, u.armed, u.late)
    BY <1>1, <1>5, WtFields DEF Expire
  <2>3. u.pc \notin {"recheck", "unlock"}
    BY <2>1
  <2>4. NeedOk'
    BY <2>1, <2>2, <2>3, NeedAside
  <2> QED BY <1>2, <2>1, <2>2, <2>4
<1> QED BY <1>3, <1>4, <1>5

(* async_wait() returns, or its loop goes on. *)
LEMMA LeaveWaits ==
  ASSUME Sized, Requests, Waits, NEW t \in Waiters, Finish(t) \/ After(t)
  PROVE  Waits'
<1> DEFINE u == wt[t]
<1>1. /\ Types /\ Mutex /\ UNCHANGED <<wk, cl>> /\ WaiterOk(t, u) /\ cq.count \in Int
  BY CqIs DEF Requests, Finish, After, Waits
<1>2. (u.pc = "pop" /\ Leave(t)) \/ u.pc = "after"
  BY DEF Finish, PopEnds, After
<1>3. /\ u.pc \in Inside \ {"recheck", "unlock"} /\ ~ u.armed
      /\ u.pc \notin {"relock", "clear", "remove", "renotify", "claim", "write"}
      /\ u.pc \notin {"write", "clear"}
  BY <1>1, <1>2 DEF Inside, WaiterOk
<1>4. cq.buffered = NoStore
  BY <1>1, <1>3, NoneBuffered
<1>5. ASSUME NEW p \in {"pop", "out"}, NEW l, WtTo(t, p, u.got, FALSE, l),
             cq'.efd = cq.efd, cq'.count = cq.count, cq'.pending = cq.pending,
             cq'.need = cq.need, cq'.buffered = cq.buffered
      PROVE  Waits'
  <2>1. PICK g : g = u.got
    OBVIOUS
  <2>2. WtTo(t, p, g, FALSE, l)
    BY <1>5, <2>1
  <2>3. NeedOk'
    BY <1>4, <1>5, <2>2, NeedSteady
  <2>4. WaiterOk(t, wt[t])'
    BY <1>5 DEF WtTo, WaiterOk
  <2>5. p \notin {"unlock", "poll"} /\ cq'.count \in Int /\ cq'.count <= cq.count
    BY <1>1, <1>5, SMT
  <2> QED BY <1>1, <1>3, <1>5, <2>2, <2>3, <2>4, <2>5, PlainWait
<1>6. CASE Leave(t)
  <2>1. /\ WtTo(t, "out", u.got, FALSE, FALSE) /\ cq'.efd = cq.efd /\ cq'.count = cq.count
        /\ cq'.pending = cq.pending /\ cq'.need = cq.need /\ cq'.buffered = cq.buffered
    BY <1>1, <1>6, LeaveIs DEF CqTo
  <2>2. "out" \in {"pop", "out"}
    OBVIOUS
  <2> QED BY <1>5, <2>1, <2>2
<1>7. CASE ~ Leave(t)
  <2>1. WtTo(t, "pop", u.got, u.armed, u.late) /\ cq' = cq /\ u.armed = FALSE
    <3>1. u.armed \in BOOLEAN /\ After(t)
      BY <1>1, <1>7, WtIs DEF Finish
    <3>2. WtTo(t, "pop", u.got, u.armed, u.late) /\ cq' = cq
      BY <1>1, <1>7, <3>1, ReadyIs
    <3> QED BY <1>3, <3>1, <3>2
  <2>2. "pop" \in {"pop", "out"}
    OBVIOUS
  <2> QED BY <1>5, <2>1, <2>2
<1> QED BY <1>6, <1>7

(* A completion is taken. *)
LEMMA PopWaits ==
  ASSUME Sized, Requests, Waits, NEW t \in Waiters, PopOne(t)
  PROVE  Waits'
<1> DEFINE u == wt[t]
<1>1. /\ Types /\ Mutex /\ UNCHANGED <<mtx, wk, cl>> /\ WaiterOk(t, u) /\ u.pc = "pop" /\ cq.count \in Int
  BY CqIs DEF Requests, PopOne, Waits
<1>2. /\ u.pc \in Inside \ {"recheck", "unlock"} /\ ~ u.armed /\ u.armed = FALSE
      /\ u.pc \notin {"relock", "clear", "remove", "renotify", "claim", "write"}
      /\ u.pc \notin {"write", "clear"} /\ u.pc \notin {"unlock", "poll"}
  BY <1>1, WtIs DEF Inside, WaiterOk
<1>3. cq.buffered = NoStore
  BY <1>1, <1>2, NoneBuffered
<1>4. /\ cq'.efd = cq.efd /\ cq'.count = cq.count - 1 /\ cq'.pending = cq.pending
      /\ cq'.need = cq.need /\ cq'.buffered = cq.buffered /\ Head(cq.list) \in Reqs
  BY <1>1, PopIs DEF CqTo, PopOne
<1>5. PICK g \in SUBSET Reqs : g = u.got \cup {Head(cq.list)}
  BY <1>1, <1>4, WtIs
<1>6. WtTo(t, u.pc, g, u.armed, u.late)
  <2>1. wt' = [wt EXCEPT ![t].got = g]
    BY <1>5 DEF PopOne
  <2> QED BY <1>1, <2>1, WtFields
<1>7. NeedOk'
  BY <1>2, <1>3, <1>4, <1>6, NeedSteady
<1>8. WaiterOk(t, wt[t])'
  BY <1>1, <1>2, <1>6 DEF WtTo, WaiterOk
<1>9. cq'.count \in Int /\ cq'.count <= cq.count
  BY <1>1, <1>4, SMT
<1> QED BY <1>1, <1>2, <1>4, <1>6, <1>7, <1>8, <1>9, PlainWait

(* What a waiter misses, and whether it is on cq->waiters, after a step     *)
(* that takes no completion.                                                *)
LEMMA StillOk ==
  ASSUME NEW t \in Waiters, NEW p, NEW a, NEW l, WtTo(t, p, wt[t].got, a, l),
         a <=> p \in {"recheck", "unlock", "poll", "relock", "clear", "remove"},
         a => Missing(t) >= 1
  PROVE  WaiterOk(t, wt[t])' /\ Missing(t)' = Missing(t)
<1>1. wt'[t].pc = p /\ wt'[t].armed = a /\ wt'[t].got = wt[t].got
  BY DEF WtTo
<1>2. Missing(t)' = Missing(t)
  BY <1>1 DEF Missing
<1> QED BY <1>1, <1>2 DEF WaiterOk

(* async_waiter_add(): wait_need is low enough, or the store that makes it  *)
(* so is under way.                                                         *)
LEMMA ArmWaits ==
  ASSUME Sized, Requests, Waits, NEW t \in Waiters, Arm(t)
  PROVE  Waits'
<1> DEFINE u == wt[t]
<1>1. /\ Types /\ Mutex /\ UNCHANGED <<mtx, wk, cl>> /\ u.pc = "pop" /\ cq.count \in Int
      /\ \A x \in Waiters : WaiterOk(x, wt[x])
  BY CqIs DEF Requests, Arm, PopEnds, Waits
<1>2. /\ WtTo(t, "recheck", u.got, TRUE, u.late)
      /\ \/ cq' = cq
         \/ CqTo(cq.open, cq.refs, cq.submit, cq.list, cq.count, cq.need, Missing(t),
                 cq.pending, cq.efd)
  BY <1>1, WaitIs
<1>3. /\ cq'.efd = cq.efd /\ cq'.count = cq.count /\ cq'.pending = cq.pending /\ cq'.need = cq.need
  BY <1>2 DEF CqTo
<1>4. /\ u.pc \in Inside \ {"recheck", "unlock"}
      /\ u.pc \notin {"relock", "clear", "remove", "renotify", "claim", "write"}
      /\ u.pc \notin {"write", "clear"} /\ "recheck" \notin {"unlock", "poll"}
  BY <1>1 DEF Inside
<1>5. cq.buffered = NoStore /\ mtx = t /\ mtx' = t
  BY <1>1, <1>4, NoneBuffered DEF Mutex
<1>6. Missing(t) \in Int /\ Missing(t) < UINT_MAX /\ Missing(t) >= 1 /\ NoStore = UINT_MAX + 1
      /\ cq.need \in Int /\ UINT_MAX \in Nat
  BY <1>1, MissingIs, CqIs, SMT DEF Arm
<1>7. WaiterOk(t, wt[t])' /\ Missing(t)' = Missing(t)
  BY <1>2, <1>6, StillOk
<1>8. /\ \A x \in Waiters : x # t => wt'[x] = wt[x] /\ Missing(x)' = Missing(x) /\ wt'[x].pc # "unlock"
      /\ wt'[t].pc = "recheck" /\ wt'[t].armed = TRUE
  <2>1. /\ \A x \in Waiters : x # t => wt'[x] = wt[x]
        /\ wt'[t].pc = "recheck" /\ wt'[t].armed = TRUE
    BY <1>2 DEF WtTo
  <2>2. \A x \in Waiters : x # t => wt[x].pc # "unlock"
    BY <1>1, <1>5 DEF Mutex, Inside
  <2> QED BY <2>1, <2>2 DEF Missing
<1>9. NeedOk'
  <2>1. \/ cq'.buffered = NoStore /\ cq.need <= Missing(t)
        \/ cq'.buffered = Missing(t) /\ Missing(t) < cq.need
    <3>1. CASE Missing(t) < cq.need
      <4>1. cq' = [cq EXCEPT !.buffered = Missing(t)]
        BY <3>1 DEF Arm
      <4>2. cq'.buffered = Missing(t)
        BY <1>1, <4>1, CqIs DEF CqRecs
      <4> QED BY <3>1, <4>2
    <3>2. CASE ~ (Missing(t) < cq.need)
      <4>1. cq' = cq
        BY <3>2 DEF Arm
      <4>2. cq.need <= Missing(t)
        BY <1>6, <3>2, SMT
      <4> QED BY <1>5, <4>1, <4>2
    <3> QED BY <3>1, <3>2
  <2>2. cq'.buffered # NoStore => cq'.buffered = Missing(t)' /\ cq'.buffered < cq'.need
    BY <1>3, <1>7, <2>1
  <2>3. cq'.need <= Missing(t)' \/ (mtx' = t /\ cq'.buffered # NoStore)
    <3>1. PICK n : n = Missing(t)
      OBVIOUS
    <3>2. n # NoStore
      BY <1>6, <3>1, SMT
    <3> QED BY <1>3, <1>5, <1>7, <2>1, <3>1, <3>2
  <2>4. \A x \in Waiters : wt'[x].armed =>
          cq'.need <= Missing(x)' \/ (mtx' = x /\ cq'.buffered # NoStore)
    <3>1. ASSUME NEW x \in Waiters, x # t, wt'[x].armed PROVE cq'.need <= Missing(x)'
      <4>1. wt[x].armed /\ Missing(x)' = Missing(x)
        BY <1>8, <3>1
      <4>2. cq.need <= Missing(x)
        BY <1>5, <4>1 DEF Waits, NeedOk
      <4> QED BY <1>3, <4>1, <4>2
    <3> QED BY <2>3, <3>1
  <2>5. cq'.buffered # NoStore =>
          /\ mtx' \in Waiters /\ wt'[mtx'].pc \in {"recheck", "unlock"}
          /\ cq'.buffered = Missing(mtx)' /\ cq'.buffered < cq'.need
    <3>1. wt'[mtx'].pc \in {"recheck", "unlock"} /\ Missing(mtx)' = Missing(t)'
      BY <1>5, <1>8 DEF Missing
    <3> QED BY <1>5, <2>2, <3>1
  <2>6. \A x \in Waiters : wt'[x].pc = "unlock" /\ ~ wt'[x].late => cq'.buffered = NoStore
    BY <1>8
  <2> QED BY <2>4, <2>5, <2>6 DEF NeedOk
<1>10. cq'.count \in Int /\ cq'.count <= cq.count
  BY <1>1, <1>3, SMT
<1> QED BY <1>1, <1>2, <1>3, <1>4, <1>7, <1>9, <1>10, PlainWait
=============================================================================
