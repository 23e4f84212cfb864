----------------------------- MODULE EpollSteps -----------------------------
(***************************************************************************)
(* What each step of Epoll does (the definitions are in EpollEffects), for *)
(* any number of sockets, threads and readers: the threads first, then the *)
(* ready_lock sections of main/req_epoll.c and the pending task of         *)
(* main/stack.c.  The last parts show that they keep ep->refs exact, and   *)
(* that those of a worker and of the network lose no readiness.            *)
(***************************************************************************)
EXTENDS EpollEffects, TLAPS

USE Zenon, SMT

(* A sequence over a set is one over every larger set. *)
LEMMA SeqInLarger ==
  ASSUME NEW S, NEW T, S \subseteq T, NEW q \in Seq(S)
  PROVE  q \in Seq(T)
<1>1. Len(q) \in Nat /\ q \in [1..Len(q) -> S]
  BY SMT
<1>2. q \in [1..Len(q) -> T]
  BY <1>1
<1> QED BY <1>1, <1>2, SMT

-----------------------------------------------------------------------------
(* Types.                                                                  *)

(* Go() moves one thread and leaves its snapshot alone. *)
LEMMA GoMoves ==
  ASSUME ThreadTypes, NEW t \in Threads, NEW pc \in PCs, Go(t, pc)
  PROVE  GoMove(t, pc)
BY DEF ThreadTypes, Places, Go, Moved, GoMove

(* A step that replaces the record of one thread. *)
LEMMA EntryMoves ==
  ASSUME ThreadTypes, NEW t \in Threads, NEW r \in Places, NEW pc, NEW snap,
         r.pc = pc, r.snap = snap, snap \in Snaps(t), th' = [th EXCEPT ![t] = r]
  PROVE  th'[t] = r /\ Moved(t, pc, snap)
BY DEF ThreadTypes, Moved

(* req_notify(), or back to the pending list. *)
LEMMA AnswerServes ==
  ASSUME Types, NEW s \in Sockets, NEW reply \in Replies, Answer(s, reply)
  PROVE  AnswerServesFact(s, reply)
<1>1. Served(s, IF reply = NoReply THEN "walk" ELSE "idle", wk[s].todo, wk[s].ev, NoReply)
  BY DEF Answer, NoReply, Served, Types, WorkTypes, Serves, Replies
<1>2. call' \in Requests
  BY DEF Answer, Types, ThreadTypes, Requests
<1> QED BY <1>1, <1>2 DEF Answer, AnswerServesFact

-----------------------------------------------------------------------------
(* What the threads' steps do to the threads, the mutex and the request. *)

(* net_epoll_wait() takes the mutex and is about to count. *)
LEMMA WaitCallMoves ==
  ASSUME ThreadTypes, NEW t \in Waiters, WaitCall(t)
  PROVE  Moved(t, "count", th[t].snap)
BY GoMoves DEF WaitCall, Threads, PCs, GoMove

(* The first section of epoll_take_snapshot(). *)
LEMMA SnapshotCountMoves ==
  ASSUME ThreadTypes, ListTypes, NEW t \in Waiters, SnapshotCount(t)
  PROVE  Moved(t, "take", th[t].snap) /\ th'[t].room = Len(ready)
<1>1. Len(ready) \in Nat
  BY SMT DEF ListTypes
<1> DEFINE r == [th[t] EXCEPT !.room = Len(ready), !.pc = "take"]
<1>2. th' = [th EXCEPT ![t] = r]
  BY DEF SnapshotCount
<1>3. /\ r \in Places /\ th[t].snap \in Snaps(t) /\ t \in Threads
      /\ r.pc = "take" /\ r.snap = th[t].snap /\ r.room = Len(ready)
  BY <1>1 DEF ThreadTypes, Places, PCs, Threads
<1> HIDE DEF r
<1> QED BY <1>2, <1>3, EntryMoves

(* The second section of epoll_take_snapshot(), for the thread. *)
LEMMA SnapshotTakeMoves ==
  ASSUME Types, NEW t \in Waiters, NEW n \in 0..Len(ready), SnapshotTake(t, n)
  PROVE  SnapshotTakeMove(t, n)
<1>1. Len(ready) \in Nat /\ ready \in Seq(Sockets) /\ th[t].room \in Nat /\ n \in Int
  <2>1. Len(ready) \in Nat /\ ready \in Seq(Sockets)
    BY SMT DEF Types, ListTypes
  <2>2. th[t].room \in Nat
    BY DEF Types, ThreadTypes, Places, Threads
  <2> QED BY <2>1, <2>2, SMT
<1>2. n \in 0..Len(ready) /\ (n < th[t].room => n = Len(ready))
  <2>1. n = Len(ready) \/ n \in th[t].room..Len(ready)
    BY DEF SnapshotTake
  <2> QED BY <1>1, <2>1, SMT
<1>3. SubSeq(ready, 1, n) = [i \in 1..n |-> ready[i]]
  BY <1>1, <1>2, SMT
<1>4. \A i \in 1..n : ready[i] \in Sockets /\ SubSeq(ready, 1, n)[i] = ready[i]
  BY <1>1, <1>2, <1>3, SMT
<1>5. Shot(n) \in Seq(Entries)
  <2>1. \A i \in 1..n : Shot(n)[i] \in Entries
    <3> SUFFICES ASSUME NEW i \in 1..n PROVE Shot(n)[i] \in Entries
      OBVIOUS
    <3>1. item[ready[i]] \in Items /\ ready[i] \in Sockets
      BY <1>4 DEF Types, ListTypes
    <3>2. Shot(n)[i] = [s |-> ready[i], watch |-> item[ready[i]].watch, ev |-> item[ready[i]].ev]
      BY DEF Shot
    <3>3. item[ready[i]].watch \in WatchMasks /\ item[ready[i]].ev \in SUBSET Events
      BY <3>1 DEF Items
    <3> QED BY <3>1, <3>2, <3>3, SMT DEF Entries
  <2>2. Shot(n) = [i \in 1..n |-> Shot(n)[i]]
    BY DEF Shot
  <2>3. n \in Nat
    BY <1>1, <1>2, SMT
  <2> QED BY <2>1, <2>2, <2>3, SMT
<1>6. Len(Shot(n)) = n
  <2>1. n \in Nat
    BY <1>1, <1>2, SMT
  <2>2. DOMAIN Shot(n) = 1..n
    BY DEF Shot
  <2> QED BY <1>5, <2>1, <2>2, SMT
<1> DEFINE r == [th[t] EXCEPT !.pc = "item", !.room = 0, !.snap = Shot(n)]
<1>7. th' = [th EXCEPT ![t] = r]
  <2>1. [i \in 1..n |-> [s |-> SubSeq(ready, 1, n)[i], watch |-> item[SubSeq(ready, 1, n)[i]].watch,
                         ev |-> item[SubSeq(ready, 1, n)[i]].ev]] = Shot(n)
    BY <1>4 DEF Shot
  <2> QED BY <2>1 DEF SnapshotTake
<1>8. /\ r \in Places /\ Shot(n) \in Snaps(t) /\ t \in Threads /\ r.pc = "item" /\ r.snap = Shot(n)
  <2>1. 0 \in Nat /\ t # Ctl
    BY EpollAssumption
  <2> QED BY <2>1, <1>5 DEF Types, ThreadTypes, Places, PCs, Threads, Snaps
<1> HIDE DEF r
<1>9. Moved(t, "item", Shot(n))
  BY <1>7, <1>8, EntryMoves DEF Types
<1> QED BY <1>2, <1>3, <1>6, <1>9 DEF SnapshotTakeMove

(* The candidate at the head of a snapshot. *)
LEMMA HeadOfSnap ==
  ASSUME ThreadTypes, NEW t \in Waiters, th[t].snap # <<>>
  PROVE  HeadOfSnapFact(t)
<1>1. th[t].snap \in Seq(Entries)
  BY EpollAssumption DEF ThreadTypes, Snaps, Threads
<1>2. Head(th[t].snap) \in Entries /\ Tail(th[t].snap) \in Seq(Entries)
  BY <1>1, SMT
<1>3. Head(th[t].snap).s \in Sockets
  BY <1>2 DEF Entries
<1> QED BY <1>2, <1>3, SMT DEF HeadOfSnapFact

(* A candidate that cannot be polled leaves the snapshot. *)
LEMMA DropMoves ==
  ASSUME ThreadTypes, NEW t \in Waiters, th[t].snap # <<>>,
         th' = [th EXCEPT ![t].snap = Tail(@)]
  PROVE  Moved(t, th[t].pc, Tail(th[t].snap))
<1> DEFINE r == [th[t] EXCEPT !.snap = Tail(th[t].snap)]
<1>1. t \in Threads /\ t # Ctl
  BY EpollAssumption DEF Threads
<1>2. /\ r \in Places /\ Tail(th[t].snap) \in Snaps(t)
      /\ r.pc = th[t].pc /\ r.snap = Tail(th[t].snap)
  BY <1>1, HeadOfSnap DEF ThreadTypes, Places, Snaps, HeadOfSnapFact
<1>3. th' = [th EXCEPT ![t] = r]
  OBVIOUS
<1> HIDE DEF r
<1> QED BY <1>1, <1>2, <1>3, EntryMoves

(* The answer to a poll, for the thread. *)
LEMMA PollReplyMoves ==
  ASSUME ThreadTypes, NEW t \in Waiters, th[t].snap # <<>>, PollReply(t)
  PROVE  Moved(t, "item", Tail(th[t].snap)) /\ call' = NoCall
<1> DEFINE g == IF call.mask \cap epoll_interest(Head(th[t].snap).watch) # {}
                  THEN th[t].got + 1 ELSE th[t].got
           r == [th[t] EXCEPT !.snap = Tail(th[t].snap), !.got = g]
<1>1. t \in Threads /\ t # Ctl
  BY EpollAssumption DEF Threads
<1>2. th[t].got \in Nat /\ th[t] \in Places
  BY <1>1 DEF ThreadTypes, Places
<1>3. g \in Nat
  BY <1>2, SMT
<1>4. th' = [th EXCEPT ![t] = r]
  BY DEF PollReply
<1> HIDE DEF g
<1>5. /\ r \in Places /\ Tail(th[t].snap) \in Snaps(t)
      /\ r.pc = "item" /\ r.snap = Tail(th[t].snap)
  BY <1>1, <1>2, <1>3, HeadOfSnap DEF Places, Snaps, PollReply, HeadOfSnapFact
<1> HIDE DEF r
<1> QED BY <1>1, <1>4, <1>5, EntryMoves DEF PollReply

(* The empty snapshot is a snapshot of every thread. *)
LEMMA EmptySnap == \A t : <<>> \in Snaps(t)
BY SMT DEF Snaps

(* epoll_restore_snapshot() empties the snapshot. *)
LEMMA RestoreMoves ==
  ASSUME ThreadTypes, NEW t \in Waiters, epoll_restore_snapshot(t)
  PROVE  Moved(t, IF Kept(t) # {} THEN "notify" ELSE "decide", <<>>)
<1> DEFINE pc == IF Kept(t) # {} THEN "notify" ELSE "decide"
           r == [th[t] EXCEPT !.snap = <<>>, !.pc = pc]
<1>1. t \in Threads /\ <<>> \in Snaps(t) /\ <<>> \in Seq(Entries)
  BY EmptySnap, SMT DEF Threads
<1>2. th' = [th EXCEPT ![t] = r]
  BY DEF epoll_restore_snapshot, Kept, Held, Queued
<1>3. pc \in PCs
  BY DEF PCs
<1> HIDE DEF pc
<1>4. r \in Places /\ r.pc = pc /\ r.snap = <<>>
  BY <1>1, <1>3 DEF ThreadTypes, Places
<1> HIDE DEF r
<1>5. Moved(t, pc, <<>>)
  BY <1>1, <1>2, <1>4, EntryMoves
<1> QED BY <1>5 DEF pc

(* notify_queue_notify() by a thread. *)
LEMMA NotifyThreadMoves ==
  ASSUME ThreadTypes, NEW t \in Threads, NotifyThread(t)
  PROVE  Moved(t, IF t = Ctl THEN "exit" ELSE "decide", th[t].snap)
<1>1. (IF t = Ctl THEN "exit" ELSE "decide") \in PCs
  BY DEF PCs
<1> QED BY <1>1, GoMoves DEF NotifyThread, GoMove

(* Return, or unlock and sleep. *)
LEMMA DecideMoves ==
  ASSUME ThreadTypes, NEW t \in Waiters, Decide(t)
  PROVE  DecideMove(t)
<1>1. t \in Threads /\ "exit" \in PCs /\ "sleep" \in PCs
  BY DEF Threads, PCs
<1>2. (Go(t, "exit") /\ mtx' = mtx) \/ (Go(t, "sleep") /\ mtx' = "free")
  BY DEF Decide
<1> QED BY <1>1, <1>2, GoMoves DEF GoMove, DecideMove

(* poll() returns to the thread. *)
LEMMA PollReturnsMoves ==
  ASSUME ThreadTypes, NEW t \in Waiters, PollReturns(t)
  PROVE  Moved(t, "relock", th[t].snap) \/ Moved(t, "expired", th[t].snap)
<1>1. t \in Threads /\ "relock" \in PCs /\ "expired" \in PCs
  BY DEF Threads, PCs
<1>2. Go(t, "relock") \/ Go(t, "expired")
  BY DEF PollReturns
<1> QED BY <1>1, <1>2, GoMoves DEF GoMove

(* The mutex is taken again after poll(). *)
LEMMA RelockMoves ==
  ASSUME ThreadTypes, NEW t \in Waiters, Relock(t)
  PROVE  RelockMove(t)
<1>1. t \in Threads /\ "exit" \in PCs /\ "count" \in PCs
  BY DEF Threads, PCs
<1>2. \/ Go(t, "exit") /\ ep' = ep
      \/ Go(t, "count") /\ ep.open /\ ep' = [ep EXCEPT !.efd = FALSE]
  BY DEF Relock
<1> QED BY <1>1, <1>2, GoMoves DEF GoMove, RelockMove

(* Unlock and return. *)
LEMMA ExitMoves ==
  ASSUME ThreadTypes, NEW t \in Threads, Exit(t)
  PROVE  Moved(t, "idle", <<>>)
<1>1. 0 \in Nat /\ <<>> \in Snaps(t) /\ <<>> \in Seq(Sockets)
  BY EmptySnap, SMT
<1>2. IdleThread \in Places /\ IdleThread.pc = "idle" /\ IdleThread.snap = <<>>
  BY <1>1 DEF IdleThread, Places, PCs
<1> QED BY <1>1, <1>2, EntryMoves DEF Exit

-----------------------------------------------------------------------------
(* The same for the control thread. *)

(* A list of a finite set holds each of its elements once. *)
LEMMA OrdersHold ==
  ASSUME NEW S, Cardinality(S) \in Nat, NEW q \in Orders(S)
  PROVE  OrdersHoldFact(S, q)
<1>2. q \in [1..Cardinality(S) -> S]
  BY DEF Orders, Bijection, Injection
<1>3. q \in Seq(S) /\ Len(q) = Cardinality(S)
  BY <1>2, SMT
<1>4. \A i, j \in 1..Cardinality(S) : q[i] = q[j] => i = j
  BY <1>2 DEF Orders, Bijection, Injection, IsInjective
<1>5. \A x \in S : \E i \in 1..Cardinality(S) : q[i] = x
  BY <1>2 DEF Orders, Bijection, Surjection
<1>6. Range(q) = S
  BY <1>2, <1>5 DEF Range
<1> QED BY <1>3, <1>4, <1>6 DEF OrdersHoldFact

(* What req_push_wait() hands over is a request. *)
LEMMA PushTypes ==
  ASSUME NEW s \in Sockets, NEW op \in {"poll", "add", "mod", "del"}, NEW w \in WatchMasks,
         Push(s, op, w)
  PROVE  PushTypesFact(s, op, w)
BY DEF Push, Requests, Replies, PushTypesFact

(* No request is under way. *)
LEMMA NoCallTypes == NoCall \in Requests /\ NoCall.st = "none"
BY DEF NoCall, Requests, WatchMasks, Replies

(* net_epoll_ctl() sends its request. *)
LEMMA CtlCallMoves ==
  ASSUME ThreadTypes, NEW s \in Faulty, NEW op \in {"add", "mod", "del"}, NEW w \in Watches,
         CtlCall(s, op, w)
  PROVE  CtlCallMove(s, op, w)
<1>1. Ctl \in Threads /\ "ctl" \in PCs /\ s \in Sockets /\ w \in WatchMasks
  BY EpollAssumption DEF Threads, PCs, WatchMasks
<1>2. Moved(Ctl, "ctl", th[Ctl].snap)
  BY <1>1, GoMoves DEF CtlCall, GoMove
<1>3. call' \in Requests /\ call'.st = "sent" /\ call'.s = s /\ call'.op = op
  <2>1. op \in {"poll", "add", "mod", "del"} /\ Push(s, op, w)
    BY DEF CtlCall
  <2> QED BY <1>1, <2>1, PushTypes DEF PushTypesFact
<1> QED BY <1>1, <1>2, <1>3 DEF CtlCallMove

(* net_epoll_ctl() returns. *)
LEMMA CtlReturnsMoves ==
  ASSUME ThreadTypes, CtlReturns
  PROVE  Moved(Ctl, "idle", th[Ctl].snap)
<1>1. Ctl \in Threads /\ "idle" \in PCs
  BY DEF Threads, PCs
<1> QED BY <1>1, GoMoves DEF CtlReturns, GoMove

(* req_epoll_close() lists the registered sockets. *)
LEMMA CloseCallMoves ==
  ASSUME Types, CloseCall
  PROVE  \E list \in Seq(Sockets) : Moved(Ctl, "close", list)
<1> DEFINE S == {s \in Sockets : item[s].reg}
           r(list) == [th[Ctl] EXCEPT !.pc = "close", !.snap = list]
<1>1. PICK list \in Orders(S) : th' = [th EXCEPT ![Ctl] = r(list)]
  BY DEF CloseCall
<1>2. list \in Seq(Sockets)
  <2>1. Cardinality(S) \in Nat /\ S \subseteq Sockets
    BY DEF Types, Counted
  <2>2. list \in Seq(S)
    BY <2>1, OrdersHold DEF OrdersHoldFact
  <2> QED BY <2>1, <2>2, SeqInLarger
<1>3. Ctl \in Threads /\ list \in Snaps(Ctl)
  BY <1>2 DEF Threads, Snaps
<1>4. r(list) \in Places /\ r(list).pc = "close" /\ r(list).snap = list
  BY <1>2, <1>3 DEF Types, ThreadTypes, Places, PCs
<1> HIDE DEF r
<1>5. Moved(Ctl, "close", list)
  BY <1>1, <1>3, <1>4, EntryMoves DEF Types
<1> QED BY <1>2, <1>5

(* req_epoll_close() sends the next DEL, or takes its answer. *)
LEMMA CloseNextMoves ==
  ASSUME ThreadTypes, CloseNext
  PROVE  CloseNextMove
<1>1. Ctl \in Threads /\ th[Ctl].snap \in Seq(Sockets) /\ th[Ctl].snap # <<>> /\ th[Ctl].pc = "close"
  BY DEF ThreadTypes, Threads, Snaps, CloseNext
<1>2. Head(th[Ctl].snap) \in Sockets /\ Tail(th[Ctl].snap) \in Seq(Sockets)
  BY <1>1, SMT
<1>3. CASE Push(Head(th[Ctl].snap), "del", {}) /\ UNCHANGED th
  <2>1. {} \in WatchMasks /\ "del" \in {"poll", "add", "mod", "del"}
    BY DEF WatchMasks
  <2> QED BY <1>2, <1>3, <2>1, PushTypes DEF PushTypesFact, CloseNextMove
<1>4. CASE call' = NoCall /\ th' = [th EXCEPT ![Ctl].snap = Tail(@)]
  <2> DEFINE r == [th[Ctl] EXCEPT !.snap = Tail(th[Ctl].snap)]
  <2>1. /\ r \in Places /\ r.pc = "close" /\ r.snap = Tail(th[Ctl].snap)
        /\ Tail(th[Ctl].snap) \in Snaps(Ctl) /\ th' = [th EXCEPT ![Ctl] = r]
    BY <1>1, <1>2, <1>4 DEF ThreadTypes, Places, Snaps
  <2> HIDE DEF r
  <2> QED BY <1>1, <1>4, <2>1, EntryMoves DEF CloseNextMove
<1> QED BY <1>3, <1>4 DEF CloseNext, CloseNextMove

(* req_epoll_close() clears the entry. *)
LEMMA CloseEntryMoves ==
  ASSUME ThreadTypes, CloseEntry
  PROVE  Moved(Ctl, "notify", th[Ctl].snap)
<1>1. Ctl \in Threads /\ "notify" \in PCs
  BY DEF Threads, PCs
<1> QED BY <1>1, GoMoves DEF CloseEntry, GoMove

-----------------------------------------------------------------------------
(* Lists and ready_lock sections. *)

(* The elements of two sequences after each other. *)
LEMMA ConcatIs ==
  ASSUME NEW S, NEW a \in Seq(S), NEW b \in Seq(S)
  PROVE  ConcatEffect(S, a, b)
BY SMT DEF ConcatEffect

(* The elements of a sequence are those at its places. *)
LEMMA RangeIs ==
  ASSUME NEW S, NEW q \in Seq(S)
  PROVE  RangeEffect(S, q)
<1>1. DOMAIN q = 1..Len(q) /\ Len(q) \in Nat /\ \A i \in 1..Len(q) : q[i] \in S
  BY SMT
<1> QED BY <1>1 DEF Range, RangeEffect

(* What is left of a list without one of its elements. *)
LEMMA UnlinkedIs ==
  ASSUME NEW q \in Seq(Sockets), Once(q), NEW s
  PROVE  UnlinkedEffect(q, s)
<1>1. Len(q) \in Nat /\ \A i \in 1..Len(q) : q[i] \in Sockets
  BY SMT
<1>2. CASE s \notin Range(q)
  <2>1. Unlinked(q, s) = q
    BY <1>2 DEF Unlinked
  <2>2. Range(q) \ {s} = Range(q)
    BY <1>2
  <2> QED BY <1>1, <2>1, <2>2, SMT DEF UnlinkedEffect
<1>3. CASE s \in Range(q)
  <2> DEFINE k == CHOOSE j \in 1..Len(q) : q[j] = s
             a == SubSeq(q, 1, k - 1)
             b == SubSeq(q, k + 1, Len(q))
             u == a \o b
  <2>1. k \in 1..Len(q) /\ q[k] = s
    BY <1>3, RangeIs, SMT DEF RangeEffect
  <2>2. Unlinked(q, s) = u
    BY <1>3 DEF Unlinked
  <2> HIDE DEF k
  <2>3. /\ a \in Seq(Sockets) /\ Len(a) = k - 1 /\ \A i \in 1..k - 1 : a[i] = q[i]
        /\ b \in Seq(Sockets) /\ Len(b) = Len(q) - k /\ \A i \in 1..Len(q) - k : b[i] = q[i + k]
    BY <1>1, <2>1, SMT
  <2> HIDE DEF a, b
  <2>4. /\ u \in Seq(Sockets) /\ Len(u) = Len(a) + Len(b)
        /\ \A i \in 1..Len(a) + Len(b) : u[i] = IF i <= Len(a) THEN a[i] ELSE b[i - Len(a)]
    BY <2>3, ConcatIs DEF ConcatEffect
  <2> HIDE DEF u
  <2>5. Len(u) = Len(q) - 1 /\ Len(a) + Len(b) = Len(q) - 1 /\ k \in Int
    BY <1>1, <2>1, <2>3, <2>4, SMT
  <2>6. ASSUME NEW i \in 1..Len(q) - 1 PROVE u[i] = IF i < k THEN q[i] ELSE q[i + 1]
    <3>0. u[i] = IF i <= Len(a) THEN a[i] ELSE b[i - Len(a)]
      BY <2>4, <2>5
    <3>1. CASE i < k
      <4>1. i \in 1..k - 1 /\ i <= Len(a)
        BY <1>1, <2>1, <2>3, <3>1, SMT
      <4> QED BY <2>3, <3>0, <3>1, <4>1
    <3>2. CASE ~(i < k)
      <4>1. /\ i - Len(a) \in 1..Len(q) - k /\ ~ (i <= Len(a)) /\ i - Len(a) + k = i + 1
        BY <1>1, <2>1, <2>3, <3>2, SMT
      <4>2. b[i - Len(a)] = q[i - Len(a) + k]
        BY <2>3, <4>1
      <4> QED BY <3>0, <3>2, <4>1, <4>2
    <3> QED BY <3>1, <3>2
  <2>7. Once(u)
    <3> SUFFICES ASSUME NEW i \in 1..Len(u), NEW j \in 1..Len(u), u[i] = u[j] PROVE i = j
      BY DEF Once
    <3>1. /\ i \in 1..Len(q) /\ i + 1 \in 1..Len(q) /\ j \in 1..Len(q) /\ j + 1 \in 1..Len(q)
          /\ i \in 1..Len(q) - 1 /\ j \in 1..Len(q) - 1
      BY <1>1, <2>5, SMT
    <3>2. (IF i < k THEN q[i] ELSE q[i + 1]) = IF j < k THEN q[j] ELSE q[j + 1]
      BY <2>6, <3>1
    <3>3. (IF i < k THEN i ELSE i + 1) = IF j < k THEN j ELSE j + 1
      BY <3>1, <3>2 DEF Once
    <3> QED BY <2>5, <3>1, <3>3, SMT
  <2>8. ASSUME NEW x \in Range(u) PROVE x \in Range(q) \ {s}
    <3>1. PICK i \in 1..Len(u) : u[i] = x
      BY <2>4, RangeIs, SMT DEF RangeEffect
    <3> DEFINE j == IF i < k THEN i ELSE i + 1
    <3>2. j \in 1..Len(q) /\ q[j] = x /\ j # k
      BY <1>1, <2>1, <2>5, <2>6, <3>1, SMTT(30)
    <3> HIDE DEF j
    <3>3. x # s
      BY <2>1, <3>2 DEF Once
    <3> QED BY <3>2, <3>3, RangeIs, SMT DEF RangeEffect
  <2>9. ASSUME NEW x \in Range(q) \ {s} PROVE x \in Range(u)
    <3>1. PICK j \in 1..Len(q) : q[j] = x
      BY RangeIs, SMT DEF RangeEffect
    <3>2. j # k
      BY <2>1, <3>1
    <3>3. CASE j < k
      <4>1. j \in 1..Len(u) /\ u[j] = x
        BY <1>1, <2>1, <2>5, <2>6, <3>1, <3>3, SMT
      <4> QED BY <2>4, <4>1, RangeIs, SMT DEF RangeEffect
    <3>4. CASE j > k
      <4>1. j - 1 \in 1..Len(u) /\ u[j - 1] = x
        BY <1>1, <2>1, <2>5, <2>6, <3>1, <3>4, SMT
      <4> QED BY <2>4, <4>1, RangeIs, SMT DEF RangeEffect
    <3> QED BY <1>1, <2>1, <3>2, <3>3, <3>4, SMT
  <2>10. Range(u) = Range(q) \ {s}
    BY <2>8, <2>9
  <2>11. Len(u) <= Len(q)
    BY <1>1, <2>5, SMT
  <2> QED BY <2>2, <2>4, <2>7, <2>10, <2>11 DEF UnlinkedEffect
<1> QED BY <1>2, <1>3 DEF UnlinkedEffect

(* Two lists that have no element in common. *)
LEMMA JoinedIs ==
  ASSUME NEW a \in Seq(Sockets), NEW b \in Seq(Sockets), Once(a), Once(b),
         Range(a) \cap Range(b) = {}
  PROVE  JoinedEffect(a, b)
<1>1. /\ Len(a) \in Nat /\ Len(b) \in Nat
      /\ \A i \in 1..Len(a), j \in 1..Len(b) : a[i] # b[j]
  <2>1. /\ Len(a) \in Nat /\ Range(a) = {a[i] : i \in 1..Len(a)}
        /\ Len(b) \in Nat /\ Range(b) = {b[i] : i \in 1..Len(b)}
    BY RangeIs DEF RangeEffect
  <2> QED BY <2>1
<1>2. /\ a \o b \in Seq(Sockets) /\ Len(a \o b) = Len(a) + Len(b)
      /\ \A i \in 1..Len(a) + Len(b) : (a \o b)[i] = IF i <= Len(a) THEN a[i] ELSE b[i - Len(a)]
  BY SMT
<1> DEFINE u == a \o b
<1> HIDE DEF u
<1>3. Once(u)
  <2> SUFFICES ASSUME NEW i \in 1..Len(u), NEW j \in 1..Len(u), u[i] = u[j] PROVE i = j
    BY DEF Once
  <2>1. /\ i <= Len(a) => i \in 1..Len(a) /\ u[i] = a[i]
        /\ ~(i <= Len(a)) => i - Len(a) \in 1..Len(b) /\ u[i] = b[i - Len(a)]
    BY <1>1, <1>2, SMT DEF u
  <2>2. /\ j <= Len(a) => j \in 1..Len(a) /\ u[j] = a[j]
        /\ ~(j <= Len(a)) => j - Len(a) \in 1..Len(b) /\ u[j] = b[j - Len(a)]
    BY <1>1, <1>2, SMT DEF u
  <2>3. i <= Len(a) <=> j <= Len(a)
    BY <1>1, <2>1, <2>2
  <2>4. CASE i <= Len(a)
    BY <2>1, <2>2, <2>3, <2>4 DEF Once
  <2>5. CASE ~(i <= Len(a))
    <3>1. i - Len(a) = j - Len(a)
      BY <2>1, <2>2, <2>3, <2>5 DEF Once
    <3>2. i \in Int /\ j \in Int
      BY <1>1, <1>2, SMT DEF u
    <3> QED BY <1>1, <3>1, <3>2, SMT
  <2> QED BY <2>4, <2>5
<1>4. Range(u) = Range(a) \cup Range(b)
  <2>1. /\ Range(u) = {u[i] : i \in 1..Len(u)} /\ Range(a) = {a[i] : i \in 1..Len(a)}
        /\ Range(b) = {b[i] : i \in 1..Len(b)}
    <3>1. u \in Seq(Sockets)
      BY <1>2 DEF u
    <3>2. RangeEffect(Sockets, u) /\ RangeEffect(Sockets, a) /\ RangeEffect(Sockets, b)
      BY <3>1, RangeIs
    <3> QED BY <3>2 DEF RangeEffect
  <2>2. ASSUME NEW x \in Range(u) PROVE x \in Range(a) \cup Range(b)
    <3>1. PICK i \in 1..Len(a) + Len(b) : x = u[i]
      BY <1>2, <2>1 DEF u
    <3>2. \/ i \in 1..Len(a) /\ x = a[i]
          \/ i - Len(a) \in 1..Len(b) /\ x = b[i - Len(a)]
      BY <1>1, <1>2, <3>1, SMT DEF u
    <3> QED BY <2>1, <3>2
  <2>3. ASSUME NEW x \in Range(a) PROVE x \in Range(u)
    <3>1. PICK i \in 1..Len(a) : x = a[i]
      BY <2>1
    <3>2. i \in 1..Len(u) /\ u[i] = x
      BY <1>1, <1>2, <3>1, SMT DEF u
    <3> QED BY <2>1, <3>2
  <2>4. ASSUME NEW x \in Range(b) PROVE x \in Range(u)
    <3>1. PICK i \in 1..Len(b) : x = b[i]
      BY <2>1
    <3>2. i + Len(a) \in 1..Len(u) /\ u[i + Len(a)] = x
      BY <1>1, <1>2, <3>1, SMT DEF u
    <3> QED BY <2>1, <3>2
  <2> QED BY <2>2, <2>3, <2>4
<1> QED BY <1>2, <1>3, <1>4 DEF u, JoinedEffect

(* A list with a new element at its head. *)
LEMMA LinkedIs ==
  ASSUME NEW q \in Seq(Sockets), Once(q), NEW s \in Sockets, s \notin Range(q)
  PROVE  LinkedEffect(q, s)
<1> DEFINE u == <<s>>
<1>1. u \in Seq(Sockets) /\ Len(u) = 1 /\ u[1] = s
  BY SMT
<1> HIDE DEF u
<1>2. Range(u) = {u[i] : i \in 1..Len(u)}
  BY <1>1, RangeIs DEF RangeEffect
<1>3. Range(u) = {s} /\ Once(u)
  BY <1>1, <1>2, SMT DEF Once
<1>4. u \o q \in Seq(Sockets) /\ Once(u \o q) /\ Range(u \o q) = Range(u) \cup Range(q)
  <2>1. Range(u) \cap Range(q) = {}
    BY <1>3
  <2> QED BY <1>1, <1>3, <2>1, JoinedIs DEF JoinedEffect
<1> QED BY <1>3, <1>4 DEF u, LinkedEffect

(* protocol_ops->poll() returns events. *)
LEMMA PollEvents == ASSUME NEW s \in Sockets PROVE Poll(s) \in SUBSET Events
BY DEF Poll, Events

(* epoll_update_ready_locked(): the item and the list agree afterwards, and *)
(* the list has not grown unless the caller is told to wake a waiter.       *)
LEMMA UpdateReadyIs ==
  ASSUME ListTypes, NEW s \in Sockets, NEW it \in Items, NEW events \in SUBSET Events,
         NEW merge \in BOOLEAN, UpdateReady(s, it, events, merge)
  PROVE  UpdateReadyEffect(s, it, events, merge)
<1> DEFINE new == Fresh(it, events, merge)
<1>1. new \in SUBSET Events
  <2>1. it.ev \in SUBSET Events
    BY DEF Items
  <2> QED BY <2>1 DEF Fresh
<1>2. /\ item' = [item EXCEPT ![s] = [it EXCEPT !.ev = new]]
      /\ ready' = CASE new = {} -> Unlinked(ready, s)
                    [] new # {} /\ s \notin Range(ready) -> <<s>> \o ready
                    [] OTHER -> ready
      /\ Wakes(s, it, events, merge) <=> new # {} /\ (s \notin Range(ready) \/ new # it.ev)
  BY DEF UpdateReady, Wakes
<1> HIDE DEF new
<1>3. [it EXCEPT !.ev = new] \in Items
  BY <1>1 DEF Items
<1>4. /\ item' \in [Sockets -> Items] /\ item'[s] = [it EXCEPT !.ev = new]
      /\ \A x \in Sockets : x # s => item'[x] = item[x]
  BY <1>2, <1>3 DEF ListTypes
<1>5. ready \in Seq(Sockets) /\ Once(ready) /\ Len(ready) \in Nat
  BY SMT DEF ListTypes
<1>6. CASE new = {}
  <2>1. ready' = Unlinked(ready, s)
    BY <1>2, <1>6
  <2> QED BY <1>4, <1>5, <1>6, <2>1, UnlinkedIs DEF new, UnlinkedEffect, UpdateReadyEffect
<1>7. CASE new # {} /\ s \notin Range(ready)
  <2>1. ready' = <<s>> \o ready
    BY <1>2, <1>7
  <2>2. Wakes(s, it, events, merge)
    BY <1>2, <1>7
  <2> QED BY <1>4, <1>5, <1>7, <2>1, <2>2, LinkedIs DEF new, LinkedEffect, UpdateReadyEffect
<1>8. CASE new # {} /\ s \in Range(ready)
  <2>1. ready' = ready
    BY <1>2, <1>8
  <2>2. Range(ready) \cup {s} = Range(ready)
    BY <1>8
  <2> QED BY <1>4, <1>5, <1>8, <2>1, <2>2, SMT DEF new, UpdateReadyEffect
<1> QED BY <1>6, <1>7, <1>8 DEF UpdateReadyEffect

-----------------------------------------------------------------------------
(* What changes of the epoll object and of an item. *)

(* A new count in the object. *)
LEMMA EpRefs ==
  ASSUME ListTypes, NEW n \in Int, NEW e, e = [ep EXCEPT !.refs = n]
  PROVE  e \in Eps /\ e.open = ep.open /\ e.efd = ep.efd /\ e.refs = n
BY DEF ListTypes, Eps

(* The count of the object is an integer and can be changed by one. *)
LEMMA EpRefsInt == ListTypes => ep.refs \in Int /\ ep.refs + 1 \in Int /\ ep.refs - 1 \in Int
<1>1. ListTypes => ep.refs \in Int
  BY DEF ListTypes
<1> QED BY <1>1, SMT

(* What the last PUT_REF() of an item does to the object. *)
LEMMA EpPut ==
  ASSUME ListTypes, NEW it
  PROVE  EpPutFact(it)
<1> DEFINE n == IF it.refs = 1 THEN ep.refs - 1 ELSE ep.refs
<1>1. n \in Int
  BY EpRefsInt
<1>2. EpAfterPut(it) = [ep EXCEPT !.refs = n]
  BY DEF EpAfterPut
<1> HIDE DEF n
<1>3. /\ EpAfterPut(it) \in Eps /\ EpAfterPut(it).open = ep.open
      /\ EpAfterPut(it).efd = ep.efd /\ EpAfterPut(it).refs = n
  BY <1>1, <1>2, EpRefs
<1> QED BY <1>3 DEF n, EpPutFact

(* The eventfd changes, and nothing else in the object. *)
LEMMA EpEfd ==
  ASSUME ListTypes, NEW b \in BOOLEAN, ep' = [ep EXCEPT !.efd = b]
  PROVE  EpEfdFact(b)
BY DEF ListTypes, Eps, EpEfdFact

(* The entry is cleared, and nothing else in the object changes. *)
LEMMA EpClose ==
  ASSUME ListTypes, ep' = [ep EXCEPT !.open = FALSE]
  PROVE  EpCloseFact
BY DEF ListTypes, Eps, EpCloseFact

(* A socket that is not registered. *)
LEMMA NoItemIs ==
  /\ NoItem \in Items /\ NoItem.reg = FALSE /\ NoItem.useful = FALSE /\ NoItem.ev = {}
  /\ NoItem.refs = 0 /\ NoItem.watch = {}
BY SMT DEF NoItem, Items, WatchMasks

(* PUT_REF() of an item. *)
LEMMA PutItemIs ==
  ASSUME NEW it \in Items
  PROVE  PutItemEffect(it)
<1>1. it.refs \in Int
  BY DEF Items
<1>2. CASE it.refs = 1
  <2>1. PutItem(it) = NoItem
    BY <1>2 DEF PutItem
  <2>2. it.refs - 1 = 0
    BY <1>2, SMT
  <2> QED BY <1>2, <2>1, <2>2, NoItemIs DEF PutItemEffect
<1>3. CASE it.refs # 1
  <2> DEFINE n == it.refs - 1
  <2>1. n \in Int
    BY <1>1, SMT
  <2>2. PutItem(it) = [it EXCEPT !.refs = n]
    BY <1>3 DEF PutItem
  <2> HIDE DEF n
  <2>3. /\ PutItem(it) \in Items /\ PutItem(it).refs = n
        /\ PutItem(it).reg = it.reg /\ PutItem(it).useful = it.useful
        /\ PutItem(it).watch = it.watch /\ PutItem(it).ev = it.ev
    BY <2>1, <2>2 DEF Items
  <2> QED BY <1>3, <2>3 DEF n, PutItemEffect
<1> QED BY <1>2, <1>3 DEF PutItemEffect

(* An item loses a reference. *)
LEMMA DropItem ==
  ASSUME ListTypes, NEW s \in Sockets, item' = [item EXCEPT ![s] = PutItem(@)]
  PROVE  DropItemFact(s)
<1>1. item \in [Sockets -> Items] /\ item[s] \in Items
  BY DEF ListTypes
<1>2. PutItem(item[s]) \in Items
  BY <1>1, PutItemIs DEF PutItemEffect
<1> QED BY <1>1, <1>2 DEF DropItemFact

(* epoll_item_unregister(): the item leaves the list, loses the reference   *)
(* of its registration and is useless from then on.                        *)
LEMMA UnregisterIs ==
  ASSUME ListTypes, NEW s \in Sockets, epoll_item_unregister(s)
  PROVE  UnregisterEffect(s)
<1> DEFINE i1 == [item[s] EXCEPT !.reg = FALSE, !.useful = FALSE]
           i2 == PutItem(i1)
<1>1. UpdateReady(s, i2, {}, FALSE) /\ ep' = EpAfterPut(item[s])
  BY DEF epoll_item_unregister
<1>2. item[s] \in Items
  BY DEF ListTypes
<1>3. i1 \in Items /\ i1.reg = FALSE /\ i1.useful = FALSE /\ i1.refs = item[s].refs
  BY <1>2 DEF Items
<1> HIDE DEF i1
<1>4. i2 \in Items /\ i2.reg = FALSE /\ i2.useful = FALSE /\ i2.refs = item[s].refs - 1
  BY <1>3, PutItemIs, NoItemIs DEF PutItemEffect
<1> HIDE DEF i2
<1>5. Fresh(i2, {}, FALSE) = {} /\ ~ Wakes(s, i2, {}, FALSE)
  BY DEF Fresh, Wakes
<1>6. /\ ready' \in Seq(Sockets) /\ Once(ready') /\ Range(ready') = Range(ready) \ {s}
      /\ Len(ready') <= Len(ready)
      /\ item' \in [Sockets -> Items] /\ \A x \in Sockets : x # s => item'[x] = item[x]
      /\ item'[s] = [i2 EXCEPT !.ev = {}]
  <2>1. {} \in SUBSET Events /\ FALSE \in BOOLEAN
    OBVIOUS
  <2>2. /\ ready' \in Seq(Sockets) /\ Once(ready')
        /\ item' \in [Sockets -> Items]
        /\ item'[s] = [i2 EXCEPT !.ev = Fresh(i2, {}, FALSE)]
        /\ \A x \in Sockets : x # s => item'[x] = item[x]
        /\ Range(ready') = IF Fresh(i2, {}, FALSE) = {} THEN Range(ready) \ {s}
                                                         ELSE Range(ready) \cup {s}
        /\ Wakes(s, i2, {}, FALSE) \/ Len(ready') <= Len(ready)
    BY <1>1, <1>4, <2>1, UpdateReadyIs DEF UpdateReadyEffect
  <2> QED BY <1>5, <2>2
<1>7. /\ item'[s].reg = FALSE /\ item'[s].useful = FALSE /\ item'[s].ev = {}
      /\ item'[s].refs = i2.refs
  BY <1>4, <1>6 DEF Items
<1> QED BY <1>1, <1>4, <1>6, <1>7 DEF UnregisterEffect

-----------------------------------------------------------------------------
(* What the workers' steps do. *)

(* epoll_update_ready_locked() relinks the node of its item only. *)
LEMMA UpdateReadyRelists ==
  ASSUME ListTypes, NEW s \in Sockets, NEW it \in Items, NEW events \in SUBSET Events,
         NEW merge \in BOOLEAN, UpdateReady(s, it, events, merge)
  PROVE  UpdateReadyRelistsFact(s, it, events, merge)
<1>1. /\ ready' \in Seq(Sockets) /\ Once(ready')
      /\ item' \in [Sockets -> Items]
      /\ item'[s] = [it EXCEPT !.ev = Fresh(it, events, merge)]
      /\ \A x \in Sockets : x # s => item'[x] = item[x]
      /\ Range(ready') = IF Fresh(it, events, merge) = {} THEN Range(ready) \ {s}
                                                          ELSE Range(ready) \cup {s}
      /\ Wakes(s, it, events, merge) \/ Len(ready') <= Len(ready)
  BY UpdateReadyIs, SMT DEF UpdateReadyEffect
<1>2. /\ item'[s].reg = it.reg /\ item'[s].useful = it.useful /\ item'[s].watch = it.watch
      /\ item'[s].refs = it.refs /\ item'[s].ev = Fresh(it, events, merge)
  BY <1>1 DEF Items
<1>3. Relisted(s)
  BY <1>1, <1>2 DEF Relisted
<1> QED BY <1>1, <1>2, <1>3 DEF UpdateReadyRelistsFact

(* A ready_lock section of a worker and what follows it. *)
LEMMA UpdateIs ==
  ASSUME Types, NEW s \in Sockets, NEW it \in Items, NEW events \in SUBSET Events,
         NEW merge \in BOOLEAN, NEW reply \in SUBSET Events, Update(s, it, events, merge, reply)
  PROVE  UpdateEffect(s, it, events, merge, reply)
<1>1. /\ Relisted(s)
      /\ item'[s].reg = it.reg /\ item'[s].useful = it.useful /\ item'[s].watch = it.watch
      /\ item'[s].refs = it.refs /\ item'[s].ev = Fresh(it, events, merge)
      /\ Wakes(s, it, events, merge) \/ Len(ready') <= Len(ready)
  BY UpdateReadyRelists DEF Update, Types, UpdateReadyRelistsFact
<1>2. reply \in Replies /\ reply # NoReply
  BY DEF Replies, Events, NoReply
<1>3. CASE /\ wk' = [wk EXCEPT ![s].pc = "notify", ![s].reply = reply]
           /\ call' = call
  <2>1. Served(s, "notify", wk[s].todo, wk[s].ev, reply)
    BY <1>2, <1>3 DEF Served, Types, WorkTypes, Serves
  <2>2. call' \in Requests
    BY <1>3 DEF Types, ThreadTypes
  <2> QED BY <1>1, <1>3, <2>1, <2>2 DEF Replied, UpdateEffect
<1>4. CASE Answer(s, reply) /\ ~ Wakes(s, it, events, merge)
  <2>1. /\ Served(s, IF reply = NoReply THEN "walk" ELSE "idle", wk[s].todo, wk[s].ev, NoReply)
        /\ call' = IF reply = NoReply THEN call ELSE [call EXCEPT !.st = "done", !.mask = reply]
        /\ call' \in Requests
    BY <1>2, <1>4, AnswerServes DEF AnswerServesFact
  <2>2. /\ Served(s, "idle", wk[s].todo, wk[s].ev, NoReply)
        /\ call' = [call EXCEPT !.st = "done", !.mask = reply]
    BY <1>2, <2>1
  <2> QED BY <1>1, <1>4, <2>1, <2>2 DEF Replied, UpdateEffect
<1> QED BY <1>3, <1>4 DEF Update, UpdateEffect

(* The answer to a request that changed no item. *)
LEMMA RefusedIs ==
  ASSUME Types, NEW s \in Sockets, Answer(s, {})
  PROVE  RefusedEffect(s)
<1>1. {} \in Replies /\ {} # NoReply
  BY DEF Replies, NoReply
<1>2. /\ Served(s, IF {} = NoReply THEN "walk" ELSE "idle", wk[s].todo, wk[s].ev, NoReply)
      /\ call' = IF {} = NoReply THEN call ELSE [call EXCEPT !.st = "done", !.mask = {}]
      /\ call' \in Requests
  BY <1>1, AnswerServes DEF AnswerServesFact
<1> QED BY <1>1, <1>2 DEF RefusedEffect

(* _poll() with epoll_poll_complete(). *)
LEMMA PollIs ==
  ASSUME Types, NEW s \in Sockets, _poll(s)
  PROVE  PollEffect(s)
<1> DEFINE events == IF "et" \in item[s].watch THEN {} ELSE Poll(s)
<1>1. item[s] \in Items /\ events \in SUBSET Events /\ Poll(s) \in SUBSET Events /\ FALSE \in BOOLEAN
  BY PollEvents DEF Types, ListTypes
<1>2. Update(s, item[s], events, FALSE, Poll(s))
  BY DEF _poll
<1> HIDE DEF events
<1>3. /\ Relisted(s) /\ Replied(s, Poll(s)) /\ call' \in Requests
      /\ item'[s].reg = item[s].reg /\ item'[s].useful = item[s].useful
      /\ item'[s].watch = item[s].watch
      /\ item'[s].refs = item[s].refs /\ item'[s].ev = Fresh(item[s], events, FALSE)
  BY <1>1, <1>2, UpdateIs, ZenonT(30) DEF UpdateEffect
<1>4. Fresh(item[s], events, FALSE) = events \cap epoll_interest(item[s].watch)
  BY DEF Fresh
<1>5. "et" \notin item[s].watch => events = Poll(s)
  BY DEF events
<1> QED BY <1>1, <1>3, <1>4, <1>5 DEF PollEffect

(* epoll_ctl_add(). *)
LEMMA AddIs ==
  ASSUME Types, NEW s \in Sockets, epoll_ctl_add(s), ~ item[s].reg
  PROVE  AddEffect(s)
<1> DEFINE it == [reg |-> TRUE, useful |-> TRUE, watch |-> call.watch, ev |-> {}, refs |-> 1]
<1>1. call.watch \in WatchMasks
  BY DEF Types, ThreadTypes, Requests
<1>2. it \in Items /\ it.reg = TRUE /\ it.useful = TRUE /\ it.refs = 1
  BY <1>1, SMT DEF Items
<1>3. Update(s, it, Poll(s), FALSE, {}) /\ ep' = [ep EXCEPT !.refs = @ + 1]
  BY DEF epoll_ctl_add
<1>4. Poll(s) \in SUBSET Events /\ FALSE \in BOOLEAN /\ {} \in SUBSET Events
  BY PollEvents
<1> HIDE DEF it
<1>5. /\ Relisted(s) /\ Replied(s, {}) /\ call' \in Requests
      /\ item'[s].reg = it.reg /\ item'[s].useful = it.useful /\ item'[s].watch = it.watch
      /\ item'[s].refs = it.refs /\ item'[s].ev = Fresh(it, Poll(s), FALSE)
  BY <1>2, <1>3, <1>4, UpdateIs, ZenonT(30) DEF UpdateEffect
<1>6. Fresh(it, Poll(s), FALSE) = Poll(s) \cap epoll_interest(it.watch)
  BY DEF Fresh
<1> QED BY <1>2, <1>3, <1>5, <1>6 DEF AddEffect

(* epoll_ctl_mod(). *)
LEMMA ModIs ==
  ASSUME Types, NEW s \in Sockets, epoll_ctl_mod(s), item[s].reg
  PROVE  ModEffect(s)
<1> DEFINE it == [item[s] EXCEPT !.watch = call.watch]
<1>1. call.watch \in WatchMasks /\ item[s] \in Items /\ item[s].reg = TRUE
  BY DEF Types, ThreadTypes, Requests, ListTypes, Items
<1>2. /\ it \in Items /\ it.reg = TRUE /\ it.useful = item[s].useful /\ it.refs = item[s].refs
      /\ it.watch = call.watch /\ it.ev = item[s].ev
  BY <1>1 DEF Items
<1>3. Poll(s) \in SUBSET Events /\ FALSE \in BOOLEAN /\ {} \in SUBSET Events
  BY PollEvents
<1>4. \/ Update(s, it, Poll(s), FALSE, {})
      \/ /\ item' = [item EXCEPT ![s] = it] /\ Answer(s, {}) /\ ready' = ready
         /\ Poll(s) \cap epoll_interest(call.watch) = {}
  BY <1>1 DEF epoll_ctl_mod
<1> HIDE DEF it
<1>5. CASE Update(s, it, Poll(s), FALSE, {})
  <2>1. /\ Relisted(s) /\ Replied(s, {}) /\ call' \in Requests
        /\ item'[s].reg = it.reg /\ item'[s].useful = it.useful /\ item'[s].watch = it.watch
        /\ item'[s].refs = it.refs /\ item'[s].ev = Fresh(it, Poll(s), FALSE)
    BY <1>2, <1>3, <1>5, UpdateIs DEF UpdateEffect
  <2>2. Fresh(it, Poll(s), FALSE) = Poll(s) \cap epoll_interest(it.watch)
    BY DEF Fresh
  <2>3. item' \in [Sockets -> Items] /\ \A x \in Sockets : x # s => item'[x] = item[x]
    BY <2>1 DEF Relisted
  <2> QED BY <1>2, <2>1, <2>2, <2>3 DEF ModEffect
<1>6. CASE /\ item' = [item EXCEPT ![s] = it] /\ Answer(s, {}) /\ ready' = ready
           /\ Poll(s) \cap epoll_interest(call.watch) = {}
  <2>1. /\ Served(s, "idle", wk[s].todo, wk[s].ev, NoReply)
        /\ call' = [call EXCEPT !.st = "done", !.mask = {}] /\ call' \in Requests
    BY <1>6, RefusedIs DEF RefusedEffect
  <2>2. Len(ready') <= Len(ready)
    <3>1. Len(ready) \in Nat
      BY SMT DEF Types, ListTypes
    <3> QED BY <1>6, <3>1, SMT
  <2>3. Replied(s, {})
    BY <2>1, <2>2 DEF Replied
  <2>4. item \in [Sockets -> Items]
    BY DEF Types, ListTypes
  <2>5. item' \in [Sockets -> Items] /\ item'[s] = it /\ \A x \in Sockets : x # s => item'[x] = item[x]
    BY <1>2, <1>6, <2>4
  <2> QED BY <1>2, <1>6, <2>1, <2>3, <2>5 DEF ModEffect
<1> QED BY <1>4, <1>5, <1>6 DEF ModEffect

(* EEXIST and ENOENT: nothing but the answer. *)
LEMMA RefusedCtlIs ==
  ASSUME Types, NEW s \in Sockets,
         \/ epoll_ctl_add(s) /\ item[s].reg
         \/ epoll_ctl_mod(s) /\ ~ item[s].reg
         \/ epoll_ctl_del(s) /\ ~ item[s].reg
  PROVE  UNCHANGED <<ep, ready, item, mtx, sk, th>> /\ Answer(s, {})
BY DEF epoll_ctl_add, epoll_ctl_mod, epoll_ctl_del

(* epoll_ctl_del(). *)
LEMMA DelIs ==
  ASSUME Types, NEW s \in Sockets, epoll_ctl_del(s), item[s].reg
  PROVE  epoll_item_unregister(s) /\ Answer(s, {})
BY DEF epoll_ctl_del

(* notify_queue_notify() by a worker. *)
LEMMA NotifyWorkerIs ==
  ASSUME Types, NEW s \in Sockets, NotifyWorker(s)
  PROVE  NotifyWorkerEffect(s)
<1>1. wk[s].reply \in Replies /\ Answer(s, wk[s].reply)
  BY DEF Types, WorkTypes, Serves, NotifyWorker
<1> DEFINE reply == wk[s].reply
<1> HIDE DEF reply
<1>2. /\ Served(s, IF reply = NoReply THEN "walk" ELSE "idle", wk[s].todo, wk[s].ev, NoReply)
      /\ call' = IF reply = NoReply THEN call ELSE [call EXCEPT !.st = "done", !.mask = reply]
      /\ call' \in Requests
  BY <1>1, AnswerServes DEF reply, AnswerServesFact
<1>3. CASE reply = NoReply
  BY <1>2, <1>3 DEF reply, NotifyWorkerEffect
<1>4. CASE reply # NoReply
  BY <1>2, <1>4 DEF reply, NotifyWorkerEffect
<1> QED BY <1>3, <1>4

-----------------------------------------------------------------------------
(* What else happens to a socket. *)

(* A socket is replaced. *)
LEMMA SockedIs ==
  ASSUME Types, NEW s \in Sockets, NEW so \in Socks, sk' = [sk EXCEPT ![s] = so]
  PROVE  Socked(s) /\ sk'[s] = so
BY DEF Types, WorkTypes, Socked

(* The fields of a socket have their types. *)
LEMMA SockTypes ==
  ASSUME Types, NEW s \in Sockets
  PROVE  SockTypesFact(s)
BY DEF Types, WorkTypes, Socks, SockTypesFact

(* The fields of a socket, one changed at a time. *)
LEMMA SocksIs ==
  ASSUME NEW so \in Socks
  PROVE  SocksEffect(so)
BY DEF Socks, SocksEffect

(* socket_notify_event() keeps the bit, and registers the task for a waiter. *)
LEMMA NotifiedIs ==
  ASSUME NEW s \in Sockets, NEW so \in Socks, NEW ev \in Events
  PROVE  NotifiedEffect(s, so, ev)
<1> DEFINE b == so.bits \cup {ev}
           t == so.task \/ HasWaiter(s)
<1>1. b \in SUBSET Events /\ t \in BOOLEAN
  BY SocksIs DEF SocksEffect
<1>2. Notified(s, so, ev) = [so EXCEPT !.bits = b, !.task = t]
  BY DEF Notified
<1> HIDE DEF b, t
<1>3. /\ Notified(s, so, ev) \in Socks
      /\ Notified(s, so, ev).bits = b /\ Notified(s, so, ev).task = t
      /\ Notified(s, so, ev).st = so.st /\ Notified(s, so, ev).data = so.data
      /\ Notified(s, so, ev).err = so.err /\ Notified(s, so, ev).parked = so.parked
  BY <1>1, <1>2 DEF Socks
<1> QED BY <1>3 DEF b, t, NotifiedEffect

(* socket_recv_skb(): data and a notification. *)
LEMMA ArriveIs ==
  ASSUME Types, NEW s \in Sockets, Arrive(s)
  PROVE  ArriveEffect(s)
<1> DEFINE one == 1
           s1 == [sk[s] EXCEPT !.data = one]
           so == Notified(s, s1, "in")
<1>1. sk' = [sk EXCEPT ![s] = so] /\ sk[s].st = "open"
  BY DEF Arrive, Serving
<1>2. sk[s] \in Socks /\ "in" \in Events /\ one \in {0, 1}
  BY SockTypes DEF Events, SockTypesFact
<1> HIDE DEF one
<1>3. /\ s1 \in Socks /\ s1.st = sk[s].st /\ s1.err = sk[s].err
      /\ s1.bits = sk[s].bits /\ s1.task = sk[s].task /\ s1.parked = sk[s].parked
  BY <1>2 DEF Socks
<1> HIDE DEF s1
<1>4. /\ so \in Socks /\ so.bits = s1.bits \cup {"in"} /\ so.task = (s1.task \/ HasWaiter(s))
      /\ so.st = s1.st /\ so.err = s1.err /\ so.parked = s1.parked
  BY <1>2, <1>3, NotifiedIs DEF NotifiedEffect
<1> HIDE DEF so
<1>5. Socked(s) /\ sk'[s] = so
  BY <1>1, <1>4, SockedIs
<1> QED BY <1>1, <1>3, <1>4, <1>5 DEF ArriveEffect

(* An error and a notification. *)
LEMMA FailIs ==
  ASSUME Types, NEW s \in Sockets, Fail(s)
  PROVE  FailEffect(s)
<1> DEFINE b == TRUE
           s1 == [sk[s] EXCEPT !.err = b]
           so == Notified(s, s1, "err")
<1>1. sk' = [sk EXCEPT ![s] = so] /\ sk[s].st = "open"
  BY DEF Fail, Serving
<1>2. sk[s] \in Socks /\ "err" \in Events /\ b \in BOOLEAN
  BY SockTypes DEF Events, SockTypesFact
<1> HIDE DEF b
<1>3. /\ s1 \in Socks /\ s1.st = sk[s].st /\ s1.data = sk[s].data
      /\ s1.bits = sk[s].bits /\ s1.task = sk[s].task /\ s1.parked = sk[s].parked
  BY <1>2 DEF Socks
<1> HIDE DEF s1
<1>4. /\ so \in Socks /\ so.bits = s1.bits \cup {"err"} /\ so.task = (s1.task \/ HasWaiter(s))
      /\ so.st = s1.st /\ so.data = s1.data /\ so.parked = s1.parked
  BY <1>2, <1>3, NotifiedIs DEF NotifiedEffect
<1> HIDE DEF so
<1>5. Socked(s) /\ sk'[s] = so
  BY <1>1, <1>4, SockedIs
<1> QED BY <1>1, <1>3, <1>4, <1>5 DEF FailEffect

(* A read leaves the socket no more readable than it was. *)
LEMMA TakeIs ==
  ASSUME NEW so \in Socks
  PROVE  TakeEffect(so)
<1> DEFINE zero == 0
           b == FALSE
<1>1. zero \in {0, 1} /\ b \in BOOLEAN /\ zero \in {0, so.data} /\ b \in {FALSE, so.err}
      /\ so.data \in {0, so.data} /\ so.err \in {FALSE, so.err}
  OBVIOUS
<1>2. Take(so) = [so EXCEPT !.data = zero] \/ Take(so) = [so EXCEPT !.err = b]
  BY DEF Take
<1> HIDE DEF zero, b
<1>3. CASE Take(so) = [so EXCEPT !.data = zero]
  <2>1. /\ Take(so) \in Socks /\ Take(so).st = so.st /\ Take(so).bits = so.bits
        /\ Take(so).task = so.task /\ Take(so).parked = so.parked
        /\ Take(so).data = zero /\ Take(so).err = so.err
    BY <1>1, <1>3 DEF Socks
  <2> QED BY <1>1, <2>1 DEF TakeEffect
<1>4. CASE Take(so) = [so EXCEPT !.err = b]
  <2>1. /\ Take(so) \in Socks /\ Take(so).st = so.st /\ Take(so).bits = so.bits
        /\ Take(so).task = so.task /\ Take(so).parked = so.parked
        /\ Take(so).data = so.data /\ Take(so).err = b
    BY <1>1, <1>4 DEF Socks
  <2> QED BY <1>1, <2>1 DEF TakeEffect
<1> QED BY <1>2, <1>3, <1>4 DEF TakeEffect

(* A read that finds something. *)
LEMMA NonblockingReadIs ==
  ASSUME Types, NEW s \in Sockets, NonblockingRead(s)
  PROVE  NonblockingReadEffect(s)
<1> DEFINE so == Take(sk[s])
<1>1. sk' = [sk EXCEPT ![s] = so]
  BY DEF NonblockingRead
<1>2. /\ so \in Socks /\ so.st = sk[s].st /\ so.bits = sk[s].bits
      /\ so.task = sk[s].task /\ so.parked = sk[s].parked
      /\ so.data \in {0, sk[s].data} /\ so.err \in {FALSE, sk[s].err}
  BY SockTypes, TakeIs DEF SockTypesFact, TakeEffect
<1> HIDE DEF so
<1>3. Socked(s) /\ sk'[s] = so
  BY <1>1, <1>2, SockedIs
<1> QED BY <1>2, <1>3 DEF NonblockingReadEffect

(* wait() parks a read that finds nothing. *)
LEMMA BlockingReadIs ==
  ASSUME Types, NEW s \in Sockets, NEW r \in Readers, BlockingRead(s, r)
  PROVE  BlockingReadEffect(s, r)
<1> DEFINE p == sk[s].parked \cup {r}
           so == [sk[s] EXCEPT !.parked = p]
<1>1. sk' = [sk EXCEPT ![s] = so] /\ ~ Readable(sk[s])
  BY DEF BlockingRead
<1>2. p \in SUBSET Readers /\ sk[s] \in Socks
  BY SockTypes DEF SockTypesFact
<1> HIDE DEF p
<1>3. /\ so \in Socks /\ so.st = sk[s].st /\ so.bits = sk[s].bits
      /\ so.task = sk[s].task /\ so.data = sk[s].data /\ so.err = sk[s].err
  BY <1>2 DEF Socks
<1> HIDE DEF so
<1>4. Socked(s) /\ sk'[s] = so
  BY <1>1, <1>3, SockedIs
<1> QED BY <1>1, <1>3, <1>4 DEF BlockingReadEffect

(* _close() clears the entry of the socket. *)
LEMMA CloseSocketIs ==
  ASSUME Types, NEW s \in Sockets, CloseSocket(s)
  PROVE  CloseSocketEffect(s)
<1> DEFINE so == [sk[s] EXCEPT !.st = "closing"]
<1>1. sk' = [sk EXCEPT ![s] = so]
  BY DEF CloseSocket
<1>2. sk[s] \in Socks
  BY SockTypes DEF SockTypesFact
<1>3. /\ so \in Socks /\ so.st = "closing" /\ so.task = sk[s].task
      /\ so.data = sk[s].data /\ so.err = sk[s].err /\ so.parked = sk[s].parked
  BY <1>2 DEF Socks
<1> HIDE DEF so
<1>4. Socked(s) /\ sk'[s] = so
  BY <1>1, <1>3, SockedIs
<1> QED BY <1>3, <1>4 DEF CloseSocketEffect

(* A fresh socket. *)
LEMMA NewSockIs ==
  /\ NewSock \in Socks /\ NewSock.st = "open" /\ NewSock.data = 0 /\ NewSock.err = FALSE
  /\ NewSock.parked = {} /\ NewSock.task = FALSE
BY DEF NewSock, Socks

(* The slot is reused for a new socket. *)
LEMMA ReopenSocketIs ==
  ASSUME Types, NEW s \in Sockets, ReopenSocket(s)
  PROVE  Socked(s) /\ sk'[s] = NewSock
BY NewSockIs, SockedIs DEF ReopenSocket

(* socket_detach_with_fd_entry() unregisters the item. *)
LEMMA DetachSocketIs ==
  ASSUME Types, NEW s \in Sockets, DetachSocket(s)
  PROVE  Socked(s) /\ sk'[s].st = "closed" /\ sk'[s].parked = {}
<1> DEFINE so == [NewSock EXCEPT !.st = "closed"]
<1>1. sk' = [sk EXCEPT ![s] = so]
  BY DEF DetachSocket
<1>2. so \in Socks /\ so.st = "closed" /\ so.parked = {}
  BY NewSockIs DEF Socks
<1> HIDE DEF so
<1>3. Socked(s) /\ sk'[s] = so
  BY <1>1, <1>2, SockedIs
<1> QED BY <1>2, <1>3

(* The fields of a worker have their types. *)
LEMMA ServeTypes ==
  ASSUME Types, NEW s \in Sockets
  PROVE  ServeTypesFact(s)
BY DEF Types, WorkTypes, Serves, ServeTypesFact

(* A worker goes on with its walk. *)
LEMMA ServedIs ==
  ASSUME Types, NEW s \in Sockets, NEW w \in Serves, wk' = [wk EXCEPT ![s] = w]
  PROVE  wk'[s] = w /\ Served(s, w.pc, w.todo, w.ev, w.reply)
BY DEF Types, WorkTypes, Served

(* socket_pending_task_cb() takes the events and starts to walk everybody   *)
(* who waits.                                                               *)
LEMMA PendingTaskIs ==
  ASSUME Types, NEW s \in Sockets, PendingTask(s)
  PROVE  PendingTaskEffect(s)
<1> DEFINE S == sk[s].parked \cup (IF item[s].reg THEN {s} ELSE {})
           so == [sk[s] EXCEPT !.task = FALSE, !.bits = {}]
<1>1. PICK walk \in Orders(S) : wk' = [wk EXCEPT ![s] = [pc |-> "walk", todo |-> walk,
                                                         ev |-> sk[s].bits, reply |-> NoReply]]
  BY DEF PendingTask
<1>2. sk' = [sk EXCEPT ![s] = so]
  BY DEF PendingTask
<1>3. sk[s] \in Socks /\ sk[s].bits \in SUBSET Events /\ sk[s].parked \in SUBSET Readers
  BY SockTypes DEF SockTypesFact
<1>4. Cardinality(S) \in Nat /\ S \subseteq Sockets \cup Readers
  BY <1>3 DEF Types, Counted
<1> HIDE DEF S
<1>5. walk \in Seq(Sockets \cup Readers) /\ Range(walk) = S
  <2>1. walk \in Seq(S) /\ Range(walk) = S
    BY <1>4, OrdersHold DEF OrdersHoldFact
  <2> QED BY <1>4, <2>1, SeqInLarger
<1> DEFINE w == [pc |-> "walk", todo |-> walk, ev |-> sk[s].bits, reply |-> NoReply]
<1>6. w \in Serves /\ w.pc = "walk" /\ w.todo = walk /\ w.ev = sk[s].bits /\ w.reply = NoReply
  BY <1>3, <1>5 DEF Serves, NoReply, Replies
<1> HIDE DEF w
<1>7. wk'[s] = w /\ Served(s, w.pc, w.todo, w.ev, w.reply)
  BY <1>1, <1>6, ServedIs DEF w
<1>8. FALSE \in BOOLEAN /\ {} \in SUBSET Events
  OBVIOUS
<1>9. /\ so \in Socks /\ so.st = sk[s].st /\ so.data = sk[s].data
      /\ so.err = sk[s].err /\ so.parked = sk[s].parked
  BY <1>3, <1>8 DEF Socks
<1> HIDE DEF so
<1>10. Socked(s) /\ sk'[s] = so
  BY <1>2, <1>9, SockedIs
<1>11. Served(s, "walk", walk, sk[s].bits, NoReply) /\ wk'[s].todo = walk
  BY <1>6, <1>7
<1> QED BY <1>5, <1>9, <1>10, <1>11 DEF S, PendingTaskEffect

(* epoll_pending_cb() adds the events that still hold to those of the item. *)
LEMMA WalkItemIs ==
  ASSUME Types, NEW s \in Sockets, WalkItem(s)
  PROVE  WalkItemEffect(s)
<1> DEFINE hit == epoll_notify_hint(wk[s].ev) \cap Poll(s)
           wakes == Wakes(s, item[s], hit, TRUE)
           pc == IF wakes THEN "notify" ELSE "walk"
           w == [wk[s] EXCEPT !.todo = Tail(wk[s].todo), !.pc = pc]
<1>1. UpdateReady(s, item[s], hit, TRUE) /\ wk[s].todo # <<>> /\ wk' = [wk EXCEPT ![s] = w]
  BY DEF WalkItem
<1>2. item[s] \in Items /\ ListTypes
  BY DEF Types, ListTypes
<1>3. hit \in SUBSET Events /\ hit = wk[s].ev \cap Poll(s) /\ TRUE \in BOOLEAN
  BY PollEvents, ServeTypes DEF epoll_notify_hint, ServeTypesFact
<1> HIDE DEF hit
<1>4. /\ Relisted(s)
      /\ item'[s].reg = item[s].reg /\ item'[s].useful = item[s].useful
      /\ item'[s].watch = item[s].watch
      /\ item'[s].refs = item[s].refs /\ item'[s].ev = Fresh(item[s], hit, TRUE)
      /\ Wakes(s, item[s], hit, TRUE) \/ Len(ready') <= Len(ready)
  BY <1>1, <1>2, <1>3, UpdateReadyRelists DEF UpdateReadyRelistsFact
<1>5. Fresh(item[s], hit, TRUE) = (hit \cap epoll_interest(item[s].watch)) \cup item[s].ev
  BY DEF Fresh
<1>6. Tail(wk[s].todo) \in Seq(Sockets \cup Readers) /\ wk[s] \in Serves
  BY <1>1, ServeTypes, SMT DEF ServeTypesFact
<1>7. pc \in {"idle", "notify", "walk"} /\ (pc = "notify" \/ (pc = "walk" /\ ~ wakes))
  OBVIOUS
<1> HIDE DEF pc
<1>8. /\ w \in Serves /\ w.pc = pc /\ w.todo = Tail(wk[s].todo) /\ w.ev = wk[s].ev
      /\ w.reply = wk[s].reply
  BY <1>6, <1>7 DEF Serves
<1> HIDE DEF w
<1>9. Served(s, w.pc, w.todo, w.ev, w.reply)
  BY <1>1, <1>8, ServedIs
<1>10. Served(s, pc, Tail(wk[s].todo), wk[s].ev, wk[s].reply)
  BY <1>8, <1>9
<1>11. \/ Served(s, "notify", Tail(wk[s].todo), wk[s].ev, wk[s].reply)
       \/ /\ Served(s, "walk", Tail(wk[s].todo), wk[s].ev, wk[s].reply)
          /\ Len(ready') <= Len(ready)
  BY <1>4, <1>7, <1>10
<1>12. item'[s].ev = (wk[s].ev \cap Poll(s) \cap epoll_interest(item[s].watch)) \cup item[s].ev
  BY <1>3, <1>4, <1>5
<1> QED BY <1>4, <1>11, <1>12 DEF WalkItemEffect

(* req_pending_cb() completes the request if there is something to read. *)
LEMMA WalkReaderIs ==
  ASSUME Types, NEW s \in Sockets, WalkReader(s)
  PROVE  WalkReaderEffect(s)
<1> DEFINE w == [wk[s] EXCEPT !.todo = Tail(wk[s].todo)]
<1>1. wk' = [wk EXCEPT ![s] = w] /\ wk[s].pc = "walk" /\ wk[s].todo # <<>>
  BY DEF WalkReader
<1>2. Tail(wk[s].todo) \in Seq(Sockets \cup Readers) /\ wk[s] \in Serves
  BY <1>1, ServeTypes, SMT DEF ServeTypesFact
<1>3. /\ w \in Serves /\ w.pc = "walk" /\ w.todo = Tail(wk[s].todo) /\ w.ev = wk[s].ev
      /\ w.reply = wk[s].reply
  BY <1>1, <1>2 DEF Serves
<1> HIDE DEF w
<1>4. Served(s, w.pc, w.todo, w.ev, w.reply)
  BY <1>1, <1>3, ServedIs
<1>5. Served(s, "walk", Tail(wk[s].todo), wk[s].ev, wk[s].reply)
  BY <1>3, <1>4
<1>6. sk[s] \in Socks /\ sk[s].parked \in SUBSET Readers /\ sk \in [Sockets -> Socks]
  BY SockTypes DEF Types, WorkTypes, SockTypesFact
<1>7. CASE Readable(sk[s])
  <2> DEFINE s1 == Take(sk[s])
             p == sk[s].parked \ {Head(wk[s].todo)}
             so == [s1 EXCEPT !.parked = p]
  <2>1. sk' = [sk EXCEPT ![s] = so]
    BY <1>7 DEF WalkReader
  <2>2. /\ s1 \in Socks /\ s1.st = sk[s].st /\ s1.bits = sk[s].bits
        /\ s1.task = sk[s].task /\ s1.parked = sk[s].parked
        /\ s1.data \in {0, sk[s].data} /\ s1.err \in {FALSE, sk[s].err}
    BY <1>6, TakeIs DEF TakeEffect
  <2> HIDE DEF s1
  <2>3. p \in SUBSET Readers
    BY <1>6
  <2> HIDE DEF p
  <2>4. /\ so \in Socks /\ so.st = s1.st /\ so.bits = s1.bits /\ so.task = s1.task
        /\ so.parked = p /\ so.data = s1.data /\ so.err = s1.err
    BY <2>2, <2>3 DEF Socks
  <2> HIDE DEF so
  <2>5. Socked(s) /\ sk'[s] = so
    BY <2>1, <2>4, SockedIs
  <2> QED BY <1>5, <1>7, <2>2, <2>4, <2>5 DEF p, WalkReaderEffect
<1>8. CASE ~ Readable(sk[s])
  <2>1. sk' = sk
    BY <1>8 DEF WalkReader
  <2>2. Socked(s)
    BY <1>6, <2>1 DEF Socked
  <2>3. sk[s].data \in {0, sk[s].data} /\ sk[s].err \in {FALSE, sk[s].err}
    OBVIOUS
  <2> QED BY <1>5, <1>8, <2>1, <2>2, <2>3 DEF WalkReaderEffect
<1> QED BY <1>7, <1>8 DEF WalkReaderEffect

(* The pending list has been walked. *)
LEMMA WalkEndIs ==
  ASSUME Types, NEW s \in Sockets, WalkEnd(s)
  PROVE  Served(s, "idle", wk[s].todo, {}, wk[s].reply)
<1> DEFINE none == {}
           w == [wk[s] EXCEPT !.pc = "idle", !.ev = none]
<1>1. wk' = [wk EXCEPT ![s] = w] /\ none \in SUBSET Events
  BY DEF WalkEnd
<1> HIDE DEF none
<1>2. w \in Serves /\ w.pc = "idle" /\ w.todo = wk[s].todo /\ w.ev = none /\ w.reply = wk[s].reply
  BY <1>1, ServeTypes DEF Serves, ServeTypesFact
<1> HIDE DEF w
<1>3. Served(s, w.pc, w.todo, w.ev, w.reply)
  BY <1>1, <1>2, ServedIs
<1> QED BY <1>2, <1>3 DEF none

-----------------------------------------------------------------------------
(* What the waiters' steps do to the items and to the list. *)

(* The second section of epoll_take_snapshot(), for the items. *)
LEMMA SnapshotTakeIs ==
  ASSUME Types, NEW t \in Waiters, NEW n \in 0..Len(ready), SnapshotTake(t, n),
         SubSeq(ready, 1, n) = [i \in 1..n |-> ready[i]]
  PROVE  SnapshotTakeEffect(t, n)
<1> DEFINE took == SubSeq(ready, 1, n)
           rest == SubSeq(ready, n + 1, Len(ready))
<1>1. ready \in Seq(Sockets) /\ Once(ready) /\ item \in [Sockets -> Items]
  BY DEF Types, ListTypes
<1>2. Len(ready) \in Nat /\ n \in Nat /\ Range(ready) = {ready[i] : i \in 1..Len(ready)}
  BY <1>1, RangeIs, SMT DEF RangeEffect
<1>3. Range(took) = Front(n)
  BY DEF Front, Range
<1>4. ready' = rest
  BY DEF SnapshotTake
<1>5. /\ rest \in Seq(Sockets) /\ Len(rest) = Len(ready) - n
      /\ \A i \in 1..Len(rest) : rest[i] = ready[i + n]
  <2>1. n + 1 \in Int /\ Len(ready) \in Int /\ \A i \in (n + 1)..Len(ready) : ready[i] \in Sockets
    BY <1>1, <1>2, SMT
  <2>2. rest = [i \in 1..(Len(ready) - n) |-> ready[i + n]]
    BY <1>2, SMT
  <2>3. rest \in Seq(Sockets)
    BY <1>1, <1>2, SMT
  <2>4. Len(rest) = Len(ready) - n
    BY <1>1, <1>2, SMT
  <2>5. \A i \in 1..Len(rest) : rest[i] = ready[i + n]
    BY <2>2, <2>4, SMT
  <2> QED BY <2>3, <2>4, <2>5
<1> HIDE DEF rest
<1>6. Once(rest)
  <2>1. ASSUME NEW i \in 1..Len(rest), NEW j \in 1..Len(rest), rest[i] = rest[j]
        PROVE  i = j
    <3>1. /\ i + n \in 1..Len(ready) /\ j + n \in 1..Len(ready)
          /\ ready[i + n] = ready[j + n]
      BY <1>2, <1>5, <2>1, SMT
    <3>2. i + n = j + n
      BY <1>1, <3>1 DEF Once
    <3> QED BY <1>2, <2>1, <3>2, SMT
  <2> QED BY <2>1 DEF Once
<1>7. Range(rest) = {rest[i] : i \in 1..Len(rest)}
  BY <1>5, RangeIs DEF RangeEffect
<1>8. Front(n) \subseteq Range(ready) /\ Front(n) \subseteq Sockets
  <2>1. \A i \in 1..n : i \in 1..Len(ready) /\ ready[i] \in Sockets
    BY <1>1, <1>2, SMT
  <2> QED BY <1>2, <2>1 DEF Front
<1>9. ASSUME NEW x \in Range(rest) PROVE x \in Range(ready) \ Front(n)
  <2>1. PICK i \in 1..Len(rest) : x = rest[i]
    BY <1>7
  <2>2. i + n \in 1..Len(ready) /\ x = ready[i + n] /\ \A j \in 1..n : j # i + n /\ j \in 1..Len(ready)
    BY <1>2, <1>5, <2>1, SMT
  <2>3. \A j \in 1..n : x # ready[j]
    BY <1>1, <2>2 DEF Once
  <2> QED BY <1>2, <2>2, <2>3 DEF Front
<1>10. ASSUME NEW x \in Range(ready) \ Front(n) PROVE x \in Range(rest)
  <2>1. PICK i \in 1..Len(ready) : x = ready[i]
    BY <1>2
  <2>2. i \notin 1..n
    BY <2>1 DEF Front
  <2>3. i - n \in 1..Len(rest) /\ rest[i - n] = x
    BY <1>2, <1>5, <2>1, <2>2, SMT
  <2> QED BY <1>7, <2>3
<1>11. Range(rest) = Range(ready) \ Front(n)
  BY <1>9, <1>10
<1> DEFINE nx(s) == [item[s] EXCEPT !.ev = {}, !.refs = @ + 1]
<1>12. item' = [s \in Sockets |-> IF s \in Front(n) THEN nx(s) ELSE item[s]]
  BY <1>3 DEF SnapshotTake
<1>13. ASSUME NEW s \in Sockets
       PROVE  /\ nx(s) \in Items /\ nx(s).ev = {} /\ nx(s).refs = item[s].refs + 1
              /\ nx(s).reg = item[s].reg /\ nx(s).useful = item[s].useful
              /\ nx(s).watch = item[s].watch
  <2> DEFINE m == item[s].refs + 1
             none == {}
  <2>1. item[s] \in Items /\ item[s].refs \in Int /\ none \in SUBSET Events
    BY <1>1 DEF Items
  <2>2. m \in Int
    BY <2>1, SMT
  <2>3. nx(s) = [item[s] EXCEPT !.ev = none, !.refs = m]
    OBVIOUS
  <2> HIDE DEF m, nx, none
  <2>4. /\ nx(s) \in Items /\ nx(s).ev = none /\ nx(s).refs = m
        /\ nx(s).reg = item[s].reg /\ nx(s).useful = item[s].useful
        /\ nx(s).watch = item[s].watch
    BY <2>1, <2>2, <2>3 DEF Items
  <2> QED BY <2>4 DEF m, none
<1> HIDE DEF nx
<1>14. item' \in [Sockets -> Items] /\ \A s \in Sockets \ Front(n) : item'[s] = item[s]
  BY <1>1, <1>12, <1>13
<1>15. ASSUME NEW s \in Front(n)
       PROVE  /\ s \in Sockets /\ item'[s].ev = {} /\ item'[s].refs = item[s].refs + 1
              /\ item'[s].reg = item[s].reg /\ item'[s].useful = item[s].useful
              /\ item'[s].watch = item[s].watch
  <2>1. s \in Sockets
    BY <1>8
  <2>2. item'[s] = nx(s)
    BY <1>12, <2>1
  <2> QED BY <1>13, <2>1, <2>2
<1> QED BY <1>4, <1>5, <1>6, <1>8, <1>11, <1>14, <1>15 DEF SnapshotTakeEffect

(* The next candidate is polled or dropped. *)
LEMMA PollItemIs ==
  ASSUME Types, NEW t \in Waiters, PollItem(t)
  PROVE  PollItemEffect(t)
<1> DEFINE s == Head(th[t].snap).s
<1>1. th[t].snap # <<>> /\ th[t].pc = "item"
  BY DEF PollItem, More
<1>2. s \in Sockets /\ Head(th[t].snap) \in Entries
  BY <1>1, HeadOfSnap DEF Types, HeadOfSnapFact
<1>3. CASE sk[s].st # "closed" /\ item[s].useful
  <2>1. Push(s, "poll", {}) /\ UNCHANGED <<ep, item, th>>
    BY <1>3 DEF PollItem
  <2>2. {} \in WatchMasks /\ "poll" \in {"poll", "add", "mod", "del"}
    BY DEF WatchMasks
  <2>3. call' \in Requests /\ call'.st = "sent" /\ call'.s = s /\ call'.op = "poll"
    BY <1>2, <2>1, <2>2, PushTypes DEF PushTypesFact
  <2> QED BY <1>3, <2>1, <2>3 DEF PollItemEffect
<1>4. CASE ~ (sk[s].st # "closed" /\ item[s].useful)
  <2>1. /\ item' = [item EXCEPT ![s] = PutItem(@)] /\ ep' = EpAfterPut(item[s])
        /\ th' = [th EXCEPT ![t].snap = Tail(@)] /\ call' = call
    BY <1>4 DEF PollItem
  <2>2. Dropped(s)
    BY <1>2, <2>1, DropItem DEF Dropped, Types, DropItemFact
  <2>3. Moved(t, "item", Tail(th[t].snap))
    BY <1>1, <2>1, DropMoves DEF Types
  <2> QED BY <1>4, <2>1, <2>2, <2>3 DEF PollItemEffect
<1> QED BY <1>3, <1>4 DEF PollItemEffect

(* The polled candidate is let go. *)
LEMMA PollReplyIs ==
  ASSUME Types, NEW t \in Waiters, PollReply(t), th[t].snap # <<>>
  PROVE  PollReplyEffect(t)
<1> DEFINE s == Head(th[t].snap).s
<1>1. s \in Sockets
  BY HeadOfSnap DEF Types, HeadOfSnapFact
<1>2. item' = [item EXCEPT ![s] = PutItem(@)] /\ ep' = EpAfterPut(item[s])
  BY DEF PollReply
<1> HIDE DEF s
<1>3. Dropped(s)
  BY <1>1, <1>2, DropItem DEF Dropped, Types, DropItemFact
<1>4. Moved(t, "item", Tail(th[t].snap)) /\ call' = NoCall
  BY PollReplyMoves DEF Types
<1> QED BY <1>3, <1>4 DEF s, PollReplyEffect

(* The sockets of a snapshot are the ones it names. *)
LEMMA HeldIs ==
  ASSUME Types, NEW t \in Waiters
  PROVE  HeldEffect(t)
<1> DEFINE q == th[t].snap
<1>1. q \in Seq(Entries)
  BY EpollAssumption DEF Types, ThreadTypes, Snaps, Threads
<1> HIDE DEF q
<1>2. Len(q) \in Nat /\ DOMAIN q = 1..Len(q) /\ \A i \in 1..Len(q) : q[i] \in Entries
  BY <1>1, SMT
<1>3. \A i \in 1..Len(q) : q[i].s \in Sockets /\ q[i].ev \in SUBSET Events
  BY <1>2 DEF Entries
<1>4. Held(t) \subseteq Sockets
  BY <1>2, <1>3 DEF Held, q
<1>5. \A s : Queued(t, s) \in SUBSET Events
  BY <1>2, <1>3 DEF Queued, q
<1> QED BY <1>1, <1>2, <1>4, <1>5 DEF q, HeldEffect

(* epoll_restore_snapshot(): every candidate that is left loses its         *)
(* reference, and gets back its events if it is still registered.           *)
LEMMA RestoreIs ==
  ASSUME Types, NEW t \in Waiters, epoll_restore_snapshot(t)
  PROVE  RestoreEffect(t)
<1> DEFINE nx(s) == IF item[s].useful THEN [item[s] EXCEPT !.ev = item[s].ev \cup Queued(t, s)]
                                      ELSE item[s]
           gone == {s \in Held(t) : item[s].refs = 1}
<1>1. /\ item' = [s \in Sockets |-> IF s \notin Held(t) THEN item[s] ELSE PutItem(nx(s))]
      /\ ep' = [ep EXCEPT !.refs = @ - Cardinality(gone)]
      /\ \E back \in Orders(Kept(t)) : ready' = back \o ready
  BY DEF epoll_restore_snapshot, Held, Queued, Kept
<1>2. ready \in Seq(Sockets) /\ Once(ready) /\ item \in [Sockets -> Items]
  BY DEF Types, ListTypes
<1>3. Held(t) \subseteq Sockets /\ \A s : Queued(t, s) \in SUBSET Events
  BY HeldIs DEF HeldEffect
<1>4. /\ ready' \in Seq(Sockets) /\ Once(ready') /\ Range(ready') = Range(ready) \cup Kept(t)
      /\ Kept(t) = {} => ready' = ready
  <2>1. /\ Kept(t) \subseteq Held(t) /\ Kept(t) \subseteq Sockets
        /\ Kept(t) \cap Range(ready) = {}
    BY <1>3 DEF Kept
  <2>2. Cardinality(Kept(t)) \in Nat
    BY <2>1 DEF Types, Counted
  <2>3. PICK back \in Orders(Kept(t)) : ready' = back \o ready
    BY <1>1
  <2>4. /\ back \in Seq(Kept(t)) /\ Range(back) = Kept(t) /\ Len(back) = Cardinality(Kept(t))
        /\ Once(back)
    BY <2>2, OrdersHold DEF Once, OrdersHoldFact
  <2>5. back \in Seq(Sockets)
    BY <2>1, <2>4, SeqInLarger
  <2>6. /\ ready' \in Seq(Sockets) /\ Once(ready')
        /\ Range(ready') = Range(back) \cup Range(ready)
    BY <1>2, <2>1, <2>3, <2>4, <2>5, JoinedIs DEF JoinedEffect
  <2>7. ASSUME Kept(t) = {} PROVE ready' = ready
    <3>1. Len(back) = 0
      BY <2>4, <2>7 DEF Types, Counted
    <3>2. back = <<>>
      BY <2>5, <3>1, SMT
    <3> QED BY <1>2, <2>3, <3>2, SMT
  <2> QED BY <2>4, <2>6, <2>7
<1>5. ASSUME NEW s \in Sockets
      PROVE  /\ nx(s) \in Items /\ nx(s).refs = item[s].refs /\ nx(s).reg = item[s].reg
             /\ nx(s).useful = item[s].useful /\ nx(s).watch = item[s].watch
             /\ nx(s).ev = IF item[s].useful THEN item[s].ev \cup Queued(t, s) ELSE item[s].ev
  <2> DEFINE e == item[s].ev \cup Queued(t, s)
  <2>1. item[s] \in Items /\ item[s].ev \in SUBSET Events
    BY <1>2 DEF Items
  <2>2. e \in SUBSET Events
    BY <1>3, <2>1
  <2> HIDE DEF e
  <2>3. CASE item[s].useful
    <3>1. nx(s) = [item[s] EXCEPT !.ev = e]
      BY <2>3 DEF e
    <3> HIDE DEF nx
    <3>2. /\ nx(s) \in Items /\ nx(s).refs = item[s].refs /\ nx(s).reg = item[s].reg
          /\ nx(s).useful = item[s].useful /\ nx(s).watch = item[s].watch /\ nx(s).ev = e
      BY <2>1, <2>2, <3>1 DEF Items
    <3> QED BY <2>3, <3>2 DEF e
  <2>4. CASE ~ item[s].useful
    BY <2>1, <2>4
  <2> QED BY <2>3, <2>4
<1> HIDE DEF nx
<1>6. ASSUME NEW s \in Sockets
      PROVE  /\ PutItem(nx(s)) \in Items
             /\ item[s].refs = 1 => PutItem(nx(s)) = NoItem
             /\ item[s].refs # 1 =>
                  /\ PutItem(nx(s)).reg = item[s].reg /\ PutItem(nx(s)).useful = item[s].useful
                  /\ PutItem(nx(s)).watch = item[s].watch /\ PutItem(nx(s)).ev = nx(s).ev
             /\ PutItem(nx(s)).refs = item[s].refs - 1
  <2>1. PutItemEffect(nx(s))
    BY <1>5, PutItemIs
  <2> QED BY <1>5, <2>1 DEF PutItemEffect
<1>7. item' \in [Sockets -> Items] /\ \A s \in Sockets \ Held(t) : item'[s] = item[s]
  BY <1>1, <1>2, <1>6
<1>8. ASSUME NEW s \in Held(t)
      PROVE  /\ item[s].refs = 1 => item'[s] = NoItem
             /\ item[s].refs # 1 =>
                  /\ item'[s].reg = item[s].reg /\ item'[s].useful = item[s].useful
                  /\ item'[s].watch = item[s].watch
                  /\ item'[s].ev = IF item[s].useful THEN item[s].ev \cup Queued(t, s)
                                                     ELSE item[s].ev
             /\ item'[s].refs = item[s].refs - 1
  <2>1. s \in Sockets
    BY <1>3
  <2>2. item'[s] = PutItem(nx(s))
    BY <1>1, <2>1
  <2> QED BY <1>5, <1>6, <2>1, <2>2
<1>9. Cardinality(gone) \in Nat
  <2>1. gone \subseteq Sockets
    BY <1>3
  <2> QED BY <2>1 DEF Types, Counted
<1> DEFINE m == ep.refs - Cardinality(gone)
<1>10. m \in Int /\ ep' = [ep EXCEPT !.refs = m] /\ ListTypes
  BY <1>1, <1>9, EpRefsInt, SMT DEF Types
<1> HIDE DEF m
<1>11. ep' \in Eps /\ ep'.open = ep.open /\ ep'.efd = ep.efd /\ ep'.refs = m
  BY <1>10, EpRefs
<1> QED BY <1>4, <1>7, <1>8, <1>11 DEF m, RestoreEffect

-----------------------------------------------------------------------------
(* Who is inside. *)

(* Whoever is inside a call, or finds the mutex free, is the only one inside. *)
LEMMA AloneIs ==
  ASSUME Types, Mutex, NEW t \in Threads, th[t].pc \in Inside \/ mtx = "free"
  PROVE  Alone(t)
BY EpollAssumption DEF Mutex, Alone, Types, ThreadTypes, Threads

(* Who is not working through a snapshot, a control call or a close has no  *)
(* request under way.                                                       *)
LEMMA NoCallIs ==
  ASSUME Calls, NEW t \in Threads, Alone(t), th[t].pc \notin {"item", "ctl", "close"}
  PROVE  call.st = "none"
BY DEF Calls, CtlCalls, PollCalls, Alone, Threads, Inside

(* What req_notify() makes of the request. *)
LEMMA DoneIs ==
  ASSUME Types, NEW reply, call' = [call EXCEPT !.st = "done", !.mask = reply]
  PROVE  call'.st = "done" /\ call'.s = call.s /\ call'.op = call.op
BY DEF Types, ThreadTypes, Requests

(* What a waiter that holds the mutex at a given place knows. *)
LEMMA AtItem ==
  ASSUME Wake, NEW t \in Waiters, th[t].pc \in Inside
  PROVE  t \in Threads /\ Alone(t) /\ mtx = t
BY AloneIs DEF Wake, Mutex, Threads

(* The reply that a waiter gets is about the first of its candidates. *)
LEMMA ReplyForHead ==
  ASSUME Wake, NEW t \in Waiters, th[t].pc = "item", call.st # "none"
  PROVE  th[t].snap # <<>> /\ call.op = "poll" /\ call.s = Head(th[t].snap).s
<1>1. Alone(t) /\ t # Ctl
  BY AtItem, EpollAssumption DEF Inside
<1> QED BY <1>1 DEF Wake, Calls, CtlCalls, PollCalls, Alone, Threads, Inside

(* While the control thread has a request under way nobody has a snapshot. *)
LEMMA CtlAlone ==
  ASSUME Wake, call.st # "none", call.op # "poll"
  PROVE  \A t \in Waiters : th[t].snap = <<>>
<1>1. th[Ctl].pc \in Inside /\ Ctl \in Threads
  BY DEF Wake, Calls, CtlCalls, PollCalls, Inside, Threads
<1>2. Alone(Ctl)
  BY <1>1, AloneIs DEF Wake
<1> QED BY <1>2, EpollAssumption DEF Alone, Wake, SnapAt, Inside, Threads

(* Where the waiters have no snapshot, no item is in one. *)
LEMMA NoSnapshot ==
  ASSUME \A t \in Waiters : th[t].snap = <<>>
  PROVE  \A s : ~ InSnapshot(s) /\ \A e : ~ Taken(s, e)
BY SMT DEF InSnapshot, Taken

(* The empty list has no elements. *)
LEMMA EmptyRange == Range(<<>>) = {}
BY SMT DEF Range

(* The holder of the mutex is the only waiter with a snapshot. *)
LEMMA OnlySnap ==
  ASSUME Wake, NEW t \in Waiters, th[t].pc \in Inside
  PROVE  \A u \in Waiters : u # t => th[u].snap = <<>>
<1>1. Alone(t) /\ t \in Threads
  BY AtItem
<1>2. "item" \in Inside
  BY DEF Inside
<1> QED BY <1>1, <1>2 DEF Alone, Wake, SnapAt, Threads

(* What a snapshot holds while it is the only one. *)
LEMMA HeldSnap ==
  ASSUME Wake, NEW t \in Waiters, th[t].pc = "item"
  PROVE  /\ \A s : InSnapshot(s) <=> s \in Held(t)
         /\ \A s, e : Taken(s, e) => s \in Held(t) /\ e \in Queued(t, s)
<1>1. \A u \in Waiters : u # t => th[u].snap = <<>>
  BY OnlySnap DEF Inside
<1>2. \A u \in Waiters : u # t => DOMAIN th[u].snap = {} /\ 1..Len(th[u].snap) = {}
  BY <1>1, SMT
<1>3. \A s : InSnapshot(s) <=> s \in Held(t)
  BY <1>2 DEF InSnapshot, Held
<1>4. DOMAIN th[t].snap = 1..Len(th[t].snap)
  BY HeldIs DEF HeldEffect, Wake
<1>5. ASSUME NEW s, NEW e, Taken(s, e) PROVE s \in Held(t) /\ e \in Queued(t, s)
  <2>1. \E i \in DOMAIN th[t].snap : th[t].snap[i].s = s /\ e \in th[t].snap[i].ev
    BY <1>2, <1>4, <1>5 DEF Taken
  <2> QED BY <2>1 DEF Held, Queued
<1> QED BY <1>3, <1>5

-----------------------------------------------------------------------------
(* The references to the epoll object. *)

(* Items and waiters can be counted. *)
LEMMA CountTypes ==
  ASSUME Countable
  PROVE  Cardinality(Alive) \in Nat /\ Cardinality(Busy) \in Nat
<1>1. Alive \in SUBSET Sockets /\ Busy \in SUBSET Waiters
  BY DEF Alive, Busy
<1> QED BY <1>1 DEF Countable

(* One more counts one more, one less one less. *)
LEMMA CountOne ==
  ASSUME Countable
  PROVE  /\ \A s \in Sockets :
              s \notin Alive => Cardinality(Alive \cup {s}) = Cardinality(Alive) + 1
         /\ \A s \in Alive : Cardinality(Alive \ {s}) = Cardinality(Alive) - 1
         /\ \A t \in Waiters : t \notin Busy => Cardinality(Busy \cup {t}) = Cardinality(Busy) + 1
         /\ \A t \in Busy : Cardinality(Busy \ {t}) = Cardinality(Busy) - 1
<1>1. Alive \in SUBSET Sockets /\ Busy \in SUBSET Waiters
  BY DEF Alive, Busy
<1> QED BY <1>1 DEF Countable

(* An item has no more than its two references. *)
LEMMA ItemRefs ==
  ASSUME Level, NEW s \in Sockets
  PROVE  item[s].refs \in Nat /\ (item[s].reg => item[s].refs >= 1)
         /\ (InSnapshot(s) => item[s].refs >= 1)
         /\ (~ item[s].reg /\ ~ InSnapshot(s) => item[s].refs = 0)
BY SMT DEF Level, LevelAt, ItemAt

(* Nobody comes, goes, or frees an item. *)
LEMMA CountsKept ==
  ASSUME Counts, \A s \in Sockets : item'[s].refs > 0 <=> item[s].refs > 0,
         ep'.refs = ep.refs, Busy' = Busy, Opened' = Opened, th'[Ctl].pc = "close" => ep'.open
  PROVE  Counts'
<1>1. Alive' = Alive
  BY DEF Alive
<1> QED BY <1>1 DEF Counts

(* A step of a worker that frees no item. *)
LEMMA WorkerCounts ==
  ASSUME Counts, \A s \in Sockets : item'[s].refs = item[s].refs,
         ep'.refs = ep.refs, ep'.open = ep.open, th' = th
  PROVE  Counts'
<1>1. Busy' = Busy /\ Opened' = Opened /\ (th'[Ctl].pc = "close" => ep'.open)
  BY DEF Busy, Opened, Counts
<1>2. \A s \in Sockets : item'[s].refs > 0 <=> item[s].refs > 0
  OBVIOUS
<1> QED BY <1>1, <1>2, CountsKept

(* An item gives back a reference, and its reference to the epoll object    *)
(* with the last.                                                           *)
LEMMA PutCounts ==
  ASSUME Countable, Counts, NEW s \in Sockets, item[s].refs \in Nat, item[s].refs >= 1,
         \A x \in Sockets : x # s => item'[x] = item[x],
         item'[s].refs = item[s].refs - 1,
         ep'.refs = IF item[s].refs = 1 THEN ep.refs - 1 ELSE ep.refs,
         Busy' = Busy, Opened' = Opened, th'[Ctl].pc = "close" => ep'.open
  PROVE  Counts'
<1>1. CASE item[s].refs = 1
  <2>1. Alive' = Alive \ {s} /\ s \in Alive
    BY <1>1, SMT DEF Alive
  <2>2. Cardinality(Alive') = Cardinality(Alive) - 1
    BY <2>1, CountOne
  <2>3. Opened \in Nat
    BY DEF Opened
  <2> QED BY <1>1, <2>2, <2>3, CountTypes, SMT DEF Counts
<1>2. CASE item[s].refs # 1
  <2>1. \A x \in Sockets : item'[x].refs > 0 <=> item[x].refs > 0
    BY <1>2, SMT
  <2>2. ep'.refs = ep.refs
    BY <1>2
  <2> QED BY <2>1, <2>2, CountsKept
<1> QED BY <1>1, <1>2

(* epoll_item_unregister() gives back the reference of a freed item. *)
LEMMA UnregisterCounts ==
  ASSUME Countable, Types, Level, Counts, NEW s \in Sockets, item[s].reg,
         epoll_item_unregister(s), th' = th
  PROVE  Counts'
<1>1. UnregisterEffect(s)
  BY UnregisterIs DEF Types
<1>2. /\ \A x \in Sockets : x # s => item'[x] = item[x]
      /\ item'[s].refs = item[s].refs - 1 /\ ep' = EpAfterPut(item[s])
  BY <1>1 DEF UnregisterEffect
<1>3. /\ ep'.refs = IF item[s].refs = 1 THEN ep.refs - 1 ELSE ep.refs
      /\ ep'.open = ep.open
  BY <1>2, EpPut DEF EpPutFact, Types
<1>4. Busy' = Busy /\ Opened' = Opened /\ (th'[Ctl].pc = "close" => ep'.open)
  BY <1>3 DEF Busy, Opened, Counts
<1> QED BY <1>2, <1>3, <1>4, ItemRefs, PutCounts, SMTT(30)

(* epoll_ctl_add() takes a reference for its new item. *)
LEMMA AddCounts ==
  ASSUME Countable, Wake, Level, Counts, NEW s \in Sockets, epoll_ctl_add(s), ~ item[s].reg,
         ~ InSnapshot(s)
  PROVE  Counts'
<1>1. AddEffect(s) /\ th' = th /\ Types
  BY AddIs DEF Wake, epoll_ctl_add
<1>2. /\ \A x \in Sockets : x # s => item'[x] = item[x]
      /\ item'[s].refs = 1 /\ ep' = [ep EXCEPT !.refs = @ + 1]
  BY <1>1 DEF AddEffect, Relisted
<1>3. ep'.refs = ep.refs + 1 /\ ep'.open = ep.open
  <2>1. ep.refs + 1 \in Int /\ ListTypes
    BY <1>1, EpRefsInt DEF Types
  <2>2. ep' = [ep EXCEPT !.refs = ep.refs + 1]
    BY <1>2
  <2> QED BY <2>1, <2>2, EpRefs
<1>4. Busy' = Busy /\ Opened' = Opened /\ (th'[Ctl].pc = "close" => ep'.open)
  BY <1>1, <1>3 DEF Busy, Opened, Counts
<1>5. item[s].refs = 0
  BY ItemRefs
<1>6. Alive' = Alive \cup {s} /\ s \notin Alive
  BY <1>2, <1>5, SMT DEF Alive
<1>7. Cardinality(Alive') = Cardinality(Alive) + 1
  BY <1>6, CountOne
<1>8. Opened \in Nat
  BY DEF Opened
<1> QED BY <1>3, <1>4, <1>7, <1>8, CountTypes, SMTT(30) DEF Counts

(* The workers, and what else happens to a socket. *)
LEMMA WorkerStepCounts ==
  ASSUME Countable, Wake, Level, Counts, NEW s \in Sockets, WorkerStep(s)
  PROVE  Counts'
<1>1. Types /\ ListTypes /\ th' = th
  BY DEF Wake, Types, WorkerStep, CallBadf, _poll, epoll_ctl_add, epoll_ctl_mod,
     epoll_ctl_del, NotifyWorker, PendingTask, WalkItem, WalkReader, WalkEnd, DetachSocket
<1>2. CASE UNCHANGED <<ep, item>>
  BY <1>1, <1>2, WorkerCounts
<1>3. CASE CallBadf(s) \/ PendingTask(s) \/ WalkReader(s) \/ WalkEnd(s)
  BY <1>2, <1>3 DEF CallBadf, PendingTask, WalkReader, WalkEnd
<1>4. CASE _poll(s)
  <2>1. /\ ep' = ep /\ item'[s].refs = item[s].refs
        /\ \A x \in Sockets : x # s => item'[x] = item[x]
    BY <1>1, <1>4, PollIs DEF PollEffect, Relisted, _poll
  <2> QED BY <1>1, <2>1, WorkerCounts
<1>5. CASE epoll_ctl_add(s)
  <2>1. CASE item[s].reg
    BY <1>2, <1>5, <2>1 DEF epoll_ctl_add
  <2>2. CASE ~ item[s].reg
    <3>1. call.st # "none" /\ call.op # "poll"
      BY <1>5 DEF epoll_ctl_add, Called
    <3>2. ~ InSnapshot(s)
      BY <3>1, CtlAlone, NoSnapshot, SMTT(30)
    <3> QED BY <1>5, <2>2, <3>2, AddCounts, SMTT(30)
  <2> QED BY <2>1, <2>2
<1>6. CASE epoll_ctl_mod(s)
  <2>1. CASE item[s].reg
    <3>1. /\ ep' = ep /\ item'[s].refs = item[s].refs
          /\ \A x \in Sockets : x # s => item'[x] = item[x]
      BY <1>1, <1>6, <2>1, ModIs DEF ModEffect, epoll_ctl_mod
    <3> QED BY <1>1, <3>1, WorkerCounts
  <2>2. CASE ~ item[s].reg
    BY <1>2, <1>6, <2>2 DEF epoll_ctl_mod
  <2> QED BY <2>1, <2>2
<1>7. CASE epoll_ctl_del(s)
  BY <1>1, <1>2, <1>7, UnregisterCounts DEF epoll_ctl_del
<1>8. CASE NotifyWorker(s)
  <2>1. ep' = [ep EXCEPT !.efd = TRUE] /\ item' = item
    BY <1>8 DEF NotifyWorker
  <2>2. ep'.open = ep.open /\ ep'.refs = ep.refs
    BY <1>1, <2>1, EpEfd DEF EpEfdFact
  <2> QED BY <1>1, <2>1, <2>2, WorkerCounts
<1>9. CASE WalkItem(s)
  <2>1. /\ ep' = ep /\ item'[s].refs = item[s].refs
        /\ \A x \in Sockets : x # s => item'[x] = item[x]
    BY <1>1, <1>9, WalkItemIs DEF WalkItemEffect, Relisted, WalkItem
  <2> QED BY <1>1, <2>1, WorkerCounts
<1>10. CASE DetachSocket(s)
  BY <1>1, <1>2, <1>10, UnregisterCounts DEF DetachSocket
<1> QED BY <1>3, <1>4, <1>5, <1>6, <1>7, <1>8, <1>9, <1>10 DEF WorkerStep

(* The steps of a socket leave the references alone. *)
LEMMA SocketStepCounts ==
  ASSUME Counts, NEW s \in Sockets, SocketStep(s)
  PROVE  Counts'
<1>1. UNCHANGED <<ep, item, th>>
  BY DEF SocketStep, Arrive, NonblockingRead, Fail, CloseSocket, ReopenSocket, BlockingRead
<1> QED BY <1>1, WorkerCounts

(* A waiter that stays in its call. *)
LEMMA MoveBusy ==
  ASSUME NEW t \in Waiters, NEW pc, NEW snap, Moved(t, pc, snap)
  PROVE  /\ th'[Ctl] = th[Ctl]
         /\ pc # "idle" /\ th[t].pc # "idle" => Busy' = Busy
         /\ pc # "idle" /\ th[t].pc = "idle" => Busy' = Busy \cup {t} /\ t \notin Busy
         /\ pc = "idle" /\ th[t].pc # "idle" => Busy' = Busy \ {t} /\ t \in Busy
<1>1. t # Ctl /\ Ctl \in Threads /\ Waiters \subseteq Threads
  BY EpollAssumption DEF Threads
<1>2. th'[t].pc = pc /\ \A u \in Threads : u # t => th'[u] = th[u]
  BY DEF Moved
<1> QED BY <1>1, <1>2 DEF Busy

(* A waiter that goes on leaves the references alone. *)
LEMMA StayCounts ==
  ASSUME Counts, NEW t \in Waiters, NEW pc, NEW snap, Moved(t, pc, snap), pc # "idle",
         th[t].pc # "idle", \A s \in Sockets : item'[s].refs > 0 <=> item[s].refs > 0,
         ep'.refs = ep.refs, ep'.open = ep.open
  PROVE  Counts'
<1>1. th'[Ctl] = th[Ctl] /\ Busy' = Busy
  BY MoveBusy
<1>2. Opened' = Opened /\ (th'[Ctl].pc = "close" => ep'.open)
  BY <1>1 DEF Opened, Counts
<1> QED BY <1>1, <1>2, CountsKept, SMTT(30)

(* A waiter comes, and goes. *)
LEMMA WaitCallCounts ==
  ASSUME Countable, Wake, Counts, NEW t \in Waiters, WaitCall(t)
  PROVE  Counts'
<1>1. /\ th[t].pc = "idle" /\ item' = item /\ ep' = [ep EXCEPT !.refs = @ + 1] /\ ListTypes
  BY DEF WaitCall, Wake, Types
<1>2. Moved(t, "count", th[t].snap)
  BY WaitCallMoves DEF Wake, Types
<1>3. th'[Ctl] = th[Ctl] /\ Busy' = Busy \cup {t} /\ t \notin Busy
  BY <1>1, <1>2, MoveBusy, SMTT(30)
<1>4. ep'.refs = ep.refs + 1 /\ ep'.open = ep.open
  <2>1. ep.refs + 1 \in Int
    BY <1>1, EpRefsInt
  <2>2. ep' = [ep EXCEPT !.refs = ep.refs + 1]
    BY <1>1
  <2> QED BY <1>1, <2>1, <2>2, EpRefs
<1>5. Opened' = Opened /\ (th'[Ctl].pc = "close" => ep'.open) /\ Alive' = Alive
  BY <1>1, <1>3, <1>4 DEF Opened, Counts, Alive
<1>6. Cardinality(Busy') = Cardinality(Busy) + 1
  BY <1>3, CountOne
<1>7. Opened \in Nat
  BY DEF Opened
<1> QED BY <1>4, <1>5, <1>6, <1>7, CountTypes, SMTT(30) DEF Counts

(* A waiter gives its reference back when it returns. *)
LEMMA ExitWaiterCounts ==
  ASSUME Countable, Wake, Counts, NEW t \in Waiters, Exit(t)
  PROVE  Counts'
<1>1. /\ th[t].pc = "exit" /\ item' = item /\ ep' = [ep EXCEPT !.refs = @ - 1] /\ ListTypes
      /\ ThreadTypes /\ t \in Threads
  BY DEF Exit, Wake, Types, Threads
<1>2. Moved(t, "idle", <<>>) /\ th[t].pc # "idle"
  BY <1>1, ExitMoves
<1>3. th'[Ctl] = th[Ctl] /\ Busy' = Busy \ {t} /\ t \in Busy
  BY <1>2, MoveBusy
<1>4. ep'.refs = ep.refs - 1 /\ ep'.open = ep.open
  <2>1. ep.refs - 1 \in Int
    BY <1>1, EpRefsInt
  <2>2. ep' = [ep EXCEPT !.refs = ep.refs - 1]
    BY <1>1
  <2> QED BY <1>1, <2>1, <2>2, EpRefs
<1>5. Opened' = Opened /\ (th'[Ctl].pc = "close" => ep'.open) /\ Alive' = Alive
  BY <1>1, <1>3, <1>4 DEF Opened, Counts, Alive
<1>6. Cardinality(Busy') = Cardinality(Busy) - 1
  BY <1>3, CountOne
<1>7. Opened \in Nat
  BY DEF Opened
<1> QED BY <1>4, <1>5, <1>6, <1>7, CountTypes, SMTT(30) DEF Counts

(* The control thread is no waiter. *)
LEMMA CtlBusy ==
  ASSUME NEW pc, NEW snap, Moved(Ctl, pc, snap)
  PROVE  Busy' = Busy /\ th'[Ctl].pc = pc
<1>1. \A u \in Waiters : th'[u] = th[u]
  BY EpollAssumption DEF Moved, Threads
<1>2. th'[Ctl].pc = pc
  BY DEF Moved
<1>3. Busy' = Busy
  BY <1>1 DEF Busy
<1> QED BY <1>2, <1>3

(* The closing thread gives back the reference of the descriptor. *)
LEMMA ExitCtlCounts ==
  ASSUME Countable, Wake, Counts, Exit(Ctl)
  PROVE  Counts'
<1>1. /\ th[Ctl].pc = "exit" /\ item' = item /\ ep' = [ep EXCEPT !.refs = @ - 1] /\ ListTypes
      /\ ThreadTypes /\ Ctl \in Threads
  BY DEF Exit, Wake, Types, Threads
<1>2. Moved(Ctl, "idle", <<>>)
  BY <1>1, ExitMoves
<1>3. Busy' = Busy /\ th'[Ctl].pc = "idle"
  BY <1>2, CtlBusy
<1>4. ep'.refs = ep.refs - 1 /\ ep'.open = ep.open
  <2>1. ep.refs - 1 \in Int
    BY <1>1, EpRefsInt
  <2>2. ep' = [ep EXCEPT !.refs = ep.refs - 1]
    BY <1>1
  <2> QED BY <1>1, <2>1, <2>2, EpRefs
<1>5. Opened = 1 /\ Opened' = 0 /\ th'[Ctl].pc # "close"
  BY <1>1, <1>3, <1>4 DEF Opened, Wake, ClosedLoud
<1>6. Alive' = Alive
  BY <1>1 DEF Alive
<1> QED BY <1>3, <1>4, <1>5, <1>6, CountTypes, SMTT(30) DEF Counts

(* A notification by a thread, and the calls of the control thread. *)
LEMMA NotifyThreadCounts ==
  ASSUME Wake, Counts, NEW t \in Threads, NotifyThread(t)
  PROVE  Counts'
<1>1. /\ th[t].pc = "notify" /\ item' = item /\ ep' = [ep EXCEPT !.efd = TRUE] /\ ListTypes
      /\ ThreadTypes
  BY DEF NotifyThread, Wake, Types
<1>2. ep'.open = ep.open /\ ep'.refs = ep.refs
  BY <1>1, EpEfd DEF EpEfdFact
<1>3. Moved(t, IF t = Ctl THEN "exit" ELSE "decide", th[t].snap)
  BY <1>1, NotifyThreadMoves
<1>4. \A s \in Sockets : item'[s].refs > 0 <=> item[s].refs > 0
  BY <1>1
<1>5. CASE t = Ctl
  <2>1. Busy' = Busy /\ th'[Ctl].pc = "exit"
    BY <1>3, <1>5, CtlBusy
  <2>2. Opened' = Opened /\ th'[Ctl].pc # "close"
    BY <1>1, <1>5, <2>1 DEF Opened
  <2> QED BY <1>2, <1>4, <2>1, <2>2, CountsKept
<1>6. CASE t # Ctl
  <2>1. t \in Waiters /\ Moved(t, "decide", th[t].snap) /\ th[t].pc # "idle"
    BY <1>1, <1>3, <1>6 DEF Threads
  <2> QED BY <1>2, <1>4, <2>1, StayCounts
<1> QED BY <1>5, <1>6

(* A step of the control thread that leaves the references alone. *)
LEMMA CtlCounts ==
  ASSUME Wake, Counts, UNCHANGED item, ep'.refs = ep.refs, NEW pc, NEW snap,
         Moved(Ctl, pc, snap), th[Ctl].pc \notin {"notify", "exit"},
         \/ pc \notin {"notify", "exit", "close"} /\ ep'.open = ep.open
         \/ pc = "close" /\ ep'.open /\ ep.open
         \/ pc = "notify" /\ ep.open
  PROVE  Counts'
<1>1. Busy' = Busy /\ th'[Ctl].pc = pc
  BY CtlBusy
<1>2. Opened' = Opened /\ (th'[Ctl].pc = "close" => ep'.open)
  BY <1>1 DEF Opened
<1> QED BY <1>1, <1>2, CountsKept

(* net_epoll_ctl() takes no reference. *)
LEMMA CtlCallCounts ==
  ASSUME Wake, Counts, NEW s \in Faulty, NEW op \in {"add", "mod", "del"}, NEW w \in Watches,
         CtlCall(s, op, w)
  PROVE  Counts'
<1>1. th[Ctl].pc = "idle" /\ UNCHANGED <<ep, item>>
  BY DEF CtlCall
<1>2. Moved(Ctl, "ctl", th[Ctl].snap)
  BY CtlCallMoves DEF Wake, Types, CtlCallMove
<1> QED BY <1>1, <1>2, CtlCounts

(* Closing hands the reference of the descriptor to the closing thread. *)
LEMMA CtlStepCounts ==
  ASSUME Wake, Counts, CtlStep \/ CloseCall
  PROVE  Counts'
<1>1. Types /\ ThreadTypes /\ ListTypes
  BY DEF Wake, Types
<1>2. CASE CtlReturns
  <2>1. th[Ctl].pc = "ctl" /\ UNCHANGED <<ep, item>> /\ Moved(Ctl, "idle", th[Ctl].snap)
    BY <1>1, <1>2, CtlReturnsMoves DEF CtlReturns
  <2> QED BY <2>1, CtlCounts
<1>3. CASE CloseCall
  <2>1. th[Ctl].pc = "idle" /\ UNCHANGED <<ep, item>> /\ ep.open
    BY <1>3 DEF CloseCall
  <2>2. \E snap : Moved(Ctl, "close", snap)
    BY <1>1, <1>3, CloseCallMoves
  <2> QED BY <2>1, <2>2, CtlCounts
<1>4. CASE CloseEntry
  <2>1. th[Ctl].pc = "close" /\ UNCHANGED item /\ ep' = [ep EXCEPT !.open = FALSE]
        /\ Moved(Ctl, "notify", th[Ctl].snap)
    BY <1>1, <1>4, CloseEntryMoves DEF CloseEntry
  <2>2. ep'.refs = ep.refs /\ ep.open
    BY <1>1, <2>1, EpClose DEF EpCloseFact, Counts
  <2> QED BY <2>1, <2>2, CtlCounts
<1>5. CASE CloseNext
  <2>1. th[Ctl].pc = "close" /\ UNCHANGED <<ep, item>> /\ ep.open
    BY <1>5 DEF CloseNext, Counts
  <2>2. th' = th \/ Moved(Ctl, "close", Tail(th[Ctl].snap))
    BY <1>1, <1>5, CloseNextMoves DEF CloseNextMove
  <2> QED BY <2>1, <2>2, CtlCounts, WorkerCounts
<1> QED BY <1>2, <1>3, <1>4, <1>5 DEF CtlStep

(* The waiters. *)
LEMMA DropCounts ==
  ASSUME Countable, Wake, Level, Counts, NEW t \in Waiters, th[t].pc = "item", NEW h \in Sockets,
         InSnapshot(h), Dropped(h), NEW snap, Moved(t, "item", snap)
  PROVE  Counts'
<1>1. /\ \A x \in Sockets : x # h => item'[x] = item[x]
      /\ item'[h] = PutItem(item[h]) /\ item[h] \in Items /\ ep' = EpAfterPut(item[h])
      /\ ListTypes
  BY DEF Dropped, Wake, Types, ListTypes
<1>2. item'[h].refs = item[h].refs - 1
  BY <1>1, PutItemIs DEF PutItemEffect
<1>3. /\ ep'.refs = IF item[h].refs = 1 THEN ep.refs - 1 ELSE ep.refs
      /\ ep'.open = ep.open
  BY <1>1, EpPut DEF EpPutFact
<1>4. th'[Ctl] = th[Ctl] /\ Busy' = Busy
  BY MoveBusy
<1>5. Opened' = Opened /\ (th'[Ctl].pc = "close" => ep'.open)
  BY <1>3, <1>4 DEF Opened, Counts
<1>6. item[h].refs \in Nat /\ item[h].refs >= 1
  BY ItemRefs
<1> QED BY <1>1, <1>2, <1>3, <1>4, <1>5, <1>6, PutCounts

(* The candidate to be polled is in a snapshot. *)
LEMMA HeadInSnapshot ==
  ASSUME Wake, NEW t \in Waiters, th[t].snap # <<>>
  PROVE  Head(th[t].snap).s \in Sockets /\ InSnapshot(Head(th[t].snap).s)
<1>1. HeadOfSnapFact(t) /\ HeldEffect(t)
  BY HeadOfSnap, HeldIs DEF Wake, Types
<1>2. Head(th[t].snap) = th[t].snap[1] /\ Head(th[t].snap).s \in Sockets
  BY <1>1 DEF HeadOfSnapFact
<1>3. 1 \in DOMAIN th[t].snap
  BY <1>1, SMT DEF HeldEffect
<1> QED BY <1>2, <1>3 DEF InSnapshot

(* A dropped candidate is let go. *)
LEMMA PollItemCounts ==
  ASSUME Countable, Wake, Level, Counts, NEW t \in Waiters, PollItem(t)
  PROVE  Counts'
<1>1. th[t].pc = "item" /\ th[t].snap # <<>>
  BY DEF PollItem, More
<1>2. PollItemEffect(t)
  BY PollItemIs DEF Wake
<1>3. CASE UNCHANGED <<ep, item, th>>
  BY <1>3, WorkerCounts
<1>4. CASE Dropped(Head(th[t].snap).s) /\ Moved(t, "item", Tail(th[t].snap))
  BY <1>1, <1>4, HeadInSnapshot, DropCounts
<1> QED BY <1>2, <1>3, <1>4 DEF PollItemEffect

(* A polled candidate is let go. *)
LEMMA PollReplyCounts ==
  ASSUME Countable, Wake, Level, Counts, NEW t \in Waiters, PollReply(t)
  PROVE  Counts'
<1>1. th[t].pc = "item" /\ call.st = "done"
  BY DEF PollReply
<1>2. th[t].snap # <<>>
  BY <1>1, ReplyForHead
<1>3. PollReplyEffect(t)
  BY <1>2, PollReplyIs DEF Wake
<1> QED BY <1>1, <1>2, <1>3, HeadInSnapshot, DropCounts DEF PollReplyEffect

(* The items of a snapshot have a reference already. *)
LEMMA SnapshotTakeCounts ==
  ASSUME Wake, Level, Counts, NEW t \in Waiters, NEW n \in 0..Len(ready), SnapshotTake(t, n)
  PROVE  Counts'
<1>1. th[t].pc = "take" /\ ep' = ep /\ Types
  BY DEF SnapshotTake, Wake
<1>2. SnapshotTakeMove(t, n)
  BY <1>1, SnapshotTakeMoves
<1>3. SnapshotTakeEffect(t, n) /\ Moved(t, "item", Shot(n))
  BY <1>1, <1>2, SnapshotTakeIs DEF SnapshotTakeMove
<1>4. ASSUME NEW s \in Sockets PROVE item'[s].refs > 0 <=> item[s].refs > 0
  <2>1. CASE s \notin Front(n)
    BY <1>3, <2>1 DEF SnapshotTakeEffect
  <2>2. CASE s \in Front(n)
    <3>1. item'[s].refs = item[s].refs + 1 /\ s \in Range(ready)
      BY <1>3, <2>2 DEF SnapshotTakeEffect
    <3>2. item[s].reg
      BY <3>1 DEF Level, LevelAt, ItemAt
    <3>3. item[s].refs \in Nat /\ item[s].refs >= 1
      BY <3>2, ItemRefs
    <3> QED BY <3>1, <3>3, SMT
  <2> QED BY <2>1, <2>2
<1>5. th[t].pc # "idle"
  BY <1>1
<1> QED BY <1>1, <1>3, <1>4, <1>5, StayCounts

(* epoll_restore_snapshot() gives back one reference for every item it      *)
(* frees.                                                                   *)
LEMMA RestoreCounts ==
  ASSUME Countable, Wake, Level, Counts, NEW t \in Waiters, epoll_restore_snapshot(t)
  PROVE  Counts'
<1>1. th[t].pc = "item" /\ th[t].pc # "idle"
  <2>1. th[t].pc = "item"
    BY DEF epoll_restore_snapshot
  <2> QED BY <2>1
<1>2. RestoreEffect(t) /\ Moved(t, IF Kept(t) # {} THEN "notify" ELSE "decide", <<>>)
  BY RestoreIs, RestoreMoves DEF Wake, Types
<1>3. th'[Ctl] = th[Ctl] /\ Busy' = Busy
  <2>1. (IF Kept(t) # {} THEN "notify" ELSE "decide") # "idle"
    OBVIOUS
  <2> QED BY <1>1, <1>2, <2>1, MoveBusy
<1> DEFINE Freed == {s \in Held(t) : item[s].refs = 1}
<1>4. /\ ep'.open = ep.open /\ ep'.refs = ep.refs - Cardinality(Freed)
      /\ \A s \in Sockets \ Held(t) : item'[s] = item[s]
      /\ \A s \in Held(t) : item'[s].refs = item[s].refs - 1
  BY <1>2 DEF RestoreEffect
<1>5. Held(t) \subseteq Sockets /\ \A s \in Held(t) : InSnapshot(s)
  BY <1>1, HeldSnap, HeldIs DEF HeldEffect, Wake
<1>6. \A s \in Held(t) : item[s].refs \in Nat /\ item[s].refs >= 1
  BY <1>5, ItemRefs
<1>7. Alive' = Alive \ Freed /\ Freed \subseteq Alive
  BY <1>4, <1>5, <1>6, SMT DEF Alive
<1> HIDE DEF Freed
<1>8. Cardinality(Alive') = Cardinality(Alive) - Cardinality(Freed) /\ Cardinality(Freed) \in Nat
  <2>1. Alive \in SUBSET Sockets /\ Freed \in SUBSET Sockets /\ Freed \in SUBSET Alive
    BY <1>7 DEF Alive
  <2> QED BY <1>7, <2>1 DEF Countable
<1>9. Opened' = Opened /\ (th'[Ctl].pc = "close" => ep'.open) /\ Opened \in Nat
  BY <1>3, <1>4 DEF Opened, Counts
<1> QED BY <1>3, <1>4, <1>8, <1>9, CountTypes, SMTT(30) DEF Counts

(* Every step of a waiter keeps the count. *)
LEMMA WaiterCounts ==
  ASSUME Countable, Wake, Level, Counts, NEW t \in Waiters, WaitCall(t) \/ ThreadStep(t)
  PROVE  Counts'
<1>1. Types /\ ThreadTypes /\ ListTypes
  BY DEF Wake, Types
<1>2. CASE SnapshotCount(t)
  <2>1. th[t].pc = "count" /\ UNCHANGED <<ep, item>> /\ Moved(t, "take", th[t].snap)
    BY <1>1, <1>2, SnapshotCountMoves DEF SnapshotCount
  <2> QED BY <2>1, StayCounts
<1>3. CASE Decide(t)
  <2>1. /\ th[t].pc = "decide" /\ UNCHANGED <<ep, item>>
        /\ Moved(t, "exit", th[t].snap) \/ Moved(t, "sleep", th[t].snap)
    BY <1>1, <1>3, DecideMoves DEF Decide, DecideMove
  <2> QED BY <2>1, StayCounts
<1>4. CASE PollReturns(t)
  <2>1. /\ th[t].pc = "sleep" /\ UNCHANGED <<ep, item>>
        /\ Moved(t, "relock", th[t].snap) \/ Moved(t, "expired", th[t].snap)
    BY <1>1, <1>4, PollReturnsMoves DEF PollReturns
  <2> QED BY <2>1, StayCounts
<1>5. CASE Relock(t)
  <2>1. /\ th[t].pc \in {"relock", "expired"} /\ item' = item
        /\ Moved(t, "exit", th[t].snap) \/ Moved(t, "count", th[t].snap)
        /\ ep' = ep \/ ep' = [ep EXCEPT !.efd = FALSE]
    BY <1>1, <1>5, RelockMoves DEF Relock, RelockMove
  <2>2. ep'.open = ep.open /\ ep'.refs = ep.refs
    BY <1>1, <2>1, EpEfd DEF EpEfdFact
  <2> QED BY <2>1, <2>2, StayCounts
<1> QED BY <1>2, <1>3, <1>4, <1>5, WaitCallCounts, SnapshotTakeCounts, PollItemCounts,
           PollReplyCounts, RestoreCounts DEF ThreadStep

(* Every step keeps ep->refs exact. *)
LEMMA NextCounts == Countable /\ Wake /\ Level /\ Counts /\ [Next]_vars => Counts'
<1> SUFFICES ASSUME Countable, Wake, Level, Counts, [Next]_vars PROVE Counts'
  OBVIOUS
<1>1. CASE UNCHANGED vars
  <2>1. UNCHANGED <<ep, item, th>>
    BY <1>1 DEF vars
  <2> QED BY <2>1, WorkerCounts
<1>2. CASE \E s \in Sockets : WorkerStep(s)
  BY <1>2, WorkerStepCounts
<1>3. CASE \E t \in Waiters : WaitCall(t) \/ ThreadStep(t)
  BY <1>3, WaiterCounts
<1>4. CASE \E t \in Threads : Leaving(t)
  BY <1>4, NotifyThreadCounts, ExitWaiterCounts, ExitCtlCounts DEF Leaving, Threads
<1>5. CASE CtlStep \/ CloseCall
  BY <1>5, CtlStepCounts
<1>6. CASE \E s \in Sockets : SocketStep(s)
  BY <1>6, SocketStepCounts
<1>7. CASE \E s \in Faulty, op \in {"add", "mod", "del"} : \E w \in Watches : CtlCall(s, op, w)
  BY <1>7, CtlCallCounts
<1>8. Faulty \subseteq Sockets
  BY EpollAssumption
<1> QED BY <1>1, <1>2, <1>3, <1>4, <1>5, <1>6, <1>7, <1>8 DEF Next, SocketStep

-----------------------------------------------------------------------------
(* No step of a worker or of the network breaks the invariant that keeps   *)
(* the readiness of a socket, and the reads parked on it, from being lost.  *)

(* A candidate that is not the one asked about stays in its snapshot. *)
LEMMA TakenElsewhere ==
  ASSUME Wake, NEW s \in Sockets, LocalTo(s), NEW x \in Sockets, x # s, NEW e, Taken(x, e)
  PROVE  Taken(x, e)'
<1>0. PICK t \in Waiters : \E i \in 1..Len(th[t].snap) :
        /\ th[t].snap[i].s = x /\ e \in th[t].snap[i].ev
        /\ ~ (i = 1 /\ (call.st = "done" \/ wk[x].reply # NoReply))
  BY DEF Taken
<1>1. PICK i \in 1..Len(th[t].snap) :
        /\ th[t].snap[i].s = x /\ e \in th[t].snap[i].ev
        /\ ~ (i = 1 /\ (call.st = "done" \/ wk[x].reply # NoReply))
  BY <1>0
<1>2. wk'[x] = wk[x] /\ th' = th
  BY DEF LocalTo
<1>3. ASSUME i = 1, call'.st = "done" PROVE FALSE
  <2>1. call.st = "sent" /\ call.s = s
    BY <1>1, <1>3 DEF LocalTo
  <2>2. th[t].snap # <<>> /\ th[t].pc = "item"
    BY <1>1, SMT DEF Wake, SnapAt
  <2>3. Head(th[t].snap) = th[t].snap[1]
    BY <2>2, HeadOfSnap DEF HeadOfSnapFact, Wake, Types
  <2> QED BY <1>1, <1>3, <2>1, <2>2, <2>3, ReplyForHead
<1>4. ~ (i = 1 /\ (call'.st = "done" \/ wk'[x].reply # NoReply))
  BY <1>1, <1>2, <1>3
<1> QED BY <1>1, <1>2, <1>4 DEF Taken

(* A step on one socket keeps what holds of the others. *)
LEMMA OthersLevel ==
  ASSUME Wake, NEW s \in Sockets, LocalTo(s), NEW x \in Sockets, x # s, LevelAt(x)
  PROVE  LevelAt(x)'
<1>1. /\ item'[x] = item[x] /\ sk'[x] = sk[x] /\ wk'[x] = wk[x] /\ th' = th
      /\ x \in Range(ready') <=> x \in Range(ready)
  BY DEF LocalTo
<1>2. WalksAt(x)' /\ ParkedAt(x)' /\ (InSnapshot(x)' <=> InSnapshot(x))
  BY <1>1 DEF LevelAt, WalksAt, ParkedAt, InSnapshot, Readable
<1>3. ItemAt(x)'
  BY <1>1, <1>2 DEF LevelAt, ItemAt
<1>4. Poll(x)' = Poll(x) /\ \A e : Underway(x, e) => Underway(x, e)'
  BY <1>1 DEF Poll, Underway
<1>5. CoveredAt(x)'
  BY <1>1, <1>4, TakenElsewhere DEF LevelAt, CoveredAt
<1> QED BY <1>2, <1>3, <1>5 DEF LevelAt

(* It is enough to look at the socket of the step. *)
LEMMA LocalLevel ==
  ASSUME Wake, Level, NEW s \in Sockets, LocalTo(s), LevelAt(s)', Polled'
  PROVE  Level'
<1>1. SnapOnce'
  BY DEF Level, SnapOnce, LocalTo
<1>2. \A x \in Sockets : x # s => LevelAt(x)'
  BY OthersLevel DEF Level
<1> QED BY <1>1, <1>2 DEF Level

(* What a tail leaves of a walk. *)
LEMMA TailRange ==
  ASSUME NEW S, NEW q \in Seq(S), q # <<>>
  PROVE  /\ Range(Tail(q)) \subseteq Range(q)
         /\ \A x \in Range(q) : x # Head(q) => x \in Range(Tail(q))
<1>1. /\ Tail(q) \in Seq(S) /\ Len(Tail(q)) = Len(q) - 1 /\ Len(q) \in Nat /\ Head(q) = q[1]
      /\ \A i \in 1..Len(Tail(q)) : Tail(q)[i] = q[i + 1]
  BY SMT
<1>2. RangeEffect(S, q) /\ RangeEffect(S, Tail(q))
  BY <1>1, RangeIs
<1>3. \A x \in Range(Tail(q)) : x \in Range(q)
  BY <1>1, <1>2, SMT DEF RangeEffect
<1>4. ASSUME NEW x \in Range(q), x # Head(q) PROVE x \in Range(Tail(q))
  <2>1. PICK i \in 1..Len(q) : q[i] = x
    BY <1>2 DEF RangeEffect
  <2>2. i - 1 \in 1..Len(Tail(q)) /\ Tail(q)[i - 1] = x
    BY <1>1, <1>4, <2>1, SMT
  <2> QED BY <1>2, <2>2 DEF RangeEffect
<1> QED BY <1>3, <1>4

(* A worker that answers, or will after a notification, walks no list. *)
LEMMA RepliedWalks ==
  ASSUME NEW s \in Sockets, LevelAt(s), wk[s].pc = "idle", NEW reply, Replied(s, reply)
  PROVE  WalksAt(s)' /\ wk'[s].todo = <<>>
<1>1. wk[s].todo = <<>>
  BY DEF LevelAt, WalksAt
<1>2. wk'[s].todo = <<>> /\ wk'[s].pc \in {"idle", "notify"}
  BY <1>1 DEF Replied, Served
<1> QED BY <1>2, EmptyRange DEF WalksAt

(* ... and the other workers and requests are as they were. *)
LEMMA RepliedLocal ==
  ASSUME Types, NEW s \in Sockets, call.st = "sent", call.s = s, NEW reply, Replied(s, reply),
         UNCHANGED <<sk, th>>, \A x \in Sockets : x # s => item'[x] = item[x],
         \A x \in Sockets : x # s => (x \in Range(ready') <=> x \in Range(ready))
  PROVE  LocalTo(s) /\ (call' = call \/ call'.st = "done")
<1>1. \A x \in Sockets : x # s => wk'[x] = wk[x]
  BY DEF Replied, Served
<1>2. call' = call \/ call'.st = "done"
  BY DoneIs DEF Replied
<1> QED BY <1>1, <1>2 DEF LocalTo

(* The other items stay where they are on the list. *)
LEMMA RelistedOthers ==
  ASSUME NEW s \in Sockets, Relisted(s)
  PROVE  /\ \A x \in Sockets : x # s => item'[x] = item[x]
         /\ \A x \in Sockets : x # s => (x \in Range(ready') <=> x \in Range(ready))
         /\ s \in Range(ready') <=> item'[s].ev # {}
BY DEF Relisted

(* A poll of a candidate answers for all of its events. *)
LEMMA PollLevel ==
  ASSUME Wake, Level, NEW s \in Sockets, _poll(s)
  PROVE  Level'
<1>1. /\ wk[s].pc = "idle" /\ call.st = "sent" /\ call.s = s /\ call.op = "poll"
      /\ sk[s].st = "open" /\ UNCHANGED <<sk, th>>
  BY DEF _poll, Called
<1>2. PollEffect(s) /\ Types /\ LevelAt(s)
  BY PollIs DEF Wake, Level
<1>3. item[s].reg /\ item'[s].reg = item[s].reg
  BY <1>1, <1>2 DEF Level, Polled, PollEffect
<1>4. LocalTo(s) /\ (call' = call \/ call'.st = "done")
  BY <1>1, <1>2, RepliedLocal, RelistedOthers DEF PollEffect
<1>5. WalksAt(s)' /\ wk'[s].todo = <<>> /\ wk[s].todo = <<>>
  BY <1>1, <1>2, RepliedWalks DEF PollEffect, LevelAt, WalksAt
<1>6. ItemAt(s)'
  <2>1. InSnapshot(s)' <=> InSnapshot(s)
    BY <1>1 DEF InSnapshot
  <2> QED BY <1>1, <1>2, <1>3, <2>1, RelistedOthers DEF PollEffect, LevelAt, ItemAt
<1>7. CoveredAt(s)'
  <2>1. Poll(s)' = Poll(s)
    BY <1>1 DEF Poll
  <2> QED BY <1>2, <2>1 DEF PollEffect, CoveredAt
<1>8. ParkedAt(s)'
  BY <1>1, <1>2, <1>5 DEF LevelAt, ParkedAt
<1>9. Polled'
  BY <1>1, <1>3, <1>4 DEF Polled
<1> QED BY <1>4, <1>5, <1>6, <1>7, <1>8, <1>9, LocalLevel DEF LevelAt

(* A new registration, and a new mask, are compared with the socket. *)
LEMMA AddLevel ==
  ASSUME Wake, Level, NEW s \in Sockets, epoll_ctl_add(s), ~ item[s].reg
  PROVE  Level'
<1>1. /\ wk[s].pc = "idle" /\ call.st = "sent" /\ call.s = s /\ call.op = "add"
      /\ sk[s].st = "open" /\ UNCHANGED <<sk, th>>
  BY DEF epoll_ctl_add, Called
<1>2. AddEffect(s) /\ Types /\ LevelAt(s)
  BY AddIs DEF Wake, Level
<1>3. LocalTo(s) /\ (call' = call \/ call'.st = "done")
  BY <1>1, <1>2, RepliedLocal, RelistedOthers DEF AddEffect
<1>4. WalksAt(s)' /\ wk'[s].todo = <<>> /\ wk[s].todo = <<>>
  BY <1>1, <1>2, RepliedWalks DEF AddEffect, LevelAt, WalksAt
<1>5. ~ InSnapshot(s)'
  <2>1. ~ InSnapshot(s)
    BY <1>1, CtlAlone, NoSnapshot
  <2> QED BY <1>1, <2>1 DEF InSnapshot
<1>6. ItemAt(s)'
  <2>1. /\ s \in Range(ready') <=> item'[s].ev # {}
        /\ item'[s].reg /\ item'[s].useful = item'[s].reg /\ item'[s].refs = 1
        /\ sk'[s].st # "closed"
    BY <1>1, <1>2, RelistedOthers DEF AddEffect
  <2> QED BY <1>5, <2>1, SMT DEF ItemAt
<1>7. CoveredAt(s)'
  <2>1. Poll(s)' = Poll(s)
    BY <1>1 DEF Poll
  <2> QED BY <1>2, <2>1 DEF AddEffect, CoveredAt
<1>8. ParkedAt(s)'
  BY <1>1, <1>2, <1>4 DEF LevelAt, ParkedAt
<1>9. Polled'
  BY <1>1, <1>3 DEF Polled
<1> QED BY <1>3, <1>4, <1>6, <1>7, <1>8, <1>9, LocalLevel DEF LevelAt

(* epoll_ctl_mod() covers what the new mask watches. *)
LEMMA ModLevel ==
  ASSUME Wake, Level, NEW s \in Sockets, epoll_ctl_mod(s), item[s].reg
  PROVE  Level'
<1>1. /\ wk[s].pc = "idle" /\ call.st = "sent" /\ call.s = s /\ call.op = "mod"
      /\ sk[s].st = "open" /\ UNCHANGED <<sk, th>>
  BY DEF epoll_ctl_mod, Called
<1>2. ModEffect(s) /\ Types /\ LevelAt(s)
  BY ModIs DEF Wake, Level
<1>3. /\ \A x \in Sockets : x # s => item'[x] = item[x]
      /\ \A x \in Sockets : x # s => (x \in Range(ready') <=> x \in Range(ready))
      /\ s \in Range(ready') <=> item'[s].ev # {}
  BY <1>2, RelistedOthers DEF ModEffect, LevelAt, ItemAt
<1>4. Replied(s, {})
  BY <1>2 DEF ModEffect
<1>5. LocalTo(s) /\ (call' = call \/ call'.st = "done")
  BY <1>1, <1>2, <1>3, <1>4, RepliedLocal
<1>6. WalksAt(s)' /\ wk'[s].todo = <<>> /\ wk[s].todo = <<>>
  BY <1>1, <1>2, <1>4, RepliedWalks DEF LevelAt, WalksAt
<1>7. ItemAt(s)'
  <2>1. InSnapshot(s)' <=> InSnapshot(s)
    BY <1>1 DEF InSnapshot
  <2> QED BY <1>1, <1>2, <1>3, <2>1 DEF ModEffect, LevelAt, ItemAt
<1>8. CoveredAt(s)'
  <2>1. Poll(s)' = Poll(s)
    BY <1>1 DEF Poll
  <2> QED BY <1>2, <2>1 DEF ModEffect, CoveredAt
<1>9. ParkedAt(s)'
  BY <1>1, <1>2, <1>6 DEF LevelAt, ParkedAt
<1>10. Polled'
  BY <1>1, <1>5 DEF Polled
<1> QED BY <1>5, <1>6, <1>7, <1>8, <1>9, <1>10, LocalLevel DEF LevelAt

(* A worker that answers at once is idle, and the request is answered. *)
LEMMA RefusedLocal ==
  ASSUME Types, NEW s \in Sockets, call.st = "sent", call.s = s, Answer(s, {}),
         UNCHANGED <<sk, th>>, \A x \in Sockets : x # s => item'[x] = item[x],
         \A x \in Sockets : x # s => (x \in Range(ready') <=> x \in Range(ready))
  PROVE  /\ LocalTo(s) /\ call'.st = "done" /\ wk'[s].pc = "idle" /\ wk'[s].reply = NoReply
         /\ wk'[s].todo = wk[s].todo
<1>1. RefusedEffect(s)
  BY RefusedIs
<1>2. /\ \A x \in Sockets : x # s => wk'[x] = wk[x]
      /\ wk'[s].pc = "idle" /\ wk'[s].reply = NoReply /\ wk'[s].todo = wk[s].todo
  BY <1>1 DEF RefusedEffect, Served
<1>3. call'.st = "done"
  BY <1>1, DoneIs DEF RefusedEffect
<1> QED BY <1>2, <1>3 DEF LocalTo

(* A request that is refused changes nothing, and nobody has a snapshot     *)
(* that it could spoil, or the socket is gone.                              *)
LEMMA RefusedLevel ==
  ASSUME Wake, Level, NEW s \in Sockets, call.st = "sent", call.s = s, wk[s].pc = "idle",
         Answer(s, {}), UNCHANGED <<ready, item, sk, th>>,
         call.op # "poll" \/ sk[s].st # "open"
  PROVE  Level'
<1>1. /\ LocalTo(s) /\ call'.st = "done" /\ wk'[s].pc = "idle" /\ wk'[s].reply = NoReply
      /\ wk'[s].todo = wk[s].todo
  BY RefusedLocal DEF Wake
<1>2. LevelAt(s) /\ wk[s].todo = <<>>
  BY DEF Level, LevelAt, WalksAt
<1>3. WalksAt(s)' /\ ParkedAt(s)'
  BY <1>1, <1>2, EmptyRange DEF WalksAt, LevelAt, ParkedAt, Readable
<1>4. ItemAt(s)'
  <2>1. InSnapshot(s)' <=> InSnapshot(s)
    BY DEF InSnapshot
  <2> QED BY <1>2, <2>1 DEF LevelAt, ItemAt
<1>5. CoveredAt(s)'
  <2>1. CASE sk[s].st # "open"
    BY <2>1 DEF CoveredAt
  <2>2. CASE call.op # "poll"
    <3>1. \A e : ~ Taken(s, e)
      BY <2>2, CtlAlone, NoSnapshot
    <3>2. Poll(s)' = Poll(s) /\ \A e : Underway(s, e) => Underway(s, e)'
      BY DEF Poll, Underway
    <3> QED BY <1>2, <3>1, <3>2 DEF LevelAt, CoveredAt
  <2> QED BY <2>1, <2>2
<1>6. Polled'
  BY <1>1 DEF Polled
<1> QED BY <1>1, <1>3, <1>4, <1>5, <1>6, LocalLevel DEF LevelAt

(* An EBADF answer loses nothing. *)
LEMMA CallBadfLevel ==
  ASSUME Wake, Level, NEW s \in Sockets, CallBadf(s)
  PROVE  Level'
BY RefusedLevel DEF CallBadf

(* A call that is answered with EEXIST or ENOENT loses nothing. *)
LEMMA RefusedCtlLevel ==
  ASSUME Wake, Level, NEW s \in Sockets,
         \/ epoll_ctl_add(s) /\ item[s].reg
         \/ epoll_ctl_mod(s) /\ ~ item[s].reg
         \/ epoll_ctl_del(s) /\ ~ item[s].reg
  PROVE  Level'
<1>1. Answer(s, {}) /\ UNCHANGED <<ready, item, sk, th>>
  BY DEF epoll_ctl_add, epoll_ctl_mod, epoll_ctl_del
<1>2. /\ call.st = "sent" /\ call.s = s /\ wk[s].pc = "idle"
      /\ call.op \in {"add", "mod", "del"}
  BY DEF epoll_ctl_add, epoll_ctl_mod, epoll_ctl_del, Called
<1>3. call.op # "poll"
  BY <1>2
<1> QED BY <1>1, <1>2, <1>3, RefusedLevel

(* An item that is unregistered has no readiness to lose. *)
LEMMA UnregisteredAt ==
  ASSUME Types, NEW s \in Sockets, LevelAt(s), item[s].reg, epoll_item_unregister(s),
         wk[s].todo = <<>>, th' = th
  PROVE  /\ ItemAt(s)' /\ CoveredAt(s)'
         /\ \A x \in Sockets : x # s => item'[x] = item[x]
         /\ \A x \in Sockets : x # s => (x \in Range(ready') <=> x \in Range(ready))
<1>1. UnregisterEffect(s)
  BY UnregisterIs DEF Types
<1>2. /\ \A x \in Sockets : x # s => item'[x] = item[x]
      /\ \A x \in Sockets : x # s => (x \in Range(ready') <=> x \in Range(ready))
      /\ s \notin Range(ready') /\ ~ item'[s].reg /\ item'[s].useful = FALSE /\ item'[s].reg = FALSE
      /\ item'[s].ev = {} /\ item'[s].refs = item[s].refs - 1
  BY <1>1 DEF UnregisterEffect
<1>3. InSnapshot(s)' <=> InSnapshot(s)
  BY DEF InSnapshot
<1>4. item'[s].refs = IF InSnapshot(s)' THEN 1 ELSE 0
  <2>1. item[s].refs = 1 + IF InSnapshot(s) THEN 1 ELSE 0
    BY DEF LevelAt, ItemAt
  <2> QED BY <1>2, <1>3, <2>1, SMT
<1>5. item'[s].refs = (IF item'[s].reg THEN 1 ELSE 0) + (IF InSnapshot(s)' THEN 1 ELSE 0)
  BY <1>2, <1>4, SMT
<1>6. ItemAt(s)'
  BY <1>2, <1>5 DEF ItemAt
<1>7. CoveredAt(s)'
  BY <1>2 DEF CoveredAt
<1> QED BY <1>2, <1>6, <1>7

(* epoll_ctl_del() leaves nothing to cover. *)
LEMMA DelLevel ==
  ASSUME Wake, Level, NEW s \in Sockets, epoll_ctl_del(s), item[s].reg
  PROVE  Level'
<1>1. /\ wk[s].pc = "idle" /\ call.st = "sent" /\ call.s = s /\ UNCHANGED <<sk, th>>
  BY DEF epoll_ctl_del, Called
<1>2. epoll_item_unregister(s) /\ Answer(s, {}) /\ Types
  BY DelIs DEF Wake
<1>3. LevelAt(s) /\ wk[s].todo = <<>>
  BY <1>1 DEF Level, LevelAt, WalksAt
<1>4. /\ ItemAt(s)' /\ CoveredAt(s)'
      /\ \A x \in Sockets : x # s => item'[x] = item[x]
      /\ \A x \in Sockets : x # s => (x \in Range(ready') <=> x \in Range(ready))
  BY <1>1, <1>2, <1>3, UnregisteredAt
<1>5. /\ LocalTo(s) /\ call'.st = "done" /\ wk'[s].pc = "idle" /\ wk'[s].reply = NoReply
      /\ wk'[s].todo = wk[s].todo
  BY <1>1, <1>2, <1>4, RefusedLocal
<1>6. WalksAt(s)' /\ ParkedAt(s)'
  BY <1>1, <1>3, <1>5, EmptyRange DEF WalksAt, LevelAt, ParkedAt, Readable
<1>7. Polled'
  BY <1>5 DEF Polled
<1> QED BY <1>4, <1>5, <1>6, <1>7, LocalLevel DEF LevelAt

(* A notification ends; the request that waited for it is answered. *)
LEMMA NotifyWorkerLevel ==
  ASSUME Wake, Level, NEW s \in Sockets, NotifyWorker(s)
  PROVE  Level'
<1>1. wk[s].pc = "notify" /\ UNCHANGED <<ready, item, sk, th>>
  BY DEF NotifyWorker
<1>2. NotifyWorkerEffect(s) /\ Types /\ LevelAt(s)
  BY NotifyWorkerIs DEF Wake, Level
<1>3. /\ wk'[s].todo = wk[s].todo /\ wk'[s].ev = wk[s].ev /\ wk'[s].reply = NoReply
      /\ \A x \in Sockets : x # s => wk'[x] = wk[x]
      /\ \/ wk[s].reply = NoReply /\ call' = call /\ wk'[s].pc = "walk"
         \/ wk[s].reply # NoReply /\ call'.st = "done" /\ wk[s].todo = <<>>
            /\ call.st = "sent" /\ call.s = s
  BY <1>2, DoneIs DEF NotifyWorkerEffect, Served, LevelAt, WalksAt, Wake, Owes
<1>4. LocalTo(s)
  BY <1>1, <1>3 DEF LocalTo
<1>5. WalksAt(s)' /\ ParkedAt(s)'
  BY <1>1, <1>2, <1>3, EmptyRange, SMTT(30) DEF WalksAt, LevelAt, ParkedAt, Readable
<1>6. ItemAt(s)'
  <2>1. InSnapshot(s)' <=> InSnapshot(s)
    BY <1>1 DEF InSnapshot
  <2> QED BY <1>1, <1>2, <2>1 DEF LevelAt, ItemAt
<1>7. CoveredAt(s)'
  <2>1. Poll(s)' = Poll(s)
    BY <1>1 DEF Poll
  <2>2. \A e : Underway(s, e) => Underway(s, e)'
    BY <1>1, <1>3, EmptyRange DEF Underway
  <2>3. \A e : Taken(s, e) => Taken(s, e)'
    BY <1>1, <1>3 DEF Taken
  <2> QED BY <1>1, <1>2, <2>1, <2>2, <2>3 DEF LevelAt, CoveredAt
<1>8. Polled'
  BY <1>1, <1>3 DEF Level, Polled
<1> QED BY <1>4, <1>5, <1>6, <1>7, <1>8, LocalLevel DEF LevelAt

(* What happens to the data, the error and the notified events of a socket. *)
LEMMA SocketLocal ==
  ASSUME NEW s \in Sockets, Socked(s), UNCHANGED <<ready, item, wk, th, call>>
  PROVE  LocalTo(s)
BY DEF Socked, LocalTo

(* The item, its place and its snapshots stay, and the socket is not closed *)
(* under it.                                                                *)
LEMMA KeptItem ==
  ASSUME NEW s \in Sockets, ItemAt(s), item'[s] = item[s],
         s \in Range(ready') <=> s \in Range(ready), InSnapshot(s)' <=> InSnapshot(s),
         sk'[s].st # "closed" \/ sk'[s].st = sk[s].st
  PROVE  ItemAt(s)'
<1>1. item'[s].refs = (IF item'[s].reg THEN 1 ELSE 0) + (IF InSnapshot(s)' THEN 1 ELSE 0)
  <2>1. item[s].refs = (IF item[s].reg THEN 1 ELSE 0) + (IF InSnapshot(s) THEN 1 ELSE 0)
    BY DEF ItemAt
  <2> QED BY <2>1
<1> QED BY <1>1 DEF ItemAt

(* A step on a socket that leaves its item alone. *)
LEMMA SameItem ==
  ASSUME NEW s \in Sockets, LevelAt(s), UNCHANGED <<ready, item, th>>,
         sk'[s].st # "closed" \/ sk'[s].st = sk[s].st
  PROVE  ItemAt(s)'
<1>1. InSnapshot(s)' <=> InSnapshot(s)
  BY DEF InSnapshot
<1> QED BY <1>1, KeptItem DEF LevelAt

(* An open socket on which something arrived, or was read. *)
LEMMA SocketLevel ==
  ASSUME Wake, Level, NEW s \in Sockets, Socked(s), UNCHANGED <<ready, item, wk, th, call>>,
         sk[s].st = "open", sk'[s].st = "open", sk[s].bits \subseteq sk'[s].bits,
         sk[s].task => sk'[s].task, ParkedAt(s)',
         \A e \in Poll(s)' \ Poll(s) : item[s].reg => sk'[s].task /\ e \in sk'[s].bits
  PROVE  Level'
<1>1. LocalTo(s) /\ LevelAt(s) /\ ItemAt(s)'
  BY SocketLocal, SameItem DEF Level
<1>2. WalksAt(s)'
  BY <1>1 DEF LevelAt, WalksAt
<1>3. CoveredAt(s)'
  <2>1. \A e : Underway(s, e) => Underway(s, e)'
    BY DEF Underway
  <2>2. \A e : Taken(s, e) => Taken(s, e)'
    BY DEF Taken
  <2>3. ASSUME NEW e \in Poll(s)', item[s].reg
        PROVE  e \in Poll(s) \/ Underway(s, e)'
    BY <2>3 DEF Underway
  <2> QED BY <1>1, <2>1, <2>2, <2>3 DEF LevelAt, CoveredAt
<1>4. Polled'
  BY DEF Level, Polled, Socked, Wake, Calls
<1> QED BY <1>1, <1>2, <1>3, <1>4, LocalLevel DEF LevelAt

(* socket_notify_event() registers the pending task for the items and for   *)
(* the parked reads.                                                        *)
LEMMA ArriveLevel ==
  ASSUME Wake, Level, NEW s \in Sockets, Arrive(s)
  PROVE  Level'
<1>1. UNCHANGED <<ready, item, wk, th, call>> /\ sk[s].st = "open"
  BY DEF Arrive, Serving
<1>2. ArriveEffect(s) /\ LevelAt(s)
  BY ArriveIs DEF Wake, Level
<1>3. /\ Socked(s) /\ sk'[s].st = "open" /\ sk[s].bits \subseteq sk'[s].bits
      /\ sk[s].task => sk'[s].task
  BY <1>2 DEF ArriveEffect
<1>4. ParkedAt(s)'
  BY <1>2 DEF ArriveEffect, ParkedAt, HasWaiter
<1>5. \A e \in Poll(s)' \ Poll(s) : item[s].reg => sk'[s].task /\ e \in sk'[s].bits
  BY <1>2 DEF ArriveEffect, Poll, HasWaiter
<1> QED BY <1>1, <1>3, <1>4, <1>5, SocketLevel

(* An error is on its way as soon as it is there. *)
LEMMA FailLevel ==
  ASSUME Wake, Level, NEW s \in Sockets, Fail(s)
  PROVE  Level'
<1>1. UNCHANGED <<ready, item, wk, th, call>> /\ sk[s].st = "open"
  BY DEF Fail, Serving
<1>2. FailEffect(s) /\ LevelAt(s)
  BY FailIs DEF Wake, Level
<1>3. /\ Socked(s) /\ sk'[s].st = "open" /\ sk[s].bits \subseteq sk'[s].bits
      /\ sk[s].task => sk'[s].task
  BY <1>2 DEF FailEffect
<1>4. ParkedAt(s)'
  BY <1>2 DEF FailEffect, ParkedAt, HasWaiter
<1>5. \A e \in Poll(s)' \ Poll(s) : item[s].reg => sk'[s].task /\ e \in sk'[s].bits
  BY <1>2 DEF FailEffect, Poll, HasWaiter
<1> QED BY <1>1, <1>3, <1>4, <1>5, SocketLevel

(* A read leaves the socket with no more events than it had. *)
LEMMA ReadShrinks ==
  ASSUME NEW s \in Sockets, sk'[s].data \in {0, sk[s].data}, sk'[s].err \in {FALSE, sk[s].err}
  PROVE  Poll(s)' \subseteq Poll(s) /\ (Readable(sk[s])' => Readable(sk[s]))
<1>1. sk'[s].data > 0 => sk[s].data > 0
  <2>1. CASE sk'[s].data = 0
    BY <2>1, SMT
  <2>2. CASE sk'[s].data = sk[s].data
    BY <2>2
  <2> QED BY <2>1, <2>2
<1>2. sk'[s].err => sk[s].err
  OBVIOUS
<1>3. Readable(sk[s])' => Readable(sk[s])
  BY <1>1, <1>2 DEF Readable
<1>4. Poll(s)' \subseteq Poll(s)
  BY <1>1, <1>2 DEF Poll
<1> QED BY <1>3, <1>4

(* A read only takes readiness away. *)
LEMMA NonblockingReadLevel ==
  ASSUME Wake, Level, NEW s \in Sockets, NonblockingRead(s)
  PROVE  Level'
<1>1. UNCHANGED <<ready, item, wk, th, call>> /\ sk[s].st = "open"
  BY DEF NonblockingRead, Serving
<1>2. NonblockingReadEffect(s) /\ LevelAt(s)
  BY NonblockingReadIs DEF Wake, Level
<1>3. /\ Socked(s) /\ sk'[s].st = "open" /\ sk[s].bits \subseteq sk'[s].bits
      /\ sk[s].task => sk'[s].task
  BY <1>1, <1>2 DEF NonblockingReadEffect
<1>4. Poll(s)' \subseteq Poll(s) /\ (Readable(sk[s])' => Readable(sk[s]))
  BY <1>2, ReadShrinks DEF NonblockingReadEffect
<1>5. ParkedAt(s)'
  BY <1>1, <1>2, <1>4 DEF NonblockingReadEffect, LevelAt, ParkedAt
<1> QED BY <1>1, <1>3, <1>4, <1>5, SocketLevel

(* A read is parked only while there is nothing to read. *)
LEMMA BlockingReadLevel ==
  ASSUME Wake, Level, NEW s \in Sockets, NEW r \in Readers, BlockingRead(s, r)
  PROVE  Level'
<1>1. UNCHANGED <<ready, item, wk, th, call>> /\ sk[s].st = "open"
  BY DEF BlockingRead, Serving
<1>2. BlockingReadEffect(s, r)
  BY BlockingReadIs DEF Wake
<1>3. /\ Socked(s) /\ sk'[s].st = "open" /\ sk[s].bits \subseteq sk'[s].bits
      /\ sk[s].task => sk'[s].task
  BY <1>1, <1>2 DEF BlockingReadEffect
<1>4. ParkedAt(s)'
  BY <1>2 DEF BlockingReadEffect, ParkedAt, Readable
<1>5. Poll(s)' \subseteq Poll(s)
  BY <1>2 DEF BlockingReadEffect, Poll
<1> QED BY <1>1, <1>3, <1>4, <1>5, SocketLevel

(* The task takes the notified events along, for every waiter of the list. *)
LEMMA PendingTaskLevel ==
  ASSUME Wake, Level, NEW s \in Sockets, PendingTask(s)
  PROVE  Level'
<1>1. UNCHANGED <<ready, item, th, call>> /\ sk[s].st = "open" /\ wk[s].pc = "idle"
  BY DEF PendingTask, Serving
<1>2. PendingTaskEffect(s) /\ LevelAt(s) /\ SockTypesFact(s)
  BY PendingTaskIs, SockTypes DEF Wake, Level
<1>3. /\ \A x \in Sockets : x # s => wk'[x] = wk[x] /\ sk'[x] = sk[x]
      /\ wk'[s].pc = "walk" /\ wk'[s].ev = sk[s].bits /\ wk'[s].reply = NoReply
      /\ sk'[s].st = sk[s].st /\ sk'[s].data = sk[s].data /\ sk'[s].err = sk[s].err
      /\ sk'[s].parked = sk[s].parked
  BY <1>2 DEF PendingTaskEffect, Served, Socked
<1>4. Range(wk'[s].todo) = sk[s].parked \cup (IF item[s].reg THEN {s} ELSE {})
  BY <1>2 DEF PendingTaskEffect
<1>5. LocalTo(s)
  BY <1>1, <1>3 DEF LocalTo
<1>6. WalksAt(s)'
  <2>1. s \notin sk[s].parked
    BY <1>2, EpollAssumption DEF SockTypesFact
  <2>2. s \in Range(wk'[s].todo) => item'[s].reg
    BY <1>1, <1>4, <2>1
  <2>3. wk'[s].pc # "idle"
    BY <1>3
  <2> QED BY <1>3, <2>2, <2>3 DEF WalksAt
<1>7. ParkedAt(s)'
  BY <1>3, <1>4 DEF ParkedAt
<1>8. ItemAt(s)'
  BY <1>1, <1>2, <1>3, SameItem
<1>9. CoveredAt(s)'
  <2>1. Poll(s)' = Poll(s)
    BY <1>3 DEF Poll
  <2>2. \A e : Underway(s, e) /\ item[s].reg => Underway(s, e)'
    <3>1. \A e : Underway(s, e) => e \in sk[s].bits
      BY <1>1 DEF Underway
    <3>2. wk'[s].pc # "idle"
      BY <1>3
    <3> QED BY <1>3, <1>4, <3>1, <3>2 DEF Underway
  <2>3. \A e : Taken(s, e) => Taken(s, e)'
    BY <1>1, <1>3 DEF Taken
  <2> QED BY <1>1, <1>2, <1>3, <2>1, <2>2, <2>3 DEF LevelAt, CoveredAt
<1>10. Polled'
  BY <1>1, <1>3 DEF Level, Polled, Wake, Calls
<1> QED BY <1>5, <1>6, <1>7, <1>8, <1>9, <1>10, LocalLevel DEF LevelAt

(* What a step of a walk leaves of it. *)
LEMMA WalkTail ==
  ASSUME Wake, NEW s \in Sockets, wk[s].todo # <<>>
  PROVE  /\ Range(Tail(wk[s].todo)) \subseteq Range(wk[s].todo)
         /\ Head(wk[s].todo) \in Range(wk[s].todo)
         /\ \A x \in Range(wk[s].todo) : x # Head(wk[s].todo) => x \in Range(Tail(wk[s].todo))
         /\ \A r \in sk[s].parked : r # s
<1>1. ServeTypesFact(s) /\ SockTypesFact(s)
  BY ServeTypes, SockTypes DEF Wake
<1>2. wk[s].todo \in Seq(Sockets \cup Readers)
  BY <1>1 DEF ServeTypesFact
<1>3. /\ Range(Tail(wk[s].todo)) \subseteq Range(wk[s].todo)
      /\ \A x \in Range(wk[s].todo) : x # Head(wk[s].todo) => x \in Range(Tail(wk[s].todo))
  BY <1>2, TailRange
<1>4. Head(wk[s].todo) \in Range(wk[s].todo)
  <2>1. Head(wk[s].todo) = wk[s].todo[1] /\ 1 \in 1..Len(wk[s].todo)
    BY <1>2, SMT
  <2> QED BY <1>2, <2>1, RangeIs, SMT DEF RangeEffect
<1>5. \A r \in sk[s].parked : r # s
  BY <1>1, EpollAssumption, SMT DEF SockTypesFact
<1> QED BY <1>3, <1>4, <1>5

(* epoll_pending_cb() puts into the item what was notified and is still so. *)
LEMMA WalkItemLevel ==
  ASSUME Wake, Level, NEW s \in Sockets, WalkItem(s)
  PROVE  Level'
<1>1. /\ UNCHANGED <<sk, th, call>> /\ wk[s].pc = "walk" /\ wk[s].todo # <<>>
      /\ Head(wk[s].todo) = s
  BY DEF WalkItem
<1>2. WalkItemEffect(s) /\ LevelAt(s)
  BY WalkItemIs DEF Wake, Level
<1>3. /\ \A x \in Sockets : x # s => wk'[x] = wk[x]
      /\ wk'[s].pc \in {"walk", "notify"} /\ wk'[s].todo = Tail(wk[s].todo)
      /\ wk'[s].ev = wk[s].ev /\ wk'[s].reply = wk[s].reply
  BY <1>2 DEF WalkItemEffect, Served
<1>4. /\ \A x \in Sockets : x # s => item'[x] = item[x]
      /\ \A x \in Sockets : x # s => (x \in Range(ready') <=> x \in Range(ready))
      /\ s \in Range(ready') <=> item'[s].ev # {}
      /\ item'[s].reg = item[s].reg /\ item'[s].useful = item[s].useful
      /\ item'[s].watch = item[s].watch /\ item'[s].refs = item[s].refs
      /\ item'[s].ev = (wk[s].ev \cap Poll(s) \cap epoll_interest(item[s].watch)) \cup item[s].ev
  BY <1>2, RelistedOthers DEF WalkItemEffect
<1>5. LocalTo(s)
  BY <1>1, <1>3, <1>4 DEF LocalTo
<1>6. /\ item[s].reg /\ wk'[s].reply = NoReply /\ wk'[s].pc # "idle"
      /\ \A r \in sk[s].parked : r \in Range(wk[s].todo) => r \in Range(wk'[s].todo)
  BY <1>1, <1>2, <1>3, WalkTail DEF LevelAt, WalksAt
<1>7. WalksAt(s)' /\ ParkedAt(s)'
  BY <1>1, <1>2, <1>4, <1>6 DEF WalksAt, LevelAt, ParkedAt, Readable
<1>8. ItemAt(s)'
  <2>1. InSnapshot(s)' <=> InSnapshot(s)
    BY <1>1 DEF InSnapshot
  <2> QED BY <1>1, <1>2, <1>4, <1>6, <2>1 DEF LevelAt, ItemAt
<1>9. CoveredAt(s)'
  <2>1. Poll(s)' = Poll(s)
    BY <1>1 DEF Poll
  <2>2. \A e : Underway(s, e) => e \in wk[s].ev \/ Underway(s, e)'
    BY <1>1 DEF Underway
  <2>3. \A e : Taken(s, e) => Taken(s, e)'
    BY <1>1, <1>3 DEF Taken
  <2> QED BY <1>1, <1>2, <1>4, <2>1, <2>2, <2>3 DEF LevelAt, CoveredAt
<1>10. Polled'
  BY <1>1, <1>4 DEF Level, Polled, Wake, Calls
<1> QED BY <1>5, <1>7, <1>8, <1>9, <1>10, LocalLevel DEF LevelAt

(* A parked read that runs again completes, or finds nothing to read. *)
LEMMA WalkReaderLevel ==
  ASSUME Wake, Level, NEW s \in Sockets, WalkReader(s)
  PROVE  Level'
<1>1. /\ UNCHANGED <<ready, item, th, call>> /\ wk[s].pc = "walk" /\ wk[s].todo # <<>>
      /\ Head(wk[s].todo) \in Readers
  BY DEF WalkReader
<1>2. WalkReaderEffect(s) /\ LevelAt(s)
  BY WalkReaderIs DEF Wake, Level
<1>3. /\ \A x \in Sockets : x # s => wk'[x] = wk[x] /\ sk'[x] = sk[x]
      /\ wk'[s].pc = "walk" /\ wk'[s].todo = Tail(wk[s].todo)
      /\ wk'[s].ev = wk[s].ev /\ wk'[s].reply = wk[s].reply
      /\ sk'[s].st = sk[s].st /\ sk'[s].bits = sk[s].bits /\ sk'[s].task = sk[s].task
  BY <1>2 DEF WalkReaderEffect, Served, Socked
<1>4. LocalTo(s)
  BY <1>1, <1>3 DEF LocalTo
<1>5. /\ Poll(s)' \subseteq Poll(s) /\ (Readable(sk[s])' => Readable(sk[s]))
      /\ Readable(sk[s]) => sk'[s].parked = sk[s].parked \ {Head(wk[s].todo)}
  BY <1>2, ReadShrinks DEF WalkReaderEffect
<1>6. /\ Range(wk'[s].todo) \subseteq Range(wk[s].todo)
      /\ \A x \in Range(wk[s].todo) : x # Head(wk[s].todo) => x \in Range(wk'[s].todo)
      /\ s # Head(wk[s].todo)
  <2>1. s # Head(wk[s].todo)
    BY <1>1, EpollAssumption
  <2> QED BY <1>1, <1>3, <2>1, WalkTail
<1>7. wk[s].reply = NoReply /\ wk'[s].pc # "idle" /\ wk[s].pc # "idle"
  BY <1>1, <1>2, <1>3 DEF LevelAt, WalksAt
<1>8. WalksAt(s)'
  BY <1>1, <1>2, <1>3, <1>6, <1>7 DEF LevelAt, WalksAt
<1>9. ParkedAt(s)'
  BY <1>2, <1>3, <1>5, <1>6 DEF LevelAt, ParkedAt
<1>10. ItemAt(s)'
  BY <1>1, <1>2, <1>3, SameItem
<1>11. CoveredAt(s)'
  <2>1. \A e : Underway(s, e) => Underway(s, e)'
    BY <1>3, <1>6, <1>7 DEF Underway
  <2>2. \A e : Taken(s, e) => Taken(s, e)'
    BY <1>1, <1>3 DEF Taken
  <2> QED BY <1>1, <1>2, <1>3, <1>5, <2>1, <2>2 DEF LevelAt, CoveredAt
<1>12. Polled'
  BY <1>1, <1>3 DEF Level, Polled, Wake, Calls
<1> QED BY <1>4, <1>8, <1>9, <1>10, <1>11, <1>12, LocalLevel DEF LevelAt

(* A walk ends when everybody on it has been reached. *)
LEMMA WalkEndLevel ==
  ASSUME Wake, Level, NEW s \in Sockets, WalkEnd(s)
  PROVE  Level'
<1>1. /\ UNCHANGED <<ready, item, sk, th, call>> /\ wk[s].pc = "walk" /\ wk[s].todo = <<>>
  BY DEF WalkEnd
<1>2. Served(s, "idle", wk[s].todo, {}, wk[s].reply) /\ LevelAt(s)
  BY WalkEndIs DEF Wake, Level
<1>3. /\ \A x \in Sockets : x # s => wk'[x] = wk[x]
      /\ wk'[s].pc = "idle" /\ wk'[s].todo = <<>> /\ wk'[s].reply = wk[s].reply
  BY <1>1, <1>2 DEF Served
<1>4. LocalTo(s)
  BY <1>1, <1>3 DEF LocalTo
<1>5. WalksAt(s)' /\ ParkedAt(s)'
  BY <1>1, <1>2, <1>3, EmptyRange DEF WalksAt, LevelAt, ParkedAt, Readable
<1>6. ItemAt(s)'
  BY <1>1, <1>2 DEF LevelAt, ItemAt, InSnapshot
<1>7. CoveredAt(s)'
  <2>1. Poll(s)' = Poll(s)
    BY <1>1 DEF Poll
  <2>2. \A e : Underway(s, e) => Underway(s, e)'
    BY <1>1, <1>3, EmptyRange DEF Underway
  <2>3. \A e : Taken(s, e) => Taken(s, e)'
    BY <1>1, <1>3 DEF Taken
  <2> QED BY <1>1, <1>2, <2>1, <2>2, <2>3 DEF LevelAt, CoveredAt
<1>8. Polled'
  BY <1>1 DEF Level, Polled
<1> QED BY <1>4, <1>5, <1>6, <1>7, <1>8, LocalLevel DEF LevelAt

(* The socket is closed, its item unregistered, and its slot used again. *)
LEMMA CloseSocketLevel ==
  ASSUME Wake, Level, NEW s \in Sockets, CloseSocket(s)
  PROVE  Level'
<1>1. UNCHANGED <<ready, item, wk, th, call>>
  BY DEF CloseSocket
<1>2. CloseSocketEffect(s) /\ LevelAt(s)
  BY CloseSocketIs DEF Wake, Level
<1>3. /\ Socked(s) /\ sk'[s].st = "closing" /\ sk'[s].task = sk[s].task
      /\ sk'[s].data = sk[s].data /\ sk'[s].err = sk[s].err /\ sk'[s].parked = sk[s].parked
  BY <1>2 DEF CloseSocketEffect
<1>4. LocalTo(s)
  BY <1>1, <1>3, SocketLocal
<1>5. WalksAt(s)' /\ ParkedAt(s)'
  BY <1>1, <1>2, <1>3 DEF LevelAt, WalksAt, ParkedAt, Readable
<1>6. sk'[s].st # "closed" /\ sk'[s].st # "open"
  BY <1>3
<1>7. ItemAt(s)' /\ CoveredAt(s)'
  BY <1>1, <1>2, <1>6, SameItem DEF CoveredAt
<1>8. Polled'
  BY <1>1, <1>3, <1>6 DEF Level, Polled, Socked, Wake, Calls
<1> QED BY <1>4, <1>5, <1>7, <1>8, LocalLevel DEF LevelAt

(* A fresh socket has nothing to lose. *)
LEMMA ReopenSocketLevel ==
  ASSUME Wake, Level, NEW s \in Sockets, ReopenSocket(s)
  PROVE  Level'
<1>1. /\ UNCHANGED <<ready, item, wk, th, call>> /\ sk[s].st = "closed"
      /\ ~ (call.st # "none" /\ call.s = s)
  BY DEF ReopenSocket
<1>2. Socked(s) /\ sk'[s] = NewSock /\ LevelAt(s)
  BY ReopenSocketIs DEF Wake, Level
<1>3. /\ sk'[s].st = "open" /\ sk'[s].data = 0 /\ sk'[s].err = FALSE /\ sk'[s].parked = {}
      /\ sk'[s].st # "closed"
  BY <1>2, NewSockIs
<1>4. LocalTo(s)
  BY <1>1, <1>2, SocketLocal
<1>5. WalksAt(s)' /\ ParkedAt(s)'
  BY <1>1, <1>2, <1>3 DEF LevelAt, WalksAt, ParkedAt
<1>6. ~ item[s].reg /\ ItemAt(s)'
  BY <1>1, <1>2, <1>3, SameItem DEF LevelAt, ItemAt
<1>7. CoveredAt(s)'
  BY <1>1, <1>6 DEF CoveredAt
<1>8. Polled'
  BY <1>1, <1>2 DEF Level, Polled, Socked, Wake, Calls
<1> QED BY <1>4, <1>5, <1>6, <1>7, <1>8, LocalLevel DEF LevelAt

(* A socket that goes takes its item and its requests with it. *)
LEMMA DetachSocketLevel ==
  ASSUME Wake, Level, NEW s \in Sockets, DetachSocket(s)
  PROVE  Level'
<1>1. UNCHANGED <<wk, th, call>> /\ wk[s].pc = "idle"
  BY DEF DetachSocket
<1>2. /\ Socked(s) /\ sk'[s].st = "closed" /\ sk'[s].parked = {} /\ sk'[s].st # "open"
      /\ LevelAt(s) /\ wk[s].todo = <<>> /\ Types
  BY <1>1, DetachSocketIs, SMTT(30) DEF Wake, Level, LevelAt, WalksAt
<1>3. /\ ItemAt(s)' /\ ~ item'[s].reg
      /\ \A x \in Sockets : x # s => item'[x] = item[x]
      /\ \A x \in Sockets : x # s => (x \in Range(ready') <=> x \in Range(ready))
  <2>1. CASE item[s].reg
    <3>1. epoll_item_unregister(s)
      BY <2>1 DEF DetachSocket
    <3>2. /\ ItemAt(s)'
          /\ \A x \in Sockets : x # s => item'[x] = item[x]
          /\ \A x \in Sockets : x # s => (x \in Range(ready') <=> x \in Range(ready))
      BY <1>1, <1>2, <2>1, <3>1, UnregisteredAt
    <3> QED BY <1>2, <3>2 DEF ItemAt
  <2>2. CASE ~ item[s].reg
    <3>1. UNCHANGED <<ready, item>>
      BY <2>2 DEF DetachSocket
    <3> QED BY <1>1, <1>2, <2>2, <3>1 DEF LevelAt, ItemAt, InSnapshot
  <2> QED BY <2>1, <2>2
<1>4. LocalTo(s)
  BY <1>1, <1>2, <1>3 DEF Socked, LocalTo
<1>5. WalksAt(s)' /\ ParkedAt(s)'
  BY <1>1, <1>2, EmptyRange DEF LevelAt, WalksAt, ParkedAt
<1>6. CoveredAt(s)'
  BY <1>3 DEF CoveredAt
<1>7. Polled'
  BY <1>1, <1>2, <1>3 DEF Level, Polled, Socked, Wake, Calls
<1> QED BY <1>3, <1>4, <1>5, <1>6, <1>7, LocalLevel DEF LevelAt

(* No step of a worker loses readiness. *)
LEMMA WorkerLevel ==
  ASSUME Wake, Level, NEW s \in Sockets, WorkerStep(s)
  PROVE  Level'
<1>1. CASE CallBadf(s)
  BY <1>1, CallBadfLevel
<1>2. CASE _poll(s)
  BY <1>2, PollLevel
<1>3. CASE epoll_ctl_add(s)
  BY <1>3, AddLevel, RefusedCtlLevel
<1>4. CASE epoll_ctl_mod(s)
  BY <1>4, ModLevel, RefusedCtlLevel
<1>5. CASE epoll_ctl_del(s)
  BY <1>5, DelLevel, RefusedCtlLevel, SMTT(30)
<1>6. CASE NotifyWorker(s)
  BY <1>6, NotifyWorkerLevel
<1>7. CASE PendingTask(s)
  BY <1>7, PendingTaskLevel
<1>8. CASE WalkItem(s)
  BY <1>8, WalkItemLevel
<1>9. CASE WalkReader(s)
  BY <1>9, WalkReaderLevel
<1>10. CASE WalkEnd(s)
  BY <1>10, WalkEndLevel
<1>11. CASE DetachSocket(s)
  BY <1>11, DetachSocketLevel
<1> QED BY <1>1, <1>2, <1>3, <1>4, <1>5, <1>6, <1>7, <1>8, <1>9, <1>10, <1>11
        DEF WorkerStep

(* No step of a socket loses readiness. *)
LEMMA SocketStepLevel ==
  ASSUME Wake, Level, NEW s \in Sockets, SocketStep(s)
  PROVE  Level'
BY ArriveLevel, NonblockingReadLevel, FailLevel, CloseSocketLevel, ReopenSocketLevel,
   BlockingReadLevel DEF SocketStep
=============================================================================
