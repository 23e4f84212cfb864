----------------------------- MODULE EpollProofs -----------------------------
(***************************************************************************)
(* The theorems about Epoll: no thread sleeps over a ready item or over    *)
(* the close of the object, level-triggered readiness and parked reads are *)
(* never lost, and the reference counts are exact.  They rest on one       *)
(* inductive invariant, Wake /\ Level /\ Counts of EpollEffects;           *)
(* EpollSteps shows that the steps keep Counts and that those of the       *)
(* workers keep Level, EpollKeeps that they keep Wake, and this module     *)
(* that those of the threads keep Level and that all three hold at the     *)
(* start.                                                                  *)
(***************************************************************************)
EXTENDS EpollKeeps

USE Zenon, SMT

-----------------------------------------------------------------------------
(* No thread loses the readiness of a socket. *)

(* A step that leaves the items, the sockets and the snapshots alone. *)
LEMMA QuietLevel ==
  ASSUME Level, UNCHANGED <<ready, item, sk, wk>>,
         \A t \in Waiters : th'[t].snap = th[t].snap,
         \/ call' = call
         \/ call'.st # "done" /\ (call'.st = "sent" /\ call'.op = "poll" => item[call'.s].reg)
  PROVE  Level'
<1>1. SnapOnce'
  BY DEF Level, SnapOnce
<1>2. Polled'
  BY DEF Level, Polled
<1>3. ASSUME NEW s \in Sockets PROVE LevelAt(s)'
  <2>1. InSnapshot(s)' <=> InSnapshot(s)
    BY DEF InSnapshot
  <2>2. \A e : (Taken(s, e) => Taken(s, e)') /\ (Underway(s, e) => Underway(s, e)')
    BY DEF Taken, Underway
  <2>3. WalksAt(s)' /\ ParkedAt(s)'
    BY DEF Level, LevelAt, WalksAt, ParkedAt, Readable
  <2>4. ItemAt(s)'
    BY <2>1, SMTT(30) DEF Level, LevelAt, ItemAt
  <2>5. CoveredAt(s)'
    <3>1. Poll(s)' = Poll(s)
      BY DEF Poll
    <3> QED BY <2>2, <3>1 DEF Level, LevelAt, CoveredAt
  <2> QED BY <2>3, <2>4, <2>5 DEF LevelAt
<1> QED BY <1>1, <1>2, <1>3 DEF Level

(* A waiter that only moves on. *)
LEMMA WaiterMoves ==
  ASSUME NEW t \in Waiters, NEW pc, Moved(t, pc, th[t].snap)
  PROVE  \A u \in Waiters : th'[u].snap = th[u].snap
BY DEF Moved, Threads

(* The control thread has no snapshot. *)
LEMMA CtlMoves ==
  ASSUME NEW pc, NEW snap, Moved(Ctl, pc, snap)
  PROVE  \A u \in Waiters : th'[u].snap = th[u].snap
BY EpollAssumption DEF Moved, Threads

(* net_epoll_wait() starts without a snapshot. *)
LEMMA WaitCallLevel == ASSUME Wake, Level, NEW t \in Waiters, WaitCall(t) PROVE Level'
<1>1. UNCHANGED <<ready, item, sk, wk, call>>
  BY DEF WaitCall
<1> QED BY <1>1, WaitCallMoves, WaiterMoves, QuietLevel DEF Wake, Types

(* Counting the items leaves them alone. *)
LEMMA SnapshotCountLevel == ASSUME Wake, Level, NEW t \in Waiters, SnapshotCount(t) PROVE Level'
<1>1. UNCHANGED <<ready, item, sk, wk, call>>
  BY DEF SnapshotCount
<1> QED BY <1>1, SnapshotCountMoves, WaiterMoves, QuietLevel DEF Wake, Types

(* A thread decides after its snapshot is done. *)
LEMMA DecideLevel == ASSUME Wake, Level, NEW t \in Waiters, Decide(t) PROVE Level'
<1>1. UNCHANGED <<ready, item, sk, wk, call>>
  BY DEF Decide
<1> QED BY <1>1, DecideMoves, WaiterMoves, QuietLevel DEF Wake, Types, DecideMove

(* Waking up leaves the items alone. *)
LEMMA PollReturnsLevel == ASSUME Wake, Level, NEW t \in Waiters, PollReturns(t) PROVE Level'
<1>1. UNCHANGED <<ready, item, sk, wk, call>>
  BY DEF PollReturns
<1> QED BY <1>1, PollReturnsMoves, WaiterMoves, QuietLevel DEF Wake, Types

(* Draining the eventfd leaves the items alone. *)
LEMMA RelockLevel == ASSUME Wake, Level, NEW t \in Waiters, Relock(t) PROVE Level'
<1>1. UNCHANGED <<ready, item, sk, wk, call>>
  BY DEF Relock
<1> QED BY <1>1, RelockMoves, WaiterMoves, QuietLevel DEF Wake, Types, RelockMove

(* Notifying and returning leave the items alone. *)
LEMMA LeavingLevel == ASSUME Wake, Level, NEW t \in Threads, Leaving(t) PROVE Level'
<1>1. UNCHANGED <<ready, item, sk, wk, call>>
  BY DEF Leaving, NotifyThread, Exit
<1>2. \A u \in Waiters : th'[u].snap = th[u].snap
  <2>1. CASE NotifyThread(t)
    <3>1. \E pc : Moved(t, pc, th[t].snap)
      BY <2>1, NotifyThreadMoves DEF Wake, Types
    <3> QED BY <3>1 DEF Moved, Threads
  <2>2. CASE Exit(t)
    <3>1. Moved(t, "idle", <<>>) /\ th[t].pc = "exit"
      BY <2>2, ExitMoves DEF Wake, Types, Exit
    <3>2. t \in Waiters => th[t].snap = <<>>
      BY <3>1 DEF Wake, SnapAt
    <3> QED BY <3>1, <3>2 DEF Moved, Threads
  <2> QED BY <2>1, <2>2 DEF Leaving
<1> QED BY <1>1, <1>2, QuietLevel

(* net_epoll_ctl() sends a request that is not a poll. *)
LEMMA CtlCallLevel ==
  ASSUME Wake, Level, NEW s \in Faulty, NEW op \in {"add", "mod", "del"}, NEW w \in Watches,
         CtlCall(s, op, w)
  PROVE  Level'
<1>1. UNCHANGED <<ready, item, sk, wk>>
  BY DEF CtlCall
<1>2. CtlCallMove(s, op, w)
  BY CtlCallMoves DEF Wake, Types
<1>3. call'.st # "done" /\ call'.op # "poll"
  BY <1>2 DEF CtlCallMove
<1>4. \A u \in Waiters : th'[u].snap = th[u].snap
  BY <1>2, CtlMoves DEF CtlCallMove
<1> QED BY <1>1, <1>3, <1>4, QuietLevel

(* The control thread leaves the items to the workers. *)
LEMMA CtlStepLevel == ASSUME Wake, Level, CtlStep \/ CloseCall PROVE Level'
<1>1. UNCHANGED <<ready, item, sk, wk>> /\ Types /\ ThreadTypes
  BY DEF CtlStep, CloseCall, CtlReturns, CloseNext, CloseEntry, Wake, Types
<1>2. NoCall.st # "done" /\ NoCall.st # "sent"
  BY NoCallTypes
<1>3. CASE CtlReturns
  <2>1. call' = NoCall
    BY <1>3 DEF CtlReturns
  <2> QED BY <1>1, <1>2, <1>3, <2>1, CtlReturnsMoves, CtlMoves, QuietLevel
<1>4. CASE CloseCall
  <2>1. call' = call
    BY <1>4 DEF CloseCall
  <2> QED BY <1>1, <1>4, <2>1, CloseCallMoves, CtlMoves, QuietLevel
<1>5. CASE CloseEntry
  <2>1. call' = call
    BY <1>5 DEF CloseEntry
  <2> QED BY <1>1, <1>5, <2>1, CloseEntryMoves, CtlMoves, QuietLevel
<1>6. CASE CloseNext
  <2>1. CloseNextMove
    BY <1>1, <1>6, CloseNextMoves
  <2>2. CASE th' = th /\ call'.st = "sent" /\ call'.op = "del"
    <3>1. call'.st # "done" /\ call'.op # "poll"
      BY <2>2
    <3> QED BY <1>1, <2>2, <3>1, QuietLevel
  <2>3. CASE Moved(Ctl, "close", Tail(th[Ctl].snap)) /\ call' = NoCall
    BY <1>1, <1>2, <2>3, CtlMoves, QuietLevel
  <2> QED BY <2>1, <2>2, <2>3 DEF CloseNextMove
<1> QED BY <1>3, <1>4, <1>5, <1>6 DEF CtlStep

(* Who takes a snapshot finds no other, and no request under way. *)
LEMMA TakeAlone ==
  ASSUME Wake, NEW t \in Waiters, th[t].pc = "take"
  PROVE  /\ \A u \in Waiters : th[u].snap = <<>>
         /\ call.st = "none" /\ \A s \in Sockets : wk[s].reply = NoReply
<1>1. Alone(t) /\ t \in Threads /\ th[t].snap = <<>>
  BY AtItem DEF Inside, Wake, SnapAt
<1>2. call.st = "none"
  BY <1>1, NoCallIs DEF Wake
<1>3. \A s \in Sockets : wk[s].reply = NoReply
  BY <1>2 DEF Wake, Owes
<1> QED BY <1>1, <1>2, <1>3, OnlySnap, SMTT(30) DEF Inside

(* What the snapshot of the first n items holds. *)
LEMMA ShotIs ==
  ASSUME Types, NEW n \in 0..Len(ready)
  PROVE  /\ Len(Shot(n)) = n /\ DOMAIN Shot(n) = 1..n
         /\ \A i \in 1..n : Shot(n)[i].s = ready[i] /\ Shot(n)[i].ev = item[ready[i]].ev
BY SMT DEF Shot, Types, ListTypes

(* What leaves the list is in the snapshot, with its events. *)
LEMMA SnapshotTakeLevel ==
  ASSUME Wake, Level, NEW t \in Waiters, NEW n \in 0..Len(ready), SnapshotTake(t, n)
  PROVE  Level'
<1>1. th[t].pc = "take" /\ UNCHANGED <<sk, wk, call>>
  BY DEF SnapshotTake
<1>2. SnapshotTakeMove(t, n) /\ Types
  BY SnapshotTakeMoves DEF Wake
<1>3. SnapshotTakeEffect(t, n)
  BY <1>2, SnapshotTakeIs DEF SnapshotTakeMove
<1>4. /\ \A u \in Waiters : th[u].snap = <<>>
      /\ call.st = "none" /\ \A s \in Sockets : wk[s].reply = NoReply
  BY <1>1, TakeAlone
<1>5. th'[t].snap = Shot(n) /\ \A u \in Waiters : u # t => th'[u].snap = <<>>
  BY <1>2, <1>4 DEF SnapshotTakeMove, Moved, Threads
<1>6. /\ Len(Shot(n)) = n /\ DOMAIN Shot(n) = 1..n
      /\ \A i \in 1..n : Shot(n)[i].s = ready[i] /\ Shot(n)[i].ev = item[ready[i]].ev
  BY <1>2, ShotIs
<1>7. SnapOnce'
  <2>1. \A i, j \in 1..n : ready[i] = ready[j] => i = j
    BY <1>2, SMT DEF Types, ListTypes, Once
  <2> QED BY <1>5, <1>6, <2>1, SMT DEF SnapOnce
<1>8. Polled'
  BY <1>1, <1>4 DEF Polled
<1>9. ASSUME NEW s \in Sockets PROVE LevelAt(s)'
  <2>1. InSnapshot(s)' <=> s \in Front(n)
    <3>1. /\ DOMAIN th'[t].snap = 1..n /\ \A i \in 1..n : th'[t].snap[i].s = ready[i]
          /\ \A u \in Waiters : u # t => DOMAIN th'[u].snap = {}
      BY <1>5, <1>6, SMT
    <3>2. InSnapshot(s)' <=> \E i \in 1..n : th'[t].snap[i].s = s
      BY <3>1 DEF InSnapshot
    <3> QED BY <3>1, <3>2 DEF Front
  <2>2. ~ InSnapshot(s) /\ (\A e : ~ Taken(s, e)) /\ LevelAt(s)
    BY <1>4, NoSnapshot DEF Level
  <2>3. /\ item'[s].reg = item[s].reg /\ item'[s].useful = item[s].useful
        /\ item'[s].watch = item[s].watch /\ (s \notin Front(n) => item'[s] = item[s])
        /\ s \in Range(ready') <=> s \in Range(ready) /\ s \notin Front(n)
        /\ s \in Front(n) => item'[s].ev = {} /\ item'[s].refs = item[s].refs + 1
    BY <1>3 DEF SnapshotTakeEffect
  <2>4. WalksAt(s)' /\ ParkedAt(s)'
    BY <1>1, <2>2, <2>3 DEF LevelAt, WalksAt, ParkedAt, Readable
  <2>5. ItemAt(s)'
    <3>1. item[s].refs = (IF item[s].reg THEN 1 ELSE 0) + 0
      BY <2>2 DEF LevelAt, ItemAt
    <3>2. item'[s].refs = (IF item'[s].reg THEN 1 ELSE 0) + (IF InSnapshot(s)' THEN 1 ELSE 0)
      BY <2>1, <2>3, <3>1, SMTT(30)
    <3> QED BY <1>1, <2>2, <2>3, <3>2 DEF LevelAt, ItemAt
  <2>6. CoveredAt(s)'
    <3>1. Poll(s)' = Poll(s) /\ \A e : Underway(s, e) => Underway(s, e)'
      BY <1>1 DEF Poll, Underway
    <3>2. ASSUME NEW e \in item[s].ev PROVE e \in item'[s].ev \/ Taken(s, e)'
      <4>1. CASE s \notin Front(n)
        BY <2>3, <4>1, <3>2
      <4>2. CASE s \in Front(n)
        <5>1. PICK i \in 1..n : ready[i] = s
          BY <4>2 DEF Front
        <5>2. /\ i \in 1..Len(th'[t].snap) /\ th'[t].snap[i].s = s /\ e \in th'[t].snap[i].ev
          BY <1>5, <1>6, <3>2, <5>1
        <5>3. call'.st # "done" /\ wk'[s].reply = NoReply
          BY <1>1, <1>4
        <5> QED BY <5>2, <5>3 DEF Taken
      <4> QED BY <4>1, <4>2
    <3> QED BY <1>1, <2>2, <2>3, <3>1, <3>2 DEF LevelAt, CoveredAt
  <2> QED BY <2>4, <2>5, <2>6 DEF LevelAt
<1> QED BY <1>7, <1>8, <1>9 DEF Level

(* The first candidate leaves the snapshot of the holder. *)
LEMMA HeadLeaves ==
  ASSUME Wake, Level, NEW t \in Waiters, th[t].pc = "item", th[t].snap # <<>>,
         NEW h, h = Head(th[t].snap).s, Moved(t, "item", Tail(th[t].snap))
  PROVE  /\ SnapOnce' /\ InSnapshot(h) /\ ~ InSnapshot(h)'
         /\ \A x : x # h => (InSnapshot(x)' <=> InSnapshot(x))
         /\ \A e : Taken(h, e) => call.st # "done"
         /\ \A x, e : /\ x # h /\ Taken(x, e)
                      /\ call'.st # "done" /\ wk'[x].reply = NoReply
                      => Taken(x, e)'
<1> DEFINE q == th[t].snap
<1>1. /\ q \in Seq(Entries) /\ Len(q) \in Nat /\ Len(q) >= 1 /\ DOMAIN q = 1..Len(q)
      /\ Head(q) = q[1] /\ Tail(q) \in Seq(Entries) /\ Len(Tail(q)) = Len(q) - 1
      /\ DOMAIN Tail(q) = 1..Len(q) - 1 /\ \A i \in 1..Len(q) - 1 : Tail(q)[i] = q[i + 1]
  <2>1. q \in Seq(Entries)
    BY EpollAssumption DEF Wake, Types, ThreadTypes, Snaps, Threads
  <2> HIDE DEF q
  <2>2. q # <<>>
    BY DEF q
  <2> QED BY <2>1, <2>2, SMT
<1>2. /\ th'[t].snap = Tail(q)
      /\ \A u \in Waiters : u # t => th[u].snap = <<>> /\ th'[u].snap = <<>>
  BY OnlySnap DEF Moved, Threads, Inside
<1>3. \A i, j \in 1..Len(q) : q[i].s = q[j].s => i = j
  BY DEF Level, SnapOnce
<1>4. /\ \A x : InSnapshot(x) <=> \E i \in 1..Len(q) : q[i].s = x
      /\ \A x : InSnapshot(x)' <=> \E i \in 1..Len(q) - 1 : q[i + 1].s = x
  <2>1. \A u \in Waiters : u # t => DOMAIN th[u].snap = {} /\ DOMAIN th'[u].snap = {}
    BY <1>2, SMT
  <2>2. \A x : InSnapshot(x) <=> \E i \in DOMAIN q : q[i].s = x
    BY <2>1 DEF InSnapshot
  <2>3. \A x : InSnapshot(x)' <=> \E i \in DOMAIN Tail(q) : Tail(q)[i].s = x
    BY <1>2, <2>1 DEF InSnapshot
  <2> HIDE DEF q
  <2> QED BY <1>1, <2>2, <2>3
<1>5. /\ \A x, e : Taken(x, e) <=> \E i \in 1..Len(q) :
              /\ q[i].s = x /\ e \in q[i].ev
              /\ ~ (i = 1 /\ (call.st = "done" \/ wk[x].reply # NoReply))
      /\ \A x, e : (\E i \in 1..Len(q) - 1 : q[i + 1].s = x /\ e \in q[i + 1].ev)
                   /\ call'.st # "done" /\ wk'[x].reply = NoReply => Taken(x, e)'
  <2>1. \A u \in Waiters : u # t => 1..Len(th[u].snap) = {}
    BY <1>2, SMT
  <2>2. \A x, e : Taken(x, e) <=> \E i \in 1..Len(q) :
              /\ q[i].s = x /\ e \in q[i].ev
              /\ ~ (i = 1 /\ (call.st = "done" \/ wk[x].reply # NoReply))
    BY <2>1 DEF Taken
  <2>3. ASSUME NEW x, NEW e, NEW i \in 1..Len(q) - 1, q[i + 1].s = x, e \in q[i + 1].ev,
               call'.st # "done", wk'[x].reply = NoReply
        PROVE  Taken(x, e)'
    <3>1. /\ i \in 1..Len(th'[t].snap) /\ th'[t].snap[i].s = x /\ e \in th'[t].snap[i].ev
      BY <1>1, <1>2, <2>3
    <3> QED BY <2>3, <3>1 DEF Taken
  <2> QED BY <2>2, <2>3
<1>6. SnapOnce'
  <2>1. \A i, j \in 1..Len(Tail(q)) : Tail(q)[i].s = Tail(q)[j].s => i = j
    <3> HIDE DEF q
    <3> QED BY <1>1, <1>3, SMT
  <2>2. \A u \in Waiters : u # t => 1..Len(th'[u].snap) = {}
    BY <1>2, SMT
  <2> QED BY <1>2, <2>1, <2>2 DEF SnapOnce
<1>7. h = q[1].s
  BY <1>1
<1> HIDE DEF q
<1>8. InSnapshot(h) /\ ~ InSnapshot(h)'
  <2>1. 1 \in 1..Len(q)
    BY <1>1, SMT
  <2>2. ASSUME NEW i \in 1..Len(q) - 1, q[i + 1].s = h PROVE FALSE
    <3>1. i + 1 \in 1..Len(q) /\ i + 1 # 1
      BY <1>1, SMT
    <3> QED BY <1>3, <1>7, <2>1, <2>2, <3>1
  <2> QED BY <1>4, <1>7, <2>1, <2>2
<1>9. \A x : x # h => (InSnapshot(x)' <=> InSnapshot(x))
  <2>1. ASSUME NEW x, x # h, NEW i \in 1..Len(q), q[i].s = x
        PROVE  \E j \in 1..Len(q) - 1 : q[j + 1].s = x
    <3>1. i - 1 \in 1..Len(q) - 1 /\ (i - 1) + 1 = i
      BY <1>1, <1>7, <2>1, SMT
    <3> QED BY <2>1, <3>1
  <2>2. \A i \in 1..Len(q) - 1 : i + 1 \in 1..Len(q)
    BY <1>1, SMT
  <2> QED BY <1>4, <2>1, <2>2
<1>10. \A e : Taken(h, e) => call.st # "done"
  BY <1>1, <1>3, <1>5, <1>7, SMT
<1>11. \A x, e : /\ x # h /\ Taken(x, e) /\ call'.st # "done" /\ wk'[x].reply = NoReply
                 => Taken(x, e)'
  <2>1. ASSUME NEW x, NEW e, x # h, Taken(x, e)
        PROVE  \E j \in 1..Len(q) - 1 : q[j + 1].s = x /\ e \in q[j + 1].ev
    <3>1. PICK i \in 1..Len(q) : q[i].s = x /\ e \in q[i].ev
      BY <1>5, <2>1
    <3>2. i - 1 \in 1..Len(q) - 1 /\ (i - 1) + 1 = i
      BY <1>1, <1>7, <2>1, <3>1, SMT
    <3> QED BY <3>1, <3>2
  <2> QED BY <1>5, <2>1
<1> QED BY <1>6, <1>8, <1>9, <1>10, <1>11

(* The item of a candidate gives back the reference of the snapshot. *)
LEMMA DroppedItem ==
  ASSUME NEW h \in Sockets, ItemAt(h), item[h] \in Items, item'[h] = PutItem(item[h]),
         InSnapshot(h), ~ InSnapshot(h)', UNCHANGED <<ready, sk>>
  PROVE  /\ ItemAt(h)' /\ item'[h].reg = item[h].reg
         /\ item[h].reg => item'[h].watch = item[h].watch /\ item'[h].ev = item[h].ev
<1>1. PutItemEffect(item[h])
  BY PutItemIs
<1>2. item[h].refs = (IF item[h].reg THEN 1 ELSE 0) + 1
  BY DEF ItemAt
<1>3. item'[h].refs = IF item[h].reg THEN 1 ELSE 0
  BY <1>1, <1>2, SMT DEF PutItemEffect
<1>4. CASE item[h].reg
  <2>1. item[h].refs # 1
    BY <1>2, <1>4, SMT
  <2>2. /\ item'[h].reg = item[h].reg /\ item'[h].useful = item[h].useful
        /\ item'[h].watch = item[h].watch /\ item'[h].ev = item[h].ev
    BY <1>1, <2>1 DEF PutItemEffect
  <2>3. item'[h].refs = (IF item'[h].reg THEN 1 ELSE 0) + (IF InSnapshot(h)' THEN 1 ELSE 0)
    BY <1>3, <1>4, <2>2, SMT
  <2> QED BY <2>2, <2>3 DEF ItemAt
<1>5. CASE ~ item[h].reg
  <2>1. item[h].refs = 1
    BY <1>2, <1>5, SMT
  <2>2. item'[h] = NoItem
    BY <1>1, <2>1 DEF PutItemEffect
  <2>3. /\ item'[h].reg = FALSE /\ item'[h].useful = FALSE /\ item'[h].ev = {}
        /\ item'[h].refs = 0
    BY <2>2, NoItemIs
  <2>4. item'[h].refs = (IF item'[h].reg THEN 1 ELSE 0) + (IF InSnapshot(h)' THEN 1 ELSE 0)
    BY <2>3, SMT
  <2>5. item[h].reg = FALSE /\ h \notin Range(ready)
    BY <1>5 DEF ItemAt, Items
  <2> QED BY <2>3, <2>4, <2>5 DEF ItemAt
<1> QED BY <1>4, <1>5

(* A candidate that was asked about, or is not registered any more, gives   *)
(* back its reference.                                                      *)
LEMMA DropLevel ==
  ASSUME Wake, Level, NEW t \in Waiters, th[t].pc = "item", th[t].snap # <<>>,
         NEW h \in Sockets, h = Head(th[t].snap).s, Dropped(h),
         Moved(t, "item", Tail(th[t].snap)), UNCHANGED <<ready, sk, wk>>,
         call.st # "sent", call'.st = "none", item[h].reg => call.st = "done"
  PROVE  Level'
<1>1. /\ SnapOnce' /\ InSnapshot(h) /\ ~ InSnapshot(h)'
      /\ \A x : x # h => (InSnapshot(x)' <=> InSnapshot(x))
      /\ \A e : Taken(h, e) => call.st # "done"
      /\ \A x, e : /\ x # h /\ Taken(x, e) /\ call'.st # "done" /\ wk'[x].reply = NoReply
                   => Taken(x, e)'
  BY HeadLeaves
<1>2. \A x \in Sockets : wk'[x].reply = NoReply
  BY DEF Wake, Owes
<1>3. Polled' /\ call'.st # "done"
  BY DEF Polled
<1>4. /\ \A x \in Sockets : x # h => item'[x] = item[x]
      /\ item'[h] = PutItem(item[h]) /\ item[h] \in Items
  BY DEF Dropped, Wake, Types, ListTypes
<1>5. \A x \in Sockets :
        /\ Poll(x)' = Poll(x) /\ ParkedAt(x)'
        /\ \A e : Underway(x, e) => Underway(x, e)'
  BY DEF Poll, Underway, Level, LevelAt, ParkedAt, Readable
<1>6. ASSUME NEW x \in Sockets, x # h PROVE LevelAt(x)'
  <2>1. item'[x] = item[x] /\ LevelAt(x) /\ (InSnapshot(x)' <=> InSnapshot(x))
    BY <1>1, <1>4, <1>6 DEF Level
  <2>2. WalksAt(x)'
    BY <2>1 DEF LevelAt, WalksAt
  <2>3. ItemAt(x)'
    BY <2>1 DEF LevelAt, ItemAt
  <2>4. \A e : Taken(x, e) => Taken(x, e)'
    BY <1>1, <1>2, <1>3, <1>6
  <2>5. CoveredAt(x)'
    BY <1>5, <2>1, <2>4 DEF LevelAt, CoveredAt
  <2> QED BY <1>5, <2>2, <2>3, <2>5 DEF LevelAt
<1>7. LevelAt(h)'
  <2>1. LevelAt(h)
    BY DEF Level
  <2>2. /\ ItemAt(h)' /\ item'[h].reg = item[h].reg
        /\ item[h].reg => item'[h].watch = item[h].watch /\ item'[h].ev = item[h].ev
    BY <1>1, <1>4, <2>1, DroppedItem DEF LevelAt
  <2>3. WalksAt(h)'
    BY <2>1, <2>2 DEF LevelAt, WalksAt
  <2>4. \A e : item[h].reg => ~ Taken(h, e)
    BY <1>1
  <2>5. CoveredAt(h)'
    BY <1>5, <2>1, <2>2, <2>4 DEF LevelAt, CoveredAt
  <2> QED BY <1>5, <2>2, <2>3, <2>5 DEF LevelAt
<1> QED BY <1>1, <1>3, <1>6, <1>7 DEF Level

(* Only a registered item is polled. *)
LEMMA PollItemLevel ==
  ASSUME Wake, Level, NEW t \in Waiters, PollItem(t)
  PROVE  Level'
<1>1. /\ th[t].pc = "item" /\ th[t].snap # <<>> /\ call.st = "none"
      /\ UNCHANGED <<ready, sk, wk>>
  BY DEF PollItem, More
<1>2. PollItemEffect(t) /\ HeadOfSnapFact(t)
  BY <1>1, PollItemIs, HeadOfSnap DEF Wake, Types
<1> DEFINE h == Head(th[t].snap).s
<1>3. h \in Sockets
  BY <1>2 DEF HeadOfSnapFact
<1>4. LevelAt(h)
  BY <1>3 DEF Level
<1>5. CASE /\ UNCHANGED <<ep, item, th>> /\ item[h].useful
           /\ call'.st = "sent" /\ call'.s = h /\ call'.op = "poll"
  <2>1. item[call'.s].reg /\ call'.st # "done"
    BY <1>4, <1>5 DEF LevelAt, ItemAt
  <2> QED BY <1>1, <1>5, <2>1, QuietLevel
<1>6. CASE /\ sk[h].st = "closed" \/ ~ item[h].useful
           /\ Dropped(h) /\ Moved(t, "item", Tail(th[t].snap)) /\ call' = call
  <2>1. ~ item[h].reg
    BY <1>4, <1>6 DEF LevelAt, ItemAt
  <2>2. call.st # "sent" /\ call'.st = "none"
    BY <1>1, <1>6
  <2> QED BY <1>1, <1>3, <1>6, <2>1, <2>2, DropLevel
<1> QED BY <1>2, <1>5, <1>6 DEF PollItemEffect

(* A polled candidate has been put back if it was still ready. *)
LEMMA PollReplyLevel ==
  ASSUME Wake, Level, NEW t \in Waiters, PollReply(t)
  PROVE  Level'
<1>1. th[t].pc = "item" /\ call.st = "done" /\ UNCHANGED <<ready, sk, wk>>
  BY DEF PollReply
<1>2. th[t].snap # <<>> /\ call.st # "sent"
  BY <1>1, ReplyForHead
<1>3. PollReplyEffect(t) /\ HeadOfSnapFact(t)
  BY <1>1, <1>2, PollReplyIs, HeadOfSnap DEF Wake, Types
<1>4. Head(th[t].snap).s \in Sockets /\ call'.st = "none"
  BY <1>3, NoCallTypes DEF HeadOfSnapFact, PollReplyEffect
<1> QED BY <1>1, <1>2, <1>3, <1>4, DropLevel DEF PollReplyEffect

(* An item that goes back is listed if it has events. *)
LEMMA RestoredItem ==
  ASSUME NEW t \in Waiters, NEW s \in Held(t), s \in Sockets, ItemAt(s), InSnapshot(s),
         ~ InSnapshot(s)', RestoreEffect(t), item[s] \in Items, sk' = sk
  PROVE  /\ ItemAt(s)' /\ item'[s].reg = item[s].reg
         /\ item[s].reg => /\ item'[s].watch = item[s].watch
                           /\ item'[s].ev = item[s].ev \cup Queued(t, s)
<1>1. item[s].refs = (IF item[s].reg THEN 1 ELSE 0) + 1 /\ item[s].useful = item[s].reg
  BY DEF ItemAt
<1>2. /\ item'[s].refs = item[s].refs - 1
      /\ s \in Range(ready') <=> s \in Range(ready) \cup Kept(t)
  BY DEF RestoreEffect
<1>3. item'[s].refs = IF item[s].reg THEN 1 ELSE 0
  BY <1>1, <1>2, SMT
<1>4. CASE item[s].reg
  <2>1. item[s].refs # 1
    BY <1>1, <1>4, SMT
  <2>2. /\ item'[s].reg = item[s].reg /\ item'[s].useful = item[s].useful
        /\ item'[s].watch = item[s].watch
        /\ item'[s].ev = IF item[s].useful THEN item[s].ev \cup Queued(t, s) ELSE item[s].ev
    BY <2>1 DEF RestoreEffect
  <2>3. item'[s].ev = item[s].ev \cup Queued(t, s)
    BY <1>1, <1>4, <2>2
  <2>4. s \in Range(ready') <=> item'[s].ev # {}
    <3>1. s \in Range(ready) <=> item[s].ev # {}
      BY DEF ItemAt
    <3>2. s \in Kept(t) <=> item[s].ev \cup Queued(t, s) # {} /\ s \notin Range(ready)
      BY <1>1, <1>4 DEF Kept
    <3> QED BY <1>2, <2>3, <3>1, <3>2
  <2>5. item'[s].refs = (IF item'[s].reg THEN 1 ELSE 0) + (IF InSnapshot(s)' THEN 1 ELSE 0)
    BY <1>3, <1>4, <2>2, SMT
  <2>6. ItemAt(s)'
    BY <1>4, <2>2, <2>4, <2>5 DEF ItemAt
  <2> QED BY <2>2, <2>3, <2>6
<1>5. CASE ~ item[s].reg
  <2>1. item[s].refs = 1
    BY <1>1, <1>5, SMT
  <2>2. item'[s] = NoItem
    BY <2>1 DEF RestoreEffect
  <2>3. /\ item'[s].reg = FALSE /\ item'[s].useful = FALSE /\ item'[s].ev = {}
        /\ item'[s].refs = 0
    BY <2>2, NoItemIs
  <2>4. item[s].reg = FALSE /\ s \notin Range(ready) /\ s \notin Kept(t)
    BY <1>1, <1>5 DEF ItemAt, Items, Kept
  <2>5. item'[s].refs = (IF item'[s].reg THEN 1 ELSE 0) + (IF InSnapshot(s)' THEN 1 ELSE 0)
    BY <2>3, SMT
  <2>6. s \notin Range(ready')
    BY <1>2, <2>4
  <2> QED BY <2>3, <2>4, <2>5, <2>6 DEF ItemAt
<1> QED BY <1>4, <1>5

(* epoll_restore_snapshot() puts back what was not polled. *)
LEMMA RestoreLevel ==
  ASSUME Wake, Level, NEW t \in Waiters, epoll_restore_snapshot(t)
  PROVE  Level'
<1>1. th[t].pc = "item" /\ call.st = "none" /\ UNCHANGED <<sk, wk, call>>
  BY DEF epoll_restore_snapshot
<1>2. RestoreEffect(t) /\ HeldEffect(t)
  BY RestoreIs, HeldIs DEF Wake
<1>3. \A u \in Waiters : th'[u].snap = <<>>
  <2>1. \E pc : Moved(t, pc, <<>>)
    BY RestoreMoves DEF Wake, Types
  <2>2. \A u \in Waiters : u # t => th[u].snap = <<>>
    BY <1>1, OnlySnap DEF Inside
  <2> QED BY <2>1, <2>2 DEF Moved, Threads
<1>4. /\ \A s : ~ InSnapshot(s)'
      /\ SnapOnce' /\ Polled'
  BY <1>1, <1>3, SMT DEF InSnapshot, SnapOnce, Polled
<1>5. /\ \A s : InSnapshot(s) <=> s \in Held(t)
      /\ \A s, e : Taken(s, e) => s \in Held(t) /\ e \in Queued(t, s)
  BY <1>1, HeldSnap
<1>6. \A x \in Sockets :
        /\ Poll(x)' = Poll(x) /\ ParkedAt(x)'
        /\ \A e : Underway(x, e) => Underway(x, e)'
  BY <1>1 DEF Poll, Underway, Level, LevelAt, ParkedAt, Readable
<1>7. ASSUME NEW s \in Sockets, s \notin Held(t) PROVE LevelAt(s)'
  <2>1. item'[s] = item[s] /\ (s \in Range(ready') <=> s \in Range(ready)) /\ LevelAt(s)
    BY <1>2, <1>7 DEF RestoreEffect, Kept, Level
  <2>2. ~ InSnapshot(s) /\ ~ InSnapshot(s)' /\ \A e : ~ Taken(s, e)
    BY <1>4, <1>5, <1>7
  <2>3. WalksAt(s)'
    BY <1>1, <2>1 DEF LevelAt, WalksAt
  <2>4. ItemAt(s)'
    BY <1>1, <2>1, <2>2, KeptItem DEF LevelAt
  <2>5. CoveredAt(s)'
    BY <1>1, <1>6, <2>1, <2>2 DEF LevelAt, CoveredAt
  <2> QED BY <1>6, <2>3, <2>4, <2>5 DEF LevelAt
<1>8. ASSUME NEW s \in Sockets, s \in Held(t) PROVE LevelAt(s)'
  <2>1. LevelAt(s) /\ InSnapshot(s) /\ ~ InSnapshot(s)' /\ item[s] \in Items
    BY <1>4, <1>5, <1>8 DEF Level, Wake, Types, ListTypes
  <2>2. /\ ItemAt(s)' /\ item'[s].reg = item[s].reg
        /\ item[s].reg => /\ item'[s].watch = item[s].watch
                          /\ item'[s].ev = item[s].ev \cup Queued(t, s)
    BY <1>1, <1>2, <1>8, <2>1, RestoredItem DEF LevelAt
  <2>3. WalksAt(s)'
    BY <1>1, <2>1, <2>2 DEF LevelAt, WalksAt
  <2>4. CoveredAt(s)'
    BY <1>1, <1>5, <1>6, <2>1, <2>2 DEF LevelAt, CoveredAt
  <2> QED BY <1>6, <2>2, <2>3, <2>4 DEF LevelAt
<1> QED BY <1>4, <1>7, <1>8 DEF Level

(* No step of a waiter loses readiness. *)
LEMMA ThreadLevel ==
  ASSUME Wake, Level, NEW t \in Waiters, WaitCall(t) \/ ThreadStep(t)
  PROVE  Level'
<1>1. CASE \E n \in 0..Len(ready) : SnapshotTake(t, n)
  BY <1>1, SnapshotTakeLevel
<1> QED BY <1>1, WaitCallLevel, SnapshotCountLevel, PollItemLevel, PollReplyLevel, RestoreLevel,
           DecideLevel, PollReturnsLevel, RelockLevel DEF ThreadStep

(* No step loses readiness, or a parked read. *)
LEMMA NextLevel == Wake /\ Level /\ [Next]_vars => Level'
<1> SUFFICES ASSUME Wake, Level, [Next]_vars PROVE Level'
  OBVIOUS
<1>1. CASE UNCHANGED vars
  <2>1. UNCHANGED <<ready, item, sk, wk, th, call>>
    BY <1>1 DEF vars
  <2> QED BY <2>1, QuietLevel
<1>2. CASE \E s \in Sockets : WorkerStep(s)
  BY <1>2, WorkerLevel
<1>3. CASE \E t \in Waiters : WaitCall(t) \/ ThreadStep(t)
  BY <1>3, ThreadLevel
<1>4. CASE \E t \in Threads : Leaving(t)
  BY <1>4, LeavingLevel
<1>5. CASE CtlStep \/ CloseCall
  BY <1>5, CtlStepLevel
<1>6. CASE \E s \in Sockets : SocketStep(s)
  BY <1>6, SocketStepLevel
<1>7. CASE \E s \in Faulty, op \in {"add", "mod", "del"} : \E w \in Watches : CtlCall(s, op, w)
  BY <1>7, CtlCallLevel
<1>8. Faulty \subseteq Sockets
  BY EpollAssumption
<1> QED BY <1>1, <1>2, <1>3, <1>4, <1>5, <1>6, <1>7, <1>8 DEF Next, SocketStep

-----------------------------------------------------------------------------
(* The initial state. *)

(* The variables have their types at the start. *)
LEMMA InitTypes ==
  ASSUME Init, Counted
  PROVE  Types
<1>1. \A s \in Sockets : item[s] \in Items
  <2> DEFINE first == [reg |-> TRUE, useful |-> TRUE, watch |-> {"in"}, ev |-> {}, refs |-> 1]
  <2>1. first \in Items
    BY EpollAssumption, SMT DEF Items, WatchMasks
  <2> HIDE DEF first
  <2>2. item = [s \in Sockets |-> IF s \in Faulty THEN NoItem ELSE first]
    BY DEF Init, first
  <2> QED BY <2>1, <2>2, NoItemIs
<1>2. ListTypes
  <2>1. Cardinality(Sockets \ Faulty) \in Nat
    BY DEF Counted
  <2>2. ep \in Eps
    BY <2>1, SMT DEF Init, Eps
  <2>3. item = [s \in Sockets |-> item[s]]
    BY DEF Init
  <2>4. ready \in Seq(Sockets) /\ Once(ready)
    BY SMT DEF Init, Once
  <2> QED BY <1>1, <2>2, <2>3, <2>4 DEF ListTypes, Eps
<1>3. WorkTypes
  <2>1. sk \in [Sockets -> Socks]
    BY NewSockIs DEF Init
  <2>2. wk \in [Sockets -> Serves]
    BY SMT DEF Init, Serves, NoReply, Replies
  <2> QED BY <2>1, <2>2 DEF WorkTypes
<1>4. ThreadTypes
  <2>1. IdleThread \in Places /\ \A t : IdleThread.snap \in Snaps(t)
    BY EmptySnap, SMT DEF IdleThread, Places, PCs
  <2> QED BY <2>1, NoCallTypes DEF Init, ThreadTypes
<1> QED BY <1>2, <1>3, <1>4 DEF Types

(* Nobody sleeps and nothing is ready at the start. *)
LEMMA InitWake ==
  ASSUME Init, Counted
  PROVE  Wake
<1>1. \A t \in Threads : th[t].pc = "idle" /\ th[t].snap = <<>>
  BY DEF Init, IdleThread
<1>2. Mutex /\ SnapAt /\ LateAnnounced
  BY <1>1 DEF Mutex, SnapAt, LateAnnounced, Inside, Threads
<1>3. Calls /\ Owes
  BY NoCallTypes DEF Init, Calls, Owes
<1>4. ClosedLoud
  BY <1>1 DEF Init, ClosedLoud, Threads
<1>5. NoSleepOverReady
  BY DEF Init, NoSleepOverReady
<1> QED BY <1>2, <1>3, <1>4, <1>5, InitTypes DEF Wake

(* The items that are registered at the start have one reference. *)
LEMMA InitItems ==
  ASSUME Init, NEW s \in Sockets
  PROVE  /\ item[s].reg = (s \notin Faulty) /\ item[s].useful = (s \notin Faulty)
         /\ item[s].ev = {} /\ item[s].refs = IF s \in Faulty THEN 0 ELSE 1
BY DEF Init, NoItem

(* Nothing is ready or parked at the start, and there is no snapshot. *)
LEMMA InitLevel == Init => Level
<1> SUFFICES ASSUME Init PROVE Level
  OBVIOUS
<1>1. \A t \in Waiters : th[t].snap = <<>>
  BY DEF Init, IdleThread, Threads
<1>2. SnapOnce /\ Polled
  BY <1>1, NoCallTypes, SMT DEF Init, SnapOnce, Polled, NoCall
<1>3. ASSUME NEW s \in Sockets PROVE LevelAt(s)
  <2>1. ~ InSnapshot(s)
    BY <1>1, EmptySnap, SMT DEF InSnapshot
  <2>2. Range(ready) = {} /\ Range(wk[s].todo) = {}
    BY EmptyRange DEF Init
  <2>3. wk[s].todo = <<>> /\ wk[s].reply = NoReply
    BY DEF Init
  <2>4. sk[s] = NewSock
    BY DEF Init
  <2>5. sk[s].st = "open" /\ sk[s].data = 0 /\ ~ sk[s].err /\ sk[s].parked = {}
    BY <2>4, NewSockIs
  <2>6. Poll(s) = {}
    BY <2>5, SMT DEF Poll
  <2>7. WalksAt(s)
    BY <2>2, <2>3 DEF WalksAt
  <2>8. ItemAt(s)
    <3>1. item[s].ev = {} /\ item[s].useful = item[s].reg
      BY InitItems
    <3>2. item[s].refs = (IF item[s].reg THEN 1 ELSE 0) + (IF InSnapshot(s) THEN 1 ELSE 0)
      <4>1. s \in Faulty => ~ item[s].reg /\ item[s].refs = 0
        BY InitItems
      <4>2. s \notin Faulty => item[s].reg /\ item[s].refs = 1
        BY InitItems
      <4> QED BY <2>1, <4>1, <4>2, SMT
    <3> QED BY <2>2, <2>5, <3>1, <3>2 DEF ItemAt
  <2> QED BY <2>5, <2>6, <2>7, <2>8 DEF LevelAt, CoveredAt, ParkedAt
<1> QED BY <1>2, <1>3 DEF Level

(* The object has its descriptor's reference and one of each item. *)
LEMMA InitCounts ==
  ASSUME Init, Counted, Countable
  PROVE  Counts
<1>1. Alive = Sockets \ Faulty
  BY InitItems, SMT DEF Alive
<1>2. \A t \in Threads : th[t].pc = "idle"
  BY DEF Init, IdleThread
<1>3. Busy = {} /\ th[Ctl].pc = "idle"
  BY <1>2 DEF Busy, Threads
<1>4. ep.open /\ ep.refs = 1 + Cardinality(Sockets \ Faulty)
  BY DEF Init
<1>5. Cardinality(Busy) = 0
  BY <1>3 DEF Counted
<1>6. Cardinality(Alive) \in Nat /\ Opened = 1
  BY <1>4, CountTypes DEF Opened
<1> QED BY <1>1, <1>3, <1>4, <1>5, <1>6, SMT DEF Counts

-----------------------------------------------------------------------------
(* The invariant and what follows from it. *)

(* The parts of the state have their types, the counts among them that are  *)
(* never negative.                                                          *)
LEMMA SoundTypes ==
  ASSUME Wake, Level, Counts, Countable
  PROVE  TypeOK
<1>1. Types /\ ThreadTypes /\ ListTypes /\ WorkTypes
  BY DEF Wake, Types
<1>2. mtx \in Threads \cup {"free"}
  BY <1>1 DEF ThreadTypes
<1>3. ep \in [open : BOOLEAN, refs : Nat, efd : BOOLEAN]
  <2>1. ep.refs \in Nat
    <3>1. ep.refs = Opened + Cardinality(Alive) + Cardinality(Busy)
      BY DEF Counts
    <3>2. Cardinality(Alive) \in Nat /\ Cardinality(Busy) \in Nat
      BY CountTypes
    <3>3. Opened \in Nat
      BY DEF Opened
    <3> QED BY <3>1, <3>2, <3>3, SMT
  <2>2. ep = [open |-> ep.open, refs |-> ep.refs, efd |-> ep.efd]
        /\ ep.open \in BOOLEAN /\ ep.efd \in BOOLEAN
    BY <1>1 DEF ListTypes
  <2> QED BY <2>1, <2>2
<1>4. ready \in Seq(Sockets) /\ IsInjective(ready)
  <2>1. ready \in Seq(Sockets) /\ Once(ready)
    BY <1>1 DEF ListTypes
  <2>2. DOMAIN ready = 1..Len(ready)
    BY <2>1, SMT
  <2> QED BY <2>1, <2>2 DEF Once, IsInjective
<1>5. ASSUME NEW s \in Sockets
      PROVE  /\ item[s].refs \in Nat /\ item[s].ev \subseteq {"in", "err"}
             /\ item[s].watch \in Watches \cup {{}}
             /\ sk[s].st \in {"open", "closing", "closed"} /\ sk[s].parked \subseteq Readers
             /\ wk[s].pc \in {"idle", "notify", "walk"}
  <2>1. item[s] \in Items /\ sk[s] \in Socks /\ wk[s] \in Serves
    BY <1>1 DEF ListTypes, WorkTypes
  <2> QED BY <2>1, ItemRefs DEF Items, Socks, Serves, WatchMasks, Events
<1>6. \A t \in Threads : th[t].pc \in PCs
  BY <1>1 DEF ThreadTypes, Places
<1> QED BY <1>2, <1>3, <1>4, <1>5, <1>6 DEF TypeOK, PCs

(* Level covers every event of a level-triggered registration. *)
LEMMA LevelCovers == Level => LevelNeverLost
<1> SUFFICES ASSUME Level, NEW s \in Sockets, item[s].reg, "et" \notin item[s].watch,
                    sk[s].st = "open",
                    NEW e \in Poll(s) \cap epoll_interest(item[s].watch)
             PROVE  \/ s \in Range(ready) /\ e \in item[s].ev
                    \/ InSnapshot(s) \/ Underway(s, e)
  BY DEF LevelNeverLost
<1>1. CoveredAt(s) /\ ItemAt(s)
  BY DEF Level, LevelAt
<1>2. e \in item[s].ev \/ Taken(s, e) \/ Underway(s, e)
  BY <1>1 DEF CoveredAt
<1>3. e \in item[s].ev => s \in Range(ready)
  BY <1>1 DEF ItemAt
<1>4. Taken(s, e) => InSnapshot(s)
  BY SMT DEF Taken, InSnapshot
<1> QED BY <1>2, <1>3, <1>4

(* The invariant makes the reference counts exact. *)
LEMMA SoundRefs ==
  ASSUME Wake, Level, Counts, Countable
  PROVE  RefsExact
<1>1. ASSUME NEW s \in Sockets
      PROVE  /\ item[s].refs = (IF item[s].reg THEN 1 ELSE 0)
                               + (IF InSnapshot(s) THEN 1 ELSE 0)
             /\ s \in Range(ready) => item[s].reg /\ item[s].useful
  <2>1. ItemAt(s)
    BY DEF Level, LevelAt
  <2> QED BY <2>1 DEF ItemAt
<1> QED BY <1>1, SoundTypes DEF RefsExact, Counts, Opened, Alive, Busy

(* The library's facts on finite sets, which only the start needs. *)
FS == INSTANCE FiniteSetTheorems

(* They are about the finite sets and the cardinalities of Epoll. *)
LEMMA SameSets ==
  ASSUME NEW S
  PROVE  /\ IsFiniteSet(S) <=> FS!IsFiniteSet(S)
         /\ Cardinality(S) = FS!Cardinality(S)
<1>1. IsFiniteSet(S) <=> FS!IsFiniteSet(S)
  BY DEF IsFiniteSet, FS!IsFiniteSet
<1>2. Cardinality(S) = FS!Cardinality(S)
  BY DEF Cardinality, FS!Cardinality
<1> QED BY <1>1, <1>2

(* The sockets and the readers are finitely many. *)
LEMMA EverySetCounted == Counted
<1>1. Cardinality({}) = 0
  BY SameSets, FS!FS_EmptySet
<1>2. ASSUME NEW S \in SUBSET (Sockets \cup Readers)
      PROVE  Cardinality(S) \in Nat
  <2>1. FS!IsFiniteSet(Sockets) /\ FS!IsFiniteSet(Readers)
    BY EpollAssumption, SameSets
  <2>2. FS!IsFiniteSet(Sockets \cup Readers)
    BY <2>1, FS!FS_Union
  <2>3. FS!IsFiniteSet(S)
    BY <2>2, FS!FS_Subset
  <2> QED BY <2>3, SameSets, FS!FS_CardinalityType
<1> QED BY <1>1, <1>2 DEF Counted

(* So are the waiters, and to come or to go changes a number by one. *)
LEMMA EverySetCountable == Countable
<1> SUFFICES ASSUME NEW U \in {Sockets, Waiters}, NEW S \in SUBSET U
             PROVE  /\ Cardinality(S) \in Nat
                    /\ \A x \in U : x \notin S => Cardinality(S \cup {x}) = Cardinality(S) + 1
                    /\ \A x \in S : Cardinality(S \ {x}) = Cardinality(S) - 1
                    /\ \A R \in SUBSET S : /\ Cardinality(S \ R) = Cardinality(S) - Cardinality(R)
                                           /\ Cardinality(R) \in Nat
  BY DEF Countable
<1>1. FS!IsFiniteSet(S)
  <2>1. FS!IsFiniteSet(U)
    BY EpollAssumption, SameSets
  <2> QED BY <2>1, FS!FS_Subset
<1>2. Cardinality(S) \in Nat
  BY <1>1, SameSets, FS!FS_CardinalityType
<1>3. ASSUME NEW x, x \notin S PROVE Cardinality(S \cup {x}) = Cardinality(S) + 1
  <2>1. FS!Cardinality(S \cup {x}) = FS!Cardinality(S) + 1
    BY <1>1, <1>3, FS!FS_AddElement
  <2> QED BY <2>1, SameSets
<1>4. ASSUME NEW x \in S PROVE Cardinality(S \ {x}) = Cardinality(S) - 1
  <2>1. FS!Cardinality(S \ {x}) = FS!Cardinality(S) - 1
    BY <1>1, FS!FS_RemoveElement
  <2> QED BY <2>1, SameSets
<1>5. ASSUME NEW R \in SUBSET S
      PROVE  Cardinality(S \ R) = Cardinality(S) - Cardinality(R) /\ Cardinality(R) \in Nat
  <2>1. S \cap R = R
    OBVIOUS
  <2>2. FS!Cardinality(S \ R) = FS!Cardinality(S) - FS!Cardinality(S \cap R)
    BY <1>1, FS!FS_Difference
  <2>3. FS!IsFiniteSet(R)
    BY <1>1, FS!FS_Subset
  <2>4. FS!Cardinality(R) \in Nat
    BY <2>3, FS!FS_CardinalityType
  <2> QED BY <2>1, <2>2, <2>4, SameSets
<1> QED BY <1>2, <1>3, <1>4, <1>5

(* The inductive invariant. *)
LEMMA AlwaysSound == Spec => [](Wake /\ Level /\ Counts)
<1>1. Wake /\ Level /\ Counts /\ [Next]_vars => (Wake /\ Level /\ Counts)'
  BY EverySetCountable, NextWake, NextLevel, NextCounts
<1>2. Init => Wake /\ Level /\ Counts
  BY EverySetCounted, EverySetCountable, InitWake, InitLevel, InitCounts
<1> QED BY <1>1, <1>2, PTL DEF Spec

(* No thread sleeps in net_epoll_wait() over a ready item: the invariant    *)
(* NoSleepOverReady, for every number of sockets and threads.               *)
THEOREM NeverSleepsOverReady == Spec => []NoSleepOverReady
<1>1. Wake => NoSleepOverReady
  BY DEF Wake
<1> QED BY <1>1, AlwaysSound, PTL

(* req_epoll_close() reaches every thread asleep in net_epoll_wait(): the   *)
(* eventfd stays readable once the object is closed, or is about to be.     *)
THEOREM CloseAlwaysReaches == Spec => []CloseReachesSleepers
<1>1. Wake => CloseReachesSleepers
  BY DEF Wake, ClosedLoud, CloseReachesSleepers
<1> QED BY <1>1, AlwaysSound, PTL

(* A level-triggered registration never loses an event: LevelNeverLost, for *)
(* every order of arrivals, reads, polls, epoll_ctl() calls and snapshots.  *)
THEOREM LevelAlwaysKept == Spec => []LevelNeverLost
BY AlwaysSound, LevelCovers, PTL

(* A parked read on a socket that has something to read will run again:     *)
(* ParkedReadWillRun, for any number of requests parked by wait().          *)
THEOREM ParkedNeverForgotten == Spec => []ParkedReadWillRun
<1>1. Level => ParkedReadWillRun
  BY DEF Level, LevelAt, ParkedAt, ParkedReadWillRun
<1> QED BY <1>1, AlwaysSound, PTL

(* The reference counts of the object and of the items are exact, so the    *)
(* assertions of destroy_net_epoll() and destroy_net_epoll_item() hold:     *)
(* RefsExact, for any number of sockets, waiters and snapshots.             *)
THEOREM RefsAlwaysExact == Spec => []RefsExact
<1>1. Wake /\ Level /\ Counts => RefsExact
  BY SoundRefs, EverySetCountable
<1> QED BY <1>1, AlwaysSound, PTL

=============================================================================
