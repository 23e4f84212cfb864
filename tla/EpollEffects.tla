---------------------------- MODULE EpollEffects ----------------------------
(***************************************************************************)
(* What the variables of Epoll range over, what each of its steps changes, *)
(* and the invariants that the proofs about it rest on.                    *)
(***************************************************************************)
EXTENDS Epoll

-----------------------------------------------------------------------------
(* Types.                                                                  *)

Events == {"in", "err"}
WatchMasks == Watches \cup {{}}
Replies == SUBSET {"in", "err", "none"}
PCs == {"idle", "count", "take", "item", "notify", "decide", "sleep", "relock",
        "expired", "exit", "ctl", "close"}

Items == [reg : BOOLEAN, useful : BOOLEAN, watch : WatchMasks, ev : SUBSET Events, refs : Int]
Socks == [st : {"open", "closing", "closed"}, data : {0, 1}, err : BOOLEAN,
          bits : SUBSET Events, task : BOOLEAN, parked : SUBSET Readers]
Serves == [pc : {"idle", "notify", "walk"}, todo : Seq(Sockets \cup Readers),
           ev : SUBSET Events, reply : Replies]
Entries == [s : Sockets, watch : WatchMasks, ev : SUBSET Events]
Requests == [st : {"none", "sent", "done"}, s : Sockets \cup {"-"},
             op : {"-", "poll", "add", "mod", "del"}, watch : WatchMasks, mask : Replies]

(* The control thread keeps sockets where a waiter keeps its candidates. *)
Places == [pc : PCs, snap : Seq(Sockets) \cup Seq(Entries), room : Nat, got : Nat]
Snaps(t) == IF t = Ctl THEN Seq(Sockets) ELSE Seq(Entries)

ThreadTypes ==
  /\ mtx \in Threads \cup {"free"}
  /\ th \in [Threads -> Places]
  /\ \A t \in Threads : th[t].snap \in Snaps(t)
  /\ call \in Requests

Once(q) == \A i, j \in 1..Len(q) : q[i] = q[j] => i = j

ListTypes ==
  /\ ep \in [open : BOOLEAN, refs : Int, efd : BOOLEAN]
  /\ ready \in Seq(Sockets) /\ Once(ready)
  /\ item \in [Sockets -> Items]

WorkTypes ==
  /\ sk \in [Sockets -> Socks]
  /\ wk \in [Sockets -> Serves]

(* There are finitely many sockets and readers, so every set of them has a  *)
(* number of elements.                                                      *)
Counted ==
  /\ Cardinality({}) = 0
  /\ \A S \in SUBSET (Sockets \cup Readers) : Cardinality(S) \in Nat

Types == Counted /\ ThreadTypes /\ ListTypes /\ WorkTypes

(* What a thread's own step does to the threads. *)
Moved(t, pc, snap) ==
  /\ th' \in [Threads -> Places] /\ \A u \in Threads : th'[u].snap \in Snaps(u)
  /\ th'[t].pc = pc /\ th'[t].snap = snap
  /\ \A u \in Threads : u # t => th'[u] = th[u]

GoMove(t, pc) ==
  /\ Moved(t, pc, th[t].snap)
  /\ th'[t].got = th[t].got /\ th'[t].room = th[t].room

(* What a worker's own step does to the workers. *)
Served(s, pc, todo, ev, reply) ==
  /\ wk' \in [Sockets -> Serves]
  /\ wk'[s].pc = pc /\ wk'[s].todo = todo /\ wk'[s].ev = ev /\ wk'[s].reply = reply
  /\ \A x \in Sockets : x # s => wk'[x] = wk[x]

AnswerServesFact(s, reply) ==
  /\ Served(s, IF reply = NoReply THEN "walk" ELSE "idle", wk[s].todo, wk[s].ev, NoReply)
  /\ call' = IF reply = NoReply THEN call ELSE [call EXCEPT !.st = "done", !.mask = reply]
  /\ call' \in Requests

-----------------------------------------------------------------------------
(* What the threads' steps do to the threads, the mutex and the request. *)

(* The snapshot that epoll_take_snapshot() makes of the first n items. *)
Shot(n) == [i \in 1..n |-> [s |-> ready[i], watch |-> item[ready[i]].watch,
                            ev |-> item[ready[i]].ev]]

SnapshotTakeMove(t, n) ==
  /\ Moved(t, "item", Shot(n)) /\ Len(Shot(n)) = n
  /\ n \in 0..Len(ready) /\ (n < th[t].room => n = Len(ready))
  /\ SubSeq(ready, 1, n) = [i \in 1..n |-> ready[i]]

HeadOfSnapFact(t) ==
  /\ Head(th[t].snap) \in Entries /\ Head(th[t].snap).s \in Sockets
  /\ Tail(th[t].snap) \in Seq(Entries) /\ Head(th[t].snap) = th[t].snap[1]

(* What epoll_restore_snapshot() hands back: the sockets of the snapshot,   *)
(* the events it holds for each, and the items that go back on the list.    *)
Held(t) == {th[t].snap[i].s : i \in DOMAIN th[t].snap}
Queued(t, s) == UNION {th[t].snap[i].ev : i \in {j \in DOMAIN th[t].snap : th[t].snap[j].s = s}}
Kept(t) == {s \in Held(t) : item[s].useful /\ item[s].ev \cup Queued(t, s) # {}
                              /\ s \notin Range(ready)}

DecideMove(t) ==
  \/ Moved(t, "exit", th[t].snap) /\ mtx' = mtx
  \/ Moved(t, "sleep", th[t].snap) /\ mtx' = "free"

RelockMove(t) ==
  \/ Moved(t, "exit", th[t].snap) /\ ep' = ep
  \/ Moved(t, "count", th[t].snap) /\ ep.open /\ ep' = [ep EXCEPT !.efd = FALSE]

-----------------------------------------------------------------------------
(* The same for the control thread. *)

OrdersHoldFact(S, q) ==
  /\ q \in Seq(S) /\ Range(q) = S /\ Len(q) = Cardinality(S)
  /\ \A i, j \in 1..Len(q) : q[i] = q[j] => i = j

PushTypesFact(s, op, w) ==
  call' \in Requests /\ call'.st = "sent" /\ call'.s = s /\ call'.op = op /\ call'.watch = w

CtlCallMove(s, op, w) ==
  /\ Moved(Ctl, "ctl", th[Ctl].snap) /\ call' \in Requests
  /\ call'.st = "sent" /\ call'.s = s /\ call'.op = op /\ s \in Sockets

CloseNextMove ==
  \/ th' = th /\ call' \in Requests /\ call'.st = "sent" /\ call'.op = "del"
       /\ call'.s \in Sockets
  \/ Moved(Ctl, "close", Tail(th[Ctl].snap)) /\ call' = NoCall

-----------------------------------------------------------------------------
(* Lists and ready_lock sections. *)

ConcatEffect(S, a, b) ==
  /\ a \o b \in Seq(S) /\ Len(a \o b) = Len(a) + Len(b)
  /\ \A i \in 1..Len(a) + Len(b) : (a \o b)[i] = IF i <= Len(a) THEN a[i] ELSE b[i - Len(a)]

RangeEffect(S, q) ==
  Range(q) = {q[i] : i \in 1..Len(q)} /\ Len(q) \in Nat /\ Range(q) \subseteq S

UnlinkedEffect(q, s) ==
  /\ Unlinked(q, s) \in Seq(Sockets) /\ Once(Unlinked(q, s))
  /\ Range(Unlinked(q, s)) = Range(q) \ {s} /\ Len(Unlinked(q, s)) <= Len(q)

JoinedEffect(a, b) ==
  a \o b \in Seq(Sockets) /\ Once(a \o b) /\ Range(a \o b) = Range(a) \cup Range(b)

LinkedEffect(q, s) ==
  /\ <<s>> \o q \in Seq(Sockets) /\ Once(<<s>> \o q)
  /\ Range(<<s>> \o q) = Range(q) \cup {s}

UpdateReadyEffect(s, it, events, merge) ==
  /\ ready' \in Seq(Sockets) /\ Once(ready')
  /\ item' \in [Sockets -> Items]
  /\ item'[s] = [it EXCEPT !.ev = Fresh(it, events, merge)]
  /\ \A x \in Sockets : x # s => item'[x] = item[x]
  /\ Range(ready') = IF Fresh(it, events, merge) = {} THEN Range(ready) \ {s}
                                                      ELSE Range(ready) \cup {s}
  /\ Wakes(s, it, events, merge) \/ Len(ready') <= Len(ready)

-----------------------------------------------------------------------------
(* What changes of the epoll object and of an item. *)

Eps == [open : BOOLEAN, refs : Int, efd : BOOLEAN]

EpPutFact(it) ==
  /\ EpAfterPut(it) \in Eps /\ EpAfterPut(it).open = ep.open /\ EpAfterPut(it).efd = ep.efd
  /\ EpAfterPut(it).refs = IF it.refs = 1 THEN ep.refs - 1 ELSE ep.refs

EpEfdFact(b) ==
  ep' \in Eps /\ ep'.open = ep.open /\ ep'.efd = b /\ ep'.refs = ep.refs

EpCloseFact ==
  ep' \in Eps /\ ep'.open = FALSE /\ ep'.efd = ep.efd /\ ep'.refs = ep.refs

PutItemEffect(it) ==
  /\ PutItem(it) \in Items
  /\ it.refs = 1 => PutItem(it) = NoItem
  /\ it.refs # 1 => /\ PutItem(it).reg = it.reg /\ PutItem(it).useful = it.useful
                    /\ PutItem(it).watch = it.watch /\ PutItem(it).ev = it.ev
  /\ PutItem(it).refs = it.refs - 1

DropItemFact(s) ==
  /\ item' \in [Sockets -> Items] /\ item'[s] = PutItem(item[s]) /\ item[s] \in Items
  /\ \A x \in Sockets : x # s => item'[x] = item[x]

UnregisterEffect(s) ==
  /\ ready' \in Seq(Sockets) /\ Once(ready') /\ Range(ready') = Range(ready) \ {s}
  /\ Len(ready') <= Len(ready)
  /\ item' \in [Sockets -> Items] /\ \A x \in Sockets : x # s => item'[x] = item[x]
  /\ item'[s].reg = FALSE /\ item'[s].useful = FALSE /\ item'[s].ev = {}
  /\ item'[s].refs = item[s].refs - 1
  /\ ep' = EpAfterPut(item[s])

-----------------------------------------------------------------------------
(* What the workers' steps do. *)

(* The item of s, and its place on the list, were brought up to date. *)
Relisted(s) ==
  /\ ready' \in Seq(Sockets) /\ Once(ready')
  /\ item' \in [Sockets -> Items] /\ \A x \in Sockets : x # s => item'[x] = item[x]
  /\ Range(ready') = IF item'[s].ev = {} THEN Range(ready) \ {s} ELSE Range(ready) \cup {s}

(* The request is answered, or will be after a notification. *)
Replied(s, reply) ==
  \/ /\ Served(s, "notify", wk[s].todo, wk[s].ev, reply)
     /\ call' = call
  \/ /\ Served(s, "idle", wk[s].todo, wk[s].ev, NoReply)
     /\ call' = [call EXCEPT !.st = "done", !.mask = reply]
     /\ Len(ready') <= Len(ready)

UpdateReadyRelistsFact(s, it, events, merge) ==
  /\ Relisted(s)
  /\ item'[s].reg = it.reg /\ item'[s].useful = it.useful /\ item'[s].watch = it.watch
  /\ item'[s].refs = it.refs /\ item'[s].ev = Fresh(it, events, merge)
  /\ Wakes(s, it, events, merge) \/ Len(ready') <= Len(ready)

UpdateEffect(s, it, events, merge, reply) ==
  /\ Relisted(s) /\ Replied(s, reply) /\ call' \in Requests
  /\ item'[s].reg = it.reg /\ item'[s].useful = it.useful /\ item'[s].watch = it.watch
  /\ item'[s].refs = it.refs /\ item'[s].ev = Fresh(it, events, merge)

RefusedEffect(s) ==
  /\ Served(s, "idle", wk[s].todo, wk[s].ev, NoReply)
  /\ call' = [call EXCEPT !.st = "done", !.mask = {}] /\ call' \in Requests

PollEffect(s) ==
  /\ Relisted(s) /\ Replied(s, Poll(s)) /\ call' \in Requests
  /\ item'[s].reg = item[s].reg /\ item'[s].useful = item[s].useful
  /\ item'[s].watch = item[s].watch /\ item'[s].refs = item[s].refs
  /\ item'[s].ev \in SUBSET Events
  /\ "et" \notin item[s].watch => item'[s].ev = Poll(s) \cap epoll_interest(item[s].watch)

AddEffect(s) ==
  /\ Relisted(s) /\ Replied(s, {}) /\ call' \in Requests /\ ep' = [ep EXCEPT !.refs = @ + 1]
  /\ item'[s].reg = TRUE /\ item'[s].useful = TRUE /\ item'[s].refs = 1
  /\ item'[s].ev = Poll(s) \cap epoll_interest(item'[s].watch)

ModEffect(s) ==
  /\ call' \in Requests /\ item' \in [Sockets -> Items]
  /\ \A x \in Sockets : x # s => item'[x] = item[x]
  /\ item'[s].reg = TRUE /\ item'[s].useful = item[s].useful
  /\ item'[s].refs = item[s].refs
  /\ \/ Relisted(s) /\ Replied(s, {})
        /\ item'[s].ev = Poll(s) \cap epoll_interest(item'[s].watch)
     \/ /\ ready' = ready /\ Replied(s, {})
        /\ item'[s].ev = item[s].ev
        /\ Poll(s) \cap epoll_interest(item'[s].watch) = {}

NotifyWorkerEffect(s) ==
  \/ /\ wk[s].reply = NoReply /\ call' = call
     /\ Served(s, "walk", wk[s].todo, wk[s].ev, NoReply)
  \/ /\ wk[s].reply # NoReply
     /\ Served(s, "idle", wk[s].todo, wk[s].ev, NoReply)
     /\ call' = [call EXCEPT !.st = "done", !.mask = wk[s].reply] /\ call' \in Requests

-----------------------------------------------------------------------------
(* What else happens to a socket. *)

(* A step on s keeps the other sockets. *)
Socked(s) == sk' \in [Sockets -> Socks] /\ \A x \in Sockets : x # s => sk'[x] = sk[x]

SockTypesFact(s) ==
  /\ sk[s] \in Socks /\ sk[s].st \in {"open", "closing", "closed"}
  /\ sk[s].data \in {0, 1} /\ sk[s].err \in BOOLEAN /\ sk[s].bits \in SUBSET Events
  /\ sk[s].task \in BOOLEAN /\ sk[s].parked \in SUBSET Readers

SocksEffect(so) ==
  /\ so.st \in {"open", "closing", "closed"}
  /\ so.data \in {0, 1} /\ so.err \in BOOLEAN /\ so.bits \in SUBSET Events
  /\ so.task \in BOOLEAN /\ so.parked \in SUBSET Readers

NotifiedEffect(s, so, ev) ==
  /\ Notified(s, so, ev) \in Socks
  /\ Notified(s, so, ev).bits = so.bits \cup {ev}
  /\ Notified(s, so, ev).task = (so.task \/ HasWaiter(s))
  /\ Notified(s, so, ev).st = so.st /\ Notified(s, so, ev).data = so.data
  /\ Notified(s, so, ev).err = so.err /\ Notified(s, so, ev).parked = so.parked

ArriveEffect(s) ==
  /\ Socked(s) /\ sk'[s].st = "open" /\ sk'[s].err = sk[s].err
  /\ sk'[s].bits = sk[s].bits \cup {"in"} /\ sk'[s].task = (sk[s].task \/ HasWaiter(s))
  /\ sk'[s].parked = sk[s].parked

FailEffect(s) ==
  /\ Socked(s) /\ sk'[s].st = "open" /\ sk'[s].data = sk[s].data
  /\ sk'[s].bits = sk[s].bits \cup {"err"} /\ sk'[s].task = (sk[s].task \/ HasWaiter(s))
  /\ sk'[s].parked = sk[s].parked

TakeEffect(so) ==
  /\ Take(so) \in Socks /\ Take(so).st = so.st /\ Take(so).bits = so.bits
  /\ Take(so).task = so.task /\ Take(so).parked = so.parked
  /\ Take(so).data \in {0, so.data} /\ Take(so).err \in {FALSE, so.err}

NonblockingReadEffect(s) ==
  /\ Socked(s) /\ sk'[s].st = sk[s].st /\ sk'[s].bits = sk[s].bits
  /\ sk'[s].task = sk[s].task /\ sk'[s].parked = sk[s].parked
  /\ sk'[s].data \in {0, sk[s].data} /\ sk'[s].err \in {FALSE, sk[s].err}

BlockingReadEffect(s, r) ==
  /\ Socked(s) /\ sk'[s].st = sk[s].st /\ sk'[s].bits = sk[s].bits
  /\ sk'[s].task = sk[s].task /\ sk'[s].data = sk[s].data /\ sk'[s].err = sk[s].err
  /\ ~ Readable(sk[s])

CloseSocketEffect(s) ==
  /\ Socked(s) /\ sk'[s].st = "closing" /\ sk'[s].task = sk[s].task
  /\ sk'[s].data = sk[s].data /\ sk'[s].err = sk[s].err /\ sk'[s].parked = sk[s].parked

ServeTypesFact(s) ==
  /\ wk[s] \in Serves /\ wk[s].pc \in {"idle", "notify", "walk"}
  /\ wk[s].todo \in Seq(Sockets \cup Readers) /\ wk[s].ev \in SUBSET Events
  /\ wk[s].reply \in Replies

PendingTaskEffect(s) ==
  /\ Served(s, "walk", wk'[s].todo, sk[s].bits, NoReply)
  /\ Range(wk'[s].todo) = sk[s].parked \cup (IF item[s].reg THEN {s} ELSE {})
  /\ Socked(s) /\ sk'[s].st = sk[s].st /\ sk'[s].data = sk[s].data
  /\ sk'[s].err = sk[s].err /\ sk'[s].parked = sk[s].parked

WalkItemEffect(s) ==
  /\ Relisted(s)
  /\ item'[s].reg = item[s].reg /\ item'[s].useful = item[s].useful
  /\ item'[s].watch = item[s].watch /\ item'[s].refs = item[s].refs
  /\ item'[s].ev = (wk[s].ev \cap Poll(s) \cap epoll_interest(item[s].watch)) \cup item[s].ev
  /\ \/ Served(s, "notify", Tail(wk[s].todo), wk[s].ev, wk[s].reply)
     \/ /\ Served(s, "walk", Tail(wk[s].todo), wk[s].ev, wk[s].reply)
        /\ Len(ready') <= Len(ready)

WalkReaderEffect(s) ==
  /\ Served(s, "walk", Tail(wk[s].todo), wk[s].ev, wk[s].reply)
  /\ Socked(s) /\ sk'[s].st = sk[s].st /\ sk'[s].bits = sk[s].bits
  /\ sk'[s].task = sk[s].task /\ sk'[s].data \in {0, sk[s].data}
  /\ sk'[s].err \in {FALSE, sk[s].err}
  /\ Readable(sk[s]) => sk'[s].parked = sk[s].parked \ {Head(wk[s].todo)}
  /\ ~ Readable(sk[s]) => sk' = sk

-----------------------------------------------------------------------------
(* What the waiters' steps do to the items and to the list. *)

(* The sockets of the first n items on the list. *)
Front(n) == {ready[i] : i \in 1..n}

SnapshotTakeEffect(t, n) ==
  /\ ready' \in Seq(Sockets) /\ Once(ready') /\ Len(ready') = Len(ready) - n
  /\ Front(n) \subseteq Range(ready) /\ Range(ready') = Range(ready) \ Front(n)
  /\ item' \in [Sockets -> Items]
  /\ \A s \in Sockets \ Front(n) : item'[s] = item[s]
  /\ \A s \in Front(n) :
       /\ s \in Sockets /\ item'[s].ev = {} /\ item'[s].refs = item[s].refs + 1
       /\ item'[s].reg = item[s].reg /\ item'[s].useful = item[s].useful
       /\ item'[s].watch = item[s].watch

(* A candidate loses its reference, and so may the epoll object. *)
Dropped(s) ==
  /\ item' \in [Sockets -> Items] /\ \A x \in Sockets : x # s => item'[x] = item[x]
  /\ item'[s] = PutItem(item[s])
  /\ ep' = EpAfterPut(item[s])

PollItemEffect(t) ==
  LET s == Head(th[t].snap).s IN
  \/ /\ UNCHANGED <<ep, item, th>> /\ item[s].useful
     /\ call' \in Requests /\ call'.st = "sent" /\ call'.s = s /\ call'.op = "poll"
  \/ /\ sk[s].st = "closed" \/ ~ item[s].useful
     /\ Dropped(s) /\ Moved(t, "item", Tail(th[t].snap)) /\ call' = call

PollReplyEffect(t) ==
  Dropped(Head(th[t].snap).s) /\ Moved(t, "item", Tail(th[t].snap)) /\ call' = NoCall

HeldEffect(t) ==
  /\ th[t].snap \in Seq(Entries) /\ Len(th[t].snap) \in Nat
  /\ DOMAIN th[t].snap = 1..Len(th[t].snap)
  /\ Held(t) \subseteq Sockets
  /\ \A s : Queued(t, s) \in SUBSET Events

RestoreEffect(t) ==
  /\ ready' \in Seq(Sockets) /\ Once(ready') /\ Range(ready') = Range(ready) \cup Kept(t)
  /\ Kept(t) = {} => ready' = ready
  /\ item' \in [Sockets -> Items]
  /\ \A s \in Sockets \ Held(t) : item'[s] = item[s]
  /\ \A s \in Held(t) :
       /\ item[s].refs = 1 => item'[s] = NoItem
       /\ item[s].refs # 1 =>
            /\ item'[s].reg = item[s].reg /\ item'[s].useful = item[s].useful
            /\ item'[s].watch = item[s].watch
            /\ item'[s].ev = IF item[s].useful THEN item[s].ev \cup Queued(t, s)
                                               ELSE item[s].ev
       /\ item'[s].refs = item[s].refs - 1
  /\ ep' \in Eps /\ ep'.open = ep.open /\ ep'.efd = ep.efd
  /\ ep'.refs = ep.refs - Cardinality({s \in Held(t) : item[s].refs = 1})

-----------------------------------------------------------------------------
(* The inductive invariant. *)

Inside == {"count", "take", "item", "notify", "decide", "exit", "ctl", "close"}

(* Whoever is in a call, and not asleep or waiting for the mutex, holds     *)
(* entry->mtx.                                                              *)
Mutex == \A t \in Threads : th[t].pc \in Inside => mtx = t

(* A request under way belongs to the holder: it is the control thread's,   *)
(* or the poll of the first candidate of a waiter's snapshot.               *)
CtlCalls ==
  /\ th[Ctl].pc = "ctl" \/ (th[Ctl].pc = "close" /\ th[Ctl].snap # <<>>)
  /\ call.op \in {"add", "mod", "del"}
PollCalls ==
  /\ call.op = "poll"
  /\ \E t \in Waiters : th[t].pc = "item" /\ th[t].snap # <<>> /\ Head(th[t].snap).s = call.s
Calls == call.st # "none" => call.s \in Sockets /\ (CtlCalls \/ PollCalls)

(* Only a waiter that works through its snapshot has one, and only a        *)
(* waiter works through one.                                                *)
SnapAt ==
  /\ \A t \in Waiters : th[t].snap # <<>> => th[t].pc = "item"
  /\ \A t \in Waiters : th[t].pc \notin {"ctl", "close"}
  /\ th[Ctl].pc \in {"idle", "ctl", "close", "notify", "exit"}

(* A worker that owes a reply is about to notify, and its request waits.    *)
Owes ==
  \A s \in Sockets :
    wk[s].reply # NoReply => wk[s].pc = "notify" /\ call.st = "sent" /\ call.s = s

(* A closed object has a readable eventfd that nobody drains, or the        *)
(* closing thread is about to make it so; the closing thread has cleared    *)
(* entry->value when it notifies.                                           *)
ClosedLoud ==
  /\ ~ ep.open => ep.efd \/ th[Ctl].pc = "notify"
  /\ th[Ctl].pc \in {"notify", "exit"} => ~ ep.open

(* The eventfd is readable, or someone is about to write it. *)
Announced ==
  \/ ep.efd
  \/ \E s \in Sockets : wk[s].pc = "notify"
  \/ \E t \in Threads : th[t].pc = "notify"

(* What joined the list after a waiter counted it has been announced, and   *)
(* so has what the list holds once the snapshot is taken.                   *)
LateAnnounced ==
  \A t \in Waiters :
    /\ th[t].pc = "take" /\ Len(ready) > th[t].room => Announced
    /\ th[t].pc \in {"item", "decide"} /\ ready # <<>> => Announced

(* What keeps the sleepers from being forgotten. *)
Wake ==
  /\ Types /\ Mutex /\ Calls /\ SnapAt /\ Owes /\ ClosedLoud /\ LateAnnounced
  /\ NoSleepOverReady

-----------------------------------------------------------------------------
(* The mutex. *)

Alone(t) == \A u \in Threads : u # t => th[u].pc \notin Inside

-----------------------------------------------------------------------------
(* The workers' side. *)

(* The request of the mutex holder is as it was, or has been answered. *)
CallKept ==
  call' = call \/ (/\ call.st = "sent" /\ call'.st = "done" /\ call'.s = call.s
                   /\ call'.op = call.op)

(* What a step of a worker or of the network may do to the sleepers: the    *)
(* list grows only with an announcement, and announcements stay.            *)
Heard ==
  /\ ep'.open = ep.open /\ (ep.efd => ep'.efd)
  /\ Announced => Announced'
  /\ Announced' \/ Len(ready') <= Len(ready)
WorkSide == Types' /\ UNCHANGED <<mtx, th>> /\ Heard /\ Owes' /\ CallKept

(* A step that keeps the threads has types if the rest has. *)
Rest == UNCHANGED <<mtx, th>> /\ call' \in Requests /\ ListTypes' /\ WorkTypes'

SocketStep(s) ==
  \/ Arrive(s) \/ NonblockingRead(s) \/ Fail(s) \/ CloseSocket(s) \/ ReopenSocket(s)
  \/ \E r \in Readers : BlockingRead(s, r)

-----------------------------------------------------------------------------
(* Items, the list, the snapshots and the parked reads.                    *)

(* A worker that is idle, or that owes a reply, walks no list, and a walk   *)
(* that will reach the item of the socket finds it registered.              *)
WalksAt(s) ==
  /\ wk[s].pc = "idle" => wk[s].todo = <<>>
  /\ wk[s].pc = "walk" => wk[s].reply = NoReply
  /\ wk[s].reply # NoReply => wk[s].todo = <<>>
  /\ s \in Range(wk[s].todo) => item[s].reg

(* The item is on the ready list exactly while it has ready events; it is   *)
(* useful while it is registered, is ready only then, has a reference for   *)
(* the registration and one for a snapshot, and goes with its socket.       *)
ItemAt(s) ==
  /\ s \in Range(ready) <=> item[s].ev # {}
  /\ item[s].useful = item[s].reg
  /\ item[s].ev # {} => item[s].reg
  /\ item[s].refs = (IF item[s].reg THEN 1 ELSE 0) + (IF InSnapshot(s) THEN 1 ELSE 0)
  /\ sk[s].st = "closed" => ~ item[s].reg

(* The event was in the item when it was taken into a snapshot, and the     *)
(* socket has not been asked since.                                         *)
Taken(s, e) ==
  \E t \in Waiters : \E i \in 1..Len(th[t].snap) :
    /\ th[t].snap[i].s = s /\ e \in th[t].snap[i].ev
    /\ ~ (i = 1 /\ (call.st = "done" \/ wk[s].reply # NoReply))

(* LevelNeverLost, with what a snapshot has to know. *)
CoveredAt(s) ==
  (item[s].reg /\ "et" \notin item[s].watch /\ sk[s].st = "open") =>
    \A e \in Poll(s) \cap epoll_interest(item[s].watch) :
      e \in item[s].ev \/ Taken(s, e) \/ Underway(s, e)

(* ParkedReadWillRun, for one socket. *)
ParkedAt(s) ==
  \A r \in sk[s].parked : Readable(sk[s]) => sk[s].task \/ r \in Range(wk[s].todo)

LevelAt(s) == WalksAt(s) /\ ItemAt(s) /\ CoveredAt(s) /\ ParkedAt(s)

(* A snapshot names an item once. *)
SnapOnce ==
  \A t \in Waiters : \A i, j \in 1..Len(th[t].snap) :
    th[t].snap[i].s = th[t].snap[j].s => i = j

(* An open socket that is to be polled has a registered item. *)
Polled == call.st = "sent" /\ call.op = "poll" /\ sk[call.s].st = "open" => item[call.s].reg

(* What keeps readiness from being lost. *)
Level == SnapOnce /\ Polled /\ \A s \in Sockets : LevelAt(s)

(* A step of the worker of s, or on socket s: the others stay as they are,  *)
(* and only a request for s is answered.                                    *)
LocalTo(s) ==
  /\ th' = th
  /\ call' = call \/ (call.st = "sent" /\ call.s = s)
  /\ \A x \in Sockets : x # s => /\ item'[x] = item[x] /\ sk'[x] = sk[x] /\ wk'[x] = wk[x]
                                 /\ x \in Range(ready') <=> x \in Range(ready)

-----------------------------------------------------------------------------
(* The references to the epoll object.                                     *)

(* The items that have not been freed, the waiters that are in a call, and  *)
(* the reference of the descriptor, which the closing thread inherits.      *)
Alive == {s \in Sockets : item[s].refs > 0}
Busy == {t \in Waiters : th[t].pc # "idle"}
Opened == IF ep.open \/ th[Ctl].pc \in {"notify", "exit"} THEN 1 ELSE 0

(* They are what ep->refs counts; a closing thread finds the object open.   *)
Counts ==
  /\ ep.refs = Opened + Cardinality(Alive) + Cardinality(Busy)
  /\ th[Ctl].pc = "close" => ep.open

(* Items and waiters are finitely many: sets of them can be counted.       *)
Countable ==
  \A U \in {Sockets, Waiters} : \A S \in SUBSET U :
    /\ Cardinality(S) \in Nat
    /\ \A x \in U : x \notin S => Cardinality(S \cup {x}) = Cardinality(S) + 1
    /\ \A x \in S : Cardinality(S \ {x}) = Cardinality(S) - 1
    /\ \A R \in SUBSET S : /\ Cardinality(S \ R) = Cardinality(S) - Cardinality(R)
                           /\ Cardinality(R) \in Nat

=============================================================================
