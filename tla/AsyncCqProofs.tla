--------------------------- MODULE AsyncCqProofs ---------------------------
(***************************************************************************)
(* The theorems about AsyncCq, for any number of requests, workers and     *)
(* waiters: a completion is delivered once, a closed CQ owns nothing, what *)
(* it freed nobody uses, and no waiter is stranded in poll().  They rest   *)
(* on the inductive invariant Sound of AsyncCqInvariant.                   *)
(***************************************************************************)
EXTENDS AsyncCqSteps

USE Zenon, SMT

-----------------------------------------------------------------------------
(* The steps of async_wait() around poll() strand nobody. *)

(* wait_need becomes the least need of the waiters that stay on the list. *)
LEMMA NeedLeast ==
  ASSUME Sized, Types, Waits, NEW t \in Waiters, NEW p, NEW l, WtTo(t, p, wt[t].got, FALSE, l),
         cq'.buffered = NoStore, cq'.need = LeastNeed(Armed \ {t})
  PROVE  NeedOk'
<1>1. Armed \ {t} \subseteq Waiters /\ \A x \in Armed \ {t} : Missing(x) >= 1
  BY DEF Armed, Waits, WaiterOk
<1>2. \A x \in Armed \ {t} : cq'.need <= Missing(x)
  BY <1>1, LeastIs
<1>3. /\ \A x \in Waiters : x # t => wt'[x] = wt[x] /\ Missing(x)' = Missing(x)
      /\ ~ wt'[t].armed
  BY DEF WtTo, Missing
<1>4. ASSUME NEW x \in Waiters, wt'[x].armed PROVE cq'.need <= Missing(x)'
  <2>1. x # t /\ wt[x].armed /\ Missing(x)' = Missing(x)
    BY <1>3, <1>4
  <2>2. x \in Armed \ {t}
    BY <2>1 DEF Armed
  <2> QED BY <1>2, <2>1, <2>2
<1> QED BY <1>4 DEF NeedOk

(* complete_count is read again: enough, and the waiter pops; or it will    *)
(* sleep, and count is below its need.                                      *)
LEMMA RecheckWaits ==
  ASSUME Sized, Requests, Waits, NEW t \in Waiters, Recheck(t)
  PROVE  Waits'
<1> DEFINE u == wt[t]
<1>1. /\ Types /\ Mutex /\ UNCHANGED <<mtx, wk, cl>> /\ u.pc = "recheck" /\ cq.count \in Int
      /\ \A x \in Waiters : WaiterOk(x, wt[x])
  BY CqIs DEF Requests, Recheck, Waits
<1>2. /\ u.armed /\ u.armed = TRUE /\ Missing(t) >= 1 /\ mtx = t /\ Missing(t) \in Int
      /\ u.pc \notin {"relock", "clear", "remove", "renotify", "claim", "write"}
      /\ u.pc \notin {"write", "clear"}
  BY <1>1, WtIs, MissingIs DEF WaiterOk, Mutex, Inside
<1>3. CASE cq.count >= Missing(t)
  <2>1. /\ WtTo(t, "pop", u.got, FALSE, u.late)
        /\ CqTo(cq.open, cq.refs, cq.submit, cq.list, cq.count, LeastNeed(Armed \ {t}), NoStore,
                cq.pending, cq.efd)
    <3>1. ~ (cq.count < Missing(t))
      BY <1>1, <1>2, <1>3, SMT
    <3>2. /\ wt' = [wt EXCEPT ![t].pc = "pop", ![t].armed = FALSE]
          /\ cq' = [cq EXCEPT !.need = LeastNeed(Armed \ {t}), !.buffered = NoStore]
      BY <3>1 DEF Recheck
    <3>3. "pop" \in Stages /\ Armed \ {t} \subseteq Waiters /\ \A x \in Armed \ {t} : Missing(x) >= 1
      BY <1>1 DEF Stages, Armed, WaiterOk
    <3>4. LeastNeed(Armed \ {t}) \in 1..UINT_MAX
      BY <1>1, <3>3, LeastIs
    <3>5. NoStore \in 1..NoStore
      BY <1>1, MissingIs, SMT
    <3> QED BY <1>1, <3>2, <3>3, <3>4, <3>5, WtFields, CqFields
  <2>2. /\ cq'.efd = cq.efd /\ cq'.count = cq.count /\ cq'.pending = cq.pending
        /\ cq'.need = LeastNeed(Armed \ {t}) /\ cq'.buffered = NoStore
    BY <2>1 DEF CqTo
  <2>3. NeedOk'
    BY <1>1, <2>1, <2>2, NeedLeast
  <2>4. WaiterOk(t, wt[t])'
    BY <2>1, StillOk
  <2>5. /\ "pop" \notin {"unlock", "poll"} /\ cq'.count \in Int /\ cq'.count <= cq.count
    BY <1>1, <2>2, SMT
  <2> QED BY <1>1, <1>2, <2>1, <2>2, <2>3, <2>4, <2>5, PlainWait
<1>4. CASE ~ (cq.count >= Missing(t))
  <2>1. PICK l : l = (cq.buffered # NoStore)
    OBVIOUS
  <2>2. WtTo(t, "unlock", u.got, u.armed, l) /\ cq' = cq
    <3>1. wt' = [wt EXCEPT ![t].pc = "unlock", ![t].late = l] /\ cq' = cq
      BY <1>4, <2>1 DEF Recheck
    <3>2. "unlock" \in Stages /\ l \in BOOLEAN
      BY <2>1 DEF Stages
    <3> QED BY <1>1, <3>1, <3>2, WtFields
  <2>3. WaiterOk(t, wt[t])' /\ Missing(t)' = Missing(t)
    BY <1>2, <2>2, StillOk
  <2>4. /\ \A x \in Waiters : Missing(x)' = Missing(x) /\ wt'[x].armed = wt[x].armed
        /\ \A x \in Waiters : x # t => wt'[x] = wt[x]
        /\ wt'[t].pc = "unlock" /\ wt'[t].late = l
    <3>1. /\ \A x \in Waiters : x # t => wt'[x] = wt[x] /\ Missing(x)' = Missing(x)
          /\ wt'[t].pc = "unlock" /\ wt'[t].late = l /\ wt'[t].armed = wt[t].armed
      BY <2>2 DEF WtTo, Missing
    <3> QED BY <2>3, <3>1
  <2>5. NeedOk'
    <3>1. \A x \in Waiters : wt'[x].armed => cq'.need <= Missing(x)' \/ (mtx' = x /\ cq'.buffered # NoStore)
      BY <1>1, <2>2, <2>4 DEF Waits, NeedOk
    <3>2. cq'.buffered # NoStore =>
            /\ mtx' \in Waiters /\ wt'[mtx'].pc \in {"recheck", "unlock"}
            /\ cq'.buffered = Missing(mtx)' /\ cq'.buffered < cq'.need
      <4>1. /\ mtx' = t /\ wt'[mtx'].pc \in {"recheck", "unlock"} /\ Missing(mtx)' = Missing(mtx)
        BY <1>1, <1>2, <2>3, <2>4 DEF Missing
      <4>2. cq.buffered # NoStore => cq.buffered = Missing(mtx) /\ cq.buffered < cq.need
        BY DEF Waits, NeedOk
      <4> QED BY <2>2, <4>1, <4>2
    <3>3. \A x \in Waiters : wt'[x].pc = "unlock" /\ ~ wt'[x].late => cq'.buffered = NoStore
      BY <2>1, <2>2, <2>4 DEF Waits, NeedOk
    <3> QED BY <3>1, <3>2, <3>3 DEF NeedOk
  <2>6. cq'.count \in Int /\ cq'.count <= cq.count /\ ~ (cq'.count >= Missing(t)')
    BY <1>1, <1>4, <2>2, <2>3, SMT
  <2> QED BY <1>1, <1>2, <2>2, <2>3, <2>5, <2>6, PlainWait
<1> QED BY <1>3, <1>4

(* The waiter unlocks, and returns from ppoll(). *)
LEMMA UnlockWaits ==
  ASSUME Sized, Requests, Waits, NEW t \in Waiters, Unlock(t) \/ Poll(t)
  PROVE  Waits'
<1> DEFINE u == wt[t]
<1>1. /\ Types /\ Mutex /\ UNCHANGED <<wk, cl>> /\ u.pc \in {"unlock", "poll"} /\ cq.count \in Int
      /\ \A x \in Waiters : WaiterOk(x, wt[x])
  <2>1. u.pc \in {"unlock", "poll"} /\ UNCHANGED <<wk, cl>>
    BY DEF Unlock, Poll
  <2> QED BY <2>1, CqIs DEF Requests, Waits
<1>2. PICK g, a, l : g = u.got /\ a = u.armed /\ l = u.late
  OBVIOUS
<1>3. /\ a = TRUE /\ Missing(t) >= 1
      /\ u.pc \notin {"relock", "clear", "remove", "renotify", "claim", "write"}
      /\ u.pc \notin {"write", "clear"}
  BY <1>1, <1>2, WtIs DEF WaiterOk
<1>4. ASSUME NEW p \in {"poll", "relock"}, WtTo(t, p, u.got, u.armed, u.late), cq' = cq, NeedOk'
      PROVE  Waits'
  <2>1. WaiterOk(t, wt[t])'
    BY <1>2, <1>3, <1>4, StillOk
  <2>2. WtTo(t, p, g, a, l)
    BY <1>2, <1>4
  <2>3. /\ cq'.count \in Int /\ cq'.count <= cq.count
        /\ p \in {"unlock", "poll"} /\ ~ l => u.pc \in {"unlock", "poll"} /\ ~ u.late /\ g = u.got
    BY <1>1, <1>2, <1>4, SMT
  <2> QED BY <1>1, <1>3, <1>4, <2>1, <2>2, <2>3, PlainWait
<1>5. CASE Unlock(t)
  <2>1. WtTo(t, "poll", u.got, u.armed, u.late) /\ cq' = cq /\ cq.buffered = NoStore
    <3>1. WtTo(t, "poll", u.got, u.armed, u.late) /\ cq' = cq
      BY <1>1, <1>5, WaitIs
    <3> QED BY <1>5, <3>1 DEF Unlock
  <2>2. NeedOk'
    <3>1. WtTo(t, "poll", g, a, l) /\ (a => u.armed /\ g = u.got)
      BY <1>2, <2>1
    <3> QED BY <2>1, <3>1, NeedSteady
  <2>3. "poll" \in {"poll", "relock"}
    OBVIOUS
  <2> QED BY <1>4, <2>1, <2>2, <2>3
<1>6. CASE Poll(t)
  <2>1. WtTo(t, "relock", u.got, u.armed, u.late) /\ cq' = cq /\ mtx' = mtx /\ u.pc = "poll"
    <3>1. WtTo(t, "relock", u.got, u.armed, u.late) /\ cq' = cq
      BY <1>1, <1>6, WaitIs
    <3> QED BY <1>6, <3>1 DEF Poll
  <2>2. NeedOk'
    <3>1. u.pc \notin {"recheck", "unlock"} /\ "relock" \notin {"recheck", "unlock"}
      BY <2>1
    <3> QED BY <2>1, <3>1, NeedAside
  <2>3. "relock" \in {"poll", "relock"}
    OBVIOUS
  <2> QED BY <1>4, <2>1, <2>2, <2>3
<1> QED BY <1>5, <1>6

(* The waiter is back from ppoll(): it drains the eventfd and leaves the    *)
(* list, and is on its way to pass the wakeup on.                           *)
LEMMA RelockWaits ==
  ASSUME Sized, Requests, Waits, NEW t \in Waiters, Relock(t) \/ DrainClear(t) \/ Disarm(t)
  PROVE  Waits'
<1> DEFINE u == wt[t]
<1>1. /\ Types /\ Mutex /\ UNCHANGED <<wk, cl>> /\ cq.count \in Int
      /\ \A x \in Waiters : WaiterOk(x, wt[x])
  <2>1. UNCHANGED <<wk, cl>>
    BY DEF Relock, DrainClear, Disarm
  <2> QED BY <2>1, CqIs DEF Requests, Waits
<1>2. /\ u.pc \in {"relock", "clear", "remove"} /\ cq.buffered = NoStore
  <2>1. CASE Relock(t)
    <3>1. u.pc = "relock" /\ mtx = "free" /\ "free" \notin Waiters
      BY <2>1, CqAssumption DEF Relock
    <3> QED BY <1>1, <3>1, NoneBuffered
  <2>2. CASE DrainClear(t) \/ Disarm(t)
    <3>1. u.pc \in {"clear", "remove"}
      BY <2>2 DEF DrainClear, Disarm
    <3>2. u.pc \in Inside \ {"recheck", "unlock"}
      BY <3>1 DEF Inside
    <3> QED BY <1>1, <3>1, <3>2, NoneBuffered
  <2> QED BY <2>1, <2>2
<1>3. /\ u.armed /\ u.armed = TRUE /\ Missing(t) >= 1
  BY <1>1, <1>2, WtIs DEF WaiterOk
<1>4. ASSUME NEW p \in {"clear", "remove", "renotify"}, NEW a, NEW l, WtTo(t, p, u.got, a, l), NeedOk',
             a <=> p \in {"clear", "remove"},
             cq'.efd = cq.efd, cq'.count = cq.count, cq'.pending = cq.pending \/ cq'.pending = 0,
             u.pc = "clear" => cq'.pending = 0
      PROVE  Waits'
  <2>1. WaiterOk(t, wt[t])'
    BY <1>3, <1>4, StillOk
  <2>2. /\ cq'.count \in Int /\ cq'.count <= cq.count
        /\ p \notin {"unlock", "poll"} /\ p \in {"relock", "clear", "remove", "renotify", "claim", "write"}
        /\ u.pc \in {"write", "clear"} => cq'.pending = 0
    BY <1>1, <1>2, <1>4, SMT
  <2>3. PICK g : g = u.got
    OBVIOUS
  <2>4. WtTo(t, p, g, a, l)
    BY <1>4, <2>3
  <2> QED BY <1>1, <1>4, <2>1, <2>2, <2>4, PlainWait
<1>5. ASSUME NEW p \in {"clear", "remove"}, WtTo(t, p, u.got, u.armed, u.late),
             cq'.need = cq.need, cq'.buffered = cq.buffered
      PROVE  NeedOk'
  <2>1. PICK g, a, l : g = u.got /\ a = u.armed /\ l = u.late
    OBVIOUS
  <2>2. WtTo(t, p, g, a, l) /\ (a => u.armed /\ g = u.got)
    BY <1>5, <2>1
  <2> QED BY <1>2, <1>5, <2>2, NeedSteady
<1>6. CASE Relock(t)
  <2>1. \/ /\ WtTo(t, "clear", u.got, u.armed, u.late)
           /\ CqTo(cq.open, cq.refs, cq.submit, cq.list, cq.count, cq.need, cq.buffered,
                   cq.pending, 0)
        \/ WtTo(t, "remove", u.got, u.armed, u.late) /\ cq' = cq
    BY <1>1, <1>6, WaitIs
  <2>2. u.pc = "relock" /\ "clear" \in {"clear", "remove"} /\ "remove" \in {"clear", "remove"}
        /\ u.pc # "clear" /\ "remove" \in {"clear", "remove", "renotify"}
    BY <1>6 DEF Relock
  <2>3. CASE WtTo(t, "remove", u.got, u.armed, u.late) /\ cq' = cq
    <3>1. NeedOk'
      BY <1>5, <2>2, <2>3
    <3> QED BY <1>3, <1>4, <2>2, <2>3, <3>1
  <2>4. CASE /\ WtTo(t, "clear", u.got, u.armed, u.late)
             /\ CqTo(cq.open, cq.refs, cq.submit, cq.list, cq.count, cq.need, cq.buffered,
                     cq.pending, 0)
    <3>1. cq'.need = cq.need /\ cq'.buffered = cq.buffered
      BY <2>4 DEF CqTo
    <3>2. NeedOk'
      BY <1>5, <2>2, <2>4, <3>1
    <3>3. WaiterOk(t, wt[t])'
      BY <1>3, <2>4, StillOk
    <3>4. wt'[t].pc = "clear"
      BY <2>4 DEF WtTo
    <3>5. PendingOk' /\ \A n : Hope(n)'
      BY <3>4 DEF PendingOk, Hope
    <3> QED BY <2>4, <3>2, <3>3, <3>5, LoudWait
  <2> QED BY <2>1, <2>3, <2>4
<1>7. CASE DrainClear(t)
  <2>1. /\ WtTo(t, "remove", u.got, u.armed, u.late)
        /\ cq'.need = cq.need /\ cq'.buffered = cq.buffered /\ cq'.efd = cq.efd
        /\ cq'.count = cq.count /\ cq'.pending = 0
    BY <1>1, <1>7, WaitIs DEF CqTo
  <2>2. "remove" \in {"clear", "remove"} /\ "remove" \in {"clear", "remove", "renotify"}
    OBVIOUS
  <2>3. NeedOk'
    BY <1>5, <2>1, <2>2
  <2> QED BY <1>3, <1>4, <2>1, <2>2, <2>3
<1>8. CASE Disarm(t)
  <2>1. /\ WtTo(t, "renotify", u.got, FALSE, FALSE)
        /\ cq'.need = LeastNeed(Armed \ {t}) /\ cq'.buffered = cq.buffered /\ cq'.efd = cq.efd
        /\ cq'.count = cq.count /\ cq'.pending = cq.pending
    BY <1>1, <1>8, WaitIs DEF CqTo
  <2>2. /\ "renotify" \in {"clear", "remove", "renotify"} /\ "renotify" \notin {"clear", "remove"}
        /\ u.pc # "clear"
    BY <1>8 DEF Disarm
  <2>3. NeedOk'
    BY <1>1, <1>2, <2>1, NeedLeast
  <2> QED BY <1>4, <2>1, <2>2, <2>3
<1> QED BY <1>6, <1>7, <1>8

(* async_notify_ready_waiters(): the eventfd is written, or pending is set, *)
(* or no waiter can run.                                                    *)
LEMMA ReadyWaits ==
  ASSUME Sized, Requests, Waits, NEW t \in Waiters, NotifyReady(t) \/ ReadyClaim(t) \/ ReadyWrite(t)
  PROVE  Waits'
<1> DEFINE u == wt[t]
<1>1. /\ Types /\ Mutex /\ UNCHANGED <<wk, cl>> /\ cq.count \in Int
      /\ \A x \in Waiters : WaiterOk(x, wt[x])
  <2>1. UNCHANGED <<wk, cl>>
    BY DEF NotifyReady, ReadyClaim, ReadyWrite
  <2> QED BY <2>1, CqIs DEF Requests, Waits
<1>2. u.pc \in {"renotify", "claim", "write"}
  BY DEF NotifyReady, ReadyClaim, ReadyWrite
<1>3. /\ ~ u.armed /\ u.armed = FALSE /\ u.pc \in Inside \ {"recheck", "unlock"}
  BY <1>1, <1>2, WtIs DEF WaiterOk, Inside
<1>4. cq.buffered = NoStore
  BY <1>1, <1>3, NoneBuffered
<1>5. ASSUME NEW p \in {"claim", "write", "after"}, WtTo(t, p, u.got, u.armed, u.late),
             cq'.need = cq.need, cq'.buffered = cq.buffered
      PROVE  NeedOk' /\ WaiterOk(t, wt[t])'
  <2>1. PICK g, a, l : g = u.got /\ a = u.armed /\ l = u.late
    OBVIOUS
  <2>2. WtTo(t, p, g, a, l) /\ ~ a
    BY <1>3, <1>5, <2>1
  <2>3. NeedOk'
    BY <1>4, <1>5, <2>2, NeedSteady
  <2>4. WaiterOk(t, wt[t])'
    <3>1. wt'[t].pc = p /\ ~ wt'[t].armed
      BY <2>2 DEF WtTo
    <3>2. p \notin {"recheck", "unlock", "poll", "relock", "clear", "remove"}
      BY <1>5
    <3> QED BY <3>1, <3>2 DEF WaiterOk
  <2> QED BY <2>3, <2>4
<1>6. "claim" \in {"claim", "write", "after"} /\ "write" \in {"claim", "write", "after"}
      /\ "after" \in {"claim", "write", "after"}
  OBVIOUS
<1>7. CASE NotifyReady(t)
  <2>1. /\ cq' = cq
        /\ \/ /\ WtTo(t, "claim", u.got, u.armed, u.late)
              /\ cq.need # UINT_MAX /\ cq.count >= cq.need
           \/ /\ WtTo(t, "after", u.got, u.armed, u.late)
              /\ ~ (cq.need # UINT_MAX /\ cq.count >= cq.need)
    BY <1>1, <1>7, ReadyIs
  <2>2. u.pc = "renotify" /\ u.pc \notin {"write", "clear"}
        /\ "claim" \in {"relock", "clear", "remove", "renotify", "claim", "write"}
        /\ "claim" \notin {"unlock", "poll"} /\ cq'.count \in Int /\ cq'.count <= cq.count
    BY <1>1, <1>7, <2>1, SMT DEF NotifyReady
  <2>3. CASE WtTo(t, "claim", u.got, u.armed, u.late)
    <3>1. NeedOk' /\ WaiterOk(t, wt[t])'
      BY <1>5, <1>6, <2>1, <2>3
    <3>2. PICK g, a, l : g = u.got /\ a = u.armed /\ l = u.late
      OBVIOUS
    <3>3. WtTo(t, "claim", g, a, l)
      BY <2>3, <3>2
    <3> QED BY <1>1, <2>1, <2>2, <3>1, <3>3, PlainWait
  <2>4. CASE /\ WtTo(t, "after", u.got, u.armed, u.late)
             /\ ~ (cq.need # UINT_MAX /\ cq.count >= cq.need)
    <3>1. NeedOk' /\ WaiterOk(t, wt[t])'
      BY <1>5, <1>6, <2>1, <2>4
    <3>2. /\ \A x \in Waiters : x # t => wt'[x] = wt[x] /\ Missing(x)' = Missing(x)
          /\ wt'[t].pc = "after"
      BY <2>4 DEF WtTo, Missing
    <3>3. PendingOk'
      BY <1>1, <2>1, <2>2, <3>2 DEF Waits, PendingOk
    <3>4. WakeOk'
      <4> SUFFICES ASSUME NEW x \in Waiters, wt'[x].pc \in {"unlock", "poll"}, ~ wt'[x].late,
                          cq'.count >= Missing(x)'
                   PROVE  FALSE
        BY DEF WakeOk
      <4>1. x # t
        BY <3>2
      <4>2. wt[x].pc \in {"unlock", "poll"} /\ ~ wt[x].late /\ cq.count >= Missing(x)
        BY <2>1, <3>2, <4>1
      <4>3. /\ cq.need <= Missing(x) /\ cq.need # UINT_MAX /\ cq.need \in Int /\ Missing(x) \in Int
        BY <1>1, <4>2, AskedIs
      <4>4. cq.count >= cq.need
        BY <1>1, <4>2, <4>3, SMT
      <4> QED BY <2>4, <4>3, <4>4
    <3> QED BY <2>4, <3>1, <3>3, <3>4, LoudWait
  <2> QED BY <2>1, <2>3, <2>4
<1>8. CASE ReadyClaim(t)
  <2>1. /\ cq'.need = cq.need /\ cq'.buffered = cq.buffered /\ cq'.efd = cq.efd
        /\ \/ WtTo(t, "write", u.got, u.armed, u.late) /\ cq.pending = 0
           \/ WtTo(t, "after", u.got, u.armed, u.late) /\ cq.pending # 0
    BY <1>1, <1>8, ReadyIs DEF CqTo
  <2>2. CASE WtTo(t, "write", u.got, u.armed, u.late)
    <3>1. NeedOk' /\ WaiterOk(t, wt[t])'
      BY <1>5, <1>6, <2>1, <2>2
    <3>2. wt'[t].pc = "write"
      BY <2>2 DEF WtTo
    <3>3. PendingOk' /\ \A n : Hope(n)'
      BY <3>2 DEF PendingOk, Hope
    <3> QED BY <2>2, <3>1, <3>3, LoudWait
  <2>3. CASE WtTo(t, "after", u.got, u.armed, u.late) /\ cq.pending # 0
    <3>1. NeedOk' /\ WaiterOk(t, wt[t])'
      BY <1>5, <1>6, <2>1, <2>3
    <3>2. cq.pending = 1 /\ u.pc = "claim" /\ u.pc \notin {"write", "clear"}
      BY <1>1, <1>8, <2>3, CqIs DEF ReadyClaim
    <3>3. \A x \in Waiters : x # t => wt'[x] = wt[x]
      BY <2>3 DEF WtTo
    <3>4. \/ cq'.efd > 0 \/ cl'.pc = "write"
          \/ \E w \in Workers : wk'[w].pc = "write"
          \/ \E x \in Waiters : wt'[x].pc \in {"write", "clear"}
      BY <1>1, <2>1, <3>2, <3>3 DEF Waits, PendingOk
    <3>5. PendingOk' /\ \A n : Hope(n)'
      BY <3>4 DEF PendingOk, Hope
    <3> QED BY <2>3, <3>1, <3>5, LoudWait
  <2> QED BY <2>1, <2>2, <2>3
<1>9. CASE ReadyWrite(t)
  <2>1. /\ cq'.need = cq.need /\ cq'.buffered = cq.buffered /\ cq'.efd = cq.efd + 1
        /\ WtTo(t, "after", u.got, u.armed, u.late)
    BY <1>1, <1>9, ReadyIs DEF CqTo
  <2>2. NeedOk' /\ WaiterOk(t, wt[t])'
    BY <1>5, <1>6, <2>1
  <2>3. cq'.efd > 0
    BY <1>1, <2>1, CqIs, SMT
  <2>4. PendingOk' /\ \A n : Hope(n)'
    BY <2>3 DEF PendingOk, Hope
  <2> QED BY <2>1, <2>2, <2>4, LoudWait
<1> QED BY <1>7, <1>8, <1>9

(* The store of wait_need becomes visible: it is what the waiter that holds *)
(* the mutex misses, and lower than what was there.                         *)
LEMMA FlushWaits ==
  ASSUME Sized, Requests, Waits, Flush
  PROVE  Waits'
<1>1. Types /\ cq.buffered # NoStore /\ UNCHANGED <<mtx, wk, wt, cl>>
  BY DEF Requests, Flush
<1>2. /\ cq'.count = cq.count /\ cq'.need = cq.buffered /\ cq'.buffered = NoStore
      /\ cq'.pending = cq.pending /\ cq'.efd = cq.efd
  BY <1>1, FlushIs DEF CqTo
<1>3. mtx \in Waiters /\ cq.buffered = Missing(mtx) /\ cq.buffered < cq.need
  BY <1>1 DEF Waits, NeedOk
<1>4. \A t \in Waiters : Missing(t)' = Missing(t)
  BY <1>1 DEF Missing
<1>5. ASSUME NEW t \in Waiters, wt[t].armed PROVE cq.buffered <= Missing(t)
  <2>1. Missing(t) \in Int /\ cq.need \in Int /\ cq.buffered \in Int
    BY <1>1, MissingIs, CqIs, SMT
  <2>2. cq.need <= Missing(t) \/ mtx = t
    BY <1>5 DEF Waits, NeedOk
  <2>3. CASE cq.need <= Missing(t)
    BY <1>3, <2>1, <2>3, SMT
  <2>4. CASE mtx = t
    <3>1. cq.buffered = Missing(t)
      BY <1>3, <2>4
    <3> QED BY <2>1, <3>1, SMT
  <2> QED BY <2>2, <2>3, <2>4
<1>6. NeedOk'
  <2>1. \A t \in Waiters : wt'[t].armed => cq'.need <= Missing(t)'
    BY <1>1, <1>2, <1>4, <1>5
  <2> QED BY <1>2, <2>1 DEF NeedOk
<1>7. PendingOk'
  BY <1>1, <1>2 DEF Waits, PendingOk
<1>8. WakeOk'
  <2>1. \A n : Hope(n)' <=> Hope(n)
    BY <1>1, <1>2 DEF Hope
  <2>2. ASSUME NEW t \in Waiters, wt'[t].pc \in {"unlock", "poll"}, ~ wt'[t].late,
               cq'.count >= Missing(t)'
        PROVE  Hope(Missing(t))'
    <3>1. PICK n : n = Missing(t)
      OBVIOUS
    <3>2. Missing(t)' = n
      BY <1>4, <3>1
    <3>3. Hope(n)
      BY <1>1, <1>2, <2>2, <3>1, <3>2 DEF Waits, WakeOk
    <3>4. Hope(n)'
      BY <2>1, <3>3
    <3> QED BY <3>2, <3>4
  <2> QED BY <2>2 DEF WakeOk
<1>9. \A t \in Waiters : WaiterOk(t, wt[t])'
  BY <1>1, <1>4 DEF Waits, WaiterOk
<1> QED BY <1>6, <1>7, <1>8, <1>9 DEF Waits

(* A quiet step, and one of the close that is not the wakeup.               *)
LEMMA QuietSteps ==
  ASSUME Sized, Requests, Counts, Waits,
         \/ \E r \in Reqs : Submit(r)
         \/ \E w \in Workers : \/ Take(w) \/ MigratePush(w) \/ CancelNext(w) \/ CancelEnd(w)
                               \/ NotifyDone(w) \/ \E r \in Reqs : Resume(w, r)
         \/ CloseVisit
  PROVE  Counts' /\ Waits'
<1>1. Types /\ Quiet
  BY QuietIs DEF Requests
<1>2. /\ UNCHANGED <<wt, mtx>> /\ cq'.list = cq.list /\ cq'.count = cq.count /\ cq'.refs = cq.refs
      /\ cq'.need = cq.need /\ cq'.buffered = cq.buffered /\ cq'.pending = cq.pending
      /\ cq'.efd = cq.efd
  <2>1. CASE \E r \in Reqs : Submit(r)
    <3>1. PICK r \in Reqs : cq' = [cq EXCEPT !.submit = cq.submit \cup {r}] /\ UNCHANGED <<wt, mtx>>
      BY <2>1 DEF Submit
    <3>2. cq \in CqRecs
      BY <1>1, CqIs
    <3> QED BY <3>1, <3>2 DEF CqRecs
  <2>2. CASE CloseVisit
    BY <2>2 DEF CloseVisit
  <2>3. ASSUME NEW w \in Workers,
               \/ Take(w) \/ MigratePush(w) \/ CancelNext(w) \/ CancelEnd(w)
               \/ NotifyDone(w) \/ \E r \in Reqs : Resume(w, r)
        PROVE  UNCHANGED <<cq, wt, mtx>>
    BY <2>3 DEF Take, TakeRequest, TakeCancel, MigratePush, CancelNext, CancelEnd, NotifyDone, Resume
  <2> QED BY <2>1, <2>2, <2>3
<1>3. (cl'.pc = "closed" <=> cl.pc = "closed") /\ (cl'.pc = "write" <=> cl.pc = "write")
  <2>1. CASE CloseVisit
    <3>1. cl.pc = "visit" /\ cl' = [cl EXCEPT !.pc = "visiting"] /\ cl \in ClRecs
      BY <1>1, <2>1 DEF CloseVisit, Types
    <3> QED BY <3>1 DEF ClRecs
  <2>2. ASSUME NEW w \in Workers, CancelEnd(w)
        PROVE  cl.pc = "visiting" /\ cl'.pc \in {"visit", "check"}
    <3>1. wk[w].todo # {} /\ cl \in ClRecs
      BY <1>1, <2>2 DEF CancelEnd, Types
    <3>2. cl.pc = "visiting"
      BY <3>1 DEF Requests, Walks, WalkOk
    <3>3. cl' = [pc |-> "visit", visit |-> cl.visit + 1] \/ cl' = [cl EXCEPT !.pc = "check"]
      BY <2>2 DEF CancelEnd
    <3> QED BY <3>1, <3>2, <3>3, SMT DEF ClRecs
  <2>3. CASE \E w \in Workers : CancelEnd(w)
    BY <2>2, <2>3
  <2>4. CASE \E r \in Reqs : Submit(r)
    BY <2>4 DEF Submit
  <2>5. ASSUME NEW w \in Workers,
               \/ Take(w) \/ MigratePush(w) \/ CancelNext(w)
               \/ NotifyDone(w) \/ \E r \in Reqs : Resume(w, r)
        PROVE  UNCHANGED cl
    BY <2>5 DEF Take, TakeRequest, TakeCancel, MigratePush, CancelNext, NotifyDone, Resume
  <2> QED BY <2>1, <2>3, <2>4, <2>5
<1>4. cq'.count \in Int /\ cq'.count <= cq.count
  BY <1>1, <1>2, CqIs, SMT
<1>5. Counts'
  BY <1>1, <1>2, <1>3, QuietCounts
<1>6. Waits'
  BY <1>1, <1>2, <1>3, <1>4, QuietWaits
<1> QED BY <1>5, <1>6

(* The steps of the close that leave the workers and the waiters alone. *)
LEMMA CloseSteps ==
  ASSUME Sized, Requests, Counts, Waits, CloseBegin \/ CloseCheck \/ CloseFree \/ CloseFreeEnd \/ CloseDestroy
  PROVE  Waits'
<1>1. Types /\ Mutex /\ cl \in ClRecs /\ "free" \notin Waiters /\ "closer" \notin Waiters
      /\ cq \in CqRecs /\ cq.count \in Int /\ cq.refs \in Int
  BY CqIs, CqAssumption DEF Requests, Types
<1>2. UNCHANGED <<wk, wt>>
  BY DEF CloseBegin, CloseCheck, CloseFree, CloseFreeEnd, CloseDestroy
<1>3. Quiet
  BY <1>2 DEF Quiet
<1>4. cl'.pc = "write" <=> cl.pc = "write"
  <2>1. CASE CloseBegin
    BY <1>1, <2>1 DEF CloseBegin, ClRecs
  <2>2. CASE CloseCheck
    BY <1>1, <2>2 DEF CloseCheck, ClRecs
  <2>3. CASE CloseFree
    BY <2>3 DEF CloseFree
  <2>4. CASE CloseFreeEnd
    BY <1>1, <2>4 DEF CloseFreeEnd, ClRecs
  <2>5. CASE CloseDestroy
    BY <1>1, <2>5 DEF CloseDestroy, ClRecs
  <2> QED BY <2>1, <2>2, <2>3, <2>4, <2>5
<1>5. mtx' = mtx \/ (mtx \notin Waiters /\ mtx' \notin Waiters)
  <2>1. CASE CloseBegin
    BY <1>1, <2>1 DEF CloseBegin
  <2>2. CASE CloseDestroy
    <3>1. cl.pc = "assert" /\ mtx' = "free"
      BY <2>2 DEF CloseDestroy
    <3>2. mtx = "closer"
      BY <1>1, <3>1 DEF Mutex
    <3> QED BY <1>1, <3>1, <3>2
  <2>3. CASE CloseCheck \/ CloseFree \/ CloseFreeEnd
    BY <2>3 DEF CloseCheck, CloseFree, CloseFreeEnd
  <2> QED BY <2>1, <2>2, <2>3
<1>6. /\ cq'.need = cq.need /\ cq'.buffered = cq.buffered /\ cq'.pending = cq.pending
      /\ cq'.efd = cq.efd /\ cq'.count \in Int /\ cq'.count <= cq.count
  <2>1. CASE CloseFree
    <3>1. cq.list # <<>> /\ cq' = CqPop
      BY <2>1 DEF CloseFree
    <3>2. CqTo(cq.open, cq.refs, cq.submit \ {Head(cq.list)}, Tail(cq.list), cq.count - 1,
               cq.need, cq.buffered, cq.pending, cq.efd)
      BY <1>1, <3>1, PopIs
    <3>3. /\ cq'.need = cq.need /\ cq'.buffered = cq.buffered /\ cq'.pending = cq.pending
          /\ cq'.efd = cq.efd /\ cq'.count = cq.count - 1
      BY <3>2 DEF CqTo
    <3> QED BY <1>1, <3>3, SMT
  <2>2. CASE CloseCheck \/ CloseFreeEnd
    <3>1. cq' = cq
      BY <2>2 DEF CloseCheck, CloseFreeEnd
    <3> QED BY <1>1, <3>1, SMT
  <2>3. CASE CloseBegin \/ CloseDestroy
    <3>1. cq' = [cq EXCEPT !.open = FALSE] \/ cq' = [cq EXCEPT !.refs = cq.refs - 1]
      BY <2>3 DEF CloseBegin, CloseDestroy
    <3>2. /\ cq'.need = cq.need /\ cq'.buffered = cq.buffered /\ cq'.pending = cq.pending
          /\ cq'.efd = cq.efd /\ cq'.count = cq.count
      BY <1>1, <3>1 DEF CqRecs
    <3> QED BY <1>1, <3>2, SMT
  <2> QED BY <2>1, <2>2, <2>3
<1> QED BY <1>1, <1>2, <1>3, <1>4, <1>5, <1>6, QuietWaits

(* A CQ that was just created, with idle workers, is sound. *)
LEMMA FirstSound ==
  ASSUME Sized, Init
  PROVE  Sound
<1>0. /\ NumWorkers \in Nat \ {0} /\ 1 \in Workers /\ UINT_MAX \in 1..UINT_MAX /\ NoStore \in 1..NoStore
      /\ 0 \in 0..NumWorkers /\ "free" \notin Waiters
      /\ \A w \in Workers : w # 0
  <2>1. UINT_MAX \in Nat /\ UINT_MAX >= 1 /\ NoStore \in 1..NoStore
    BY NumbersAre
  <2> QED BY <2>1, CqAssumption, SMT DEF Workers
<1>1. /\ mtx = "free" /\ cl = [pc |-> "open", visit |-> 1]
      /\ cq = [open |-> TRUE, refs |-> 1, submit |-> {}, list |-> <<>>, count |-> 0,
               need |-> UINT_MAX, buffered |-> NoStore, pending |-> 0, efd |-> 0]
  BY DEF Init
<1>2. /\ cl.pc = "open" /\ cl.visit = 1 /\ cq.open = TRUE /\ cq.refs = 1 /\ cq.submit = {}
      /\ cq.list = <<>> /\ cq.count = 0 /\ cq.need = UINT_MAX /\ cq.buffered = NoStore
      /\ cq.pending = 0 /\ cq.efd = 0
  BY <1>1
<1>3. \A r \in Reqs : /\ req[r].worker = 0 /\ req[r].done = FALSE /\ req[r].parked = FALSE
                      /\ req[r].moved = FALSE /\ req[r].freed = FALSE
  BY DEF Init
<1>4. \A w \in Workers : /\ wk[w].inbox = <<>> /\ wk[w].pc = "idle" /\ wk[w].cur = Cancel
                         /\ wk[w].queued = 0 /\ wk[w].todo = {}
  BY DEF Init
<1>5. \A t \in Waiters : /\ wt[t].pc = "call" /\ wt[t].got = {} /\ wt[t].armed = FALSE
                         /\ wt[t].late = FALSE
  BY DEF Init, NewWaiter
<1>6. Types
  <2>1. cq \in CqRecs
    <3>1. /\ TRUE \in BOOLEAN /\ 1 \in Int /\ {} \in SUBSET Reqs /\ <<>> \in Seq(Reqs) /\ 0 \in Int
          /\ 0 \in {0, 1} /\ 0 \in Nat
      BY SMT
    <3> QED BY <1>0, <1>1, <3>1 DEF CqRecs
  <2>2. req \in [Reqs -> ReqRecs]
    <3>1. [worker |-> 0, done |-> FALSE, parked |-> FALSE, moved |-> FALSE, freed |-> FALSE] \in ReqRecs
      BY <1>0 DEF ReqRecs
    <3> QED BY <3>1 DEF Init
  <2>3. wk \in [Workers -> WkRecs]
    <3>1. [inbox |-> <<>>, pc |-> "idle", cur |-> Cancel, queued |-> 0, todo |-> {}] \in WkRecs
      BY SMT DEF WkRecs, Places
    <3> QED BY <3>1 DEF Init
  <2>4. wt \in [Waiters -> WtRecs]
    <3>1. NewWaiter \in WtRecs
      BY DEF NewWaiter, WtRecs, Stages, Polls
    <3> QED BY <3>1 DEF Init
  <2>5. cl \in ClRecs /\ mtx \in Waiters \cup {"free", "closer"}
    BY <1>0, <1>1 DEF ClRecs, Phases
  <2> QED BY <2>1, <2>2, <2>3, <2>4, <2>5 DEF Types
<1>7. Mutex
  <2>1. \A t \in Waiters : wt[t].pc \notin Inside
    BY <1>5 DEF Inside
  <2> QED BY <1>2, <2>1 DEF Mutex
<1>8. \A w \in Workers : /\ Range(wk[w].inbox) = {} /\ wk[w].pc \notin Notifying
                         /\ wk[w].pc \notin {"migrate", "cancel", "push", "count"}
  BY <1>4, SMT DEF Range, Notifying
<1>9. Walks
  <2> SUFFICES ASSUME NEW w \in Workers PROVE WalkOk(w, wk[w])
    BY DEF Walks
  <2>1. IsInjective(wk[w].inbox)
    <3>1. wk[w].inbox = <<>> /\ DOMAIN wk[w].inbox = {}
      BY <1>4, SMT
    <3> QED BY <3>1 DEF IsInjective
  <2>2. wk[w].todo = {} /\ Cancel \notin Range(wk[w].inbox) /\ wk[w].pc # "cancel"
        /\ wk[w].pc \notin Notifying \cup {"migrate"}
    BY <1>4, <1>8
  <2> QED BY <2>1, <2>2 DEF WalkOk
<1>10. InPlace
  <2> SUFFICES ASSUME NEW w \in Workers, NEW r \in Reqs PROVE At(w, r)
    BY DEF InPlace
  <2>1. r \notin Range(wk[w].inbox) /\ wk[w].pc \notin Notifying /\ wk[w].pc # "migrate"
    BY <1>8
  <2> QED BY <2>1 DEF At, InboxOk, NotifyOk, MigrateOk
<1>11. Swept
  <2> SUFFICES ASSUME NEW w \in Workers, NEW r \in Reqs PROVE SweptAt(w, r)
    BY DEF Swept
  <2>1. req[r].worker # w
    BY <1>0, <1>3
  <2> QED BY <2>1 DEF SweptAt, SweptOk
<1>12. Owned
  <2> SUFFICES ASSUME NEW r \in Reqs PROVE OwnedAt(r)
    BY DEF Owned
  <2>1. ~ Handed(r) /\ ~ Completing(r) /\ \A t \in Waiters : ~ Gets(t, r)
    BY <1>3, <1>4, <1>5 DEF Handed, Completing, Gets
  <2>2. r \notin Range(cq.list) /\ r \notin cq.submit
    BY <1>2, SMT DEF Range
  <2>3. ReqOk(r, req[r])
    BY <1>3, <2>2 DEF ReqOk
  <2>4. OnceOk(r, req[r])
    BY <1>3, <2>1, <2>2 DEF OnceOk
  <2> QED BY <2>3, <2>4 DEF OwnedAt
<1>13. Closed
  BY <1>2 DEF Closed
<1>14. Counts
  <2>1. Pushers = {} /\ Inmates = {}
    BY <1>4, <1>5 DEF Pushers, Inmates
  <2>2. Cardinality(Pushers) = 0 /\ Cardinality(Inmates) = 0
    BY <2>1 DEF Sized
  <2>3. IsInjective(cq.list)
    <3>1. DOMAIN cq.list = {}
      BY <1>2, SMT
    <3> QED BY <3>1 DEF IsInjective
  <2>4. cq.count = Len(cq.list) + 0 /\ cq.refs = 1 + 0 /\ cl.pc # "closed"
    BY <1>2, SMT
  <2> QED BY <2>2, <2>3, <2>4 DEF Counts
<1>15. Waits
  <2>1. \A t \in Waiters : WaiterOk(t, wt[t])
    BY <1>5 DEF WaiterOk
  <2>2. NeedOk
    BY <1>2, <1>5 DEF NeedOk
  <2>3. PendingOk
    BY <1>2, SMT DEF PendingOk
  <2>4. WakeOk
    BY <1>5 DEF WakeOk
  <2> QED BY <2>1, <2>2, <2>3, <2>4 DEF Waits
<1> QED BY <1>6, <1>7, <1>9, <1>10, <1>11, <1>12, <1>13, <1>14, <1>15 DEF Sound, Requests

(* A worker's step keeps the invariant. *)
LEMMA WorkerSound ==
  ASSUME Sized, Sound, NEW w \in Workers, Take(w) \/ Continue(w) \/ \E r \in Reqs : Resume(w, r)
  PROVE  Sound'
<1>1. Requests /\ Counts /\ Waits /\ cq.count \in Nat
  <2>1. Requests /\ Counts /\ Waits /\ Types
    BY DEF Sound, Requests
  <2> QED BY <2>1, CountIs
<1>2. CASE Take(w)
  BY <1>1, <1>2, TakeRequestKeeps, TakeCancelKeeps, QuietSteps DEF Sound, Take
<1>3. CASE \E r \in Reqs : Resume(w, r)
  BY <1>1, <1>3, ResumeKeeps, QuietSteps DEF Sound
<1>4. CASE MigratePush(w)
  BY <1>1, <1>4, MigratePushKeeps, QuietSteps DEF Sound
<1>5. CASE CancelNext(w)
  BY <1>1, <1>5, CancelNextKeeps, QuietSteps DEF Sound
<1>6. CASE CancelEnd(w)
  BY <1>1, <1>6, CancelEndKeeps, QuietSteps DEF Sound
<1>7. CASE NotifyDone(w)
  BY <1>1, <1>7, NotifyDoneKeeps, QuietSteps DEF Sound
<1>8. CASE NotifyCount(w) \/ NotifyPush(w) \/ NotifyNeed(w) \/ NotifyClaim(w) \/ NotifyWrite(w)
  BY <1>1, <1>8, NotifyStepKeeps, NotifyCounts, NotifyWaits DEF Sound
<1> QED BY <1>2, <1>3, <1>4, <1>5, <1>6, <1>7, <1>8 DEF Continue

(* A waiter's step keeps the invariant. *)
LEMMA WaiterSound ==
  ASSUME Sized, Sound, NEW t \in Waiters, Call(t) \/ Expire(t) \/ Wait(t)
  PROVE  Sound'
<1>1. /\ Requests /\ Counts /\ Waits /\ Types /\ IsInjective(cq.list)
      /\ \A u \in Waiters : WaiterOk(u, wt[u])
  BY DEF Sound, Requests, Counts, Waits
<1>2. CASE PopOne(t)
  <2>1. Requests'
    BY <1>1, <1>2, PopOneKeeps
  <2>2. Waits'
    BY <1>1, <1>2, PopWaits
  <2>3. /\ cq.list # <<>> /\ cq' = CqPop /\ UNCHANGED <<wk, cl>>
    BY <1>2 DEF PopOne
  <2>4. \A u \in Waiters : wt'[u].pc = wt[u].pc
    <3>1. wt \in [Waiters -> WtRecs] /\ wt[t] \in WtRecs
      BY <1>1, WtIs DEF Types
    <3>2. PICK g : wt' = [wt EXCEPT ![t].got = g]
      BY <1>2 DEF PopOne
    <3>3. wt'[t] = [wt[t] EXCEPT !.got = g] /\ \A u \in Waiters : u # t => wt'[u] = wt[u]
      BY <3>1, <3>2
    <3>4. wt'[t].pc = wt[t].pc
      BY <3>1, <3>3 DEF WtRecs
    <3> QED BY <3>3, <3>4
  <2>5. Counts'
    BY <1>1, <2>3, <2>4, PopCounts
  <2> QED BY <2>1, <2>2, <2>5 DEF Sound
<1>3. CASE ~ PopOne(t)
  <2>1. \/ Call(t) \/ Expire(t) \/ Finish(t) \/ Arm(t) \/ Recheck(t) \/ Unlock(t) \/ Poll(t)
        \/ Relock(t) \/ DrainClear(t) \/ Disarm(t) \/ NotifyReady(t) \/ ReadyClaim(t)
        \/ ReadyWrite(t) \/ After(t)
    BY <1>3 DEF Wait
  <2>2. Requests'
    BY <1>1, <2>1, WaitKeeps
  <2>3. Counts'
    BY <1>1, <2>1, WaitCounts
  <2>4. Waits'
    <3>1. CASE Call(t) \/ Expire(t) \/ Finish(t) \/ After(t) \/ Arm(t)
      BY <1>1, <3>1, CallWaits, LeaveWaits, ArmWaits
    <3>2. CASE Recheck(t) \/ Unlock(t) \/ Poll(t)
      BY <1>1, <3>2, RecheckWaits, UnlockWaits
    <3>3. CASE Relock(t) \/ DrainClear(t) \/ Disarm(t)
      BY <1>1, <3>3, RelockWaits
    <3>4. CASE NotifyReady(t) \/ ReadyClaim(t) \/ ReadyWrite(t)
      BY <1>1, <3>4, ReadyWaits
    <3> QED BY <2>1, <3>1, <3>2, <3>3, <3>4
  <2> QED BY <2>2, <2>3, <2>4 DEF Sound
<1> QED BY <1>2, <1>3

(* A step of the close keeps the invariant. *)
LEMMA CloserSound ==
  ASSUME Sized, Sound, CloseBegin \/ Close
  PROVE  Sound'
<1>1. Requests /\ Counts /\ Waits /\ Types /\ IsInjective(cq.list)
  BY DEF Sound, Requests, Counts
<1>2. CASE CloseBegin
  BY <1>1, <1>2, CloseBeginKeeps, CloseCounts, CloseSteps DEF Sound
<1>3. CASE CloseClaim \/ CloseWrite
  BY <1>1, <1>3, CloseBeginKeeps, CloseCounts, CloseWaits DEF Sound
<1>4. CASE CloseVisit
  BY <1>1, <1>4, CloseVisitKeeps, QuietSteps DEF Sound
<1>5. CASE CloseCheck \/ CloseFreeEnd \/ CloseDestroy
  BY <1>1, <1>5, CloseEndKeeps, CloseCounts, CloseSteps DEF Sound
<1>6. CASE CloseFree
  <2>1. Requests' /\ Waits'
    BY <1>1, <1>6, CloseFreeKeeps, CloseSteps
  <2>2. cq.list # <<>> /\ cq' = CqPop /\ UNCHANGED <<wk, cl, wt>>
    BY <1>6 DEF CloseFree
  <2>3. Counts'
    BY <1>1, <2>2, PopCounts
  <2> QED BY <2>1, <2>3 DEF Sound
<1> QED BY <1>2, <1>3, <1>4, <1>5, <1>6 DEF Close

(* A step that changes nothing. *)
LEMMA StutterSound ==
  ASSUME Sized, Sound, UNCHANGED vars
  PROVE  Sound'
<1>1. UNCHANGED <<mtx, cq, req, wk, wt, cl>>
  BY DEF vars
<1>2. Requests'
  <2>1. Types' /\ Mutex' /\ Closed'
    BY <1>1 DEF Sound, Requests, Types, Mutex, Closed
  <2>2. Walks' /\ InPlace'
    <3>1. Walks /\ InPlace
      BY DEF Sound, Requests
    <3>2. Walks'
      BY <1>1, <3>1 DEF Walks, WalkOk
    <3>3. ASSUME NEW w \in Workers, NEW r \in Reqs PROVE At(w, r)'
      <4>1. At(w, r)
        BY <3>1 DEF InPlace
      <4> QED BY <1>1, <4>1 DEF At, InboxOk, NotifyOk, MigrateOk
    <3> QED BY <3>2, <3>3 DEF InPlace
  <2>3. Swept'
    <3>1. ASSUME NEW w \in Workers, NEW r \in Reqs PROVE SweptAt(w, r)'
      <4>1. SweptAt(w, r)
        BY DEF Sound, Requests, Swept
      <4>2. Visited(w)' <=> Visited(w)
        BY <1>1 DEF Visited
      <4> QED BY <1>1, <4>1, <4>2 DEF SweptAt, SweptOk
    <3> QED BY <3>1 DEF Swept
  <2>4. Owned'
    <3>1. \A r \in Reqs : (Handed(r)' <=> Handed(r)) /\ (Completing(r)' <=> Completing(r))
                          /\ \A t \in Waiters : Gets(t, r)' <=> Gets(t, r)
      BY <1>1 DEF Handed, Completing, Gets
    <3>2. \A r \in Reqs : OwnedAt(r)
      BY DEF Sound, Requests, Owned
    <3>3. \A r \in Reqs : OwnedAt(r)'
      BY <1>1, <3>1, <3>2 DEF OwnedAt, ReqOk, OnceOk
    <3> QED BY <3>3 DEF Owned
  <2> QED BY <2>1, <2>2, <2>3, <2>4 DEF Requests
<1>3. Counts'
  <2>1. Counts
    BY DEF Sound
  <2> QED BY <1>1, <2>1, CountsSame
<1>4. Waits'
  <2>1. Types /\ Waits /\ Quiet /\ cq.count \in Int
    BY <1>1, CqIs DEF Sound, Requests, Quiet
  <2>2. cq'.count \in Int /\ cq'.count <= cq.count
    BY <1>1, <2>1, SMT
  <2> QED BY <1>1, <2>1, <2>2, QuietWaits
<1> QED BY <1>2, <1>3, <1>4 DEF Sound

(* Every step keeps the invariant. *)
LEMMA StepSound ==
  ASSUME Sized, Sound, [Next]_vars
  PROVE  Sound'
<1>1. CASE \E r \in Reqs : Submit(r)
  <2>1. Requests /\ Counts /\ Waits
    BY DEF Sound
  <2> QED BY <1>1, <2>1, SubmitKeeps, QuietSteps DEF Sound
<1>2. CASE \E w \in Workers : Take(w) \/ Continue(w) \/ \E r \in Reqs : Resume(w, r)
  BY <1>2, WorkerSound
<1>3. CASE \E t \in Waiters : Call(t) \/ Expire(t) \/ Wait(t)
  BY <1>3, WaiterSound
<1>4. CASE CloseBegin \/ Close
  BY <1>4, CloserSound
<1>5. CASE Flush
  <2>1. Requests' /\ Waits'
    BY <1>5, FlushKeeps, FlushWaits DEF Sound
  <2>2. /\ cq'.list = cq.list /\ cq'.count = cq.count /\ cq'.refs = cq.refs /\ UNCHANGED <<wk, wt, cl>>
    BY <1>5, FlushIs DEF Sound, Requests, CqTo, Flush
  <2>3. Counts'
    BY <2>2, CountsSame DEF Sound
  <2> QED BY <2>1, <2>3 DEF Sound
<1>6. CASE UNCHANGED vars
  BY <1>6, StutterSound
<1> QED BY <1>1, <1>2, <1>3, <1>4, <1>5, <1>6 DEF Next

(* The invariant promises every waiter in poll() its wakeup. *)
LEMMA SoundStranded ==
  ASSUME Sound
  PROVE  NoStrandedWaiter
<1> SUFFICES ASSUME NEW t \in Waiters, wt[t].pc = "poll", cq.count >= Missing(t), ~ wt[t].late
             PROVE  WakeupUnderWay
  BY DEF NoStrandedWaiter
<1>1. PICK n : n = Missing(t)
  OBVIOUS
<1>2. wt[t].pc \in {"unlock", "poll"}
  OBVIOUS
<1>3. Hope(n)
  BY <1>1, <1>2 DEF Sound, Waits, WakeOk
<1>4. \A x \in {"claim", "write"} \cup {"push", "need"} : x \in {"push", "need", "claim", "write"}
  OBVIOUS
<1> QED BY <1>3, <1>4 DEF Hope, WakeupUnderWay

(* It lets no completion go to two waiters, or be freed as well. *)
LEMMA SoundDelivered ==
  ASSUME Sound, Sized
  PROVE  DeliveredOnce
<1>1. /\ Types /\ Counts /\ Owned
  BY DEF Sound, Requests
<1>2. TypeOK
  <2>1. cq.count \in Nat /\ cq.refs \in Nat /\ cq \in CqRecs
    BY <1>1, CountIs, CqIs
  <2>2. cq \in [open : BOOLEAN, refs : Nat, submit : SUBSET Reqs, list : Seq(Reqs),
                count : Nat, need : 1..UINT_MAX, buffered : 1..NoStore,
                pending : {0, 1}, efd : Nat]
    BY <2>1 DEF CqRecs
  <2> QED BY <1>1, <2>2 DEF TypeOK, Types, ReqRecs, WkRecs, Places, WtRecs, Stages, Polls,
                                   ClRecs, Phases
<1>3. /\ IsInjective(cq.list)
      /\ cq.count = Len(cq.list) + Cardinality({w \in Workers : wk[w].pc = "push"})
  BY <1>1 DEF Counts, Pushers
<1>4. ASSUME NEW r \in Reqs
      PROVE  Cardinality({t \in Waiters : r \in wt[t].got})
               + (IF req[r].freed THEN 1 ELSE 0) + (IF r \in Range(cq.list) THEN 1 ELSE 0) <= 1
  <2>1. OnceOk(r, req[r])
    BY <1>1 DEF Owned, OwnedAt
  <2> DEFINE S == {t \in Waiters : r \in wt[t].got}
  <2>2. \A t, u \in S : t = u
    BY <2>1 DEF OnceOk, Gets
  <2>3. S # {} \/ req[r].freed => Handed(r)
    BY DEF Handed, Gets
  <2>4. r \in Range(cq.list) => ~ Handed(r)
    BY <2>1 DEF OnceOk
  <2>5. req[r].freed => S = {}
    BY <2>1 DEF OnceOk, Gets
  <2>6. S = {} => Cardinality(S) = 0
    BY DEF Sized
  <2>7. Cardinality(S) = 0 \/ (Cardinality(S) = 1 /\ S # {})
    <3>1. ASSUME NEW t \in S PROVE Cardinality(S) = 1
      <4>1. S = {} \cup {t} /\ t \in Waiters
        BY <2>2, <3>1
      <4>2. Cardinality({}) = 0 /\ Cardinality({} \cup {t}) = Cardinality({}) + 1
        BY <4>1 DEF Sized
      <4> QED BY <4>1, <4>2, SMT
    <3> QED BY <2>6, <3>1
  <2> HIDE DEF S
  <2>8. Cardinality(S) + (IF req[r].freed THEN 1 ELSE 0) + (IF r \in Range(cq.list) THEN 1 ELSE 0) <= 1
    BY <2>3, <2>4, <2>5, <2>6, <2>7, SMT
  <2> QED BY <2>8 DEF S
<1> QED BY <1>2, <1>3, <1>4 DEF DeliveredOnce

(* Nor does it let a closed CQ, or a freed request, be used. *)
LEMMA SoundUnused ==
  ASSUME Sound, Sized
  PROVE  FreedUnusedAtHome
<1>1. Types /\ Counts /\ Owned /\ Swept /\ InPlace /\ Walks
  BY DEF Sound, Requests
<1>2. CqAlive
  <2> SUFFICES ASSUME cq.refs = 0
               PROVE  /\ \A t \in Waiters : wt[t].pc \in {"call", "out"}
                      /\ \A w \in Workers :
                           wk[w].pc \in {"count", "push", "need", "claim", "write"} =>
                             req[wk[w].cur].moved
    BY DEF CqAlive
  <2>1. Inmates \in SUBSET Waiters /\ Cardinality(Inmates) \in Nat
    BY <1>1, CountIs DEF Inmates
  <2>2. cl.pc = "closed" /\ Cardinality(Inmates) = 0
    BY <1>1, <2>1, SMT DEF Counts
  <2>3. Inmates = {}
    BY <2>1, <2>2 DEF Sized
  <2>4. ASSUME NEW w \in Workers, wk[w].pc \in {"count", "push", "need", "claim", "write"}
        PROVE  req[wk[w].cur].moved
    <3>1. wk[w].pc \in Notifying /\ Visited(w) /\ wk[w].pc # "notify"
      BY <2>2, <2>4 DEF Notifying, Visited
    <3>2. PICK r \in Reqs : r = wk[w].cur
      BY <1>1, <3>1 DEF Walks, WalkOk
    <3>3. req[r].worker = w
      BY <1>1, <3>1, <3>2 DEF InPlace, At, NotifyOk
    <3>4. SweptOk(w, wk[w], r, req[r])
      BY <1>1 DEF Swept, SweptAt
    <3> QED BY <3>1, <3>2, <3>3, <3>4 DEF SweptOk
  <2> QED BY <2>3, <2>4 DEF Inmates
<1>3. ASSUME NEW r \in Reqs, req[r].freed, ~ req[r].moved PROVE Unused(r)
  <2>1. Handed(r) /\ OnceOk(r, req[r])
    BY <1>1, <1>3 DEF Handed, Owned, OwnedAt
  <2>2. req[r].done /\ ~ Completing(r)
    BY <2>1 DEF OnceOk
  <2>3. ASSUME NEW w \in Workers
        PROVE  /\ r \notin Range(wk[w].inbox)
               /\ wk[w].cur = r => wk[w].pc \notin {"migrate", "notify", "count", "push"}
    <3>1. At(w, r) /\ "notify" \in Notifying
      BY <1>1 DEF InPlace, Notifying
    <3>2. r \notin Range(wk[w].inbox)
      BY <1>3, <2>2, <3>1 DEF At, InboxOk
    <3>3. wk[w].cur = r => wk[w].pc # "migrate" /\ wk[w].pc # "notify"
      BY <1>3, <2>2, <3>1 DEF At, NotifyOk, MigrateOk
    <3>4. wk[w].cur = r => wk[w].pc # "count" /\ wk[w].pc # "push"
      BY <2>2 DEF Completing
    <3> QED BY <3>2, <3>3, <3>4
  <2> QED BY <2>3 DEF Unused
<1> QED BY <1>2, <1>3 DEF FreedUnusedAtHome

-----------------------------------------------------------------------------
(* The library's facts on finite sets, which only the start needs. *)
FS == INSTANCE FiniteSetTheorems

(* They are about the finite sets and the cardinalities of AsyncCq. *)
LEMMA SameSets ==
  ASSUME NEW S
  PROVE  /\ IsFiniteSet(S) <=> FS!IsFiniteSet(S)
         /\ Cardinality(S) = FS!Cardinality(S)
<1>1. IsFiniteSet(S) <=> FS!IsFiniteSet(S)
  BY DEF IsFiniteSet, FS!IsFiniteSet
<1>2. Cardinality(S) = FS!Cardinality(S)
  BY DEF Cardinality, FS!Cardinality
<1> QED BY <1>1, <1>2

(* A non-empty set of numbers has a least one. *)
LEMMA LeastExists ==
  ASSUME NEW M, M \subseteq Nat, M # {}
  PROVE  \E n \in M : \A m \in M : n <= m
<1> DEFINE T == {1..n : n \in M}
<1>1. FS!IsWellFoundedOn(FS!StrictSubsetOrdering(Nat), FS!FiniteSubsetsOf(Nat))
  BY FS!FS_StrictSubsetOrderingWellFounded
<1>2. T # {} /\ T \subseteq FS!FiniteSubsetsOf(Nat)
  <2>1. ASSUME NEW n \in M PROVE 1..n \in SUBSET Nat /\ FS!IsFiniteSet(1..n)
    BY FS!FS_Interval, SMT
  <2> QED BY <2>1 DEF FS!FiniteSubsetsOf
<1>3. \E x \in T : \A y \in T : ~ (<<y, x>> \in FS!StrictSubsetOrdering(Nat))
  <2> HIDE DEF T
  <2> QED BY <1>1, <1>2, FS!WFMin
<1>4. PICK n \in M : \A y \in T : ~ (<<y, 1..n>> \in FS!StrictSubsetOrdering(Nat))
  BY <1>3
<1>5. ASSUME NEW m \in M, m < n PROVE FALSE
  <2>1. 1..m \subseteq 1..n /\ 1..m # 1..n /\ 1..m \in SUBSET Nat /\ 1..n \in SUBSET Nat
    <3>1. n \in 1..n /\ n \notin 1..m
      BY <1>5, SMT
    <3>2. 1..m \subseteq 1..n /\ 1..m \subseteq Nat /\ 1..n \subseteq Nat
      BY <1>5, SMT
    <3> QED BY <3>1, <3>2
  <2> DEFINE s == <<1..m, 1..n>>
  <2>2. s \in (SUBSET Nat) \X (SUBSET Nat) /\ s[1] = 1..m /\ s[2] = 1..n
    BY <2>1
  <2>3. s \in FS!StrictSubsetOrdering(Nat)
    <3> HIDE DEF s
    <3> QED BY <2>1, <2>2 DEF FS!StrictSubsetOrdering
  <2> QED BY <1>4, <2>3
<1> QED BY <1>5, SMT

(* Requests and waiters are finitely many, and so are the workers. *)
LEMMA EverySetSized == Sized
<1>1. FS!IsFiniteSet(Reqs) /\ FS!IsFiniteSet(Workers) /\ FS!IsFiniteSet(Waiters)
  <2>1. FS!IsFiniteSet(Workers)
    BY CqAssumption, FS!FS_Interval, SMT DEF Workers
  <2> QED BY <2>1, CqAssumption, SameSets
<1>2. ASSUME NEW S \in SUBSET (1..UINT_MAX), S # {} PROVE \E n \in S : \A m \in S : n <= m
  <2>1. S \subseteq Nat
    BY SMT DEF UINT_MAX
  <2> QED BY <1>2, <2>1, LeastExists
<1>3. ASSUME NEW U, FS!IsFiniteSet(U), NEW S \in SUBSET U
      PROVE  /\ Cardinality(S) \in Nat /\ (Cardinality(S) = 0 <=> S = {})
             /\ \A x \in U : x \notin S => Cardinality(S \cup {x}) = Cardinality(S) + 1
             /\ \A x \in S : Cardinality(S \ {x}) = Cardinality(S) - 1
  <2>1. FS!IsFiniteSet(S)
    BY <1>3, FS!FS_Subset
  <2>2. FS!Cardinality(S) \in Nat /\ (FS!Cardinality(S) = 0 <=> S = {})
    BY <2>1, FS!FS_CardinalityType, FS!FS_EmptySet
  <2>3. ASSUME NEW x, x \notin S PROVE FS!Cardinality(S \cup {x}) = FS!Cardinality(S) + 1
    BY <2>1, <2>3, FS!FS_AddElement
  <2>4. ASSUME NEW x \in S PROVE FS!Cardinality(S \ {x}) = FS!Cardinality(S) - 1
    BY <2>1, FS!FS_RemoveElement
  <2> QED BY <2>2, <2>3, <2>4, SameSets
<1>4. \A S \in SUBSET Reqs : Cardinality(S) \in Nat
  BY <1>1, <1>3
<1>5. \A U \in {Workers, Waiters} : \A S \in SUBSET U :
        /\ Cardinality(S) \in Nat /\ (Cardinality(S) = 0 <=> S = {})
        /\ \A x \in U : x \notin S => Cardinality(S \cup {x}) = Cardinality(S) + 1
        /\ \A x \in S : Cardinality(S \ {x}) = Cardinality(S) - 1
  BY <1>1, <1>3, SMT
<1> QED BY <1>2, <1>4, <1>5 DEF Sized

(* What the CQ, its workers and its waiters keep, for any number of them.   *)
THEOREM AlwaysSound == Spec => []Sound
<1>1. Init => Sound
  BY EverySetSized, FirstSound
<1>2. Sound /\ [Next]_vars => Sound'
  BY EverySetSized, StepSound
<1> QED BY <1>1, <1>2, PTL DEF Spec

-----------------------------------------------------------------------------
(* async_wait(): no waiter whose store of wait_need was visible in time     *)
(* sleeps on enough completions without a wakeup under way.                 *)
THEOREM NoWaiterStranded == Spec => []NoStrandedWaiter
<1>1. Sound => NoStrandedWaiter
  BY SoundStranded
<1> QED BY <1>1, AlwaysSound, PTL

(* The README: each completion is delivered to exactly one waiter; it is    *)
(* not freed as well, and complete_count never goes below zero.             *)
THEOREM EachDeliveredOnce == Spec => []DeliveredOnce
<1>1. Sound => DeliveredOnce
  BY EverySetSized, SoundDelivered
<1> QED BY <1>1, AlwaysSound, PTL

(* The README: a submit transfers ownership to the CQ.  After the close     *)
(* every submitted request was delivered or freed.                          *)
THEOREM CloseOwnsNothing == Spec => []ClosedOwnsNothing
<1>1. Sound => ClosedOwnsNothing
  BY DEF Sound, Requests, Closed, Owned, OwnedAt, ReqOk, Handed, Gets, ClosedOwnsNothing
<1> QED BY <1>1, AlwaysSound, PTL

(* async_close(): the CQ is not destroyed under a waiter, nor under a       *)
(* worker that completes a request of its own, and no worker uses a freed   *)
(* request whose socket stayed on its worker.                               *)
THEOREM NoUseAfterClose == Spec => []FreedUnusedAtHome
<1>1. Sound => FreedUnusedAtHome
  BY EverySetSized, SoundUnused
<1> QED BY <1>1, AlwaysSound, PTL
=============================================================================
