------------------------------- MODULE Timers -------------------------------
(***************************************************************************)
(* The timer wheels of the worker threads (lib/thread.c) and the one task  *)
(* that stands for all the deadlines of a TCP connection (main/tcp.c), for *)
(* connections that move from a worker to another (main/socket.c).         *)
(*                                                                         *)
(* Time is in ticks of WHEEL_0_TICK_MS, which is one millisecond.  A step  *)
(* holds a wheel_lock once; a callback runs on the thread that owns the    *)
(* connection.  A list is a sequence, its head first.                      *)
(***************************************************************************)
EXTENDS Integers, Sequences, FiniteSets, SequencesExt

CONSTANTS Threads, Tasks,
          Kinds,              \* the deadlines of a connection, in tcp_timer_cb's order
          Size0, Size1,       \* WHEEL_0_SIZE, WHEEL_1_SIZE
          MaxLag,             \* bound: how long a pass of a thread takes
          Scenarios           \* bound: who takes part; ticks, changes, moves; the delays

VARIABLES clock,              \* CLOCK_MONOTONIC_COARSE
          thr,                \* the threads: cached time, wheels, place in a pass
          tk,                 \* the timer tasks
          deadline,           \* the deadlines of the connection of each task
          left                \* the scenario, as far as it is still to come

vars == <<clock, thr, tk, deadline, left>>

Stop == 0                     \* TCP_TIMER_STOP
Nobody == 0                   \* parent_thread is NULL
Start == 1                    \* the time at which the threads are created

Init ==
  /\ clock = Start
  /\ thr = [t \in Threads |->
             [now |-> Start, last |-> Start, ticks |-> 0, pc |-> "fds", c0 |-> 0, c1 |-> 0,
              w0 |-> [i \in 0..Size0 - 1 |-> <<>>], w1 |-> [i \in 0..Size1 - 1 |-> <<>>]]]
  /\ left \in Scenarios
  /\ tk = [k \in Tasks |-> [timeout |-> 0, registered |-> FALSE, parent |-> Nobody,
                            owner |-> left.home, guest |-> FALSE]]
  /\ deadline = [k \in Tasks |-> [i \in Kinds |-> Stop]]

-----------------------------------------------------------------------------
(* The wheels.  A world w has the threads and the tasks in it. *)
World == [thr |-> thr, tk |-> tk]

(* Mutation: a wheel-1 slot is rounded up instead of down. *)
wheel_timer_slot_up(h, timeout, now) ==
  LET delta == timeout - now
      ticks == (delta + Size0 - 1) \div Size0
  IN  IF timeout <= now THEN <<"w0", h.c0>>
      ELSE IF delta < Size0 THEN <<"w0", (h.c0 + delta) % Size0>>
      ELSE <<"w1", (h.c1 + (IF ticks >= Size1 THEN Size1 - 1 ELSE ticks)) % Size1>>

wheel_timer_slot(h, timeout, now) ==
  LET delta == timeout - now
      ticks == delta \div Size0
  IN  IF timeout <= now THEN <<"w0", h.c0>>
      ELSE IF delta < Size0 THEN <<"w0", (h.c0 + delta) % Size0>>
      ELSE <<"w1", (h.c1 + (IF ticks >= Size1 THEN Size1 - 1 ELSE ticks)) % Size1>>

PutAt(h, slot, list) ==
  IF slot[1] = "w0" THEN [h EXCEPT !.w0[slot[2]] = list] ELSE [h EXCEPT !.w1[slot[2]] = list]
At(h, slot) == IF slot[1] = "w0" THEN h.w0[slot[2]] ELSE h.w1[slot[2]]

wheel_add_timer(h, k, timeout, now) ==
  LET s == wheel_timer_slot(h, timeout, now) IN PutAt(h, s, <<k>> \o At(h, s))
wheel_requeue_timer(h, k, timeout, now) ==
  LET s == wheel_timer_slot(h, timeout, now) IN PutAt(h, s, Append(At(h, s), k))
wheel_remove_timer(h, k) ==
  [h EXCEPT !.w0 = [i \in DOMAIN @ |-> Remove(@[i], k)], !.w1 = [i \in DOMAIN @ |-> Remove(@[i], k)]]

(* wheel_cascade_l1(): what the slot of wheel 1 holds is placed anew. *)
wheel_cascade_l1(h) ==
  FoldLeft(LAMBDA g, k : wheel_add_timer(g, k, tk[k].timeout, h.now), [h EXCEPT !.w1[h.c1] = <<>>], h.w1[h.c1])

unregister_task(w, k) ==
  IF ~w.tk[k].registered THEN w
  ELSE [thr |-> [w.thr EXCEPT ![w.tk[k].parent] = wheel_remove_timer(@, k)],
        tk |-> [w.tk EXCEPT ![k].registered = FALSE, ![k].parent = Nobody]]

(* register_task() of a timer by thread `by', with that thread's time; guest *)
(* is auxiliary: another thread than the wheel's own put the task there, and *)
(* it may be overdue since.                                                  *)
register_task(w, t, k, by) ==
  LET out == IF w.tk[k].registered THEN [w.thr EXCEPT ![w.tk[k].parent] = wheel_remove_timer(@, k)]
             ELSE w.thr
  IN  [thr |-> [out EXCEPT ![t] = wheel_add_timer(@, k, w.tk[k].timeout, thr[by].now)],
       tk |-> [w.tk EXCEPT ![k].registered = TRUE, ![k].parent = t,
                             ![k].guest = by # t \/ (@ /\ w.tk[k].timeout <= thr[by].now)]]

-----------------------------------------------------------------------------
(* The deadlines of a connection. *)
Armed(d) == {d[i] : i \in Kinds} \ {Stop}
Earliest(d) == CHOOSE n \in Armed(d) : \A m \in Armed(d) : n <= m

tcp_reset_timer(w, k, d) ==
  IF Armed(d) = {} THEN LET v == unregister_task(w, k) IN [v EXCEPT !.tk[k].timeout = 0]
  ELSE register_task([w EXCEPT !.tk[k].timeout = Earliest(d)], w.tk[k].owner, k, w.tk[k].owner)

(* Mutation: a change of the earliest deadline does not choose anew. *)
tcp_update_timer_keeps(w, k, old, new, d) ==
  IF ~w.tk[k].registered THEN tcp_reset_timer(w, k, d)
  ELSE IF new # Stop /\ new < w.tk[k].timeout
       THEN register_task([w EXCEPT !.tk[k].timeout = new], w.tk[k].owner, k, w.tk[k].owner)
  ELSE w

(* tcp_update_timer() once it has set the deadline, from old to new, in d. *)
tcp_update_timer(w, k, old, new, d) ==
  IF ~w.tk[k].registered \/ old = w.tk[k].timeout THEN tcp_reset_timer(w, k, d)
  ELSE IF new # Stop /\ (w.tk[k].timeout = Stop \/ new < w.tk[k].timeout)
       THEN register_task([w EXCEPT !.tk[k].timeout = new], w.tk[k].owner, k, w.tk[k].owner)
  ELSE w

(* Its guard: without override a deadline is only brought forward. *)
Moves(old, new, override) == old # new /\ (old = Stop \/ old > new \/ override)

(* tcp_timer_cb(): the first deadline that is due is stopped, and perhaps   *)
(* set again; the others wait for the task to be run again.                 *)
tcp_timer_cb(w, k, delay) ==
  LET now == thr[w.tk[k].owner].now
      due == {i \in Kinds : deadline[k][i] # Stop /\ deadline[k][i] <= now}
      i == CHOOSE j \in due : \A m \in due : j <= m
      stopped == [deadline[k] EXCEPT ![i] = Stop]
      again == [stopped EXCEPT ![i] = now + delay]
  IN  IF due = {} THEN [w |-> w, d |-> deadline[k]]
      ELSE IF delay = 0 THEN [w |-> tcp_reset_timer(w, k, stopped), d |-> stopped]
      ELSE [w |-> tcp_update_timer(tcp_reset_timer(w, k, stopped), k, Stop, now + delay, again),
            d |-> again]

-----------------------------------------------------------------------------
(* A pass of thread_loop(): the time is read, the current slot is emptied,  *)
(* then the cursor advances by the ticks that went by, slot by slot.        *)
begin_pass(t) ==
  /\ thr[t].pc = "fds" /\ thr[t].now < clock
  /\ thr' = [thr EXCEPT ![t].now = clock, ![t].ticks = clock - thr[t].last, ![t].pc = "slot"]
  /\ UNCHANGED <<clock, tk, deadline, left>>

Current(t) == thr[t].w0[thr[t].c0]

(* process_current_timer_slot(): one timer at a time, requeued or fired. *)
process_current_timer_slot(t) ==
  /\ thr[t].pc = "slot" /\ Current(t) # <<>>
  /\ LET k == Head(Current(t))
         h == [thr[t] EXCEPT !.w0[thr[t].c0] = Tail(@)]
     IN  \/ /\ tk[k].timeout > h.now
            /\ thr' = [thr EXCEPT ![t] = wheel_requeue_timer(h, k, tk[k].timeout, h.now)]
            /\ UNCHANGED <<tk, deadline>>
         \/ /\ tk[k].timeout <= h.now
            /\ \E delay \in left.delays \cup {0} :
                  LET r == tcp_timer_cb([thr |-> [thr EXCEPT ![t] = h],
                                         tk |-> [tk EXCEPT ![k].registered = FALSE]], k, delay)
                  IN  thr' = r.w.thr /\ tk' = r.w.tk /\ deadline' = [deadline EXCEPT ![k] = r.d]
  /\ UNCHANGED <<clock, left>>

wheel_advance(t) ==
  LET h == [thr[t] EXCEPT !.c0 = (@ + 1) % Size0, !.ticks = @ - 1]
      g == [h EXCEPT !.c1 = (@ + 1) % Size1]
  IN  /\ thr[t].pc = "slot" /\ Current(t) = <<>> /\ thr[t].ticks > 0
      /\ thr' = [thr EXCEPT ![t] = IF h.c0 = 0 THEN wheel_cascade_l1(g) ELSE h]
      /\ UNCHANGED <<clock, tk, deadline, left>>

(* do_timer_tasks() returns; do_fd_tasks() and its callbacks follow. *)
end_timers(t) ==
  /\ thr[t].pc = "slot" /\ Current(t) = <<>> /\ thr[t].ticks = 0
  /\ thr' = [thr EXCEPT ![t].pc = "fds", ![t].last = thr[t].now]
  /\ UNCHANGED <<clock, tk, deadline, left>>

(* A request or a packet sets or stops a deadline. *)
set_deadline(t, k, i) ==
  /\ thr[t].pc = "fds" /\ tk[k].owner = t /\ left.sets > 0
  /\ \E new \in {thr[t].now + n : n \in left.delays} \cup {Stop}, override \in BOOLEAN :
       LET d == [deadline[k] EXCEPT ![i] = new]
           w == tcp_update_timer(World, k, deadline[k][i], new, d)
       IN  /\ Moves(deadline[k][i], new, override)
           /\ thr' = w.thr /\ tk' = w.tk /\ deadline' = [deadline EXCEPT ![k] = d]
  /\ left' = [left EXCEPT !.sets = @ - 1]
  /\ UNCHANGED clock

(* set_socket_worker(), on the thread the connection leaves. *)
set_socket_worker(t, k, u) ==
  /\ thr[t].pc = "fds" /\ tk[k].owner = t /\ u # t /\ left.moves > 0
  /\ LET w == [World EXCEPT !.tk[k].owner = u]
         v == IF tk[k].parent # u THEN register_task(unregister_task(w, k), u, k, t) ELSE w
     IN  thr' = v.thr /\ tk' = v.tk
  /\ left' = [left EXCEPT !.moves = @ - 1]
  /\ UNCHANGED <<clock, deadline>>

tick ==
  /\ left.ticks > 0 /\ \A t \in left.threads : clock - thr[t].now < MaxLag
  /\ clock' = clock + 1
  /\ left' = [left EXCEPT !.ticks = @ - 1]
  /\ UNCHANGED <<thr, tk, deadline>>

Next ==
  \/ tick
  \/ \E t \in left.threads :
        \/ begin_pass(t) \/ process_current_timer_slot(t) \/ wheel_advance(t) \/ end_timers(t)
        \/ \E k \in left.tasks : \/ \E i \in left.kinds : set_deadline(t, k, i)
                                 \/ \E u \in left.threads : set_socket_worker(t, k, u)

Spec == Init /\ [][Next]_vars

-----------------------------------------------------------------------------
Holds(h, k) == {s \in ({"w0"} \X DOMAIN h.w0) \cup ({"w1"} \X DOMAIN h.w1) : Contains(At(h, s), k)}

(* A connection with a deadline has its task in one slot of its owner's     *)
(* wheels, for that deadline or an earlier one: no sequence of setting,     *)
(* stopping, firing and moving leaves it without (tcp_update_timer,         *)
(* tcp_timer_cb, set_socket_worker).                                        *)
DeadlinesCovered ==
  \A k \in Tasks : Armed(deadline[k]) # {} =>
     /\ tk[k].registered /\ tk[k].parent = tk[k].owner
     /\ tk[k].timeout <= Earliest(deadline[k])
     /\ \A t \in Threads : Cardinality(Holds(thr[t], k)) = IF t = tk[k].owner THEN 1 ELSE 0

(* After the timers of a pass no deadline of the thread's connections is    *)
(* overdue, however many ticks went by and through however many cascades    *)
(* (do_timer_tasks).  Only where another worker put the task into the wheel *)
(* may it be late, by what that worker's time was behind.                   *)
NoneOverdue ==
  \A k \in Tasks :
     LET t == tk[k].owner
         slack == IF tk[k].guest THEN MaxLag ELSE 0
     IN  thr[t].pc = "fds" => \A d \in Armed(deadline[k]) : thr[t].now < d + slack
=============================================================================
