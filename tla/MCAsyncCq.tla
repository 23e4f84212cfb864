------------------------------ MODULE MCAsyncCq ------------------------------
(* One waiter is content with one completion, the other needs two; one has  *)
(* a deadline, the other may be interrupted; one of two requests may        *)
(* migrate.                                                                 *)
EXTENDS AsyncCq

CONSTANTS r1, r2, t1, t2

TwoReqs == {r1, r2}
TwoWaiters == {t1, t2}
OneAndTwo == [t \in Waiters |-> IF t = t1 THEN 1 ELSE 2]
AllTwo == [t \in Waiters |-> 2]
FirstWaiter == {t1}
SecondWaiter == {t2}
(* r1 starts on the worker that async_close() visits last. *)
TwoThenOne == [r \in Reqs |-> IF r = r1 THEN 2 ELSE 1]
FirstReq == {r1}
None == {}
=============================================================================
