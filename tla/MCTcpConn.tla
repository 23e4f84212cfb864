------------------------------ MODULE MCTcpConn ------------------------------
EXTENDS TcpConn

CONSTANTS c1, c2, k1, k2, srv

TwoKids == <<k1, k2>>
(* c1 and c2 may also meet in the middle. *)
Anyone == [c \in {c1, c2} |-> {srv} \cup ({c1, c2} \ {c})]
Bound(who, keep, linger, calls, copies, faults, retries, wire) ==
  [who |-> who, keep |-> keep, linger |-> linger, calls |-> calls, copies |-> copies,
   faults |-> faults, retries |-> retries, wire |-> wire]

(* One pair with every way to close; with faults; with keepalive; with      *)
(* copies and reordering; and two that compete for the backlog or open      *)
(* towards each other.                                                      *)
Stories ==
  {Bound({c1}, {}, {"off", "zero", "some"}, 4, 0, 0, 1, 1),
   Bound({c1}, {}, {"off", "some"}, 3, 0, 1, 1, 1),
   Bound({c1}, {c1}, {"off"}, 3, 0, 0, 1, 1),
   Bound({c1}, {}, {"off"}, 2, 1, 0, 1, 2),
   Bound({c1, c2}, {}, {"off"}, 3, 0, 0, 0, 1)}
=============================================================================
