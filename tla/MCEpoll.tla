------------------------------- MODULE MCEpoll -------------------------------
(* Two sockets, each with its worker, two waiters that take one event per   *)
(* call (so that a snapshot has a rest to put back), one of them with a     *)
(* timeout, a thread that registers, modifies, removes and closes, and one  *)
(* blocking read.                                                           *)
EXTENDS Epoll

CONSTANTS s1, s2, w1, w2, ctl, r1

TwoSockets == {s1, s2}
TwoWaiters == {w1, w2}
OneHasty == {w2}
OneFaulty == {s1}
OneReader == {r1}
Masks == {{"in"}, {"in", "et"}}
=============================================================================
