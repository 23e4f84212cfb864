------------------------------ MODULE MCSockets ------------------------------
(* Two workers and two sockets on one port, which is also the ephemeral     *)
(* one, so that binds collide and the ports run out; two peers whose tuples *)
(* belong to different workers, so that connect and sendto migrate.         *)
EXTENDS Sockets, TLC

CONSTANTS s1, s2, w1, w2, p1, p2

TwoSocks == {s1, s2}
TwoWorkers == {w1, w2}
MCHomes == {s1 :> w1 @@ s2 :> w2, s1 :> w1 @@ s2 :> w1}
TwoPeers == {p1, p2}
OnePort == {1}
MCUses == {<<"bind", AnyAddr, 1>>, <<"bind", LocalAddr, 1>>, <<"bind", LocalAddr, 0>>,
           <<"connect", p1, 0>>, <<"connect", p2, 0>>, <<"send", p2, 0>>,
           <<"opt", "port", 0>>, <<"recv", "-", 0>>, <<"close", "-", 0>>}
MCSteer(k) == IF k[3] = p1 THEN w1 ELSE w2
=============================================================================
