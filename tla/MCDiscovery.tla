------------------------------ MODULE MCDiscovery ------------------------------
(* Instances of Discovery for TLC: a prober on one device, a manager on each,  *)
(* and a second network for the second device.                                 *)
EXTENDS Discovery
CONSTANTS A, B, ra, rb, pa, a1, b1, b2

MCHost == [m \in Managers |-> IF m = rb THEN B ELSE A]

(* The second device is in the network of the first, or in another as well.    *)
EitherPlace == {[d \in Devices |-> IF d = A THEN {a1} ELSE bs] : bs \in {{b1}, {b1, b2}}}
TwoSubnets == [a \in Addrs |-> IF a = b2 THEN 2 ELSE 1]
===============================================================================
