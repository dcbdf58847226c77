-------------------------------- MODULE MCRelay --------------------------------
(* Instances of Relay for TLC. *)
EXTENDS Relay, TLC
CONSTANTS t1, t2, x1, x2, x3

Symmetry == Permutations({t1, t2}) \cup Permutations({x1, x2, x3})
=============================================================================
