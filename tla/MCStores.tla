------------------------------- MODULE MCStores -------------------------------
(* Instances of Stores for TLC. *)
EXTENDS Stores, TLC
CONSTANTS p1, p2, p3, q1, q2

Symmetry == Permutations(Procs) \cup Permutations(Peers)

(* A run in which both the identity and the peers were raced goes no further:   *)
(* IdentityIsOne and PeersAreKept ask nothing of it, and the history reads      *)
(* neither store.                                                               *)
OneRace == ~(raced /\ crossed)
===============================================================================
