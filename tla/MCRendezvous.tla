----------------------------- MODULE MCRendezvous -----------------------------
(* Instances of Rendezvous for TLC. *)
EXTENDS Rendezvous
CONSTANTS c1, c2, c3, k1, d1, d2
=============================================================================
