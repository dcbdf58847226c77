---------------------------- MODULE MCAppTransfers ----------------------------
(* Instances of AppTransfers for TLC. *)
EXTENDS AppTransfers
CONSTANTS c1, c2, a1, f1, f2

(* f1 and f2 differ in nothing else: one of them comes first. *)
OneHolder == {[a \in Addrs |-> f1]}
===============================================================================
