------------------------------ MODULE MCEstablish ------------------------------
(* Instances of Establish for TLC. *)
EXTENDS Establish
CONSTANTS A, B, sa, sb

SameOrOdd == {{}, {B}}
AllSame == {{}}
===============================================================================
