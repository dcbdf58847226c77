------------------------------ MODULE MCSendLoop ------------------------------
(* Instances of SendLoop for TLC. *)
EXTENDS SendLoop

(* One file that outlasts the sample, one with a chunk larger than the bucket. *)
TwoFiles == <<<<2, 2, 2>>, <<3, 1>>>>
===============================================================================
