------------------------------- MODULE Delivery -------------------------------
(***************************************************************************)
(* What a folder transfer promises: files arrive whole, one after another  *)
(* in any order and never go away again, and a sender that reports success *)
(* has delivered all of them.                                              *)
(***************************************************************************)
CONSTANT Files
VARIABLES delivered,  (* the files the receiver holds whole                 *)
          outcome     (* what the current or last send has reported         *)

vars == <<delivered, outcome>>

Init == delivered = {} /\ outcome = "none"

Begin == /\ outcome # "running"
         /\ outcome' = "running"
         /\ UNCHANGED delivered

(* Also after a sender has given up: the receiver may hold all it needs.    *)
Deliver(f) == /\ f \notin delivered
              /\ delivered' = delivered \cup {f}
              /\ UNCHANGED outcome

Succeed == /\ outcome = "running"
           /\ delivered = Files
           /\ outcome' = "ok"
           /\ UNCHANGED delivered

GiveUp == /\ outcome = "running"
          /\ outcome' = "failed"
          /\ UNCHANGED delivered

Next == Begin \/ Succeed \/ GiveUp \/ \E f \in Files : Deliver(f)

Spec == Init /\ [][Next]_vars
=============================================================================
