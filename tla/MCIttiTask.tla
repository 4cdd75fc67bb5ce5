----------------------------- MODULE MCIttiTask -----------------------------
(* Instances of IttiTask for TLC. *)
EXTENDS IttiTask
=============================================================================
