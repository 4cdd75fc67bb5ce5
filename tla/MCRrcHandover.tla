--------------------------- MODULE MCRrcHandover ---------------------------
(* The instance of RrcHandover for TLC: a source, a target and a third DU. *)
EXTENDS RrcHandover
CONSTANTS d1, d2, d3
=============================================================================
