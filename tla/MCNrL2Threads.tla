---------------------------- MODULE MCNrL2Threads ----------------------------
(* Instances of NrL2Threads for TLC.                                       *)
EXTENDS NrL2Threads
=============================================================================
