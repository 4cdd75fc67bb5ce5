---------------------------- MODULE MCNrPdcpQueue ----------------------------
(* Instances of NrPdcpQueue for TLC.                                       *)
EXTENDS NrPdcpQueue

CONSTANTS gtp, rrc, tun
=============================================================================
