--------------------------- MODULE MCNrPdcpEntity ---------------------------
(* Instances of NrPdcpEntity for TLC.                                      *)
EXTENDS NrPdcpEntity

CONSTANT k1

(* A UM DRB and an AM DRB with a finite t-Reordering, and an SRB, whose    *)
(* t-Reordering the gNB leaves infinite.                                   *)
MCBearers == {[type |-> "DRB_UM", t_reordering |-> 1],
              [type |-> "DRB_AM", t_reordering |-> 1],
              [type |-> "SRB", t_reordering |-> Infinity]}

(* A bearer added without protection, protected later on (SRB1 before and  *)
(* after the security mode command), and re-established with its keys.     *)
MCSecurityInputs == {[integ |-> NoKey, ciph |-> NoKey],
                     [integ |-> k1, ciph |-> k1],
                     [integ |-> Keep, ciph |-> Keep]}
=============================================================================
