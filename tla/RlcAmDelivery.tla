---------------------------- MODULE RlcAmDelivery ----------------------------
(***************************************************************************)
(* What an acknowledged-mode bearer promises to PDCP at its two ends,      *)
(* without saying how: an SDU that was sent is delivered at most once, in  *)
(* any order, from its own bytes; its successful delivery is reported at   *)
(* the sender only after that, once and for good.  Re-establishment starts *)
(* over.  The promise ends when the bearer goes astray.                    *)
(***************************************************************************)
EXTENDS Naturals, Sequences

VARIABLES sent,       \* number of SDUs sent so far
          log,        \* what was delivered, as the SDUs each is made of
          confirmed,  \* SDUs whose successful delivery was reported
          astray      \* the bearer has lost track of an SDU

avars == <<sent, log, confirmed, astray>>

AInit == sent = 0 /\ log = <<>> /\ confirmed = {} /\ astray = FALSE

DeliveredSdus == UNION {log[k] : k \in DOMAIN log}

(* One step may send an SDU, deliver one, or confirm some.                 *)
Send == sent' = sent + 1 /\ UNCHANGED <<log, confirmed, astray>>

Deliver ==
    /\ \E i \in 0..(sent - 1) \ DeliveredSdus : log' = Append(log, {i})
    /\ UNCHANGED <<sent, confirmed, astray>>

Confirm ==
    /\ confirmed \subseteq confirmed' /\ confirmed' \subseteq DeliveredSdus
    /\ UNCHANGED <<sent, log, astray>>

StartOver == sent' = 0 /\ log' = <<>> /\ confirmed' = {} /\ astray' = FALSE

GoAstray == astray' = TRUE

ANext == Send \/ Deliver \/ Confirm \/ StartOver \/ GoAstray

ASpec == AInit /\ [][ANext]_avars
=============================================================================
