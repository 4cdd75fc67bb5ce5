---------------------------- MODULE PdcpDelivery ----------------------------
(***************************************************************************)
(* What a receiving PDCP entity promises to the layer above it, without    *)
(* saying how: SDUs reach RRC or SDAP in bursts, and within one epoch (from *)
(* the creation, suspension or re-establishment of the entity to the next) *)
(* every burst only holds COUNT values above those of the bursts before    *)
(* it.  So nothing is delivered twice and nothing is delivered out of      *)
(* order.  Losing an SDU is allowed.                                       *)
(***************************************************************************)
EXTENDS Naturals, Sequences

CONSTANT Counts   \* the COUNT values

VARIABLES log,     \* <<[epoch, counts], ...>>: the bursts handed to the upper layer
          epoch    \* number of the current epoch

dvars == <<log, epoch>>

DInit == log = <<>> /\ epoch = 0

(* A burst of counts is above everything delivered in the current epoch.   *)
Fresh(counts) ==
    \A i \in 1..Len(log) :
        log[i].epoch = epoch =>
            \A c \in counts, d \in log[i].counts : d < c

(* One burst reaches the upper layer in the current epoch.                 *)
Burst ==
    \E counts \in SUBSET Counts :
        /\ counts # {}
        /\ log' = Append(log, [epoch |-> epoch, counts |-> counts])
        /\ Fresh(counts)

(* An epoch may end by flushing a last burst.                              *)
DNext ==
    /\ epoch' \in {epoch, epoch + 1}
    /\ UNCHANGED log \/ Burst

DSpec == DInit /\ [][DNext]_dvars
=============================================================================
