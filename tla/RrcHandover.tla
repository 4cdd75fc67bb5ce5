---------------------------- MODULE RrcHandover ----------------------------
(***************************************************************************)
(* TASK_RRC_GNB of the CU-CP: its UE contexts, the registry of DUs, the     *)
(* handover of a UE between two DUs (F1), reestablishment, the release of a *)
(* UE and the loss of a DU.  The DU side is the handlers of F1AP messages   *)
(* in the MAC.  One UE moves between the cells, one cell per DU.            *)
(*                                                                         *)
(* An F1 association is a FIFO in each direction.  Its loss reaches the RRC *)
(* as the last message of the association; what the CU still sends on it is *)
(* dropped.  A DU UE ID is the C-RNTI that the DU chose: ids are never      *)
(* reused here, CU UE IDs are (lowest free first).                          *)
(***************************************************************************)
EXTENDS Naturals, Sequences, FiniteSets

CONSTANTS Dus,          \* F1 associations whose F1 Setup has succeeded
          Home,         \* the one on which the UE starts
          NoDu,         \* du_assoc_id 0: the DU is offline
          MaxEvents     \* handovers, releases and session changes that are
                        \* asked for, reestablishments, returns of the UE by
                        \* random access, and DUs lost, in all

ASSUME DusAssumption == Home \in Dus /\ NoDu \notin Dus
ASSUME BoundAssumption == MaxEvents \in Nat

(* An event makes at most one context at a DU and one at the CU.            *)
Ids   == 1..(MaxEvents + 1)
CuIds == Ids
AnyDu == Dus \cup {NoDu}
AnyId == Ids \cup {0}

VARIABLES
    dus,      \* rrc->dus
    ctx,      \* rrc->rrc_ue_head and the F1 data of each UE
    to_du,    \* [Dus -> Seq(F1AP message)]
    to_cu,    \* [Dus -> Seq(F1AP message)]
    up,       \* the DUs that are alive
    mac,      \* UE contexts of the DUs, by DU UE ID
    ue,       \* the UE: the context it uses and the one it heads for
    amf,      \* UEs whose release the AMF is to command
    events,   \* events so far
    untimely, \* a handover was ended, a UE reestablished, or a CU UE ID given
              \* out again, out of turn
    misfit,   \* a UE was sent a cell group that is not its DU's
    no_old,   \* a DU was to take over an old context that it does not have
    exit      \* what the CU has died of: DevAssert(du != NULL), or a NULL
              \* C-RNTI or cell group

cuVars  == <<dus, ctx, amf>>
netVars == <<to_du, to_cu>>
duVars  == <<up, mac>>
history == <<untimely, misfit, no_old, exit>>
vars    == <<cuVars, netVars, duVars, ue, events, history>>

-----------------------------------------------------------------------------
(* nr_handover_context_t: source and target, each with the DU and the DU UE *)
(* ID, and the source's CellGroupConfig (named by the DU that made it).     *)
NoHo == [src |-> NoDu, src_id |-> 0, old_cg |-> NoDu, tgt |-> NoDu, tgt_id |-> 0]

(* gNB_RRC_UE_t with f1_ue_data_t: du is du_assoc_id, id both secondary_ue  *)
(* and rnti (the DU uses the RNTI as its UE ID), cg masterCellGroup (NoDu   *)
(* for NULL), f1 f1_ue_context_active, sec as_security_active, xids the     *)
(* transactions that are not RRC_ACTION_NONE.                               *)
NoCtx == [live |-> FALSE, du |-> NoDu, id |-> 0, ho |-> NoHo, cg |-> NoDu,
          f1 |-> FALSE, an_release |-> FALSE, sec |-> FALSE, xids |-> {}]

(* rrc_gNB_create_ue_context: there is no cell group yet.                   *)
NewCtx(d, i) == [NoCtx EXCEPT !.live = TRUE, !.du = d, !.id = i]

NoMac == [du |-> NoDu, cu |-> 0, st |-> "none"]

(* Where the UE heads for: a handover it was told, a reestablishment.       *)
Nowhere == [du |-> NoDu, id |-> 0, why |-> "none"]

HandingOver(c) == ctx[c].ho # NoHo
Switched(c) == ctx[c].du = ctx[c].ho.tgt
Live(c) == c \in CuIds /\ ctx[c].live
Known(d, i) == i \in Ids /\ mac[i].du = d /\ mac[i].st \notin {"none", "gone"}

UeIn(d, i) == ue.here /\ ue.du = d /\ ue.id = i
MadeBy(d, i) == i \in Ids /\ mac[i].du = d

NewId == CHOOSE i \in Ids : mac[i] = NoMac /\ \A j \in Ids : mac[j] = NoMac => i <= j
Free  == {c \in CuIds : ~ctx[c].live}
NewCuId == CHOOSE c \in Free : \A k \in Free : c <= k

(* An F1AP message about UE c is under way.                                 *)
About(m, c) == m.t \notin {"reest_req", "lost"} /\ m.cu = c
UnderWay(c) == \E d \in Dus : \/ \E k \in DOMAIN to_du[d] : About(to_du[d][k], c)
                             \/ \E k \in DOMAIN to_cu[d] : About(to_cu[d][k], c)

(* Bearers of UE c have been asked for, and no answer has been handled.     *)
Bearers(m, c) == /\ m.t \in {"bearers", "bearers_resp", "more_bearers", "more_bearers_resp"}
                 /\ m.cu = c
BearersAsked(c) ==
    \E d \in Dus : \/ \E k \in DOMAIN to_du[d] : Bearers(to_du[d][k], c)
                  \/ \E k \in DOMAIN to_cu[d] : Bearers(to_cu[d][k], c)

(* What the CU sends on an association that is gone is lost.                *)
Queued(q, d, m) == IF d \in up THEN [q EXCEPT ![d] = Append(@, m)] ELSE q
Took(d, t) == to_cu[d] # <<>> /\ Head(to_cu[d]).t = t
TookCmd(d, t) == d \in up /\ to_du[d] # <<>> /\ Head(to_du[d]).t = t
CuTakes(d) == to_cu' = [to_cu EXCEPT ![d] = Tail(@)]

Release(c, i, air) == [t |-> "release", cu |-> c, id |-> i, air |-> air]
DlRrc(c, i, old, what, cg) ==
    [t |-> "dl", cu |-> c, id |-> i, old |-> old, what |-> what, cg |-> cg]

(* nr_rrc_transfer_protected_rrc_message: through the DU of the UE, unless   *)
(* it is offline.                                                           *)
Transfer(q, c, old, what) ==
    IF ctx'[c].du = NoDu THEN q
    ELSE Queued(q, ctx'[c].du, DlRrc(c, ctx'[c].id, old, what, ctx'[c].cg))

(* A reconfiguration outside a handover that is not the serving DU's own.   *)
Misfits(c) == misfit' = (misfit \/ (ctx'[c].du # NoDu /\ ctx'[c].cg # ctx'[c].du))

Event == events < MaxEvents /\ events' = events + 1

Removed(c) ==
    /\ ctx' = [ctx EXCEPT ![c] = NoCtx]
    /\ amf' = amf \ {c}
    /\ untimely' = (untimely \/ HandingOver(c))

Init ==
    /\ dus = Dus /\ up = Dus
    /\ \E f1 \in BOOLEAN :
          ctx = [c \in CuIds |->
                   IF c = 1 THEN [NewCtx(Home, 1) EXCEPT !.sec = TRUE, !.cg = Home, !.f1 = f1]
                   ELSE NoCtx]
    /\ mac = [i \in Ids |-> IF i = 1 THEN [du |-> Home, cu |-> 1, st |-> "active"]
                                     ELSE NoMac]
    /\ ue = [du |-> Home, id |-> 1, here |-> TRUE, next |-> Nowhere]
    /\ to_du = [d \in Dus |-> <<>>] /\ to_cu = [d \in Dus |-> <<>>]
    /\ amf = {} /\ events = 0
    /\ untimely = FALSE /\ misfit = FALSE /\ no_old = FALSE /\ exit = "no"

-----------------------------------------------------------------------------
(* The CU.                                                                  *)

(* nr_rrc_trigger_f1_ho, nr_initiate_handover: a measurement report or the   *)
(* operator asks for it; refused while a handover or a transaction is on.   *)
TriggerF1Ho(c, t) ==
    /\ Live(c) /\ ctx[c].sec /\ ctx[c].du # NoDu /\ t \in dus \ {ctx[c].du}
    /\ ~HandingOver(c) /\ ctx[c].xids = {}
    /\ Event
    /\ ctx' = [ctx EXCEPT ![c].ho = [src |-> ctx[c].du, src_id |-> ctx[c].id,
                                     old_cg |-> ctx[c].cg, tgt |-> t, tgt_id |-> 0]]
    /\ to_du' = Queued(to_du, t, [t |-> "setup", cu |-> c])
    /\ untimely' = (untimely \/ ctx[c].an_release \/ BearersAsked(c))
    /\ UNCHANGED <<dus, amf, to_cu, duVars, ue, misfit, no_old, exit>>

(* rrc_gNB_generate_dedicatedRRCReconfiguration: r is the context of UE c    *)
(* with the cell group that has come; the UE has to have a DU (DevAssert).   *)
GenerateReconfiguration(c, r) ==
    \/ /\ r.du = NoDu
       /\ exit' = "no_du"
       /\ UNCHANGED <<ctx, to_du, misfit>>
    \/ /\ r.du # NoDu
       /\ ctx' = [ctx EXCEPT ![c] = [r EXCEPT !.xids = @ \cup {"session"}]]
       /\ to_du' = Transfer(to_du, c, 0, "session")
       /\ Misfits(c)
       /\ UNCHANGED exit

(* rrc_CU_process_ue_context_setup_response: the answer of a handover's      *)
(* target makes the reconfiguration that goes through the source             *)
(* (nr_rrc_f1_ho_acknowledge); without a handover, an ordinary one.  During  *)
(* a handover the UE has a DU, whose loss would have ended the handover.     *)
SetupResponse(d) ==
    /\ Took(d, "setup_resp") /\ CuTakes(d)
    /\ LET c == Head(to_cu[d]).cu
           i == Head(to_cu[d]).id
       IN  \/ /\ ~Live(c)
              /\ UNCHANGED <<cuVars, to_du, history>>
           \/ /\ Live(c) /\ ~HandingOver(c)
              /\ GenerateReconfiguration(c, [ctx[c] EXCEPT !.cg = d, !.f1 = TRUE])
              /\ UNCHANGED <<dus, amf, untimely, no_old>>
           \/ /\ Live(c) /\ HandingOver(c)
              /\ ctx' = [ctx EXCEPT ![c].cg = d, ![c].f1 = TRUE, ![c].ho.tgt_id = i,
                                    ![c].xids = @ \cup {"dedicated"}]
              /\ to_du' = IF ctx[c].du = NoDu THEN to_du
                          ELSE Queued(to_du, ctx[c].du,
                                      [t |-> "modif", cu |-> c, id |-> ctx[c].id,
                                       to |-> d, to_id |-> i])
              /\ UNCHANGED <<dus, amf, history>>
    /\ UNCHANGED <<duVars, ue, events>>

(* The same, for the bearers of a UE that has just been set up.  The answer  *)
(* has no C-RNTI, which the code reads if a handover is on.                 *)
BearersResponse(d) ==
    /\ Took(d, "bearers_resp") /\ CuTakes(d)
    /\ LET c == Head(to_cu[d]).cu
       IN  \/ /\ ~Live(c)
              /\ UNCHANGED <<ctx, to_du, misfit, exit>>
           \/ /\ Live(c) /\ ~HandingOver(c)
              /\ GenerateReconfiguration(c, [ctx[c] EXCEPT !.cg = d, !.f1 = TRUE])
           \/ /\ Live(c) /\ HandingOver(c)
              /\ exit' = "no_crnti"
              /\ UNCHANGED <<ctx, to_du, misfit>>
    /\ UNCHANGED <<dus, amf, duVars, ue, events, untimely, no_old>>

ModificationResponseKeepsId(d) ==
    /\ Took(d, "modif_resp") /\ CuTakes(d)
    /\ LET c == Head(to_cu[d]).cu
       IN  IF Live(c) /\ HandingOver(c)
           THEN ctx' = [ctx EXCEPT ![c].du = ctx[c].ho.tgt]
           ELSE UNCHANGED ctx
    /\ UNCHANGED <<dus, amf, to_du, duVars, ue, events, history>>

(* rrc_CU_process_ue_context_modification_response: the UE has been told to  *)
(* go, its F1 data now name the target.                                     *)
ModificationResponse(d) ==
    /\ Took(d, "modif_resp") /\ CuTakes(d)
    /\ LET c == Head(to_cu[d]).cu
       IN  IF Live(c) /\ HandingOver(c)
           THEN ctx' = [ctx EXCEPT ![c].du = ctx[c].ho.tgt, ![c].id = ctx[c].ho.tgt_id]
           ELSE UNCHANGED ctx
    /\ UNCHANGED <<dus, amf, to_du, duVars, ue, events, history>>

(* The same, for bearers: with the new cell group, and the switch that the    *)
(* response to a handover would make.                                       *)
MoreBearersResponse(d) ==
    /\ Took(d, "more_bearers_resp") /\ CuTakes(d)
    /\ LET c == Head(to_cu[d]).cu
       IN  \/ /\ ~Live(c)
              /\ UNCHANGED <<ctx, to_du, misfit, exit>>
           \/ /\ Live(c) /\ ~HandingOver(c)
              /\ GenerateReconfiguration(c, [ctx[c] EXCEPT !.cg = d])
           \/ /\ Live(c) /\ HandingOver(c)
              /\ ctx' = [ctx EXCEPT ![c].cg = d, ![c].xids = @ \cup {"session"},
                                    ![c].du = ctx[c].ho.tgt, ![c].id = ctx[c].ho.tgt_id]
              /\ to_du' = Queued(to_du, ctx[c].du, DlRrc(c, ctx[c].id, 0, "session", d))
              /\ misfit' = (misfit \/ d # ctx[c].du)
              /\ UNCHANGED exit
    /\ UNCHANGED <<dus, amf, duVars, ue, events, untimely, no_old>>

(* rrc_CU_process_ue_modification_required, nr_rrc_reconfiguration_req: any   *)
(* DU but the source of a handover replaces the cell group.                 *)
ModificationRequired(d) ==
    /\ Took(d, "required") /\ CuTakes(d)
    /\ LET m == Head(to_cu[d])
           c == m.cu
       IN  \/ /\ ~Live(c)
              /\ to_du' = Queued(to_du, d, [t |-> "refuse", cu |-> c, id |-> m.id])
              /\ UNCHANGED <<ctx, untimely, misfit>>
           \/ /\ Live(c) /\ HandingOver(c) /\ ctx[c].ho.src = d
              /\ UNCHANGED <<ctx, to_du, untimely, misfit>>
           \/ /\ Live(c) /\ ~(HandingOver(c) /\ ctx[c].ho.src = d)
              /\ ctx' = [ctx EXCEPT ![c].cg = d, ![c].xids = @ \cup {"required"}]
              /\ to_du' = Transfer(to_du, c, 0, "required")
              /\ Misfits(c)
              /\ untimely' = (untimely \/ d # ctx[c].du)
    /\ UNCHANGED <<dus, amf, duVars, ue, events, no_old, exit>>

ReconfigurationCompleteNoRelease(d) ==
    /\ Took(d, "complete") /\ CuTakes(d)
    /\ LET c == Head(to_cu[d]).cu
       IN  IF ~Live(c) THEN UNCHANGED ctx
           ELSE ctx' = [ctx EXCEPT ![c].xids = @ \ {Head(to_cu[d]).what}, ![c].ho = NoHo]
    /\ UNCHANGED <<dus, amf, to_du, duVars, ue, events, history>>

(* handle_rrcReconfigurationComplete: whichever transaction it answers, it   *)
(* concludes the handover that is on (nr_rrc_f1_ho_complete).               *)
ReconfigurationComplete(d) ==
    /\ Took(d, "complete") /\ CuTakes(d)
    /\ LET m == Head(to_cu[d])
           c == m.cu
       IN  IF ~Live(c) THEN UNCHANGED <<ctx, to_du, untimely>>
           ELSE /\ ctx' = [ctx EXCEPT ![c].xids = @ \ {m.what}, ![c].ho = NoHo]
                /\ IF ~HandingOver(c) THEN UNCHANGED <<to_du, untimely>>
                   ELSE /\ to_du' = Queued(to_du, ctx[c].ho.src,
                                           Release(c, ctx[c].ho.src_id, FALSE))
                        /\ untimely' = (untimely \/ ~Switched(c))
    /\ UNCHANGED <<dus, amf, duVars, ue, events, misfit, no_old, exit>>

(* The context of a reestablishment request: by the C-RNTI at the DU that    *)
(* relays it, else by the source cell of a handover.                        *)
ByRnti(d, rnti) == {c \in CuIds : Live(c) /\ ctx[c].du = d /\ ctx[c].id = rnti}
BySourceCell(pci, rnti) ==
    {c \in CuIds : HandingOver(c) /\ ctx[c].ho.src = pci /\ ctx[c].ho.src_id = rnti}
Sought(d, pci, rnti) ==
    IF ByRnti(d, rnti) # {} THEN ByRnti(d, rnti) ELSE BySourceCell(pci, rnti)

OnSource(c, pci) == HandingOver(c) /\ pci = ctx[c].ho.src

RolledBackWithoutCellGroup(c) ==
    [ctx[c] EXCEPT !.xids = @ \ {"dedicated", "required"},
                   !.du = ctx[c].ho.src, !.ho = NoHo]
CancelledAtSource(c) ==
    Queued(to_du, ctx[c].ho.src, Release(c, ctx[c].ho.src_id, FALSE))

(* ho_cancel, and the context as it was before the handover.                *)
RolledBack(c) ==
    [ctx[c] EXCEPT !.xids = @ \ {"dedicated", "required"},
                   !.cg = ctx[c].ho.old_cg, !.du = ctx[c].ho.src, !.ho = NoHo]
Cancelled(c) ==
    Queued(to_du, ctx[c].ho.tgt, Release(c, ctx[c].ho.tgt_id, FALSE))

FallBackSwapped(d, i, old) ==
    /\ ctx' = [ctx EXCEPT ![NewCuId] = NewCtx(i, d)]
    /\ amf' = amf \cup old
    /\ to_du' = Transfer(to_du, NewCuId, 0, "setup")
    /\ UNCHANGED history

(* fallback_rrc_setup: a new context, and the old one is to be released.    *)
FallBack(d, i, old) ==
    /\ ctx' = [ctx EXCEPT ![NewCuId] = NewCtx(d, i)]
    /\ amf' = amf \cup old
    /\ to_du' = Transfer(to_du, NewCuId, 0, "setup")
    /\ untimely' = (untimely \/ UnderWay(NewCuId))
    /\ UNCHANGED <<misfit, no_old, exit>>

(* rrc_handle_RRCReestablishmentRequest.  Without MIB, SIB1 or measurement   *)
(* timing of the cell, or with a C-RNTI out of range, the context is not     *)
(* looked for.                                                              *)
ReestablishmentRequest(d) ==
    /\ Took(d, "reest_req") /\ CuTakes(d)
    /\ LET m == Head(to_cu[d])
           found == Sought(d, m.pci, m.rnti)
           c == CHOOSE k \in found : TRUE
           back == IF OnSource(c, m.pci) THEN RolledBack(c) ELSE ctx[c]
           q == IF OnSource(c, m.pci) THEN Cancelled(c) ELSE to_du
       IN  \/ FallBack(d, m.id, {})
           \/ /\ found # {} /\ ~OnSource(c, m.pci) /\ (m.pci # d \/ ~ctx[c].sec)
              /\ FallBack(d, m.id, {c})
           \/ /\ found # {} /\ (OnSource(c, m.pci) \/ (m.pci = d /\ ctx[c].sec))
              /\ ctx' = [ctx EXCEPT ![c] =
                           [back EXCEPT !.id = m.id, !.xids = @ \cup {"reestab"}]]
              /\ to_du' = Transfer(q, c, m.rnti, "reestab")
              /\ untimely' = \/ untimely \/ d # back.du \/ ctx[c].an_release
                             \/ HandingOver(c) /\ ctx[c].ho.tgt_id = 0
              /\ UNCHANGED <<amf, misfit, no_old, exit>>
    /\ UNCHANGED <<dus, duVars, ue, events>>

(* rrc_gNB_process_RRCReestablishmentComplete: the cell group is read        *)
(* whether there is one or not.                                             *)
ReestablishmentComplete(d) ==
    /\ Took(d, "reest_compl") /\ CuTakes(d)
    /\ LET c == Head(to_cu[d]).cu
       IN  \/ /\ ~Live(c)
              /\ UNCHANGED <<ctx, to_du, misfit, exit>>
           \/ /\ Live(c) /\ ctx[c].cg = NoDu
              /\ exit' = "no_cg"
              /\ UNCHANGED <<ctx, to_du, misfit>>
           \/ /\ Live(c) /\ ctx[c].cg # NoDu
              /\ ctx' = [ctx EXCEPT ![c].xids = (@ \ {"reestab"}) \cup {"reestab_done"}]
              /\ to_du' = Transfer(to_du, c, 0, "reestab_done")
              /\ Misfits(c)
              /\ UNCHANGED exit
    /\ UNCHANGED <<dus, amf, duVars, ue, events, untimely, no_old>>

ReleaseRequestKeepsHandover(d) ==
    /\ Took(d, "rel_req") /\ CuTakes(d)
    /\ LET c == Head(to_cu[d]).cu
           ho == ctx[c].ho
       IN  \/ /\ Live(c) /\ HandingOver(c)
              /\ to_du' = Queued(to_du, d, Release(c, IF ho.src = d THEN ho.src_id
                                                      ELSE ho.tgt_id, FALSE))
              /\ UNCHANGED amf
           \/ /\ ~(Live(c) /\ HandingOver(c))
              /\ amf' = IF Live(c) THEN amf \cup {c} ELSE amf
              /\ UNCHANGED to_du
    /\ UNCHANGED <<dus, ctx, duVars, ue, events, history>>

(* rrc_CU_process_ue_context_release_request.                               *)
ReleaseRequest(d) ==
    /\ Took(d, "rel_req") /\ CuTakes(d)
    /\ LET c == Head(to_cu[d]).cu
       IN  \/ /\ ~Live(c)
              /\ UNCHANGED <<ctx, amf, to_du, untimely>>
           \/ /\ Live(c) /\ HandingOver(c) /\ ctx[c].ho.src = d
              /\ to_du' = Queued(to_du, d, Release(c, ctx[c].ho.src_id, FALSE))
              /\ ctx' = [ctx EXCEPT ![c].ho = NoHo]
              /\ untimely' = (untimely \/ ~Switched(c))
              /\ UNCHANGED amf
           \/ /\ Live(c) /\ ~(HandingOver(c) /\ ctx[c].ho.src = d)
              /\ ctx' = [ctx EXCEPT ![c].ho = NoHo]
              /\ amf' = amf \cup {c}
              /\ untimely' = (untimely \/ HandingOver(c))
              /\ UNCHANGED to_du
    /\ UNCHANGED <<dus, duVars, ue, events, misfit, no_old, exit>>

(* rrc_CU_process_ue_context_release_complete: only a release that the core  *)
(* has asked for removes the UE.                                            *)
ReleaseComplete(d) ==
    /\ Took(d, "rel_compl") /\ CuTakes(d)
    /\ LET c == Head(to_cu[d]).cu
       IN  IF Live(c) /\ ctx[c].an_release THEN Removed(c) ELSE UNCHANGED <<ctx, amf, untimely>>
    /\ UNCHANGED <<dus, to_du, duVars, ue, events, misfit, no_old, exit>>

LostConnectionOfServedUes(d) ==
    /\ Took(d, "lost") /\ CuTakes(d)
    /\ dus' = dus \ {d}
    /\ ctx' = [c \in CuIds |-> IF ctx[c].du # d THEN ctx[c]
                               ELSE [ctx[c] EXCEPT !.ho = NoHo, !.du = NoDu]]
    /\ amf' = amf \cup {c \in CuIds : Live(c) /\ ctx[c].du = d}
    /\ UNCHANGED <<to_du, duVars, ue, events, history>>

(* rrc_CU_process_f1_lost_connection, invalidate_du_connections: every       *)
(* handover is finalized, the UEs of the DU are without one.                *)
LostConnection(d) ==
    /\ Took(d, "lost") /\ CuTakes(d)
    /\ dus' = dus \ {d}
    /\ ctx' = [c \in CuIds |->
                 [ctx[c] EXCEPT !.ho = NoHo, !.du = IF @ = d THEN NoDu ELSE @]]
    /\ amf' = amf \cup {c \in CuIds : Live(c) /\ ctx[c].du = d}
    /\ untimely' = (untimely \/ \E c \in CuIds : HandingOver(c))
    /\ UNCHANGED <<to_du, duVars, ue, events, misfit, no_old, exit>>

(* rrc_gNB_process_NGAP_UE_CONTEXT_RELEASE_COMMAND; the AMF commands what it *)
(* was asked for, of UEs that have registered and that it has not released.  *)
ReleaseCommand(c) ==
    /\ c \in amf /\ ctx[c].sec
    /\ \/ /\ ctx[c].du # NoDu
          /\ ctx' = [ctx EXCEPT ![c].an_release = TRUE]
          /\ amf' = amf \ {c}
          /\ to_du' = Queued(to_du, ctx[c].du, Release(c, ctx[c].id, TRUE))
          /\ untimely' = (untimely \/ HandingOver(c))
       \/ /\ ctx[c].du = NoDu
          /\ Removed(c)
          /\ UNCHANGED to_du
    /\ UNCHANGED <<dus, to_cu, duVars, ue, events, misfit, no_old, exit>>

(* The AMF may want a UE released by itself.                                *)
AmfReleases(c) ==
    /\ Live(c) /\ ctx[c].sec /\ ~ctx[c].an_release /\ c \notin amf
    /\ Event
    /\ amf' = amf \cup {c}
    /\ UNCHANGED <<dus, ctx, netVars, duVars, ue, history>>

(* rrc_gNB_process_e1_bearer_context_setup_resp, for a PDU session that the  *)
(* AMF wants: UE Context Setup the first time, then Modification.           *)
SetupSession(c) ==
    /\ Live(c) /\ ctx[c].sec /\ ctx[c].du # NoDu
    /\ Event
    /\ to_du' = Queued(to_du, ctx[c].du, [t |-> IF ctx[c].f1 THEN "more_bearers" ELSE "bearers",
                                          cu |-> c, id |-> ctx[c].id])
    /\ untimely' = (untimely \/ HandingOver(c))
    /\ UNCHANGED <<cuVars, to_cu, duVars, ue, misfit, no_old, exit>>

(* rrc_gNB_modify_dedicatedRRCReconfiguration, for a PDU session; it carries  *)
(* no cell group.                                                           *)
ModifySession(c) ==
    /\ Live(c) /\ ctx[c].sec
    /\ Event
    /\ ctx' = [ctx EXCEPT ![c].xids = @ \cup {"session"}]
    /\ to_du' = Transfer(to_du, c, 0, "session")
    /\ UNCHANGED <<dus, amf, to_cu, duVars, ue, history>>

(* From RRC Setup to the activation of AS security, with the UE in place.   *)
Register(c) ==
    /\ Live(c) /\ ~ctx[c].sec /\ UeIn(ctx[c].du, ctx[c].id)
    /\ ctx' = [ctx EXCEPT ![c].sec = TRUE]
    /\ UNCHANGED <<dus, amf, netVars, duVars, ue, events, history>>

-----------------------------------------------------------------------------
(* The DUs.                                                                 *)

DuTakes(d) == to_du' = [to_du EXCEPT ![d] = Tail(@)]
Sent(d, m) == to_cu' = [to_cu EXCEPT ![d] = Append(@, m)]

(* ue_context_setup_request without a DU UE ID: create_new_UE.              *)
DuSetupRequest(d) ==
    /\ TookCmd(d, "setup") /\ DuTakes(d)
    /\ LET c == Head(to_du[d]).cu
       IN  /\ mac' = [mac EXCEPT ![NewId] = [du |-> d, cu |-> c, st |-> "active"]]
           /\ Sent(d, [t |-> "setup_resp", cu |-> c, id |-> NewId])
    /\ UNCHANGED <<cuVars, up, ue, events, history>>

(* ue_context_modification_request: the reconfiguration goes to the UE, which *)
(* may miss it, and transmission stops.                                     *)
DuModificationRequest(d) ==
    /\ TookCmd(d, "modif") /\ DuTakes(d)
    /\ LET m == Head(to_du[d])
       IN  IF ~Known(d, m.id) THEN UNCHANGED <<to_cu, ue>>
           ELSE /\ Sent(d, [t |-> "modif_resp", cu |-> m.cu])
                /\ ue' = IF UeIn(d, m.id)
                          THEN [ue EXCEPT !.here = FALSE,
                                  !.next = [du |-> m.to, id |-> m.to_id, why |-> "ho"]]
                          ELSE ue
    /\ UNCHANGED <<cuVars, duVars, events, history>>

(* ue_context_release_command: at once, unless an RRC Release has first to    *)
(* reach the UE; also at once if the UE is not heard and that was noticed     *)
(* (ul_failure).                                                            *)
DuReleaseCommand(d) ==
    /\ TookCmd(d, "release") /\ DuTakes(d)
    /\ LET m == Head(to_du[d])
       IN  \/ /\ Known(d, m.id) /\ m.air /\ mac[m.id].st # "failed"
              /\ mac' = [mac EXCEPT ![m.id].st = "releasing"]
              /\ ue' = IF UeIn(d, m.id) THEN [ue EXCEPT !.here = FALSE, !.id = 0] ELSE ue
              /\ UNCHANGED to_cu
           \/ /\ Known(d, m.id) /\ m.air => mac[m.id].st = "failed" \/ ~UeIn(d, m.id)
              /\ mac' = IF Known(d, m.id) THEN [mac EXCEPT ![m.id].st = "gone"] ELSE mac
              /\ IF Known(d, m.id) /\ mac[m.id].cu = 0 THEN UNCHANGED to_cu
                 ELSE Sent(d, [t |-> "rel_compl",
                               cu |-> IF Known(d, m.id) THEN mac[m.id].cu ELSE m.cu])
              /\ UNCHANGED ue
    /\ UNCHANGED <<cuVars, up, events, history>>

ReleaseTimerExpiresSilently(i) ==
    /\ mac[i].st = "releasing"
    /\ mac' = [mac EXCEPT ![i].st = "gone"]
    /\ UNCHANGED <<cuVars, netVars, up, ue, events, history>>

(* nr_mac_check_release, nr_mac_trigger_release_complete.                   *)
ReleaseTimerExpires(i) ==
    /\ mac[i].st = "releasing"
    /\ mac' = [mac EXCEPT ![i].st = "gone"]
    /\ IF mac[i].cu = 0 THEN UNCHANGED to_cu
       ELSE Sent(mac[i].du, [t |-> "rel_compl", cu |-> mac[i].cu])
    /\ UNCHANGED <<cuVars, to_du, up, ue, events, history>>

(* What the UE does with an RRC message that reaches it through context m.id *)
(* of d, and the message it answers with.                                   *)
UeAnswers(d, m) ==
    /\ ue' = [du |-> d, id |-> m.id, here |-> TRUE, next |-> Nowhere]
    /\ IF m.what = "setup" THEN UNCHANGED to_cu
       ELSE Sent(d, [t |-> IF m.what = "reestab" THEN "reest_compl" ELSE "complete",
                     cu |-> m.cu, what |-> m.what])

(* The DU dies, or its association does.                                    *)
Dies(d) ==
    /\ up' = up \ {d}
    /\ to_du' = [to_du EXCEPT ![d] = <<>>]
    /\ Sent(d, [t |-> "lost"])
    /\ mac' = [i \in Ids |-> IF mac[i].du = d THEN [mac[i] EXCEPT !.st = "gone"] ELSE mac[i]]
    /\ ue' = [ue EXCEPT !.here = @ /\ ue.du # d]

(* dl_rrc_message_transfer; with an old DU UE ID, the context takes over, and *)
(* without such a context the DU follows a NULL pointer.                     *)
DuDlRrc(d) ==
    /\ TookCmd(d, "dl")
    /\ LET m == Head(to_du[d])
           has_old == m.old = 0 \/ Known(d, m.old)
       IN  \/ /\ ~Known(d, m.id)
              /\ DuTakes(d)
              /\ UNCHANGED <<to_cu, duVars, ue, no_old>>
           \/ /\ Known(d, m.id) /\ has_old
              /\ DuTakes(d)
              /\ mac' = [i \in Ids |->
                     IF i = m.id /\ mac[i].cu = 0 THEN [mac[i] EXCEPT !.cu = m.cu]
                     ELSE IF i = m.old THEN [mac[i] EXCEPT !.st = "gone"]
                     ELSE mac[i]]
              /\ IF UeIn(d, m.id) \/ ue.next = [du |-> d, id |-> m.id, why |-> "reest"]
                 THEN UeAnswers(d, m) ELSE UNCHANGED <<ue, to_cu>>
              /\ UNCHANGED <<up, no_old>>
           \/ /\ Known(d, m.id) /\ ~has_old
              /\ Dies(d)
              /\ no_old' = TRUE
    /\ UNCHANGED <<cuVars, events, untimely, misfit, exit>>

(* ue_context_setup_request with the DU UE ID of the UE whose bearers are      *)
(* wanted: without such a UE the DU follows a NULL pointer.                  *)
DuBearersRequest(d) ==
    /\ TookCmd(d, "bearers")
    /\ LET m == Head(to_du[d])
       IN  \/ /\ Known(d, m.id)
              /\ DuTakes(d)
              /\ Sent(d, [t |-> "bearers_resp", cu |-> m.cu])
              /\ UNCHANGED <<duVars, ue>>
           \/ /\ ~Known(d, m.id)
              /\ Dies(d)
    /\ UNCHANGED <<cuVars, events, history>>

(* ue_context_modification_request for bearers.                             *)
DuMoreBearersRequest(d) ==
    /\ TookCmd(d, "more_bearers") /\ DuTakes(d)
    /\ LET m == Head(to_du[d])
       IN  IF Known(d, m.id) THEN Sent(d, [t |-> "more_bearers_resp", cu |-> m.cu])
           ELSE UNCHANGED to_cu
    /\ UNCHANGED <<cuVars, duVars, ue, events, history>>

(* ue_context_modification_refuse: the DU asks for the release instead.      *)
DuModificationRefuse(d) ==
    /\ TookCmd(d, "refuse") /\ DuTakes(d)
    /\ LET m == Head(to_du[d])
       IN  IF Known(d, m.id) THEN Sent(d, [t |-> "rel_req", cu |-> m.cu])
           ELSE UNCHANGED to_cu
    /\ UNCHANGED <<cuVars, duVars, ue, events, history>>

(* nr_mac_check_ul_failure: the UE has not been heard in this context, and it *)
(* is not on its way there, for 30 s; by then F1 has delivered what was sent. *)
Quiet == \A d \in Dus : to_du[d] = <<>> /\ to_cu[d] = <<>>
UlFailure(i) ==
    /\ mac[i].st = "active" /\ Quiet
    /\ ~(ue.here /\ ue.id = i) /\ ue.next.id # i
    /\ IF mac[i].cu = 0
       THEN /\ mac' = [mac EXCEPT ![i].st = "gone"] /\ UNCHANGED to_cu
       ELSE /\ mac' = [mac EXCEPT ![i].st = "failed"]
            /\ Sent(mac[i].du, [t |-> "rel_req", cu |-> mac[i].cu])
    /\ UNCHANGED <<cuVars, to_du, up, ue, events, history>>

DuLost(d) ==
    /\ d \in up /\ Event
    /\ Dies(d)
    /\ UNCHANGED <<cuVars, history>>

-----------------------------------------------------------------------------
(* The UE.                                                                  *)

(* It reaches the cell that its handover command names.                     *)
UeArrives ==
    /\ ue.next.why = "ho" /\ Known(ue.next.du, ue.next.id)
    /\ ue' = [du |-> ue.next.du, id |-> ue.next.id, here |-> TRUE, next |-> Nowhere]
    /\ Sent(ue.next.du, [t |-> "complete", cu |-> mac[ue.next.id].cu, what |-> "dedicated"])
    /\ UNCHANGED <<cuVars, to_du, duVars, events, history>>

UeLosesRadio ==
    /\ ue.here /\ ue' = [ue EXCEPT !.here = FALSE]
    /\ UNCHANGED <<cuVars, netVars, duVars, events, history>>

(* T304 or T301 expires; without reestablishment it becomes idle.           *)
UeGivesUp ==
    /\ ue.next # Nowhere
    /\ ue' = [ue EXCEPT !.next = Nowhere, !.id = IF ue.next.why = "ho" THEN @ ELSE 0]
    /\ UNCHANGED <<cuVars, netVars, duVars, events, history>>

(* After a radio link or handover failure it asks any cell to reestablish,   *)
(* naming the cell and the C-RNTI that it used last.                        *)
UeReestablishes(d) ==
    /\ d \in up /\ Event
    /\ ~ue.here /\ ue.id # 0 /\ ue.next.why # "reest"
    /\ mac' = [mac EXCEPT ![NewId] = [du |-> d, cu |-> 0, st |-> "active"]]
    /\ ue' = [ue EXCEPT !.next = [du |-> d, id |-> NewId, why |-> "reest"]]
    /\ Sent(d, [t |-> "reest_req", pci |-> ue.du, rnti |-> ue.id, id |-> NewId])
    /\ UNCHANGED <<cuVars, to_du, up, history>>

(* It is heard again, or asks for uplink resources, by random access with    *)
(* its C-RNTI (nr_rx_sdu): uplink failure is over, and the DU asks for a     *)
(* reconfiguration (nr_mac_trigger_reconfiguration) unless one is pending.   *)
(* A UE that has failed to reach the target of a handover is let do so too.  *)
UeReturns ==
    /\ Event
    /\ ue.next = Nowhere /\ Known(ue.du, ue.id) /\ mac[ue.id].cu # 0
    /\ ue' = [ue EXCEPT !.here = TRUE]
    /\ mac' = [mac EXCEPT ![ue.id].st = IF @ = "failed" THEN "active" ELSE @]
    /\ \/ Sent(ue.du, [t |-> "required", cu |-> mac[ue.id].cu, id |-> ue.id])
       \/ UNCHANGED to_cu
    /\ UNCHANGED <<cuVars, to_du, up, history>>

CuReceives(d) ==
    \/ SetupResponse(d) \/ ModificationResponse(d) \/ ReconfigurationComplete(d)
    \/ BearersResponse(d) \/ MoreBearersResponse(d) \/ ModificationRequired(d)
    \/ ReestablishmentRequest(d) \/ ReestablishmentComplete(d)
    \/ ReleaseRequest(d) \/ ReleaseComplete(d) \/ LostConnection(d)

DuReceives(d) ==
    \/ DuSetupRequest(d) \/ DuModificationRequest(d) \/ DuReleaseCommand(d)
    \/ DuDlRrc(d) \/ DuBearersRequest(d) \/ DuMoreBearersRequest(d)
    \/ DuModificationRefuse(d)

Step ==
    \/ \E d \in Dus : CuReceives(d) \/ DuReceives(d) \/ DuLost(d) \/ UeReestablishes(d)
    \/ \E c \in CuIds : \/ \E t \in Dus : TriggerF1Ho(c, t)
                        \/ ReleaseCommand(c) \/ AmfReleases(c)
                        \/ SetupSession(c) \/ ModifySession(c) \/ Register(c)
    \/ \E i \in Ids : UlFailure(i) \/ ReleaseTimerExpires(i)
    \/ UeArrives \/ UeLosesRadio \/ UeGivesUp \/ UeReturns

(* Nothing is said of what comes after the end of the CU.                   *)
Running(step) == exit = "no" /\ step
Next == exit = "no" /\ Step

Spec == Init /\ [][Next]_vars

Fairness ==
    /\ \A d \in Dus : WF_vars(Running(CuReceives(d))) /\ WF_vars(Running(DuReceives(d)))
    /\ \A c \in CuIds : WF_vars(Running(ReleaseCommand(c)))
    /\ \A i \in Ids : WF_vars(Running(UlFailure(i))) /\ WF_vars(Running(ReleaseTimerExpires(i)))
    /\ WF_vars(Running(UeGivesUp))

FairSpec == Spec /\ Fairness

-----------------------------------------------------------------------------
(* Type invariant: what the CU, the DUs, the AMF, the UEs and the F1 links hold. *)
TypeOK ==
    /\ dus \subseteq Dus /\ up \subseteq Dus /\ amf \subseteq CuIds
    /\ ctx \in [CuIds -> [live : BOOLEAN, du : AnyDu, id : AnyId, cg : AnyDu,
                          ho : [src : AnyDu, src_id : AnyId, old_cg : AnyDu,
                                tgt : AnyDu, tgt_id : AnyId],
                          f1 : BOOLEAN, an_release : BOOLEAN, sec : BOOLEAN,
                          xids : SUBSET {"dedicated", "required", "session",
                                         "reestab", "reestab_done"}]]
    /\ mac \in [Ids -> [du : AnyDu, cu : 0..MaxEvents + 1,
                        st : {"none", "active", "failed", "releasing", "gone"}]]
    /\ events \in 0..MaxEvents
    /\ exit \in {"no", "no_du", "no_crnti", "no_cg"}

(* No UE context names a DU that the registry has lost: not as the DU of     *)
(* the UE, not as the source or the target of a handover.  The mobility code *)
(* asserts that it finds the DU of either (get_du_by_assoc_id), and a        *)
(* request that a lost DU sent must not bring it back.  Nor does the CU die  *)
(* of the loss, or of an answer that it takes for a handover's, unless one   *)
(* of the races has happened: a reconfiguration asserts that the UE has a DU. *)
NoDanglingDu ==
    /\ \A c \in CuIds :
          /\ ctx[c].du \in dus \cup {NoDu}
          /\ HandingOver(c) => {ctx[c].ho.src, ctx[c].ho.tgt} \subseteq dus
    /\ exit \in {"no_du", "no_crnti"} => untimely

(* The two halves of a UE's F1 data belong together: the DU UE ID under      *)
(* which the CU addresses a UE is one that the DU it sends to gave out,      *)
(* through handovers, cancellations and reestablishments that arrive in      *)
(* their turn.  du_assoc_id and secondary_ue are written by different        *)
(* handlers.                                                                *)
IdIsItsDus ==
    \A c \in CuIds : Live(c) /\ ctx[c].du # NoDu /\ ~MadeBy(ctx[c].du, ctx[c].id)
                        => untimely

(* A reconfiguration other than a handover's that carries a CellGroupConfig   *)
(* carries that of the DU that serves the UE.  masterCellGroup is the         *)
(* target's from the setup response on and is put back when the UE returns    *)
(* to the source; an answer about bearers and a modification that a DU        *)
(* requires replace it as well.                                             *)
CellGroupFits == misfit => untimely

(* The old DU UE ID that goes with an RRCReestablishment is one the DU still  *)
(* has: dl_rrc_message_transfer takes RLC and MAC state over from it without  *)
(* a check.                                                                 *)
OldContextThere == no_old => untimely

(* A UE whose release the core has commanded leaves the RRC: the DU answers  *)
(* in every state of its context, or its loss removes the UE.               *)
AnReleaseCompletes ==
    \A c \in CuIds : ctx[c].an_release ~> (~ctx[c].an_release \/ untimely \/ exit # "no")

(* A handover does not stay on for ever, whether the UE arrives, comes back, *)
(* or is never heard of again.  There is no timer at the CU: the radio link  *)
(* failure of one of the two DUs has to end it.                             *)
HandoverEnds == \A c \in CuIds : HandingOver(c) ~> (~HandingOver(c) \/ exit # "no")

(* A DU that has asked for the release of a UE keeps the context and does    *)
(* not ask again; the CU sees to it that the context goes.  A UE that never  *)
(* registered is unknown to the AMF, so nobody commands its release.         *)
Unregistered(c) == ctx[c].live /\ ~ctx[c].sec
FailedContextLeaves ==
    \A i \in Ids : mac[i].st = "failed"
        ~> \/ mac[i].st # "failed" \/ untimely \/ exit # "no"
           \/ \E c \in CuIds : c = mac[i].cu /\ Unregistered(c)
=============================================================================
