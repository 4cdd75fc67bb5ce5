---------------------------- MODULE NrPdcpEntity ----------------------------
(***************************************************************************)
(* One NR PDCP entity (openair2/LAYER2/nr_pdcp/nr_pdcp_entity.c): COUNT     *)
(* numbering of transmitted SDUs, HFN inference, duplicate discard,         *)
(* reordering under t-Reordering, suspension, re-establishment, release.    *)
(*                                                                         *)
(* Every operation runs under the manager lock (nr_pdcp_ue_manager.c), so   *)
(* each is one action.  rx_list is the set of stored SDUs: the C list is    *)
(* kept sorted by count and is only ever consumed from its head, so the     *)
(* order in which a burst is delivered is the order of its counts.          *)
(*                                                                         *)
(* The clock enters the code only through "is it still 0" and through      *)
(* t_current - t_reordering_start, so those two are the state here:        *)
(* t_known is t_current # 0, and t_age is that difference, or Stopped       *)
(* when t_reordering_start = 0.                                            *)
(*                                                                         *)
(* The re-establishment actions model the entity's reestablish_entity      *)
(* interface; nr_pdcp_reestablishment, which would call it, has its body   *)
(* commented out at this commit.                                           *)
(***************************************************************************)
EXTENDS Integers, Sequences, FiniteSets

CONSTANTS
    WindowSize,    \* window_size, 2^(sn_size-1)
    CountModulus,  \* 2^32, the width of the COUNT variables
    Bearers,       \* the bearers configured: type, and t_reordering in ms
    Keys, NoKey,   \* keys; NoKey stands for algorithm 0 (not protected)
    Keep,          \* algorithm -1 of set_security: leave as it is
    SecurityInputs,\* parameters callers pass to set_security and re-establishment
    MaxCount,      \* bound: PDUs with COUNT in 0..MaxCount-1
    MaxEpoch       \* bound on the number of epochs

Infinity == -1
Stopped == -1
SnModulus == 2 * WindowSize            \* sn_max + 1
Security == [integ : Keys \cup {NoKey}, ciph : Keys \cup {NoKey}]

ASSUME WindowAssumption == WindowSize \in Nat \ {0}
ASSUME CountAssumption ==
    /\ MaxCount \in Nat
    /\ CountModulus \in Nat
    /\ MaxCount < CountModulus
    /\ MaxEpoch \in Nat
ASSUME BearersAssumption ==
    Bearers \subseteq [type : {"SRB", "DRB_AM", "DRB_UM"},
                       t_reordering : Nat \cup {Infinity}]
ASSUME SecurityAssumption ==
    SecurityInputs \subseteq
        [integ : Keys \cup {NoKey, Keep}, ciph : Keys \cup {NoKey, Keep}]

VARIABLES
    bearer,            \* type and t_reordering of this bearer, the same for good
    exists,            \* the entity is allocated and reachable from its UE
    tx_next, rx_next, rx_deliv, rx_reord,
    rx_list,           \* stored SDUs
    t_known, t_age,
    security,          \* algorithms and keys in force
    entity_suspended,
    epoch, log,        \* history: bursts delivered to the upper layer
    rx_at_zero         \* history: t-Reordering was started while t_current = 0

rxvars == <<rx_next, rx_deliv, rx_reord, rx_list, t_age>>
hist == <<epoch, log, rx_at_zero>>
vars == <<bearer, exists, tx_next, rxvars, t_known, security, entity_suspended, hist>>

RbType == bearer.type
TReordering == bearer.t_reordering

(* A PDU carries its SN; count and security are what its sender used for   *)
(* the MAC-I and the keystream, sdu tells its content.                      *)
PduOf(count, sec, sdu) ==
    [sn |-> count % SnModulus, count |-> count, sec |-> sec, sdu |-> sdu]

Garbage == -1      \* content of an SDU deciphered with the wrong key or COUNT

(* Mutant of RcvdCount: the upper edge of the window is taken as inside.   *)
RcvdCountLooseEdge(sn) ==
    LET rx_deliv_sn == rx_deliv % SnModulus
        rx_deliv_hfn == rx_deliv \div SnModulus
        rcvd_hfn == IF sn < rx_deliv_sn - WindowSize THEN rx_deliv_hfn + 1
                    ELSE IF sn > rx_deliv_sn + WindowSize THEN rx_deliv_hfn - 1
                    ELSE rx_deliv_hfn
    IN  (rcvd_hfn * SnModulus + sn) % CountModulus

(* nr_pdcp_entity_recv_pdu: the COUNT inferred from an SN and rx_deliv.    *)
RcvdCount(sn) ==
    LET rx_deliv_sn == rx_deliv % SnModulus
        rx_deliv_hfn == rx_deliv \div SnModulus
        rcvd_hfn == IF sn < rx_deliv_sn - WindowSize THEN rx_deliv_hfn + 1
                    ELSE IF sn >= rx_deliv_sn + WindowSize THEN rx_deliv_hfn - 1
                    ELSE rx_deliv_hfn
    IN  (rcvd_hfn * SnModulus + sn) % CountModulus

(* The MAC-I is ciphered with the payload, so it verifies only if keys and *)
(* COUNT all agree with the sender's.                                      *)
IntegrityOk(pdu, count) == pdu.sec = security /\ pdu.count = count

(* Content after deciphering with the inferred COUNT.  For a DRB the MAC-I *)
(* is also cut off, or not, according to the receiver's configuration.     *)
Deciphered(pdu, count) ==
    IF /\ pdu.sec.ciph = security.ciph
       /\ security.ciph # NoKey => pdu.count = count
       /\ RbType = "SRB" \/ (pdu.sec.integ = NoKey) = (security.integ = NoKey)
    THEN pdu.sdu ELSE Garbage

CountsOf(sdus) == {s.count : s \in sdus}

(* Mutant of Acceptable: only the list is searched for duplicates.         *)
AcceptableIfNotStored(count) == count \notin CountsOf(rx_list)

(* nr_pdcp_entity_recv_pdu discards an SDU whose COUNT was delivered or     *)
(* skipped before, or is stored already.                                   *)
Acceptable(count) ==
    /\ count >= rx_deliv
    /\ count \notin CountsOf(rx_list)

(* deliver_sdu called for each of the sdus, in count order.                *)
Burst(sdus) ==
    log' = IF sdus = {} THEN log
           ELSE Append(log, [epoch |-> epoch, counts |-> CountsOf(sdus)])

(* First count from c on that is not stored.                               *)
RunEnd(sdus, c) ==
    CHOOSE e \in {c} \cup {s.count + 1 : s \in sdus} :
        /\ e >= c
        /\ c..(e - 1) \subseteq CountsOf(sdus)
        /\ e \notin CountsOf(sdus)

(* Mutant of StartAge: the start time is not recorded.                     *)
StartAgeNotRecorded(known) == Stopped

(* t_reordering_start := t_current, which reads "stopped" if that is 0.    *)
StartAge(known) == IF known THEN 0 ELSE Stopped

(* The state of a fresh entity (calloc in new_nr_pdcp_entity).             *)
Zeroed ==
    /\ tx_next' = 0 /\ rx_next' = 0 /\ rx_deliv' = 0 /\ rx_reord' = 0
    /\ rx_list' = {}
    /\ t_known' = FALSE /\ t_age' = Stopped
    /\ entity_suspended' = FALSE
    /\ rx_at_zero' = FALSE

Init ==
    /\ bearer \in Bearers
    /\ exists = FALSE
    /\ tx_next = 0 /\ rx_next = 0 /\ rx_deliv = 0 /\ rx_reord = 0
    /\ rx_list = {}
    /\ t_known = FALSE /\ t_age = Stopped
    /\ security = [integ |-> NoKey, ciph |-> NoKey]
    /\ entity_suspended = FALSE
    /\ epoch = 0 /\ log = <<>> /\ rx_at_zero = FALSE

(* nr_pdcp_entity_set_security: Keep leaves one half as it is.             *)
SetSecurityTo(p) ==
    security' = [integ |-> IF p.integ = Keep THEN security.integ ELSE p.integ,
                 ciph  |-> IF p.ciph = Keep THEN security.ciph ELSE p.ciph]

(* add_srb / add_drb, when the bearer is not there yet.                    *)
AddEntity(p) ==
    /\ ~exists
    /\ exists' = TRUE
    /\ Zeroed
    /\ SetSecurityTo(p)
    /\ UNCHANGED <<epoch, log>>

ConfigSetSecurity(p) ==
    /\ exists
    /\ SetSecurityTo(p)
    /\ UNCHANGED <<exists, tx_next, rxvars, t_known, entity_suspended, hist>>

(* nr_pdcp_entity_process_sdu: the PDU takes COUNT tx_next.                *)
ProcessSdu ==
    /\ exists /\ ~entity_suspended
    /\ tx_next < MaxCount
    /\ tx_next' = tx_next + 1
    /\ UNCHANGED <<exists, rxvars, t_known, security, entity_suspended, hist>>

(* nr_pdcp_entity_recv_pdu, for a PDU that is not discarded.  A discard    *)
(* (suspended, MAC-I failure, old or duplicate COUNT) changes statistics   *)
(* only.                                                                   *)
RecvPdu(pdu) ==
    LET count == RcvdCount(pdu.sn)
        stored == rx_list \cup {[count |-> count, epoch |-> epoch,
                                 data |-> Deciphered(pdu, count)]}
        inSeq == count = rx_deliv
        deliv == IF inSeq THEN RunEnd(stored, count) ELSE rx_deliv
        out == IF inSeq THEN {s \in stored : s.count < deliv} ELSE {}
        next == IF count >= rx_next THEN (count + 1) % CountModulus ELSE rx_next
        age == IF t_age # Stopped /\ deliv >= rx_reord THEN Stopped ELSE t_age
        restart == age = Stopped /\ deliv < next
    IN  /\ exists /\ ~entity_suspended
        /\ security.integ # NoKey => IntegrityOk(pdu, count)
        /\ Acceptable(count)
        /\ rx_next' = next
        /\ rx_deliv' = deliv
        /\ rx_list' = stored \ out
        /\ Burst(out)
        /\ rx_reord' = IF restart THEN next ELSE rx_reord
        /\ t_age' = IF restart THEN StartAge(t_known) ELSE age
        /\ rx_at_zero' = (rx_at_zero \/ (restart /\ ~t_known))
        /\ UNCHANGED <<exists, tx_next, t_known, security, entity_suspended, epoch>>

(* nr_pdcp_entity_set_time, d ms after the previous call (the timer thread *)
(* may skip ticks), without t-Reordering expiring.                         *)
SetTime(d) ==
    /\ exists
    /\ TReordering = Infinity \/ t_age = Stopped \/ t_age + d <= TReordering
    /\ t_known' = TRUE
    /\ t_age' = IF TReordering = Infinity \/ t_age = Stopped THEN t_age ELSE t_age + d
    /\ UNCHANGED <<exists, tx_next, rx_next, rx_deliv, rx_reord, rx_list,
                   security, entity_suspended, hist>>

(* nr_pdcp_entity_set_time, with t-Reordering expired (check_t_reordering).*)
TReorderingExpires(d) ==
    LET deliv == RunEnd(rx_list, rx_reord)
        out == {s \in rx_list : s.count < deliv}
        restart == deliv < rx_next
    IN  /\ exists
        /\ TReordering # Infinity /\ t_age # Stopped /\ t_age + d > TReordering
        /\ t_known' = TRUE
        /\ rx_list' = rx_list \ out
        /\ Burst(out)
        /\ rx_deliv' = deliv
        /\ rx_reord' = IF restart THEN rx_next ELSE rx_reord
        /\ t_age' = IF restart THEN 0 ELSE Stopped
        /\ UNCHANGED <<exists, tx_next, rx_next, security, entity_suspended,
                       epoch, rx_at_zero>>

(* Mutant of FlushAndReset: the flushed SDUs stay in the list.             *)
FlushAndResetKeepsList ==
    /\ Burst(IF t_age # Stopped THEN rx_list ELSE {})
    /\ t_age' = Stopped
    /\ tx_next' = 0 /\ rx_next' = 0 /\ rx_deliv' = 0
    /\ epoch' = epoch + 1
    /\ UNCHANGED <<rx_reord, rx_list>>

(* The receive side of suspend and of UM re-establishment: stored SDUs are *)
(* flushed to the upper layer only if t-Reordering is running.             *)
FlushAndReset ==
    LET out == IF t_age # Stopped THEN rx_list ELSE {}
    IN  /\ Burst(out)
        /\ rx_list' = rx_list \ out
        /\ t_age' = Stopped
        /\ tx_next' = 0 /\ rx_next' = 0 /\ rx_deliv' = 0
        /\ epoch' = epoch + 1
        /\ UNCHANGED rx_reord

(* nr_pdcp_entity_suspend                                                  *)
Suspend ==
    /\ exists /\ epoch < MaxEpoch
    /\ FlushAndReset
    /\ entity_suspended' = TRUE
    /\ UNCHANGED <<exists, t_known, security, rx_at_zero>>

(* nr_pdcp_entity_reestablish_drb_am: only the security changes.           *)
ReestablishDrbAm(p) ==
    /\ exists /\ RbType = "DRB_AM"
    /\ SetSecurityTo(p)
    /\ entity_suspended' = FALSE
    /\ UNCHANGED <<exists, tx_next, rxvars, t_known, hist>>

ReestablishDrbUm(p) ==
    /\ exists /\ RbType = "DRB_UM" /\ epoch < MaxEpoch
    /\ FlushAndReset
    /\ SetSecurityTo(p)
    /\ entity_suspended' = FALSE
    /\ UNCHANGED <<exists, t_known, rx_at_zero>>

(* nr_pdcp_entity_reestablish_srb: stored SDUs are dropped.                *)
ReestablishSrb(p) ==
    /\ exists /\ RbType = "SRB" /\ epoch < MaxEpoch
    /\ rx_list' = {} /\ t_age' = Stopped
    /\ tx_next' = 0 /\ rx_next' = 0 /\ rx_deliv' = 0
    /\ epoch' = epoch + 1
    /\ SetSecurityTo(p)
    /\ entity_suspended' = FALSE
    /\ UNCHANGED <<exists, rx_reord, t_known, log, rx_at_zero>>

(* nr_pdcp_release_drb: nr_pdcp_entity_release flushes, then delete.       *)
ReleaseDrb ==
    /\ exists /\ RbType # "SRB" /\ epoch < MaxEpoch
    /\ exists' = FALSE
    /\ Burst(rx_list)
    /\ Zeroed
    /\ epoch' = epoch + 1
    /\ security' = [integ |-> NoKey, ciph |-> NoKey]

(* nr_pdcp_entity_delete without release (nr_pdcp_release_srb,             *)
(* nr_pdcp_manager_remove_ue): stored SDUs are dropped.                    *)
Delete ==
    /\ exists /\ epoch < MaxEpoch
    /\ exists' = FALSE
    /\ Zeroed
    /\ epoch' = epoch + 1
    /\ security' = [integ |-> NoKey, ciph |-> NoKey]
    /\ UNCHANGED log

(* The peer and the layers below never have a PDU under way whose COUNT is *)
(* further than the window from rx_deliv (TS 38.323, 5.2.1).               *)
InWindow(c) == rx_deliv - WindowSize <= c /\ c < rx_deliv + WindowSize

Jumps == 1..(IF TReordering = Infinity THEN 1 ELSE TReordering + 1)

Operation ==
    \/ \E p \in SecurityInputs :
          \/ AddEntity(p) \/ ConfigSetSecurity(p)
          \/ ReestablishDrbAm(p) \/ ReestablishDrbUm(p) \/ ReestablishSrb(p)
    \/ ProcessSdu
    \/ \E c \in 0..(MaxCount - 1), sec \in Security :
          InWindow(c) /\ RecvPdu(PduOf(c, sec, c))
    \/ \E d \in Jumps : SetTime(d) \/ TReorderingExpires(d)
    \/ Suspend \/ ReleaseDrb \/ Delete

Next == Operation /\ UNCHANGED bearer

Spec == Init /\ [][Next]_vars

(* The timer thread keeps calling set_time on every entity                 *)
(* (nr_pdcp_timer_thread.c), whatever else happens.                        *)
Tick == (\E d \in Jumps : SetTime(d) \/ TReorderingExpires(d)) /\ UNCHANGED bearer
FairSpec == Spec /\ WF_vars(Tick)
-----------------------------------------------------------------------------
EntityTypeOK ==
    /\ exists \in BOOLEAN /\ t_known \in BOOLEAN
    /\ entity_suspended \in BOOLEAN /\ rx_at_zero \in BOOLEAN
    /\ tx_next \in 0..MaxCount /\ rx_next \in 0..MaxCount
    /\ rx_deliv \in 0..MaxCount /\ rx_reord \in 0..MaxCount
    /\ rx_list \subseteq [count : 0..(MaxCount - 1), epoch : 0..MaxEpoch,
                          data : 0..(MaxCount - 1) \cup {Garbage}]
    /\ t_age \in Nat \cup {Stopped}
    /\ security \in Security
    /\ epoch \in 0..MaxEpoch
    /\ log \in Seq([epoch : 0..MaxEpoch, counts : SUBSET (0..(MaxCount - 1))])

(* Type invariant: COUNTs stay within their bound, the list within them.   *)
TypeOK == bearer \in Bearers /\ EntityTypeOK

(* Refinement: bursts reach the upper layer with increasing COUNT, nothing *)
(* twice, in every epoch of the entity, whatever order PDUs arrive in and  *)
(* whatever operation (timer, suspension, release) flushes the list.       *)
Delivery == INSTANCE PdcpDelivery WITH Counts <- 0..(MaxCount - 1)
DeliversInOrder == Delivery!DSpec

(* rx_deliv separates what was delivered in this epoch from what is        *)
(* stored, after every order of arrivals, expiries and flushes: an SDU is  *)
(* never both, and none is stored below the point deliveries resume from.  *)
RxDelivSeparates ==
    /\ \A s \in rx_list : rx_deliv <= s.count
    /\ \A i \in 1..Len(log) :
          /\ log[i].epoch <= epoch
          /\ log[i].epoch = epoch => \A d \in log[i].counts : d < rx_deliv

(* HFN inference of nr_pdcp_entity_recv_pdu: within the window the SN      *)
(* alone identifies the COUNT the sender used, also when the SN wraps.     *)
HfnInference ==
    \A c \in 0..(MaxCount - 1) : InWindow(c) => RcvdCount(c % SnModulus) = c

(* Whenever a gap is being waited for, t-Reordering is running towards a   *)
(* COUNT beyond the gap, so that no stored SDU waits for ever.  The one    *)
(* exception is the code's: an entity that meets a gap before its first    *)
(* set_time takes t_current = 0 as start, and 0 reads "not running".       *)
GapHasTimer ==
    /\ rx_deliv < rx_next /\ ~rx_at_zero => t_age # Stopped
    /\ t_age # Stopped => rx_deliv < rx_reord
    /\ ~rx_at_zero /\ t_age # Stopped => rx_reord <= rx_next

(* Suspension and re-establishment restart COUNT from 0, so an SDU stored  *)
(* before must not be left in rx_list: it would be delivered in place of   *)
(* the new SDU of that COUNT.  Same exception as above.                    *)
NoStaleSdu ==
    ~rx_at_zero => \A s \in rx_list : s.epoch = epoch /\ s.count < rx_next

(* With a finite t-Reordering every stored SDU leaves rx_list.             *)
StoredSduLeaves ==
    \A c \in 0..(MaxCount - 1) :
        (TReordering # Infinity /\ ~rx_at_zero /\ c \in CountsOf(rx_list))
            ~> c \notin CountsOf(rx_list)
=============================================================================
