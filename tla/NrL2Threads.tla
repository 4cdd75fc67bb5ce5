----------------------------- MODULE NrL2Threads -----------------------------
(***************************************************************************)
(* The threads that meet at the RLC/PDCP boundary, the two big locks they  *)
(* take (nr_rlc_ue_manager, nr_pdcp_ue_manager) and the two bounded queues *)
(* between them (nr_pdcp_oai_api.c), in a UE or a monolithic gNB.          *)
(*                                                                         *)
(*   mac    calls mac_rlc_data_ind: RLC lock, and for each SDU that gets   *)
(*          complete nr_pdcp_data_ind, which puts it into pq               *)
(*   pdcpq  empties pq: do_pdcp_data_ind under the PDCP lock, whose        *)
(*          deliver_sdu runs under that lock too                           *)
(*   timer  nr_pdcp_timer_thread: set_time under the PDCP lock, whose      *)
(*          deliver_sdu runs under it as well                              *)
(*   gtp    nr_pdcp_data_req_drb: PDCP lock, process_sdu, unlock, and      *)
(*          only then the PDU goes into q                                  *)
(*   rlcq   empties q: rlc_data_req under the RLC lock                     *)
(*                                                                         *)
(* In a gNB deliver_sdu sends a message to another task.  In a UE it may   *)
(* come back into PDCP: SDAP's reflective mapping submits an end marker    *)
(* through nr_pdcp_data_req_drb, from inside the (recursive) PDCP lock.     *)
(*                                                                         *)
(* A queue is its length: NrPdcpQueue shows that it is a FIFO whose        *)
(* waiting threads are woken.                                              *)
(***************************************************************************)
EXTENDS Naturals, FiniteSets

CONSTANTS
    Deployments,\* TRUE in it: a UE (or noS1); FALSE in it: a monolithic gNB
    QSize,      \* RLC_DATA_REQ_QUEUE_SIZE
    PqSize      \* PDCP_DATA_IND_QUEUE_SIZE

ASSUME ConfigAssumption == Deployments \subseteq BOOLEAN
ASSUME SizesAssumption == QSize \in Nat \ {0} /\ PqSize \in Nat \ {0}

VARIABLES
    pc,         \* where each thread is
    rlc, pdcp,  \* owners of the two locks
    q, pq,      \* lengths of the two queues
    is_ue       \* deliver_sdu_drb calls SDAP's UE side; the same for good

vars == <<is_ue, pc, rlc, pdcp, q, pq>>

Threads == {"mac", "pdcpq", "timer", "gtp", "rlcq"}
Free == "free"

Init ==
    /\ pc = [t \in Threads |-> "idle"]
    /\ rlc = Free /\ pdcp = Free
    /\ q = 0 /\ pq = 0
    /\ is_ue \in Deployments

Goto(t, from, to) == pc[t] = from /\ pc' = [pc EXCEPT ![t] = to]

(* A thread starts its work: it is about to take its lock.                 *)
Begin(t) ==
    /\ Goto(t, "idle", "lock")
    /\ t = "rlcq" => q > 0
    /\ t = "pdcpq" => pq > 0
    /\ UNCHANGED <<rlc, pdcp, q, pq>>

LockRlc(t) ==
    /\ t \in {"mac", "rlcq"}
    /\ Goto(t, "lock", "in")
    /\ rlc = Free /\ rlc' = t
    /\ UNCHANGED <<pdcp, q, pq>>

LockPdcp(t) ==
    /\ t \in {"pdcpq", "timer", "gtp"}
    /\ Goto(t, "lock", "in")
    /\ pdcp = Free /\ pdcp' = t
    /\ UNCHANGED <<rlc, q, pq>>

(* rlc deliver_sdu, under the RLC lock: an SDU for PDCP.                   *)
RlcDeliverSdu ==
    /\ Goto("mac", "in", "put")
    /\ UNCHANGED <<rlc, pdcp, q, pq>>

EnqueuePdcpDataInd ==
    /\ Goto("mac", "put", "in")
    /\ pq < PqSize /\ pq' = pq + 1
    /\ UNCHANGED <<rlc, pdcp, q>>

(* Mutant of PdcpDeliverSdu: the PDCP lock is not recursive.               *)
PdcpDeliverSduRelocks(t) ==
    /\ is_ue /\ t \in {"pdcpq", "timer"}
    /\ Goto(t, "in", "lock")
    /\ UNCHANGED <<rlc, pdcp, q, pq>>

(* Mutant of PdcpDeliverSdu: a gNB's SDAP answers in the same call, too.   *)
PdcpDeliverSduAlways(t) ==
    /\ t \in {"pdcpq", "timer"}
    /\ Goto(t, "in", "put")
    /\ UNCHANGED <<rlc, pdcp, q, pq>>

(* deliver_sdu_drb in a UE, with reflective mapping: nr_pdcp_data_req_drb, *)
(* called by the thread that has the (recursive) PDCP lock.                *)
PdcpDeliverSdu(t) ==
    /\ is_ue /\ t \in {"pdcpq", "timer"}
    /\ Goto(t, "in", "put")
    /\ UNCHANGED <<rlc, pdcp, q, pq>>

EnqueueFromDeliver(t) ==
    /\ t \in {"pdcpq", "timer"}
    /\ Goto(t, "put", "in")
    /\ q < QSize /\ q' = q + 1
    /\ UNCHANGED <<rlc, pdcp, pq>>

(* nr_pdcp_data_req_drb unlocks, and then calls deliver_pdu.               *)
UnlockToSend ==
    /\ Goto("gtp", "in", "put")
    /\ pdcp' = Free
    /\ UNCHANGED <<rlc, q, pq>>

EnqueueRlcDataReq ==
    /\ Goto("gtp", "put", "idle")
    /\ q < QSize /\ q' = q + 1
    /\ UNCHANGED <<rlc, pdcp, pq>>

UnlockRlc(t) ==
    /\ t \in {"mac", "rlcq"}
    /\ Goto(t, "in", IF t = "mac" THEN "idle" ELSE "finish")
    /\ rlc' = Free
    /\ UNCHANGED <<pdcp, q, pq>>

UnlockPdcp(t) ==
    /\ t \in {"pdcpq", "timer"}
    /\ Goto(t, "in", IF t = "timer" THEN "idle" ELSE "finish")
    /\ pdcp' = Free
    /\ UNCHANGED <<rlc, q, pq>>

(* Mutants of FinishQ and FinishPq: the slot is not given back.            *)
FinishQKeepsSlot ==
    /\ Goto("rlcq", "finish", "idle")
    /\ UNCHANGED <<rlc, pdcp, q, pq>>

FinishPqKeepsSlot ==
    /\ Goto("pdcpq", "finish", "idle")
    /\ UNCHANGED <<rlc, pdcp, q, pq>>

(* The worker gives the slot back.                                         *)
FinishQ ==
    /\ Goto("rlcq", "finish", "idle")
    /\ q' = q - 1
    /\ UNCHANGED <<rlc, pdcp, pq>>

FinishPq ==
    /\ Goto("pdcpq", "finish", "idle")
    /\ pq' = pq - 1
    /\ UNCHANGED <<rlc, pdcp, q>>

Lock(t) == LockRlc(t) \/ LockPdcp(t)
Enqueue(t) ==
    \/ t = "mac" /\ EnqueuePdcpDataInd
    \/ t = "gtp" /\ EnqueueRlcDataReq
    \/ EnqueueFromDeliver(t)
Leave(t) ==
    \/ UnlockRlc(t) \/ UnlockPdcp(t)
    \/ t = "gtp" /\ UnlockToSend
    \/ t = "rlcq" /\ FinishQ
    \/ t = "pdcpq" /\ FinishPq

Step ==
    \/ \E t \in Threads :
          Begin(t) \/ Lock(t) \/ Enqueue(t) \/ Leave(t) \/ PdcpDeliverSdu(t)
    \/ RlcDeliverSdu

Next == Step /\ UNCHANGED is_ue

Spec == Init /\ [][Next]_vars

(* The workers keep looking at their queue.  A mutex that is free again    *)
(* and again is got in the end (SF).  mac_rlc_data_ind handles one PDU,    *)
(* which completes finitely many SDUs, so it leaves its lock although it   *)
(* may deliver again (SF); every other step, once it can be taken, stays   *)
(* so until it is taken (WF).                                              *)
FairSpec ==
    /\ Spec
    /\ \A t \in Threads :
          /\ SF_vars(Lock(t) /\ UNCHANGED is_ue)
          /\ WF_vars(Enqueue(t) /\ UNCHANGED is_ue)
          /\ WF_vars(Leave(t) /\ UNCHANGED is_ue)
    /\ SF_vars(Leave("mac") /\ UNCHANGED is_ue)
    /\ \A t \in {"rlcq", "pdcpq"} : WF_vars(Begin(t) /\ UNCHANGED is_ue)
-----------------------------------------------------------------------------
(* Type invariant: owners of the locks, lengths of the queues.             *)
TypeOK ==
    /\ pc \in [Threads -> {"idle", "lock", "in", "put", "finish"}]
    /\ rlc \in {Free, "mac", "rlcq"}
    /\ pdcp \in {Free, "pdcpq", "timer", "gtp"}
    /\ q \in 0..QSize /\ pq \in 0..PqSize
    /\ is_ue \in Deployments

(* The thread that has to move before thread t can.                        *)
WaitsFor(t) ==
    {o \in Threads :
        \/ pc[t] = "lock" /\ t \in {"mac", "rlcq"} /\ o = rlc
        \/ pc[t] = "lock" /\ t \in {"pdcpq", "timer", "gtp"} /\ o = pdcp
        \/ pc[t] = "put" /\ t = "mac" /\ pq = PqSize /\ o = "pdcpq"
        \/ pc[t] = "put" /\ t # "mac" /\ q = QSize /\ o = "rlcq"}

CircularWait(s) == s # {} /\ \A t \in s : WaitsFor(t) # {} /\ WaitsFor(t) \subseteq s

(* No set of threads waits only for itself, through either lock or either  *)
(* queue.  nr_pdcp_oai_api.c gives the rule that should be enough: "a call *)
(* to lock(pdcp) will never be followed by a call to lock(rlc)".           *)
NoCircularWait == \A s \in SUBSET Threads : ~CircularWait(s)

(* In a gNB that rule is enough, for the queues as well as for the locks.  *)
GnbNoCircularWait == ~is_ue => NoCircularWait

(* What the two queues leave of the deadlock: threads can only wait for    *)
(* each other while both queues are full and mac_rlc_data_ind stands in    *)
(* front of pq with the RLC lock.                                          *)
StuckOnlyBetweenFullQueues ==
    \A s \in SUBSET Threads :
        CircularWait(s) => /\ q = QSize /\ pq = PqSize
                           /\ rlc = "mac" /\ pc["mac"] = "put"

(* In a gNB the real-time thread comes back from mac_rlc_data_ind, however *)
(* full both queues are.                                                   *)
MacReturns == ~is_ue /\ pc["mac"] # "idle" ~> pc["mac"] = "idle"

(* What GTP-U hands to PDCP in a gNB gets out of it.                       *)
DataReqReturns == ~is_ue /\ pc["gtp"] # "idle" ~> pc["gtp"] = "idle"
=============================================================================
