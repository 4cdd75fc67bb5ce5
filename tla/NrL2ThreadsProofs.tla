-------------------------- MODULE NrL2ThreadsProofs --------------------------
(***************************************************************************)
(* Why the threads of NrL2Threads cannot wait for each other in a gNB, and *)
(* what has to be true when they do in a UE, for queues of every size.     *)
(*                                                                         *)
(* The argument follows the waiting: a thread that waits for the PDCP lock *)
(* waits for its owner, which runs (gNB) or stands in front of q (UE); who *)
(* stands in front of q waits for rlcq, rlcq for the owner of the RLC      *)
(* lock, which is mac in front of pq; and mac waits for pdcpq.             *)
(***************************************************************************)
EXTENDS NrL2Threads, TLAPS

PdcpUsers == {"pdcpq", "timer", "gtp"}
RlcUsers == {"mac", "rlcq"}

(* A lock has exactly the owner that is inside its critical section; who   *)
(* stands in front of a full queue holds the lock of its own side, except  *)
(* gtp, which gave the PDCP lock back.                                     *)
LockOwners ==
    /\ \A t \in RlcUsers : rlc = t <=> pc[t] \in {"in", "put"}
    /\ \A t \in PdcpUsers \ {"gtp"} : pdcp = t <=> pc[t] \in {"in", "put"}
    /\ pdcp = "gtp" <=> pc["gtp"] = "in"
    /\ pc["rlcq"] # "put"

(* The slot a worker is busy with is one of the queue's.                   *)
SlotsInUse ==
    /\ pc["rlcq"] # "idle" => q > 0
    /\ pc["pdcpq"] # "idle" => pq > 0

(* In a gNB nobody stands in front of q with the PDCP lock.                *)
NobodyAnswersInside == ~is_ue => \A t \in {"pdcpq", "timer"} : pc[t] # "put"

IInv == TypeOK /\ LockOwners /\ SlotsInUse /\ NobodyAnswersInside

LEMMA InitIInv == Init => IInv
  BY ConfigAssumption, SizesAssumption
  DEF Init, IInv, TypeOK, LockOwners, SlotsInUse, NobodyAnswersInside, Threads, Free,
      PdcpUsers, RlcUsers

(* Every step of every thread keeps the invariant.                         *)
LEMMA NextIInv == IInv /\ [Next]_vars => IInv'
<1> SUFFICES ASSUME IInv, [Next]_vars PROVE IInv'
  OBVIOUS
<1> USE ConfigAssumption, SizesAssumption
        DEF IInv, TypeOK, LockOwners, SlotsInUse, NobodyAnswersInside, Threads, Free,
            PdcpUsers, RlcUsers, Goto
<1>0. is_ue' = is_ue
  BY DEF Next, vars
<1>1. ASSUME NEW t \in Threads, Begin(t) PROVE IInv'
  BY <1>0, <1>1 DEF Begin
<1>2. ASSUME NEW t \in Threads, LockRlc(t) PROVE IInv'
  BY <1>0, <1>2 DEF LockRlc
<1>3. ASSUME NEW t \in Threads, LockPdcp(t) PROVE IInv'
  BY <1>0, <1>3 DEF LockPdcp
<1>4. CASE RlcDeliverSdu
  BY <1>0, <1>4 DEF RlcDeliverSdu
<1>5. CASE EnqueuePdcpDataInd
  BY <1>0, <1>5 DEF EnqueuePdcpDataInd
<1>6. ASSUME NEW t \in Threads, PdcpDeliverSdu(t) PROVE IInv'
  BY <1>0, <1>6 DEF PdcpDeliverSdu
<1>7. ASSUME NEW t \in Threads, EnqueueFromDeliver(t) PROVE IInv'
  BY <1>0, <1>7 DEF EnqueueFromDeliver
<1>8. CASE UnlockToSend
  BY <1>0, <1>8 DEF UnlockToSend
<1>9. CASE EnqueueRlcDataReq
  BY <1>0, <1>9 DEF EnqueueRlcDataReq
<1>10. ASSUME NEW t \in Threads, UnlockRlc(t) PROVE IInv'
  BY <1>0, <1>10 DEF UnlockRlc
<1>11. ASSUME NEW t \in Threads, UnlockPdcp(t) PROVE IInv'
  BY <1>0, <1>11 DEF UnlockPdcp
<1>12. CASE FinishQ
  BY <1>0, <1>12 DEF FinishQ
<1>13. CASE FinishPq
  BY <1>0, <1>13 DEF FinishPq
<1>14. CASE UNCHANGED vars
  BY <1>0, <1>14 DEF vars
<1> QED
  BY <1>1, <1>2, <1>3, <1>4, <1>5, <1>6, <1>7, <1>8, <1>9, <1>10, <1>11, <1>12, <1>13,
     <1>14 DEF Next, Step, Lock, Enqueue, Leave

LEMMA IInvAlways == Spec => []IInv
  BY InitIInv, NextIInv, PTL DEF Spec

(* Threads that wait for each other include one that stands in front of q  *)
(* with the PDCP lock, and mac in front of pq with the RLC lock.           *)
LEMMA WaitingGoesRound ==
    ASSUME IInv, NEW s \in SUBSET Threads, CircularWait(s)
    PROVE  /\ q = QSize /\ pq = PqSize /\ rlc = "mac" /\ pc["mac"] = "put"
           /\ pdcp \in PdcpUsers /\ pc[pdcp] = "put"
<1> USE DEF IInv, TypeOK, LockOwners, Threads, Free, PdcpUsers, RlcUsers
<1>1. \A t \in s : WaitsFor(t) # {} /\ WaitsFor(t) \subseteq s
  BY DEF CircularWait
<1>2. \A t \in s \cap PdcpUsers : "rlcq" \in s /\ q = QSize
  <2>1. SUFFICES ASSUME NEW t \in s \cap PdcpUsers PROVE "rlcq" \in s /\ q = QSize
    OBVIOUS
  <2>2. ASSUME NEW u \in s \cap PdcpUsers, pc[u] = "put" PROVE "rlcq" \in s /\ q = QSize
    BY <1>1, <2>2 DEF WaitsFor
  <2>3. CASE pc[t] = "lock"
    <3>1. pdcp \in s \cap PdcpUsers
      BY <1>1, <2>3 DEF WaitsFor
    <3>2. pc[pdcp] = "in" \/ pc[pdcp] = "put"
      BY <3>1
    <3>3. pc[pdcp] # "in"
      BY <1>1, <3>1 DEF WaitsFor
    <3> QED BY <2>2, <3>1, <3>2, <3>3
  <2> QED BY <1>1, <2>2, <2>3 DEF WaitsFor
<1>3. "rlcq" \in s => /\ rlc = "mac" /\ pc["mac"] = "put" /\ pq = PqSize
                      /\ "mac" \in s /\ "pdcpq" \in s
  <2>1. SUFFICES ASSUME "rlcq" \in s
                 PROVE /\ rlc = "mac" /\ pc["mac"] = "put" /\ pq = PqSize
                       /\ "mac" \in s /\ "pdcpq" \in s
    OBVIOUS
  <2>2. pc["rlcq"] = "lock" /\ rlc \in s /\ rlc # Free
    BY <1>1, <2>1 DEF WaitsFor
  <2>3. rlc = "mac" /\ "mac" \in s
    BY <2>2
  <2>4. pc["mac"] = "put" /\ pq = PqSize
    BY <1>1, <2>3 DEF WaitsFor
  <2>5. "pdcpq" \in s
    BY <1>1, <2>3, <2>4 DEF WaitsFor
  <2> QED BY <2>3, <2>4, <2>5
<1>4. "mac" \in s => "pdcpq" \in s
  BY <1>1 DEF WaitsFor
<1>5. s # {}
  BY DEF CircularWait
<1>6. "rlcq" \in s /\ "pdcpq" \in s
  BY <1>2, <1>3, <1>4, <1>5
<1>7. pdcp \in PdcpUsers /\ pc[pdcp] = "put"
  <2>1. pdcp \in s \cap PdcpUsers \/ pc["pdcpq"] = "put"
    BY <1>1, <1>6 DEF WaitsFor
  <2>2. pdcp \in s \cap PdcpUsers
    BY <2>1, <1>6
  <2>3. pc[pdcp] # "in"
    BY <1>1, <2>2 DEF WaitsFor
  <2> QED BY <2>2, <2>3
<1> QED BY <1>2, <1>3, <1>6, <1>7

(* In a gNB the threads at the RLC/PDCP boundary never wait for each other *)
(* in a circle, whatever the size of the two queues and however full they  *)
(* are: the rule of nr_pdcp_oai_api.c is enough there.                     *)
THEOREM GnbNeverStuck == Spec => []GnbNoCircularWait
<1>1. IInv => GnbNoCircularWait
  <2>1. SUFFICES ASSUME IInv, ~is_ue, NEW s \in SUBSET Threads, CircularWait(s) PROVE FALSE
    BY DEF GnbNoCircularWait, NoCircularWait
  <2>2. pdcp \in PdcpUsers /\ pc[pdcp] = "put"
    BY <2>1, WaitingGoesRound
  <2>3. pdcp \in PdcpUsers => pc[pdcp] # "put"
    BY <2>1 DEF IInv, LockOwners, NobodyAnswersInside, PdcpUsers
  <2> QED BY <2>2, <2>3
<1> QED BY <1>1, IInvAlways, PTL

(* The locks only ever have the owners that take them, and no queue        *)
(* overruns its ring.                                                      *)
THEOREM TypeCorrect == Spec => []TypeOK
<1>1. IInv => TypeOK
  BY DEF IInv
<1> QED BY <1>1, IInvAlways, PTL

(* In a UE too the threads can only wait for each other while both queues  *)
(* are full and mac_rlc_data_ind stands in front of pq.                    *)
THEOREM StuckOnlyWhenFull == Spec => []StuckOnlyBetweenFullQueues
<1>1. IInv => StuckOnlyBetweenFullQueues
  BY WaitingGoesRound DEF StuckOnlyBetweenFullQueues
<1> QED BY <1>1, IInvAlways, PTL
=============================================================================
