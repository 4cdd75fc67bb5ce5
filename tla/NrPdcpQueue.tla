----------------------------- MODULE NrPdcpQueue -----------------------------
(***************************************************************************)
(* The bounded queue between a caller and its worker thread, as written    *)
(* twice in openair2/LAYER2/nr_pdcp/nr_pdcp_oai_api.c: q, emptied by the    *)
(* "RLC queue" thread (rlc_data_req), and pq, emptied by the "PDCP data     *)
(* ind" thread (do_pdcp_data_ind).                                         *)
(*                                                                         *)
(* A ring of Size slots, one mutex and ONE condition variable, on which    *)
(* the worker waits while the ring is empty and callers wait while it is   *)
(* full; both sides use pthread_cond_signal.  The worker reads its slot    *)
(* outside the mutex and only then gives it back.                          *)
(*                                                                         *)
(* A critical section is one action: it blocks nowhere but in              *)
(* pthread_cond_wait, which gives the mutex up.  An item is its ticket,    *)
(* the rank in which it was put.                                           *)
(***************************************************************************)
EXTENDS Naturals, FiniteSets

CONSTANTS
    Size,       \* RLC_DATA_REQ_QUEUE_SIZE, PDCP_DATA_IND_QUEUE_SIZE
    Callers,    \* threads that call enqueue_rlc_data_req / enqueue_pdcp_data_ind
    Worker,     \* the thread that empties the queue
    MaxItems    \* bound: calls of enqueue

ASSUME SizeAssumption == Size \in Nat \ {0}
(* The queues have 10000 slots; a gNB process has a handful of threads.    *)
ASSUME CallersAssumption ==
    /\ IsFiniteSet(Callers)
    /\ Cardinality(Callers) < 2 * Size
    /\ Worker \notin Callers
ASSUME ItemsAssumption == MaxItems \in Nat

VARIABLES
    start, length,
    slot,          \* the ring
    pc,            \* where each thread is
    i,             \* the worker's local variable
    got,           \* the item the worker last read
    put, done      \* history: items put, items given back

vars == <<start, length, slot, pc, i, got, put, done>>

Threads == Callers \cup {Worker}

(* "ready": about to take the mutex and test the loop condition.           *)
CallerPc == {"idle", "ready", "waiting"}
WorkerPc == {"ready", "waiting", "handle", "finish"}

Init ==
    /\ start = 0 /\ length = 0
    /\ slot = [k \in 0..(Size - 1) |-> 0]
    /\ pc = [t \in Threads |-> IF t = Worker THEN "ready" ELSE "idle"]
    /\ i = 0 /\ got = 0 /\ put = 0 /\ done = 0

(* Mutant of Signalled: the signal is forgotten.                           *)
SignalledForgotten(f) == {f}

(* pthread_cond_signal: one of the waiting threads gets ready to go on.    *)
Signalled(f) ==
    LET waiting == {t \in Threads : f[t] = "waiting"}
    IN  IF waiting = {} THEN {f} ELSE {[f EXCEPT ![t] = "ready"] : t \in waiting}

Call(c) ==
    /\ pc[c] = "idle"
    /\ put + Cardinality({d \in Callers : pc[d] # "idle"}) < MaxItems
    /\ pc' = [pc EXCEPT ![c] = "ready"]
    /\ UNCHANGED <<start, length, slot, i, got, put, done>>

(* Mutant of Enqueue: the loop condition is not tested again.              *)
EnqueueUntested(c) ==
    /\ pc[c] = "ready"
    /\ slot' = [slot EXCEPT ![(start + length) % Size] = put + 1]
    /\ length' = length + 1
    /\ put' = put + 1
    /\ pc' \in Signalled([pc EXCEPT ![c] = "idle"])
    /\ UNCHANGED <<start, i, got, done>>

(* enqueue_rlc_data_req, enqueue_pdcp_data_ind                             *)
Enqueue(c) ==
    /\ pc[c] = "ready"
    /\ length # Size
    /\ slot' = [slot EXCEPT ![(start + length) % Size] = put + 1]
    /\ length' = length + 1
    /\ put' = put + 1
    /\ pc' \in Signalled([pc EXCEPT ![c] = "idle"])
    /\ UNCHANGED <<start, i, got, done>>

EnqueueWait(c) ==
    /\ pc[c] = "ready"
    /\ length = Size
    /\ pc' = [pc EXCEPT ![c] = "waiting"]
    /\ UNCHANGED <<start, length, slot, i, got, put, done>>

(* rlc_data_req_thread, pdcp_data_ind_thread: the first critical section   *)
Take ==
    /\ pc[Worker] = "ready"
    /\ length # 0
    /\ i' = start
    /\ pc' = [pc EXCEPT ![Worker] = "handle"]
    /\ UNCHANGED <<start, length, slot, got, put, done>>

TakeWait ==
    /\ pc[Worker] = "ready"
    /\ length = 0
    /\ pc' = [pc EXCEPT ![Worker] = "waiting"]
    /\ UNCHANGED <<start, length, slot, i, got, put, done>>

(* The call of rlc_data_req or do_pdcp_data_ind on slot i, no mutex held   *)
Handle ==
    /\ pc[Worker] = "handle"
    /\ got' = slot[i]
    /\ pc' = [pc EXCEPT ![Worker] = "finish"]
    /\ UNCHANGED <<start, length, slot, i, put, done>>

(* The second critical section                                             *)
Finish ==
    /\ pc[Worker] = "finish"
    /\ length' = length - 1
    /\ start' = (start + 1) % Size
    /\ done' = done + 1
    /\ pc' \in Signalled([pc EXCEPT ![Worker] = "ready"])
    /\ UNCHANGED <<slot, i, got, put>>

(* pthread_cond_wait may return without a signal.                          *)
SpuriousWakeup(t) ==
    /\ pc[t] = "waiting"
    /\ pc' = [pc EXCEPT ![t] = "ready"]
    /\ UNCHANGED <<start, length, slot, i, got, put, done>>

WorkerStep == Take \/ TakeWait \/ Handle \/ Finish
CallerStep(c) == Enqueue(c) \/ EnqueueWait(c)

Next ==
    \/ WorkerStep
    \/ \E c \in Callers : Call(c) \/ CallerStep(c)
    \/ \E t \in Threads : SpuriousWakeup(t)

Spec == Init /\ [][Next]_vars

(* Threads keep running: a thread that is not waiting gets the mutex.      *)
FairSpec ==
    /\ Spec
    /\ WF_vars(WorkerStep)
    /\ \A c \in Callers : WF_vars(CallerStep(c))
-----------------------------------------------------------------------------
Waiting == {c \in Callers : pc[c] = "waiting"}
Ready == {c \in Callers : pc[c] = "ready"}

(* How many callers there are more than slots.                             *)
Excess == IF Cardinality(Callers) > Size THEN Cardinality(Callers) - Size ELSE 0

(* Type invariant: start, length and i stay within the ring.               *)
TypeOK ==
    /\ start \in 0..(Size - 1) /\ i \in 0..(Size - 1)
    /\ length \in 0..Size
    /\ slot \in [0..(Size - 1) -> Nat]
    /\ pc \in [Threads -> CallerPc \cup WorkerPc]
    /\ pc[Worker] \in WorkerPc
    /\ \A c \in Callers : pc[c] \in CallerPc
    /\ got \in Nat /\ put \in Nat /\ done \in Nat

(* The ring holds the items put and not yet given back, oldest first, also *)
(* when start + length wraps.                                              *)
RingInOrder ==
    /\ put = done + length
    /\ \A k \in 0..(length - 1) : slot[(start + k) % Size] = done + k + 1

(* The slot the worker uses without the mutex is its own from the moment   *)
(* it picked it until it gives it back: no caller overwrites it, and items *)
(* are handled in the order they were put, none twice, none skipped.       *)
SlotIsWorkers ==
    /\ pc[Worker] \in {"handle", "finish"} =>
          length > 0 /\ i = start /\ slot[i] = done + 1
    /\ pc[Worker] = "finish" => got = done + 1

(* One condition variable for both sides loses no wake-up.  While the       *)
(* worker sleeps, either there is nothing to do (empty ring, no caller      *)
(* asleep), or a caller is about to run, put its item and signal again.     *)
NoLostWakeup ==
    pc[Worker] = "waiting" =>
        \/ length = 0 /\ \A c \in Callers : pc[c] # "waiting"
        \/ length # Size /\ \E c \in Callers : pc[c] = "ready"

(* The counting argument behind NoLostWakeup.  A caller falls asleep on a   *)
(* full ring only, and every slot given back or filled wakes one thread.    *)
WakeupsCounted ==
    /\ Cardinality(Waiting) <= length + Excess
    /\ Waiting # {} => length + Cardinality(Ready) >= Size
    /\ pc[Worker] = "waiting" =>
          /\ Cardinality(Waiting) + length <= Excess
          /\ length > 0 => Ready # {}

(* Every item put is handled.                                              *)
EveryItemHandled ==
    \A n \in 1..MaxItems : put >= n ~> done >= n
=============================================================================
