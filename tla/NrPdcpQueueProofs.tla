-------------------------- MODULE NrPdcpQueueProofs --------------------------
(* Proofs about the worker queues of nr_pdcp_oai_api.c, for every ring     *)
(* size and every set of fewer than twice as many calling threads.         *)
EXTENDS NrPdcpQueue, Integers, FiniteSetTheorems, TLAPS

-----------------------------------------------------------------------------
(* Remainders.                                                              *)

(* A multiple of a positive number is at least that number in size.        *)
LEMMA Multiples ==
    ASSUME NEW m \in Nat \ {0}, NEW k \in Int
    PROVE  /\ k >= 1 => k * m >= m
           /\ k <= -1 => k * m <= -m
<1>1. k >= 1 => k * m >= m
  <2>. SUFFICES ASSUME k >= 1 PROVE k * m >= m
    OBVIOUS
  <2>1. (k - 1) * m >= 0
    OBVIOUS
  <2>. QED BY <2>1
<1>2. k <= -1 => k * m <= -m
  <2>. SUFFICES ASSUME k <= -1 PROVE k * m <= -m
    OBVIOUS
  <2>1. ((-k) - 1) * m >= 0
    OBVIOUS
  <2>. QED BY <2>1
<1>. QED BY <1>1, <1>2

(* Quotient and remainder.                                                 *)
LEMMA Division ==
    ASSUME NEW m \in Nat \ {0}, NEW a \in Nat
    PROVE  /\ a % m \in 0..(m - 1)
           /\ a \div m \in Nat
           /\ a = (a \div m) * m + (a % m)
OBVIOUS

(* The remainder of a number below twice the modulus.                      *)
LEMMA SmallMod ==
    ASSUME NEW m \in Nat \ {0}, NEW x \in 0..(2 * m - 1)
    PROVE  x % m = IF x < m THEN x ELSE x - m
<1>. DEFINE q == x \div m
            r == x % m
<1>0. x \in Nat
    OBVIOUS
<1>1. r \in 0..(m - 1) /\ q \in Nat /\ x = q * m + r
    BY <1>0, Division
<1>2. q >= 2 => q * m >= 2 * m
  <2>1. (q - 1) >= 1 => (q - 1) * m >= m
    BY <1>1, Multiples
  <2>2. (q - 1) * m = q * m - m
    <3>. HIDE DEF q
    <3>. QED BY <1>1
  <2>. HIDE DEF q
  <2>. QED BY <2>1, <2>2, <1>1
<1>3. q < 2
  <2>. HIDE DEF q, r
  <2>. QED BY <1>1, <1>2
<1>4. (q = 0 /\ q * m = 0) \/ (q = 1 /\ q * m = m)
  <2>. HIDE DEF q
  <2>. QED BY <1>1, <1>3
<1>. HIDE DEF q, r
<1>5. r = IF x < m THEN x ELSE x - m
  BY <1>1, <1>4
<1>. QED BY <1>5 DEF r

-----------------------------------------------------------------------------
(* The inductive invariant.                                                *)
IInv == TypeOK /\ RingInOrder /\ SlotIsWorkers /\ WakeupsCounted

(* What pthread_cond_signal does to the program counters.                  *)
LEMMA SignalEffect ==
    ASSUME NEW f, NEW g \in Signalled(f)
    PROVE  \/ g = f /\ \A t \in Threads : f[t] # "waiting"
           \/ \E t \in Threads : f[t] = "waiting" /\ g = [f EXCEPT ![t] = "ready"]
BY DEF Signalled

(* Sets of callers are finite, and as many as Callers at most.             *)
LEMMA CallerSets ==
    ASSUME NEW S \in SUBSET Callers
    PROVE  /\ IsFiniteSet(S)
           /\ Cardinality(S) \in Nat
           /\ Cardinality(S) <= Cardinality(Callers)
           /\ S # {} <=> Cardinality(S) > 0
           /\ Cardinality(Callers) \in Nat
<1>1. IsFiniteSet(Callers)
    BY CallersAssumption
<1>2. IsFiniteSet(S) /\ Cardinality(S) <= Cardinality(Callers)
    BY <1>1, FS_Subset
<1>3. Cardinality(S) \in Nat /\ Cardinality(Callers) \in Nat
    BY <1>1, <1>2, FS_CardinalityType
<1>4. Cardinality(S) = 0 <=> S = {}
    BY <1>2, FS_EmptySet
<1>. QED BY <1>2, <1>3, <1>4

LEMMA ExcessBound ==
    /\ Excess \in Nat /\ Excess < Size
    /\ Cardinality(Callers) <= Size + Excess
<1>1. Cardinality(Callers) \in Nat
    BY CallerSets
<1>2. Size \in Nat \ {0} /\ Cardinality(Callers) < 2 * Size
    BY SizeAssumption, CallersAssumption
<1>. QED BY <1>1, <1>2 DEF Excess

(* The ring index of a position less than two turns ahead.                 *)
Wrapped(x) == IF x < Size THEN x ELSE x - Size
LEMMA RingIndex == \A x \in 0..(2 * Size - 1) : x % Size = Wrapped(x)
<1>. SUFFICES ASSUME NEW x \in 0..(2 * Size - 1) PROVE x % Size = Wrapped(x)
    OBVIOUS
<1>1. Size \in Nat \ {0}
    BY SizeAssumption
<1>. QED BY <1>1, SmallMod DEF Wrapped

LEMMA InitIInv == Init => IInv
<1>. SUFFICES ASSUME Init PROVE IInv
    OBVIOUS
<1>1. Size \in Nat \ {0} /\ Worker \notin Callers
    BY SizeAssumption, CallersAssumption
<1>2. TypeOK
    BY <1>1 DEF Init, TypeOK, Threads, CallerPc, WorkerPc
<1>3. RingInOrder
    BY <1>1 DEF Init, RingInOrder
<1>4. SlotIsWorkers
    BY DEF Init, SlotIsWorkers, Threads
<1>5. Waiting = {} /\ pc[Worker] # "waiting" /\ length = 0
    BY <1>1 DEF Init, Waiting, Threads
<1>6. WakeupsCounted
    BY <1>5, ExcessBound, FS_EmptySet DEF WakeupsCounted
<1>. QED BY <1>2, <1>3, <1>4, <1>6 DEF IInv

(* The ring and the worker's slot, when only program counters change and   *)
(* the worker does not move into the part that uses the slot.              *)
LEMMA PcOnlyKeepsRing ==
    ASSUME RingInOrder, SlotIsWorkers,
           UNCHANGED <<start, length, slot, i, got, put, done>>,
           pc'[Worker] \in {"ready", "waiting"} \/ pc'[Worker] = pc[Worker]
    PROVE  RingInOrder' /\ SlotIsWorkers'
<1>1. RingInOrder'
    BY DEF RingInOrder
<1>2. SlotIsWorkers'
    BY DEF SlotIsWorkers
<1>. QED BY <1>1, <1>2

(* A caller puts an item behind the others, never into the worker's slot.  *)
LEMMA EnqueueKeepsRing ==
    ASSUME TypeOK, RingInOrder, SlotIsWorkers,
           length # Size,
           slot' = [slot EXCEPT ![(start + length) % Size] = put + 1],
           length' = length + 1, put' = put + 1,
           UNCHANGED <<start, i, got, done>>,
           pc'[Worker] = "ready" \/ pc'[Worker] = pc[Worker]
    PROVE  RingInOrder' /\ SlotIsWorkers'
<1>1. /\ Size \in Nat \ {0} /\ start \in 0..(Size - 1) /\ length \in 0..(Size - 1)
      /\ slot \in [0..(Size - 1) -> Nat] /\ put \in Nat /\ done \in Nat
    BY SizeAssumption DEF TypeOK
<1>. DEFINE At(k) == (start + k) % Size
<1>2. \A k \in 0..length : At(k) = Wrapped(start + k)
    <2>1. \A k \in 0..length : start + k \in 0..(2 * Size - 1)
        BY <1>1
    <2>. QED BY <2>1, RingIndex
<1>3. \A k \in 0..length : At(k) \in 0..(Size - 1)
    <2>. HIDE DEF At
    <2>. QED BY <1>1, <1>2, SMTT(30) DEF Wrapped
<1>4. \A k \in 0..(length - 1) : At(k) # At(length)
    <2>. SUFFICES ASSUME NEW k \in 0..(length - 1) PROVE At(k) # At(length)
        OBVIOUS
    <2>. HIDE DEF At
    <2>1. k \in 0..length /\ length \in 0..length
        BY <1>1
    <2>2. At(k) = Wrapped(start + k) /\ At(length) = Wrapped(start + length)
        BY <1>2, <2>1, Zenon
    <2>. QED BY <1>1, <2>2 DEF Wrapped
<1>5. slot' = [slot EXCEPT ![At(length)] = put + 1] /\ At(length) \in 0..(Size - 1)
    BY <1>1, <1>3
<1>6. \A k \in 0..(length - 1) : slot'[At(k)] = done + k + 1
    <2>1. \A k \in 0..(length - 1) : slot[At(k)] = done + k + 1
        BY DEF RingInOrder
    <2>. HIDE DEF At
    <2>. QED BY <1>1, <1>3, <1>4, <1>5, <2>1
<1>7. slot'[At(length)] = done + length + 1
    <2>1. put = done + length
        BY DEF RingInOrder
    <2>. HIDE DEF At
    <2>. QED BY <1>1, <1>5, <2>1
<1>8. \A k \in 0..(length' - 1) : slot'[At(k)] = done + k + 1
    <2>. SUFFICES ASSUME NEW k \in 0..(length' - 1)
                  PROVE  slot'[At(k)] = done + k + 1
        OBVIOUS
    <2>. HIDE DEF At
    <2>1. CASE k = length
        BY <2>1, <1>7
    <2>2. CASE k # length
        <3>1. k \in 0..(length - 1)
            BY <2>2, <1>1
        <3>. QED BY <3>1, <1>6
    <2>. QED BY <2>1, <2>2
<1>9. RingInOrder'
    BY <1>1, <1>8 DEF RingInOrder
<1>10. SlotIsWorkers'
    <2>1. At(0) = start
        <3>. HIDE DEF At
        <3>1. At(0) = Wrapped(start + 0)
            BY <1>1, <1>2
        <3>. QED BY <1>1, <3>1 DEF Wrapped
    <2>2. pc'[Worker] \in {"handle", "finish"} =>
             length > 0 /\ i = start /\ slot'[start] = done + 1
        <3>. HIDE DEF At
        <3>. QED BY <1>1, <1>6, <2>1 DEF SlotIsWorkers
    <2>. QED BY <1>1, <2>2 DEF SlotIsWorkers
<1>. QED BY <1>9, <1>10

(* Giving the first slot back leaves the others in order.                  *)
LEMMA FinishKeepsRing ==
    ASSUME TypeOK, RingInOrder, SlotIsWorkers, Finish, pc'[Worker] = "ready"
    PROVE  /\ RingInOrder' /\ SlotIsWorkers'
           /\ length > 0
           /\ start' \in 0..(Size - 1)
<1>1. /\ Size \in Nat \ {0} /\ start \in 0..(Size - 1) /\ length \in 1..Size
      /\ put \in Nat /\ done \in Nat
    BY SizeAssumption DEF TypeOK, Finish, SlotIsWorkers
<1>2. start' = Wrapped(start + 1)
    <2>1. start + 1 \in 0..(2 * Size - 1)
        BY <1>1
    <2>2. (start + 1) % Size = Wrapped(start + 1)
        BY <2>1, RingIndex
    <2>3. start' = (start + 1) % Size
        BY DEF Finish
    <2>. QED BY <2>2, <2>3, Zenon
<1>3. \A k \in 0..(length - 2) : (start' + k) % Size = (start + (k + 1)) % Size
    <2>. SUFFICES ASSUME NEW k \in 0..(length - 2)
                  PROVE  (start' + k) % Size = (start + (k + 1)) % Size
        OBVIOUS
    <2>1. start' + k \in 0..(2 * Size - 1) /\ start + (k + 1) \in 0..(2 * Size - 1)
        BY <1>1, <1>2 DEF Wrapped
    <2>2. (start' + k) % Size = Wrapped(start' + k)
        BY <2>1, RingIndex
    <2>3. (start + (k + 1)) % Size = Wrapped(start + (k + 1))
        BY <2>1, RingIndex
    <2>. QED BY <1>1, <1>2, <2>2, <2>3 DEF Wrapped
<1>4. \A k \in 0..(length - 2) : slot[(start' + k) % Size] = (done + 1) + k + 1
    <2>. SUFFICES ASSUME NEW k \in 0..(length - 2)
                  PROVE  slot[(start' + k) % Size] = (done + 1) + k + 1
        OBVIOUS
    <2>1. k + 1 \in 0..(length - 1)
        BY <1>1
    <2>2. slot[(start + (k + 1)) % Size] = done + (k + 1) + 1
        BY <2>1 DEF RingInOrder
    <2>. QED BY <1>1, <1>3, <2>2
<1>5. RingInOrder'
    <2>1. put = done + length
        BY DEF RingInOrder
    <2>2. length' - 1 = length - 2 /\ slot' = slot /\ put' = put /\ done' = done + 1
        BY <1>1 DEF Finish
    <2>3. put' = done' + length'
        BY <1>1, <2>1, <2>2 DEF Finish
    <2>4. \A k \in 0..(length' - 1) : slot'[(start' + k) % Size] = done' + k + 1
        BY <1>4, <2>2
    <2>. QED BY <2>3, <2>4 DEF RingInOrder
<1>6. SlotIsWorkers'
    BY DEF SlotIsWorkers
<1>. QED BY <1>1, <1>2, <1>5, <1>6 DEF Wrapped

(* The callers asleep and the callers about to run.                        *)
LEMMA CallerSetsTyped ==
    /\ Waiting \in SUBSET Callers /\ Ready \in SUBSET Callers
    /\ Waiting' \in SUBSET Callers /\ Ready' \in SUBSET Callers
BY DEF Waiting, Ready

(* One caller leaves a set, or joins it.                                   *)
LEMMA OneLess ==
    ASSUME NEW S \in SUBSET Callers, NEW x
    PROVE  Cardinality(S \ {x}) = IF x \in S THEN Cardinality(S) - 1 ELSE Cardinality(S)
BY CallerSets, FS_RemoveElement

LEMMA OneMore ==
    ASSUME NEW S \in SUBSET Callers, NEW x
    PROVE  Cardinality(S \cup {x}) = IF x \in S THEN Cardinality(S) ELSE Cardinality(S) + 1
BY CallerSets, FS_AddElement

PcTyped ==
    /\ pc \in [Threads -> CallerPc \cup WorkerPc]
    /\ pc[Worker] \in WorkerPc
    /\ \A c \in Callers : pc[c] \in CallerPc

(* Program counters after one of them is set.                              *)
LEMMA PcStep ==
    ASSUME TypeOK, NEW t \in Threads, NEW v,
           v \in IF t = Worker THEN WorkerPc ELSE CallerPc,
           pc' = [pc EXCEPT ![t] = v]
    PROVE  /\ PcTyped'
           /\ pc'[t] = v
           /\ \A u \in Threads \ {t} : pc'[u] = pc[u]
BY CallersAssumption DEF TypeOK, Threads, PcTyped

(* Who is woken by a caller that has put its item.                         *)
LEMMA EnqueueEffect ==
    ASSUME TypeOK, NEW c \in Callers, pc[c] = "ready",
           pc' \in Signalled([pc EXCEPT ![c] = "idle"])
    PROVE  /\ PcTyped'
           /\ \/ /\ Waiting' = {} /\ pc[Worker] # "waiting"
                 /\ pc'[Worker] = pc[Worker]
              \/ /\ pc[Worker] = "waiting" /\ pc'[Worker] = "ready"
                 /\ Waiting' = Waiting /\ Ready' = Ready \ {c}
              \/ /\ pc'[Worker] = pc[Worker]
                 /\ \E t \in Waiting : /\ Waiting' = Waiting \ {t}
                                        /\ Ready' = (Ready \ {c}) \cup {t}
<1>. DEFINE f == [pc EXCEPT ![c] = "idle"]
<1>1. /\ Worker \notin Callers /\ Callers \subseteq Threads /\ Worker \in Threads
      /\ c # Worker
    BY CallersAssumption DEF Threads
<1>2. /\ f \in [Threads -> CallerPc \cup WorkerPc]
      /\ f[c] = "idle" /\ \A u \in Threads \ {c} : f[u] = pc[u]
    BY <1>1 DEF TypeOK, CallerPc
<1>3. /\ pc \in [Threads -> CallerPc \cup WorkerPc] /\ pc[Worker] \in WorkerPc
      /\ \A u \in Callers : pc[u] \in CallerPc
    BY DEF TypeOK
<1>. HIDE DEF f
<1>4. \/ pc' = f /\ \A t \in Threads : f[t] # "waiting"
      \/ \E t \in Threads : f[t] = "waiting" /\ pc' = [f EXCEPT ![t] = "ready"]
    BY SignalEffect DEF f
<1>5. CASE pc' = f /\ \A t \in Threads : f[t] # "waiting"
    <2>1. PcTyped'
        BY <1>1, <1>2, <1>3, <1>5 DEF PcTyped, CallerPc
    <2>2. Waiting' = {} /\ pc[Worker] # "waiting" /\ pc'[Worker] = pc[Worker]
        BY <1>1, <1>2, <1>5 DEF Waiting
    <2>. QED BY <2>1, <2>2
<1>6. CASE \E t \in Threads : f[t] = "waiting" /\ pc' = [f EXCEPT ![t] = "ready"]
    <2>. PICK t \in Threads : f[t] = "waiting" /\ pc' = [f EXCEPT ![t] = "ready"]
        BY <1>6
    <2>1. /\ pc'[t] = "ready" /\ t # c /\ pc[t] = "waiting" /\ pc'[c] = "idle"
          /\ \A u \in Threads \ {t, c} : pc'[u] = pc[u]
        BY <1>1, <1>2
    <2>2. PcTyped'
        BY <1>1, <1>2, <1>3, <2>1 DEF PcTyped, CallerPc, WorkerPc, Threads
    <2>3. CASE t = Worker
        <3>1. Waiting' = Waiting /\ Ready' = Ready \ {c}
            BY <1>1, <2>1, <2>3 DEF Waiting, Ready
        <3>. QED BY <2>1, <2>2, <2>3, <3>1
    <2>4. CASE t # Worker
        <3>1. t \in Waiting /\ pc'[Worker] = pc[Worker]
            BY <1>1, <2>1, <2>4 DEF Waiting, Threads
        <3>2. Waiting' = Waiting \ {t} /\ Ready' = (Ready \ {c}) \cup {t}
            BY <1>1, <2>1, <2>4, <3>1 DEF Waiting, Ready, Threads
        <3>. QED BY <2>2, <3>1, <3>2
    <2>. QED BY <2>3, <2>4
<1>. QED BY <1>4, <1>5, <1>6

(* Who is woken by the worker giving a slot back.                          *)
LEMMA FinishEffect ==
    ASSUME TypeOK, pc[Worker] = "finish",
           pc' \in Signalled([pc EXCEPT ![Worker] = "ready"])
    PROVE  /\ PcTyped' /\ pc'[Worker] = "ready"
           /\ \/ Waiting' = {}
              \/ \E t \in Waiting : /\ Waiting' = Waiting \ {t}
                                     /\ Ready' = Ready \cup {t}
<1>. DEFINE f == [pc EXCEPT ![Worker] = "ready"]
<1>1. Worker \notin Callers /\ Callers \subseteq Threads /\ Worker \in Threads
    BY CallersAssumption DEF Threads
<1>2. /\ f \in [Threads -> CallerPc \cup WorkerPc]
      /\ f[Worker] = "ready" /\ \A u \in Threads \ {Worker} : f[u] = pc[u]
    BY <1>1 DEF TypeOK, CallerPc
<1>3. /\ pc \in [Threads -> CallerPc \cup WorkerPc] /\ pc[Worker] \in WorkerPc
      /\ \A u \in Callers : pc[u] \in CallerPc
    BY DEF TypeOK
<1>. HIDE DEF f
<1>4. \/ pc' = f /\ \A t \in Threads : f[t] # "waiting"
      \/ \E t \in Threads : f[t] = "waiting" /\ pc' = [f EXCEPT ![t] = "ready"]
    BY SignalEffect DEF f
<1>5. CASE pc' = f /\ \A t \in Threads : f[t] # "waiting"
    <2>1. PcTyped' /\ pc'[Worker] = "ready"
        BY <1>1, <1>2, <1>3, <1>5 DEF PcTyped, WorkerPc
    <2>2. Waiting' = {}
        BY <1>1, <1>2, <1>5 DEF Waiting
    <2>. QED BY <2>1, <2>2
<1>6. CASE \E t \in Threads : f[t] = "waiting" /\ pc' = [f EXCEPT ![t] = "ready"]
    <2>. PICK t \in Threads : f[t] = "waiting" /\ pc' = [f EXCEPT ![t] = "ready"]
        BY <1>6
    <2>1. /\ pc'[t] = "ready" /\ t # Worker /\ pc[t] = "waiting" /\ pc'[Worker] = "ready"
          /\ \A u \in Threads \ {t, Worker} : pc'[u] = pc[u]
        BY <1>1, <1>2
    <2>2. PcTyped'
        BY <1>1, <1>2, <1>3, <2>1 DEF PcTyped, CallerPc, WorkerPc, Threads
    <2>3. t \in Waiting
        BY <1>1, <2>1 DEF Waiting, Threads
    <2>4. Waiting' = Waiting \ {t} /\ Ready' = Ready \cup {t}
        BY <1>1, <2>1, <2>3 DEF Waiting, Ready, Threads
    <2>. QED BY <2>1, <2>2, <2>3, <2>4
<1>. QED BY <1>4, <1>5, <1>6

LEMMA CountsAreNat ==
    /\ Cardinality(Waiting) \in Nat /\ Cardinality(Ready) \in Nat
    /\ Cardinality(Waiting') \in Nat /\ Cardinality(Ready') \in Nat
    /\ Waiting # {} <=> Cardinality(Waiting) > 0
    /\ Waiting' # {} <=> Cardinality(Waiting') > 0
    /\ Cardinality(Waiting') <= Cardinality(Callers)
    /\ Cardinality(Callers) \in Nat
BY CallerSetsTyped, CallerSets

LEMMA EnqueuePreservesIInv ==
    ASSUME IInv, NEW c \in Callers, Enqueue(c)
    PROVE  IInv'
<1>1. /\ pc[c] = "ready" /\ pc' \in Signalled([pc EXCEPT ![c] = "idle"])
      /\ length # Size /\ length' = length + 1 /\ put' = put + 1
      /\ slot' = [slot EXCEPT ![(start + length) % Size] = put + 1]
      /\ UNCHANGED <<start, i, got, done>>
    BY DEF Enqueue
<1>2. TypeOK /\ RingInOrder /\ SlotIsWorkers /\ WakeupsCounted
    BY DEF IInv
<1>3. /\ PcTyped'
      /\ \/ /\ Waiting' = {} /\ pc[Worker] # "waiting"
            /\ pc'[Worker] = pc[Worker]
         \/ /\ pc[Worker] = "waiting" /\ pc'[Worker] = "ready"
            /\ Waiting' = Waiting /\ Ready' = Ready \ {c}
         \/ /\ pc'[Worker] = pc[Worker]
            /\ \E t \in Waiting : /\ Waiting' = Waiting \ {t}
                                   /\ Ready' = (Ready \ {c}) \cup {t}
    BY <1>1, <1>2, EnqueueEffect
<1>4. RingInOrder' /\ SlotIsWorkers'
    BY <1>1, <1>2, <1>3, EnqueueKeepsRing
<1>5. Size \in Nat \ {0} /\ length \in 0..(Size - 1) /\ Excess \in Nat
    BY <1>1, <1>2, SizeAssumption, ExcessBound DEF TypeOK
<1>6. TypeOK'
    <2>1. slot' \in [0..(Size - 1) -> Nat] /\ length' \in 0..Size /\ put' \in Nat
        BY <1>1, <1>2, <1>5 DEF TypeOK
    <2>. QED BY <1>1, <1>2, <1>3, <2>1 DEF TypeOK, PcTyped
<1>7. c \in Ready /\ c \notin Waiting
    BY <1>1 DEF Ready, Waiting
<1>8. Cardinality(Ready \ {c}) = Cardinality(Ready) - 1
    BY <1>7, OneLess, CallerSetsTyped
<1>9. WakeupsCounted'
    <2>1. CASE /\ Waiting' = {} /\ pc[Worker] # "waiting"
               /\ pc'[Worker] = pc[Worker]
        <3>1. Cardinality(Waiting') = 0 /\ Excess' = Excess
            BY <2>1, FS_EmptySet DEF Excess
        <3>. QED BY <1>1, <1>5, <2>1, <3>1 DEF WakeupsCounted
    <2>2. CASE /\ pc[Worker] = "waiting" /\ pc'[Worker] = "ready"
               /\ Waiting' = Waiting /\ Ready' = Ready \ {c}
        <3>1. Cardinality(Ready') = Cardinality(Ready) - 1 /\ Excess' = Excess
              /\ Cardinality(Waiting') = Cardinality(Waiting)
            BY <1>8, <2>2 DEF Excess
        <3>. QED BY <1>1, <1>2, <1>5, <2>2, <3>1, CountsAreNat DEF WakeupsCounted
    <2>3. CASE /\ pc'[Worker] = pc[Worker]
               /\ \E t \in Waiting : /\ Waiting' = Waiting \ {t}
                                      /\ Ready' = (Ready \ {c}) \cup {t}
        <3>. PICK t \in Waiting : /\ Waiting' = Waiting \ {t}
                                  /\ Ready' = (Ready \ {c}) \cup {t}
            BY <2>3
        <3>1. Cardinality(Waiting') = Cardinality(Waiting) - 1 /\ Excess' = Excess
            BY OneLess, CallerSetsTyped DEF Excess
        <3>2. t \notin Ready \ {c} /\ Ready \ {c} \in SUBSET Callers
            BY DEF Waiting, Ready
        <3>3. Cardinality(Ready') = Cardinality(Ready)
            <4>1. Cardinality((Ready \ {c}) \cup {t}) = Cardinality(Ready \ {c}) + 1
                BY <3>2, OneMore
            <4>. QED BY <1>8, <4>1, CountsAreNat
        <3>4. Ready' # {}
            OBVIOUS
        <3>. QED BY <1>1, <1>2, <1>5, <2>3, <3>1, <3>3, <3>4, CountsAreNat
                 DEF WakeupsCounted
    <2>. QED BY <1>3, <2>1, <2>2, <2>3
<1>. QED BY <1>4, <1>6, <1>9 DEF IInv

LEMMA FinishPreservesIInv ==
    ASSUME IInv, Finish
    PROVE  IInv'
<1>1. /\ pc[Worker] = "finish" /\ pc' \in Signalled([pc EXCEPT ![Worker] = "ready"])
      /\ length' = length - 1 /\ done' = done + 1 /\ UNCHANGED <<slot, i, got, put>>
    BY DEF Finish
<1>2. TypeOK /\ RingInOrder /\ SlotIsWorkers /\ WakeupsCounted
    BY DEF IInv
<1>3. /\ PcTyped' /\ pc'[Worker] = "ready"
      /\ \/ Waiting' = {}
         \/ \E t \in Waiting : Waiting' = Waiting \ {t} /\ Ready' = Ready \cup {t}
    BY <1>1, <1>2, FinishEffect
<1>4. RingInOrder' /\ SlotIsWorkers' /\ length > 0 /\ start' \in 0..(Size - 1)
    BY <1>2, <1>3, FinishKeepsRing
<1>5. Size \in Nat \ {0} /\ length \in 1..Size /\ Excess \in Nat
    BY <1>2, <1>4, SizeAssumption, ExcessBound DEF TypeOK
<1>6. TypeOK'
    <2>1. length' \in 0..Size /\ done' \in Nat
        BY <1>1, <1>2, <1>5 DEF TypeOK
    <2>. QED BY <1>1, <1>2, <1>3, <1>4, <2>1 DEF TypeOK, PcTyped
<1>7. WakeupsCounted'
    <2>1. CASE Waiting' = {}
        <3>1. Cardinality(Waiting') = 0 /\ Excess' = Excess
            BY <2>1, FS_EmptySet DEF Excess
        <3>. QED BY <1>1, <1>3, <1>5, <2>1, <3>1 DEF WakeupsCounted
    <2>2. CASE \E t \in Waiting : Waiting' = Waiting \ {t} /\ Ready' = Ready \cup {t}
        <3>. PICK t \in Waiting : Waiting' = Waiting \ {t} /\ Ready' = Ready \cup {t}
            BY <2>2
        <3>1. Cardinality(Waiting') = Cardinality(Waiting) - 1 /\ Excess' = Excess
            BY OneLess, CallerSetsTyped DEF Excess
        <3>2. t \notin Ready
            BY DEF Waiting, Ready
        <3>3. Cardinality(Ready') = Cardinality(Ready) + 1
            BY <3>2, OneMore, CallerSetsTyped
        <3>. QED BY <1>1, <1>2, <1>3, <1>5, <3>1, <3>3, CountsAreNat DEF WakeupsCounted
    <2>. QED BY <1>3, <2>1, <2>2
<1>. QED BY <1>4, <1>6, <1>7 DEF IInv

(* The other steps set one program counter and, at most, i or got.         *)
LEMMA PcOnlyPreservesIInv ==
    ASSUME IInv, NEW t \in Threads, NEW v,
           v \in IF t = Worker THEN {"ready", "waiting"} ELSE CallerPc,
           pc' = [pc EXCEPT ![t] = v],
           UNCHANGED <<start, length, slot, i, got, put, done>>,
           WakeupsCounted'
    PROVE  IInv'
<1>1. TypeOK /\ RingInOrder /\ SlotIsWorkers
    BY DEF IInv
<1>2. PcTyped' /\ pc'[t] = v /\ \A u \in Threads \ {t} : pc'[u] = pc[u]
    BY <1>1, PcStep DEF WorkerPc
<1>3. pc'[Worker] \in {"ready", "waiting"} \/ pc'[Worker] = pc[Worker]
    BY <1>2 DEF Threads
<1>4. RingInOrder' /\ SlotIsWorkers'
    BY <1>1, <1>3, PcOnlyKeepsRing
<1>5. TypeOK'
    BY <1>1, <1>2 DEF TypeOK, PcTyped
<1>. QED BY <1>4, <1>5 DEF IInv

LEMMA CallPreservesIInv ==
    ASSUME IInv, NEW c \in Callers, Call(c)
    PROVE  IInv'
<1>1. /\ pc[c] = "idle" /\ pc' = [pc EXCEPT ![c] = "ready"]
      /\ UNCHANGED <<start, length, slot, i, got, put, done>>
    BY DEF Call
<1>2. TypeOK /\ WakeupsCounted /\ c \in Threads /\ c # Worker /\ Worker \in Threads
    BY CallersAssumption DEF IInv, Threads
<1>3. pc'[c] = "ready" /\ \A u \in Threads \ {c} : pc'[u] = pc[u]
    BY <1>1, <1>2 DEF TypeOK
<1>4. /\ Waiting' = Waiting /\ Ready' = Ready \cup {c} /\ pc'[Worker] = pc[Worker]
      /\ c \notin Ready
    BY <1>1, <1>2, <1>3 DEF Waiting, Ready, Threads
<1>5. Cardinality(Ready') = Cardinality(Ready) + 1
    BY <1>4, OneMore, CallerSetsTyped
<1>6. WakeupsCounted'
    <2>1. Cardinality(Waiting') = Cardinality(Waiting) /\ Excess' = Excess /\ Ready' # {}
        BY <1>4 DEF Excess
    <2>2. length \in Nat /\ Size \in Nat /\ length' = length
        BY <1>1, <1>2, SizeAssumption DEF TypeOK
    <2>. QED BY <1>2, <1>4, <1>5, <2>1, <2>2, CountsAreNat DEF WakeupsCounted
<1>. QED BY <1>1, <1>2, <1>6, PcOnlyPreservesIInv DEF CallerPc

LEMMA EnqueueWaitPreservesIInv ==
    ASSUME IInv, NEW c \in Callers, EnqueueWait(c)
    PROVE  IInv'
<1>1. /\ pc[c] = "ready" /\ length = Size /\ pc' = [pc EXCEPT ![c] = "waiting"]
      /\ UNCHANGED <<start, length, slot, i, got, put, done>>
    BY DEF EnqueueWait
<1>2. TypeOK /\ WakeupsCounted /\ c \in Threads /\ c # Worker /\ Worker \in Threads
    BY CallersAssumption DEF IInv, Threads
<1>3. pc'[Worker] = pc[Worker]
    BY <1>1, <1>2 DEF TypeOK
<1>4. pc[Worker] # "waiting"
    BY <1>1, <1>2, ExcessBound, CountsAreNat, SizeAssumption DEF WakeupsCounted
<1>5. WakeupsCounted'
    <2>1. Excess' = Excess /\ length' = Size
        BY <1>1 DEF Excess
    <2>. QED BY <1>3, <1>4, <2>1, ExcessBound, CountsAreNat, SizeAssumption
             DEF WakeupsCounted
<1>. QED BY <1>1, <1>2, <1>5, PcOnlyPreservesIInv DEF CallerPc

LEMMA TakeWaitPreservesIInv ==
    ASSUME IInv, TakeWait
    PROVE  IInv'
<1>1. /\ length = 0 /\ pc' = [pc EXCEPT ![Worker] = "waiting"]
      /\ UNCHANGED <<start, length, slot, i, got, put, done>>
    BY DEF TakeWait
<1>2. TypeOK /\ WakeupsCounted /\ Worker \notin Callers /\ Worker \in Threads
    BY CallersAssumption DEF IInv, Threads
<1>3. Waiting' = Waiting /\ Ready' = Ready
    BY <1>1, <1>2 DEF Waiting, Ready, Threads, TypeOK
<1>4. WakeupsCounted'
    <2>1. /\ Excess' = Excess /\ length' = 0
          /\ Cardinality(Waiting') = Cardinality(Waiting)
          /\ Cardinality(Ready') = Cardinality(Ready)
        BY <1>1, <1>3 DEF Excess
    <2>. QED BY <1>1, <1>2, <1>3, <2>1, ExcessBound, CountsAreNat DEF WakeupsCounted
<1>. QED BY <1>1, <1>2, <1>4, PcOnlyPreservesIInv

LEMMA WakeupPreservesIInv ==
    ASSUME IInv, NEW t \in Threads, SpuriousWakeup(t)
    PROVE  IInv'
<1>1. /\ pc[t] = "waiting" /\ pc' = [pc EXCEPT ![t] = "ready"]
      /\ UNCHANGED <<start, length, slot, i, got, put, done>>
    BY DEF SpuriousWakeup
<1>2. TypeOK /\ WakeupsCounted /\ Worker \notin Callers /\ Worker \in Threads
    BY CallersAssumption DEF IInv, Threads
<1>3. pc'[t] = "ready" /\ \A u \in Threads \ {t} : pc'[u] = pc[u]
    BY <1>1, <1>2 DEF TypeOK
<1>4. length \in Nat /\ Size \in Nat /\ length' = length /\ Excess' = Excess
    BY <1>1, <1>2, SizeAssumption DEF TypeOK, Excess
<1>5. WakeupsCounted'
    <2>1. CASE t = Worker
        <3>1. Waiting' = Waiting /\ Ready' = Ready /\ pc'[Worker] = "ready"
            BY <1>2, <1>3, <2>1 DEF Waiting, Ready, Threads
        <3>. QED BY <1>2, <1>4, <3>1 DEF WakeupsCounted
    <2>2. CASE t # Worker
        <3>1. /\ Waiting' = Waiting \ {t} /\ Ready' = Ready \cup {t}
              /\ t \in Waiting /\ t \notin Ready /\ pc'[Worker] = pc[Worker]
            BY <1>1, <1>2, <1>3, <2>2 DEF Waiting, Ready, Threads
        <3>2. /\ Cardinality(Waiting') = Cardinality(Waiting) - 1
              /\ Cardinality(Ready') = Cardinality(Ready) + 1
              /\ Ready' # {}
            BY <3>1, OneLess, OneMore, CallerSetsTyped
        <3>. QED BY <1>2, <1>4, <3>1, <3>2, ExcessBound, CountsAreNat DEF WakeupsCounted
    <2>. QED BY <2>1, <2>2
<1>. QED BY <1>1, <1>2, <1>5, PcOnlyPreservesIInv DEF CallerPc

(* Take and Handle: the worker is awake, its slot is the first one.        *)
LEMMA WorkerPreservesIInv ==
    ASSUME IInv, Take \/ Handle
    PROVE  IInv'
<1>1. TypeOK /\ RingInOrder /\ SlotIsWorkers /\ WakeupsCounted
    BY DEF IInv
<1>2. /\ Worker \notin Callers /\ Worker \in Threads /\ Size \in Nat \ {0}
      /\ start \in 0..(Size - 1) /\ length \in 0..Size /\ done \in Nat
    BY <1>1, CallersAssumption, SizeAssumption DEF Threads, TypeOK
<1>3. /\ UNCHANGED <<start, length, slot, put, done>>
      /\ \/ pc' = [pc EXCEPT ![Worker] = "handle"]
         \/ pc' = [pc EXCEPT ![Worker] = "finish"]
    BY DEF Take, Handle
<1>4. /\ PcTyped' /\ pc'[Worker] \in {"handle", "finish"}
      /\ \A u \in Callers : pc'[u] = pc[u]
    BY <1>1, <1>2, <1>3 DEF TypeOK, PcTyped, WorkerPc, Threads
<1>5. WakeupsCounted'
    <2>1. Waiting' = Waiting /\ Ready' = Ready /\ Excess' = Excess
        BY <1>4 DEF Waiting, Ready, Excess
    <2>. QED BY <1>1, <1>3, <1>4, <2>1 DEF WakeupsCounted
<1>6. RingInOrder'
    BY <1>1, <1>3 DEF RingInOrder
<1>7. SlotIsWorkers' /\ i' \in 0..(Size - 1) /\ got' \in Nat
    <2>1. CASE Take
        <3>1. (start + 0) % Size = start
            <4>1. (start + 0) % Size = Wrapped(start + 0)
                BY <1>2, RingIndex
            <4>. QED BY <1>2, <4>1 DEF Wrapped
        <3>2. length > 0 /\ slot[start] = done + 1
            <4>1. length > 0
                BY <1>2, <2>1 DEF Take
            <4>2. slot[(start + 0) % Size] = done + 0 + 1
                BY <1>1, <1>2, <4>1 DEF RingInOrder
            <4>. HIDE <1>1
            <4>. QED BY <1>2, <3>1, <4>1, <4>2
        <3>3. pc'[Worker] = "handle" /\ i' = start /\ got' = got
            BY <1>1, <1>2, <2>1 DEF Take, TypeOK
        <3>. QED BY <1>1, <1>2, <1>3, <3>2, <3>3 DEF SlotIsWorkers, TypeOK
    <2>2. CASE Handle
        <3>1. length > 0 /\ i = start /\ slot[i] = done + 1 /\ got' = slot[i] /\ i' = i
            BY <1>1, <2>2 DEF Handle, SlotIsWorkers
        <3>. QED BY <1>2, <1>3, <3>1 DEF SlotIsWorkers
    <2>. QED BY <2>1, <2>2
<1>8. TypeOK'
    BY <1>1, <1>3, <1>4, <1>7 DEF TypeOK, PcTyped
<1>. QED BY <1>5, <1>6, <1>7, <1>8 DEF IInv

LEMMA NextPreservesIInv == IInv /\ [Next]_vars => IInv'
<1>. SUFFICES ASSUME IInv, [Next]_vars PROVE IInv'
    OBVIOUS
<1>1. CASE Take \/ Handle
    BY <1>1, WorkerPreservesIInv
<1>2. CASE TakeWait
    BY <1>2, TakeWaitPreservesIInv
<1>3. CASE Finish
    BY <1>3, FinishPreservesIInv
<1>4. ASSUME NEW c \in Callers, Call(c) \/ CallerStep(c) PROVE IInv'
    BY <1>4, CallPreservesIInv, EnqueuePreservesIInv, EnqueueWaitPreservesIInv DEF CallerStep
<1>5. ASSUME NEW t \in Threads, SpuriousWakeup(t) PROVE IInv'
    BY <1>5, WakeupPreservesIInv
<1>6. CASE UNCHANGED vars
    <2>1. Waiting' = Waiting /\ Ready' = Ready /\ Excess' = Excess
        BY <1>6 DEF vars, Waiting, Ready, Excess
    <2>. QED BY <1>6, <2>1 DEF vars, IInv, TypeOK, RingInOrder, SlotIsWorkers, WakeupsCounted
<1>. QED BY <1>1, <1>2, <1>3, <1>4, <1>5, <1>6 DEF Next, WorkerStep

LEMMA Invariance == Spec => []IInv
BY InitIInv, NextPreservesIInv, PTL DEF Spec

(* Type correctness of the queue of enqueue_rlc_data_req and               *)
(* enqueue_pdcp_data_ind.                                                  *)
THEOREM TypeCorrect == Spec => []TypeOK
<1>1. IInv => TypeOK
    BY DEF IInv
<1>. QED BY <1>1, Invariance, PTL

(* The ring keeps the items in the order in which enqueue_rlc_data_req and  *)
(* enqueue_pdcp_data_ind put them, wherever start + length wraps.          *)
THEOREM ItemsInOrder == Spec => []RingInOrder
<1>1. IInv => RingInOrder
    BY DEF IInv
<1>. QED BY <1>1, Invariance, PTL

(* The slot that the worker reads after unlocking the mutex is its own, for *)
(* every ring size and every interleaving of callers.                      *)
THEOREM WorkerOwnsItsSlot == Spec => []SlotIsWorkers
<1>1. IInv => SlotIsWorkers
    BY DEF IInv
<1>. QED BY <1>1, Invariance, PTL

(* The callers that sleep in pthread_cond_wait are never more than the      *)
(* signals that slots given back and filled still have to send.            *)
THEOREM SleepersCounted == Spec => []WakeupsCounted
<1>1. IInv => WakeupsCounted
    BY DEF IInv
<1>. QED BY <1>1, Invariance, PTL

(* One condition variable shared by both sides loses no wake-up as long as *)
(* there are fewer calling threads than twice the slots.                   *)
THEOREM WakeupsAreNotLost == Spec => []NoLostWakeup
<1>1. IInv => NoLostWakeup
    <2>. SUFFICES ASSUME IInv, pc[Worker] = "waiting"
                  PROVE  \/ length = 0 /\ \A c \in Callers : pc[c] # "waiting"
                         \/ length # Size /\ \E c \in Callers : pc[c] = "ready"
        BY DEF NoLostWakeup
    <2>1. length \in 0..Size /\ Size \in Nat \ {0}
        BY SizeAssumption DEF IInv, TypeOK
    <2>2. /\ Cardinality(Waiting) + length <= Excess
          /\ length > 0 => Ready # {}
          /\ Waiting # {} => length + Cardinality(Ready) >= Size
        BY DEF IInv, WakeupsCounted
    <2>3. length < Size
        BY <2>1, <2>2, ExcessBound, CountsAreNat
    <2>4. Ready # {} => \E c \in Callers : pc[c] = "ready"
        BY DEF Ready
    <2>5. CASE length > 0
        BY <2>1, <2>2, <2>3, <2>4, <2>5
    <2>6. CASE length = 0 /\ Waiting = {}
        BY <2>6 DEF Waiting
    <2>7. CASE length = 0 /\ Waiting # {}
        <3>1. Cardinality(Ready) > 0
            BY <2>1, <2>2, <2>7, CountsAreNat
        <3>2. Ready # {}
            BY <3>1, CallerSetsTyped, CallerSets
        <3>. QED BY <2>1, <2>3, <2>4, <3>2
    <2>. QED BY <2>1, <2>5, <2>6, <2>7
<1>. QED BY <1>1, Invariance, PTL
=============================================================================
