--------------------------- MODULE NrRlcAmProofs ---------------------------
(***************************************************************************)
(* Proofs about the RLC AM bearer, for any window, any sizes of SDUs and   *)
(* grants, and any number of PDUs under way.                               *)
(*                                                                         *)
(* Inv is about each end alone: types, segments that share no byte, SNs in *)
(* the window of the receiver, timers.  It always holds.                   *)
(*                                                                         *)
(* Aligned is about the two ends together: the number that tx_next_ack     *)
(* stands for (Base) is not above the one rx_next stands for, and neither  *)
(* lies more than a window below tx_next, so that SNs compare as numbers   *)
(* do.  This rests on what STATUS PDUs say being true, and that on the     *)
(* comparison of SNs being exact when they were generated: the parts of    *)
(* Aligned are only inductive together.  It holds until tx_next_ack passes *)
(* an SDU that was not fully sent.                                         *)
(*                                                                         *)
(* Polled is about the last poll of the sender, and rests on both.         *)
(*                                                                         *)
(* Awaited is about what the STATUS PDUs under way can do together, and    *)
(* rests on both: something stays listed whichever of them arrive.         *)
(***************************************************************************)
EXTENDS NrRlcAm, Integers, WellFoundedInduction, FiniteSetTheorems, TLAPS

-----------------------------------------------------------------------------
(* Natural numbers and remainders.                                          *)

(* Every non-empty set of naturals has a least element.                    *)
LEMMA LeastNatural ==
    ASSUME NEW T, T \subseteq Nat, T # {}
    PROVE  \E x \in T : \A y \in T : x <= y
<1>1. IsWellFoundedOn(OpToRel(<, Nat), Nat)
    BY NatLessThanWellFounded
<1>2. \E x \in T : \A y \in T : ~(<<y, x>> \in OpToRel(<, Nat))
    BY <1>1, WFMin, Zenon
<1>3. \A x, y \in Nat : y < x => <<y, x>> \in OpToRel(<, Nat)
    BY Zenon DEF OpToRel
<1>4. \E x \in T : \A y \in T : ~(y < x)
    BY <1>2, <1>3, Zenon
<1>. QED BY <1>4

(* A multiple of a positive number is at least that number in size.        *)
LEMMA Multiples ==
    ASSUME NEW m \in Nat \ {0}, NEW k \in Int
    PROVE  /\ k >= 1 => k * m >= m
           /\ k <= -1 => k * m <= -m
<1>1. k >= 1 => k * m >= m
  <2>. SUFFICES ASSUME k >= 1 PROVE k * m >= m
    OBVIOUS
  <2>1. (k - 1) * m >= 0
    OBVIOUS
  <2>. QED BY <2>1
<1>2. k <= -1 => k * m <= -m
  <2>. SUFFICES ASSUME k <= -1 PROVE k * m <= -m
    OBVIOUS
  <2>1. ((-k) - 1) * m >= 0
    OBVIOUS
  <2>. QED BY <2>1
<1>. QED BY <1>1, <1>2

(* The remainder of an integer; a number is congruent to its remainder.    *)
LEMMA IntMod ==
    ASSUME NEW m \in Nat \ {0}, NEW a \in Int
    PROVE  /\ a % m \in 0..(m - 1)
           /\ \E q \in Int : a = q * m + (a % m)
<1>1. a % m \in 0..(m - 1) /\ a \div m \in Int /\ a = (a \div m) * m + (a % m)
    OBVIOUS
<1>. QED BY <1>1

(* The remainder is the only number of its range congruent to the integer. *)
LEMMA ModUnique ==
    ASSUME NEW m \in Nat \ {0}, NEW a \in Int, NEW q \in Int, NEW r \in 0..(m - 1),
           a = q * m + r
    PROVE  a % m = r
<1>. DEFINE s == a % m
<1>1. PICK k \in Int : a = k * m + s
    BY IntMod
<1>2. s \in 0..(m - 1)
    BY IntMod
<1>. HIDE DEF s
<1>3. (q - k) * m = s - r
    BY <1>1, <1>2
<1>4. /\ q - k >= 1 => (q - k) * m >= m
      /\ q - k <= -1 => (q - k) * m <= -m
    BY Multiples
<1>5. q - k = 0
    BY <1>2, <1>3, <1>4
<1>6. q = k
    BY <1>5
<1>7. s = r
    BY <1>1, <1>2, <1>6
<1>. QED BY <1>7 DEF s

(* Numbers that differ by a multiple have the same remainder.              *)
LEMMA Congruent ==
    ASSUME NEW m \in Nat \ {0}, NEW x \in Int, NEW y \in Int, NEW q \in Int,
           x = y + q * m
    PROVE  x % m = y % m
<1>. DEFINE r == y % m
<1>1. PICK k \in Int : y = k * m + r
    BY IntMod
<1>2. r \in 0..(m - 1)
    BY IntMod
<1>. HIDE DEF r
<1>3. PICK l \in Int : l = q + k
    OBVIOUS
<1>4. l * m = q * m + k * m
    BY <1>3
<1>5. x = l * m + r
    BY <1>1, <1>2, <1>4
<1>6. x % m = r
    BY <1>2, <1>5, ModUnique
<1>. QED BY <1>6 DEF r

(* Remainders may be taken before or after a difference or a sum.          *)
LEMMA ModDiff ==
    ASSUME NEW m \in Nat \ {0}, NEW x \in Int, NEW y \in Int
    PROVE  ((x % m) - (y % m)) % m = (x - y) % m
<1>1. PICK r \in Int, j \in Int : r = x % m /\ x = j * m + r
  <2>1. PICK i \in Int : x = i * m + (x % m)
    BY IntMod
  <2>2. x % m \in Int
    BY IntMod
  <2>. QED BY <2>1, <2>2
<1>2. PICK s \in Int, k \in Int : s = y % m /\ y = k * m + s
  <2>1. PICK i \in Int : y = i * m + (y % m)
    BY IntMod
  <2>2. y % m \in Int
    BY IntMod
  <2>. QED BY <2>1, <2>2
<1>3. PICK a \in Int, b \in Int, q \in Int : a = x - y /\ b = r - s /\ q = j - k
    OBVIOUS
<1>4. q * m = j * m - k * m
    BY <1>3
<1>5. a = b + q * m
    BY <1>1, <1>2, <1>3, <1>4
<1>6. a % m = b % m
    BY <1>5, Congruent
<1>. QED BY <1>1, <1>2, <1>3, <1>6

LEMMA ModAdd ==
    ASSUME NEW m \in Nat \ {0}, NEW x \in Int, NEW y \in Int
    PROVE  ((x % m) + y) % m = (x + y) % m
<1>1. PICK r \in Int, j \in Int : r = x % m /\ x = j * m + r
  <2>1. PICK i \in Int : x = i * m + (x % m)
    BY IntMod
  <2>2. x % m \in Int
    BY IntMod
  <2>. QED BY <2>1, <2>2
<1>2. PICK a \in Int, b \in Int : a = x + y /\ b = r + y
    OBVIOUS
<1>3. a = b + j * m
    BY <1>1, <1>2
<1>4. a % m = b % m
    BY <1>3, Congruent
<1>. QED BY <1>1, <1>2, <1>4

(* Remainders of numbers near zero.                                        *)
LEMMA NearMod ==
    ASSUME NEW m \in Nat \ {0}, NEW x \in Int
    PROVE  /\ 0 <= x /\ x < m => x % m = x
           /\ -m <= x /\ x < 0 => x % m = x + m
<1>1. ASSUME 0 <= x, x < m PROVE x % m = x
    BY <1>1, ModUnique, x = 0 * m + x
<1>2. ASSUME -m <= x, x < 0 PROVE x % m = x + m
    BY <1>2, ModUnique, x = (-1) * m + (x + m), x + m \in 0..(m - 1)
<1>. QED BY <1>1, <1>2

-----------------------------------------------------------------------------

(* Sequence numbers, and the arithmetic of modulus_tx and modulus_rx.      *)
SN == 0..(SnModulus - 1)

(* The SN space is twice the window.                                       *)
LEMMA Modulus ==
    /\ WindowSize \in Nat /\ WindowSize >= 2
    /\ SnModulus \in Nat \ {0} /\ SnModulus = 2 * WindowSize
BY SizeAssumption DEF SnModulus

(* Every number has an SN.                                                 *)
LEMMA SnType ==
    ASSUME NEW i \in Int
    PROVE  Sn(i) \in SN /\ Sn(i) \in Int
<1>1. i % SnModulus \in 0..(SnModulus - 1)
    BY Modulus, IntMod
<1>. QED BY <1>1, Modulus DEF Sn, SN

(* Distances of SNs lie below the size of the SN space.                    *)
LEMMA DistanceType ==
    ASSUME NEW base \in Int, NEW sn \in Int
    PROVE  modulus_rx(base, sn) \in 0..(SnModulus - 1)
<1>1. PICK d \in Int : d = sn - base
    OBVIOUS
<1>2. d % SnModulus \in 0..(SnModulus - 1)
    BY Modulus, IntMod
<1>. QED BY <1>1, <1>2 DEF modulus_rx

(* The distance of two SNs, when the numbers they stand for are near.      *)
LEMMA SnDistance ==
    ASSUME NEW p \in Int, NEW i \in Int
    PROVE  /\ p <= i /\ i < p + SnModulus => modulus_rx(Sn(p), Sn(i)) = i - p
           /\ i < p /\ p <= i + SnModulus => modulus_rx(Sn(p), Sn(i)) = i - p + SnModulus
<1>1. PICK d \in Int : d = i - p
    OBVIOUS
<1>2. modulus_rx(Sn(p), Sn(i)) = d % SnModulus
  <2>1. ((i % SnModulus) - (p % SnModulus)) % SnModulus = (i - p) % SnModulus
    BY Modulus, ModDiff
  <2>. QED BY <1>1, <2>1 DEF modulus_rx, Sn
<1>3. /\ 0 <= d /\ d < SnModulus => d % SnModulus = d
      /\ -SnModulus <= d /\ d < 0 => d % SnModulus = d + SnModulus
    BY Modulus, NearMod
<1>. QED BY <1>1, <1>2, <1>3, Modulus

(* The SN at a distance from another.                                      *)
LEMMA SnAt ==
    ASSUME NEW p \in Int, NEW n \in SN
    PROVE  Sn(p + modulus_rx(Sn(p), n)) = n
<1>1. n \in Int /\ n % SnModulus = n
    BY Modulus, NearMod DEF SN
<1>2. PICK a \in Int : a = n - p
    BY <1>1
<1>3. modulus_rx(Sn(p), n) = a % SnModulus
  <2>1. ((n % SnModulus) - (p % SnModulus)) % SnModulus = (n - p) % SnModulus
    BY <1>1, Modulus, ModDiff
  <2>. QED BY <1>1, <1>2, <2>1 DEF modulus_rx, Sn
<1>4. PICK q \in Int : a = q * SnModulus + (a % SnModulus)
    BY Modulus, IntMod
<1>5. PICK d \in Int : d = a % SnModulus
    BY Modulus, IntMod
<1>6. PICK k \in Int, x \in Int : k = -q /\ x = p + d
    OBVIOUS
<1>7. k * SnModulus = -(q * SnModulus)
    BY <1>6, Modulus
<1>8. x = n + k * SnModulus
  <2>1. PICK z \in Int : z = q * SnModulus
    BY Modulus
  <2>2. a = z + d /\ k * SnModulus = -z
    BY <1>4, <1>5, <1>7, <2>1
  <2>. QED BY <1>1, <1>2, <1>6, <2>2
<1>9. x % SnModulus = n % SnModulus
  <2>1. PICK m \in Nat \ {0} : m = SnModulus
    BY Modulus
  <2>2. x = n + k * m /\ n \in Int
    BY <1>1, <1>8, <2>1
  <2>3. x % m = n % m
    BY ONLY <2>2, Congruent, x \in Int, k \in Int, m \in Nat \ {0}
  <2>. QED BY <2>1, <2>3
<1>. QED BY <1>1, <1>3, <1>5, <1>6, <1>9 DEF Sn

(* Different numbers with the same SN are at least an SN space apart.      *)
LEMMA SnSame ==
    ASSUME NEW i \in Int, NEW j \in Int, Sn(i) = Sn(j),
           i < j + SnModulus, j < i + SnModulus
    PROVE  i = j
<1>1. modulus_rx(Sn(i), Sn(j)) = modulus_rx(Sn(i), Sn(i)) /\ modulus_rx(Sn(i), Sn(i)) = 0
    BY SnDistance, Modulus
<1>2. CASE i <= j
    BY <1>1, <1>2, SnDistance, Modulus
<1>3. CASE j < i
    BY <1>1, <1>3, SnDistance, Modulus
<1>. QED BY <1>2, <1>3

(* SNs at the same distance are the same.                                  *)
LEMMA SameDistance ==
    ASSUME NEW p \in Int, NEW m \in SN, NEW n \in SN,
           modulus_rx(Sn(p), m) = modulus_rx(Sn(p), n)
    PROVE  m = n
BY SnAt

(* Distances from a base that has moved on by d.                           *)
LEMMA Shift ==
    ASSUME NEW p \in Int, NEW d \in 0..(SnModulus - 1), NEW n \in SN
    PROVE  modulus_rx(Sn(p + d), n) =
             IF modulus_rx(Sn(p), n) >= d THEN modulus_rx(Sn(p), n) - d
             ELSE modulus_rx(Sn(p), n) - d + SnModulus
<1>1. PICK e \in 0..(SnModulus - 1) : e = modulus_rx(Sn(p), n)
  <2>1. n \in Int /\ Sn(p) \in Int
    BY SnType, Modulus DEF SN
  <2>2. modulus_rx(Sn(p), n) \in 0..(SnModulus - 1)
    BY <2>1, DistanceType
  <2>. QED BY <2>2
<1>2. PICK i \in Int, r \in Int : i = p + e /\ r = p + d
    BY Modulus
<1>3. n = Sn(i)
    BY <1>1, <1>2, SnAt
<1>4. modulus_rx(Sn(r), Sn(i)) = IF e >= d THEN e - d ELSE e - d + SnModulus
  <2>1. CASE e >= d
    BY <1>2, <2>1, SnDistance, Modulus
  <2>2. CASE e < d
    BY <1>2, <2>2, SnDistance, Modulus
  <2>. QED BY <2>1, <2>2, Modulus
<1>. QED BY <1>1, <1>2, <1>3, <1>4

(* Counting on from an SN is counting on from its number.                  *)
LEMMA SnSucc ==
    ASSUME NEW i \in Int, NEW k \in Int
    PROVE  Sn(Sn(i) + k) = Sn(i + k)
BY Modulus, ModAdd DEF Sn

(* An SN is its own SN.                                                    *)
LEMMA SnOfSn ==
    ASSUME NEW n \in SN
    PROVE  Sn(n) = n
BY Modulus, NearMod DEF Sn, SN

(* modulus_tx is modulus_rx from tx_next_ack on.                           *)
LEMMA TxIsRx ==
    ASSUME NEW sn
    PROVE  modulus_tx(sn) = modulus_rx(tx_next_ack, sn)
BY DEF modulus_tx, modulus_rx

(* SNs are natural numbers.                                                *)
LEMMA SnsAreNumbers == SN \subseteq Nat
BY Modulus DEF SN

(* The type of modulus_tx.                                                 *)
LEMMA TxDistance ==
    ASSUME tx_next_ack \in SN, NEW n \in SN
    PROVE  modulus_tx(n) \in 0..(SnModulus - 1) /\ modulus_tx(n) \in Nat
<1>1. tx_next_ack \in Int /\ n \in Int
    BY SnsAreNumbers
<1>2. modulus_rx(tx_next_ack, n) \in 0..(SnModulus - 1)
    BY <1>1, DistanceType
<1>. QED BY <1>2, TxIsRx, Modulus

(* modulus_tx tells SNs apart.                                             *)
LEMMA TxSameDistance ==
    ASSUME tx_next_ack \in SN, NEW m \in SN, NEW n \in SN, modulus_tx(m) = modulus_tx(n)
    PROVE  m = n
<1>1. tx_next_ack \in Int /\ tx_next_ack = Sn(tx_next_ack)
    BY SnsAreNumbers, SnOfSn
<1>2. modulus_rx(Sn(tx_next_ack), m) = modulus_rx(Sn(tx_next_ack), n)
    BY <1>1, TxIsRx
<1>. QED BY <1>1, <1>2, SameDistance

(* A list that is not empty has a head, and nothing comes before it.       *)
LEMMA HeadIsFirst ==
    ASSUME tx_next_ack \in SN, NEW list, list # {},
           \A s \in list : s.sdu \in Nat /\ s.so \in Nat
    PROVE  /\ HeadOf(list) \in list
           /\ \A t \in list : modulus_tx(Sn(HeadOf(list).sdu)) <= modulus_tx(Sn(t.sdu))
<1>. DEFINE M(s) == modulus_tx(Sn(s.sdu))
            First0(s) == \A t \in list : \/ M(s) < M(t)
                                         \/ Sn(s.sdu) = Sn(t.sdu) /\ s.so <= t.so
<1>1. \A s \in list : Sn(s.sdu) \in SN /\ M(s) \in Nat
    BY SnType, TxDistance
<1>2. PICK k \in {M(s) : s \in list} : \A y \in {M(s) : s \in list} : k <= y
  <2>1. {M(s) : s \in list} \subseteq Nat /\ {M(s) : s \in list} # {}
    BY <1>1
  <2>. QED BY <2>1, LeastNatural
<1>. DEFINE Low == {s \in list : M(s) = k}
<1>3. PICK o \in {s.so : s \in Low} : \A y \in {s.so : s \in Low} : o <= y
  <2>1. {s.so : s \in Low} \subseteq Nat /\ {s.so : s \in Low} # {}
    BY <1>2
  <2>. QED BY <2>1, LeastNatural
<1>4. PICK s \in list : M(s) = k /\ s.so = o
    BY <1>3
<1>5. ASSUME NEW t \in list
      PROVE  M(s) < M(t) \/ (Sn(s.sdu) = Sn(t.sdu) /\ s.so <= t.so)
  <2>1. k <= M(t) /\ k \in Nat /\ M(t) \in Nat
    BY <1>1, <1>2
  <2>2. CASE k < M(t)
    BY <1>4, <2>2
  <2>3. CASE k = M(t)
    <3>1. Sn(s.sdu) = Sn(t.sdu)
      BY <1>1, <1>4, <2>3, TxSameDistance
    <3>2. s.so <= t.so
      BY <1>3, <1>4, <2>3
    <3>. QED BY <3>1, <3>2
  <2>. QED BY <2>1, <2>2, <2>3
<1>6. \E x \in list : First0(x)
    BY <1>5
<1>7. HeadOf(list) \in list /\ First0(HeadOf(list))
  <2>1. HeadOf(list) = CHOOSE x \in list : First0(x)
    BY DEF HeadOf
  <2>. HIDE DEF First0
  <2>. QED BY <1>6, <2>1
<1>8. ASSUME NEW t \in list PROVE M(HeadOf(list)) <= M(t)
  <2>1. M(HeadOf(list)) \in Nat /\ M(t) \in Nat
    BY <1>1, <1>7
  <2>2. M(HeadOf(list)) < M(t) \/ Sn(HeadOf(list).sdu) = Sn(t.sdu)
    BY <1>7
  <2>. QED BY <2>1, <2>2
<1>. QED BY <1>7, <1>8

(* No SDU of done has the SN n.                                            *)
Free(done, n) == ~\E i \in done : Sn(i) = n

(* FirstUndelivered finds an SN, as there is one that is free.             *)
LEMMA FirstIsFree ==
    ASSUME NEW done, NEW sn \in SN, NEW w \in SN, Free(done, w)
    PROVE  /\ FirstUndelivered(done, sn) \in SN
           /\ Free(done, FirstUndelivered(done, sn))
           /\ \A n \in SN : Free(done, n) =>
                 modulus_rx(sn, FirstUndelivered(done, sn)) <= modulus_rx(sn, n)
<1>. DEFINE free == {n \in 0..(SnModulus - 1) : ~\E i \in done : Sn(i) = n}
            M(n) == modulus_rx(sn, n)
            Least(n) == \A m \in free : M(n) <= M(m)
<1>1. \A n \in SN : M(n) \in Nat
  <2>1. ASSUME NEW n \in SN PROVE M(n) \in Nat
    <3>1. n \in Int /\ sn \in Int
      BY SnsAreNumbers
    <3>2. modulus_rx(sn, n) \in 0..(SnModulus - 1)
      BY <3>1, DistanceType
    <3>. QED BY <3>2, Modulus
  <2>. QED BY <2>1
<1>2. w \in free /\ free \subseteq SN /\ \A n \in SN : n \in free <=> Free(done, n)
    BY DEF Free, SN
<1>. HIDE DEF free
<1>3. PICK k \in {M(n) : n \in free} : \A y \in {M(n) : n \in free} : k <= y
  <2>1. {M(n) : n \in free} \subseteq Nat /\ {M(n) : n \in free} # {}
    BY <1>1, <1>2
  <2>. QED BY <2>1, LeastNatural
<1>4. \E n \in free : Least(n)
  <2>1. PICK n \in free : M(n) = k
    BY <1>3
  <2>2. Least(n)
    BY <1>3, <2>1
  <2>. QED BY <2>1, <2>2
<1>. DEFINE f == FirstUndelivered(done, sn)
<1>5. f \in free /\ Least(f)
  <2>1. f = CHOOSE n \in free : Least(n)
    BY DEF FirstUndelivered, free
  <2>. HIDE DEF Least, f
  <2>. QED BY <1>4, <2>1
<1>. QED BY <1>2, <1>5

(* NextAck is the least of its candidates.                                 *)
LEMMA NextAckIsLeast ==
    ASSUME tx_next_ack \in SN, NEW wait, NEW retx, NEW ack \in SN, tx_next \in SN,
           \A s \in wait \cup retx : Sn(s.sdu) \in SN
    PROVE  /\ \/ NextAck(wait, retx, ack) \in {tx_next, ack}
              \/ \E s \in wait \cup retx : NextAck(wait, retx, ack) = Sn(s.sdu)
           /\ NextAck(wait, retx, ack) \in SN
           /\ \A m \in {tx_next, ack} : modulus_tx(NextAck(wait, retx, ack)) <= modulus_tx(m)
           /\ \A s \in wait \cup retx :
                 modulus_tx(NextAck(wait, retx, ack)) <= modulus_tx(Sn(s.sdu))
<1>. DEFINE heads == {tx_next, ack} \cup {Sn(s.sdu) : s \in wait \cup retx}
            M(n) == modulus_tx(n)
            Least(n) == \A m \in heads : M(n) <= M(m)
<1>1. heads \subseteq SN /\ ack \in heads
    OBVIOUS
<1>2. \A n \in heads : M(n) \in Nat
    BY <1>1, TxDistance
<1>3. PICK k \in {M(n) : n \in heads} : \A y \in {M(n) : n \in heads} : k <= y
  <2>. HIDE DEF heads
  <2>1. {M(n) : n \in heads} \subseteq Nat /\ {M(n) : n \in heads} # {}
    BY <1>1, <1>2
  <2>. QED BY <2>1, LeastNatural
<1>4. \E n \in heads : Least(n)
  <2>. HIDE DEF heads
  <2>1. PICK n \in heads : M(n) = k
    BY <1>3
  <2>2. Least(n)
    BY <1>3, <2>1
  <2>. QED BY <2>1, <2>2
<1>. DEFINE f == NextAck(wait, retx, ack)
<1>5. f \in heads /\ Least(f)
  <2>1. f = CHOOSE n \in heads : Least(n)
    BY DEF NextAck
  <2>. HIDE DEF Least, f, heads
  <2>. QED BY <1>4, <2>1
<1>. HIDE DEF f
<1>6. /\ f \in {tx_next, ack} \/ \E s \in wait \cup retx : f = Sn(s.sdu)
      /\ f \in SN
      /\ \A m \in {tx_next, ack} : M(f) <= M(m)
      /\ \A s \in wait \cup retx : M(f) <= M(Sn(s.sdu))
    BY <1>1, <1>5
<1>. QED BY <1>6 DEF f

-----------------------------------------------------------------------------

(* The segments the sender keeps.                                          *)
Listed == wait_list \cup retransmit_list

(* TypeOK, in three parts: the sender,                                     *)
TxType ==
    /\ sdu_size \in SduSizes
    /\ sent \in 0..MaxSdus /\ queued \in 0..TxMax /\ rest \in Nat
    /\ rest # 0 => rest < sdu_size[sent - 1]
    /\ tx_next_ack \in SN /\ poll_sn \in SN
    /\ force_poll \in BOOLEAN /\ t_poll_retransmit \in BOOLEAN
    /\ wait_list \subseteq Segment /\ retransmit_list \subseteq Segment

(* the receiver,                                                           *)
RxType ==
    /\ passed \in Nat
    /\ rx_next_highest \in SN /\ rx_highest_status \in SN /\ rx_next_status_trigger \in SN
    /\ status_triggered \in BOOLEAN /\ t_reassembly \in BOOLEAN
    /\ t_status_prohibit \in BOOLEAN
    /\ rx_list \subseteq Byte
    /\ processed \subseteq Sdu /\ log \in Seq(SUBSET Sdu)

(* and what is under way, with the history.                                *)
LinkType ==
    /\ data \subseteq [seg : Segment, p : BOOLEAN]
    /\ status \subseteq [ack : Nat, nacks : SUBSET Byte]
    /\ undefined \in BOOLEAN /\ overtaken \in BOOLEAN /\ bypassed \in BOOLEAN

(* The three parts make up TypeOK.                                         *)
LEMMA TypeParts == TypeOK <=> TxType /\ RxType /\ LinkType
BY DEF TypeOK, TxType, RxType, LinkType, SN

(* Nothing that is listed or under way is of an SDU, or of a part of one,  *)
(* that was not sent yet.                                                  *)
SenderParts ==
    /\ sent + queued <= MaxSdus
    /\ rest # 0 => sent > 0
    /\ \A s \in Listed : /\ s.sdu < sent
                         /\ rest # 0 /\ s.sdu = sent - 1 => s.so + s.size <= rest
    /\ \A pdu \in data : pdu.seg.sdu < sent

(* How far an SN is ahead of rx_next.                                      *)
Ahead(n) == modulus_rx(rx_next, n)

(* The SNs the receiver keeps lie in its window, and delivered SDUs        *)
(* strictly between rx_next and rx_next_highest.                           *)
ReceiverWindow ==
    /\ Ahead(rx_next_highest) <= WindowSize
    /\ Ahead(rx_highest_status) <= WindowSize
    /\ t_reassembly => Ahead(rx_next_status_trigger) \in 1..WindowSize
    /\ \A i \in processed : /\ Ahead(Sn(i)) < Ahead(rx_next_highest)
                            /\ Sn(i) # rx_next /\ Sn(i) # rx_highest_status

-----------------------------------------------------------------------------
(* The size of an SDU.                                                     *)
LEMMA Sizes ==
    ASSUME sdu_size \in SduSizes, NEW i \in Sdu
    PROVE  sdu_size[i] \in Nat /\ sdu_size[i] >= 1 /\ i \in Nat /\ i < MaxSdus
<1>1. sdu_size \in [Sdu -> Nat \ {0}] /\ MaxSdus \in Nat
    BY SizeAssumption
<1>. QED BY <1>1 DEF Sdu

(* What a segment consists of,                                             *)
LEMMA SegmentIs ==
    ASSUME sdu_size \in SduSizes, NEW s \in Segment
    PROVE  /\ s.sdu \in Sdu /\ s.sdu \in Nat /\ s.so \in Nat /\ s.size \in Nat /\ s.size >= 1
           /\ s.so + s.size <= sdu_size[s.sdu]
           /\ s = [sdu |-> s.sdu, so |-> s.so, size |-> s.size]
<1>1. PICK i \in Sdu : /\ s \in [sdu : {i}, so : 0..(sdu_size[i] - 1), size : 1..sdu_size[i]]
                       /\ s.so + s.size <= sdu_size[i]
    BY DEF Segment
<1>2. sdu_size[i] \in Nat /\ i \in Nat
    BY Sizes
<1>. QED BY <1>1, <1>2

(* and what is one.                                                        *)
LEMMA SegmentMade ==
    ASSUME sdu_size \in SduSizes, NEW i \in Sdu, NEW o \in Nat, NEW n \in Nat, n >= 1,
           o + n <= sdu_size[i]
    PROVE  [sdu |-> i, so |-> o, size |-> n] \in Segment
<1>1. sdu_size[i] \in Nat
    BY Sizes
<1>2. o \in 0..(sdu_size[i] - 1) /\ n \in 1..sdu_size[i]
    BY <1>1
<1>. QED BY <1>2 DEF Segment

(* What a byte consists of,                                                *)
LEMMA ByteIs ==
    ASSUME sdu_size \in SduSizes, NEW b \in Byte
    PROVE  /\ b.sdu \in Sdu /\ b.sdu \in Nat /\ b.so \in Nat /\ b.so < sdu_size[b.sdu]
           /\ b = [sdu |-> b.sdu, so |-> b.so]
<1>1. PICK i \in Sdu : b \in [sdu : {i}, so : 0..(sdu_size[i] - 1)]
    BY DEF Byte
<1>2. sdu_size[i] \in Nat /\ i \in Nat
    BY Sizes
<1>. QED BY <1>1, <1>2

(* and what is one.                                                        *)
LEMMA ByteMade ==
    ASSUME sdu_size \in SduSizes, NEW i \in Sdu, NEW o \in Nat, o < sdu_size[i]
    PROVE  [sdu |-> i, so |-> o] \in Byte
<1>1. sdu_size[i] \in Nat
    BY Sizes
<1>2. o \in 0..(sdu_size[i] - 1)
    BY <1>1
<1>. QED BY <1>2 DEF Byte

(* The bytes of a segment.                                                 *)
LEMMA BytesOfSegment ==
    ASSUME sdu_size \in SduSizes, NEW s \in Segment
    PROVE  /\ BytesOf(s) \subseteq Byte
           /\ [sdu |-> s.sdu, so |-> s.so] \in BytesOf(s)
           /\ \A b \in BytesOf(s) : /\ b.sdu = s.sdu /\ b.so \in Nat
                                    /\ s.so <= b.so /\ b.so < s.so + s.size
           /\ \A b \in Byte : b.sdu = s.sdu /\ s.so <= b.so /\ b.so < s.so + s.size
                                => b \in BytesOf(s)
<1>1. /\ s.sdu \in Sdu /\ s.so \in Nat /\ s.size \in Nat /\ s.size >= 1
      /\ s.so + s.size <= sdu_size[s.sdu]
    BY SegmentIs
<1>2. sdu_size[s.sdu] \in Nat
    BY <1>1, Sizes
<1>3. ASSUME NEW b \in BytesOf(s)
      PROVE  b \in Byte /\ b.sdu = s.sdu /\ b.so \in Nat /\ s.so <= b.so /\ b.so < s.so + s.size
  <2>1. PICK o \in s.so..(s.so + s.size - 1) : b = [sdu |-> s.sdu, so |-> o]
    BY DEF BytesOf
  <2>2. o \in Nat /\ o < sdu_size[s.sdu]
    BY <1>1, <1>2
  <2>. QED BY <1>1, <2>1, <2>2, ByteMade
<1>4. [sdu |-> s.sdu, so |-> s.so] \in BytesOf(s)
  <2>1. s.so \in s.so..(s.so + s.size - 1)
    BY <1>1
  <2>. QED BY <2>1 DEF BytesOf
<1>5. ASSUME NEW b \in Byte, b.sdu = s.sdu, s.so <= b.so, b.so < s.so + s.size
      PROVE  b \in BytesOf(s)
  <2>1. b.so \in s.so..(s.so + s.size - 1) /\ b = [sdu |-> s.sdu, so |-> b.so]
    BY <1>1, <1>5, ByteIs
  <2>. QED BY <2>1 DEF BytesOf
<1>. QED BY <1>3, <1>4, <1>5

(* resegment yields segments of the same SDU.                              *)
LEMMA SplitSegment ==
    ASSUME sdu_size \in SduSizes, NEW seg \in Segment, NEW n \in 1..seg.size
    PROVE  /\ First(seg, n) \in Segment
           /\ First(seg, n).sdu = seg.sdu /\ First(seg, n).so = seg.so /\ First(seg, n).size = n
           /\ Remainder(seg, n) \subseteq Segment
           /\ \A r \in Remainder(seg, n) : /\ r.sdu = seg.sdu /\ r.so = seg.so + n
                                           /\ r.size = seg.size - n
           /\ n # seg.size => Remainder(seg, n) # {}
<1>1. /\ seg.sdu \in Sdu /\ seg.so \in Nat /\ seg.size \in Nat /\ seg.size >= 1
      /\ seg.so + seg.size <= sdu_size[seg.sdu]
      /\ seg = [sdu |-> seg.sdu, so |-> seg.so, size |-> seg.size]
    BY SegmentIs
<1>2. sdu_size[seg.sdu] \in Nat
    BY <1>1, Sizes
<1>3. First(seg, n) = [sdu |-> seg.sdu, so |-> seg.so, size |-> n]
    BY <1>1 DEF First
<1>4. First(seg, n) \in Segment
    BY <1>1, <1>2, <1>3, SegmentMade
<1>5. ASSUME n # seg.size
      PROVE  Remainder(seg, n) = {[sdu |-> seg.sdu, so |-> seg.so + n, size |-> seg.size - n]}
    BY <1>5 DEF Remainder
<1>6. n # seg.size => [sdu |-> seg.sdu, so |-> seg.so + n, size |-> seg.size - n] \in Segment
  <2>1. ASSUME n # seg.size
        PROVE  [sdu |-> seg.sdu, so |-> seg.so + n, size |-> seg.size - n] \in Segment
    <3>1. PICK o \in Nat, m \in Nat : o = seg.so + n /\ m = seg.size - n
      BY <1>1
    <3>2. m >= 1 /\ o + m <= sdu_size[seg.sdu]
      BY <1>1, <1>2, <2>1, <3>1
    <3>. QED BY <1>1, <3>1, <3>2, SegmentMade
  <2>. QED BY <2>1
<1>7. n = seg.size => Remainder(seg, n) = {}
    BY DEF Remainder
<1>. QED BY <1>3, <1>4, <1>5, <1>6, <1>7

(* ListsDisjoint in the form the proofs use: wait and retx have no segment *)
(* in common, and segments of theirs no byte.                              *)
Apart(wait, retx) ==
    /\ wait \cap retx = {}
    /\ \A s, t \in wait \cup retx : s # t => BytesOf(s) \cap BytesOf(t) = {}

(* ListsDisjoint gives Apart.                                              *)
LEMMA DisjointIsApart ==
    ASSUME sdu_size \in SduSizes, Listed \subseteq Segment
    PROVE  ListsDisjoint <=> Apart(wait_list, retransmit_list)
<1>1. \A s \in Listed : BytesOf(s) \cap BytesOf(s) # {}
    BY BytesOfSegment
<1>2. ASSUME ListsDisjoint PROVE Apart(wait_list, retransmit_list)
  <2>1. ASSUME NEW s \in wait_list, s \in retransmit_list PROVE FALSE
    BY <1>1, <1>2, <2>1 DEF ListsDisjoint, Listed
  <2>2. ASSUME NEW s \in Listed, NEW t \in Listed, s # t
        PROVE  BytesOf(s) \cap BytesOf(t) = {}
    BY <1>2, <2>2 DEF ListsDisjoint, Listed
  <2>. QED BY <2>1, <2>2 DEF Apart, Listed
<1>3. ASSUME Apart(wait_list, retransmit_list) PROVE ListsDisjoint
    BY <1>3 DEF Apart, ListsDisjoint
<1>. QED BY <1>2, <1>3

(* Moving segments from one list to the other keeps them apart.            *)
LEMMA ApartMoved ==
    ASSUME NEW wait, NEW retx, Apart(wait, retx), NEW wait2, NEW retx2,
           wait2 \cup retx2 \subseteq wait \cup retx, wait2 \cap retx2 = {}
    PROVE  Apart(wait2, retx2)
BY DEF Apart

(* So does a new segment that shares no byte with any of them.             *)
LEMMA ApartAdded ==
    ASSUME NEW wait, NEW retx, Apart(wait, retx), NEW seg, BytesOf(seg) # {},
           \A s \in wait \cup retx : BytesOf(s) \cap BytesOf(seg) = {}
    PROVE  Apart(wait \cup {seg}, retx)
<1>1. seg \notin wait \cup retx
    OBVIOUS
<1>2. (wait \cup {seg}) \cap retx = {}
    BY <1>1 DEF Apart
<1>3. ASSUME NEW s \in wait \cup {seg} \cup retx, NEW t \in wait \cup {seg} \cup retx, s # t
      PROVE  BytesOf(s) \cap BytesOf(t) = {}
  <2>1. CASE s = seg
    <3>1. t \in wait \cup retx
      BY <1>3, <2>1
    <3>2. BytesOf(t) \cap BytesOf(seg) = {}
      BY <3>1
    <3>. QED BY <2>1, <3>2
  <2>2. CASE t = seg
    <3>1. s \in wait \cup retx
      BY <1>3, <2>2
    <3>. QED BY <2>2, <3>1
  <2>3. CASE s # seg /\ t # seg
    BY <1>3, <2>3 DEF Apart
  <2>. QED BY <2>1, <2>2, <2>3
<1>. QED BY <1>2, <1>3 DEF Apart

(* The bytes of a segment are those of its first part and of its           *)
(* remainder, each in one of the two.                                      *)
LEMMA SplitBytes ==
    ASSUME sdu_size \in SduSizes, NEW seg \in Segment, NEW n \in 1..seg.size
    PROVE  /\ BytesOf(First(seg, n)) \subseteq BytesOf(seg) /\ BytesOf(First(seg, n)) # {}
           /\ \A r \in Remainder(seg, n) :
                 /\ BytesOf(r) \subseteq BytesOf(seg) /\ BytesOf(r) # {}
                 /\ BytesOf(First(seg, n)) \cap BytesOf(r) = {}
           /\ \A b \in BytesOf(seg) : \/ b \in BytesOf(First(seg, n))
                                      \/ \E r \in Remainder(seg, n) : b \in BytesOf(r)
<1>1. /\ seg.sdu \in Sdu /\ seg.so \in Nat /\ seg.size \in Nat
    BY SegmentIs
<1>. DEFINE f == First(seg, n)
<1>2. f \in Segment /\ f.sdu = seg.sdu /\ f.so = seg.so /\ f.size = n
    BY SplitSegment
<1>3. \A r \in Remainder(seg, n) :
        r \in Segment /\ r.sdu = seg.sdu /\ r.so = seg.so + n /\ r.size = seg.size - n
    BY SplitSegment
<1>4. n # seg.size => Remainder(seg, n) # {}
    BY SplitSegment
<1>. HIDE DEF f
<1>5. BytesOf(f) \subseteq BytesOf(seg) /\ BytesOf(f) # {}
  <2>1. BytesOf(f) # {}
    BY <1>2, BytesOfSegment
  <2>2. ASSUME NEW b \in BytesOf(f) PROVE b \in BytesOf(seg)
    <3>1. b \in Byte /\ b.sdu = f.sdu /\ b.so \in Nat /\ f.so <= b.so /\ b.so < f.so + f.size
      BY <1>2, BytesOfSegment
    <3>2. b.sdu = seg.sdu /\ seg.so <= b.so /\ b.so < seg.so + seg.size
      BY <1>1, <1>2, <3>1
    <3>. QED BY <3>1, <3>2, BytesOfSegment
  <2>. QED BY <2>1, <2>2
<1>6. ASSUME NEW r \in Remainder(seg, n)
      PROVE  /\ BytesOf(r) \subseteq BytesOf(seg) /\ BytesOf(r) # {}
             /\ BytesOf(f) \cap BytesOf(r) = {}
  <2>1. BytesOf(r) # {}
    BY <1>3, BytesOfSegment
  <2>2. ASSUME NEW b \in BytesOf(r) PROVE b \in BytesOf(seg) /\ b \notin BytesOf(f)
    <3>1. b \in Byte /\ b.sdu = r.sdu /\ b.so \in Nat /\ r.so <= b.so /\ b.so < r.so + r.size
      BY <1>3, BytesOfSegment
    <3>2. b.sdu = seg.sdu /\ seg.so <= b.so /\ b.so < seg.so + seg.size /\ ~(b.so < seg.so + n)
      BY <1>1, <1>3, <3>1
    <3>3. b \in BytesOf(f) => b.so < seg.so + n
      BY <1>2, BytesOfSegment
    <3>. QED BY <3>1, <3>2, <3>3, BytesOfSegment
  <2>. QED BY <2>1, <2>2
<1>7. ASSUME NEW b \in BytesOf(seg)
      PROVE  b \in BytesOf(f) \/ \E r \in Remainder(seg, n) : b \in BytesOf(r)
  <2>1. b \in Byte /\ b.sdu = seg.sdu /\ b.so \in Nat /\ seg.so <= b.so /\ b.so < seg.so + seg.size
    BY BytesOfSegment
  <2>2. CASE b.so < seg.so + n
    BY <1>2, <2>1, <2>2, BytesOfSegment
  <2>3. CASE ~(b.so < seg.so + n)
    <3>1. n # seg.size
      BY <2>1, <2>3
    <3>2. PICK r \in Remainder(seg, n) : TRUE
      BY <1>4, <3>1
    <3>3. r \in Segment /\ b.sdu = r.sdu /\ r.so <= b.so /\ b.so < r.so + r.size
      BY <1>1, <1>3, <2>1, <2>3
    <3>4. b \in BytesOf(r)
      BY <2>1, <3>3, BytesOfSegment
    <3>. QED BY <3>4
  <2>. QED BY <2>2, <2>3
<1>. QED BY <1>5, <1>6, <1>7 DEF f

(* Cutting a segment in two keeps the lists apart.                         *)
LEMMA ApartSplit ==
    ASSUME sdu_size \in SduSizes, NEW wait, NEW retx, Apart(wait, retx),
           NEW seg \in retx, seg \in Segment, NEW n \in 1..seg.size
    PROVE  Apart(wait \cup {First(seg, n)}, (retx \ {seg}) \cup Remainder(seg, n))
<1>. DEFINE f == First(seg, n)
            Rem == Remainder(seg, n)
            others == (wait \cup retx) \ {seg}
<1>1. /\ BytesOf(f) \subseteq BytesOf(seg) /\ BytesOf(f) # {}
      /\ \A r \in Rem : /\ BytesOf(r) \subseteq BytesOf(seg) /\ BytesOf(r) # {}
                        /\ BytesOf(f) \cap BytesOf(r) = {}
    BY SplitBytes
<1>2. \A r, q \in Rem : r = q
    BY DEF Remainder
<1>. HIDE DEF f, Rem
<1>3. \A s \in others : BytesOf(s) \cap BytesOf(seg) = {}
    BY DEF Apart
<1>4. seg \notin wait
    BY DEF Apart
<1>5. f \notin others /\ f \notin Rem /\ \A r \in Rem : r \notin others
    BY <1>1, <1>3
<1>6. (wait \cup {f}) \cap ((retx \ {seg}) \cup Rem) = {}
    BY <1>4, <1>5 DEF Apart
<1>7. ASSUME NEW s \in others \cup {f} \cup Rem, NEW t \in others \cup {f} \cup Rem, s # t
      PROVE  BytesOf(s) \cap BytesOf(t) = {}
  <2>1. CASE s \in others /\ t \in others
    BY <1>7, <2>1 DEF Apart
  <2>2. CASE s \in others /\ t \in {f} \cup Rem
    BY <1>1, <1>3, <2>2
  <2>3. CASE t \in others /\ s \in {f} \cup Rem
    BY <1>1, <1>3, <2>3
  <2>4. CASE s \in {f} \cup Rem /\ t \in {f} \cup Rem
    BY <1>1, <1>2, <1>7, <2>4
  <2>. QED BY <2>1, <2>2, <2>3, <2>4
<1>8. wait \cup {f} \cup ((retx \ {seg}) \cup Rem) = others \cup {f} \cup Rem
    BY <1>4
<1>9. Apart(wait \cup {f}, (retx \ {seg}) \cup Rem)
  <2>. HIDE DEF others
  <2>. QED BY <1>6, <1>7, <1>8 DEF Apart
<1>. QED BY <1>9 DEF f, Rem

-----------------------------------------------------------------------------

(* The inductive invariant of the sender.                                  *)
SenderInv == TxType /\ LinkType /\ SenderParts /\ ListsDisjoint

(* Bytes and segments are the same as long as the sizes are.               *)
LEMMA SameSizes ==
    ASSUME sdu_size' = sdu_size
    PROVE  Segment' = Segment /\ Byte' = Byte
BY DEF Segment, Byte

(* What the actions of the sender need of it.                              *)
LEMMA SenderFacts ==
    ASSUME SenderInv
    PROVE  /\ Listed \subseteq Segment /\ Apart(wait_list, retransmit_list)
           /\ \A s \in Listed : s.sdu \in Nat /\ s.so \in Nat
           /\ retransmit_list # {} => HeadOf(retransmit_list) \in retransmit_list
           /\ wait_list # {} => HeadOf(wait_list) \in wait_list
           /\ sent \in Nat /\ queued \in Nat /\ MaxSdus \in Nat /\ TxMax \in Nat
<1>1. Listed \subseteq Segment /\ sdu_size \in SduSizes /\ tx_next_ack \in SN
    BY DEF SenderInv, TxType, Listed
<1>2. Apart(wait_list, retransmit_list)
    BY <1>1, DisjointIsApart DEF SenderInv
<1>3. \A s \in Listed : s.sdu \in Nat /\ s.so \in Nat
    BY <1>1, SegmentIs
<1>4. retransmit_list # {} => HeadOf(retransmit_list) \in retransmit_list
    BY <1>1, <1>3, HeadIsFirst DEF Listed
<1>5. wait_list # {} => HeadOf(wait_list) \in wait_list
    BY <1>1, <1>3, HeadIsFirst DEF Listed
<1>6. sent \in Nat /\ queued \in Nat /\ MaxSdus \in Nat /\ TxMax \in Nat
    BY SizeAssumption DEF SenderInv, TxType
<1>. QED BY <1>1, <1>2, <1>3, <1>4, <1>5, <1>6

(* Apart gives ListsDisjoint, for the next state.                          *)
LEMMA ApartIsDisjoint ==
    ASSUME Apart(wait_list', retransmit_list')
    PROVE  ListsDisjoint'
BY DEF Apart, ListsDisjoint

(* nr_rlc_entity_am_recv_sdu keeps it.                                     *)
LEMMA RecvSduKeepsSender ==
    ASSUME SenderInv, RecvSdu, sdu_size' = sdu_size
    PROVE  SenderInv'
<1>1. sent \in Nat /\ queued \in Nat /\ MaxSdus \in Nat /\ TxMax \in Nat
    BY SenderFacts
<1>2. Cardinality(Confirmed) \in Nat /\ Cardinality(Confirmed) <= sent
  <2>1. IsFiniteSet(0..(sent - 1)) /\ Cardinality(0..(sent - 1)) = sent
    <3>1. IsFiniteSet(0..(sent - 1))
      BY <1>1, FS_Interval
    <3>2. Cardinality(0..(sent - 1)) = IF 0 > sent - 1 THEN 0 ELSE (sent - 1) - 0 + 1
      BY <1>1, FS_Interval
    <3>. QED BY <1>1, <3>1, <3>2
  <2>2. Confirmed \subseteq 0..(sent - 1)
    BY DEF Confirmed
  <2>3. IsFiniteSet(Confirmed) /\ Cardinality(Confirmed) <= Cardinality(0..(sent - 1))
    BY <2>1, <2>2, FS_Subset
  <2>4. Cardinality(Confirmed) \in Nat
    BY <2>3, FS_CardinalityType
  <2>. QED BY <2>1, <2>3, <2>4
<1>3. queued' = queued + 1 /\ queued + sent - Cardinality(Confirmed) < TxMax /\ sent + queued < MaxSdus
    BY DEF RecvSdu
<1>4. queued' \in 0..TxMax /\ sent + queued' <= MaxSdus
    BY <1>1, <1>2, <1>3
<1>5. /\ UNCHANGED <<data, status, undefined, history, sent, tx_next_ack, poll_sn, force_poll>>
      /\ UNCHANGED <<t_poll_retransmit, rest, wait_list, retransmit_list>>
    BY DEF RecvSdu
<1>6. Segment' = Segment /\ Byte' = Byte
    BY SameSizes
<1>7. TxType'
    BY <1>4, <1>5, <1>6 DEF SenderInv, TxType
<1>8. LinkType'
    BY <1>5, <1>6 DEF SenderInv, LinkType, history
<1>9. SenderParts'
    BY <1>4, <1>5 DEF SenderInv, SenderParts, Listed
<1>10. ListsDisjoint'
    BY <1>5 DEF SenderInv, ListsDisjoint
<1>. QED BY <1>7, <1>8, <1>9, <1>10 DEF SenderInv

(* MIN of two numbers that are not 0.                                      *)
LEMMA SmallerIs ==
    ASSUME NEW m \in Nat, NEW n \in Nat, m >= 1, n >= 1
    PROVE  Smaller(m, n) \in 1..n /\ Smaller(m, n) <= m
BY DEF Smaller

(* What Send leaves well-typed.                                            *)
LEMMA SendKeepsTypes ==
    ASSUME SenderInv, NEW seg \in Segment, NEW p \in BOOLEAN, NEW next \in Nat,
           seg.sdu < next, sent <= next, Send(seg, p, next), sdu_size' = sdu_size
    PROVE  /\ data' \subseteq [seg : Segment, p : BOOLEAN]
           /\ \A pdu \in data' : pdu.seg.sdu < next
           /\ force_poll' \in BOOLEAN /\ t_poll_retransmit' \in BOOLEAN /\ poll_sn' \in SN
<1>1. /\ data' = data \cup {[seg |-> seg, p |-> p]} /\ force_poll' = FALSE
      /\ poll_sn' = IF p THEN Sn(next - 1) ELSE poll_sn
      /\ t_poll_retransmit' = (p \/ t_poll_retransmit)
    BY DEF Send
<1>2. data \subseteq [seg : Segment, p : BOOLEAN] /\ poll_sn \in SN
    BY DEF SenderInv, LinkType, TxType
<1>3. data' \subseteq [seg : Segment, p : BOOLEAN]
    BY <1>1, <1>2
<1>4. ASSUME NEW pdu \in data' PROVE pdu.seg.sdu < next
  <2>1. CASE pdu \in data
    <3>1. pdu.seg.sdu < sent /\ pdu.seg \in Segment
      BY <1>2, <2>1 DEF SenderInv, SenderParts
    <3>2. pdu.seg.sdu \in Nat /\ sent \in Nat
      BY <3>1, SegmentIs, SenderFacts DEF SenderInv, TxType
    <3>. QED BY <3>1, <3>2
  <2>2. CASE pdu = [seg |-> seg, p |-> p]
    BY <2>2
  <2>. QED BY <1>1, <2>1, <2>2
<1>5. Sn(next - 1) \in SN
    BY SnType
<1>. QED BY <1>1, <1>2, <1>3, <1>4, <1>5 DEF SenderInv, TxType

(* generate_retx_pdu cuts the head of retransmit_list and keeps the rest.  *)
LEMMA GenerateRetxPduKeepsSender ==
    ASSUME SenderInv, NEW room \in Grants, GenerateRetxPdu(room), sdu_size' = sdu_size
    PROVE  SenderInv'
<1>. DEFINE seg == HeadOf(retransmit_list)
            n == Smaller(room, seg.size)
            retx == (retransmit_list \ {seg}) \cup Remainder(seg, n)
            p == force_poll \/ PollIsDue(sent, queued > 0 \/ rest # 0, retx)
<1>0. sdu_size \in SduSizes /\ sent \in Nat /\ Listed \subseteq Segment
    BY SenderFacts DEF SenderInv, TxType
<1>1. /\ retransmit_list # {} /\ retransmit_list' = retx
      /\ wait_list' = wait_list \cup {First(seg, n)}
      /\ Send(First(seg, n), p, sent)
      /\ bypassed' = (bypassed /\ ~p)
      /\ UNCHANGED <<rx, status, undefined, overtaken, sent, tx_next_ack, queued, rest>>
    BY DEF GenerateRetxPdu
<1>2. seg \in retransmit_list /\ seg \in Listed /\ seg \in Segment
    BY <1>1, SenderFacts DEF Listed
<1>3. n \in 1..seg.size
  <2>1. seg.size \in Nat /\ seg.size >= 1
    BY <1>0, <1>2, SegmentIs
  <2>2. room \in Nat /\ room >= 1
    BY ChoiceAssumption
  <2>. QED BY <2>1, <2>2, SmallerIs
<1>4. p \in BOOLEAN /\ bypassed' \in BOOLEAN
    BY <1>1 DEF SenderInv, TxType, LinkType, PollIsDue, Stalling
<1>. HIDE DEF n, p, seg
<1>5. /\ First(seg, n) \in Segment
      /\ First(seg, n).sdu = seg.sdu /\ First(seg, n).so = seg.so /\ First(seg, n).size = n
      /\ Remainder(seg, n) \subseteq Segment
      /\ \A r \in Remainder(seg, n) : /\ r.sdu = seg.sdu /\ r.so = seg.so + n
                                      /\ r.size = seg.size - n
    BY <1>0, <1>2, <1>3, SplitSegment
<1>6. seg.sdu < sent /\ (rest # 0 /\ seg.sdu = sent - 1 => seg.so + seg.size <= rest)
    BY <1>2 DEF SenderInv, SenderParts
<1>7. /\ data' \subseteq [seg : Segment, p : BOOLEAN]
      /\ \A pdu \in data' : pdu.seg.sdu < sent
      /\ force_poll' \in BOOLEAN /\ t_poll_retransmit' \in BOOLEAN /\ poll_sn' \in SN
    BY <1>0, <1>1, <1>4, <1>5, <1>6, SendKeepsTypes
<1>8. Apart(wait_list', retransmit_list')
  <2>1. Apart(wait_list, retransmit_list)
    BY SenderFacts
  <2>2. Apart(wait_list \cup {First(seg, n)}, (retransmit_list \ {seg}) \cup Remainder(seg, n))
    BY <1>0, <1>2, <1>3, <2>1, ApartSplit
  <2>. QED BY <1>1, <2>2
<1>9. Segment' = Segment /\ Byte' = Byte
    BY SameSizes
<1>10. TxType'
    BY <1>1, <1>5, <1>7, <1>9 DEF SenderInv, TxType
<1>11. LinkType'
    BY <1>1, <1>4, <1>7, <1>9 DEF SenderInv, LinkType
<1>12. ASSUME NEW s \in Listed'
       PROVE  s.sdu < sent' /\ (rest' # 0 /\ s.sdu = sent' - 1 => s.so + s.size <= rest')
  <2>1. CASE s \in Listed
    BY <1>1, <2>1 DEF SenderInv, SenderParts
  <2>2. CASE s = First(seg, n)
    <3>1. seg.so \in Nat /\ seg.size \in Nat /\ rest \in Nat
      BY <1>0, <1>2, SegmentIs DEF SenderInv, TxType
    <3>. QED BY <1>1, <1>3, <1>5, <1>6, <2>2, <3>1
  <2>3. CASE s \in Remainder(seg, n)
    <3>1. seg.so \in Nat /\ seg.size \in Nat /\ rest \in Nat
      BY <1>0, <1>2, SegmentIs DEF SenderInv, TxType
    <3>. QED BY <1>1, <1>3, <1>5, <1>6, <2>3, <3>1
  <2>. QED BY <1>1, <2>1, <2>2, <2>3 DEF Listed
<1>13. SenderParts'
    BY <1>1, <1>7, <1>12 DEF SenderInv, SenderParts
<1>. QED BY <1>8, <1>10, <1>11, <1>13, ApartIsDisjoint DEF SenderInv

(* The operators that generate_tx_pdu is made of.                          *)
TxSdu == IF rest = 0 THEN sent + 1 ELSE sent
TxBytes(room) == Smaller(room, sdu_size[TxSdu - 1] - rest)
TxSegment(room) == [sdu |-> TxSdu - 1, so |-> rest, size |-> TxBytes(room)]
TxLeft(room) == RestAfter(TxSdu - 1, rest + TxBytes(room))
TxQueued == IF rest = 0 THEN queued - 1 ELSE queued
TxPoll(room, early) ==
    early \/ force_poll \/ PollIsDue(TxSdu, TxQueued > 0 \/ TxLeft(room) # 0, retransmit_list)

(* generate_tx_pdu in terms of them.                                       *)
LEMMA GenerateTxPduIs ==
    ASSUME NEW room, NEW early, GenerateTxPdu(room, early)
    PROVE  /\ ~Stalling(sent) /\ (queued > 0 \/ rest # 0)
           /\ retransmit_list # {} => rest = 0 /\ HeadOf(retransmit_list).so # 0
           /\ sent' = TxSdu /\ queued' = TxQueued /\ rest' = TxLeft(room)
           /\ wait_list' = wait_list \cup {TxSegment(room)}
           /\ Send(TxSegment(room), TxPoll(room, early), TxSdu)
           /\ bypassed' = ((bypassed \/ retransmit_list # {}) /\ ~TxPoll(room, early))
           /\ UNCHANGED <<rx, status, undefined, overtaken, tx_next_ack, retransmit_list>>
BY DEF GenerateTxPdu, TxSdu, TxBytes, TxSegment, TxLeft, TxQueued, TxPoll

(* The segment that generate_tx_pdu cuts off.                              *)
LEMMA TxSegmentFacts ==
    ASSUME SenderInv, NEW room \in Grants, queued > 0 \/ rest # 0
    PROVE  /\ TxSdu \in Nat /\ TxSdu >= 1 /\ TxSdu - 1 \in Sdu /\ TxSdu <= MaxSdus /\ sent <= TxSdu
           /\ TxBytes(room) \in Nat /\ TxBytes(room) >= 1
           /\ rest \in Nat /\ rest + TxBytes(room) <= sdu_size[TxSdu - 1]
           /\ TxSegment(room) \in Segment
           /\ TxSegment(room).sdu = TxSdu - 1 /\ TxSegment(room).so = rest
           /\ TxSegment(room).size = TxBytes(room)
           /\ TxLeft(room) \in Nat /\ (TxLeft(room) # 0 => TxLeft(room) < sdu_size[TxSdu - 1])
           /\ TxLeft(room) # 0 => TxLeft(room) = rest + TxBytes(room)
           /\ TxLeft(room) = 0 => rest + TxBytes(room) = sdu_size[TxSdu - 1]
           /\ TxQueued \in 0..TxMax /\ TxSdu + TxQueued <= MaxSdus
<1>1. sdu_size \in SduSizes /\ rest \in Nat /\ sent \in Nat /\ queued \in 0..TxMax
      /\ MaxSdus \in Nat /\ TxMax \in Nat
    BY SenderFacts DEF SenderInv, TxType
<1>2. /\ sent + queued <= MaxSdus /\ (rest # 0 => sent > 0)
      /\ rest # 0 => rest < sdu_size[sent - 1]
    BY DEF SenderInv, SenderParts, TxType
<1>3. /\ TxSdu \in Nat /\ TxSdu >= 1 /\ TxSdu <= MaxSdus /\ sent <= TxSdu
      /\ TxQueued \in 0..TxMax /\ TxSdu + TxQueued <= MaxSdus
      /\ rest # 0 => TxSdu = sent
    BY <1>1, <1>2 DEF TxSdu, TxQueued
<1>4. PICK i \in Sdu : i = TxSdu - 1
    BY <1>1, <1>3 DEF Sdu
<1>5. PICK size \in Nat : size = sdu_size[i] /\ size >= 1
    BY <1>1, Sizes
<1>6. rest < size
    BY <1>1, <1>2, <1>3, <1>4, <1>5
<1>7. PICK left \in Nat : left = size - rest /\ left >= 1
    BY <1>1, <1>6
<1>8. TxBytes(room) \in 1..left
  <2>1. room \in Nat /\ room >= 1
    BY ChoiceAssumption
  <2>2. TxBytes(room) = Smaller(room, left)
    BY <1>4, <1>5, <1>7 DEF TxBytes
  <2>. QED BY <1>7, <2>1, <2>2, SmallerIs
<1>9. PICK n \in Nat : n = TxBytes(room) /\ n >= 1 /\ rest + n <= size
    BY <1>1, <1>7, <1>8
<1>10. TxSegment(room) = [sdu |-> i, so |-> rest, size |-> n]
    BY <1>4, <1>9 DEF TxSegment
<1>11. TxSegment(room) \in Segment
    BY <1>1, <1>5, <1>9, <1>10, SegmentMade
<1>12. TxLeft(room) = IF rest + n = size THEN 0 ELSE rest + n
    BY <1>4, <1>5, <1>9 DEF TxLeft, RestAfter
<1>. QED BY <1>1, <1>3, <1>4, <1>5, <1>9, <1>10, <1>11, <1>12

(* generate_tx_pdu sends bytes that were not sent before.                  *)
LEMMA GenerateTxPduKeepsSender ==
    ASSUME SenderInv, NEW room \in Grants, NEW early \in PollEarly,
           GenerateTxPdu(room, early), sdu_size' = sdu_size
    PROVE  SenderInv'
<1>. DEFINE seg == TxSegment(room)
            p == TxPoll(room, early)
<1>1. /\ queued > 0 \/ rest # 0
      /\ sent' = TxSdu /\ queued' = TxQueued /\ rest' = TxLeft(room)
      /\ wait_list' = wait_list \cup {seg}
      /\ Send(seg, p, TxSdu)
      /\ bypassed' = ((bypassed \/ retransmit_list # {}) /\ ~p)
      /\ UNCHANGED <<rx, status, undefined, overtaken, tx_next_ack, retransmit_list>>
    BY GenerateTxPduIs
<1>2. /\ TxSdu \in Nat /\ TxSdu >= 1 /\ TxSdu - 1 \in Sdu /\ TxSdu <= MaxSdus /\ sent <= TxSdu
      /\ TxBytes(room) \in Nat /\ TxBytes(room) >= 1
      /\ rest \in Nat /\ rest + TxBytes(room) <= sdu_size[TxSdu - 1]
      /\ seg \in Segment
      /\ seg.sdu = TxSdu - 1 /\ seg.so = rest /\ seg.size = TxBytes(room)
      /\ TxLeft(room) \in Nat /\ (TxLeft(room) # 0 => TxLeft(room) < sdu_size[TxSdu - 1])
      /\ TxLeft(room) # 0 => TxLeft(room) = rest + TxBytes(room)
      /\ TxQueued \in 0..TxMax /\ TxSdu + TxQueued <= MaxSdus
    BY <1>1, TxSegmentFacts
<1>3. p \in BOOLEAN /\ bypassed' \in BOOLEAN
    BY <1>1, ChoiceAssumption DEF SenderInv, TxType, LinkType, PollIsDue, Stalling, TxPoll
<1>4. sdu_size \in SduSizes /\ sent \in Nat /\ Listed \subseteq Segment
    BY SenderFacts DEF SenderInv, TxType
<1>. HIDE DEF seg, p
<1>5. seg.sdu < TxSdu
    BY <1>2
<1>6. /\ data' \subseteq [seg : Segment, p : BOOLEAN]
      /\ \A pdu \in data' : pdu.seg.sdu < TxSdu
      /\ force_poll' \in BOOLEAN /\ t_poll_retransmit' \in BOOLEAN /\ poll_sn' \in SN
    BY <1>1, <1>2, <1>3, <1>5, SendKeepsTypes
<1>7. ASSUME NEW s \in Listed
      PROVE  /\ s.sdu \in Nat /\ s.so \in Nat /\ s.size \in Nat /\ s.sdu < sent
             /\ s.sdu = TxSdu - 1 => rest # 0 /\ s.so + s.size <= rest
  <2>1. s.sdu \in Nat /\ s.so \in Nat /\ s.size \in Nat /\ s.sdu < sent
    BY <1>4, SegmentIs DEF SenderInv, SenderParts
  <2>2. s.sdu = TxSdu - 1 => rest # 0 /\ TxSdu = sent
    BY <1>4, <2>1 DEF TxSdu
  <2>. QED BY <2>1, <2>2 DEF SenderInv, SenderParts
<1>8. Apart(wait_list', retransmit_list')
  <2>1. Apart(wait_list, retransmit_list)
    BY SenderFacts
  <2>2. BytesOf(seg) # {}
    BY <1>2, <1>4, BytesOfSegment
  <2>3. ASSUME NEW s \in Listed PROVE BytesOf(s) \cap BytesOf(seg) = {}
    <3>1. SUFFICES ASSUME NEW b \in BytesOf(s), b \in BytesOf(seg) PROVE FALSE
      OBVIOUS
    <3>2. b.sdu = s.sdu /\ b.so \in Nat /\ b.so < s.so + s.size
      BY <1>4, BytesOfSegment
    <3>3. b.sdu = seg.sdu /\ seg.so <= b.so
      BY <1>2, <1>4, <3>1, BytesOfSegment
    <3>4. s.sdu = TxSdu - 1 /\ rest <= b.so
      BY <1>2, <3>2, <3>3
    <3>5. s.so + s.size <= rest /\ s.so \in Nat /\ s.size \in Nat /\ rest \in Nat
      BY <1>2, <1>7, <3>4
    <3>. QED BY <3>2, <3>4, <3>5
  <2>4. Apart(wait_list \cup {seg}, retransmit_list)
    BY <2>1, <2>2, <2>3, ApartAdded DEF Listed
  <2>. QED BY <1>1, <2>4
<1>9. Segment' = Segment /\ Byte' = Byte
    BY SameSizes
<1>10. TxType'
  <2>1. rest' # 0 => rest' < sdu_size'[sent' - 1]
    BY <1>1, <1>2
  <2>2. wait_list' \subseteq Segment'
    BY <1>1, <1>2, <1>9 DEF SenderInv, TxType
  <2>3. sent' \in 0..MaxSdus
    BY <1>1, <1>2, SizeAssumption
  <2>4. queued' \in 0..TxMax /\ rest' \in Nat
    BY <1>1, <1>2
  <2>5. tx_next_ack' \in SN /\ retransmit_list' \subseteq Segment' /\ sdu_size' \in SduSizes
    BY <1>1, <1>9 DEF SenderInv, TxType
  <2>. QED BY <1>6, <2>1, <2>2, <2>3, <2>4, <2>5 DEF TxType
<1>11. LinkType'
    BY <1>1, <1>3, <1>6, <1>9 DEF SenderInv, LinkType
<1>12. ASSUME NEW s \in Listed'
       PROVE  s.sdu < sent' /\ (rest' # 0 /\ s.sdu = sent' - 1 => s.so + s.size <= rest')
  <2>1. CASE s \in Listed
    BY <1>1, <1>2, <1>4, <1>7, <2>1
  <2>2. CASE s = seg
    BY <1>1, <1>2, <1>5, <2>2
  <2>. QED BY <1>1, <2>1, <2>2 DEF Listed
<1>13. SenderParts'
  <2>1. sent' + queued' <= MaxSdus /\ (rest' # 0 => sent' > 0)
    BY <1>1, <1>2
  <2>. QED BY <1>1, <1>6, <1>12, <2>1 DEF SenderParts
<1>. QED BY <1>8, <1>10, <1>11, <1>13, ApartIsDisjoint DEF SenderInv

(* check_t_poll_retransmit moves segments from wait_list to                *)
(* retransmit_list.                                                        *)
LEMMA TPollRetransmitExpiresKeepsSender ==
    ASSUME SenderInv, TPollRetransmitExpires, sdu_size' = sdu_size
    PROVE  SenderInv'
<1>. DEFINE due == PollIsDue(sent, queued > 0 \/ rest # 0, retransmit_list)
            again == IF due /\ wait_list # {}
                     THEN {s \in wait_list : Sn(s.sdu) = Sn(HeadOf(wait_list).sdu)} ELSE {}
<1>1. /\ t_poll_retransmit' = FALSE /\ force_poll' = TRUE
      /\ wait_list' = wait_list \ again /\ retransmit_list' = retransmit_list \cup again
      /\ undefined' = (due /\ wait_list = {})
      /\ UNCHANGED <<data, status, history, sent, tx_next_ack, poll_sn, queued, rest>>
    BY DEF TPollRetransmitExpires
<1>2. again \subseteq wait_list
    OBVIOUS
<1>3. undefined' \in BOOLEAN
    BY <1>1
<1>. HIDE DEF again, due
<1>4. wait_list' \cup retransmit_list' = wait_list \cup retransmit_list
    BY <1>1, <1>2
<1>5. Apart(wait_list', retransmit_list')
  <2>1. Apart(wait_list, retransmit_list)
    BY SenderFacts
  <2>2. wait_list' \cap retransmit_list' = {}
    BY <1>1, <2>1 DEF Apart
  <2>. QED BY <1>4, <2>1, <2>2, ApartMoved
<1>6. Segment' = Segment /\ Byte' = Byte
    BY SameSizes
<1>7. TxType'
    BY <1>1, <1>2, <1>6 DEF SenderInv, TxType
<1>8. LinkType'
    BY <1>1, <1>3, <1>6 DEF SenderInv, LinkType, history
<1>9. SenderParts'
    BY <1>1, <1>4 DEF SenderInv, SenderParts, Listed
<1>. QED BY <1>5, <1>7, <1>8, <1>9, ApartIsDisjoint DEF SenderInv

(* wait_list and retransmit_list after a STATUS PDU.                       *)
StatusWait(st) == {s \in wait_list : StaysInWaitList(s, st)}
StatusRetx(st) == {s \in retransmit_list : ~Acked(s, st)} \cup {s \in wait_list : Nacked(s, st)}

(* process_control_pdu, for a STATUS PDU that is valid,                    *)
LEMMA RecvStatusIs ==
    ASSUME NEW st, RecvStatus(st), Valid(st)
    PROVE  /\ st \in status /\ status' = status \ {st}
           /\ InTime(st.ack) /\ \A b \in st.nacks : InTime(b.sdu)
           /\ wait_list' = StatusWait(st) /\ retransmit_list' = StatusRetx(st)
           /\ tx_next_ack' = NextAck(StatusWait(st), StatusRetx(st), Sn(st.ack))
           /\ t_poll_retransmit' = (t_poll_retransmit /\ ~Answers(st))
           /\ overtaken' = (overtaken \/ (rest # 0 /\ tx_next_ack' = tx_next))
           /\ UNCHANGED <<sent, poll_sn, force_poll, queued, rest>>
           /\ UNCHANGED <<rx, data, undefined, bypassed>>
BY DEF RecvStatus, StatusWait, StatusRetx

(* and for one that is not.                                                *)
LEMMA RecvStatusInvalidIs ==
    ASSUME NEW st, RecvStatus(st), ~Valid(st)
    PROVE  /\ st \in status /\ status' = status \ {st}
           /\ UNCHANGED <<tx, overtaken, rx, data, undefined, bypassed>>
BY DEF RecvStatus

(* It frees and moves segments and makes no new one.                       *)
LEMMA StatusLists ==
    ASSUME NEW st, Apart(wait_list, retransmit_list)
    PROVE  /\ StatusWait(st) \cup StatusRetx(st) \subseteq Listed
           /\ StatusWait(st) \subseteq wait_list
           /\ StatusWait(st) \cap StatusRetx(st) = {}
BY DEF StatusWait, StatusRetx, StaysInWaitList, Apart, Listed

(* process_control_pdu keeps the invariant of the sender.                  *)
LEMMA RecvStatusKeepsSender ==
    ASSUME SenderInv, NEW st \in status, RecvStatus(st), sdu_size' = sdu_size
    PROVE  SenderInv'
<1>1. Segment' = Segment /\ Byte' = Byte
    BY SameSizes
<1>2. CASE ~Valid(st)
  <2>1. status' \subseteq status /\ UNCHANGED <<tx, overtaken, rx, data, undefined, bypassed>>
    BY <1>2, RecvStatusInvalidIs
  <2>2. TxType'
    BY <1>1, <2>1 DEF SenderInv, TxType, tx
  <2>3. LinkType'
    BY <1>1, <2>1 DEF SenderInv, LinkType
  <2>4. SenderParts' /\ ListsDisjoint'
    BY <2>1 DEF SenderInv, SenderParts, ListsDisjoint, Listed, tx
  <2>. QED BY <2>2, <2>3, <2>4 DEF SenderInv
<1>3. CASE Valid(st)
  <2>. DEFINE wait == StatusWait(st)
              retx == StatusRetx(st)
  <2>1. /\ status' \subseteq status
        /\ wait_list' = wait /\ retransmit_list' = retx
        /\ tx_next_ack' = NextAck(wait, retx, Sn(st.ack))
        /\ t_poll_retransmit' = (t_poll_retransmit /\ ~Answers(st))
        /\ overtaken' = (overtaken \/ (rest # 0 /\ tx_next_ack' = tx_next))
        /\ UNCHANGED <<sent, poll_sn, force_poll, queued, rest>>
        /\ UNCHANGED <<rx, data, undefined, bypassed>>
    BY <1>3, RecvStatusIs
  <2>2. Apart(wait_list, retransmit_list) /\ sent \in Nat /\ Listed \subseteq Segment
    BY SenderFacts
  <2>3. wait \cup retx \subseteq Listed /\ wait \cap retx = {} /\ wait \subseteq wait_list
    BY <2>2, StatusLists
  <2>. HIDE DEF wait, retx
  <2>4. Apart(wait, retx)
    BY <2>2, <2>3, ApartMoved DEF Listed
  <2>5. tx_next_ack' \in SN
    <3>1. tx_next \in SN
      BY <2>2, SnType DEF tx_next
    <3>2. Sn(st.ack) \in SN
      <4>1. st.ack \in Nat
        BY DEF SenderInv, LinkType
      <4>. QED BY <4>1, SnType
    <3>3. \A s \in wait \cup retx : Sn(s.sdu) \in SN
      BY <2>3, SnType, SenderFacts
    <3>. QED BY <2>1, <3>1, <3>2, <3>3, NextAckIsLeast DEF SenderInv, TxType
  <2>6. t_poll_retransmit' \in BOOLEAN
    BY <2>1 DEF SenderInv, TxType
  <2>7. overtaken' \in BOOLEAN
    BY <2>1 DEF SenderInv, LinkType
  <2>8. TxType'
    BY <1>1, <2>1, <2>2, <2>3, <2>5, <2>6 DEF SenderInv, TxType
  <2>9. LinkType'
    BY <1>1, <2>1, <2>7 DEF SenderInv, LinkType
  <2>10. SenderParts'
    BY <2>1, <2>3 DEF SenderInv, SenderParts, Listed
  <2>. QED BY <2>1, <2>4, <2>8, <2>9, <2>10, ApartIsDisjoint DEF SenderInv
<1>. QED BY <1>2, <1>3

-----------------------------------------------------------------------------

(* The inductive invariant of the receiver.                                *)
RxInv == sdu_size \in SduSizes /\ RxType /\ ReceiverWindow /\ GapIsTimed

(* The operators that reception_actions is made of.                        *)
RxBytes(seg) == rx_list \cup BytesOf(seg)
RxHighest(seg) ==
    IF Ahead(Sn(seg.sdu)) >= Ahead(rx_next_highest) THEN Sn(Sn(seg.sdu) + 1) ELSE rx_next_highest
RxFull(seg) == Full(RxBytes(seg), Sn(seg.sdu)) /\ \A i \in processed : Sn(i) # Sn(seg.sdu)
RxDone(seg) == IF RxFull(seg) THEN processed \cup {seg.sdu} ELSE processed
RxNext(seg) ==
    IF RxFull(seg) /\ Sn(seg.sdu) = rx_next THEN FirstUndelivered(RxDone(seg), Sn(seg.sdu))
    ELSE rx_next
RxFreed(seg, i) == Ahead(Sn(i)) < Ahead(RxNext(seg))
RxLeft(seg) == {b \in RxBytes(seg) : ~RxFreed(seg, b.sdu)}
RxStatus(seg) == HighestStatus(RxFull(seg), Sn(seg.sdu), RxDone(seg))
RxStop(seg) ==
    \/ rx_next_status_trigger = RxNext(seg)
    \/ /\ rx_next_status_trigger = Sn(RxNext(seg) + 1)
       /\ ~HasMissingBytes(RxLeft(seg), RxNext(seg))
    \/ /\ modulus_rx(RxNext(seg), rx_next_status_trigger) >= WindowSize
       /\ rx_next_status_trigger # Sn(RxNext(seg) + WindowSize)
RxRunning(seg) == t_reassembly /\ ~RxStop(seg)
RxStart(seg) == ~RxRunning(seg) /\ Starts(RxLeft(seg), RxNext(seg), RxHighest(seg))

(* reception_actions in terms of them.                                     *)
LEMMA ReceiveIs ==
    ASSUME NEW seg, Receive(seg)
    PROVE  /\ rx_list' = RxLeft(seg)
           /\ processed' = {i \in RxDone(seg) : ~RxFreed(seg, i)}
           /\ log' = IF RxFull(seg)
                     THEN Append(log, {b.sdu : b \in {c \in RxBytes(seg) : Sn(c.sdu) = Sn(seg.sdu)}})
                     ELSE log
           /\ passed' = passed + Ahead(RxNext(seg)) /\ rx_next_highest' = RxHighest(seg)
           /\ rx_highest_status' = RxStatus(seg)
           /\ t_reassembly' = (RxRunning(seg) \/ RxStart(seg))
           /\ rx_next_status_trigger' =
                 IF RxStart(seg) THEN RxHighest(seg) ELSE rx_next_status_trigger
BY DEF Receive, RxBytes, RxHighest, RxFull, RxDone, RxNext, RxFreed, RxLeft, RxStatus, RxStop,
       RxRunning, RxStart, Ahead

(* The type of a distance from rx_next.                                    *)
LEMMA AheadType ==
    ASSUME passed \in Nat, NEW n \in SN
    PROVE  Ahead(n) \in 0..(SnModulus - 1) /\ Ahead(n) \in Nat /\ rx_next \in SN
<1>1. Sn(passed) \in Int /\ Sn(passed) \in SN /\ n \in Int
    BY SnType, SnsAreNumbers
<1>2. modulus_rx(rx_next, n) \in 0..(SnModulus - 1)
    BY <1>1, DistanceType DEF rx_next
<1>. QED BY <1>1, <1>2, Modulus DEF Ahead, rx_next

(* An SN some way after another.                                           *)
LEMMA FurtherAhead ==
    ASSUME NEW p \in Int, NEW n \in SN, NEW k \in Nat, modulus_rx(Sn(p), n) + k < SnModulus
    PROVE  Sn(n + k) \in SN /\ modulus_rx(Sn(p), Sn(n + k)) = modulus_rx(Sn(p), n) + k
<1>1. PICK d \in Int : d = modulus_rx(Sn(p), n) /\ 0 <= d
  <2>1. Sn(p) \in Int /\ n \in Int
    BY SnType, SnsAreNumbers
  <2>2. modulus_rx(Sn(p), n) \in 0..(SnModulus - 1)
    BY <2>1, DistanceType
  <2>. QED BY <2>2, Modulus
<1>2. PICK i \in Int, j \in Int : i = p + d /\ j = i + k
    OBVIOUS
<1>3. n = Sn(i)
    BY <1>1, <1>2, SnAt
<1>4. Sn(n + k) = Sn(j)
    BY <1>2, <1>3, SnSucc
<1>5. modulus_rx(Sn(p), Sn(j)) = j - p
    BY <1>1, <1>2, SnDistance, Modulus
<1>6. Sn(j) \in SN
    BY SnType
<1>. QED BY <1>1, <1>2, <1>4, <1>5, <1>6

(* From an SN of the window on, the first that is free.                    *)
LEMMA FirstFrom ==
    ASSUME passed \in Nat, NEW done, NEW from \in SN, NEW w \in SN, Free(done, w)
    PROVE  /\ FirstUndelivered(done, from) \in SN
           /\ Free(done, FirstUndelivered(done, from))
           /\ \A n \in SN : Free(done, n) /\ Ahead(from) <= Ahead(n)
                              => Ahead(FirstUndelivered(done, from)) <= Ahead(n)
<1>. DEFINE d == Ahead(from)
            s == FirstUndelivered(done, from)
<1>1. /\ s \in SN /\ Free(done, s)
      /\ \A n \in SN : Free(done, n) => modulus_rx(from, s) <= modulus_rx(from, n)
    BY FirstIsFree
<1>2. d \in 0..(SnModulus - 1)
    BY AheadType
<1>3. from = Sn(passed + d)
    BY SnAt DEF Ahead, rx_next
<1>4. passed \in Int /\ SnModulus \in Nat
    BY Modulus
<1>. HIDE DEF s, d
<1>5. \A n \in SN : modulus_rx(from, n) =
                      IF Ahead(n) >= d THEN Ahead(n) - d ELSE Ahead(n) - d + SnModulus
    BY <1>2, <1>3, <1>4, Shift DEF Ahead, rx_next
<1>6. ASSUME NEW n \in SN, Free(done, n), d <= Ahead(n)
      PROVE  Ahead(s) <= Ahead(n)
  <2>1. Ahead(s) \in 0..(SnModulus - 1) /\ Ahead(n) \in 0..(SnModulus - 1)
    BY <1>1, AheadType
  <2>2. modulus_rx(from, s) <= Ahead(n) - d
    BY <1>1, <1>2, <1>5, <1>6, <2>1
  <2>3. \/ modulus_rx(from, s) = Ahead(s) - d
        \/ modulus_rx(from, s) = Ahead(s) - d + SnModulus /\ Ahead(s) < d
    BY <1>1, <1>2, <1>5, <2>1
  <2>. QED BY <1>2, <1>4, <1>6, <2>1, <2>2, <2>3
<1>7. /\ s \in SN /\ Free(done, s)
      /\ \A n \in SN : Free(done, n) /\ d <= Ahead(n) => Ahead(s) <= Ahead(n)
    BY <1>1, <1>6
<1>. QED BY <1>7 DEF s, d

(* What reception_actions computes: all of it lies between rx_next and the *)
(* end of the window, rx_next moves on over delivered SDUs only, and       *)
(* neither rx_next_highest nor rx_highest_status is left behind.           *)
LEMMA ReceiveFacts ==
    ASSUME RxInv, NEW seg \in Segment, InRecvWindow(Sn(seg.sdu))
    PROVE  /\ Sn(seg.sdu) \in SN
           /\ RxHighest(seg) \in SN /\ RxNext(seg) \in SN /\ RxStatus(seg) \in SN
           /\ Ahead(RxHighest(seg)) <= WindowSize
           /\ \/ Ahead(RxHighest(seg)) = Ahead(rx_next_highest)
              \/ Ahead(RxHighest(seg)) = Ahead(Sn(seg.sdu)) + 1
           /\ \A i \in RxDone(seg) : Ahead(Sn(i)) < Ahead(RxHighest(seg))
           /\ RxDone(seg) \subseteq Sdu
           /\ Free(RxDone(seg), RxNext(seg)) /\ Free(RxDone(seg), RxStatus(seg))
           /\ \A n \in SN : Free(RxDone(seg), n) => Ahead(RxNext(seg)) <= Ahead(n)
           /\ Ahead(RxNext(seg)) <= Ahead(RxHighest(seg))
           /\ Ahead(RxNext(seg)) <= Ahead(RxStatus(seg))
           /\ Ahead(RxStatus(seg)) <= WindowSize
           /\ \A n \in SN : Free(RxDone(seg), n) /\ Ahead(rx_highest_status) <= Ahead(n)
                              => Ahead(RxStatus(seg)) <= Ahead(n)
<1>. DEFINE sn == Sn(seg.sdu)
            done == RxDone(seg)
<1>1. /\ seg.sdu \in Sdu /\ seg.sdu \in Nat
      /\ passed \in Nat /\ passed \in Int /\ rx_next \in SN /\ rx_next_highest \in SN
      /\ rx_highest_status \in SN /\ processed \subseteq Sdu
    BY SegmentIs, SnType, Modulus DEF RxInv, RxType, rx_next
<1>2. sn \in SN /\ Ahead(sn) < WindowSize
    BY <1>1, SnType DEF InRecvWindow, Ahead
<1>3. /\ Ahead(rx_next_highest) <= WindowSize /\ Ahead(rx_highest_status) <= WindowSize
      /\ \A i \in processed : /\ Ahead(Sn(i)) < Ahead(rx_next_highest)
                              /\ Sn(i) # rx_next /\ Sn(i) # rx_highest_status
    BY DEF RxInv, ReceiverWindow
<1>4. \A n \in SN : Ahead(n) \in Nat
    BY <1>1, AheadType
<1>5. WindowSize \in Nat /\ WindowSize >= 2 /\ SnModulus = 2 * WindowSize
    BY Modulus
<1>6. Sn(sn + 1) \in SN /\ Ahead(Sn(sn + 1)) = Ahead(sn) + 1
  <2>1. modulus_rx(Sn(passed), sn) + 1 < SnModulus
    BY <1>2, <1>4, <1>5 DEF Ahead, rx_next
  <2>. HIDE DEF sn
  <2>. QED BY <1>1, <1>2, <2>1, FurtherAhead DEF Ahead, rx_next
<1>7. /\ RxHighest(seg) \in SN /\ Ahead(RxHighest(seg)) <= WindowSize
      /\ \/ Ahead(RxHighest(seg)) = Ahead(rx_next_highest)
         \/ Ahead(RxHighest(seg)) = Ahead(sn) + 1
      /\ Ahead(sn) < Ahead(RxHighest(seg)) /\ Ahead(rx_next_highest) <= Ahead(RxHighest(seg))
  <2>1. CASE Ahead(sn) >= Ahead(rx_next_highest)
    <3>1. RxHighest(seg) = Sn(sn + 1)
      BY <2>1 DEF RxHighest
    <3>. HIDE DEF sn
    <3>. QED BY <1>1, <1>2, <1>4, <1>5, <1>6, <2>1, <3>1
  <2>2. CASE ~(Ahead(sn) >= Ahead(rx_next_highest))
    <3>1. RxHighest(seg) = rx_next_highest
      BY <2>2 DEF RxHighest
    <3>. HIDE DEF sn
    <3>. QED BY <1>1, <1>2, <1>3, <1>4, <1>5, <2>2, <3>1
  <2>. QED BY <2>1, <2>2
<1>8. done \subseteq Sdu /\ \A i \in done : i = seg.sdu \/ i \in processed
    BY <1>1 DEF RxDone
<1>9. \A i \in done : Ahead(Sn(i)) < Ahead(RxHighest(seg))
  <2>1. ASSUME NEW i \in done PROVE Ahead(Sn(i)) < Ahead(RxHighest(seg))
    <3>1. Sn(i) \in SN
      <4>1. i \in Int
        BY <1>8, SizeAssumption DEF Sdu
      <4>. QED BY <4>1, SnType
    <3>2. CASE i = seg.sdu
      BY <1>7, <3>2
    <3>3. CASE i \in processed
      BY <1>1, <1>3, <1>4, <1>7, <3>1, <3>3
    <3>. QED BY <1>8, <3>2, <3>3
  <2>. QED BY <2>1
<1>10. PICK w \in SN : Ahead(w) = WindowSize
  <2>1. PICK i \in Int : i = passed + WindowSize
    BY <1>1, <1>5
  <2>2. Sn(i) \in SN
    BY SnType
  <2>3. modulus_rx(Sn(passed), Sn(i)) = i - passed
    BY <1>1, <1>5, <2>1, SnDistance
  <2>. QED BY <1>1, <1>5, <2>1, <2>2, <2>3 DEF Ahead, rx_next
<1>11. Free(done, w) /\ Free(done, RxHighest(seg))
  <2>1. ASSUME NEW i \in done PROVE Sn(i) # w /\ Sn(i) # RxHighest(seg)
    <3>1. Sn(i) \in SN
      <4>1. i \in Int
        BY <1>8, SizeAssumption DEF Sdu
      <4>. QED BY <4>1, SnType
    <3>. QED BY <1>4, <1>5, <1>7, <1>9, <1>10, <3>1
  <2>. QED BY <2>1 DEF Free
<1>. HIDE DEF done
<1>12. Ahead(rx_next) = 0
  <2>1. modulus_rx(Sn(passed), Sn(passed)) = passed - passed
    BY <1>1, <1>5, SnDistance
  <2>. QED BY <1>1, <2>1 DEF Ahead, rx_next
<1>13. /\ RxNext(seg) \in SN /\ Free(done, RxNext(seg))
       /\ \A n \in SN : Free(done, n) => Ahead(RxNext(seg)) <= Ahead(n)
  <2>1. CASE RxFull(seg) /\ sn = rx_next
    <3>1. RxNext(seg) = FirstUndelivered(done, rx_next)
      BY <2>1 DEF RxNext, done
    <3>. QED BY <1>1, <1>10, <1>11, <3>1, FirstIsFree DEF Ahead
  <2>2. CASE ~(RxFull(seg) /\ sn = rx_next)
    <3>1. RxNext(seg) = rx_next
      BY <2>2 DEF RxNext
    <3>2. Free(done, rx_next)
      BY <1>3, <2>2 DEF Free, done, RxDone
    <3>. QED BY <1>1, <1>4, <1>12, <3>1, <3>2
  <2>. QED BY <2>1, <2>2
<1>14. /\ RxStatus(seg) \in SN /\ Free(done, RxStatus(seg)) /\ Ahead(RxStatus(seg)) <= WindowSize
       /\ \A n \in SN : Free(done, n) /\ Ahead(rx_highest_status) <= Ahead(n)
                              => Ahead(RxStatus(seg)) <= Ahead(n)
  <2>1. CASE RxFull(seg) /\ sn = rx_highest_status
    <3>1. RxStatus(seg) = FirstUndelivered(done, rx_highest_status)
      BY <2>1 DEF RxStatus, HighestStatus, done
    <3>2. /\ RxStatus(seg) \in SN /\ Free(done, RxStatus(seg))
          /\ \A n \in SN : Free(done, n) /\ Ahead(rx_highest_status) <= Ahead(n)
                              => Ahead(RxStatus(seg)) <= Ahead(n)
      BY <1>1, <1>10, <1>11, <3>1, FirstFrom
    <3>. QED BY <1>3, <1>10, <1>11, <3>2
  <2>2. CASE ~(RxFull(seg) /\ sn = rx_highest_status)
    <3>1. RxStatus(seg) = rx_highest_status
      BY <2>2 DEF RxStatus, HighestStatus
    <3>2. Free(done, rx_highest_status)
      BY <1>3, <2>2 DEF Free, done, RxDone
    <3>. QED BY <1>1, <1>3, <3>1, <3>2
  <2>. QED BY <2>1, <2>2
<1>15. Ahead(RxNext(seg)) <= Ahead(RxHighest(seg)) /\ Ahead(RxNext(seg)) <= Ahead(RxStatus(seg))
    BY <1>7, <1>11, <1>13, <1>14
<1>. QED BY <1>2, <1>7, <1>8, <1>9, <1>13, <1>14, <1>15 DEF done

(* Distances after rx_next has moved on to next.                           *)
LEMMA MovedOn ==
    ASSUME passed \in Nat, NEW next \in SN, NEW n \in SN, Ahead(next) <= Ahead(n)
    PROVE  /\ Sn(passed + Ahead(next)) = next
           /\ modulus_rx(next, n) = Ahead(n) - Ahead(next)
<1>1. Ahead(next) \in 0..(SnModulus - 1) /\ Ahead(n) \in 0..(SnModulus - 1)
    BY AheadType
<1>2. Sn(passed + Ahead(next)) = next
    BY SnAt DEF Ahead, rx_next
<1>3. modulus_rx(Sn(passed + Ahead(next)), n) =
             IF modulus_rx(Sn(passed), n) >= Ahead(next)
             THEN modulus_rx(Sn(passed), n) - Ahead(next)
             ELSE modulus_rx(Sn(passed), n) - Ahead(next) + SnModulus
    BY <1>1, Shift
<1>4. modulus_rx(Sn(passed), n) = Ahead(n)
    BY DEF Ahead, rx_next
<1>. QED BY <1>1, <1>2, <1>3, <1>4, Modulus

(* reception_actions keeps the window of the receiver, and no gap is left  *)
(* without t_reassembly.                                                   *)
LEMMA ReceiveKeepsReceiver ==
    ASSUME RxInv, NEW seg \in Segment, InRecvWindow(Sn(seg.sdu)), Receive(seg),
           sdu_size' = sdu_size, status_triggered' \in BOOLEAN,
           t_status_prohibit' = t_status_prohibit
    PROVE  RxInv'
<1>. DEFINE next == RxNext(seg)
            highest == RxHighest(seg)
            top == RxStatus(seg)
            done == RxDone(seg)
<1>1. /\ passed \in Nat /\ sdu_size \in SduSizes /\ rx_next_status_trigger \in SN
      /\ rx_list \subseteq Byte /\ log \in Seq(SUBSET Sdu)
    BY DEF RxInv, RxType
<1>2. /\ highest \in SN /\ next \in SN /\ top \in SN
      /\ Ahead(highest) <= WindowSize /\ Ahead(top) <= WindowSize
      /\ \A i \in done : Ahead(Sn(i)) < Ahead(highest)
      /\ done \subseteq Sdu
      /\ Free(done, next) /\ Free(done, top)
      /\ Ahead(next) <= Ahead(highest)
      /\ Ahead(next) <= Ahead(top)
    BY ReceiveFacts
<1>3. /\ rx_list' = RxLeft(seg)
      /\ processed' = {i \in done : ~RxFreed(seg, i)}
      /\ log' = IF RxFull(seg)
                THEN Append(log, {b.sdu : b \in {c \in RxBytes(seg) : Sn(c.sdu) = Sn(seg.sdu)}})
                ELSE log
      /\ passed' = passed + Ahead(next) /\ rx_next_highest' = highest
      /\ rx_highest_status' = top
      /\ t_reassembly' = (RxRunning(seg) \/ RxStart(seg))
      /\ rx_next_status_trigger' = IF RxStart(seg) THEN highest ELSE rx_next_status_trigger
    BY ReceiveIs
<1>4. /\ RxFreed(seg, 0) = (Ahead(Sn(0)) < Ahead(next))
      /\ \A i \in done : RxFreed(seg, i) = (Ahead(Sn(i)) < Ahead(next))
    BY DEF RxFreed
<1>. DEFINE left == RxLeft(seg)
            run == RxRunning(seg)
            start == RxStart(seg)
<1>5. start = (~run /\ Starts(left, next, highest)) /\ run \in BOOLEAN /\ start \in BOOLEAN
    BY DEF RxStart, RxRunning, RxInv, RxType
<1>6. run => /\ t_reassembly /\ rx_next_status_trigger # next
             /\ \/ ~(modulus_rx(next, rx_next_status_trigger) >= WindowSize)
                \/ rx_next_status_trigger = Sn(next + WindowSize)
    BY DEF RxRunning, RxStop
<1>7. RxBytes(seg) \subseteq Byte /\ left \subseteq Byte
    BY <1>1, BytesOfSegment DEF RxBytes, RxLeft
<1>. HIDE DEF next, highest, top, done, left, run, start
<1>8. /\ Ahead(next) \in Nat /\ Ahead(highest) \in Nat /\ Ahead(top) \in Nat
      /\ Ahead(next) < SnModulus
      /\ WindowSize \in Nat /\ WindowSize >= 2 /\ SnModulus = 2 * WindowSize /\ SnModulus \in Nat
    BY <1>1, <1>2, AheadType, Modulus
<1>9. passed' \in Nat /\ rx_next' = next
    BY <1>1, <1>2, <1>3, <1>8, MovedOn DEF rx_next
<1>10. /\ modulus_rx(next, highest) = Ahead(highest) - Ahead(next)
       /\ modulus_rx(next, top) = Ahead(top) - Ahead(next)
    BY <1>1, <1>2, MovedOn
<1>11. next \in Int /\ next = Sn(next)
    BY <1>2, SnsAreNumbers, SnOfSn
<1>12. /\ modulus_rx(next, next) = 0
       /\ modulus_rx(next, Sn(next + 1)) = 1 /\ Sn(next + 1) \in SN
       /\ modulus_rx(next, Sn(next + WindowSize)) = WindowSize
       /\ modulus_rx(next, Sn(top + 1)) = modulus_rx(next, top) + 1
  <2>1. modulus_rx(next, next) = 0
    BY <1>8, <1>11, SnDistance
  <2>2. modulus_rx(next, Sn(next + 1)) = 1 /\ Sn(next + 1) \in SN
    BY <1>2, <1>8, <1>11, <2>1, FurtherAhead
  <2>3. modulus_rx(next, Sn(next + WindowSize)) = WindowSize
    BY <1>2, <1>8, <1>11, <2>1, FurtherAhead
  <2>4. modulus_rx(next, top) \in Nat /\ modulus_rx(next, top) + 1 < SnModulus
    BY <1>2, <1>8, <1>10
  <2>5. modulus_rx(Sn(next), Sn(top + 1)) = modulus_rx(Sn(next), top) + 1
    BY <1>2, <1>11, <2>4, FurtherAhead
  <2>. QED BY <1>11, <2>1, <2>2, <2>3, <2>5
<1>13. run => modulus_rx(next, rx_next_status_trigger) \in 1..WindowSize
  <2>1. modulus_rx(next, rx_next_status_trigger) \in 0..(SnModulus - 1)
    BY <1>1, <1>11, SnsAreNumbers, DistanceType
  <2>2. ASSUME rx_next_status_trigger # next PROVE modulus_rx(next, rx_next_status_trigger) # 0
    <3>1. modulus_rx(Sn(next), rx_next_status_trigger) = modulus_rx(Sn(next), next)
            => rx_next_status_trigger = next
      BY <1>1, <1>2, <1>11, SameDistance
    <3>. QED BY <1>11, <1>12, <2>2, <3>1
  <2>. QED BY <1>6, <1>8, <1>12, <2>1, <2>2
<1>14. start => modulus_rx(next, highest) \in 1..WindowSize
  <2>1. ASSUME start PROVE modulus_rx(next, highest) >= 1
    <3>1. GapFrom(left, next, highest, next)
      BY <1>5, <2>1 DEF Starts
    <3>2. modulus_rx(next, highest) > 1 \/ highest = Sn(next + 1)
      BY <1>12, <3>1 DEF GapFrom
    <3>. QED BY <1>2, <1>8, <1>10, <1>12, <3>2
  <2>. QED BY <1>2, <1>8, <1>10, <2>1
<1>15. ASSUME GapFrom(left, next, highest, top) PROVE run \/ start
  <2>1. Starts(left, next, highest)
    <3>1. CASE top = next
      BY <1>15, <3>1 DEF Starts
    <3>2. CASE top # next
      <4>1. modulus_rx(next, top) # 0
        <5>1. modulus_rx(Sn(next), top) = modulus_rx(Sn(next), next) => top = next
          BY <1>2, <1>11, SameDistance
        <5>. QED BY <1>11, <1>12, <3>2, <5>1
      <4>2. modulus_rx(next, top) \in Nat /\ modulus_rx(next, highest) \in Nat
        BY <1>2, <1>8, <1>10
      <4>3. \/ modulus_rx(next, highest) > modulus_rx(next, top) + 1
            \/ highest = Sn(top + 1)
        BY <1>12, <1>15 DEF GapFrom
      <4>4. modulus_rx(next, highest) > 1
        BY <1>12, <4>1, <4>2, <4>3
      <4>. QED BY <1>12, <4>4 DEF Starts, GapFrom
    <3>. QED BY <3>1, <3>2
  <2>. QED BY <1>5, <2>1
<1>17. RxType'
  <2>1. processed' \subseteq Sdu
    BY <1>2, <1>3
  <2>2. log' \in Seq(SUBSET Sdu)
    <3>1. {b.sdu : b \in {c \in RxBytes(seg) : Sn(c.sdu) = Sn(seg.sdu)}} \in SUBSET Sdu
      BY <1>1, <1>7, ByteIs
    <3>. QED BY <1>1, <1>3, <3>1
  <2>3. rx_list' \subseteq Byte'
    BY <1>3, <1>7, SameSizes DEF left
  <2>4. rx_next_highest' \in SN /\ rx_highest_status' \in SN /\ rx_next_status_trigger' \in SN
    BY <1>1, <1>2, <1>3
  <2>5. t_reassembly' \in BOOLEAN
    BY <1>3, <1>5 DEF run, start
  <2>. QED BY <1>9, <2>1, <2>2, <2>3, <2>4, <2>5 DEF RxType, RxInv
<1>18. ReceiverWindow'
  <2>1. modulus_rx(rx_next', rx_next_highest') <= WindowSize
    BY <1>2, <1>3, <1>8, <1>9, <1>10
  <2>2. modulus_rx(rx_next', rx_highest_status') <= WindowSize
    BY <1>2, <1>3, <1>8, <1>9, <1>10
  <2>3. t_reassembly' => modulus_rx(rx_next', rx_next_status_trigger') \in 1..WindowSize
    BY <1>3, <1>5, <1>9, <1>13, <1>14 DEF run, start
  <2>4. ASSUME NEW i \in processed'
        PROVE  /\ modulus_rx(rx_next', Sn(i)) < modulus_rx(rx_next', rx_next_highest')
               /\ Sn(i) # rx_next' /\ Sn(i) # rx_highest_status'
    <3>1. i \in done /\ ~(Ahead(Sn(i)) < Ahead(next))
      BY <1>3, <1>4
    <3>2. Sn(i) \in SN
      <4>1. i \in Int
        BY <1>2, <3>1, SizeAssumption DEF Sdu
      <4>. QED BY <4>1, SnType
    <3>3. Ahead(Sn(i)) \in Nat /\ Ahead(next) <= Ahead(Sn(i))
      BY <1>1, <1>8, <3>1, <3>2, AheadType
    <3>4. modulus_rx(next, Sn(i)) = Ahead(Sn(i)) - Ahead(next)
      BY <1>1, <1>2, <3>2, <3>3, MovedOn
    <3>5. Ahead(Sn(i)) < Ahead(highest)
      BY <1>2, <3>1
    <3>6. Sn(i) # next /\ Sn(i) # top
      BY <1>2, <3>1 DEF Free
    <3>. QED BY <1>3, <1>8, <1>9, <1>10, <3>3, <3>4, <3>5, <3>6
  <2>. QED BY <2>1, <2>2, <2>3, <2>4 DEF ReceiverWindow, Ahead
<1>19. GapIsTimed'
  <2>1. GapIsTimed' = (GapFrom(left, next, highest, top) => t_reassembly')
    BY <1>3, <1>9 DEF GapIsTimed, GapFrom, HasMissingBytes, Offsets, left
  <2>. QED BY <1>3, <1>15, <2>1 DEF run, start
<1>. QED BY <1>1, <1>17, <1>18, <1>19 DEF RxInv

(* The invariant of the receiver does not depend on what is not in it.     *)
LEMMA ReceiverUnchanged ==
    ASSUME RxInv, sdu_size' = sdu_size, status_triggered' \in BOOLEAN,
           t_status_prohibit' \in BOOLEAN,
           UNCHANGED <<passed, rx_next_highest, rx_highest_status, rx_next_status_trigger,
                       rx_list, processed, t_reassembly, log>>
    PROVE  RxInv'
<1>1. RxType'
    BY SameSizes DEF RxInv, RxType
<1>2. ReceiverWindow'
    BY DEF RxInv, ReceiverWindow, Ahead, rx_next
<1>3. GapIsTimed'
    BY DEF RxInv, GapIsTimed, rx_next
<1>. QED BY <1>1, <1>2, <1>3 DEF RxInv

(* nr_rlc_entity_am_recv_pdu keeps the invariant of the receiver.          *)
LEMMA RecvPduKeepsReceiver ==
    ASSUME SenderInv, RxInv, NEW pdu \in data, RecvPdu(pdu), sdu_size' = sdu_size
    PROVE  RxInv'
<1>. DEFINE seg == pdu.seg
            useless == \/ ~InRecvWindow(Sn(seg.sdu))
                       \/ {b.so : b \in BytesOf(seg)} \subseteq Offsets(rx_list, Sn(seg.sdu))
<1>1. /\ IF useless
         THEN UNCHANGED <<passed, rx_next_highest, rx_highest_status,
                          rx_next_status_trigger, rx_list, processed, t_reassembly, log>>
         ELSE Receive(seg)
      /\ status_triggered' = (status_triggered \/ TriggersStatus(pdu, useless))
      /\ t_status_prohibit' = t_status_prohibit
    BY DEF RecvPdu
<1>2. pdu \in [seg : Segment, p : BOOLEAN]
    BY DEF SenderInv, LinkType
<1>3. seg \in Segment /\ pdu.p \in BOOLEAN
    BY <1>2
<1>4. status_triggered' \in BOOLEAN /\ t_status_prohibit' \in BOOLEAN
    BY <1>1, <1>3 DEF TriggersStatus, RxInv, RxType
<1>5. CASE useless
    BY <1>1, <1>4, <1>5, ReceiverUnchanged
<1>6. CASE ~useless
  <2>1. Receive(seg) /\ InRecvWindow(Sn(seg.sdu))
    BY <1>1, <1>6
  <2>. QED BY <1>1, <1>3, <1>4, <2>1, ReceiveKeepsReceiver
<1>. QED BY <1>5, <1>6

(* check_t_reassembly keeps it: rx_highest_status stays in the window, and *)
(* the timer runs on when there is a gap above it.                         *)
LEMMA TReassemblyExpiresKeepsReceiver ==
    ASSUME RxInv, TReassemblyExpires, sdu_size' = sdu_size
    PROVE  RxInv'
<1>. DEFINE top == FirstUndelivered(processed, rx_next_status_trigger)
            start == GapFrom(rx_list, rx_next, rx_next_highest, top)
<1>1. /\ t_reassembly /\ t_reassembly' = start
      /\ rx_highest_status' = top /\ status_triggered' = TRUE
      /\ rx_next_status_trigger' = IF start THEN rx_next_highest ELSE rx_next_status_trigger
      /\ UNCHANGED <<passed, rx_next_highest, rx_list, processed, t_status_prohibit, log>>
    BY DEF TReassemblyExpires
<1>2. /\ passed \in Nat /\ rx_next_status_trigger \in SN /\ rx_next_highest \in SN
      /\ rx_next \in SN /\ processed \subseteq Sdu
      /\ Ahead(rx_next_status_trigger) \in 1..WindowSize
      /\ Ahead(rx_next_highest) <= WindowSize /\ Ahead(rx_next_highest) \in Nat
      /\ \A i \in processed : Ahead(Sn(i)) < Ahead(rx_next_highest)
    BY <1>1, AheadType, SnType DEF RxInv, RxType, ReceiverWindow, rx_next
<1>3. WindowSize \in Nat /\ WindowSize >= 2 /\ SnModulus = 2 * WindowSize /\ SnModulus \in Nat
    BY Modulus
<1>4. PICK w \in SN : Ahead(w) = WindowSize
  <2>1. PICK i \in Int : i = passed + WindowSize
    BY <1>2, <1>3
  <2>2. Sn(i) \in SN
    BY SnType
  <2>3. modulus_rx(Sn(passed), Sn(i)) = i - passed
    BY <1>2, <1>3, <2>1, SnDistance
  <2>. QED BY <1>2, <1>3, <2>1, <2>2, <2>3 DEF Ahead, rx_next
<1>5. Free(processed, w)
  <2>1. ASSUME NEW i \in processed PROVE Sn(i) # w
    <3>1. Sn(i) \in SN
      <4>1. i \in Int
        BY <1>2, SizeAssumption DEF Sdu
      <4>. QED BY <4>1, SnType
    <3>. QED BY <1>2, <1>3, <1>4, <3>1, AheadType
  <2>. QED BY <2>1 DEF Free
<1>6. /\ top \in SN /\ Free(processed, top)
      /\ \A n \in SN : Free(processed, n) /\ Ahead(rx_next_status_trigger) <= Ahead(n)
                         => Ahead(top) <= Ahead(n)
    BY <1>2, <1>5, FirstFrom
<1>. HIDE DEF top
<1>7. Ahead(top) <= WindowSize /\ Ahead(top) \in Nat
    BY <1>2, <1>4, <1>5, <1>6, AheadType
<1>8. start => Ahead(rx_next_highest) \in 1..WindowSize
  <2>1. ASSUME start PROVE Ahead(rx_next_highest) >= 1
    <3>1. Sn(top + 1) \in SN /\ Ahead(Sn(top + 1)) = Ahead(top) + 1
      <4>1. modulus_rx(Sn(passed), top) + 1 < SnModulus
        BY <1>3, <1>7 DEF Ahead, rx_next
      <4>2. passed \in Int
        BY <1>2
      <4>. QED BY <1>6, <4>1, <4>2, FurtherAhead DEF Ahead, rx_next
    <3>2. Ahead(rx_next_highest) > Ahead(Sn(top + 1)) \/ rx_next_highest = Sn(top + 1)
      BY <2>1 DEF GapFrom, Ahead
    <3>. QED BY <1>2, <1>7, <3>1, <3>2
  <2>. HIDE DEF start
  <2>. QED BY <1>2, <1>3, <2>1
<1>9. start \in BOOLEAN
    BY DEF GapFrom, HasMissingBytes
<1>10. RxType'
  <2>. HIDE DEF start
  <2>1. /\ rx_highest_status' \in SN /\ rx_next_status_trigger' \in SN
        /\ t_reassembly' \in BOOLEAN /\ status_triggered' \in BOOLEAN
    BY <1>1, <1>2, <1>6, <1>9
  <2>. QED BY <1>1, <2>1, SameSizes DEF RxInv, RxType
<1>11. ReceiverWindow'
  <2>. HIDE DEF start
  <2>1. rx_next' = rx_next
    BY <1>1 DEF rx_next
  <2>2. t_reassembly' => modulus_rx(rx_next', rx_next_status_trigger') \in 1..WindowSize
    BY <1>1, <1>8, <2>1 DEF Ahead
  <2>3. modulus_rx(rx_next', rx_highest_status') <= WindowSize
    BY <1>1, <1>7, <2>1 DEF Ahead
  <2>4. \A i \in processed' : Sn(i) # rx_highest_status'
    BY <1>1, <1>6 DEF Free
  <2>. QED BY <1>1, <2>1, <2>2, <2>3, <2>4 DEF RxInv, ReceiverWindow, Ahead
<1>12. GapIsTimed'
    BY <1>1 DEF GapIsTimed, rx_next
<1>. QED BY <1>10, <1>11, <1>12 DEF RxInv

(* The last NACK of a STATUS PDU is of a byte that is missing.             *)
LEMMA CutIsMissing ==
    ASSUME sdu_size \in SduSizes, NEW c \in Cuts, NacksUpTo(c) # {}
    PROVE  c \in Missing /\ c \in Byte
<1>1. c \in Missing \cup {NoByte}
    BY DEF Cuts
<1>2. Missing \subseteq Byte
    BY DEF Missing
<1>3. ASSUME c = NoByte PROVE FALSE
  <2>1. \A b \in Missing : b.sdu \in Nat
    BY <1>2, ByteIs
  <2>2. \A b \in Missing : Before(NoByte, b)
    BY <2>1 DEF Before, NoByte
  <2>3. {b \in Missing : ~Before(c, b)} = {}
    BY <1>3, <2>2
  <2>4. NacksUpTo(c) = {}
    BY <2>3 DEF NacksUpTo
  <2>. QED BY <2>4
<1>. QED BY <1>1, <1>2, <1>3

(* The STATUS PDU with room for the NACKs up to byte c.                    *)
StatusOf(c) ==
    [ack |-> IF NacksUpTo(c) = {} THEN passed ELSE c.sdu + 1, nacks |-> NacksUpTo(c)]

(* generate_status sends it.                                               *)
LEMMA GenerateStatusIs ==
    ASSUME NEW c, GenerateStatus(c)
    PROVE  /\ status' = status \cup {StatusOf(c)}
           /\ status_triggered' = FALSE /\ t_status_prohibit' = TRUE
           /\ UNCHANGED <<tx, data, undefined, history, passed, rx_next_highest,
                          rx_highest_status, rx_next_status_trigger, rx_list, processed,
                          t_reassembly, log>>
BY DEF GenerateStatus, StatusOf

(* It is well formed.                                                      *)
LEMMA StatusType ==
    ASSUME sdu_size \in SduSizes, passed \in Nat, NEW c \in Cuts
    PROVE  StatusOf(c) \in [ack : Nat, nacks : SUBSET Byte]
<1>1. NacksUpTo(c) \subseteq Byte
    BY DEF NacksUpTo, Missing
<1>2. NacksUpTo(c) # {} => c.sdu \in Nat
    BY CutIsMissing, ByteIs
<1>. QED BY <1>1, <1>2 DEF StatusOf

(* The invariant of the sender does not depend on the receiver.            *)
LEMMA SenderUnchanged ==
    ASSUME SenderInv, UNCHANGED tx, sdu_size' = sdu_size, data' \subseteq data,
           status' \subseteq [ack : Nat, nacks : SUBSET Byte], UNCHANGED <<undefined, history>>
    PROVE  SenderInv'
<1>1. Segment' = Segment /\ Byte' = Byte
    BY SameSizes
<1>2. TxType'
    BY <1>1 DEF SenderInv, TxType, tx
<1>3. LinkType'
    BY <1>1 DEF SenderInv, LinkType, history
<1>4. SenderParts' /\ ListsDisjoint'
    BY DEF SenderInv, SenderParts, ListsDisjoint, Listed, tx
<1>. QED BY <1>2, <1>3, <1>4 DEF SenderInv
-----------------------------------------------------------------------------
(* The inductive invariant of types, lists and windows. It holds whatever  *)
(* becomes of the order of SNs.                                            *)
Inv == SenderInv /\ RxInv

(* It holds initially,                                                     *)
LEMMA InitInv == Init => Inv
<1>. SUFFICES ASSUME Init PROVE Inv
    OBVIOUS
<1>1. 0 \in SN /\ SnModulus \in Nat /\ WindowSize \in Nat /\ WindowSize >= 2 /\ Sn(0) = 0
    BY Modulus, NearMod DEF SN, Sn
<1>2. 0 \in 0..TxMax /\ 0 \in 0..MaxSdus /\ MaxSdus \in Nat
    BY SizeAssumption
<1>3. TxType
    BY <1>1, <1>2 DEF Init, TxType
<1>4. LinkType
    BY DEF Init, LinkType
<1>5. RxType
  <2>1. <<>> \in Seq(SUBSET Sdu)
    OBVIOUS
  <2>. QED BY <1>1, <2>1 DEF Init, RxType
<1>6. SenderParts /\ ListsDisjoint
    BY <1>2 DEF Init, SenderParts, Listed, ListsDisjoint
<1>7. /\ rx_next = 0 /\ rx_next_highest = 0 /\ rx_highest_status = 0 /\ processed = {}
      /\ t_reassembly = FALSE /\ rx_list = {}
    BY <1>1 DEF Init, rx_next
<1>8. modulus_rx(0, 0) = 0 /\ modulus_rx(0, Sn(0 + 1)) = 1 /\ Sn(0 + 1) # 0
  <2>1. modulus_rx(Sn(0), Sn(0)) = 0
    BY <1>1, SnDistance, Modulus
  <2>2. modulus_rx(Sn(0), Sn(1)) = 1
    BY <1>1, SnDistance, Modulus
  <2>. QED BY <1>1, <2>1, <2>2
<1>9. ReceiverWindow
    BY <1>1, <1>7, <1>8 DEF ReceiverWindow, Ahead
<1>10. GapIsTimed
    BY <1>7, <1>8 DEF GapIsTimed, GapFrom
<1>. QED BY <1>3, <1>4, <1>5, <1>6, <1>9, <1>10 DEF Inv, SenderInv, RxInv, Init

(* after clear_entity at both ends,                                        *)
LEMMA ReestablishmentInv ==
    ASSUME Inv, Reestablishment, sdu_size' = sdu_size
    PROVE  Inv'
<1>1. 0 \in SN /\ SnModulus \in Nat /\ WindowSize \in Nat /\ WindowSize >= 2 /\ Sn(0) = 0
    BY Modulus, NearMod DEF SN, Sn
<1>2. 0 \in 0..TxMax /\ 0 \in 0..MaxSdus /\ MaxSdus \in Nat
    BY SizeAssumption
<1>3. TxType'
    BY <1>1, <1>2 DEF Reestablishment, TxType, Inv, SenderInv
<1>4. LinkType'
    BY DEF Reestablishment, LinkType, Inv, SenderInv
<1>5. RxType'
  <2>1. <<>> \in Seq(SUBSET Sdu)
    OBVIOUS
  <2>. QED BY <1>1, <2>1 DEF Reestablishment, RxType
<1>6. SenderParts' /\ ListsDisjoint'
    BY <1>2 DEF Reestablishment, SenderParts, Listed, ListsDisjoint
<1>7. /\ rx_next' = 0 /\ rx_next_highest' = 0 /\ rx_highest_status' = 0 /\ processed' = {}
      /\ t_reassembly' = FALSE /\ rx_list' = {}
    BY <1>1 DEF Reestablishment, rx_next
<1>8. modulus_rx(0, 0) = 0 /\ modulus_rx(0, Sn(0 + 1)) = 1 /\ Sn(0 + 1) # 0
  <2>1. modulus_rx(Sn(0), Sn(0)) = 0
    BY <1>1, SnDistance, Modulus
  <2>2. modulus_rx(Sn(0), Sn(1)) = 1
    BY <1>1, SnDistance, Modulus
  <2>. QED BY <1>1, <2>1, <2>2
<1>9. ReceiverWindow'
    BY <1>1, <1>7, <1>8 DEF ReceiverWindow, Ahead
<1>10. GapIsTimed'
    BY <1>7, <1>8 DEF GapIsTimed, GapFrom
<1>11. sdu_size' \in SduSizes
    BY DEF Inv, RxInv
<1>. QED BY <1>3, <1>4, <1>5, <1>6, <1>9, <1>10, <1>11 DEF Inv, SenderInv, RxInv

(* for the receiver, when the sender takes a step,                         *)
LEMMA ReceiverLeftAlone ==
    ASSUME RxInv, UNCHANGED rx, sdu_size' = sdu_size
    PROVE  RxInv'
<1>1. status_triggered' \in BOOLEAN /\ t_status_prohibit' \in BOOLEAN
    BY DEF RxInv, RxType, rx
<1>. QED BY <1>1, ReceiverUnchanged DEF rx

(* and after every step.                                                   *)
LEMMA NextInv == Inv /\ [Next]_vars => Inv'
<1>. SUFFICES ASSUME Inv, [Next]_vars PROVE Inv'
    OBVIOUS
<1>1. SenderInv /\ RxInv
    BY DEF Inv
<1>2. /\ passed \in Nat /\ sdu_size \in SduSizes
      /\ status \subseteq [ack : Nat, nacks : SUBSET Byte]
    BY <1>1 DEF RxInv, RxType, SenderInv, LinkType
<1>3. ASSUME Sender, sdu_size' = sdu_size PROVE Inv'
  <2>1. SenderInv'
    <3>1. CASE RecvSdu
      BY <1>1, <1>3, <3>1, RecvSduKeepsSender
    <3>2. ASSUME NEW room \in Grants, GenerateRetxPdu(room) PROVE SenderInv'
      BY <1>1, <1>3, <3>2, GenerateRetxPduKeepsSender
    <3>3. ASSUME NEW room \in Grants, NEW early \in PollEarly, GenerateTxPdu(room, early)
          PROVE  SenderInv'
      BY <1>1, <1>3, <3>3, GenerateTxPduKeepsSender
    <3>4. CASE TPollRetransmitExpires
      BY <1>1, <1>3, <3>4, TPollRetransmitExpiresKeepsSender
    <3>5. ASSUME NEW st \in status, RecvStatus(st) PROVE SenderInv'
      BY <1>1, <1>3, <3>5, RecvStatusKeepsSender
    <3>. QED BY <1>3, <3>1, <3>2, <3>3, <3>4, <3>5 DEF Sender
  <2>2. UNCHANGED rx
    BY <1>3 DEF Sender, RecvSdu, GenerateRetxPdu, GenerateTxPdu, TPollRetransmitExpires, RecvStatus
  <2>3. RxInv'
    BY <1>1, <1>3, <2>2, ReceiverLeftAlone
  <2>. QED BY <2>1, <2>3 DEF Inv
<1>4. ASSUME Receiver, sdu_size' = sdu_size PROVE Inv'
  <2>1. ASSUME NEW pdu \in data, RecvPdu(pdu) PROVE Inv'
    <3>1. UNCHANGED tx /\ data' \subseteq data /\ UNCHANGED <<status, undefined, history>>
      BY <2>1 DEF RecvPdu
    <3>. QED BY <1>1, <1>2, <1>4, <2>1, <3>1, SenderUnchanged, RecvPduKeepsReceiver DEF Inv
  <2>5. ASSUME NEW pdu \in data, DiscardPdu(pdu) PROVE Inv'
    <3>1. UNCHANGED tx /\ data' \subseteq data /\ UNCHANGED <<status, undefined, history>>
      BY <2>5 DEF DiscardPdu
    <3>2. RxInv'
      <4>1. t_status_prohibit' \in BOOLEAN
        BY <1>1, <2>5 DEF DiscardPdu, RxInv, RxType
      <4>2. status_triggered' \in BOOLEAN
        BY <2>5, ZenonT(60) DEF DiscardPdu
      <4>. QED BY <1>1, <1>4, <2>5, <4>1, <4>2, ReceiverUnchanged DEF DiscardPdu
    <3>. QED BY <1>1, <1>2, <1>4, <3>1, <3>2, SenderUnchanged DEF Inv
  <2>2. CASE TReassemblyExpires
    <3>1. UNCHANGED tx /\ data' \subseteq data /\ UNCHANGED <<status, undefined, history>>
      BY <2>2 DEF TReassemblyExpires
    <3>. QED BY <1>1, <1>2, <1>4, <2>2, <3>1, SenderUnchanged, TReassemblyExpiresKeepsReceiver DEF Inv
  <2>3. CASE TStatusProhibitExpires
    <3>1. UNCHANGED tx /\ data' \subseteq data /\ UNCHANGED <<status, undefined, history>>
      BY <2>3 DEF TStatusProhibitExpires
    <3>2. RxInv'
      <4>1. status_triggered' \in BOOLEAN /\ t_status_prohibit' \in BOOLEAN
        BY <1>1, <2>3 DEF TStatusProhibitExpires, RxInv, RxType
      <4>. QED BY <1>1, <1>4, <2>3, <4>1, ReceiverUnchanged DEF TStatusProhibitExpires
    <3>. QED BY <1>1, <1>2, <1>4, <3>1, <3>2, SenderUnchanged DEF Inv
  <2>4. ASSUME NEW c \in Cuts, GenerateStatus(c) PROVE Inv'
    <3>1. /\ status' = status \cup {StatusOf(c)}
          /\ status_triggered' = FALSE /\ t_status_prohibit' = TRUE
          /\ UNCHANGED <<tx, data, undefined, history, passed, rx_next_highest,
                         rx_highest_status, rx_next_status_trigger, rx_list, processed,
                         t_reassembly, log>>
      BY <2>4, GenerateStatusIs
    <3>2. status' \subseteq [ack : Nat, nacks : SUBSET Byte]
      BY <1>2, <3>1, StatusType
    <3>3. SenderInv'
      BY <1>1, <1>4, <3>1, <3>2, SenderUnchanged
    <3>4. RxInv'
      BY <1>1, <1>4, <3>1, ReceiverUnchanged
    <3>. QED BY <3>3, <3>4 DEF Inv
  <2>. QED BY <1>4, <2>1, <2>2, <2>3, <2>4, <2>5 DEF Receiver
<1>5. ASSUME Lose, sdu_size' = sdu_size PROVE Inv'
  <2>1. data' \subseteq data /\ status' \subseteq status /\ UNCHANGED <<tx, rx, undefined, history>>
    BY <1>5 DEF Lose
  <2>2. SenderInv'
    BY <1>1, <1>2, <1>5, <2>1, SenderUnchanged
  <2>. QED BY <1>1, <1>5, <2>1, <2>2, ReceiverLeftAlone DEF Inv
<1>6. ASSUME UNCHANGED vars PROVE Inv'
  <2>1. /\ UNCHANGED tx /\ UNCHANGED rx /\ sdu_size' = sdu_size /\ data' \subseteq data
        /\ UNCHANGED <<status, undefined, history>>
    BY <1>6 DEF vars
  <2>. QED BY <1>1, <1>2, <2>1, SenderUnchanged, ReceiverLeftAlone DEF Inv
<1>. QED BY <1>3, <1>4, <1>5, <1>6, ReestablishmentInv DEF Next

(* Type correctness: SNs stay below the modulus, rest inside its SDU, and  *)
(* every segment, byte and NACK inside the SDU it is of, through every cut *)
(* of resegment, generate_tx_pdu and generate_status.                      *)
THEOREM TypeCorrect == Spec => []TypeOK
<1>1. Inv => TypeOK
    BY TypeParts DEF Inv, SenderInv, RxInv
<1>. QED BY <1>1, InitInv, NextInv, PTL DEF Spec

(* For any sizes of SDUs and grants: wait_list and retransmit_list never   *)
(* share a byte, in whatever order resegment, process_control_pdu and      *)
(* check_t_poll_retransmit cut segments and move them.                     *)
THEOREM SegmentsApart == Spec => []ListsDisjoint
<1>1. Inv => ListsDisjoint
    BY DEF Inv, SenderInv
<1>. QED BY <1>1, InitInv, NextInv, PTL DEF Spec

(* For any window and any order of arrival: a gap above rx_highest_status  *)
(* never stays without a running t_reassembly (reception_actions and       *)
(* check_t_reassembly).                                                    *)
THEOREM GapsAreTimed == Spec => []GapIsTimed
<1>1. Inv => GapIsTimed
    BY DEF Inv, RxInv
<1>. QED BY <1>1, InitInv, NextInv, PTL DEF Spec

-----------------------------------------------------------------------------

(* The number that tx_next_ack is the SN of: it lies less than an SN space *)
(* below the next SDU to be sent.                                          *)
BaseOf(ack, next) == next - modulus_rx(ack, Sn(next))
Base == BaseOf(tx_next_ack, sent)

(* All that the sender keeps lies in its window.                           *)
SenderWindow ==
    /\ Base >= 0 /\ sent <= Base + WindowSize
    /\ rest # 0 => Base < sent
    /\ \A s \in Listed : Base <= s.sdu

(* All bytes of SDU i are there.                                           *)
Complete(bytes, i) == \A o \in 0..(sdu_size[i] - 1) : [sdu |-> i, so |-> o] \in bytes

(* All that the receiver keeps was sent and lies in its window; below it   *)
(* all was delivered, in it what was put together.                         *)
InStep ==
    /\ passed <= sent
    /\ Ahead(rx_next_highest) <= sent - passed
    /\ Ahead(rx_highest_status) <= sent - passed
    /\ t_reassembly => Ahead(rx_next_status_trigger) <= sent - passed
    /\ \A b \in rx_list : passed <= b.sdu /\ b.sdu < sent
    /\ \A i \in processed : passed <= i /\ i < sent
    /\ Delivered = 0..(passed - 1) \cup processed
    /\ \A i \in passed..(sent - 1) : Complete(rx_list, i) => i \in processed

(* A byte of the SDU being sent that was not sent yet.                     *)
Unsent(b) == rest # 0 /\ b.sdu = sent - 1 /\ b.so >= rest

(* Each byte that was sent was received or delivered, or is listed.        *)
NoByteLost ==
    \A b \in Byte : b.sdu < sent =>
        \/ b \in rx_list \/ b.sdu \in Delivered
        \/ Unsent(b)
        \/ \E s \in Listed : b \in BytesOf(s)

(* A STATUS PDU speaks of SDUs that were sent,                             *)
StatusInOrder ==
    \A st \in status : st.ack <= sent /\ \A b \in st.nacks : b.sdu < st.ack

(* and says the truth about those below its ACK.                           *)
StatusTrue ==
    \A st \in status : \A b \in Byte :
        b.sdu < st.ack => b \in rx_list \cup st.nacks \/ b.sdu \in Delivered

(* The invariant that ties the two ends together. With it the two windows  *)
(* overlap so that SNs are never mistaken.                                 *)
Aligned == SenderWindow /\ InStep /\ NoByteLost /\ StatusInOrder /\ StatusTrue

(* The number whose SN is tx_next_ack.                                     *)
LEMMA BaseIs ==
    ASSUME NEW ack \in SN, NEW next \in Nat
    PROVE  /\ BaseOf(ack, next) \in Int /\ BaseOf(ack, next) <= next
           /\ next < BaseOf(ack, next) + SnModulus
           /\ ack = Sn(BaseOf(ack, next))
<1>1. ack \in Int /\ ack = Sn(ack)
    BY SnsAreNumbers, SnOfSn
<1>2. PICK d \in 0..(SnModulus - 1) : d = modulus_rx(ack, Sn(next))
  <2>1. Sn(next) \in Int
    BY SnType
  <2>2. modulus_rx(ack, Sn(next)) \in 0..(SnModulus - 1)
    BY <1>1, <2>1, DistanceType
  <2>. QED BY <2>2
<1>3. SnModulus \in Nat \ {0}
    BY Modulus
<1>4. BaseOf(ack, next) = next - d
    BY <1>2 DEF BaseOf
<1>5. PICK a \in Int, b \in Int : a = next - ack /\ b = next - d
    BY <1>1, <1>3
<1>6. d = a % SnModulus
  <2>1. ((next % SnModulus) - (ack % SnModulus)) % SnModulus = (next - ack) % SnModulus
    <3>1. next \in Int
      OBVIOUS
    <3>. QED BY <1>1, <1>3, <3>1, ModDiff
  <2>. QED BY <1>1, <1>2, <1>5, <2>1 DEF modulus_rx, Sn
<1>7. PICK q \in Int : a = q * SnModulus + d
  <2>1. \E k \in Int : a = k * SnModulus + (a % SnModulus)
    BY <1>3, IntMod
  <2>. QED BY <1>6, <2>1
<1>8. b = ack + q * SnModulus
  <2>1. PICK z \in Int : z = q * SnModulus
    BY <1>3
  <2>. QED BY <1>1, <1>3, <1>5, <1>7, <2>1
<1>9. b % SnModulus = ack % SnModulus
    BY <1>1, <1>3, <1>8, Congruent
<1>10. Sn(b) = ack
    BY <1>1, <1>9 DEF Sn
<1>. QED BY <1>3, <1>4, <1>5, <1>10

(* There is one such number.                                               *)
LEMMA BaseUnique ==
    ASSUME NEW base \in Int, NEW next \in Int, base <= next, next < base + SnModulus
    PROVE  BaseOf(Sn(base), next) = base
<1>1. modulus_rx(Sn(base), Sn(next)) = next - base
    BY SnDistance
<1>. QED BY <1>1 DEF BaseOf

(* Within half of the SN space around it, the comparison of SNs is exact.  *)
LEMMA TxExact ==
    ASSUME tx_next_ack \in SN, sent \in Nat, NEW i \in Int
    PROVE  /\ Base <= i /\ i < Base + SnModulus => modulus_tx(Sn(i)) = i - Base
           /\ i < Base /\ Base <= i + SnModulus => modulus_tx(Sn(i)) = i - Base + SnModulus
<1>1. Base \in Int /\ tx_next_ack = Sn(Base)
    BY BaseIs DEF Base
<1>. QED BY <1>1, SnDistance, TxIsRx

(* Base, and the types that go with it.                                    *)
LEMMA BaseFacts ==
    ASSUME SenderInv
    PROVE  /\ Base \in Int /\ Base <= sent /\ tx_next_ack = Sn(Base) /\ tx_next_ack \in SN
           /\ sent \in Nat /\ sdu_size \in SduSizes /\ Listed \subseteq Segment
           /\ \A s \in Listed : s.sdu \in Nat /\ s.sdu < sent
           /\ rest \in Nat /\ (rest # 0 => sent > 0)
<1>1. tx_next_ack \in SN /\ sent \in Nat /\ sdu_size \in SduSizes /\ rest \in Nat
    BY SenderFacts DEF SenderInv, TxType
<1>2. Base \in Int /\ Base <= sent /\ tx_next_ack = Sn(Base)
    BY <1>1, BaseIs DEF Base
<1>3. Listed \subseteq Segment /\ \A s \in Listed : s.sdu \in Nat /\ s.sdu < sent
    BY SenderFacts DEF SenderInv, SenderParts
<1>. QED BY <1>1, <1>2, <1>3 DEF SenderInv, SenderParts

(* A confirmed SDU was delivered, as none of its bytes can be elsewhere;   *)
(* so the window of the sender does not start above that of the receiver.  *)
LEMMA AlignedFacts ==
    ASSUME Inv, Aligned
    PROVE  /\ Confirmed \subseteq Delivered
           /\ passed \in Nat /\ passed \notin Delivered
           /\ Base <= passed /\ passed <= sent /\ sent <= passed + WindowSize
           /\ \A i \in Nat : Held(i) => Base <= i /\ i < sent
<1>0. SenderInv /\ RxInv /\ SenderWindow /\ InStep /\ NoByteLost
    BY DEF Inv, Aligned
<1>1. /\ Base \in Int /\ sent \in Nat /\ sdu_size \in SduSizes /\ Listed \subseteq Segment
      /\ \A s \in Listed : s.sdu \in Nat /\ s.sdu < sent
      /\ Base <= sent /\ rest \in Nat /\ (rest # 0 => sent > 0)
    BY <1>0, BaseFacts
<1>2. passed \in Nat /\ sent <= MaxSdus /\ MaxSdus \in Nat /\ WindowSize \in Nat
    BY <1>0, SizeAssumption DEF RxInv, RxType, SenderInv, TxType
<1>3. /\ Base >= 0 /\ sent <= Base + WindowSize
      /\ rest # 0 => Base < sent
      /\ \A s \in Listed : Base <= s.sdu
    BY <1>0 DEF SenderWindow
<1>4. /\ passed <= sent /\ Delivered = 0..(passed - 1) \cup processed
      /\ \A i \in passed..(sent - 1) : Complete(rx_list, i) => i \in processed
    BY <1>0 DEF InStep
<1>5. \A i \in Nat : Held(i) => Base <= i /\ i < sent
  <2>1. ASSUME NEW i \in Nat, Held(i) PROVE Base <= i /\ i < sent
    <3>1. CASE \E s \in Listed : s.sdu = i
      BY <1>1, <1>3, <3>1
    <3>2. CASE rest # 0 /\ i = sent - 1
      BY <1>1, <1>3, <3>2
    <3>. QED BY <2>1, <3>1, <3>2 DEF Held, Listed
  <2>. QED BY <2>1
<1>6. ASSUME NEW i \in Confirmed PROVE i \in Delivered
  <2>1. i \in 0..(sent - 1) /\ ~Held(i)
    BY DEF Confirmed
  <2>2. CASE i < passed
    BY <1>2, <1>4, <2>1, <2>2
  <2>3. CASE i >= passed /\ i \notin Delivered
    <3>1. i \in Sdu
      BY <1>1, <1>2, <2>1 DEF Sdu
    <3>2. ASSUME NEW o \in 0..(sdu_size[i] - 1) PROVE [sdu |-> i, so |-> o] \in rx_list
      <4>. DEFINE b == [sdu |-> i, so |-> o]
      <4>1. b \in Byte /\ b.sdu = i
        <5>1. sdu_size[i] \in Nat
          BY <1>1, <3>1, Sizes
        <5>2. o \in Nat /\ o < sdu_size[i]
          BY <5>1
        <5>. QED BY <1>1, <3>1, <5>2, ByteMade
      <4>. HIDE DEF b
      <4>2. \/ b \in rx_list \/ b.sdu \in Delivered \/ Unsent(b)
            \/ \E s \in Listed : b \in BytesOf(s)
        BY <1>0, <1>1, <2>1, <4>1 DEF NoByteLost
      <4>3. ~Unsent(b)
        BY <2>1, <4>1 DEF Unsent, Held
      <4>4. ASSUME NEW s \in Listed PROVE b \notin BytesOf(s)
        <5>1. s.sdu # i
          BY <2>1 DEF Held, Listed
        <5>2. \A c \in BytesOf(s) : c.sdu = s.sdu
          BY <1>1, BytesOfSegment
        <5>. QED BY <4>1, <5>1, <5>2
      <4>5. b \in rx_list
        BY <2>3, <4>1, <4>2, <4>3, <4>4
      <4>. QED BY <4>5 DEF b
    <3>3. Complete(rx_list, i)
      BY <3>2 DEF Complete
    <3>4. i \in passed..(sent - 1)
      BY <1>1, <1>2, <2>1, <2>3
    <3>. QED BY <1>4, <3>3, <3>4
  <2>. QED BY <1>2, <2>1, <2>2, <2>3
<1>7. passed \notin Delivered
  <2>1. passed \notin processed
    BY <1>0 DEF RxInv, ReceiverWindow, rx_next
  <2>. QED BY <1>2, <1>4, <2>1
<1>8. Base <= passed
  <2>1. SUFFICES ASSUME passed < Base PROVE FALSE
    BY <1>1, <1>2
  <2>2. passed \in 0..(sent - 1) /\ ~Held(passed)
    BY <1>1, <1>2, <1>5, <2>1
  <2>. QED BY <1>6, <1>7, <2>2 DEF Confirmed
<1>. QED BY <1>1, <1>2, <1>3, <1>4, <1>5, <1>6, <1>7, <1>8

(* The byte is in a segment the sender keeps.                              *)
Tracked(b) == \E s \in Listed : b \in BytesOf(s)

(* Segments may be cut and moved as long as each byte stays listed.        *)
LEMMA AlignedFrame ==
    ASSUME Aligned, UNCHANGED <<sdu_size, sent, tx_next_ack, rest>>,
           UNCHANGED <<passed, rx_next_highest, rx_highest_status, rx_next_status_trigger,
                       rx_list, processed, t_reassembly, log>>,
           status' \subseteq status,
           \A s \in Listed' : \E t \in Listed : s.sdu = t.sdu,
           \A b \in Byte : Tracked(b) => Tracked(b)'
    PROVE  Aligned'
<1>1. Base' = Base /\ Delivered' = Delivered /\ rx_next' = rx_next /\ Byte' = Byte
    BY SameSizes DEF Base, Delivered, rx_next
<1>2. SenderWindow'
    BY <1>1 DEF Aligned, SenderWindow
<1>3. InStep'
    BY <1>1 DEF Aligned, InStep, Ahead, Complete
<1>4. NoByteLost'
  <2>1. ASSUME NEW b \in Byte, b.sdu < sent
        PROVE  b \in rx_list \/ b.sdu \in Delivered \/ Unsent(b) \/ Tracked(b)'
    BY <2>1 DEF Aligned, NoByteLost, Tracked
  <2>2. \A b : Unsent(b) => (rest' # 0 /\ b.sdu = sent' - 1 /\ b.so >= rest')
    BY DEF Unsent
  <2>. QED BY <1>1, <2>1, <2>2 DEF NoByteLost, Tracked, Unsent
<1>5. StatusInOrder' /\ StatusTrue'
    BY <1>1 DEF Aligned, StatusInOrder, StatusTrue
<1>. QED BY <1>2, <1>3, <1>4, <1>5 DEF Aligned

(* The actions of the sender keep Aligned.                                 *)
LEMMA RecvSduAligned ==
    ASSUME Aligned, RecvSdu, sdu_size' = sdu_size
    PROVE  Aligned'
<1>1. /\ UNCHANGED <<sent, tx_next_ack, rest, status, wait_list, retransmit_list>>
      /\ UNCHANGED <<passed, rx_next_highest, rx_highest_status, rx_next_status_trigger,
                     rx_list, processed, t_reassembly, log>>
    BY DEF RecvSdu, rx
<1>2. Listed' = Listed
    BY <1>1 DEF Listed
<1>. QED BY <1>1, <1>2, AlignedFrame DEF Tracked

(* generate_retx_pdu keeps the bytes that are listed.                      *)
LEMMA RetxTracks ==
    ASSUME SenderInv, NEW room \in Grants, GenerateRetxPdu(room)
    PROVE  \A b : Tracked(b)' <=> Tracked(b)
<1>. DEFINE seg == HeadOf(retransmit_list)
            n == Smaller(room, seg.size)
<1>1. /\ retransmit_list # {}
      /\ retransmit_list' = (retransmit_list \ {seg}) \cup Remainder(seg, n)
      /\ wait_list' = wait_list \cup {First(seg, n)}
    BY DEF GenerateRetxPdu
<1>2. seg \in retransmit_list /\ seg \in Listed /\ seg \in Segment /\ sdu_size \in SduSizes
    BY <1>1, SenderFacts DEF Listed, SenderInv, TxType
<1>3. n \in 1..seg.size
  <2>1. seg.size \in Nat /\ seg.size >= 1
    BY <1>2, SegmentIs
  <2>2. room \in Nat /\ room >= 1
    BY ChoiceAssumption
  <2>. QED BY <2>1, <2>2, SmallerIs
<1>. HIDE DEF n, seg
<1>4. /\ BytesOf(First(seg, n)) \subseteq BytesOf(seg)
      /\ \A r \in Remainder(seg, n) : BytesOf(r) \subseteq BytesOf(seg)
      /\ \A b \in BytesOf(seg) : \/ b \in BytesOf(First(seg, n))
                                 \/ \E r \in Remainder(seg, n) : b \in BytesOf(r)
    BY <1>2, <1>3, SplitBytes
<1>5. Listed' = (Listed \ {seg}) \cup {First(seg, n)} \cup Remainder(seg, n)
  <2>1. seg \notin wait_list
    BY <1>2, SenderFacts DEF Apart
  <2>. QED BY <1>1, <1>2, <2>1 DEF Listed
<1>6. ASSUME NEW b, Tracked(b) PROVE Tracked(b)'
    BY <1>4, <1>5, <1>6 DEF Tracked
<1>7. ASSUME NEW b, Tracked(b)' PROVE Tracked(b)
  <2>1. PICK s \in Listed' : b \in BytesOf(s)
    BY <1>7 DEF Tracked
  <2>2. s \in Listed \/ BytesOf(s) \subseteq BytesOf(seg)
    BY <1>4, <1>5
  <2>. QED BY <1>2, <2>1, <2>2 DEF Tracked
<1>. QED BY <1>6, <1>7

(* generate_retx_pdu leaves every byte listed.                             *)
LEMMA GenerateRetxPduAligned ==
    ASSUME SenderInv, Aligned, NEW room \in Grants, GenerateRetxPdu(room), sdu_size' = sdu_size
    PROVE  Aligned'
<1>. DEFINE seg == HeadOf(retransmit_list)
            n == Smaller(room, seg.size)
<1>1. /\ retransmit_list # {}
      /\ retransmit_list' = (retransmit_list \ {seg}) \cup Remainder(seg, n)
      /\ wait_list' = wait_list \cup {First(seg, n)}
      /\ UNCHANGED <<status, sent, tx_next_ack, rest>>
      /\ UNCHANGED <<passed, rx_next_highest, rx_highest_status, rx_next_status_trigger,
                     rx_list, processed, t_reassembly, log>>
    BY DEF GenerateRetxPdu, rx
<1>2. seg \in retransmit_list /\ seg \in Listed /\ seg \in Segment /\ sdu_size \in SduSizes
    BY <1>1, SenderFacts DEF Listed, SenderInv, TxType
<1>3. n \in 1..seg.size
  <2>1. seg.size \in Nat /\ seg.size >= 1
    BY <1>2, SegmentIs
  <2>2. room \in Nat /\ room >= 1
    BY ChoiceAssumption
  <2>. QED BY <2>1, <2>2, SmallerIs
<1>. HIDE DEF n, seg
<1>4. First(seg, n).sdu = seg.sdu /\ \A r \in Remainder(seg, n) : r.sdu = seg.sdu
    BY <1>2, <1>3, SplitSegment
<1>5. \A s \in Listed' : \E t \in Listed : s.sdu = t.sdu
    BY <1>1, <1>2, <1>4 DEF Listed
<1>6. \A b \in Byte : Tracked(b) => Tracked(b)'
    BY RetxTracks
<1>. QED BY <1>1, <1>5, <1>6, AlignedFrame

(* So does check_t_poll_retransmit.                                        *)
LEMMA TPollRetransmitExpiresAligned ==
    ASSUME Aligned, TPollRetransmitExpires, sdu_size' = sdu_size
    PROVE  Aligned'
<1>. DEFINE due == PollIsDue(sent, queued > 0 \/ rest # 0, retransmit_list)
            again == IF due /\ wait_list # {}
                     THEN {s \in wait_list : Sn(s.sdu) = Sn(HeadOf(wait_list).sdu)} ELSE {}
<1>1. /\ wait_list' = wait_list \ again /\ retransmit_list' = retransmit_list \cup again
      /\ UNCHANGED <<status, sent, tx_next_ack, rest>>
      /\ UNCHANGED <<passed, rx_next_highest, rx_highest_status, rx_next_status_trigger,
                     rx_list, processed, t_reassembly, log>>
    BY DEF TPollRetransmitExpires, rx
<1>2. again \subseteq wait_list
    OBVIOUS
<1>. HIDE DEF again
<1>3. Listed' = Listed
    BY <1>1, <1>2 DEF Listed
<1>. QED BY <1>1, <1>3, AlignedFrame DEF Tracked

(* What generate_tx_pdu sends, and where.                                  *)
LEMMA TxSegmentAhead ==
    ASSUME Inv, Aligned, NEW room \in Grants, NEW early \in PollEarly, GenerateTxPdu(room, early)
    PROVE  /\ Base' = Base /\ Base <= TxSdu - 1 /\ TxSdu <= Base + WindowSize
           /\ rest = 0 => TxSdu = sent + 1
           /\ rest # 0 => TxSdu = sent
           /\ Listed' = Listed \cup {TxSegment(room)}
<1>0. SenderInv
    BY DEF Inv
<1>1. /\ ~Stalling(sent) /\ (queued > 0 \/ rest # 0)
      /\ sent' = TxSdu /\ wait_list' = wait_list \cup {TxSegment(room)}
      /\ UNCHANGED <<tx_next_ack, retransmit_list>>
    BY GenerateTxPduIs
<1>2. TxSdu \in Nat /\ TxSdu >= 1
    BY <1>0, <1>1, TxSegmentFacts
<1>3. /\ Base \in Int /\ Base <= sent /\ tx_next_ack = Sn(Base) /\ tx_next_ack \in SN
      /\ sent \in Nat
    BY <1>0, BaseFacts
<1>4. sent <= Base + WindowSize /\ (rest # 0 => Base < sent)
    BY DEF Aligned, SenderWindow
<1>5. WindowSize \in Nat /\ WindowSize >= 2 /\ SnModulus = 2 * WindowSize
    BY Modulus
<1>6. sent < Base + WindowSize
  <2>1. modulus_tx(Sn(sent)) = sent - Base
    BY <1>3, <1>4, <1>5, TxExact
  <2>. QED BY <1>1, <1>3, <1>5, <2>1 DEF Stalling
<1>7. /\ TxSdu <= Base + WindowSize /\ Base <= TxSdu - 1
      /\ rest = 0 => TxSdu = sent + 1
      /\ rest # 0 => TxSdu = sent
    BY <1>2, <1>3, <1>4, <1>5, <1>6 DEF TxSdu
<1>8. Base' = Base
  <2>1. BaseOf(Sn(Base), TxSdu) = Base
    BY <1>2, <1>3, <1>5, <1>7, BaseUnique
  <2>2. Base' = BaseOf(tx_next_ack', sent')
    BY DEF Base, BaseOf, modulus_rx, Sn
  <2>. QED BY <1>1, <1>3, <2>1, <2>2
<1>9. Listed' = Listed \cup {TxSegment(room)}
    BY <1>1 DEF Listed
<1>. QED BY <1>7, <1>8, <1>9

(* generate_tx_pdu sends an SDU only into the window (is_window_stalling). *)
LEMMA GenerateTxPduAligned ==
    ASSUME Inv, Aligned, NEW room \in Grants, NEW early \in PollEarly,
           GenerateTxPdu(room, early), sdu_size' = sdu_size
    PROVE  Aligned'
<1>. DEFINE seg == TxSegment(room)
<1>0. SenderInv /\ RxInv
    BY DEF Inv
<1>1. /\ ~Stalling(sent) /\ (queued > 0 \/ rest # 0)
      /\ sent' = TxSdu /\ rest' = TxLeft(room)
      /\ wait_list' = wait_list \cup {seg}
      /\ UNCHANGED <<status, tx_next_ack, retransmit_list>>
      /\ UNCHANGED <<passed, rx_next_highest, rx_highest_status, rx_next_status_trigger,
                     rx_list, processed, t_reassembly, log>>
    BY GenerateTxPduIs DEF rx
<1>2. /\ TxSdu \in Nat /\ TxSdu >= 1 /\ TxSdu - 1 \in Sdu /\ sent <= TxSdu
      /\ TxBytes(room) \in Nat /\ TxBytes(room) >= 1
      /\ rest \in Nat /\ rest + TxBytes(room) <= sdu_size[TxSdu - 1]
      /\ seg \in Segment
      /\ seg.sdu = TxSdu - 1 /\ seg.so = rest /\ seg.size = TxBytes(room)
      /\ TxLeft(room) \in Nat
      /\ TxLeft(room) # 0 => TxLeft(room) = rest + TxBytes(room)
      /\ TxLeft(room) = 0 => rest + TxBytes(room) = sdu_size[TxSdu - 1]
    BY <1>0, <1>1, TxSegmentFacts
<1>. HIDE DEF seg
<1>3. /\ Base \in Int /\ Base <= sent /\ tx_next_ack = Sn(Base) /\ tx_next_ack \in SN
      /\ sent \in Nat /\ sdu_size \in SduSizes /\ Listed \subseteq Segment
      /\ \A s \in Listed : s.sdu \in Nat /\ s.sdu < sent
      /\ rest \in Nat /\ (rest # 0 => sent > 0)
    BY <1>0, BaseFacts
<1>4. /\ Base >= 0 /\ sent <= Base + WindowSize
      /\ rest # 0 => Base < sent
      /\ \A s \in Listed : Base <= s.sdu
    BY DEF Aligned, SenderWindow
<1>5. WindowSize \in Nat /\ WindowSize >= 2 /\ SnModulus = 2 * WindowSize
    BY Modulus
<1>6. /\ Base' = Base /\ Listed' = Listed \cup {seg}
      /\ TxSdu <= Base + WindowSize /\ Base <= TxSdu - 1
      /\ rest = 0 => TxSdu = sent + 1
      /\ rest # 0 => TxSdu = sent
    BY TxSegmentAhead DEF seg
<1>7. SenderWindow'
    BY <1>1, <1>2, <1>3, <1>4, <1>6 DEF SenderWindow
<1>8. Delivered' = Delivered /\ rx_next' = rx_next /\ Byte' = Byte
    BY <1>1, SameSizes DEF Delivered, rx_next
<1>9. passed \in Nat /\ rx_list \subseteq Byte /\ processed \subseteq Sdu
       /\ rx_next_highest \in SN /\ rx_highest_status \in SN /\ rx_next_status_trigger \in SN
    BY <1>0 DEF RxInv, RxType
<1>10. InStep'
  <2>1. /\ passed <= sent
        /\ Ahead(rx_next_highest) <= sent - passed
        /\ Ahead(rx_highest_status) <= sent - passed
        /\ t_reassembly => Ahead(rx_next_status_trigger) <= sent - passed
        /\ \A b \in rx_list : passed <= b.sdu /\ b.sdu < sent
        /\ \A i \in processed : passed <= i /\ i < sent
        /\ Delivered = 0..(passed - 1) \cup processed
        /\ \A i \in passed..(sent - 1) : Complete(rx_list, i) => i \in processed
    BY DEF Aligned, InStep
  <2>2. /\ Ahead(rx_next_highest) \in Nat /\ Ahead(rx_highest_status) \in Nat
        /\ Ahead(rx_next_status_trigger) \in Nat
    BY <1>9, AheadType
  <2>3. /\ passed <= TxSdu
        /\ Ahead(rx_next_highest) <= TxSdu - passed
        /\ Ahead(rx_highest_status) <= TxSdu - passed
        /\ t_reassembly => Ahead(rx_next_status_trigger) <= TxSdu - passed
    BY <1>2, <1>3, <1>9, <2>1, <2>2
  <2>4. /\ \A b \in rx_list : passed <= b.sdu /\ b.sdu < TxSdu
        /\ \A i \in processed : passed <= i /\ i < TxSdu
    <3>1. \A b \in rx_list : b.sdu \in Nat
      BY <1>3, <1>9, ByteIs
    <3>2. \A i \in processed : i \in Nat
      BY <1>3, <1>9, Sizes
    <3>. QED BY <1>2, <1>3, <2>1, <3>1, <3>2
  <2>5. ASSUME NEW i \in passed..(TxSdu - 1), Complete(rx_list, i) PROVE i \in processed
    <3>1. CASE i < sent
      <4>1. i \in passed..(sent - 1)
        BY <1>3, <1>9, <3>1
      <4>. QED BY <2>1, <2>5, <4>1
    <3>2. CASE i >= sent
      <4>1. i = TxSdu - 1
        BY <1>2, <1>3, <1>6, <1>9, <3>2
      <4>2. sdu_size[i] \in Nat /\ sdu_size[i] >= 1
        BY <1>2, <1>3, <4>1, Sizes
      <4>3. [sdu |-> i, so |-> 0] \in rx_list
        BY <2>5, <4>2 DEF Complete
      <4>4. i < sent
        BY <2>1, <4>3
      <4>. QED BY <1>3, <1>9, <3>2, <4>4
    <3>. QED BY <1>3, <1>9, <3>1, <3>2
  <2>. QED BY <1>1, <1>8, <2>1, <2>3, <2>4, <2>5 DEF InStep, Ahead, Complete
<1>11. ASSUME NEW b \in Byte, b.sdu < TxSdu
       PROVE  \/ b \in rx_list \/ b.sdu \in Delivered
              \/ TxLeft(room) # 0 /\ b.sdu = TxSdu - 1 /\ b.so >= TxLeft(room)
              \/ \E s \in Listed \cup {seg} : b \in BytesOf(s)
  <2>1. b.sdu \in Nat /\ b.so \in Nat /\ b.so < sdu_size[b.sdu]
    BY <1>3, ByteIs
  <2>2. ASSUME b.sdu = TxSdu - 1, b.so >= rest
        PROVE  \/ TxLeft(room) # 0 /\ b.so >= TxLeft(room)
               \/ b \in BytesOf(seg)
    <3>1. CASE b.so < rest + TxBytes(room)
      BY <1>2, <1>3, <2>2, <3>1, BytesOfSegment
    <3>2. CASE ~(b.so < rest + TxBytes(room))
      <4>1. sdu_size[TxSdu - 1] \in Nat
        BY <1>2, <1>3, Sizes
      <4>2. TxLeft(room) # 0
        BY <1>2, <2>1, <2>2, <3>2, <4>1
      <4>. QED BY <1>2, <2>1, <3>2, <4>2
    <3>. QED BY <3>1, <3>2
  <2>3. CASE b.sdu < sent
    <3>1. b \in rx_list \/ b.sdu \in Delivered \/ Unsent(b) \/ \E s \in Listed : b \in BytesOf(s)
      BY <2>3 DEF Aligned, NoByteLost
    <3>2. Unsent(b) => b.sdu = TxSdu - 1 /\ b.so >= rest
      BY <1>6 DEF Unsent
    <3>. QED BY <2>2, <3>1, <3>2
  <2>4. CASE ~(b.sdu < sent)
    <3>1. rest = 0 /\ b.sdu = TxSdu - 1
      BY <1>2, <1>3, <1>6, <1>11, <2>1, <2>4
    <3>. QED BY <2>1, <2>2, <3>1
  <2>. QED BY <2>3, <2>4
<1>12. NoByteLost'
    BY <1>1, <1>6, <1>8, <1>11 DEF NoByteLost, Unsent
<1>13. StatusInOrder' /\ StatusTrue'
  <2>1. \A st \in status : st.ack \in Nat
    BY <1>0 DEF SenderInv, LinkType
  <2>2. StatusInOrder'
    BY <1>1, <1>2, <1>3, <2>1 DEF Aligned, StatusInOrder
  <2>3. StatusTrue'
    BY <1>1, <1>8 DEF Aligned, StatusTrue
  <2>. QED BY <2>2, <2>3
<1>. QED BY <1>7, <1>10, <1>12, <1>13 DEF Aligned

(* A number that is in time lies at most a window below tx_next; if its SN *)
(* is valid, it lies in the window of the sender.                          *)
LEMMA InTimeFacts ==
    ASSUME Inv, Aligned, NEW i \in Nat, i <= sent, InTime(i)
    PROVE  /\ sent <= i + WindowSize
           /\ modulus_tx(Sn(i)) <= modulus_tx(tx_next) => Base <= i
           /\ Base <= i => modulus_tx(Sn(i)) = i - Base
<1>1. /\ Base \in Int /\ Base <= sent /\ tx_next_ack \in SN /\ sent \in Nat
    BY BaseFacts DEF Inv
<1>2. sent <= Base + WindowSize
    BY DEF Aligned, SenderWindow
<1>3. WindowSize \in Nat /\ WindowSize >= 2 /\ SnModulus = 2 * WindowSize
    BY Modulus
<1>4. sent <= i + WindowSize
  <2>1. CASE Held(i)
    BY <1>1, <1>2, <1>3, <2>1, AlignedFacts
  <2>. QED BY <2>1 DEF InTime
<1>5. modulus_tx(tx_next) = sent - Base
    BY <1>1, <1>2, <1>3, TxExact DEF tx_next
<1>6. Base <= i => modulus_tx(Sn(i)) = i - Base
    BY <1>1, <1>2, <1>3, TxExact
<1>7. i < Base => modulus_tx(Sn(i)) = i - Base + SnModulus
    BY <1>1, <1>3, <1>4, TxExact
<1>. QED BY <1>1, <1>2, <1>3, <1>4, <1>5, <1>6, <1>7

(* What a valid STATUS PDU says is taken to be about the SDUs it is about. *)
LEMMA StatusExact ==
    ASSUME Inv, Aligned, NEW st \in status, RecvStatus(st), Valid(st)
    PROVE  /\ st.ack \in Nat /\ Base <= st.ack /\ st.ack <= sent
           /\ modulus_tx(Sn(st.ack)) = st.ack - Base
           /\ \A b \in st.nacks : b \in Byte /\ Base <= b.sdu /\ b.sdu < st.ack
           /\ \A s \in Listed : /\ modulus_tx(Sn(s.sdu)) = s.sdu - Base
                                /\ Nacked(s, st) <=> BytesOf(s) \cap st.nacks # {}
                                /\ Acked(s, st) <=> BytesOf(s) \cap st.nacks = {} /\ s.sdu < st.ack
<1>1. /\ Base \in Int /\ Base <= sent /\ tx_next_ack \in SN /\ sent \in Nat
      /\ sdu_size \in SduSizes /\ Listed \subseteq Segment
      /\ \A s \in Listed : s.sdu \in Nat /\ s.sdu < sent
    BY BaseFacts DEF Inv
<1>2. sent <= Base + WindowSize /\ \A s \in Listed : Base <= s.sdu
    BY DEF Aligned, SenderWindow
<1>3. WindowSize \in Nat /\ WindowSize >= 2 /\ SnModulus = 2 * WindowSize
    BY Modulus
<1>4. st \in [ack : Nat, nacks : SUBSET Byte]
    BY DEF Inv, SenderInv, LinkType
<1>5. /\ st.ack \in Nat /\ st.nacks \subseteq Byte /\ st.ack <= sent
      /\ \A b \in st.nacks : b.sdu < st.ack /\ b.sdu \in Nat
    BY <1>1, <1>4, ByteIs DEF Aligned, StatusInOrder
<1>6. InTime(st.ack) /\ \A b \in st.nacks : InTime(b.sdu)
    BY RecvStatusIs
<1>7. Base <= st.ack /\ modulus_tx(Sn(st.ack)) = st.ack - Base
  <2>1. modulus_tx(Sn(st.ack)) <= modulus_tx(tx_next)
    BY DEF Valid
  <2>. QED BY <1>5, <1>6, <2>1, InTimeFacts
<1>8. modulus_tx(tx_next) = sent - Base
    BY <1>1, <1>2, <1>3, TxExact DEF tx_next
<1>9. ASSUME NEW b \in st.nacks PROVE Base <= b.sdu
  <2>1. modulus_tx(Sn(b.sdu)) <= modulus_tx(Sn(st.ack))
    BY DEF Valid
  <2>2. Sn(b.sdu) \in SN
    BY <1>5, SnType
  <2>3. modulus_tx(Sn(b.sdu)) \in Nat
    BY <1>1, <2>2, TxDistance
  <2>4. modulus_tx(Sn(b.sdu)) <= modulus_tx(tx_next)
    BY <1>1, <1>5, <1>7, <1>8, <2>1, <2>3
  <2>5. b.sdu \in Nat /\ b.sdu <= sent
    BY <1>1, <1>5
  <2>. QED BY <1>6, <2>4, <2>5, InTimeFacts
<1>10. ASSUME NEW s \in Listed
       PROVE  /\ modulus_tx(Sn(s.sdu)) = s.sdu - Base
              /\ Nacked(s, st) <=> BytesOf(s) \cap st.nacks # {}
              /\ Acked(s, st) <=> BytesOf(s) \cap st.nacks = {} /\ s.sdu < st.ack
  <2>1. modulus_tx(Sn(s.sdu)) = s.sdu - Base
    BY <1>1, <1>2, <1>3, TxExact
  <2>2. ASSUME NEW b \in BytesOf(s), NEW c \in st.nacks, Sn(b.sdu) = Sn(c.sdu), b.so = c.so
        PROVE  b = c
    <3>1. b \in Byte /\ b.sdu = s.sdu
      BY <1>1, BytesOfSegment
    <3>2. b = [sdu |-> b.sdu, so |-> b.so] /\ c = [sdu |-> c.sdu, so |-> c.so]
      BY <1>1, <1>5, <3>1, ByteIs
    <3>3. b.sdu = c.sdu
      <4>1. b.sdu \in Int /\ c.sdu \in Int /\ Base <= b.sdu /\ b.sdu < sent /\ Base <= c.sdu
            /\ c.sdu < sent
        BY <1>1, <1>2, <1>5, <1>9, <3>1
      <4>2. b.sdu < c.sdu + SnModulus /\ c.sdu < b.sdu + SnModulus
        BY <1>1, <1>2, <1>3, <4>1
      <4>. QED BY <2>2, <4>1, <4>2, SnSame
    <3>. QED BY <2>2, <3>2, <3>3
  <2>3. Nacked(s, st) <=> BytesOf(s) \cap st.nacks # {}
    BY <2>2 DEF Nacked
  <2>4. AckedBySn(s, st) <=> s.sdu < st.ack
    BY <1>1, <1>5, <1>7, <2>1 DEF AckedBySn
  <2>. QED BY <2>1, <2>3, <2>4 DEF Acked
<1>. QED BY <1>5, <1>7, <1>9, <1>10

(* Where tx_next_ack goes: to the ACK, or to the first SDU that is listed. *)
LEMMA NextBase ==
    ASSUME Inv, Aligned, NEW st \in status, RecvStatus(st), Valid(st)
    PROVE  /\ Base' \in Nat /\ Base <= Base' /\ Base' <= sent /\ tx_next_ack' = Sn(Base')
           /\ Base' <= st.ack /\ \A s \in Listed' : Base' <= s.sdu
           /\ Base' = sent \/ Base' = st.ack \/ \E s \in Listed' : Base' = s.sdu
<1>. DEFINE wait == StatusWait(st)
            retx == StatusRetx(st)
            n == NextAck(wait, retx, Sn(st.ack))
<1>0. SenderInv
    BY DEF Inv
<1>1. /\ Base \in Int /\ Base <= sent /\ tx_next_ack \in SN /\ sent \in Nat
      /\ \A s \in Listed : s.sdu \in Nat /\ s.sdu < sent
    BY <1>0, BaseFacts
<1>2. /\ Base >= 0 /\ sent <= Base + WindowSize
      /\ \A s \in Listed : Base <= s.sdu
    BY DEF Aligned, SenderWindow
<1>3. WindowSize \in Nat /\ WindowSize >= 2 /\ SnModulus = 2 * WindowSize
    BY Modulus
<1>4. /\ st.ack \in Nat /\ Base <= st.ack /\ st.ack <= sent
      /\ modulus_tx(Sn(st.ack)) = st.ack - Base
      /\ \A s \in Listed : modulus_tx(Sn(s.sdu)) = s.sdu - Base
    BY StatusExact
<1>5. /\ wait_list' = wait /\ retransmit_list' = retx /\ tx_next_ack' = n /\ sent' = sent
    BY RecvStatusIs
<1>6. wait \cup retx \subseteq Listed
    BY <1>0, SenderFacts, StatusLists
<1>7. Listed' = wait \cup retx
    BY <1>5 DEF Listed
<1>. HIDE DEF wait, retx
<1>8. modulus_tx(tx_next) = sent - Base
    BY <1>1, <1>2, <1>3, TxExact DEF tx_next
<1>9. /\ n \in {tx_next, Sn(st.ack)} \/ \E s \in wait \cup retx : n = Sn(s.sdu)
      /\ \A m \in {tx_next, Sn(st.ack)} : modulus_tx(n) <= modulus_tx(m)
      /\ \A s \in wait \cup retx : modulus_tx(n) <= modulus_tx(Sn(s.sdu))
  <2>1. tx_next \in SN /\ Sn(st.ack) \in SN
    BY <1>1, <1>4, SnType DEF tx_next
  <2>2. \A s \in wait \cup retx : Sn(s.sdu) \in SN
    BY <1>1, <1>6, SnType
  <2>. QED BY <1>1, <2>1, <2>2, NextAckIsLeast
<1>. HIDE DEF n
<1>10. PICK b2 \in Nat : /\ n = Sn(b2) /\ Base <= b2 /\ b2 <= sent
                         /\ modulus_tx(n) = b2 - Base
                         /\ b2 = sent \/ b2 = st.ack \/ \E s \in wait \cup retx : b2 = s.sdu
  <2>1. CASE n = tx_next
    BY <1>1, <1>8, <2>1 DEF tx_next
  <2>2. CASE n = Sn(st.ack)
    BY <1>4, <2>2
  <2>3. CASE \E s \in wait \cup retx : n = Sn(s.sdu)
    <3>1. PICK s \in wait \cup retx : n = Sn(s.sdu)
      BY <2>3
    <3>2. s \in Listed /\ s.sdu \in Nat /\ s.sdu < sent /\ Base <= s.sdu
      BY <1>1, <1>2, <1>6
    <3>. QED BY <1>1, <1>4, <3>1, <3>2
  <2>. QED BY <1>9, <2>1, <2>2, <2>3
<1>11. Base' = b2
  <2>1. BaseOf(Sn(b2), sent) = b2
    BY <1>1, <1>2, <1>3, <1>10, BaseUnique
  <2>2. Base' = BaseOf(tx_next_ack', sent')
    BY DEF Base, BaseOf, modulus_rx, Sn
  <2>. QED BY <1>5, <1>10, <2>1, <2>2
<1>12. ASSUME NEW s \in wait \cup retx PROVE b2 <= s.sdu
  <2>1. modulus_tx(n) <= modulus_tx(Sn(s.sdu)) /\ s \in Listed
    BY <1>6, <1>9
  <2>. QED BY <1>1, <1>4, <1>10, <2>1
<1>13. b2 <= st.ack
    BY <1>1, <1>4, <1>9, <1>10
<1>. QED BY <1>5, <1>7, <1>10, <1>11, <1>12, <1>13

(* process_control_pdu frees only what the receiver has, and tx_next_ack   *)
(* moves on to a number in the window, unless it passes an SDU in tx_list. *)
LEMMA RecvStatusAligned ==
    ASSUME Inv, Aligned, NEW st \in status, RecvStatus(st), Valid(st), ~overtaken',
           sdu_size' = sdu_size
    PROVE  Aligned' /\ Base <= Base'
<1>. DEFINE wait == StatusWait(st)
            retx == StatusRetx(st)
            n == NextAck(wait, retx, Sn(st.ack))
<1>0. SenderInv
    BY DEF Inv
<1>1. /\ Base \in Int /\ Base <= sent /\ tx_next_ack \in SN /\ sent \in Nat
      /\ sdu_size \in SduSizes /\ Listed \subseteq Segment
      /\ \A s \in Listed : s.sdu \in Nat /\ s.sdu < sent
    BY <1>0, BaseFacts
<1>2. /\ Base >= 0 /\ sent <= Base + WindowSize
      /\ \A s \in Listed : Base <= s.sdu
    BY DEF Aligned, SenderWindow
<1>3. WindowSize \in Nat /\ WindowSize >= 2 /\ SnModulus = 2 * WindowSize
    BY Modulus
<1>4. /\ st.ack \in Nat /\ Base <= st.ack /\ st.ack <= sent
      /\ modulus_tx(Sn(st.ack)) = st.ack - Base
      /\ \A s \in Listed : /\ modulus_tx(Sn(s.sdu)) = s.sdu - Base
                           /\ Nacked(s, st) <=> BytesOf(s) \cap st.nacks # {}
                           /\ Acked(s, st) <=> BytesOf(s) \cap st.nacks = {} /\ s.sdu < st.ack
    BY StatusExact
<1>5. /\ status' \subseteq status /\ wait_list' = wait /\ retransmit_list' = retx
      /\ tx_next_ack' = n
      /\ overtaken' = (overtaken \/ (rest # 0 /\ tx_next_ack' = tx_next))
      /\ UNCHANGED <<sent, rest>>
      /\ UNCHANGED <<passed, rx_next_highest, rx_highest_status, rx_next_status_trigger,
                     rx_list, processed, t_reassembly, log>>
    BY RecvStatusIs DEF rx
<1>6. wait \cup retx \subseteq Listed
    BY <1>0, SenderFacts, StatusLists
<1>7. \A s \in Listed : s \notin wait \cup retx => Acked(s, st)
    BY DEF Listed, StatusWait, StatusRetx, StaysInWaitList
<1>. HIDE DEF wait, retx
<1>8. modulus_tx(tx_next) = sent - Base
    BY <1>1, <1>2, <1>3, TxExact DEF tx_next
<1>9. /\ n \in {tx_next, Sn(st.ack)} \/ \E s \in wait \cup retx : n = Sn(s.sdu)
      /\ \A m \in {tx_next, Sn(st.ack)} : modulus_tx(n) <= modulus_tx(m)
      /\ \A s \in wait \cup retx : modulus_tx(n) <= modulus_tx(Sn(s.sdu))
  <2>1. tx_next \in SN /\ Sn(st.ack) \in SN
    BY <1>1, <1>4, SnType DEF tx_next
  <2>2. \A s \in wait \cup retx : Sn(s.sdu) \in SN
    BY <1>1, <1>6, SnType
  <2>. QED BY <1>1, <2>1, <2>2, NextAckIsLeast
<1>. HIDE DEF n
<1>10. PICK b2 \in Nat : /\ n = Sn(b2) /\ Base <= b2 /\ b2 <= sent
                         /\ modulus_tx(n) = b2 - Base
  <2>1. CASE n = tx_next
    BY <1>1, <1>8, <2>1 DEF tx_next
  <2>2. CASE n = Sn(st.ack)
    BY <1>4, <2>2
  <2>3. CASE \E s \in wait \cup retx : n = Sn(s.sdu)
    <3>1. PICK s \in wait \cup retx : n = Sn(s.sdu)
      BY <2>3
    <3>2. s \in Listed /\ s.sdu \in Nat /\ s.sdu < sent /\ Base <= s.sdu
      BY <1>1, <1>2, <1>6
    <3>. QED BY <1>1, <1>4, <3>1, <3>2
  <2>. QED BY <1>9, <2>1, <2>2, <2>3
<1>11. Base' = b2
  <2>1. BaseOf(Sn(b2), sent) = b2
    BY <1>1, <1>2, <1>3, <1>10, BaseUnique
  <2>2. Base' = BaseOf(tx_next_ack', sent')
    BY DEF Base, BaseOf, modulus_rx, Sn
  <2>. QED BY <1>5, <1>10, <2>1, <2>2
<1>12. Listed' = wait \cup retx
    BY <1>5 DEF Listed
<1>13. SenderWindow'
  <2>1. sent <= b2 + WindowSize
    BY <1>1, <1>2, <1>3, <1>10
  <2>2. rest # 0 => b2 < sent
    <3>1. rest # 0 => n # Sn(sent)
      BY <1>5 DEF tx_next
    <3>. QED BY <1>1, <1>10, <3>1
  <2>3. ASSUME NEW s \in wait \cup retx PROVE b2 <= s.sdu
    <3>1. modulus_tx(n) <= modulus_tx(Sn(s.sdu)) /\ s \in Listed
      BY <1>6, <1>9
    <3>. QED BY <1>1, <1>4, <1>10, <3>1
  <2>. QED BY <1>5, <1>10, <1>11, <1>12, <2>1, <2>2, <2>3 DEF SenderWindow
<1>14. Delivered' = Delivered /\ rx_next' = rx_next /\ Byte' = Byte
    BY <1>5, SameSizes DEF Delivered, rx_next
<1>15. InStep'
    BY <1>5, <1>14 DEF Aligned, InStep, Ahead, Complete
<1>16. ASSUME NEW b \in Byte, b.sdu < sent
       PROVE  \/ b \in rx_list \/ b.sdu \in Delivered \/ Unsent(b)
              \/ \E s \in wait \cup retx : b \in BytesOf(s)
  <2>1. b \in rx_list \/ b.sdu \in Delivered \/ Unsent(b) \/ \E s \in Listed : b \in BytesOf(s)
    BY <1>16 DEF Aligned, NoByteLost
  <2>2. ASSUME NEW s \in Listed, b \in BytesOf(s), s \notin wait \cup retx
        PROVE  b \in rx_list \/ b.sdu \in Delivered
    <3>1. BytesOf(s) \cap st.nacks = {} /\ s.sdu < st.ack
      BY <1>4, <1>7, <2>2
    <3>2. b.sdu = s.sdu
      BY <1>1, <2>2, BytesOfSegment
    <3>3. b.sdu < st.ack /\ b \notin st.nacks
      BY <2>2, <3>1, <3>2
    <3>. QED BY <3>3 DEF Aligned, StatusTrue
  <2>. QED BY <2>1, <2>2
<1>17. NoByteLost'
    BY <1>5, <1>12, <1>14, <1>16 DEF NoByteLost, Unsent
<1>18. StatusInOrder' /\ StatusTrue'
    BY <1>5, <1>14 DEF Aligned, StatusInOrder, StatusTrue
<1>. QED BY <1>10, <1>11, <1>13, <1>15, <1>17, <1>18 DEF Aligned

(* A byte the receiver has or had.                                         *)
Got(b) == b \in rx_list \/ b.sdu \in Delivered

(* The receiver may take more bytes, and never gives one back.             *)
LEMMA AlignedIfMoreGot ==
    ASSUME Aligned, UNCHANGED <<sdu_size, tx>>, InStep', \A b \in Byte : Got(b) => Got(b)',
           status' \subseteq status
    PROVE  Aligned'
<1>1. Base' = Base /\ Byte' = Byte /\ Listed' = Listed
    BY SameSizes DEF Base, Listed, tx
<1>2. SenderWindow'
    BY <1>1 DEF Aligned, SenderWindow, tx
<1>3. NoByteLost'
  <2>1. UNCHANGED <<sent, rest>>
    BY DEF tx
  <2>2. \A b \in Byte : Unsent(b)' = Unsent(b)
    BY <2>1 DEF Unsent
  <2>. QED BY <1>1, <2>1, <2>2 DEF Aligned, NoByteLost, Got
<1>4. StatusInOrder'
    BY DEF Aligned, StatusInOrder, tx
<1>5. StatusTrue'
  <2>1. ASSUME NEW st \in status', NEW b \in Byte, b.sdu < st.ack
        PROVE  b \in rx_list' \cup st.nacks \/ b.sdu \in Delivered'
    <3>1. b \in rx_list \cup st.nacks \/ b.sdu \in Delivered
      BY <2>1 DEF Aligned, StatusTrue
    <3>. QED BY <3>1 DEF Got
  <2>. QED BY <1>1, <2>1 DEF StatusTrue
<1>. QED BY <1>2, <1>3, <1>4, <1>5 DEF Aligned

(* In the window of the receiver, numbers with the same SN are the same.   *)
LEMMA InWindowSame ==
    ASSUME passed \in Nat, NEW i \in Int, NEW j \in Int, passed <= i, passed <= j,
           i <= passed + WindowSize, j <= passed + WindowSize
    PROVE  /\ Ahead(Sn(i)) = i - passed
           /\ Sn(i) = Sn(j) <=> i = j
<1>1. WindowSize \in Nat /\ WindowSize >= 2 /\ SnModulus = 2 * WindowSize
    BY Modulus
<1>2. Ahead(Sn(i)) = i - passed
  <2>1. passed \in Int
    OBVIOUS
  <2>. QED BY <1>1, <2>1, SnDistance DEF Ahead, rx_next
<1>3. Sn(i) = Sn(j) => i = j
    BY <1>1, SnSame
<1>. QED BY <1>2, <1>3

(* A data PDU that is in time and passes sn_in_recv_window is of an SDU    *)
(* in the window, and never of an older one with the same SN.              *)
LEMMA PduInWindow ==
    ASSUME Inv, Aligned, NEW i \in Nat, i < sent, InTime(i), InRecvWindow(Sn(i))
    PROVE  passed <= i
<1>1. /\ passed \in Nat /\ passed <= sent /\ sent <= passed + WindowSize
    BY AlignedFacts
<1>2. sent <= i + WindowSize
  <2>1. sent \in Nat
    BY BaseFacts DEF Inv
  <2>. QED BY <2>1, InTimeFacts
<1>3. WindowSize \in Nat /\ WindowSize >= 2 /\ SnModulus = 2 * WindowSize
    BY Modulus
<1>4. SUFFICES ASSUME i < passed PROVE FALSE
    BY <1>1
<1>5. modulus_rx(Sn(passed), Sn(i)) = i - passed + SnModulus
  <2>1. passed \in Int /\ i \in Int /\ sent \in Int
    BY <1>1, BaseFacts DEF Inv
  <2>2. passed <= i + SnModulus
    BY <1>1, <1>2, <1>3, <2>1
  <2>. QED BY <1>4, <2>1, <2>2, SnDistance
<1>6. i - passed + SnModulus >= WindowSize
  <2>1. sent \in Nat
    BY BaseFacts DEF Inv
  <2>. QED BY <1>1, <1>2, <1>3, <2>1
<1>. QED BY <1>1, <1>3, <1>5, <1>6 DEF InRecvWindow, rx_next

(* sdu_full looks at the bytes with the SN of the SDU.                     *)
LEMMA FullIsComplete ==
    ASSUME sdu_size \in SduSizes, NEW bytes, bytes \subseteq Byte, NEW i \in Sdu,
           \A b \in bytes : Sn(b.sdu) = Sn(i) <=> b.sdu = i
    PROVE  Full(bytes, Sn(i)) <=> Complete(bytes, i)
<1>1. sdu_size[i] \in Nat /\ sdu_size[i] >= 1
    BY Sizes
<1>2. \A b \in bytes : b.so \in Nat /\ b = [sdu |-> b.sdu, so |-> b.so]
    BY ByteIs
<1>3. \A o : o \in Offsets(bytes, Sn(i)) <=> [sdu |-> i, so |-> o] \in bytes
  <2>1. ASSUME NEW o \in Offsets(bytes, Sn(i)) PROVE [sdu |-> i, so |-> o] \in bytes
    <3>1. PICK c \in bytes : Sn(c.sdu) = Sn(i) /\ c.so = o
      BY DEF Offsets
    <3>2. c.sdu = i /\ c = [sdu |-> c.sdu, so |-> c.so]
      BY <1>2, <3>1
    <3>3. c = [sdu |-> i, so |-> o]
      BY <3>1, <3>2
    <3>. QED BY <3>3
  <2>2. ASSUME NEW o, [sdu |-> i, so |-> o] \in bytes PROVE o \in Offsets(bytes, Sn(i))
    <3>. DEFINE c == [sdu |-> i, so |-> o]
    <3>1. c \in bytes /\ c.sdu = i /\ c.so = o
      BY <2>2
    <3>. HIDE DEF c
    <3>2. Sn(c.sdu) = Sn(i)
      BY <3>1
    <3>. QED BY <3>1, <3>2 DEF Offsets
  <2>. QED BY <2>1, <2>2
<1>4. ASSUME Full(bytes, Sn(i)) PROVE Complete(bytes, i)
  <2>1. PICK b \in bytes : /\ Sn(b.sdu) = Sn(i) /\ b.so = sdu_size[b.sdu] - 1
                           /\ 0..b.so \subseteq Offsets(bytes, Sn(i))
    BY <1>4 DEF Full
  <2>2. b.sdu = i
    BY <2>1
  <2>3. 0..(sdu_size[i] - 1) \subseteq Offsets(bytes, Sn(i))
    BY <2>1, <2>2
  <2>. QED BY <1>3, <2>3 DEF Complete
<1>5. ASSUME Complete(bytes, i) PROVE Full(bytes, Sn(i))
  <2>. DEFINE b == [sdu |-> i, so |-> sdu_size[i] - 1]
  <2>1. b \in bytes
    BY <1>1, <1>5 DEF Complete
  <2>2. b.sdu = i /\ b.so = sdu_size[i] - 1
    OBVIOUS
  <2>3. 0..(sdu_size[i] - 1) \subseteq Offsets(bytes, Sn(i))
    BY <1>3, <1>5 DEF Complete
  <2>. HIDE DEF b
  <2>4. Sn(b.sdu) = Sn(i) /\ b.so = sdu_size[b.sdu] - 1 /\ 0..b.so \subseteq Offsets(bytes, Sn(i))
    BY <2>2, <2>3
  <2>. QED BY <2>1, <2>4 DEF Full
<1>. QED BY <1>4, <1>5

(* log grows by one delivery.                                              *)
LEMMA DeliveredGrows ==
    ASSUME NEW sdus, log \in Seq(SUBSET Sdu), log' = Append(log, sdus)
    PROVE  Delivered' = Delivered \cup sdus
<1>1. PICK n \in Nat : n = Len(log) /\ DOMAIN log = 1..n
    OBVIOUS
<1>2. DOMAIN log' = 1..(n + 1) /\ log'[n + 1] = sdus /\ \A k \in 1..n : log'[k] = log[k]
    BY <1>1
<1>3. ASSUME NEW x \in Delivered PROVE x \in Delivered'
  <2>1. PICK k \in 1..n : x \in log[k]
    BY <1>1 DEF Delivered
  <2>2. k \in DOMAIN log' /\ x \in log'[k]
    BY <1>2, <2>1
  <2>. QED BY <2>2 DEF Delivered
<1>4. ASSUME NEW x \in sdus PROVE x \in Delivered'
  <2>1. n + 1 \in DOMAIN log' /\ x \in log'[n + 1]
    BY <1>2
  <2>. QED BY <2>1 DEF Delivered
<1>5. ASSUME NEW x \in Delivered' PROVE x \in Delivered \cup sdus
  <2>1. PICK k \in DOMAIN log' : x \in log'[k]
    BY DEF Delivered
  <2>2. CASE k = n + 1
    BY <1>2, <2>1, <2>2
  <2>3. CASE k \in 1..n
    <3>1. k \in DOMAIN log /\ x \in log[k]
      BY <1>1, <1>2, <2>1, <2>3
    <3>. QED BY <3>1 DEF Delivered
  <2>4. k = n + 1 \/ k \in 1..n
    BY <1>2, <2>1
  <2>. QED BY <2>2, <2>3, <2>4
<1>. QED BY <1>3, <1>4, <1>5

(* What reception_actions does with a segment of SDU i, in numbers.        *)
LEMMA ReceiveExact ==
    ASSUME Inv, Aligned, NEW seg \in Segment, seg.sdu < sent, passed <= seg.sdu,
           InRecvWindow(Sn(seg.sdu)), Receive(seg)
    PROVE  /\ \A b \in RxBytes(seg) : passed <= b.sdu /\ b.sdu < sent
           /\ RxFull(seg) <=> seg.sdu \notin processed /\ Complete(RxBytes(seg), seg.sdu)
           /\ log' = IF RxFull(seg) THEN Append(log, {seg.sdu}) ELSE log
           /\ Delivered' = 0..(passed - 1) \cup RxDone(seg)
           /\ \A j \in RxDone(seg) : j \in Nat /\ passed <= j /\ j < sent
           /\ passed' \in Nat /\ passed <= passed' /\ passed' <= sent
           /\ \A j \in passed..(passed' - 1) : j \in RxDone(seg)
           /\ \A j \in Nat : passed <= j /\ j < sent => (RxFreed(seg, j) <=> j < passed')
           /\ Ahead(RxStatus(seg)) <= sent - passed
<1>. DEFINE i == seg.sdu
            bytes == RxBytes(seg)
            done == RxDone(seg)
            d == Ahead(RxNext(seg))
<1>0. SenderInv /\ RxInv
    BY DEF Inv
<1>1. /\ passed \in Nat /\ passed <= sent /\ sent <= passed + WindowSize
      /\ sent \in Nat /\ sdu_size \in SduSizes /\ rx_list \subseteq Byte /\ processed \subseteq Sdu
      /\ log \in Seq(SUBSET Sdu)
    BY <1>0, AlignedFacts, BaseFacts DEF RxInv, RxType
<1>2. WindowSize \in Nat /\ WindowSize >= 2 /\ SnModulus = 2 * WindowSize
    BY Modulus
<1>3. i \in Sdu /\ i \in Nat /\ BytesOf(seg) \subseteq Byte /\ \A b \in BytesOf(seg) : b.sdu = i
    BY <1>1, SegmentIs, BytesOfSegment
<1>4. /\ \A b \in rx_list : passed <= b.sdu /\ b.sdu < sent
      /\ \A j \in processed : passed <= j /\ j < sent
      /\ Delivered = 0..(passed - 1) \cup processed
      /\ Ahead(rx_next_highest) <= sent - passed
      /\ Ahead(rx_highest_status) <= sent - passed
    BY DEF Aligned, InStep
<1>5. bytes \subseteq Byte /\ \A b \in bytes : b.sdu \in Nat /\ passed <= b.sdu /\ b.sdu < sent
  <2>1. bytes \subseteq Byte
    BY <1>1, <1>3 DEF RxBytes
  <2>2. \A b \in bytes : b.sdu \in Nat
    BY <1>1, <2>1, ByteIs
  <2>. QED BY <1>3, <1>4, <2>1, <2>2 DEF RxBytes
<1>6. \A j \in Nat, k \in Nat : /\ passed <= j /\ j <= sent /\ passed <= k /\ k <= sent
                                => (Ahead(Sn(j)) = j - passed) /\ (Sn(j) = Sn(k) <=> j = k)
  <2>1. ASSUME NEW j \in Nat, NEW k \in Nat, passed <= j, j <= sent, passed <= k, k <= sent
        PROVE  (Ahead(Sn(j)) = j - passed) /\ (Sn(j) = Sn(k) <=> j = k)
    <3>1. j \in Int /\ k \in Int /\ j <= passed + WindowSize /\ k <= passed + WindowSize
      BY <1>1, <1>2, <2>1
    <3>. QED BY <1>1, <2>1, <3>1, InWindowSame
  <2>. QED BY <2>1
<1>7. \A b \in bytes : Sn(b.sdu) = Sn(i) <=> b.sdu = i
    BY <1>1, <1>3, <1>5, <1>6
<1>8. Full(bytes, Sn(i)) <=> Complete(bytes, i)
    BY <1>1, <1>3, <1>5, <1>7, FullIsComplete
<1>9. (\A j \in processed : Sn(j) # Sn(i)) <=> i \notin processed
  <2>1. \A j \in processed : j \in Nat
    BY <1>1, Sizes
  <2>. QED BY <1>1, <1>3, <1>4, <1>6, <2>1
<1>10. RxFull(seg) <=> i \notin processed /\ Complete(bytes, i)
    BY <1>8, <1>9 DEF RxFull
<1>11. RxFull(seg) => {b.sdu : b \in {c \in bytes : Sn(c.sdu) = Sn(i)}} = {i}
  <2>1. [sdu |-> i, so |-> seg.so] \in BytesOf(seg)
    BY <1>1, BytesOfSegment
  <2>2. PICK b \in bytes : b.sdu = i
    BY <2>1 DEF RxBytes
  <2>. QED BY <1>7, <2>2
<1>12. /\ passed' = passed + d
       /\ log' = IF RxFull(seg)
                 THEN Append(log, {b.sdu : b \in {c \in bytes : Sn(c.sdu) = Sn(i)}})
                 ELSE log
    BY ReceiveIs
<1>13. log' = IF RxFull(seg) THEN Append(log, {i}) ELSE log
    BY <1>11, <1>12
<1>14. Delivered' = 0..(passed - 1) \cup done
  <2>1. CASE RxFull(seg)
    <3>1. Delivered' = Delivered \cup {i}
      BY <1>1, <1>13, <2>1, DeliveredGrows
    <3>. QED BY <1>4, <2>1, <3>1 DEF RxDone
  <2>2. CASE ~RxFull(seg)
    <3>1. Delivered' = Delivered
      BY <1>13, <2>2 DEF Delivered
    <3>. QED BY <1>4, <2>2, <3>1 DEF RxDone
  <2>. QED BY <2>1, <2>2
<1>15. \A j \in done : j \in Nat /\ passed <= j /\ j < sent
  <2>1. \A j \in processed : j \in Nat
    BY <1>1, Sizes
  <2>. QED BY <1>3, <1>4, <2>1 DEF RxDone
<1>16. /\ RxNext(seg) \in SN /\ RxStatus(seg) \in SN
       /\ \A n \in SN : Free(done, n) => d <= Ahead(n)
       /\ \A n \in SN : Free(done, n) /\ Ahead(rx_highest_status) <= Ahead(n)
                              => Ahead(RxStatus(seg)) <= Ahead(n)
    BY <1>0, ReceiveFacts
<1>17. \A j \in Nat : RxFreed(seg, j) <=> Ahead(Sn(j)) < d
    BY DEF RxFreed
<1>18. d \in Nat
    BY <1>1, <1>16, AheadType
<1>. HIDE DEF d, done, bytes, i
<1>19. Sn(sent) \in SN /\ Free(done, Sn(sent)) /\ Ahead(Sn(sent)) = sent - passed
  <2>1. sent \in Int
    BY <1>1
  <2>2. Sn(sent) \in SN
    BY <2>1, SnType
  <2>3. ASSUME NEW j \in done PROVE Sn(j) # Sn(sent)
    BY <1>1, <1>6, <1>15
  <2>4. Ahead(Sn(sent)) = sent - passed
    BY <1>1, <1>6
  <2>. QED BY <2>2, <2>3, <2>4 DEF Free
<1>20. d <= sent - passed /\ Ahead(RxStatus(seg)) <= sent - passed
    BY <1>4, <1>16, <1>19
<1>21. passed' \in Nat /\ passed <= passed' /\ passed' <= sent
    BY <1>1, <1>12, <1>18, <1>20
<1>22. ASSUME NEW j \in passed..(passed' - 1) PROVE j \in done
  <2>1. j \in Nat /\ passed <= j /\ j <= sent /\ j - passed < d
    BY <1>1, <1>12, <1>18, <1>21
  <2>2. Sn(j) \in SN /\ Ahead(Sn(j)) = j - passed
    <3>1. j \in Int
      BY <2>1
    <3>. QED BY <1>6, <2>1, <3>1, SnType
  <2>3. ~Free(done, Sn(j))
    BY <1>1, <1>16, <1>18, <2>1, <2>2
  <2>4. PICK k \in done : Sn(k) = Sn(j)
    BY <2>3 DEF Free
  <2>5. k = j
    BY <1>1, <1>6, <1>15, <2>1, <2>4
  <2>. QED BY <2>5
<1>23. ASSUME NEW j \in Nat, passed <= j, j < sent PROVE RxFreed(seg, j) <=> j < passed'
  <2>1. Ahead(Sn(j)) = j - passed
    BY <1>1, <1>6, <1>23
  <2>. QED BY <1>1, <1>12, <1>17, <1>18, <2>1
<1>. QED BY <1>5, <1>10, <1>13, <1>14, <1>15, <1>20, <1>21, <1>22, <1>23 DEF bytes, done, i

(* reception_actions keeps Aligned: what it frees it has delivered.        *)
LEMMA ReceiveAligned ==
    ASSUME Inv, Inv', Aligned, NEW seg \in Segment, seg.sdu < sent, passed <= seg.sdu,
           InRecvWindow(Sn(seg.sdu)), Receive(seg), UNCHANGED <<sdu_size, tx, status>>
    PROVE  Aligned'
<1>. DEFINE i == seg.sdu
            bytes == RxBytes(seg)
            done == RxDone(seg)
            next == RxNext(seg)
<1>0. SenderInv /\ RxInv
    BY DEF Inv
<1>1. /\ passed \in Nat /\ passed <= sent /\ sent <= passed + WindowSize
      /\ sent \in Nat /\ sdu_size \in SduSizes /\ rx_list \subseteq Byte /\ processed \subseteq Sdu
      /\ rx_next_highest \in SN /\ rx_highest_status \in SN /\ rx_next_status_trigger \in SN
    BY <1>0, AlignedFacts, BaseFacts DEF RxInv, RxType
<1>2. WindowSize \in Nat /\ WindowSize >= 2 /\ SnModulus = 2 * WindowSize
    BY Modulus
<1>3. i \in Sdu /\ i \in Nat /\ \A b \in BytesOf(seg) : b.sdu = i
    BY <1>1, SegmentIs, BytesOfSegment
<1>4. /\ Delivered = 0..(passed - 1) \cup processed
      /\ Ahead(rx_next_highest) <= sent - passed
      /\ t_reassembly => Ahead(rx_next_status_trigger) <= sent - passed
      /\ \A j \in passed..(sent - 1) : Complete(rx_list, j) => j \in processed
    BY DEF Aligned, InStep
<1>5. /\ \A b \in bytes : passed <= b.sdu /\ b.sdu < sent
      /\ RxFull(seg) <=> i \notin processed /\ Complete(bytes, i)
      /\ Delivered' = 0..(passed - 1) \cup done
      /\ \A j \in done : j \in Nat /\ passed <= j /\ j < sent
      /\ passed' \in Nat /\ passed <= passed' /\ passed' <= sent
      /\ \A j \in passed..(passed' - 1) : j \in done
      /\ \A j \in Nat : passed <= j /\ j < sent => (RxFreed(seg, j) <=> j < passed')
      /\ Ahead(RxStatus(seg)) <= sent - passed
    BY ReceiveExact
<1>6. /\ rx_list' = {b \in bytes : ~RxFreed(seg, b.sdu)}
      /\ processed' = {j \in done : ~RxFreed(seg, j)}
      /\ passed' = passed + Ahead(next) /\ rx_next_highest' = RxHighest(seg)
      /\ rx_highest_status' = RxStatus(seg)
      /\ t_reassembly' = (RxRunning(seg) \/ RxStart(seg))
      /\ rx_next_status_trigger' = IF RxStart(seg) THEN RxHighest(seg) ELSE rx_next_status_trigger
    BY ReceiveIs DEF RxLeft
<1>7. /\ Sn(i) \in SN
      /\ RxHighest(seg) \in SN /\ next \in SN /\ RxStatus(seg) \in SN
      /\ \/ Ahead(RxHighest(seg)) = Ahead(rx_next_highest)
         \/ Ahead(RxHighest(seg)) = Ahead(Sn(i)) + 1
      /\ Ahead(next) <= Ahead(RxHighest(seg))
      /\ Ahead(next) <= Ahead(RxStatus(seg))
    BY <1>0, ReceiveFacts
<1>8. bytes \subseteq Byte /\ \A b \in bytes : b.sdu \in Nat /\ (b.sdu # i => b \in rx_list)
  <2>1. bytes \subseteq Byte
    BY <1>1, BytesOfSegment DEF RxBytes
  <2>. QED BY <1>1, <1>3, <2>1, ByteIs DEF RxBytes
<1>9. rx_list \subseteq bytes /\ processed \subseteq done /\ (RxFull(seg) => i \in done)
    BY DEF RxBytes, RxDone
<1>10. RxRunning(seg) => t_reassembly
    BY DEF RxRunning
<1>. HIDE DEF i, bytes, done, next
<1>11. /\ \A b \in rx_list' : b \in bytes /\ passed' <= b.sdu /\ b.sdu < sent
       /\ \A b \in bytes : b \in rx_list' \/ b.sdu < passed'
  <2>1. \A b \in bytes : RxFreed(seg, b.sdu) <=> b.sdu < passed'
    BY <1>5, <1>8
  <2>. QED BY <1>1, <1>5, <1>6, <1>8, <2>1
<1>12. \A j : j \in processed' <=> j \in done /\ passed' <= j
    BY <1>1, <1>5, <1>6
<1>13. Delivered' = 0..(passed' - 1) \cup processed'
  <2>0. PICK q \in Nat : q = passed'
    BY <1>5
  <2>1. ASSUME NEW j \in 0..(passed - 1) \cup done PROVE j \in 0..(q - 1) \cup processed'
    <3>1. CASE j \in 0..(passed - 1)
      <4>1. j \in Int /\ 0 <= j /\ j < passed /\ passed <= q
        BY <1>1, <1>5, <2>0, <3>1
      <4>2. j \in 0..(q - 1)
        BY <1>1, <4>1
      <4>. QED BY <4>2
    <3>2. CASE j \in done
      <4>1. j \in Nat
        BY <1>5, <3>2
      <4>2. j \in 0..(q - 1) \/ q <= j
        BY <4>1
      <4>. QED BY <1>12, <2>0, <3>2, <4>2
    <3>. QED BY <3>1, <3>2
  <2>2. ASSUME NEW j \in 0..(q - 1) \cup processed' PROVE j \in 0..(passed - 1) \cup done
    <3>1. CASE j \in 0..(q - 1)
      <4>1. j \in 0..(passed - 1) \/ j \in passed..(q - 1)
        BY <1>1, <3>1
      <4>. QED BY <1>5, <2>0, <4>1
    <3>. QED BY <1>12, <3>1
  <2>. QED BY <1>5, <2>0, <2>1, <2>2
<1>14. Delivered \subseteq Delivered' /\ \A j \in Nat : j < passed' => j \in Delivered'
    BY <1>1, <1>4, <1>5, <1>9, <1>13
<1>15. ASSUME NEW j \in passed'..(sent - 1), Complete(rx_list', j) PROVE j \in processed'
  <2>1. j \in Nat /\ passed <= j /\ j < sent /\ passed' <= j
    BY <1>1, <1>5
  <2>2. CASE j = i
    <3>1. Complete(bytes, i)
      BY <1>11, <1>15, <2>2 DEF Complete
    <3>. QED BY <1>5, <1>9, <1>12, <2>1, <2>2, <3>1
  <2>3. CASE j # i
    <3>1. ASSUME NEW o \in 0..(sdu_size[j] - 1) PROVE [sdu |-> j, so |-> o] \in rx_list
      <4>. DEFINE b == [sdu |-> j, so |-> o]
      <4>1. b \in rx_list' /\ b.sdu = j
        BY <1>15 DEF Complete
      <4>. HIDE DEF b
      <4>2. b \in rx_list
        BY <1>8, <1>11, <2>3, <4>1
      <4>. QED BY <4>2 DEF b
    <3>2. Complete(rx_list, j)
      BY <3>1 DEF Complete
    <3>3. j \in passed..(sent - 1)
      BY <1>1, <2>1
    <3>. QED BY <1>4, <1>9, <1>12, <2>1, <3>2, <3>3
  <2>. QED BY <2>2, <2>3
<1>16. /\ rx_next' = next /\ Ahead(next) \in Nat /\ Ahead(RxHighest(seg)) \in Nat
       /\ Ahead(RxStatus(seg)) \in Nat
       /\ modulus_rx(next, RxHighest(seg)) = Ahead(RxHighest(seg)) - Ahead(next)
       /\ modulus_rx(next, RxStatus(seg)) = Ahead(RxStatus(seg)) - Ahead(next)
  <2>1. rx_next' = next
    BY <1>1, <1>6, <1>7, MovedOn DEF rx_next
  <2>. QED BY <1>1, <1>7, <2>1, AheadType, MovedOn
<1>17. Ahead(RxHighest(seg)) <= sent - passed
  <2>1. Ahead(Sn(i)) = i - passed
    <3>1. i \in Int /\ i <= passed + WindowSize
      BY <1>1, <1>2, <1>3 DEF i
    <3>. QED BY <1>1, <3>1, InWindowSame DEF i
  <2>2. i < sent /\ passed <= i
    BY DEF i
  <2>. QED BY <1>1, <1>3, <1>4, <1>7, <2>1, <2>2
<1>18. /\ modulus_rx(rx_next', rx_next_highest') <= sent - passed'
       /\ modulus_rx(rx_next', rx_highest_status') <= sent - passed'
    BY <1>1, <1>5, <1>6, <1>16, <1>17
<1>19. ASSUME t_reassembly' PROVE modulus_rx(rx_next', rx_next_status_trigger') <= sent - passed'
  <2>1. CASE RxStart(seg)
    BY <1>6, <1>18, <2>1
  <2>2. CASE ~RxStart(seg)
    <3>1. /\ t_reassembly /\ rx_next_status_trigger' = rx_next_status_trigger
      BY <1>6, <1>10, <1>19, <2>2
    <3>. DEFINE t == rx_next_status_trigger
    <3>2. modulus_rx(next, t) <= WindowSize
      BY <1>2, <1>16, <1>19, <3>1 DEF Inv, RxInv, ReceiverWindow, Ahead
    <3>3. Ahead(t) \in Nat /\ Ahead(t) >= 1 /\ Ahead(t) <= sent - passed
      BY <1>0, <1>1, <1>2, <1>4, <3>1, AheadType DEF RxInv, ReceiverWindow
    <3>4. CASE Ahead(next) <= Ahead(t)
      <4>1. modulus_rx(next, t) = Ahead(t) - Ahead(next)
        BY <1>1, <1>7, <3>4, MovedOn
      <4>. HIDE DEF t
      <4>2. modulus_rx(next, t) <= sent - passed'
        BY <1>1, <1>5, <1>6, <1>16, <3>3, <4>1
      <4>. QED BY <1>16, <3>1, <4>2 DEF t
    <3>5. CASE Ahead(t) < Ahead(next)
      <4>1. Ahead(next) \in 0..(SnModulus - 1) /\ passed \in Int
        BY <1>1, <1>7, AheadType
      <4>2. modulus_rx(Sn(passed + Ahead(next)), t) = Ahead(t) - Ahead(next) + SnModulus
        <5>1. modulus_rx(Sn(passed + Ahead(next)), t) =
                IF modulus_rx(Sn(passed), t) >= Ahead(next)
                THEN modulus_rx(Sn(passed), t) - Ahead(next)
                ELSE modulus_rx(Sn(passed), t) - Ahead(next) + SnModulus
          BY <1>1, <4>1, Shift
        <5>2. modulus_rx(Sn(passed), t) = Ahead(t)
          BY DEF Ahead, rx_next
        <5>. QED BY <1>16, <3>3, <3>5, <5>1, <5>2
      <4>3. Sn(passed + Ahead(next)) = next
        BY <1>1, <1>7, SnAt DEF Ahead, rx_next
      <4>. HIDE DEF t
      <4>4. Ahead(next) <= WindowSize
        BY <1>1, <1>2, <1>5, <1>6, <1>16
      <4>. QED BY <1>2, <1>16, <3>2, <3>3, <4>2, <4>3, <4>4
    <3>. QED BY <1>16, <3>3, <3>4, <3>5
  <2>. QED BY <2>1, <2>2
<1>20. sent' = sent /\ sdu_size' = sdu_size
    BY DEF tx
<1>21. InStep'
  <2>1. \A j \in processed' : passed' <= j /\ j < sent
    BY <1>5, <1>12
  <2>2. \A j \in passed'..(sent - 1) : Complete(rx_list, j)' => j \in processed'
    BY <1>15, <1>20 DEF Complete
  <2>. QED BY <1>5, <1>11, <1>13, <1>18, <1>19, <1>20, <2>1, <2>2 DEF InStep, Ahead
<1>22. ASSUME NEW b \in Byte, Got(b) PROVE Got(b)'
  <2>1. b.sdu \in Nat
    BY <1>1, ByteIs
  <2>. QED BY <1>9, <1>11, <1>14, <1>22, <2>1 DEF Got
<1>. QED BY <1>20, <1>21, <1>22, AlignedIfMoreGot

(* So nr_rlc_entity_am_recv_pdu does.                                      *)
LEMMA RecvPduAligned ==
    ASSUME Inv, Inv', Aligned, NEW pdu \in data, RecvPdu(pdu), sdu_size' = sdu_size
    PROVE  Aligned'
<1>. DEFINE seg == pdu.seg
            useless == \/ ~InRecvWindow(Sn(seg.sdu))
                       \/ {b.so : b \in BytesOf(seg)} \subseteq Offsets(rx_list, Sn(seg.sdu))
<1>1. /\ IF useless
         THEN UNCHANGED <<passed, rx_next_highest, rx_highest_status,
                          rx_next_status_trigger, rx_list, processed, t_reassembly, log>>
         ELSE Receive(seg)
      /\ UNCHANGED <<tx, status>> /\ InTime(seg.sdu)
    BY DEF RecvPdu
<1>2. seg \in Segment /\ seg.sdu < sent
    BY DEF Inv, SenderInv, LinkType, SenderParts
<1>3. seg.sdu \in Nat
    BY <1>2, SegmentIs DEF Inv, RxInv
<1>4. CASE useless
  <2>1. UNCHANGED <<sent, tx_next_ack, rest, wait_list, retransmit_list>>
    BY <1>1 DEF tx
  <2>2. Listed' = Listed
    BY <2>1 DEF Listed
  <2>. QED BY <1>1, <1>4, <2>1, <2>2, AlignedFrame DEF Tracked
<1>5. CASE ~useless
  <2>1. Receive(seg) /\ InRecvWindow(Sn(seg.sdu))
    BY <1>1, <1>5
  <2>. HIDE DEF seg, useless
  <2>2. passed <= seg.sdu
    BY <1>1, <1>2, <1>3, <2>1, PduInWindow
  <2>. QED BY <1>1, <1>2, <2>1, <2>2, ReceiveAligned
<1>. QED BY <1>4, <1>5

(* check_t_reassembly does not go past the last SDU sent.                  *)
LEMMA TReassemblyExpiresAligned ==
    ASSUME Inv, Aligned, TReassemblyExpires, sdu_size' = sdu_size
    PROVE  Aligned'
<1>. DEFINE top == FirstUndelivered(processed, rx_next_status_trigger)
            start == GapFrom(rx_list, rx_next, rx_next_highest, top)
<1>1. /\ t_reassembly /\ t_reassembly' = start
      /\ rx_highest_status' = top
      /\ rx_next_status_trigger' = IF start THEN rx_next_highest ELSE rx_next_status_trigger
      /\ UNCHANGED <<passed, rx_next_highest, rx_list, processed, log>>
      /\ UNCHANGED <<tx, status>>
    BY DEF TReassemblyExpires
<1>2. /\ passed \in Nat /\ passed <= sent /\ sent <= passed + WindowSize
      /\ sent \in Nat /\ processed \subseteq Sdu /\ sdu_size \in SduSizes
      /\ rx_next_status_trigger \in SN
    BY AlignedFacts, BaseFacts DEF Inv, RxInv, RxType
<1>3. WindowSize \in Nat /\ WindowSize >= 2 /\ SnModulus = 2 * WindowSize
    BY Modulus
<1>4. InStep
    BY DEF Aligned
<1>5. Sn(sent) \in SN /\ Ahead(Sn(sent)) = sent - passed /\ Free(processed, Sn(sent))
  <2>1. sent \in Int /\ passed <= sent
    BY <1>2
  <2>2. Sn(sent) \in SN
    BY <2>1, SnType
  <2>3. Ahead(Sn(sent)) = sent - passed
    BY <1>2, <2>1, InWindowSame
  <2>4. ASSUME NEW j \in processed PROVE Sn(j) # Sn(sent)
    <3>1. j \in Nat /\ passed <= j /\ j < sent
      BY <1>2, <1>4, Sizes DEF InStep
    <3>2. j \in Int /\ j <= passed + WindowSize
      BY <1>2, <1>3, <3>1
    <3>. QED BY <1>2, <2>1, <3>1, <3>2, InWindowSame
  <2>. QED BY <2>2, <2>3, <2>4 DEF Free
<1>6. Ahead(top) <= sent - passed
    BY <1>1, <1>2, <1>4, <1>5, FirstFrom DEF InStep
<1>. HIDE DEF top, start
<1>7. sent' = sent /\ rx_next' = rx_next /\ Delivered' = Delivered
    BY <1>1 DEF tx, rx_next, Delivered
<1>8. InStep'
  <2>1. t_reassembly' => Ahead(rx_next_status_trigger)' <= sent - passed
    BY <1>1, <1>4, <1>7 DEF InStep, Ahead
  <2>2. Ahead(rx_highest_status)' <= sent - passed
    BY <1>1, <1>6, <1>7 DEF Ahead
  <2>3. Ahead(rx_next_highest)' <= sent - passed
    BY <1>1, <1>4, <1>7 DEF InStep, Ahead
  <2>4. \A i \in passed..(sent - 1) : Complete(rx_list, i)' => i \in processed
    BY <1>1, <1>4 DEF InStep, Complete
  <2>. QED BY <1>1, <1>4, <1>7, <2>1, <2>2, <2>3, <2>4 DEF InStep
<1>9. \A b \in Byte : Got(b) => Got(b)'
    BY <1>1, <1>7 DEF Got
<1>. QED BY <1>1, <1>8, <1>9, AlignedIfMoreGot

(* generate_status: what lies below the ACK and is not NACKed was received,*)
(* also when the NACKs were cut short.                                     *)
LEMMA StatusOfIsTrue ==
    ASSUME Inv, Aligned, NEW c \in Cuts
    PROVE  /\ StatusOf(c).ack <= sent
           /\ \A b \in StatusOf(c).nacks : b.sdu < StatusOf(c).ack
           /\ \A b \in Byte : b.sdu < StatusOf(c).ack => Got(b) \/ b \in StatusOf(c).nacks
<1>1. /\ passed \in Nat /\ passed <= sent /\ sent <= passed + WindowSize
      /\ sent \in Nat /\ sdu_size \in SduSizes /\ rx_list \subseteq Byte
      /\ rx_highest_status \in SN
    BY AlignedFacts, BaseFacts DEF Inv, RxInv, RxType
<1>2. /\ Ahead(rx_highest_status) <= sent - passed
      /\ \A b \in rx_list : passed <= b.sdu /\ b.sdu < sent
      /\ Delivered = 0..(passed - 1) \cup processed
    BY DEF Aligned, InStep
<1>3. StatusOf(c).ack = IF NacksUpTo(c) = {} THEN passed ELSE c.sdu + 1
    BY DEF StatusOf
<1>4. StatusOf(c).nacks = NacksUpTo(c)
    BY DEF StatusOf
<1>5. \A b \in Byte : b.sdu \in Nat /\ b.so \in Nat /\ b = [sdu |-> b.sdu, so |-> b.so]
    BY <1>1, ByteIs
<1>6. \A b \in Byte : b.sdu < passed => Got(b)
    BY <1>1, <1>2, <1>5 DEF Got
<1>7. CASE NacksUpTo(c) = {}
    BY <1>1, <1>3, <1>4, <1>6, <1>7
<1>8. CASE NacksUpTo(c) # {}
  <2>. DEFINE kept == {b \in Missing : ~Before(c, b)}
              top == passed + Ahead(rx_highest_status)
  <2>1. c \in Missing /\ c \in Byte
    BY <1>1, <1>8, CutIsMissing
  <2>2. rx_list # {}
    BY <2>1 DEF Missing
  <2>3. \A b : b \in Missing <=> /\ b \in Byte /\ b.sdu >= passed /\ b.sdu < top
                                 /\ b.so \notin Offsets(rx_list, Sn(b.sdu))
    BY <2>2 DEF Missing, Ahead
  <2>4. NacksUpTo(c) = IF kept = {} \/ kept = Missing THEN kept
                       ELSE kept \cup {b \in Byte : b.sdu = c.sdu /\ b.so >= c.so}
    BY DEF NacksUpTo
  <2>5. top <= sent /\ top \in Nat
    BY <1>1, <1>2, AheadType
  <2>. HIDE DEF kept, top
  <2>6. c.sdu \in Nat /\ c.so \in Nat /\ c.sdu < top
    BY <1>5, <2>1, <2>3
  <2>7. \A b \in Byte : ~Before(c, b) <=> b.sdu < c.sdu \/ (b.sdu = c.sdu /\ b.so <= c.so)
    BY <1>5, <2>6 DEF Before
  <2>8. c.sdu + 1 <= sent
    BY <1>1, <2>5, <2>6
  <2>9. \A b \in NacksUpTo(c) : b.sdu < c.sdu + 1
    <3>1. \A b \in kept : b \in Byte /\ b.sdu < c.sdu + 1
      BY <1>5, <2>3, <2>6, <2>7 DEF kept
    <3>. QED BY <1>5, <2>4, <2>6, <3>1
  <2>10. ASSUME NEW b \in Byte, b.sdu < c.sdu + 1, ~Got(b) PROVE b \in NacksUpTo(c)
    <3>1. b.sdu \in Nat /\ b.so \in Nat /\ b.sdu <= c.sdu /\ passed <= b.sdu /\ b \notin rx_list
      BY <1>1, <1>5, <1>6, <2>6, <2>10 DEF Got
    <3>2. b.so \notin Offsets(rx_list, Sn(b.sdu))
      <4>1. SUFFICES ASSUME b.so \in Offsets(rx_list, Sn(b.sdu)) PROVE FALSE
        OBVIOUS
      <4>2. PICK e \in rx_list : Sn(e.sdu) = Sn(b.sdu) /\ e.so = b.so
        BY <4>1 DEF Offsets
      <4>3. e \in Byte /\ e.sdu \in Nat /\ passed <= e.sdu /\ e.sdu < sent
        BY <1>1, <1>2, <1>5
      <4>4. e.sdu = b.sdu
        <5>1. PICK j \in Int, k \in Int : j = e.sdu /\ k = b.sdu
          BY <3>1, <4>3
        <5>2. j <= passed + WindowSize /\ k <= passed + WindowSize
          BY <1>1, <2>5, <2>6, <3>1, <4>3, <5>1, Modulus
        <5>. QED BY <1>1, <3>1, <4>2, <4>3, <5>1, <5>2, InWindowSame
      <4>5. e = b
        BY <1>5, <4>2, <4>3, <4>4
      <4>. QED BY <3>1, <4>5
    <3>3. b \in Missing
      BY <1>1, <2>3, <2>5, <2>6, <3>1, <3>2
    <3>4. CASE ~Before(c, b)
      BY <2>4, <3>3, <3>4 DEF kept
    <3>5. CASE Before(c, b)
      <4>1. b.sdu = c.sdu /\ b.so >= c.so
        BY <2>6, <2>7, <3>1, <3>5
      <4>2. kept # Missing
        BY <3>3, <3>5 DEF kept
      <4>3. kept # {}
        BY <1>8, <2>4
      <4>. QED BY <2>4, <4>1, <4>2, <4>3
    <3>. QED BY <3>4, <3>5
  <2>. QED BY <1>3, <1>4, <1>8, <2>8, <2>9, <2>10
<1>. QED BY <1>7, <1>8

(* generate_status keeps Aligned.                                          *)
LEMMA GenerateStatusAligned ==
    ASSUME Inv, Aligned, NEW c \in Cuts, GenerateStatus(c), sdu_size' = sdu_size
    PROVE  Aligned'
<1>1. /\ status' = status \cup {StatusOf(c)}
      /\ UNCHANGED <<passed, rx_next_highest, rx_highest_status, rx_next_status_trigger,
                     rx_list, processed, t_reassembly, log>>
      /\ UNCHANGED <<sent, tx_next_ack, rest, wait_list, retransmit_list>>
    BY GenerateStatusIs DEF tx
<1>2. Base' = Base /\ Byte' = Byte /\ Listed' = Listed /\ Delivered' = Delivered /\ rx_next' = rx_next
    BY <1>1, SameSizes DEF Base, Listed, Delivered, rx_next
<1>3. SenderWindow'
    BY <1>1, <1>2 DEF Aligned, SenderWindow
<1>4. InStep'
    BY <1>1, <1>2 DEF Aligned, InStep, Ahead, Complete
<1>5. NoByteLost'
    BY <1>1, <1>2 DEF Aligned, NoByteLost, Unsent
<1>6. StatusInOrder'
    BY <1>1, StatusOfIsTrue DEF Aligned, StatusInOrder
<1>7. StatusTrue'
  <2>1. ASSUME NEW st \in status', NEW b \in Byte, b.sdu < st.ack
        PROVE  b \in rx_list \cup st.nacks \/ b.sdu \in Delivered
    <3>1. CASE st \in status
      BY <2>1, <3>1 DEF Aligned, StatusTrue
    <3>2. CASE st = StatusOf(c)
      BY <2>1, <3>2, StatusOfIsTrue DEF Got
    <3>. QED BY <1>1, <3>1, <3>2
  <2>. QED BY <1>1, <1>2, <2>1 DEF StatusTrue
<1>. QED BY <1>3, <1>4, <1>5, <1>6, <1>7 DEF Aligned

(* What is inductive: until tx_next_ack has passed an SDU, the two ends    *)
(* are aligned.                                                            *)
Exact == ~overtaken => Aligned

(* The bearer as clear_entity leaves it.                                   *)
LEMMA InitAligned == Init => Aligned
<1>. SUFFICES ASSUME Init PROVE Aligned
    OBVIOUS
<1>1. /\ sent = 0 /\ tx_next_ack = 0 /\ rest = 0 /\ Listed = {} /\ passed = 0
      /\ rx_next_highest = 0 /\ rx_highest_status = 0 /\ rx_next_status_trigger = 0
      /\ rx_list = {} /\ processed = {} /\ t_reassembly = FALSE /\ status = {} /\ log = <<>>
    BY DEF Init, Listed
<1>2. Sn(0) = 0 /\ modulus_rx(0, 0) = 0 /\ WindowSize \in Nat
  <2>1. Sn(0) = 0
    BY Modulus, NearMod DEF Sn
  <2>2. modulus_rx(Sn(0), Sn(0)) = 0
    BY SnDistance, Modulus
  <2>. QED BY <2>1, <2>2, Modulus
<1>3. Base = 0
    BY <1>1, <1>2 DEF Base, BaseOf
<1>4. SenderWindow
    BY <1>1, <1>2, <1>3 DEF SenderWindow
<1>5. Delivered = {} /\ rx_next = 0
    BY <1>1, <1>2 DEF Delivered, rx_next
<1>6. InStep
  <2>1. 0..(0 - 1) = {}
    OBVIOUS
  <2>. QED BY <1>1, <1>2, <1>5, <2>1 DEF InStep, Ahead
<1>7. NoByteLost
  <2>1. sdu_size \in SduSizes
    BY DEF Init
  <2>2. \A b \in Byte : b.sdu \in Nat
    BY <2>1, ByteIs
  <2>. QED BY <1>1, <2>2 DEF NoByteLost
<1>8. StatusInOrder /\ StatusTrue
    BY <1>1 DEF StatusInOrder, StatusTrue
<1>. QED BY <1>4, <1>6, <1>7, <1>8 DEF Aligned

(* clear_entity at both ends does the same.                                *)
LEMMA ReestablishmentAligned ==
    ASSUME Inv, Reestablishment, sdu_size' = sdu_size
    PROVE  Aligned'
<1>1. /\ sent' = 0 /\ tx_next_ack' = 0 /\ rest' = 0 /\ Listed' = {} /\ passed' = 0
      /\ rx_next_highest' = 0 /\ rx_highest_status' = 0 /\ rx_next_status_trigger' = 0
      /\ rx_list' = {} /\ processed' = {} /\ t_reassembly' = FALSE /\ status' = {} /\ log' = <<>>
    BY DEF Reestablishment, Listed
<1>2. Sn(0) = 0 /\ modulus_rx(0, 0) = 0 /\ WindowSize \in Nat
  <2>1. Sn(0) = 0
    BY Modulus, NearMod DEF Sn
  <2>2. modulus_rx(Sn(0), Sn(0)) = 0
    BY SnDistance, Modulus
  <2>. QED BY <2>1, <2>2, Modulus
<1>3. Base' = 0
    BY <1>1, <1>2 DEF Base, BaseOf
<1>4. SenderWindow'
    BY <1>1, <1>2, <1>3 DEF SenderWindow
<1>5. Delivered' = {} /\ rx_next' = 0
    BY <1>1, <1>2 DEF Delivered, rx_next
<1>6. InStep'
  <2>1. 0..(0 - 1) = {}
    OBVIOUS
  <2>. QED BY <1>1, <1>2, <1>5, <2>1 DEF InStep, Ahead
<1>7. NoByteLost'
  <2>1. sdu_size \in SduSizes /\ Byte' = Byte
    BY SameSizes DEF Inv, RxInv
  <2>2. \A b \in Byte : b.sdu \in Nat
    BY <2>1, ByteIs
  <2>. QED BY <1>1, <2>1, <2>2 DEF NoByteLost
<1>8. StatusInOrder' /\ StatusTrue'
    BY <1>1 DEF StatusInOrder, StatusTrue
<1>. QED BY <1>4, <1>6, <1>7, <1>8 DEF Aligned

(* Every step keeps Exact.                                                 *)
LEMMA NextExact == Inv /\ Inv' /\ Exact /\ [Next]_vars => Exact'
<1>. SUFFICES ASSUME Inv, Inv', Exact, [Next]_vars, ~overtaken' PROVE Aligned'
    BY DEF Exact
<1>1. SenderInv
    BY DEF Inv
<1>2. ASSUME Aligned, UNCHANGED <<sdu_size, tx>>, status' \subseteq status,
             UNCHANGED <<passed, rx_next_highest, rx_highest_status, rx_next_status_trigger,
                         rx_list, processed, t_reassembly, log>>
      PROVE  Aligned'
  <2>1. UNCHANGED <<sent, tx_next_ack, rest, wait_list, retransmit_list>>
    BY <1>2 DEF tx
  <2>2. Listed' = Listed
    BY <2>1 DEF Listed
  <2>. QED BY <1>2, <2>1, <2>2, AlignedFrame DEF Tracked
<1>3. ASSUME Sender, sdu_size' = sdu_size PROVE Aligned'
  <2>1. CASE RecvSdu
    <3>1. Aligned
      BY <2>1 DEF RecvSdu, history, Exact
    <3>. QED BY <1>3, <2>1, <3>1, RecvSduAligned
  <2>2. ASSUME NEW room \in Grants, GenerateRetxPdu(room) PROVE Aligned'
    <3>1. Aligned
      BY <2>2 DEF GenerateRetxPdu, Exact
    <3>. QED BY <1>1, <1>3, <2>2, <3>1, GenerateRetxPduAligned
  <2>3. ASSUME NEW room \in Grants, NEW early \in PollEarly, GenerateTxPdu(room, early)
        PROVE  Aligned'
    <3>1. Aligned
      BY <2>3, GenerateTxPduIs DEF Exact
    <3>. QED BY <1>3, <2>3, <3>1, GenerateTxPduAligned
  <2>4. CASE TPollRetransmitExpires
    <3>1. Aligned
      BY <2>4 DEF TPollRetransmitExpires, history, Exact
    <3>. QED BY <1>3, <2>4, <3>1, TPollRetransmitExpiresAligned
  <2>5. ASSUME NEW st \in status, RecvStatus(st) PROVE Aligned'
    <3>1. CASE Valid(st)
      <4>1. Aligned
        BY <2>5, <3>1, RecvStatusIs DEF Exact
      <4>. QED BY <1>3, <2>5, <3>1, <4>1, RecvStatusAligned
    <3>2. CASE ~Valid(st)
      <4>1. status' \subseteq status /\ UNCHANGED <<tx, overtaken, rx>>
        BY <2>5, <3>2, RecvStatusInvalidIs
      <4>. QED BY <1>2, <1>3, <4>1 DEF Exact, rx
    <3>. QED BY <3>1, <3>2
  <2>. QED BY <1>3, <2>1, <2>2, <2>3, <2>4, <2>5 DEF Sender
<1>4. ASSUME Receiver, sdu_size' = sdu_size PROVE Aligned'
  <2>1. ASSUME NEW pdu \in data, RecvPdu(pdu) PROVE Aligned'
    <3>1. Aligned
      BY <2>1 DEF RecvPdu, history, Exact
    <3>. QED BY <1>4, <2>1, <3>1, RecvPduAligned
  <2>5. ASSUME NEW pdu \in data, DiscardPdu(pdu) PROVE Aligned'
    BY <1>2, <1>4, <2>5 DEF DiscardPdu, history, Exact
  <2>2. CASE TReassemblyExpires
    <3>1. Aligned
      BY <2>2 DEF TReassemblyExpires, history, Exact
    <3>. QED BY <1>4, <2>2, <3>1, TReassemblyExpiresAligned
  <2>3. CASE TStatusProhibitExpires
    BY <1>2, <1>4, <2>3 DEF TStatusProhibitExpires, history, Exact
  <2>4. ASSUME NEW c \in Cuts, GenerateStatus(c) PROVE Aligned'
    <3>1. Aligned
      BY <2>4 DEF GenerateStatus, history, Exact
    <3>. QED BY <1>4, <2>4, <3>1, GenerateStatusAligned
  <2>. QED BY <1>4, <2>1, <2>2, <2>3, <2>4, <2>5 DEF Receiver
<1>5. ASSUME Lose, sdu_size' = sdu_size PROVE Aligned'
  <2>1. status' \subseteq status /\ UNCHANGED <<tx, rx, history>>
    BY <1>5 DEF Lose
  <2>. QED BY <1>2, <1>5, <2>1 DEF rx, history, Exact
<1>6. ASSUME UNCHANGED vars PROVE Aligned'
  <2>1. status' \subseteq status /\ UNCHANGED <<sdu_size, tx, rx, history>>
    BY <1>6 DEF vars
  <2>. QED BY <1>2, <2>1 DEF rx, history, Exact
<1>. QED BY <1>3, <1>4, <1>5, <1>6, ReestablishmentAligned DEF Next

(* For every window, size and order of arrival: what a STATUS PDU does not *)
(* NACK below its ACK_SN was received, however few NACKs generate_status   *)
(* had room for and however late it arrives.                               *)
THEOREM StatusesAreTrue == Spec => []StatusIsTrue
<1>1. Init => Exact
    BY InitAligned DEF Exact
<1>2. Exact => StatusIsTrue
    BY DEF Exact, Aligned, StatusTrue, StatusIsTrue
<1>. QED BY <1>1, <1>2, InitInv, NextInv, NextExact, PTL DEF Spec

(* For every window, size and order of arrival: process_control_pdu frees  *)
(* and reports only SDUs that the peer has delivered.                      *)
THEOREM ConfirmedAreDelivered == Spec => []ConfirmedIsDelivered
<1>1. Init => Exact
    BY InitAligned DEF Exact
<1>2. Inv /\ Exact => ConfirmedIsDelivered
    BY AlignedFacts DEF Exact, ConfirmedIsDelivered
<1>. QED BY <1>1, <1>2, InitInv, NextInv, NextExact, PTL DEF Spec

-----------------------------------------------------------------------------

(* The SDUs of which some segment is listed.                               *)
SdusListed == {s.sdu : s \in Listed}

(* The SDUs the sender has not freed.                                      *)
LEMMA HeldIs ==
    ASSUME NEW i
    PROVE  Held(i) <=> i \in SdusListed \/ (rest # 0 /\ i = sent - 1)
BY DEF Held, SdusListed, Listed

(* When they stay the same, so does what was confirmed.                    *)
LEMMA ConfirmedSame ==
    ASSUME SdusListed' = SdusListed, UNCHANGED <<sent, rest>>
    PROVE  Confirmed' = Confirmed
<1>1. \A i : Held(i)' <=> Held(i)
    BY HeldIs DEF Held, SdusListed, Listed
<1>. QED BY <1>1 DEF Confirmed

(* generate_retx_pdu frees no SDU.                                         *)
LEMMA RetxKeepsSdus ==
    ASSUME SenderInv, NEW room \in Grants, GenerateRetxPdu(room)
    PROVE  SdusListed' = SdusListed
<1>. DEFINE seg == HeadOf(retransmit_list)
            n == Smaller(room, seg.size)
<1>1. /\ retransmit_list # {}
      /\ retransmit_list' = (retransmit_list \ {seg}) \cup Remainder(seg, n)
      /\ wait_list' = wait_list \cup {First(seg, n)}
    BY DEF GenerateRetxPdu
<1>2. seg \in retransmit_list /\ seg \in Segment /\ sdu_size \in SduSizes
    BY <1>1, SenderFacts DEF Listed, SenderInv, TxType
<1>3. n \in 1..seg.size
  <2>1. seg.size \in Nat /\ seg.size >= 1
    BY <1>2, SegmentIs
  <2>2. room \in Nat /\ room >= 1
    BY ChoiceAssumption
  <2>. QED BY <2>1, <2>2, SmallerIs
<1>. HIDE DEF n, seg
<1>4. First(seg, n).sdu = seg.sdu /\ \A r \in Remainder(seg, n) : r.sdu = seg.sdu
    BY <1>2, <1>3, SplitSegment
<1>. QED BY <1>1, <1>2, <1>4 DEF SdusListed, Listed

(* Nor does generate_tx_pdu, which may number one more.                    *)
LEMMA TxConfirms ==
    ASSUME Inv, NEW room \in Grants, NEW early \in PollEarly, GenerateTxPdu(room, early)
    PROVE  (sent' = sent \/ sent' = sent + 1) /\ Confirmed' = Confirmed
<1>. DEFINE seg == TxSegment(room)
<1>0. SenderInv
    BY DEF Inv
<1>1. /\ queued > 0 \/ rest # 0
      /\ sent' = TxSdu /\ rest' = TxLeft(room)
      /\ wait_list' = wait_list \cup {seg} /\ retransmit_list' = retransmit_list
    BY GenerateTxPduIs
<1>2. TxSdu \in Nat /\ seg.sdu = TxSdu - 1
    BY <1>0, <1>1, TxSegmentFacts
<1>3. sent \in Nat /\ rest \in Nat /\ (rest # 0 => sent > 0)
    BY <1>0, BaseFacts
<1>4. \/ rest = 0 /\ TxSdu = sent + 1
      \/ rest # 0 /\ TxSdu = sent
    BY DEF TxSdu
<1>. HIDE DEF seg
<1>5. SdusListed' = SdusListed \cup {TxSdu - 1}
    BY <1>1, <1>2 DEF SdusListed, Listed
<1>6. \A i \in 0..(TxSdu - 1) : Held(i)' <=> (i \in SdusListed \/ i = TxSdu - 1)
  <2>1. \A i : Held(i)' <=> (i \in SdusListed' \/ (rest' # 0 /\ i = sent' - 1))
    BY DEF Held, SdusListed, Listed
  <2>. QED BY <1>1, <1>5, <2>1
<1>7. \A i : Held(i) <=> i \in SdusListed \/ (rest # 0 /\ i = sent - 1)
    BY HeldIs
<1>8. Confirmed' = {i \in 0..(TxSdu - 1) : ~Held(i)'}
    BY <1>1 DEF Confirmed
<1>9. \A i : i \in Confirmed' <=> i \in Confirmed
  <2>1. CASE rest = 0 /\ TxSdu = sent + 1
    <3>1. \A i : i \in 0..(TxSdu - 1) /\ i # TxSdu - 1 <=> i \in 0..(sent - 1)
      BY <1>3, <2>1
    <3>2. \A i : i \in Confirmed' <=> i \in 0..(TxSdu - 1) /\ i # TxSdu - 1 /\ i \notin SdusListed
      BY <1>6, <1>8
    <3>3. \A i : i \in Confirmed <=> i \in 0..(sent - 1) /\ i \notin SdusListed
      BY <1>7, <2>1 DEF Confirmed
    <3>. QED BY <3>1, <3>2, <3>3
  <2>2. CASE rest # 0 /\ TxSdu = sent
    <3>1. \A i : i \in Confirmed' <=> i \in 0..(sent - 1) /\ i # sent - 1 /\ i \notin SdusListed
      BY <1>6, <1>8, <2>2
    <3>2. \A i : i \in Confirmed <=> i \in 0..(sent - 1) /\ i # sent - 1 /\ i \notin SdusListed
      BY <1>7, <2>2 DEF Confirmed
    <3>. QED BY <3>1, <3>2
  <2>. QED BY <1>4, <2>1, <2>2
<1>. QED BY <1>1, <1>4, <1>9

(* Each step of the bearer is a step of the service or none.               *)
LEMMA StepOfService ==
    ASSUME Inv, Exact, ConfirmedIsDelivered', [Next]_vars
    PROVE  [Service!ANext]_(Service!avars)
<1>. DEFINE Same == UNCHANGED <<sent, log, Confirmed, overtaken>>
<1>0. SenderInv
    BY DEF Inv
<1>1. Same => [Service!ANext]_(Service!avars)
    BY DEF Service!avars
<1>2. overtaken' = TRUE => Service!ANext
    BY DEF Service!ANext, Service!GoAstray
<1>3. overtaken \in BOOLEAN /\ sent \in Nat
    BY <1>0, BaseFacts DEF SenderInv, LinkType
<1>4. ASSUME UNCHANGED <<tx, log, overtaken>> PROVE Same
  <2>1. UNCHANGED <<sent, rest, wait_list, retransmit_list>>
    BY <1>4 DEF tx
  <2>2. Confirmed' = Confirmed
    BY <2>1, ConfirmedSame DEF SdusListed, Listed
  <2>. QED BY <1>4, <2>1, <2>2
<1>5. ASSUME Reestablishment PROVE Service!ANext
  <2>1. sent' = 0 /\ log' = <<>> /\ overtaken' = FALSE
    BY <1>5 DEF Reestablishment
  <2>2. 0..(0 - 1) = {}
    OBVIOUS
  <2>3. Confirmed' = {}
    BY <2>1, <2>2 DEF Confirmed
  <2>. QED BY <2>1, <2>3 DEF Service!ANext, Service!StartOver
<1>6. ASSUME Sender, overtaken' # TRUE PROVE [Service!ANext]_(Service!avars)
  <2>1. CASE RecvSdu
    <3>1. UNCHANGED <<sent, rest, wait_list, retransmit_list, log, overtaken>>
      BY <2>1 DEF RecvSdu, rx, history
    <3>2. Confirmed' = Confirmed
      BY <3>1, ConfirmedSame DEF SdusListed, Listed
    <3>. QED BY <1>1, <3>1, <3>2
  <2>2. ASSUME NEW room \in Grants, GenerateRetxPdu(room) PROVE Same
    <3>1. UNCHANGED <<sent, rest, log, overtaken>>
      BY <2>2 DEF GenerateRetxPdu, rx
    <3>. QED BY <1>0, <2>2, <3>1, RetxKeepsSdus, ConfirmedSame
  <2>3. ASSUME NEW room \in Grants, NEW early \in PollEarly, GenerateTxPdu(room, early)
        PROVE  [Service!ANext]_(Service!avars)
    <3>1. log' = log /\ overtaken' = overtaken
      BY <2>3, GenerateTxPduIs DEF rx
    <3>2. (sent' = sent \/ sent' = sent + 1) /\ Confirmed' = Confirmed
      BY <2>3, TxConfirms
    <3>3. sent' = sent + 1 => Service!ANext
      BY <3>1, <3>2 DEF Service!ANext, Service!Send
    <3>. QED BY <1>1, <3>1, <3>2, <3>3
  <2>4. CASE TPollRetransmitExpires
    <3>1. UNCHANGED <<sent, rest, log, overtaken>>
      BY <2>4 DEF TPollRetransmitExpires, rx, history
    <3>2. Listed' = Listed
      BY <2>4 DEF TPollRetransmitExpires, Listed
    <3>. QED BY <1>1, <3>1, <3>2, ConfirmedSame DEF SdusListed
  <2>5. ASSUME NEW st \in status, RecvStatus(st) PROVE [Service!ANext]_(Service!avars)
    <3>1. CASE ~Valid(st)
      <4>1. UNCHANGED <<tx, log, overtaken>>
        BY <2>5, <3>1, RecvStatusInvalidIs DEF rx
      <4>. QED BY <1>1, <1>4, <4>1
    <3>2. CASE Valid(st)
      <4>1. /\ Listed' \subseteq Listed /\ UNCHANGED <<sent, rest, log>>
        <5>1. /\ wait_list' = StatusWait(st) /\ retransmit_list' = StatusRetx(st)
              /\ UNCHANGED <<sent, rest, log>>
          BY <2>5, <3>2, RecvStatusIs DEF rx
        <5>2. StatusWait(st) \cup StatusRetx(st) \subseteq Listed
          BY <1>0, SenderFacts, StatusLists
        <5>. QED BY <5>1, <5>2 DEF Listed
      <4>2. overtaken = FALSE /\ overtaken' = FALSE
        BY <1>3, <1>6, <2>5, <3>2, RecvStatusIs
      <4>3. Confirmed \subseteq Confirmed'
        <5>1. \A i : Held(i)' => Held(i)
          BY <4>1, HeldIs DEF Held, Listed
        <5>. QED BY <4>1, <5>1 DEF Confirmed
      <4>4. Confirmed' \subseteq Delivered
        BY <4>1, <4>2 DEF ConfirmedIsDelivered, Delivered
      <4>5. Delivered = Service!DeliveredSdus
        BY DEF Delivered, Service!DeliveredSdus
      <4>. QED BY <4>1, <4>2, <4>3, <4>4, <4>5 DEF Service!ANext, Service!Confirm
    <3>. QED BY <3>1, <3>2
  <2>. HIDE DEF Same
  <2>. QED BY <1>1, <1>6, <2>1, <2>2, <2>3, <2>4, <2>5 DEF Sender
<1>7. ASSUME Receiver, overtaken' # TRUE PROVE [Service!ANext]_(Service!avars)
  <2>1. ASSUME NEW pdu \in data, RecvPdu(pdu) PROVE [Service!ANext]_(Service!avars)
    <3>. DEFINE seg == pdu.seg
    <3>1. /\ \/ log' = log
             \/ Receive(seg) /\ InRecvWindow(Sn(seg.sdu))
          /\ UNCHANGED tx /\ overtaken' = overtaken /\ InTime(seg.sdu)
      BY <2>1 DEF RecvPdu, history
    <3>2. seg \in Segment /\ seg.sdu < sent
      BY <1>0 DEF SenderInv, LinkType, SenderParts
    <3>3. seg.sdu \in Nat
      BY <3>2, SegmentIs DEF Inv, RxInv
    <3>4. Confirmed' = Confirmed /\ sent' = sent
      <4>1. UNCHANGED <<sent, rest, wait_list, retransmit_list>>
        BY <3>1 DEF tx
      <4>. QED BY <4>1, ConfirmedSame DEF SdusListed, Listed
    <3>5. Aligned
      BY <1>3, <1>7, <3>1 DEF Exact
    <3>. HIDE DEF seg
    <3>6. CASE log' = log
      BY <1>1, <3>1, <3>4, <3>6
    <3>7. CASE log' # log
      <4>1. Receive(seg) /\ InRecvWindow(Sn(seg.sdu))
        BY <3>1, <3>7
      <4>2. passed <= seg.sdu
        BY <3>1, <3>2, <3>3, <3>5, <4>1, PduInWindow
      <4>3. log' = Append(log, {seg.sdu}) /\ seg.sdu \notin processed
        BY <3>2, <3>5, <3>7, <4>1, <4>2, ReceiveExact
      <4>4. seg.sdu \notin Delivered
        <5>1. Delivered = 0..(passed - 1) \cup processed /\ passed \in Nat
          BY <3>5 DEF Aligned, InStep, Inv, RxInv, RxType
        <5>. QED BY <3>3, <4>2, <4>3, <5>1
      <4>5. seg.sdu \in 0..(sent - 1) \ Service!DeliveredSdus
        BY <1>3, <3>2, <3>3, <4>4 DEF Delivered, Service!DeliveredSdus
      <4>. QED BY <3>1, <3>4, <4>3, <4>5 DEF Service!ANext, Service!Deliver
    <3>. QED BY <3>6, <3>7
  <2>5. ASSUME NEW pdu \in data, DiscardPdu(pdu) PROVE [Service!ANext]_(Service!avars)
    BY <1>1, <1>4, <2>5 DEF DiscardPdu, history
  <2>2. CASE TReassemblyExpires
    BY <1>1, <1>4, <2>2 DEF TReassemblyExpires, history
  <2>3. CASE TStatusProhibitExpires
    BY <1>1, <1>4, <2>3 DEF TStatusProhibitExpires, history
  <2>4. ASSUME NEW c \in Cuts, GenerateStatus(c) PROVE [Service!ANext]_(Service!avars)
    BY <1>1, <1>4, <2>4 DEF GenerateStatus, history
  <2>. QED BY <1>7, <2>1, <2>2, <2>3, <2>4, <2>5 DEF Receiver
<1>8. ASSUME Lose PROVE Same
    BY <1>4, <1>8 DEF Lose, rx, history
<1>9. ASSUME UNCHANGED vars PROVE Same
    BY <1>4, <1>9 DEF vars, rx, history
<1>. HIDE DEF Same
<1>. QED BY <1>1, <1>2, <1>5, <1>6, <1>7, <1>8, <1>9 DEF Next

(* Refinement, for every window, size and number of SDUs: through loss,    *)
(* reordering, segmentation, retransmission and re-establishment, each SDU *)
(* is delivered at most once and from its own bytes                        *)
(* (reassemble_and_deliver), and sdu_successful_delivery comes after that  *)
(* and for good.                                                           *)
THEOREM BearerImplementsService == Spec => DeliversOnce
<1>1. Init => Service!AInit
  <2>1. 0..(0 - 1) = {}
    OBVIOUS
  <2>. QED BY <2>1 DEF Init, Service!AInit, Confirmed
<1>2. Init => Exact
    BY InitAligned DEF Exact
<1>3. Inv /\ Exact /\ ConfirmedIsDelivered' /\ [Next]_vars => [Service!ANext]_(Service!avars)
    BY StepOfService
<1>4. Inv /\ Exact => ConfirmedIsDelivered
    BY AlignedFacts DEF Exact, ConfirmedIsDelivered
<1>. QED BY <1>1, <1>2, <1>3, <1>4, InitInv, NextInv, NextExact, PTL DEF Spec, DeliversOnce, Service!ASpec

-----------------------------------------------------------------------------

(* All that can be sent was sent, with the polls that belong to it.        *)
Quiet == ~bypassed /\ ~overtaken /\ ((queued = 0 /\ rest = 0) \/ Stalling(sent))

(* Then the last poll was about the last SDU.                              *)
PollIsLast == Quiet /\ sent > 0 => poll_sn = Sn(sent - 1)

(* And what waits while no poll is out comes before something to           *)
(* retransmit, which will carry a poll.                                    *)
WaitIsCovered ==
    Quiet /\ ~t_poll_retransmit /\ ~force_poll =>
        \A s \in wait_list : \E r \in retransmit_list : s.sdu <= r.sdu

(* The inductive invariant of polling.                                     *)
Polled == PollIsLast /\ WaitIsCovered

(* It is about the sender only.                                            *)
LEMMA PolledUnchanged ==
    ASSUME Polled, UNCHANGED <<tx, history>>
    PROVE  Polled'
BY DEF Polled, PollIsLast, WaitIsCovered, Quiet, Stalling, modulus_tx, tx, history

(* The actions of the sender keep it. With a new SDU in tx_list it has     *)
(* nothing to say.                                                         *)
LEMMA RecvSduPolled ==
    ASSUME Inv, Polled, RecvSdu
    PROVE  Polled'
<1>1. /\ queued' = queued + 1
      /\ UNCHANGED <<history, sent, tx_next_ack, poll_sn, force_poll, t_poll_retransmit, rest,
                     wait_list, retransmit_list>>
    BY DEF RecvSdu
<1>2. queued' # 0
    BY <1>1, SenderFacts DEF Inv
<1>3. Quiet' => Quiet
    BY <1>1, <1>2 DEF Quiet, Stalling, modulus_tx, history
<1>. QED BY <1>1, <1>3 DEF Polled, PollIsLast, WaitIsCovered

(* generate_retx_pdu serves the lowest SN first, so what it leaves still   *)
(* covers all that waits.                                                  *)
LEMMA GenerateRetxPduPolled ==
    ASSUME Inv, Exact, Polled, NEW room \in Grants, GenerateRetxPdu(room)
    PROVE  Polled'
<1>. DEFINE seg == HeadOf(retransmit_list)
            n == Smaller(room, seg.size)
            retx == (retransmit_list \ {seg}) \cup Remainder(seg, n)
            p == force_poll \/ PollIsDue(sent, queued > 0 \/ rest # 0, retx)
<1>0. SenderInv
    BY DEF Inv
<1>1. /\ retransmit_list # {} /\ retransmit_list' = retx
      /\ wait_list' = wait_list \cup {First(seg, n)}
      /\ force_poll' = FALSE
      /\ poll_sn' = IF p THEN Sn(sent - 1) ELSE poll_sn
      /\ t_poll_retransmit' = (p \/ t_poll_retransmit)
      /\ bypassed' = (bypassed /\ ~p)
      /\ UNCHANGED <<overtaken, sent, tx_next_ack, queued, rest>>
    BY DEF GenerateRetxPdu, Send
<1>2. seg \in retransmit_list /\ seg \in Segment /\ sdu_size \in SduSizes
    BY <1>0, <1>1, SenderFacts DEF Listed, SenderInv, TxType
<1>3. n \in 1..seg.size
  <2>1. seg.size \in Nat /\ seg.size >= 1
    BY <1>2, SegmentIs
  <2>2. room \in Nat /\ room >= 1
    BY ChoiceAssumption
  <2>. QED BY <2>1, <2>2, SmallerIs
<1>4. ~p => ~force_poll /\ ~Stalling(sent) /\ (queued > 0 \/ rest # 0 \/ retx # {})
    BY DEF PollIsDue
<1>5. ASSUME Aligned, NEW r \in retransmit_list PROVE seg.sdu <= r.sdu
  <2>1. tx_next_ack \in SN /\ \A s \in retransmit_list : s.sdu \in Nat /\ s.so \in Nat
    BY <1>0, SenderFacts DEF Listed, SenderInv, TxType
  <2>2. modulus_tx(Sn(seg.sdu)) <= modulus_tx(Sn(r.sdu))
    BY <1>1, <2>1, HeadIsFirst
  <2>. HIDE DEF seg
  <2>3. /\ Base \in Int /\ sent \in Nat /\ seg.sdu < sent /\ r.sdu < sent
        /\ seg.sdu \in Int /\ r.sdu \in Int
    BY <1>0, <1>2, BaseFacts DEF Listed
  <2>4. sent <= Base + WindowSize /\ Base <= seg.sdu /\ Base <= r.sdu
    BY <1>2, <1>5 DEF Aligned, SenderWindow, Listed
  <2>5. WindowSize \in Nat /\ SnModulus = 2 * WindowSize
    BY Modulus
  <2>6. modulus_tx(Sn(seg.sdu)) = seg.sdu - Base /\ modulus_tx(Sn(r.sdu)) = r.sdu - Base
    BY <2>1, <2>3, <2>4, <2>5, TxExact
  <2>. QED BY <2>2, <2>3, <2>6
<1>. HIDE DEF seg, n
<1>6. First(seg, n).sdu = seg.sdu /\ \A r \in Remainder(seg, n) : r.sdu = seg.sdu
    BY <1>2, <1>3, SplitSegment
<1>7. \A s \in Listed : s.sdu \in Nat
    BY <1>0, SenderFacts
<1>. HIDE DEF p, retx
<1>8. CASE p
    BY <1>1, <1>8 DEF Polled, PollIsLast, WaitIsCovered
<1>9. CASE ~p
  <2>1. Quiet' => Quiet
    BY <1>1, <1>9 DEF Quiet, Stalling, modulus_tx
  <2>2. PollIsLast'
    BY <1>1, <1>9, <2>1 DEF Polled, PollIsLast
  <2>3. ASSUME Quiet', ~t_poll_retransmit', NEW s \in wait_list'
        PROVE  \E r \in retx : s.sdu <= r.sdu
    <3>1. Quiet /\ ~t_poll_retransmit /\ ~force_poll
      BY <1>1, <1>4, <1>9, <2>1, <2>3
    <3>2. Aligned
      BY <3>1 DEF Quiet, Exact
    <3>3. queued = 0 /\ rest = 0
      BY <1>4, <1>9, <3>1 DEF Quiet
    <3>4. PICK t \in retx : TRUE
      BY <1>4, <1>9, <3>3
    <3>5. seg.sdu <= t.sdu
      <4>1. CASE t \in retransmit_list
        BY <1>5, <3>2, <4>1
      <4>2. CASE t \in Remainder(seg, n)
        BY <1>2, <1>6, <1>7, <4>2 DEF Listed
      <4>. QED BY <4>1, <4>2 DEF retx
    <3>6. CASE s \in wait_list
      <4>1. PICK r \in retransmit_list : s.sdu <= r.sdu
        BY <3>1, <3>6 DEF Polled, WaitIsCovered
      <4>2. CASE r = seg
        <5>1. t.sdu \in Nat /\ seg.sdu \in Nat /\ s.sdu \in Nat
          BY <1>2, <1>6, <1>7, <3>6 DEF retx, Listed
        <5>. QED BY <3>5, <4>1, <4>2, <5>1
      <4>3. CASE r # seg
        BY <4>1, <4>3 DEF retx
      <4>. QED BY <4>2, <4>3
    <3>7. CASE s = First(seg, n)
      BY <1>6, <3>5, <3>7
    <3>. QED BY <1>1, <2>3, <3>6, <3>7
  <2>4. WaitIsCovered'
    BY <1>1, <2>3 DEF WaitIsCovered
  <2>. QED BY <2>2, <2>4 DEF Polled
<1>. QED BY <1>8, <1>9

(* generate_tx_pdu polls with the last SDU, unless something is left to    *)
(* retransmit: then the SDU went past it.                                  *)
LEMMA GenerateTxPduPolled ==
    ASSUME Inv, Polled, NEW room \in Grants, NEW early \in PollEarly, GenerateTxPdu(room, early)
    PROVE  Polled'
<1>. DEFINE p == TxPoll(room, early)
<1>1. /\ queued > 0 \/ rest # 0
      /\ sent' = TxSdu /\ queued' = TxQueued /\ rest' = TxLeft(room)
      /\ poll_sn' = IF p THEN Sn(TxSdu - 1) ELSE poll_sn
      /\ t_poll_retransmit' = (p \/ t_poll_retransmit)
      /\ bypassed' = ((bypassed \/ retransmit_list # {}) /\ ~p)
      /\ tx_next_ack' = tx_next_ack
    BY GenerateTxPduIs DEF Send
<1>2. ~p => /\ ~Stalling(TxSdu)
            /\ TxQueued > 0 \/ TxLeft(room) # 0 \/ retransmit_list # {}
    BY DEF TxPoll, PollIsDue
<1>3. TxQueued \in Nat
    BY <1>1, TxSegmentFacts, SizeAssumption DEF Inv
<1>. HIDE DEF p
<1>4. CASE p
    BY <1>1, <1>4 DEF Polled, PollIsLast, WaitIsCovered
<1>5. CASE ~p
  <2>1. Stalling(sent)' <=> Stalling(TxSdu)
    BY <1>1 DEF Stalling, modulus_tx, Sn
  <2>2. ~Quiet'
    <3>1. TxQueued = 0 => ~(TxQueued > 0)
      OBVIOUS
    <3>2. bypassed' = (bypassed \/ retransmit_list # {})
      BY <1>1, <1>5
    <3>3. Quiet' => retransmit_list = {} /\ (Stalling(TxSdu) \/ (TxQueued = 0 /\ TxLeft(room) = 0))
      BY <1>1, <2>1, <3>2 DEF Quiet
    <3>. QED BY <1>2, <1>5, <3>1, <3>3
  <2>. QED BY <2>2 DEF Polled, PollIsLast, WaitIsCovered
<1>. QED BY <1>4, <1>5

(* check_t_poll_retransmit asks for a poll.                                *)
LEMMA TPollRetransmitExpiresPolled ==
    ASSUME Polled, TPollRetransmitExpires
    PROVE  Polled'
<1>1. /\ force_poll' = TRUE
      /\ UNCHANGED <<history, sent, tx_next_ack, poll_sn, queued, rest>>
    BY DEF TPollRetransmitExpires
<1>2. Quiet' => Quiet
    BY <1>1 DEF Quiet, Stalling, modulus_tx, history
<1>. QED BY <1>1, <1>2 DEF Polled, PollIsLast, WaitIsCovered

(* A STATUS PDU that answers the poll acknowledges or NACKs all that       *)
(* waits; one that does not leaves what it did not acknowledge, and what   *)
(* covers it.                                                              *)
LEMMA RecvStatusPolled ==
    ASSUME Inv, Exact, Polled, NEW st \in status, RecvStatus(st), Valid(st), sdu_size' = sdu_size
    PROVE  Polled'
<1>. SUFFICES ASSUME ~overtaken' PROVE Polled'
    BY DEF Polled, PollIsLast, WaitIsCovered, Quiet
<1>1. /\ wait_list' = StatusWait(st) /\ retransmit_list' = StatusRetx(st)
      /\ t_poll_retransmit' = (t_poll_retransmit /\ ~Answers(st))
      /\ overtaken' = (overtaken \/ (rest # 0 /\ tx_next_ack' = tx_next))
      /\ UNCHANGED <<sent, poll_sn, force_poll, queued, rest, bypassed>>
    BY RecvStatusIs
<1>2. Aligned /\ SenderInv
    BY <1>1 DEF Exact, Inv
<1>3. Base <= Base'
    BY <1>2, RecvStatusAligned
<1>4. /\ Base \in Int /\ Base <= sent /\ tx_next_ack \in SN /\ sent \in Nat
      /\ \A s \in Listed : s.sdu \in Nat /\ s.sdu < sent /\ Base <= s.sdu
    BY <1>2, BaseFacts DEF Aligned, SenderWindow
<1>5. /\ WindowSize \in Nat /\ WindowSize >= 2 /\ SnModulus = 2 * WindowSize
      /\ sent <= Base + WindowSize
    BY <1>2, Modulus DEF Aligned, SenderWindow
<1>6. Quiet' => Quiet
  <2>1. ASSUME Stalling(sent)' PROVE Stalling(sent)
    <3>1. PICK d \in Int : d = modulus_rx(tx_next_ack', Sn(sent)) /\ Base' = sent - d
      <4>1. tx_next_ack' \in Int /\ Sn(sent) \in Int
        <5>1. tx_next_ack' \in {tx_next, Sn(st.ack)} \/ \E s \in Listed : tx_next_ack' = Sn(s.sdu)
          <6>1. StatusWait(st) \cup StatusRetx(st) \subseteq Listed
            BY <1>2, SenderFacts, StatusLists
          <6>2. \A s \in StatusWait(st) \cup StatusRetx(st) : Sn(s.sdu) \in SN
            BY <1>4, <6>1, SnType
          <6>3. Sn(st.ack) \in SN /\ tx_next \in SN
            BY <1>2, <1>4, SnType, StatusExact DEF tx_next
          <6>4. tx_next_ack' = NextAck(StatusWait(st), StatusRetx(st), Sn(st.ack))
            BY RecvStatusIs
          <6>. QED BY <1>4, <6>1, <6>2, <6>3, <6>4, NextAckIsLeast
        <5>. QED BY <1>2, <1>4, <5>1, SnType, StatusExact DEF tx_next
      <4>2. modulus_rx(tx_next_ack', Sn(sent)) \in 0..(SnModulus - 1)
        BY <4>1, DistanceType
      <4>3. Base' = sent - modulus_rx(tx_next_ack', Sn(sent))
        BY <1>1 DEF Base, BaseOf, modulus_rx, Sn
      <4>. QED BY <1>5, <4>2, <4>3
    <3>2. d >= WindowSize
      <4>1. modulus_rx(tx_next_ack', Sn(sent)) >= WindowSize
        <5>1. Stalling(sent)' = (modulus_rx(tx_next_ack', Sn(sent')) >= WindowSize)
          BY DEF Stalling, modulus_tx, modulus_rx, Sn
        <5>. QED BY <1>1, <2>1, <5>1
      <4>. QED BY <3>1, <4>1
    <3>3. modulus_tx(Sn(sent)) = sent - Base
      BY <1>4, <1>5, TxExact
    <3>. QED BY <1>3, <1>4, <1>5, <3>1, <3>2, <3>3 DEF Stalling
  <2>. QED BY <1>1, <2>1 DEF Quiet
<1>7. /\ st.ack \in Nat /\ Base <= st.ack /\ st.ack <= sent
      /\ modulus_tx(Sn(st.ack)) = st.ack - Base
      /\ \A b \in st.nacks : b \in Byte /\ Base <= b.sdu /\ b.sdu < st.ack
      /\ \A s \in Listed : /\ modulus_tx(Sn(s.sdu)) = s.sdu - Base
                           /\ Acked(s, st) <=> BytesOf(s) \cap st.nacks = {} /\ s.sdu < st.ack
                           /\ Nacked(s, st) <=> BytesOf(s) \cap st.nacks # {}
    BY <1>2, StatusExact
<1>8. ASSUME NEW s \in wait_list' PROVE s \in wait_list /\ s \in Listed /\ st.ack <= s.sdu
  <2>1. s \in wait_list /\ ~Nacked(s, st) /\ ~Acked(s, st)
    BY <1>1 DEF StatusWait, StaysInWaitList
  <2>2. s \in Listed
    BY <2>1 DEF Listed
  <2>. QED BY <1>4, <1>7, <2>1, <2>2
<1>9. ASSUME Quiet', ~t_poll_retransmit', ~force_poll', NEW s \in wait_list'
      PROVE  \E r \in retransmit_list' : s.sdu <= r.sdu
  <2>0. Quiet /\ ~force_poll
    BY <1>1, <1>6, <1>9
  <2>1. CASE ~t_poll_retransmit
    <3>1. PICK r \in retransmit_list : s.sdu <= r.sdu
      BY <1>8, <2>0, <2>1 DEF Polled, WaitIsCovered
    <3>2. r \in Listed
      BY DEF Listed
    <3>3. ~(r.sdu < st.ack)
      BY <1>4, <1>7, <1>8, <3>1, <3>2
    <3>4. r \in retransmit_list'
      BY <1>1, <1>7, <3>2, <3>3 DEF StatusRetx
    <3>. QED BY <3>1, <3>4
  <2>2. CASE Answers(st)
    <3>1. s \in Listed /\ s.sdu \in Nat /\ s.sdu < sent /\ Base <= s.sdu /\ st.ack <= s.sdu
      BY <1>4, <1>8
    <3>2. poll_sn = Sn(sent - 1)
      BY <1>4, <2>0, <3>1 DEF Polled, PollIsLast
    <3>3. PICK last \in Int : last = sent - 1
      BY <1>4
    <3>4. modulus_tx(poll_sn) = last - Base
      BY <1>4, <1>5, <3>1, <3>2, <3>3, TxExact
    <3>5. CASE modulus_tx(poll_sn) < modulus_tx(Sn(st.ack))
      BY <1>4, <1>7, <3>1, <3>3, <3>4, <3>5
    <3>6. CASE \E b \in st.nacks : Sn(b.sdu) = poll_sn
      <4>1. PICK b \in st.nacks : Sn(b.sdu) = poll_sn
        BY <3>6
      <4>2. b \in Byte /\ Base <= b.sdu /\ b.sdu < st.ack
        BY <1>7
      <4>3. b.sdu \in Int
        BY <1>2, <4>2, ByteIs DEF SenderInv, TxType
      <4>4. modulus_tx(Sn(b.sdu)) = b.sdu - Base
        BY <1>4, <1>5, <1>7, <4>2, <4>3, TxExact
      <4>. QED BY <1>4, <1>7, <3>1, <3>3, <3>4, <4>1, <4>2, <4>3, <4>4
    <3>. QED BY <2>2, <3>5, <3>6 DEF Answers
  <2>. QED BY <1>1, <1>9, <2>1, <2>2
<1>10. PollIsLast'
    BY <1>1, <1>6 DEF Polled, PollIsLast
<1>. QED BY <1>9, <1>10 DEF Polled, WaitIsCovered

(* Every step keeps it.                                                    *)
LEMMA NextPolled == Inv /\ Exact /\ Polled /\ [Next]_vars => Polled'
<1>. SUFFICES ASSUME Inv, Exact, Polled, [Next]_vars PROVE Polled'
    OBVIOUS
<1>1. ASSUME Sender, sdu_size' = sdu_size PROVE Polled'
  <2>1. ASSUME NEW st \in status, RecvStatus(st) PROVE Polled'
    <3>1. CASE ~Valid(st)
      BY <2>1, <3>1, RecvStatusInvalidIs, PolledUnchanged DEF history
    <3>2. CASE Valid(st)
      BY <1>1, <2>1, <3>2, RecvStatusPolled
    <3>. QED BY <3>1, <3>2
  <2>. QED BY <1>1, <2>1, RecvSduPolled, GenerateRetxPduPolled, GenerateTxPduPolled,
              TPollRetransmitExpiresPolled DEF Sender
<1>2. ASSUME Receiver PROVE UNCHANGED <<tx, history>>
    BY <1>2 DEF Receiver, RecvPdu, DiscardPdu, TReassemblyExpires, TStatusProhibitExpires,
        GenerateStatus
<1>3. ASSUME Lose \/ UNCHANGED vars PROVE UNCHANGED <<tx, history>>
    BY <1>3 DEF Lose, vars
<1>4. ASSUME Reestablishment PROVE Polled'
  <2>1. sent' = 0 /\ wait_list' = {}
    BY <1>4 DEF Reestablishment
  <2>. QED BY <2>1 DEF Polled, PollIsLast, WaitIsCovered
<1>. QED BY <1>1, <1>2, <1>3, <1>4, PolledUnchanged DEF Next

(* For every window, size and schedule of grants: when all that can be     *)
(* sent was sent and something waits for its ACK, a poll is out or will be *)
(* (check_poll_after_pdu_assembly), unless data was sent past              *)
(* retransmit_list or tx_next_ack passed an SDU.                           *)
THEOREM PollsAreOut == Spec => []PollIsOut
<1>1. Init => Exact /\ Polled
    BY InitAligned DEF Exact, Init, Polled, PollIsLast, WaitIsCovered
<1>2. Polled => PollIsOut
    BY DEF Polled, WaitIsCovered, Quiet, PollIsOut
<1>. QED BY <1>1, <1>2, InitInv, NextInv, NextExact, NextPolled, PTL DEF Spec
-----------------------------------------------------------------------------

(* The SDUs of which every byte was sent are those below Whole.            *)
Whole == IF rest = 0 THEN sent ELSE sent - 1

(* The STATUS PDU acknowledges the byte.                                   *)
Vouches(st, b) == b.sdu < st.ack /\ b \notin st.nacks

(* A byte is listed that none of the STATUS PDUs in S acknowledges.        *)
Open(S) == \E b \in Byte : b.sdu < Whole /\ Tracked(b) /\ \A st \in S : ~Vouches(st, b)

(* The STATUS PDU acknowledges all that was sent, up to an SDU that is     *)
(* being sent.                                                             *)
Covers(st) == Whole <= st.ack /\ \A b \in Byte : b.sdu < Whole => Vouches(st, b)

(* All of that was freed, and tx_next_ack has followed.                    *)
AllFreed == Whole <= Base /\ \A b \in Byte : Tracked(b) => Whole <= b.sdu

(* The order of the STATUS PDUs, without a clock: whichever of those under *)
(* way arrive, something stays listed, unless one of them acknowledges all *)
(* on its own. The last of them to be generated, and of those that came    *)
(* before, names a byte that none of the others can acknowledge.           *)
LeftBy(S) == Open(S) \/ (\E st \in S : Covers(st)) \/ AllFreed
StatusesOrdered == \A S \in SUBSET status : LeftBy(S)

(* The peer has no byte that was not sent yet.                             *)
NotYetThere ==
    \A b \in Byte : Unsent(b) => ~Got(b) /\ \A pdu \in data : b \notin BytesOf(pdu.seg)

(* The peer keeps what it delivered until rx_next has gone past it.        *)
ProcessedKept == \A i \in processed : Complete(rx_list, i)

(* While t_poll_retransmit runs, tx_next_ack has not passed the poll.      *)
PollAhead == t_poll_retransmit => modulus_tx(poll_sn) < sent - Base

(* The inductive invariant.                                                *)
Awaited == StatusesOrdered /\ NotYetThere /\ ProcessedKept /\ PollAhead
AwaitedIfExact == ~overtaken => Awaited

(* Whole is a number.                                                      *)
LEMMA WholeIs ==
    ASSUME SenderInv
    PROVE  Whole \in Nat /\ Whole <= sent /\ sent <= Whole + 1
<1>1. sent \in Nat /\ (rest # 0 => sent > 0)
    BY BaseFacts
<1>. QED BY <1>1 DEF Whole

(* The order does not depend on how the lists are cut, and losing a STATUS *)
(* PDU does not disturb it.                                                *)
LEMMA OrderFrame ==
    ASSUME StatusesOrdered, UNCHANGED <<sdu_size, sent, tx_next_ack, rest>>,
           status' \subseteq status, \A b \in Byte : Tracked(b)' <=> Tracked(b)
    PROVE  StatusesOrdered'
<1>1. Base' = Base /\ Whole' = Whole /\ Byte' = Byte
    BY SameSizes DEF Base, Whole
<1>2. ASSUME NEW S \in SUBSET status' PROVE LeftBy(S)'
  <2>1. LeftBy(S)
    BY <1>2 DEF StatusesOrdered
  <2>2. Open(S) => Open(S)'
    BY <1>1 DEF Open
  <2>3. \A st : Covers(st) => Covers(st)'
    BY <1>1 DEF Covers
  <2>4. AllFreed => AllFreed'
    BY <1>1 DEF AllFreed
  <2>. QED BY <2>1, <2>2, <2>3, <2>4 DEF LeftBy
<1>. QED BY <1>2 DEF StatusesOrdered

(* process_control_pdu: what the STATUS PDU frees was acknowledged by it,  *)
(* so the others leave what they left together with it.                    *)
LEMMA RecvStatusOrdered ==
    ASSUME Inv, Aligned, StatusesOrdered, NEW st \in status, RecvStatus(st), Valid(st),
           sdu_size' = sdu_size
    PROVE  StatusesOrdered'
<1>0. SenderInv
    BY DEF Inv
<1>1. /\ status' = status \ {st} /\ UNCHANGED <<sent, rest>>
      /\ wait_list' = StatusWait(st) /\ retransmit_list' = StatusRetx(st)
    BY RecvStatusIs
<1>2. Whole' = Whole /\ Byte' = Byte
    BY <1>1, SameSizes DEF Whole
<1>3. /\ sdu_size \in SduSizes /\ Listed \subseteq Segment /\ sent \in Nat /\ Base \in Int
      /\ \A s \in Listed : s.sdu \in Nat
      /\ Whole \in Nat /\ Whole <= sent
    BY <1>0, BaseFacts, WholeIs
<1>4. /\ st.ack \in Nat
      /\ \A s \in Listed : Acked(s, st) <=> BytesOf(s) \cap st.nacks = {} /\ s.sdu < st.ack
    BY StatusExact
<1>5. /\ Listed' \subseteq Listed
      /\ \A s \in Listed : s \in Listed' <=> ~Acked(s, st)
  <2>1. Listed' = StatusWait(st) \cup StatusRetx(st)
    BY <1>1 DEF Listed
  <2>2. StatusWait(st) \cup StatusRetx(st) \subseteq Listed
    BY <1>0, SenderFacts, StatusLists
  <2>. QED BY <2>1, <2>2 DEF Listed, StatusWait, StatusRetx, StaysInWaitList, Acked
<1>6. \A s \in Listed : \A b \in BytesOf(s) : b.sdu = s.sdu
    BY <1>3, BytesOfSegment
<1>7. ASSUME NEW b \in Byte, Tracked(b), ~Vouches(st, b) PROVE Tracked(b)'
  <2>1. PICK s \in Listed : b \in BytesOf(s)
    BY <1>7 DEF Tracked
  <2>2. ~Acked(s, st)
    BY <1>4, <1>6, <1>7, <2>1 DEF Vouches
  <2>3. s \in Listed'
    BY <1>5, <2>2
  <2>. QED BY <2>1, <2>3 DEF Tracked
<1>8. \A b : Tracked(b)' => Tracked(b)
    BY <1>5 DEF Tracked
<1>9. /\ Base' \in Nat /\ Base <= Base'
      /\ Base' = sent \/ Base' = st.ack \/ \E s \in Listed' : Base' = s.sdu
    BY NextBase
<1>10. ASSUME Covers(st) PROVE AllFreed'
  <2>1. ASSUME NEW s \in Listed' PROVE Whole <= s.sdu
    <3>1. s \in Listed /\ ~Acked(s, st) /\ s.sdu \in Nat
      BY <1>3, <1>5
    <3>2. CASE s.sdu >= st.ack
      BY <1>3, <1>4, <1>10, <3>1, <3>2 DEF Covers
    <3>3. CASE BytesOf(s) \cap st.nacks # {}
      <4>1. PICK b \in BytesOf(s) : b \in st.nacks
        BY <3>3
      <4>2. b \in Byte /\ b.sdu = s.sdu
        BY <1>3, <1>6, <3>1, BytesOfSegment
      <4>3. ~(b.sdu < Whole)
        BY <1>10, <4>1, <4>2 DEF Covers, Vouches
      <4>. QED BY <1>3, <3>1, <4>2, <4>3
    <3>. QED BY <1>4, <3>1, <3>2, <3>3
  <2>2. Whole <= Base'
    BY <1>3, <1>4, <1>9, <1>10, <2>1 DEF Covers
  <2>3. ASSUME NEW b \in Byte, Tracked(b)' PROVE Whole <= b.sdu
    <3>1. PICK s \in Listed' : b \in BytesOf(s)
      BY <2>3 DEF Tracked
    <3>. QED BY <1>5, <1>6, <2>1, <3>1
  <2>. QED BY <1>2, <2>2, <2>3 DEF AllFreed
<1>11. ASSUME NEW S \in SUBSET status' PROVE LeftBy(S)'
  <2>1. S \cup {st} \in SUBSET status
    BY <1>1, <1>11
  <2>2. LeftBy(S \cup {st})
    BY <2>1 DEF StatusesOrdered
  <2>3. Open(S \cup {st}) => Open(S)'
    <3>1. ASSUME NEW b \in Byte, b.sdu < Whole, Tracked(b), \A t \in S \cup {st} : ~Vouches(t, b)
          PROVE  Open(S)'
      BY <1>2, <1>7, <3>1 DEF Open
    <3>. QED BY <3>1 DEF Open
  <2>4. \A t : Covers(t) => Covers(t)'
    BY <1>2 DEF Covers
  <2>5. AllFreed => AllFreed'
    BY <1>2, <1>3, <1>8, <1>9 DEF AllFreed
  <2>. QED BY <1>10, <2>2, <2>3, <2>4, <2>5 DEF LeftBy
<1>. QED BY <1>11 DEF StatusesOrdered

(* generate_tx_pdu: when it sends the end of an SDU, no STATUS PDU under   *)
(* way acknowledges what it just sent.                                     *)
LEMMA GenerateTxPduOrdered ==
    ASSUME Inv, Aligned, StatusesOrdered, NotYetThere, NEW room \in Grants,
           NEW early \in PollEarly, GenerateTxPdu(room, early), sdu_size' = sdu_size
    PROVE  StatusesOrdered'
<1>. DEFINE seg == TxSegment(room)
<1>0. SenderInv
    BY DEF Inv
<1>1. /\ queued > 0 \/ rest # 0
      /\ sent' = TxSdu /\ rest' = TxLeft(room) /\ status' = status
    BY GenerateTxPduIs
<1>2. /\ TxSdu \in Nat /\ TxSdu >= 1 /\ TxSdu - 1 \in Sdu
      /\ TxBytes(room) \in Nat /\ TxBytes(room) >= 1
      /\ rest \in Nat /\ rest + TxBytes(room) <= sdu_size[TxSdu - 1]
      /\ seg \in Segment /\ seg.sdu = TxSdu - 1 /\ seg.so = rest
    BY <1>0, <1>1, TxSegmentFacts
<1>3. /\ Base' = Base /\ Listed' = Listed \cup {seg} /\ Byte' = Byte
      /\ rest = 0 => TxSdu = sent + 1
      /\ rest # 0 => TxSdu = sent
    BY TxSegmentAhead, SameSizes
<1>. HIDE DEF seg
<1>4. /\ sdu_size \in SduSizes /\ sent \in Nat
      /\ \A s \in Listed : s.sdu \in Nat
    BY <1>0, BaseFacts
<1>5. \A b \in Byte : Tracked(b) => Tracked(b)'
    BY <1>3 DEF Tracked
<1>6. \A b \in BytesOf(seg) : b.sdu = TxSdu - 1
    BY <1>2, <1>4, BytesOfSegment
<1>7. CASE TxLeft(room) # 0
  <2>1. Whole' = Whole /\ Whole = TxSdu - 1
    BY <1>1, <1>2, <1>3, <1>4, <1>7 DEF Whole
  <2>2. \A b \in Byte : Tracked(b)' => Tracked(b) \/ Whole <= b.sdu
    <3>1. ASSUME NEW b \in BytesOf(seg) PROVE Whole <= b.sdu
      BY <1>2, <1>6, <2>1
    <3>. QED BY <1>3, <3>1 DEF Tracked
  <2>3. ASSUME NEW S \in SUBSET status PROVE LeftBy(S)'
    <3>1. LeftBy(S)
      BY DEF StatusesOrdered
    <3>2. Open(S) => Open(S)'
      BY <1>3, <1>5, <2>1 DEF Open
    <3>3. \A st : Covers(st) => Covers(st)'
      BY <1>3, <2>1 DEF Covers
    <3>4. AllFreed => AllFreed'
      BY <1>3, <2>1, <2>2 DEF AllFreed
    <3>. QED BY <3>1, <3>2, <3>3, <3>4 DEF LeftBy
  <2>. QED BY <1>1, <2>3 DEF StatusesOrdered
<1>8. CASE TxLeft(room) = 0
  <2>1. Whole' = TxSdu
    BY <1>1, <1>8 DEF Whole
  <2>2. PICK b \in Byte : b = [sdu |-> seg.sdu, so |-> seg.so]
    BY <1>2, <1>4, BytesOfSegment
  <2>3. b \in BytesOf(seg) /\ b.sdu = TxSdu - 1 /\ b.so = rest
    BY <1>2, <1>4, <2>2, BytesOfSegment
  <2>4. Tracked(b)'
    BY <1>3, <2>3 DEF Tracked
  <2>5. ASSUME NEW st \in status PROVE ~Vouches(st, b)
    <3>1. st.ack \in Nat /\ st.ack <= sent
      BY <1>0 DEF SenderInv, LinkType, Aligned, StatusInOrder
    <3>2. CASE rest = 0
      BY <1>3, <1>4, <2>3, <3>1, <3>2 DEF Vouches
    <3>3. CASE rest # 0
      <4>1. Unsent(b)
        BY <1>2, <1>3, <2>3, <3>3 DEF Unsent
      <4>2. ~Got(b)
        BY <4>1 DEF NotYetThere
      <4>. QED BY <4>2 DEF Vouches, Got, Aligned, StatusTrue
    <3>. QED BY <3>2, <3>3
  <2>6. ASSUME NEW S \in SUBSET status PROVE Open(S)'
    <3>1. b \in Byte' /\ b.sdu < Whole'
      BY <1>2, <1>3, <2>1, <2>3
    <3>. QED BY <2>4, <2>5, <2>6, <3>1 DEF Open
  <2>. QED BY <1>1, <2>6 DEF StatusesOrdered, LeftBy
<1>. QED BY <1>7, <1>8

(* generate_status acknowledges all that was sent, or leaves out a byte    *)
(* that the peer does not have.                                            *)
LEMMA StatusLeaves ==
    ASSUME Inv, Aligned, ProcessedKept, NEW c \in Cuts
    PROVE  \/ Covers(StatusOf(c))
           \/ \E b \in Byte : b.sdu < Whole /\ ~Got(b) /\ ~Vouches(StatusOf(c), b)
<1>0. SenderInv
    BY DEF Inv
<1>1. /\ passed \in Nat /\ sent \in Nat /\ passed <= sent /\ passed \notin Delivered
      /\ sdu_size \in SduSizes /\ Whole \in Nat /\ Whole <= sent /\ sent <= MaxSdus /\ MaxSdus \in Nat
    BY <1>0, AlignedFacts, BaseFacts, WholeIs, SizeAssumption DEF SenderInv, TxType
<1>2. /\ Delivered = 0..(passed - 1) \cup processed
      /\ \A i \in passed..(sent - 1) : Complete(rx_list, i) => i \in processed
    BY DEF Aligned, InStep
<1>3. /\ StatusOf(c).ack = IF NacksUpTo(c) = {} THEN passed ELSE c.sdu + 1
      /\ StatusOf(c).nacks = NacksUpTo(c)
    BY DEF StatusOf
<1>4. \A b \in Byte : b.sdu \in Nat /\ b.so \in Nat /\ b = [sdu |-> b.sdu, so |-> b.so]
    BY <1>1, ByteIs
<1>5. CASE NacksUpTo(c) = {}
  <2>1. CASE Whole <= passed
    <3>1. \A b \in Byte : b.sdu < Whole => b.sdu < passed
      BY <1>1, <1>4, <2>1
    <3>. QED BY <1>3, <1>5, <2>1, <3>1 DEF Covers, Vouches
  <2>2. CASE passed < Whole
    <3>1. passed \in passed..(sent - 1) /\ passed \in Sdu
      BY <1>1, <2>2 DEF Sdu
    <3>2. ~Complete(rx_list, passed)
      BY <1>1, <1>2, <3>1
    <3>3. PICK o \in 0..(sdu_size[passed] - 1) : [sdu |-> passed, so |-> o] \notin rx_list
      BY <3>2 DEF Complete
    <3>4. o \in Nat /\ o < sdu_size[passed]
      BY <1>1, <3>1, <3>3, Sizes
    <3>5. PICK b \in Byte : b = [sdu |-> passed, so |-> o]
      BY <1>1, <3>1, <3>4, ByteMade
    <3>6. b.sdu = passed
      BY <3>5
    <3>7. ~Got(b)
      BY <1>1, <3>3, <3>5, <3>6 DEF Got
    <3>8. ~Vouches(StatusOf(c), b)
      BY <1>1, <1>3, <1>5, <3>6 DEF Vouches
    <3>. QED BY <2>2, <3>6, <3>7, <3>8
  <2>. QED BY <1>1, <2>1, <2>2
<1>6. CASE NacksUpTo(c) # {}
  <2>. DEFINE kept == {b \in Missing : ~Before(c, b)}
  <2>1. c \in Missing /\ c \in Byte /\ c.sdu \in Nat /\ c.so \in Nat
    BY <1>1, <1>4, <1>6, CutIsMissing
  <2>2. \A b \in Missing : /\ b \in Byte /\ b.sdu >= passed
                           /\ b.so \notin Offsets(rx_list, Sn(b.sdu))
    BY DEF Missing
  <2>3. NacksUpTo(c) = IF kept = {} \/ kept = Missing THEN kept
                       ELSE kept \cup {b \in Byte : b.sdu = c.sdu /\ b.so >= c.so}
    BY DEF NacksUpTo
  <2>4. c \in kept /\ kept \subseteq Missing
    BY <2>1 DEF Before
  <2>. HIDE DEF kept
  <2>5. c \in NacksUpTo(c) /\ \A b \in NacksUpTo(c) : b \in Missing \/ b.sdu = c.sdu
    BY <2>3, <2>4
  <2>6. ASSUME NEW b \in Missing PROVE ~Got(b)
    <3>1. b \in Byte /\ b.sdu \in Nat /\ b.sdu >= passed
      BY <1>4, <2>2
    <3>2. b \notin rx_list
      BY <2>2 DEF Offsets
    <3>3. b.sdu \notin processed
      <4>1. SUFFICES ASSUME b.sdu \in processed PROVE FALSE
        OBVIOUS
      <4>2. Complete(rx_list, b.sdu)
        BY <4>1 DEF ProcessedKept
      <4>3. b.so \in 0..(sdu_size[b.sdu] - 1) /\ b = [sdu |-> b.sdu, so |-> b.so]
        <5>1. b.sdu \in Sdu /\ b.so \in Nat /\ b.so < sdu_size[b.sdu]
              /\ b = [sdu |-> b.sdu, so |-> b.so]
          BY <1>1, <3>1, ByteIs
        <5>2. sdu_size[b.sdu] \in Nat
          BY <1>1, <5>1, Sizes
        <5>. QED BY <5>1, <5>2
      <4>. QED BY <3>2, <4>2, <4>3 DEF Complete
    <3>. QED BY <1>1, <1>2, <3>1, <3>2, <3>3 DEF Got
  <2>7. CASE \E b \in NacksUpTo(c) : b \in Missing /\ b.sdu < Whole
    <3>1. PICK b \in NacksUpTo(c) : b \in Missing /\ b.sdu < Whole
      BY <2>7
    <3>2. b \in Byte /\ ~Got(b)
      BY <2>2, <2>6, <3>1
    <3>3. ~Vouches(StatusOf(c), b)
      BY <1>3, <3>1 DEF Vouches
    <3>. QED BY <3>1, <3>2, <3>3
  <2>8. CASE ~\E b \in NacksUpTo(c) : b \in Missing /\ b.sdu < Whole
    <3>1. Whole <= c.sdu
      BY <1>1, <2>1, <2>5, <2>8
    <3>2. ASSUME NEW b \in Byte, b.sdu < Whole PROVE Vouches(StatusOf(c), b)
      <4>1. b.sdu \in Nat
        BY <1>4
      <4>2. b.sdu < c.sdu /\ b.sdu < c.sdu + 1
        BY <1>1, <2>1, <3>1, <3>2, <4>1
      <4>3. b \notin NacksUpTo(c)
        BY <2>1, <2>5, <2>8, <3>2, <4>1, <4>2
      <4>. QED BY <1>3, <1>6, <4>2, <4>3 DEF Vouches
    <3>3. Whole <= StatusOf(c).ack
      BY <1>1, <1>3, <1>6, <2>1, <3>1
    <3>. QED BY <3>2, <3>3 DEF Covers
  <2>. QED BY <2>7, <2>8
<1>. QED BY <1>5, <1>6

(* So the STATUS PDU it sends is the last of those under way.              *)
LEMMA GenerateStatusOrdered ==
    ASSUME Inv, Aligned, StatusesOrdered, ProcessedKept, NEW c \in Cuts, GenerateStatus(c),
           sdu_size' = sdu_size
    PROVE  StatusesOrdered'
<1>0. SenderInv
    BY DEF Inv
<1>1. /\ status' = status \cup {StatusOf(c)}
      /\ UNCHANGED <<sent, tx_next_ack, rest, wait_list, retransmit_list>>
    BY GenerateStatusIs DEF tx
<1>2. Base' = Base /\ Whole' = Whole /\ Byte' = Byte /\ Listed' = Listed
    BY <1>1, SameSizes DEF Base, Whole, Listed
<1>3. ASSUME NEW S PROVE LeftBy(S)' <=> LeftBy(S)
    BY <1>2 DEF LeftBy, Open, Covers, AllFreed, Tracked
<1>4. ASSUME NEW S \in SUBSET status' PROVE LeftBy(S)
  <2>1. CASE StatusOf(c) \notin S
    <3>1. S \in SUBSET status
      BY <1>1, <1>4, <2>1
    <3>. QED BY <3>1 DEF StatusesOrdered
  <2>2. CASE StatusOf(c) \in S /\ Covers(StatusOf(c))
    BY <2>2 DEF LeftBy
  <2>3. CASE \E b \in Byte : b.sdu < Whole /\ ~Got(b) /\ ~Vouches(StatusOf(c), b)
    <3>1. PICK b \in Byte : b.sdu < Whole /\ ~Got(b) /\ ~Vouches(StatusOf(c), b)
      BY <2>3
    <3>2. /\ b.sdu \in Nat /\ Whole \in Nat /\ Whole <= sent /\ sent \in Nat /\ b.sdu < sent
          /\ ~Unsent(b)
      <4>1. sdu_size \in SduSizes /\ sent \in Nat /\ Whole \in Nat /\ Whole <= sent
        BY <1>0, BaseFacts, WholeIs
      <4>2. b.sdu \in Nat
        BY <4>1, ByteIs
      <4>3. rest # 0 => Whole = sent - 1
        BY DEF Whole
      <4>4. ~Unsent(b)
        BY <3>1, <4>1, <4>2, <4>3 DEF Unsent
      <4>. QED BY <3>1, <4>1, <4>2, <4>4
    <3>3. Tracked(b)
      BY <3>1, <3>2 DEF Aligned, NoByteLost, Got, Tracked
    <3>4. ASSUME NEW st \in S PROVE ~Vouches(st, b)
      <4>1. CASE st \in status
        BY <3>1, <4>1 DEF Vouches, Got, Aligned, StatusTrue
      <4>2. CASE st = StatusOf(c)
        BY <3>1, <4>2
      <4>. QED BY <1>1, <1>4, <4>1, <4>2
    <3>. QED BY <3>1, <3>3, <3>4 DEF LeftBy, Open
  <2>. QED BY <2>1, <2>2, <2>3, StatusLeaves
<1>. QED BY <1>3, <1>4 DEF StatusesOrdered

(* As long as nothing is sent or received, NotYetThere stays.              *)
LEMMA NotYetFrame ==
    ASSUME NotYetThere, UNCHANGED <<sdu_size, sent, rest, rx_list, log>>, data' \subseteq data
    PROVE  NotYetThere'
<1>1. Byte' = Byte /\ Delivered' = Delivered
    BY SameSizes DEF Delivered
<1>2. ASSUME NEW b \in Byte, Unsent(b)'
      PROVE  ~Got(b)' /\ \A pdu \in data' : b \notin BytesOf(pdu.seg)
  <2>1. Unsent(b)
    BY <1>2 DEF Unsent
  <2>. QED BY <1>1, <2>1 DEF NotYetThere, Got
<1>. QED BY <1>1, <1>2 DEF NotYetThere

(* generate_retx_pdu sends what is listed,                                 *)
LEMMA GenerateRetxPduNotYet ==
    ASSUME SenderInv, NotYetThere, NEW room \in Grants, GenerateRetxPdu(room), sdu_size' = sdu_size
    PROVE  NotYetThere'
<1>. DEFINE seg == HeadOf(retransmit_list)
            n == Smaller(room, seg.size)
            p == force_poll \/ PollIsDue(sent, queued > 0 \/ rest # 0,
                                         (retransmit_list \ {seg}) \cup Remainder(seg, n))
<1>1. /\ retransmit_list # {}
      /\ data' = data \cup {[seg |-> First(seg, n), p |-> p]}
      /\ UNCHANGED <<sent, rest, rx_list, log>>
    BY DEF GenerateRetxPdu, Send, rx
<1>2. seg \in Listed /\ seg \in Segment /\ sdu_size \in SduSizes /\ rest \in Nat
    BY <1>1, SenderFacts DEF Listed, SenderInv, TxType
<1>3. n \in 1..seg.size
  <2>1. seg.size \in Nat /\ seg.size >= 1
    BY <1>2, SegmentIs
  <2>2. room \in Nat /\ room >= 1
    BY ChoiceAssumption
  <2>. QED BY <2>1, <2>2, SmallerIs
<1>4. rest # 0 /\ seg.sdu = sent - 1 => seg.so + seg.size <= rest
    BY <1>2 DEF SenderInv, SenderParts
<1>. HIDE DEF seg, n, p
<1>5. Byte' = Byte /\ Delivered' = Delivered
    BY <1>1, SameSizes DEF Delivered
<1>6. ASSUME NEW b \in Byte, Unsent(b)' PROVE Unsent(b) /\ b \notin BytesOf(First(seg, n))
  <2>1. Unsent(b)
    BY <1>1, <1>6 DEF Unsent
  <2>2. BytesOf(First(seg, n)) \subseteq BytesOf(seg)
    BY <1>2, <1>3, SplitBytes
  <2>3. ASSUME b \in BytesOf(seg) PROVE FALSE
    <3>1. b.sdu = seg.sdu /\ b.so \in Nat /\ b.so < seg.so + seg.size
      BY <1>2, <2>3, BytesOfSegment
    <3>2. seg.so \in Nat /\ seg.size \in Nat
      BY <1>2, SegmentIs
    <3>. QED BY <1>2, <1>4, <2>1, <3>1, <3>2 DEF Unsent
  <2>. QED BY <2>1, <2>2, <2>3
<1>7. ASSUME NEW b \in Byte, Unsent(b)'
      PROVE  ~Got(b)' /\ \A pdu \in data' : b \notin BytesOf(pdu.seg)
  <2>1. ~Got(b) /\ \A pdu \in data : b \notin BytesOf(pdu.seg)
    BY <1>6, <1>7 DEF NotYetThere
  <2>2. ~Got(b)'
    BY <1>1, <1>5, <2>1 DEF Got
  <2>3. ASSUME NEW pdu \in data' PROVE b \notin BytesOf(pdu.seg)
    <3>1. CASE pdu \in data
      BY <2>1, <3>1
    <3>2. CASE pdu = [seg |-> First(seg, n), p |-> p]
      BY <1>6, <1>7, <3>2
    <3>. QED BY <1>1, <3>1, <3>2
  <2>. QED BY <2>2, <2>3
<1>. QED BY <1>5, <1>7 DEF NotYetThere

(* and generate_tx_pdu no more than it takes off tx_list.                  *)
LEMMA GenerateTxPduNotYet ==
    ASSUME Inv, Aligned, NotYetThere, NEW room \in Grants, NEW early \in PollEarly,
           GenerateTxPdu(room, early), sdu_size' = sdu_size
    PROVE  NotYetThere'
<1>. DEFINE seg == TxSegment(room)
            p == TxPoll(room, early)
<1>0. SenderInv /\ RxInv
    BY DEF Inv
<1>1. /\ queued > 0 \/ rest # 0
      /\ sent' = TxSdu /\ rest' = TxLeft(room)
      /\ data' = data \cup {[seg |-> seg, p |-> p]}
      /\ UNCHANGED <<rx_list, log>>
    BY GenerateTxPduIs DEF Send, rx
<1>2. /\ TxSdu \in Nat /\ TxSdu >= 1
      /\ TxBytes(room) \in Nat /\ TxBytes(room) >= 1
      /\ rest \in Nat
      /\ seg \in Segment /\ seg.sdu = TxSdu - 1 /\ seg.so = rest /\ seg.size = TxBytes(room)
      /\ TxLeft(room) # 0 => TxLeft(room) = rest + TxBytes(room)
    BY <1>0, <1>1, TxSegmentFacts
<1>. HIDE DEF seg, p
<1>3. /\ rest = 0 => TxSdu = sent + 1
      /\ rest # 0 => TxSdu = sent
    BY TxSegmentAhead
<1>4. Byte' = Byte /\ Delivered' = Delivered
    BY <1>1, SameSizes DEF Delivered
<1>5. /\ sdu_size \in SduSizes /\ sent \in Nat /\ passed \in Nat /\ passed <= sent
      /\ processed \subseteq Sdu /\ rx_list \subseteq Byte
    BY <1>0, BaseFacts, AlignedFacts DEF RxInv, RxType
<1>6. /\ \A b \in rx_list : b.sdu < sent
      /\ \A i \in Delivered : i < sent
      /\ \A pdu \in data : pdu.seg \in Segment /\ pdu.seg.sdu < sent
  <2>1. /\ \A b \in rx_list : b.sdu < sent
        /\ \A i \in processed : i < sent
        /\ Delivered = 0..(passed - 1) \cup processed
    BY DEF Aligned, InStep
  <2>2. \A pdu \in data : pdu.seg \in Segment /\ pdu.seg.sdu < sent
    BY <1>0 DEF SenderInv, LinkType, SenderParts
  <2>. QED BY <1>5, <2>1, <2>2
<1>7. ASSUME NEW b \in Byte, TxLeft(room) # 0, b.sdu = TxSdu - 1, b.so >= TxLeft(room)
      PROVE  ~Got(b) /\ b \notin BytesOf(seg) /\ \A pdu \in data : b \notin BytesOf(pdu.seg)
  <2>1. b.so \in Nat /\ b.sdu \in Nat
    BY <1>5, ByteIs
  <2>2. b \notin BytesOf(seg)
    <3>1. \A e \in BytesOf(seg) : e.so < seg.so + seg.size
      BY <1>2, <1>5, BytesOfSegment
    <3>2. ~(b.so < seg.so + seg.size)
      BY <1>2, <1>7, <2>1
    <3>. QED BY <3>1, <3>2
  <2>3. CASE rest # 0
    <3>1. Unsent(b)
      BY <1>2, <1>3, <1>7, <2>1, <2>3 DEF Unsent
    <3>. QED BY <2>2, <3>1 DEF NotYetThere
  <2>4. CASE rest = 0
    <3>1. b.sdu = sent
      BY <1>3, <1>5, <1>7, <2>4
    <3>2. ~Got(b)
      BY <1>5, <1>6, <3>1 DEF Got
    <3>3. ASSUME NEW pdu \in data PROVE b \notin BytesOf(pdu.seg)
      <4>1. pdu.seg \in Segment /\ pdu.seg.sdu < sent
        BY <1>6
      <4>2. \A e \in BytesOf(pdu.seg) : e.sdu = pdu.seg.sdu
        BY <1>5, <4>1, BytesOfSegment
      <4>. QED BY <1>5, <3>1, <4>1, <4>2
    <3>. QED BY <2>2, <3>2, <3>3
  <2>. QED BY <2>3, <2>4
<1>8. ASSUME NEW b \in Byte, Unsent(b)'
      PROVE  ~Got(b)' /\ \A pdu \in data' : b \notin BytesOf(pdu.seg)
  <2>1. TxLeft(room) # 0 /\ b.sdu = TxSdu - 1 /\ b.so >= TxLeft(room)
    BY <1>1, <1>8 DEF Unsent
  <2>2. ~Got(b) /\ b \notin BytesOf(seg) /\ \A pdu \in data : b \notin BytesOf(pdu.seg)
    BY <1>7, <2>1
  <2>3. ~Got(b)'
    BY <1>1, <1>4, <2>2 DEF Got
  <2>4. ASSUME NEW pdu \in data' PROVE b \notin BytesOf(pdu.seg)
    <3>1. CASE pdu \in data
      BY <2>2, <3>1
    <3>2. CASE pdu = [seg |-> seg, p |-> p]
      BY <2>2, <3>2
    <3>. QED BY <1>1, <3>1, <3>2
  <2>. QED BY <2>3, <2>4
<1>. QED BY <1>4, <1>8 DEF NotYetThere

(* reception_actions delivers an SDU with all of its bytes in rx_list, and *)
(* frees it when rx_next goes past it.                                     *)
LEMMA ReceiveKeepsBytes ==
    ASSUME Inv, Aligned, NotYetThere, ProcessedKept, NEW seg \in Segment, seg.sdu < sent,
           passed <= seg.sdu, InRecvWindow(Sn(seg.sdu)), Receive(seg),
           UNCHANGED <<sdu_size, tx>>, data' \subseteq data,
           \A b \in Byte : Unsent(b) => b \notin BytesOf(seg)
    PROVE  NotYetThere' /\ ProcessedKept'
<1>. DEFINE bytes == RxBytes(seg)
            done == RxDone(seg)
<1>1. /\ sdu_size \in SduSizes /\ passed \in Nat
    BY AlignedFacts DEF Inv, RxInv
<1>2. /\ RxFull(seg) => Complete(bytes, seg.sdu)
      /\ Delivered' = 0..(passed - 1) \cup done
      /\ Delivered = 0..(passed - 1) \cup processed
    BY ReceiveExact DEF Aligned, InStep
<1>3. /\ rx_list' = {b \in bytes : ~RxFreed(seg, b.sdu)}
      /\ processed' = {j \in done : ~RxFreed(seg, j)}
    BY ReceiveIs DEF RxLeft
<1>4. ASSUME NEW j \in done PROVE Complete(bytes, j)
  <2>1. CASE j \in processed
    BY <2>1 DEF ProcessedKept, Complete, RxBytes
  <2>2. CASE RxFull(seg) /\ j = seg.sdu
    BY <1>2, <2>2
  <2>. QED BY <2>1, <2>2 DEF RxDone
<1>5. ASSUME NEW b \in Byte, Unsent(b) PROVE b \notin bytes
    BY <1>5 DEF NotYetThere, Got, RxBytes
<1>. HIDE DEF bytes, done
<1>6. ASSUME NEW b \in Byte, Unsent(b) PROVE b.sdu \notin Delivered'
  <2>1. b.sdu \notin 0..(passed - 1)
    BY <1>2, <1>6 DEF NotYetThere, Got
  <2>2. ASSUME b.sdu \in done PROVE FALSE
    <3>1. /\ b.so \in Nat /\ b.so < sdu_size[b.sdu] /\ sdu_size[b.sdu] \in Nat
          /\ b = [sdu |-> b.sdu, so |-> b.so]
      BY <1>1, ByteIs, Sizes
    <3>2. b.so \in 0..(sdu_size[b.sdu] - 1)
      BY <3>1
    <3>3. b \in bytes
      BY <1>4, <2>2, <3>1, <3>2 DEF Complete
    <3>. QED BY <1>5, <1>6, <3>3
  <2>. QED BY <1>2, <2>1, <2>2
<1>7. Byte' = Byte /\ UNCHANGED <<sent, rest>>
    BY SameSizes DEF tx
<1>8. NotYetThere'
  <2>1. ASSUME NEW b \in Byte, Unsent(b)'
        PROVE  ~Got(b)' /\ \A pdu \in data' : b \notin BytesOf(pdu.seg)
    <3>1. Unsent(b)
      BY <1>7, <2>1 DEF Unsent
    <3>2. ~Got(b)'
      BY <1>3, <1>5, <1>6, <3>1 DEF Got
    <3>. QED BY <3>1, <3>2 DEF NotYetThere
  <2>. QED BY <1>7, <2>1 DEF NotYetThere
<1>9. ProcessedKept'
  <2>1. ASSUME NEW j \in processed', NEW o \in 0..(sdu_size[j] - 1)
        PROVE  [sdu |-> j, so |-> o] \in rx_list'
    <3>1. j \in done /\ ~RxFreed(seg, j)
      BY <1>3
    <3>2. PICK b : b = [sdu |-> j, so |-> o]
      OBVIOUS
    <3>3. b \in bytes
      BY <1>4, <3>1, <3>2 DEF Complete
    <3>4. b.sdu = j
      BY <3>2
    <3>5. ~RxFreed(seg, b.sdu)
      BY <3>1, <3>4
    <3>. QED BY <1>3, <3>2, <3>3, <3>5
  <2>. QED BY <2>1 DEF ProcessedKept, Complete
<1>. QED BY <1>8, <1>9

(* So nr_rlc_entity_am_recv_pdu does.                                      *)
LEMMA RecvPduKeepsBytes ==
    ASSUME Inv, Aligned, NotYetThere, ProcessedKept, NEW pdu \in data, RecvPdu(pdu),
           sdu_size' = sdu_size
    PROVE  NotYetThere' /\ ProcessedKept'
<1>. DEFINE seg == pdu.seg
            useless == \/ ~InRecvWindow(Sn(seg.sdu))
                       \/ {b.so : b \in BytesOf(seg)} \subseteq Offsets(rx_list, Sn(seg.sdu))
<1>1. /\ IF useless
         THEN UNCHANGED <<passed, rx_next_highest, rx_highest_status,
                          rx_next_status_trigger, rx_list, processed, t_reassembly, log>>
         ELSE Receive(seg)
      /\ data' \subseteq data /\ UNCHANGED tx /\ InTime(seg.sdu)
    BY DEF RecvPdu
<1>2. seg \in Segment /\ seg.sdu < sent
    BY DEF Inv, SenderInv, LinkType, SenderParts
<1>3. seg.sdu \in Nat
    BY <1>2, SegmentIs DEF Inv, RxInv
<1>4. \A b \in Byte : Unsent(b) => b \notin BytesOf(seg)
    BY DEF NotYetThere
<1>5. CASE useless
  <2>1. UNCHANGED <<sent, rest, rx_list, processed, log>>
    BY <1>1, <1>5 DEF tx
  <2>. QED BY <1>1, <2>1, NotYetFrame DEF ProcessedKept, Complete
<1>6. CASE ~useless
  <2>1. Receive(seg) /\ InRecvWindow(Sn(seg.sdu))
    BY <1>1, <1>6
  <2>. HIDE DEF seg, useless
  <2>2. passed <= seg.sdu
    BY <1>1, <1>2, <1>3, <2>1, PduInWindow
  <2>. QED BY <1>1, <1>2, <1>4, <2>1, <2>2, ReceiveKeepsBytes
<1>. QED BY <1>5, <1>6

(* A poll is of the last SDU, which lies in the window of the sender.      *)
LEMMA PollOfLast ==
    ASSUME NEW base \in Int, NEW next \in Nat, base < next, next <= base + WindowSize,
           tx_next_ack' = Sn(base), poll_sn' = Sn(next - 1), sent' = next, Base' = base
    PROVE  PollAhead'
<1>1. WindowSize \in Nat /\ WindowSize >= 2 /\ SnModulus = 2 * WindowSize
    BY Modulus
<1>2. PICK last \in Int : last = next - 1
    OBVIOUS
<1>3. modulus_rx(Sn(base), Sn(last)) = last - base
    BY <1>1, <1>2, SnDistance
<1>4. modulus_tx(poll_sn)' = modulus_rx(tx_next_ack', poll_sn')
    BY DEF modulus_tx, modulus_rx
<1>. QED BY <1>2, <1>3, <1>4 DEF PollAhead

(* generate_retx_pdu and generate_tx_pdu put the poll there,               *)
LEMMA GenerateRetxPduPoll ==
    ASSUME Inv, Aligned, PollAhead, NEW room \in Grants, GenerateRetxPdu(room)
    PROVE  PollAhead'
<1>. DEFINE seg == HeadOf(retransmit_list)
            n == Smaller(room, seg.size)
            p == force_poll \/ PollIsDue(sent, queued > 0 \/ rest # 0,
                                         (retransmit_list \ {seg}) \cup Remainder(seg, n))
<1>0. SenderInv
    BY DEF Inv
<1>1. /\ retransmit_list # {}
      /\ poll_sn' = IF p THEN Sn(sent - 1) ELSE poll_sn
      /\ t_poll_retransmit' = (p \/ t_poll_retransmit)
      /\ UNCHANGED <<sent, tx_next_ack>>
    BY DEF GenerateRetxPdu, Send
<1>2. seg \in Listed
    BY <1>0, <1>1, SenderFacts DEF Listed
<1>. HIDE DEF p, seg
<1>3. /\ Base \in Int /\ tx_next_ack = Sn(Base) /\ sent \in Nat
      /\ seg.sdu \in Nat /\ seg.sdu < sent /\ Base <= seg.sdu /\ sent <= Base + WindowSize
    BY <1>0, <1>2, BaseFacts DEF Aligned, SenderWindow
<1>4. Base' = Base
    BY <1>1 DEF Base
<1>5. CASE p
  <2>1. Base < sent
    BY <1>3
  <2>. QED BY <1>1, <1>3, <1>4, <1>5, <2>1, PollOfLast
<1>6. CASE ~p
    BY <1>1, <1>4, <1>6 DEF PollAhead, modulus_tx
<1>. QED BY <1>5, <1>6

(* generate_tx_pdu polls for the SDU that it sends, which is the last one. *)
LEMMA GenerateTxPduPoll ==
    ASSUME Inv, Aligned, PollAhead, NEW room \in Grants, NEW early \in PollEarly,
           GenerateTxPdu(room, early)
    PROVE  PollAhead'
<1>. DEFINE p == TxPoll(room, early)
<1>0. SenderInv
    BY DEF Inv
<1>1. /\ queued > 0 \/ rest # 0
      /\ sent' = TxSdu
      /\ poll_sn' = IF p THEN Sn(TxSdu - 1) ELSE poll_sn
      /\ t_poll_retransmit' = (p \/ t_poll_retransmit)
      /\ tx_next_ack' = tx_next_ack
    BY GenerateTxPduIs DEF Send
<1>. HIDE DEF p
<1>2. TxSdu \in Nat /\ sent <= TxSdu
    BY <1>0, <1>1, TxSegmentFacts
<1>3. Base' = Base /\ Base <= TxSdu - 1 /\ TxSdu <= Base + WindowSize
    BY TxSegmentAhead
<1>4. /\ Base \in Int /\ tx_next_ack = Sn(Base) /\ sent \in Nat
      /\ tx_next_ack \in SN /\ poll_sn \in SN
    BY <1>0, BaseFacts DEF SenderInv, TxType
<1>5. CASE p
  <2>1. Base < TxSdu
    BY <1>2, <1>3, <1>4
  <2>. QED BY <1>1, <1>2, <1>3, <1>4, <1>5, <2>1, PollOfLast
<1>6. CASE ~p
  <2>1. PICK m \in Nat : m = modulus_tx(poll_sn)
    BY <1>4, TxDistance
  <2>2. modulus_tx(poll_sn)' = m
    <3>1. modulus_tx(poll_sn)' = modulus_tx(poll_sn)
      BY <1>1, <1>6 DEF modulus_tx
    <3>. QED BY <2>1, <3>1
  <2>3. t_poll_retransmit' => m < sent - Base
    BY <1>1, <1>6, <2>1 DEF PollAhead
  <2>4. sent' - Base' = TxSdu - Base
    BY <1>1, <1>3
  <2>5. m < sent - Base => m < TxSdu - Base
    BY <1>2, <1>4
  <2>6. t_poll_retransmit' => modulus_tx(poll_sn)' < sent' - Base'
    BY <2>2, <2>3, <2>4, <2>5
  <2>. QED BY <2>6 DEF PollAhead
<1>. QED BY <1>5, <1>6

(* and process_control_pdu stops the timer when tx_next_ack passes it.     *)
LEMMA RecvStatusPoll ==
    ASSUME Inv, Aligned, PollAhead, NEW st \in status, RecvStatus(st), Valid(st)
    PROVE  PollAhead'
<1>0. SenderInv
    BY DEF Inv
<1>. SUFFICES ASSUME t_poll_retransmit' PROVE modulus_tx(poll_sn)' < sent' - Base'
    BY DEF PollAhead
<1>1. /\ t_poll_retransmit /\ ~Answers(st) /\ UNCHANGED <<sent, poll_sn>>
    BY RecvStatusIs
<1>2. /\ Base \in Int /\ tx_next_ack = Sn(Base) /\ sent \in Nat /\ tx_next_ack \in SN
      /\ poll_sn \in SN /\ sent <= Base + WindowSize
    BY <1>0, BaseFacts DEF SenderInv, TxType, Aligned, SenderWindow
<1>3. PICK m \in Nat : m = modulus_tx(poll_sn) /\ m < sent - Base
    BY <1>1, <1>2, TxDistance DEF PollAhead
<1>4. st.ack \in Nat /\ st.ack - Base <= m
  <2>1. st.ack \in Nat /\ modulus_tx(Sn(st.ack)) = st.ack - Base
    BY StatusExact
  <2>2. ~(modulus_tx(poll_sn) < modulus_tx(Sn(st.ack)))
    BY <1>1 DEF Answers
  <2>. QED BY <1>2, <1>3, <2>1, <2>2
<1>5. PICK base \in Nat : base = Base' /\ Base <= base /\ base <= st.ack /\ tx_next_ack' = Sn(base)
    BY NextBase
<1>6. PICK last \in Int : last = Base + m
    BY <1>2
<1>7. Sn(last) = poll_sn
  <2>1. modulus_rx(Sn(Base), poll_sn) = m
    BY <1>2, <1>3, TxIsRx
  <2>. QED BY <1>2, <1>6, <2>1, SnAt
<1>8. WindowSize \in Nat /\ WindowSize >= 2 /\ SnModulus = 2 * WindowSize
    BY Modulus
<1>9. base <= last /\ last < sent /\ last < base + SnModulus
    BY <1>2, <1>3, <1>4, <1>5, <1>6, <1>8
<1>10. modulus_rx(Sn(base), Sn(last)) = last - base
    BY <1>9, SnDistance
<1>11. modulus_tx(poll_sn)' = modulus_rx(tx_next_ack', poll_sn')
    BY DEF modulus_tx, modulus_rx
<1>12. modulus_tx(poll_sn)' = last - base
    BY <1>1, <1>5, <1>7, <1>10, <1>11
<1>13. last - base < sent - base
    BY <1>2, <1>9
<1>14. sent' - Base' = sent - base
    BY <1>1, <1>5
<1>. QED BY <1>12, <1>13, <1>14

(* Nothing is listed, under way or polled for.                             *)
LEMMA InitAwaited == Init => Awaited
<1>. SUFFICES ASSUME Init PROVE Awaited
    OBVIOUS
<1>1. /\ sent = 0 /\ tx_next_ack = 0 /\ rest = 0 /\ Listed = {} /\ processed = {}
      /\ status = {} /\ t_poll_retransmit = FALSE
    BY DEF Init, Listed
<1>2. Base = 0
  <2>1. Sn(0) = 0
    BY Modulus, NearMod DEF Sn
  <2>2. modulus_rx(Sn(0), Sn(0)) = 0
    BY SnDistance, Modulus
  <2>. QED BY <1>1, <2>1, <2>2 DEF Base, BaseOf
<1>3. AllFreed
    BY <1>1, <1>2 DEF AllFreed, Whole, Tracked
<1>. QED BY <1>1, <1>3 DEF Awaited, StatusesOrdered, LeftBy, NotYetThere, Unsent, ProcessedKept, PollAhead

(* Re-establishment leaves both ends as they start.                        *)
LEMMA ReestablishmentAwaited ==
    ASSUME Reestablishment
    PROVE  Awaited'
<1>1. /\ sent' = 0 /\ tx_next_ack' = 0 /\ rest' = 0 /\ Listed' = {} /\ processed' = {}
      /\ status' = {} /\ t_poll_retransmit' = FALSE
    BY DEF Reestablishment, Listed
<1>2. Base' = 0
  <2>1. Sn(0) = 0
    BY Modulus, NearMod DEF Sn
  <2>2. modulus_rx(Sn(0), Sn(0)) = 0
    BY SnDistance, Modulus
  <2>. QED BY <1>1, <2>1, <2>2 DEF Base, BaseOf
<1>3. AllFreed'
    BY <1>1, <1>2 DEF AllFreed, Whole, Tracked
<1>. QED BY <1>1, <1>3 DEF Awaited, StatusesOrdered, LeftBy, NotYetThere, Unsent, ProcessedKept, PollAhead

(* Steps that leave the sender as it is, and take nothing new.             *)
LEMMA AwaitedFrame ==
    ASSUME Awaited, UNCHANGED <<sdu_size, sent, tx_next_ack, rest>>,
           UNCHANGED <<rx_list, processed, log>>,
           status' \subseteq status, data' \subseteq data,
           \A b \in Byte : Tracked(b)' <=> Tracked(b),
           t_poll_retransmit' => t_poll_retransmit /\ poll_sn' = poll_sn
    PROVE  Awaited'
<1>1. StatusesOrdered' /\ NotYetThere'
    BY OrderFrame, NotYetFrame DEF Awaited
<1>2. ProcessedKept'
    BY DEF Awaited, ProcessedKept, Complete
<1>3. PollAhead'
    BY DEF Awaited, PollAhead, modulus_tx, Base
<1>. QED BY <1>1, <1>2, <1>3 DEF Awaited

(* The actions of the sender keep the invariant.                           *)
LEMMA SenderAwaited ==
    ASSUME Inv, Aligned, Awaited, Sender, sdu_size' = sdu_size
    PROVE  Awaited'
<1>0. SenderInv
    BY DEF Inv
<1>1. CASE RecvSdu
  <2>1. UNCHANGED <<sent, tx_next_ack, poll_sn, t_poll_retransmit, rest, wait_list,
                    retransmit_list, rx_list, processed, log, status, data>>
    BY <1>1 DEF RecvSdu, rx
  <2>2. \A b \in Byte : Tracked(b)' <=> Tracked(b)
    BY <2>1 DEF Tracked, Listed
  <2>. QED BY <2>1, <2>2, AwaitedFrame
<1>2. ASSUME NEW room \in Grants, GenerateRetxPdu(room) PROVE Awaited'
  <2>1. UNCHANGED <<sent, tx_next_ack, rest, rx_list, processed, log, status>>
    BY <1>2 DEF GenerateRetxPdu, rx
  <2>2. \A b \in Byte : Tracked(b)' <=> Tracked(b)
    BY <1>0, <1>2, RetxTracks
  <2>3. StatusesOrdered'
    BY <2>1, <2>2, OrderFrame DEF Awaited
  <2>4. NotYetThere' /\ PollAhead'
    BY <1>0, <1>2, GenerateRetxPduNotYet, GenerateRetxPduPoll DEF Awaited
  <2>5. ProcessedKept'
    BY <2>1 DEF Awaited, ProcessedKept, Complete
  <2>. QED BY <2>3, <2>4, <2>5 DEF Awaited
<1>3. ASSUME NEW room \in Grants, NEW early \in PollEarly, GenerateTxPdu(room, early)
      PROVE  Awaited'
  <2>1. UNCHANGED <<rx_list, processed>>
    BY <1>3, GenerateTxPduIs DEF rx
  <2>2. ProcessedKept'
    BY <2>1 DEF Awaited, ProcessedKept, Complete
  <2>3. StatusesOrdered' /\ NotYetThere' /\ PollAhead'
    BY <1>3, GenerateTxPduOrdered, GenerateTxPduNotYet, GenerateTxPduPoll DEF Awaited
  <2>. QED BY <2>2, <2>3 DEF Awaited
<1>4. CASE TPollRetransmitExpires
  <2>. DEFINE due == PollIsDue(sent, queued > 0 \/ rest # 0, retransmit_list)
              again == IF due /\ wait_list # {}
                       THEN {s \in wait_list : Sn(s.sdu) = Sn(HeadOf(wait_list).sdu)} ELSE {}
  <2>1. /\ wait_list' = wait_list \ again /\ retransmit_list' = retransmit_list \cup again
        /\ t_poll_retransmit' = FALSE
        /\ UNCHANGED <<sent, tx_next_ack, rest, rx_list, processed, log, status, data>>
    BY <1>4 DEF TPollRetransmitExpires, rx
  <2>2. again \subseteq wait_list
    OBVIOUS
  <2>. HIDE DEF again
  <2>3. Listed' = Listed
    BY <2>1, <2>2 DEF Listed
  <2>4. \A b \in Byte : Tracked(b)' <=> Tracked(b)
    BY <2>3 DEF Tracked
  <2>. QED BY <2>1, <2>4, AwaitedFrame
<1>5. ASSUME NEW st \in status, RecvStatus(st) PROVE Awaited'
  <2>1. CASE Valid(st)
    <3>1. UNCHANGED <<sent, rest, rx_list, processed, log, data>>
      BY <1>5, <2>1, RecvStatusIs DEF rx
    <3>2. NotYetThere' /\ ProcessedKept'
      BY <3>1, NotYetFrame DEF Awaited, ProcessedKept, Complete
    <3>. QED BY <1>5, <2>1, <3>2, RecvStatusOrdered, RecvStatusPoll DEF Awaited
  <2>2. CASE ~Valid(st)
    <3>1. /\ UNCHANGED <<sent, tx_next_ack, poll_sn, t_poll_retransmit, rest, wait_list,
                         retransmit_list, rx_list, processed, log, data>>
          /\ status' \subseteq status
      BY <1>5, <2>2, RecvStatusInvalidIs DEF tx, rx
    <3>2. \A b \in Byte : Tracked(b)' <=> Tracked(b)
      BY <3>1 DEF Tracked, Listed
    <3>. QED BY <3>1, <3>2, AwaitedFrame
  <2>. QED BY <2>1, <2>2
<1>. QED BY <1>1, <1>2, <1>3, <1>4, <1>5 DEF Sender

(* And those of the receiver.                                              *)
LEMMA ReceiverAwaited ==
    ASSUME Inv, Aligned, Awaited, Receiver, sdu_size' = sdu_size
    PROVE  Awaited'
<1>1. UNCHANGED tx
    BY DEF Receiver, RecvPdu, DiscardPdu, TReassemblyExpires, TStatusProhibitExpires,
        GenerateStatus
<1>2. UNCHANGED <<sent, tx_next_ack, poll_sn, t_poll_retransmit, rest, wait_list, retransmit_list>>
    BY <1>1 DEF tx
<1>3. \A b \in Byte : Tracked(b)' <=> Tracked(b)
    BY <1>2 DEF Tracked, Listed
<1>4. PollAhead'
    BY <1>2 DEF Awaited, PollAhead, modulus_tx, Base
<1>5. ASSUME NEW pdu \in data, RecvPdu(pdu) PROVE Awaited'
  <2>1. status' = status
    BY <1>5 DEF RecvPdu
  <2>2. StatusesOrdered'
    BY <1>2, <1>3, <2>1, OrderFrame DEF Awaited
  <2>. QED BY <1>4, <1>5, <2>2, RecvPduKeepsBytes DEF Awaited
<1>8. ASSUME NEW pdu \in data, DiscardPdu(pdu) PROVE Awaited'
  <2>1. data' \subseteq data /\ UNCHANGED <<rx_list, processed, log, status>>
    BY <1>8 DEF DiscardPdu
  <2>. QED BY <1>2, <1>3, <2>1, AwaitedFrame
<1>6. CASE TReassemblyExpires \/ TStatusProhibitExpires
  <2>1. UNCHANGED <<rx_list, processed, log, status, data>>
    BY <1>6 DEF TReassemblyExpires, TStatusProhibitExpires
  <2>. QED BY <1>2, <1>3, <2>1, AwaitedFrame
<1>7. ASSUME NEW c \in Cuts, GenerateStatus(c) PROVE Awaited'
  <2>1. UNCHANGED <<rx_list, processed, log, data>>
    BY <1>7, GenerateStatusIs
  <2>2. NotYetThere' /\ ProcessedKept'
    BY <1>2, <2>1, NotYetFrame DEF Awaited, ProcessedKept, Complete
  <2>. QED BY <1>4, <1>7, <2>2, GenerateStatusOrdered DEF Awaited
<1>. QED BY <1>5, <1>6, <1>7, <1>8 DEF Receiver

(* Every step keeps it.                                                    *)
LEMMA NextAwaited == Inv /\ Exact /\ AwaitedIfExact /\ [Next]_vars => AwaitedIfExact'
<1>. SUFFICES ASSUME Inv, Exact, AwaitedIfExact, [Next]_vars, ~overtaken' PROVE Awaited'
    BY DEF AwaitedIfExact
<1>1. CASE Reestablishment
    BY <1>1, ReestablishmentAwaited
<1>2. CASE Sender /\ sdu_size' = sdu_size
  <2>1. ~overtaken
    <3>1. ASSUME NEW st \in status, RecvStatus(st) PROVE ~overtaken
      BY <3>1, RecvStatusIs, RecvStatusInvalidIs
    <3>. QED BY <1>2, <3>1 DEF Sender, RecvSdu, GenerateRetxPdu, GenerateTxPdu,
                              TPollRetransmitExpires, history
  <2>. QED BY <1>2, <2>1, SenderAwaited DEF Exact, AwaitedIfExact
<1>3. CASE Receiver /\ sdu_size' = sdu_size
  <2>1. ~overtaken
    BY <1>3 DEF Receiver, RecvPdu, DiscardPdu, TReassemblyExpires, TStatusProhibitExpires,
        GenerateStatus, history
  <2>. QED BY <1>3, <2>1, ReceiverAwaited DEF Exact, AwaitedIfExact
<1>4. CASE (Lose /\ sdu_size' = sdu_size) \/ UNCHANGED vars
  <2>1. /\ status' \subseteq status /\ data' \subseteq data
        /\ UNCHANGED <<sdu_size, tx, rx, history>>
    BY <1>4 DEF Lose, vars
  <2>2. UNCHANGED <<sent, tx_next_ack, poll_sn, t_poll_retransmit, rest, wait_list,
                    retransmit_list, rx_list, processed, log, overtaken>>
    BY <2>1 DEF tx, rx, history
  <2>3. \A b \in Byte : Tracked(b)' <=> Tracked(b)
    BY <2>2 DEF Tracked, Listed
  <2>. QED BY <2>1, <2>2, <2>3, AwaitedFrame DEF AwaitedIfExact
<1>. QED BY <1>1, <1>2, <1>3, <1>4 DEF Next

(* When nothing is listed, the window does not stall, and if nothing is    *)
(* left of an SDU, no poll is waited for.                                  *)
LEMMA NothingListed ==
    ASSUME Inv, Aligned, Awaited, Listed = {}
    PROVE  ~Stalling(sent) /\ (rest = 0 => ~t_poll_retransmit)
<1>0. SenderInv
    BY DEF Inv
<1>1. AllFreed
  <2>1. LeftBy({})
    BY DEF Awaited, StatusesOrdered
  <2>. QED BY <2>1 DEF LeftBy, Open, Tracked
<1>2. /\ Base \in Int /\ sent \in Nat /\ Base <= sent /\ tx_next_ack \in SN /\ poll_sn \in SN
      /\ Whole \in Nat /\ sent <= Whole + 1
    BY <1>0, BaseFacts, WholeIs DEF SenderInv, TxType
<1>3. WindowSize \in Nat /\ WindowSize >= 2 /\ SnModulus = 2 * WindowSize
    BY Modulus
<1>4. Whole <= Base
    BY <1>1 DEF AllFreed
<1>5. ~Stalling(sent)
  <2>1. modulus_tx(Sn(sent)) = sent - Base
    BY <1>2, <1>3, <1>4, TxExact
  <2>. QED BY <1>2, <1>3, <1>4, <2>1 DEF Stalling
<1>6. ASSUME rest = 0, t_poll_retransmit PROVE FALSE
  <2>1. modulus_tx(poll_sn) < sent - Base /\ modulus_tx(poll_sn) \in Nat
    BY <1>2, <1>6, TxDistance DEF Awaited, PollAhead
  <2>2. Whole = sent
    BY <1>6 DEF Whole
  <2>. QED BY <1>2, <1>4, <2>1, <2>2
<1>. QED BY <1>5, <1>6

(* For every window, size and schedule of grants, and in whatever order    *)
(* STATUS PDUs arrive: check_t_poll_retransmit follows the NULL head of    *)
(* wait_list only when the window stalls and all that is missing waits in  *)
(* retransmit_list, as long as tx_next_ack has not passed an SDU.          *)
THEOREM NullOnlyThen == Spec => [](~overtaken => NullOnlyIfStalled)
<1>. DEFINE Goal == ~overtaken => NullOnlyIfStalled
<1>1. Init => Exact /\ AwaitedIfExact /\ Goal
    BY InitAligned, InitAwaited DEF Exact, AwaitedIfExact, Init, NullOnlyIfStalled
<1>2. Inv /\ Exact /\ AwaitedIfExact /\ Goal /\ [Next]_vars => Goal'
  <2>. SUFFICES ASSUME Inv, Exact, AwaitedIfExact, Goal, [Next]_vars, ~overtaken', undefined'
                PROVE  (Stalling(sent) /\ retransmit_list # {})'
    BY DEF NullOnlyIfStalled
  <2>1. CASE UNCHANGED vars
    BY <2>1 DEF NullOnlyIfStalled, vars, tx, history, Stalling, modulus_tx
  <2>2. CASE Next
    <3>1. ~undefined
      BY <2>2 DEF Next
    <3>2. TPollRetransmitExpires
      <4>1. ASSUME NEW st \in status, RecvStatus(st) PROVE FALSE
        BY <3>1, <4>1 DEF RecvStatus
      <4>. QED BY <2>2, <3>1, <4>1 DEF Next, Sender, Receiver, Lose, Reestablishment, RecvSdu,
                  GenerateRetxPdu, GenerateTxPdu, RecvPdu, DiscardPdu, TReassemblyExpires,
                  TStatusProhibitExpires, GenerateStatus
    <3>3. /\ PollIsDue(sent, queued > 0 \/ rest # 0, retransmit_list) /\ wait_list = {}
          /\ t_poll_retransmit /\ retransmit_list \subseteq retransmit_list'
          /\ UNCHANGED <<sent, tx_next_ack, overtaken>>
      BY <3>2 DEF TPollRetransmitExpires, history
    <3>4. retransmit_list # {}
      <4>1. SUFFICES ASSUME retransmit_list = {} PROVE FALSE
        OBVIOUS
      <4>2. Listed = {}
        BY <3>3, <4>1 DEF Listed
      <4>3. ~Stalling(sent) /\ (rest = 0 => ~t_poll_retransmit)
        BY <3>3, <4>2, NothingListed DEF Exact, AwaitedIfExact
      <4>. QED BY <3>3, <4>3 DEF PollIsDue
    <3>5. Stalling(sent)
      BY <3>3, <3>4 DEF PollIsDue
    <3>. QED BY <3>3, <3>4, <3>5 DEF Stalling, modulus_tx
  <2>. QED BY <2>1, <2>2
<1>. QED BY <1>1, <1>2, InitInv, NextInv, NextExact, NextAwaited, PTL DEF Spec
=============================================================================
