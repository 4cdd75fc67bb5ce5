------------------------- MODULE NrPdcpEntityProofs -------------------------
(* Proofs about the NR PDCP entity, for every window, count bound, timer   *)
(* value, bearer type and set of keys.                                     *)
EXTENDS NrPdcpEntity, Integers, WellFoundedInduction, TLAPS

-----------------------------------------------------------------------------
(* Natural numbers.                                                         *)

(* Every non-empty set of naturals has a least element.                    *)
LEMMA LeastNatural ==
    ASSUME NEW T, T \subseteq Nat, T # {}
    PROVE  \E x \in T : \A y \in T : x <= y
<1>1. IsWellFoundedOn(OpToRel(<, Nat), Nat)
    BY NatLessThanWellFounded
<1>2. \E x \in T : \A y \in T : ~(<<y, x>> \in OpToRel(<, Nat))
    BY <1>1, WFMin, Zenon
<1>3. \A x, y \in Nat : y < x => <<y, x>> \in OpToRel(<, Nat)
    BY Zenon DEF OpToRel
<1>4. \E x \in T : \A y \in T : ~(y < x)
    BY <1>2, <1>3, Zenon
<1>. QED BY <1>4

(* A multiple of a positive number is at least that number in size.        *)
LEMMA Multiples ==
    ASSUME NEW m \in Nat \ {0}, NEW k \in Int
    PROVE  /\ k >= 1 => k * m >= m
           /\ k <= -1 => k * m <= -m
<1>1. k >= 1 => k * m >= m
  <2>. SUFFICES ASSUME k >= 1 PROVE k * m >= m
    OBVIOUS
  <2>1. (k - 1) * m >= 0
    OBVIOUS
  <2>. QED BY <2>1
<1>2. k <= -1 => k * m <= -m
  <2>. SUFFICES ASSUME k <= -1 PROVE k * m <= -m
    OBVIOUS
  <2>1. ((-k) - 1) * m >= 0
    OBVIOUS
  <2>. QED BY <2>1
<1>. QED BY <1>1, <1>2

(* Quotient and remainder.                                                 *)
LEMMA Division ==
    ASSUME NEW m \in Nat \ {0}, NEW a \in Nat
    PROVE  /\ a % m \in 0..(m - 1)
           /\ a \div m \in Nat
           /\ a = (a \div m) * m + (a % m)
OBVIOUS

-----------------------------------------------------------------------------
(* HFN inference is exact within the window.                               *)
LEMMA RcvdCountExact ==
    ASSUME rx_deliv \in Nat, NEW c \in Nat, c < CountModulus, InWindow(c)
    PROVE  RcvdCount(c % SnModulus) = c
<1>. DEFINE M == SnModulus
            s == c % M
            q2 == c \div M
            r == rx_deliv % M
            q == rx_deliv \div M
            k == q2 - q
<1>1. M \in Nat \ {0} /\ M = 2 * WindowSize /\ WindowSize \in Nat
    BY WindowAssumption DEF SnModulus
<1>2. s \in 0..(M - 1) /\ q2 \in Nat /\ c = q2 * M + s
    BY <1>1, Division
<1>3. r \in 0..(M - 1) /\ q \in Nat /\ rx_deliv = q * M + r
    BY <1>1, Division
<1>4. k \in Int /\ k * M = (c - rx_deliv) - (s - r)
  <2>. HIDE DEF M, s, q2, r, q
  <2>. QED BY <1>1, <1>2, <1>3
<1>5. c - rx_deliv >= -WindowSize /\ c - rx_deliv < WindowSize
    BY <1>1 DEF InWindow
<1>6. k \in {-1, 0, 1}
  <2>1. k >= 2 => k * M >= 2 * M
    <3>1. (k - 1) >= 1 => (k - 1) * M >= M
        BY <1>1, <1>4, Multiples
    <3>2. (k - 1) * M = k * M - M
      <4>. HIDE DEF k, M
      <4>. QED BY <1>1, <1>4
    <3>. HIDE DEF k, M
    <3>. QED BY <3>1, <3>2, <1>1, <1>4
  <2>2. k <= -2 => k * M <= -2 * M
    <3>1. (k + 1) <= -1 => (k + 1) * M <= -M
        BY <1>1, <1>4, Multiples
    <3>2. (k + 1) * M = k * M + M
      <4>. HIDE DEF k, M
      <4>. QED BY <1>1, <1>4
    <3>. HIDE DEF k, M
    <3>. QED BY <3>1, <3>2, <1>1, <1>4
  <2>3. c - rx_deliv \in Int /\ k * M \in Int
    BY <1>1, <1>4
  <2>. DEFINE p == k * M
              D == c - rx_deliv
  <2>4. /\ k >= 2 => p >= 2 * M
        /\ k <= -2 => p <= -2 * M
        /\ p = D - (s - r) /\ p \in Int /\ D \in Int
        /\ D >= -WindowSize /\ D < WindowSize
    BY <2>1, <2>2, <2>3, <1>4, <1>5
  <2>. HIDE DEF p, D, k, M, s, r
  <2>. QED BY <2>4, <1>1, <1>2, <1>3, <1>4
<1>7. q2 = q + k
    BY <1>2, <1>3
<1>. DEFINE hfn == IF s < r - WindowSize THEN q + 1
                   ELSE IF s >= r + WindowSize THEN q - 1 ELSE q
<1>8. hfn = q2
  <2>1. k = 1 => k * M = M
    BY <1>1
  <2>2. k = -1 => k * M = -M
    BY <1>1
  <2>3. k = 0 => k * M = 0
    BY <1>1
  <2>. HIDE DEF k, M, s, r, q, q2
  <2>. QED BY <2>1, <2>2, <2>3, <1>1, <1>2, <1>3, <1>4, <1>5, <1>6, <1>7
<1>9. (hfn * M + s) % CountModulus = c
  <2>1. hfn * M + s = c
    BY <1>8, <1>2
  <2>2. c % CountModulus = c
    BY CountAssumption
  <2>. QED BY <2>1, <2>2
<1>. QED BY <1>9 DEF RcvdCount

(* RunEnd stops at the first count that is not stored.                     *)
LEMMA RunEndIsGap ==
    ASSUME NEW S, \A x \in S : x.count \in 0..(MaxCount - 1),
           NEW c \in 0..MaxCount
    PROVE  /\ RunEnd(S, c) \in c..MaxCount
           /\ c..(RunEnd(S, c) - 1) \subseteq CountsOf(S)
           /\ RunEnd(S, c) \notin CountsOf(S)
<1>. DEFINE C == CountsOf(S)
            T == {e \in c..MaxCount : e \notin C}
            Cand == {c} \cup {x.count + 1 : x \in S}
            Ok(e) == e >= c /\ c..(e - 1) \subseteq C /\ e \notin C
<1>0. MaxCount \in Nat
    BY CountAssumption
<1>1. C \subseteq 0..(MaxCount - 1)
    BY DEF CountsOf
<1>2. T \subseteq Nat /\ T # {}
    <2>1. MaxCount \in T
        BY <1>0, <1>1
    <2>. QED BY <2>1, <1>0
<1>3. PICK e \in T : \A y \in T : e <= y
    BY <1>2, LeastNatural
<1>4. e \in c..MaxCount /\ e \notin C
    OBVIOUS
<1>5. c..(e - 1) \subseteq C
    BY <1>0, <1>3, <1>4
<1>6. e \in Cand
    <2>1. CASE e = c
        BY <2>1
    <2>2. CASE e # c
        <3>1. e - 1 \in C
            BY <2>2, <1>0, <1>4, <1>5
        <3>2. PICK x \in S : x.count = e - 1
            BY <3>1 DEF CountsOf
        <3>. QED BY <3>2, <1>0, <1>4
    <2>. QED BY <2>1, <2>2
<1>7. \E f \in Cand : Ok(f)
    BY <1>4, <1>5, <1>6, <1>0
<1>8. RunEnd(S, c) \in Cand /\ Ok(RunEnd(S, c))
    <2>1. RunEnd(S, c) = CHOOSE f \in Cand : Ok(f)
        BY DEF RunEnd
    <2>. QED BY <2>1, <1>7
<1>9. Cand \subseteq 0..MaxCount
    BY <1>0
<1>. QED BY <1>8, <1>9, <1>0

(* A bearer that is not there has nothing delivered in its next epoch.     *)
AbsentIsZero == ~exists => rx_deliv = 0

(* The inductive invariant.                                                *)
IInv == EntityTypeOK /\ RxDelivSeparates /\ GapHasTimer /\ NoStaleSdu /\ AbsentIsZero

(* A PDU of COUNT c and content d accepted, with rx_deliv moving to deliv. *)
Received(c, d, deliv) ==
    LET stored == rx_list \cup {[count |-> c, epoch |-> epoch, data |-> d]}
        out == IF c = rx_deliv THEN {s \in stored : s.count < deliv} ELSE {}
        next == IF c >= rx_next THEN c + 1 ELSE rx_next
        age == IF t_age # Stopped /\ deliv >= rx_reord THEN Stopped ELSE t_age
        restart == age = Stopped /\ deliv < next
    IN  /\ c >= rx_deliv
        /\ c # rx_deliv => deliv = rx_deliv
        /\ c = rx_deliv => /\ deliv > c
                           /\ deliv \notin CountsOf(stored)
        /\ rx_next' = next
        /\ rx_deliv' = deliv
        /\ rx_list' = stored \ out
        /\ Burst(out)
        /\ rx_reord' = IF restart THEN next ELSE rx_reord
        /\ t_age' = IF restart THEN StartAge(t_known) ELSE age
        /\ rx_at_zero' = (rx_at_zero \/ (restart /\ ~t_known))
        /\ UNCHANGED <<exists, tx_next, t_known, security,
                       entity_suspended, epoch>>

(* What accepting a PDU does to the receive side, with its COUNT known.    *)
LEMMA RecvEffect ==
    ASSUME EntityTypeOK, NEW c \in 0..(MaxCount - 1), NEW sec \in Security,
           InWindow(c), RecvPdu(PduOf(c, sec, c))
    PROVE  \E d \in (0..(MaxCount - 1)) \cup {Garbage}, deliv \in 0..MaxCount :
               Received(c, d, deliv)
<1>. DEFINE pdu == PduOf(c, sec, c)
            d == Deciphered(pdu, c)
            stored == rx_list \cup {[count |-> c, epoch |-> epoch, data |-> d]}
            deliv == IF c = rx_deliv THEN RunEnd(stored, c) ELSE rx_deliv
<1>0. MaxCount \in Nat /\ CountModulus \in Nat /\ MaxCount < CountModulus
    BY CountAssumption
<1>1. pdu.sn = c % SnModulus /\ pdu.sdu = c
    BY DEF PduOf
<1>2. RcvdCount(pdu.sn) = c
    BY <1>0, <1>1, RcvdCountExact DEF EntityTypeOK
<1>3. d \in (0..(MaxCount - 1)) \cup {Garbage}
    BY <1>1 DEF Deciphered
<1>4. \A x \in stored : x.count \in 0..(MaxCount - 1)
    BY DEF EntityTypeOK
<1>5. c \in 0..MaxCount
    BY <1>0
<1>6. /\ RunEnd(stored, c) \in c..MaxCount
      /\ RunEnd(stored, c) \notin CountsOf(stored)
    BY <1>4, <1>5, RunEndIsGap
<1>7. c \in CountsOf(stored)
    <2>. DEFINE x == [count |-> c, epoch |-> epoch, data |-> d]
    <2>1. x \in stored /\ x.count = c
        OBVIOUS
    <2>. HIDE DEF x, stored
    <2>. QED BY <2>1 DEF CountsOf
<1>8. RunEnd(stored, c) > c
    BY <1>0, <1>5, <1>6, <1>7
<1>9. deliv \in 0..MaxCount
    BY <1>0, <1>6 DEF EntityTypeOK
<1>10. (c + 1) % CountModulus = c + 1
    BY <1>0
<1>11. /\ c >= rx_deliv
       /\ c # rx_deliv => deliv = rx_deliv
       /\ c = rx_deliv => deliv > c /\ deliv \notin CountsOf(stored)
    BY <1>2, <1>6, <1>8 DEF RecvPdu, Acceptable
<1>12. WITNESS d \in (0..(MaxCount - 1)) \cup {Garbage}, deliv \in 0..MaxCount
<1>. QED BY <1>2, <1>10, <1>11 DEF RecvPdu, Received

Entry == [epoch : 0..MaxEpoch, counts : SUBSET (0..(MaxCount - 1))]

(* A burst adds at most one entry, for the current epoch, at the end.      *)
LEMMA BurstEffect ==
    ASSUME EntityTypeOK, NEW out, \A s \in out : s.count \in 0..(MaxCount - 1), Burst(out)
    PROVE  /\ log' \in Seq(Entry)
           /\ \A i \in 1..Len(log') :
                 \/ i \in 1..Len(log) /\ log'[i] = log[i]
                 \/ log'[i] = [epoch |-> epoch, counts |-> CountsOf(out)]
<1>1. CountsOf(out) \in SUBSET (0..(MaxCount - 1))
    BY DEF CountsOf
<1>2. log \in Seq(Entry) /\ epoch \in 0..MaxEpoch
    BY DEF EntityTypeOK, Entry
<1>3. CASE out = {}
    BY <1>2, <1>3 DEF Burst
<1>4. CASE out # {}
    <2>. DEFINE e == [epoch |-> epoch, counts |-> CountsOf(out)]
    <2>1. e \in Entry
        BY <1>1, <1>2 DEF Entry
    <2>2. log' = Append(log, e)
        BY <1>4 DEF Burst
    <2>. HIDE DEF e
    <2>3. log' \in Seq(Entry) /\ Len(log') = Len(log) + 1
        BY <1>2, <2>1, <2>2
    <2>4. \A i \in 1..Len(log) : log'[i] = log[i]
        BY <1>2, <2>1, <2>2
    <2>5. log'[Len(log) + 1] = e
        BY <1>2, <2>1, <2>2
    <2>6. \A i \in 1..Len(log') : i \in 1..Len(log) \/ i = Len(log) + 1
        BY <1>2, <2>3
    <2>. QED BY <2>3, <2>4, <2>5, <2>6 DEF e
<1>. QED BY <1>3, <1>4

LEMMA LogTyped ==
    ASSUME EntityTypeOK
    PROVE  /\ log \in Seq(Entry)
           /\ \A i \in 1..Len(log) : log[i].epoch \in Nat /\ log[i].counts \subseteq Nat
<1>1. log \in Seq(Entry)
    BY DEF EntityTypeOK, Entry
<1>2. \A i \in 1..Len(log) : log[i] \in Entry
    BY <1>1
<1>. QED BY <1>1, <1>2, CountAssumption DEF Entry

(* Delivering everything below a new rx_deliv keeps the separation.        *)
LEMMA SeparatesAfterBurst ==
    ASSUME IInv, NEW out, \A s \in out : s.count \in 0..(MaxCount - 1), Burst(out),
           NEW deliv \in 0..MaxCount, rx_deliv <= deliv,
           rx_deliv' = deliv, epoch' = epoch,
           \A n \in CountsOf(out) : n < deliv,
           \A s \in rx_list' : deliv <= s.count
    PROVE  RxDelivSeparates'
<1>1. EntityTypeOK /\ epoch \in Nat /\ rx_deliv \in Nat
    BY DEF IInv, EntityTypeOK
<1>2. \A i \in 1..Len(log') :
            \/ i \in 1..Len(log) /\ log'[i] = log[i]
            \/ log'[i] = [epoch |-> epoch, counts |-> CountsOf(out)]
    BY <1>1, BurstEffect
<1>3. \A i \in 1..Len(log) :
          /\ log[i].epoch <= epoch
          /\ log[i].epoch = epoch => \A n \in log[i].counts : n < rx_deliv
    BY DEF IInv, RxDelivSeparates
<1>4. \A i \in 1..Len(log) : log[i].counts \subseteq Nat
    BY <1>1, LogTyped
<1>5. \A i \in 1..Len(log) : log[i].epoch = epoch => \A n \in log[i].counts : n < deliv
    BY <1>1, <1>3, <1>4
<1>6. ASSUME NEW i \in 1..Len(log')
      PROVE  /\ log'[i].epoch <= epoch
             /\ log'[i].epoch = epoch => \A n \in log'[i].counts : n < deliv
    <2>1. CASE i \in 1..Len(log) /\ log'[i] = log[i]
        BY <2>1, <1>3, <1>5
    <2>2. CASE log'[i] = [epoch |-> epoch, counts |-> CountsOf(out)]
        <3>1. log'[i].epoch = epoch /\ log'[i].counts = CountsOf(out)
            BY <2>2
        <3>2. epoch <= epoch
            BY <1>1
        <3>. QED BY <3>1, <3>2
    <2>. QED BY <2>1, <2>2, <1>2
<1>. QED BY <1>6 DEF RxDelivSeparates

(* A new epoch has delivered nothing yet.                                  *)
LEMMA SeparatesAfterReset ==
    ASSUME IInv, NEW out, \A s \in out : s.count \in 0..(MaxCount - 1), Burst(out),
           rx_deliv' = 0, epoch' = epoch + 1,
           \A s \in rx_list' : s.count \in Nat
    PROVE  RxDelivSeparates'
<1>1. EntityTypeOK /\ epoch \in Nat
    BY DEF IInv, EntityTypeOK
<1>2. \A i \in 1..Len(log') :
            \/ i \in 1..Len(log) /\ log'[i] = log[i]
            \/ log'[i] = [epoch |-> epoch, counts |-> CountsOf(out)]
    BY <1>1, BurstEffect
<1>3. \A i \in 1..Len(log) : log[i].epoch <= epoch /\ log[i].epoch \in Nat
    BY <1>1, LogTyped DEF IInv, RxDelivSeparates
<1>4. ASSUME NEW i \in 1..Len(log')
      PROVE  log'[i].epoch \in Nat /\ log'[i].epoch <= epoch
    <2>1. CASE i \in 1..Len(log) /\ log'[i] = log[i]
        BY <2>1, <1>3
    <2>2. CASE log'[i] = [epoch |-> epoch, counts |-> CountsOf(out)]
        BY <2>2, <1>1
    <2>. QED BY <2>1, <2>2, <1>2
<1>5. \A i \in 1..Len(log') : log'[i].epoch <= epoch' /\ log'[i].epoch # epoch'
    BY <1>1, <1>4
<1>6. \A s \in rx_list' : rx_deliv' <= s.count
    OBVIOUS
<1>. QED BY <1>5, <1>6 DEF RxDelivSeparates

LEMMA InitIInv == Init => IInv
<1>. SUFFICES ASSUME Init PROVE IInv
    OBVIOUS
<1>1. EntityTypeOK
    <2>1. 0 \in 0..MaxCount /\ 0 \in 0..MaxEpoch
        BY CountAssumption
    <2>2. security \in Security
        BY DEF Init, Security
    <2>3. log \in Seq([epoch : 0..MaxEpoch, counts : SUBSET (0..(MaxCount - 1))])
        BY DEF Init
    <2>. QED BY <2>1, <2>2, <2>3 DEF Init, EntityTypeOK
<1>2. RxDelivSeparates /\ GapHasTimer /\ NoStaleSdu /\ AbsentIsZero
    BY DEF Init, RxDelivSeparates, GapHasTimer, NoStaleSdu, AbsentIsZero
<1>. QED BY <1>1, <1>2 DEF IInv

LEMMA SecurityTyped ==
    ASSUME EntityTypeOK, NEW p \in SecurityInputs, SetSecurityTo(p)
    PROVE  security' \in Security
BY SecurityAssumption DEF EntityTypeOK, SetSecurityTo, Security

LEMMA RecvPreservesIInv ==
    ASSUME IInv, NEW c \in 0..(MaxCount - 1), NEW sec \in Security,
           InWindow(c), RecvPdu(PduOf(c, sec, c))
    PROVE  IInv'
<1>0. MaxCount \in Nat /\ EntityTypeOK
    BY CountAssumption DEF IInv
<1>1. PICK d \in (0..(MaxCount - 1)) \cup {Garbage}, deliv \in 0..MaxCount :
             Received(c, d, deliv)
    BY <1>0, RecvEffect
<1>. DEFINE new == [count |-> c, epoch |-> epoch, data |-> d]
            stored == rx_list \cup {new}
            out == IF c = rx_deliv THEN {s \in stored : s.count < deliv} ELSE {}
            Stored == [count : 0..(MaxCount - 1), epoch : 0..MaxEpoch,
                       data : 0..(MaxCount - 1) \cup {Garbage}]
<1>2. /\ rx_deliv \in 0..MaxCount /\ rx_next \in 0..MaxCount /\ rx_reord \in 0..MaxCount
      /\ epoch \in 0..MaxEpoch /\ rx_list \subseteq Stored /\ t_age \in Nat \cup {-1}
      /\ t_known \in BOOLEAN /\ rx_at_zero \in BOOLEAN
    BY <1>0 DEF EntityTypeOK, Stopped
<1>3. new \in Stored /\ new.count = c /\ new.epoch = epoch
    BY <1>2
<1>4. stored \subseteq Stored /\ \A s \in stored : s.count \in 0..(MaxCount - 1)
    BY <1>2, <1>3
<1>5. out \subseteq stored /\ rx_list' = stored \ out /\ Burst(out)
    BY <1>1 DEF Received
<1>6. rx_list' \subseteq Stored
    BY <1>4, <1>5
<1>7. /\ log' \in Seq(Entry)
      /\ \A i \in 1..Len(log') :
            \/ i \in 1..Len(log) /\ log'[i] = log[i]
            \/ log'[i] = [epoch |-> epoch, counts |-> CountsOf(out)]
    BY <1>0, <1>4, <1>5, BurstEffect
<1>8. rx_deliv <= deliv /\ rx_deliv' = deliv /\ epoch' = epoch
    BY <1>0, <1>1, <1>2 DEF Received
<1>9. EntityTypeOK'
    <2>1. rx_next' \in 0..MaxCount /\ rx_deliv' \in 0..MaxCount /\ rx_reord' \in 0..MaxCount
        BY <1>0, <1>1, <1>2 DEF Received
    <2>2. t_age' \in Nat \cup {Stopped}
        BY <1>1, <1>2 DEF Stopped, StartAge, Received
    <2>3. UNCHANGED <<exists, tx_next, t_known, security, entity_suspended, epoch>>
          /\ rx_at_zero' \in BOOLEAN
        BY <1>1, <1>2 DEF Received
    <2>. QED BY <1>0, <1>6, <1>7, <2>1, <2>2, <2>3 DEF EntityTypeOK, Entry
<1>10. RxDelivSeparates'
    <2>1. \A s \in rx_list' : deliv <= s.count
        <3>. SUFFICES ASSUME NEW s \in rx_list' PROVE deliv <= s.count
            OBVIOUS
        <3>1. s \in stored /\ s \notin out /\ s.count \in 0..(MaxCount - 1)
            BY <1>4, <1>5
        <3>2. CASE c = rx_deliv
            BY <3>1, <3>2, <1>0
        <3>3. CASE c # rx_deliv
            <4>1. deliv = rx_deliv /\ c >= rx_deliv
                BY <1>1, <3>3 DEF Received
            <4>2. s \in rx_list => rx_deliv <= s.count
                BY DEF IInv, RxDelivSeparates
            <4>. QED BY <3>1, <4>1, <4>2, <1>3
        <3>. QED BY <3>2, <3>3
    <2>2. \A n \in CountsOf(out) : n < deliv
        BY <1>4, <1>5 DEF CountsOf
    <2>3. \A s \in out : s.count \in 0..(MaxCount - 1)
        BY <1>4, <1>5
    <2>. HIDE DEF out
    <2>. QED BY <1>5, <1>8, <2>1, <2>2, <2>3, SeparatesAfterBurst
<1>11. GapHasTimer'
    <2>. DEFINE next == IF c >= rx_next THEN c + 1 ELSE rx_next
                age == IF t_age # -1 /\ deliv >= rx_reord THEN -1 ELSE t_age
                restart == age = -1 /\ deliv < next
    <2>1. rx_at_zero' = (rx_at_zero \/ (restart /\ ~t_known))
        BY <1>1, Zenon DEF Received, Stopped
    <2>2. ~rx_at_zero' => ~rx_at_zero /\ (restart => t_known)
        <3>. HIDE DEF restart
        <3>. QED BY <2>1, Zenon
    <2>3. /\ rx_next' = next /\ rx_reord' = IF restart THEN next ELSE rx_reord
          /\ t_age' = IF restart THEN StartAge(t_known) ELSE age
        BY <1>1 DEF Stopped, Received
    <2>4. t_known => StartAge(t_known) = 0
        BY DEF StartAge
    <2>5. ~t_known => StartAge(t_known) = -1
        BY DEF StartAge, Stopped
    <2>6. /\ rx_deliv < rx_next /\ ~rx_at_zero => t_age # -1
          /\ t_age # -1 => rx_deliv < rx_reord
          /\ ~rx_at_zero /\ t_age # -1 => rx_reord <= rx_next
        BY DEF IInv, GapHasTimer, Stopped
    <2>7. ASSUME rx_deliv' < rx_next', ~rx_at_zero' PROVE t_age' # -1
        <3>1. restart => StartAge(t_known) = 0
            <4>. HIDE DEF restart
            <4>. QED BY <2>7, <2>2, <2>4, Zenon
        <3>. QED BY <3>1, <2>7, <2>3, <1>8
    <2>8. t_age' # -1 => rx_deliv' < rx_reord'
        BY <2>3, <2>5, <1>2, <1>8
    <2>9. ASSUME ~rx_at_zero', t_age' # -1 PROVE rx_reord' <= rx_next'
        <3>1. t_age # -1 => rx_reord <= rx_next
            BY <2>9, <2>2, <2>6, Zenon
        <3>. QED BY <3>1, <2>9, <2>3, <1>2
    <2>. QED BY <2>7, <2>8, <2>9 DEF GapHasTimer, Stopped
<1>12. NoStaleSdu'
    <2>1. ~rx_at_zero' => ~rx_at_zero
        BY <1>1, Zenon DEF Received
    <2>2. rx_next' >= rx_next /\ c < rx_next' /\ rx_next' \in Nat
        BY <1>0, <1>1, <1>2 DEF Received
    <2>. QED BY <2>1, <2>2, <1>2, <1>3, <1>5, <1>8 DEF NoStaleSdu, IInv
<1>13. AbsentIsZero'
    BY DEF AbsentIsZero, RecvPdu
<1>. QED BY <1>9, <1>10, <1>11, <1>12, <1>13 DEF IInv

LEMMA ExpiryPreservesIInv ==
    ASSUME IInv, NEW d \in Nat, TReorderingExpires(d)
    PROVE  IInv'
<1>. DEFINE deliv == RunEnd(rx_list, rx_reord)
            out == {s \in rx_list : s.count < deliv}
            restart == deliv < rx_next
<1>0. MaxCount \in Nat /\ EntityTypeOK
    BY CountAssumption DEF IInv
<1>1. /\ rx_deliv \in 0..MaxCount /\ rx_next \in 0..MaxCount /\ rx_reord \in 0..MaxCount
      /\ \A s \in rx_list : s.count \in 0..(MaxCount - 1)
    BY <1>0 DEF EntityTypeOK
<1>2. deliv \in rx_reord..MaxCount
    BY <1>1, RunEndIsGap
<1>3. t_age # Stopped /\ rx_deliv < rx_reord
    BY DEF TReorderingExpires, IInv, GapHasTimer
<1>4. /\ rx_list' = rx_list \ out /\ Burst(out) /\ rx_deliv' = deliv
      /\ rx_reord' = IF restart THEN rx_next ELSE rx_reord
      /\ t_age' = IF restart THEN 0 ELSE Stopped
      /\ t_known' = TRUE
      /\ UNCHANGED <<exists, tx_next, rx_next, security, entity_suspended, epoch, rx_at_zero>>
    BY DEF TReorderingExpires
<1>. HIDE DEF deliv
<1>5. log' \in Seq(Entry)
    BY <1>0, <1>1, <1>4, BurstEffect
<1>6. EntityTypeOK'
    BY <1>0, <1>1, <1>2, <1>4, <1>5 DEF EntityTypeOK, Entry, Stopped
<1>7. RxDelivSeparates'
    <2>1. deliv \in 0..MaxCount /\ rx_deliv <= deliv
        BY <1>0, <1>1, <1>2, <1>3
    <2>2. \A n \in CountsOf(out) : n < deliv
        BY DEF CountsOf
    <2>3. \A s \in out : s.count \in 0..(MaxCount - 1)
        BY <1>1
    <2>4. \A s \in rx_list' : deliv <= s.count
        BY <1>0, <1>1, <1>4, <2>1
    <2>. HIDE DEF out
    <2>. QED BY <1>4, <2>1, <2>2, <2>3, <2>4, SeparatesAfterBurst
<1>8. GapHasTimer'
    BY <1>0, <1>1, <1>2, <1>4 DEF GapHasTimer, Stopped
<1>9. NoStaleSdu'
    BY <1>4 DEF NoStaleSdu, IInv
<1>10. AbsentIsZero'
    BY DEF AbsentIsZero, TReorderingExpires
<1>. QED BY <1>6, <1>7, <1>8, <1>9, <1>10 DEF IInv

(* Unless a PDU was stored at time 0, the list is empty whenever           *)
(* t-Reordering is stopped: so flushing only when it runs loses nothing.   *)
LEMMA StoppedMeansEmpty ==
    ASSUME IInv, ~rx_at_zero, t_age = Stopped
    PROVE  rx_list = {}
<1>1. /\ rx_deliv \in Nat /\ rx_next \in Nat
      /\ \A s \in rx_list : s.count \in Nat
    BY CountAssumption DEF IInv, EntityTypeOK
<1>2. \A s \in rx_list : rx_deliv <= s.count
    BY DEF IInv, RxDelivSeparates
<1>3. \A s \in rx_list : s.count < rx_next
    BY DEF IInv, NoStaleSdu
<1>4. ~(rx_deliv < rx_next)
    BY DEF IInv, GapHasTimer
<1>. QED BY <1>1, <1>2, <1>3, <1>4

LEMMA FlushPreservesIInv ==
    ASSUME IInv, FlushAndReset, epoch < MaxEpoch,
           exists' \in BOOLEAN, entity_suspended' \in BOOLEAN, security' \in Security,
           UNCHANGED <<t_known, rx_at_zero>>
    PROVE  IInv'
<1>. DEFINE out == IF t_age # Stopped THEN rx_list ELSE {}
<1>0. MaxCount \in Nat /\ MaxEpoch \in Nat /\ EntityTypeOK
    BY CountAssumption DEF IInv
<1>1. \A s \in rx_list : s.count \in 0..(MaxCount - 1)
    BY <1>0 DEF EntityTypeOK
<1>2. /\ Burst(out) /\ rx_list' = rx_list \ out /\ t_age' = Stopped
      /\ tx_next' = 0 /\ rx_next' = 0 /\ rx_deliv' = 0
      /\ epoch' = epoch + 1 /\ rx_reord' = rx_reord
    BY DEF FlushAndReset
<1>3. out \subseteq rx_list /\ \A s \in out : s.count \in 0..(MaxCount - 1)
    BY <1>1
<1>4. log' \in Seq(Entry)
    BY <1>0, <1>2, <1>3, BurstEffect
<1>5. EntityTypeOK'
    BY <1>0, <1>2, <1>4 DEF EntityTypeOK, Entry
<1>6. RxDelivSeparates'
    <2>1. \A s \in rx_list' : s.count \in Nat
        BY <1>0, <1>1, <1>2
    <2>. HIDE DEF out
    <2>. QED BY <1>2, <1>3, <2>1, SeparatesAfterReset
<1>7. GapHasTimer'
    BY <1>2 DEF GapHasTimer
<1>8. NoStaleSdu'
    <2>1. ~rx_at_zero => rx_list' = {}
        BY <1>2, StoppedMeansEmpty
    <2>. QED BY <2>1 DEF NoStaleSdu
<1>9. AbsentIsZero'
    BY <1>2 DEF AbsentIsZero
<1>. QED BY <1>5, <1>6, <1>7, <1>8, <1>9 DEF IInv

(* Operations that leave a zeroed entity: creation, release, deletion.     *)
LEMMA ZeroedPreservesIInv ==
    ASSUME IInv, Zeroed, exists' \in BOOLEAN, security' \in Security,
           epoch' \in 0..MaxEpoch, log' \in Seq(Entry), RxDelivSeparates'
    PROVE  IInv'
<1>0. 0 \in 0..MaxCount
    BY CountAssumption
<1>1. EntityTypeOK'
    BY <1>0 DEF Zeroed, EntityTypeOK, Entry
<1>2. GapHasTimer' /\ NoStaleSdu' /\ AbsentIsZero'
    BY DEF Zeroed, GapHasTimer, NoStaleSdu, AbsentIsZero
<1>. QED BY <1>1, <1>2 DEF IInv

LEMMA NextPreservesIInv ==
    ASSUME IInv, bearer \in Bearers, [Next]_vars
    PROVE  IInv'
<1>0. EntityTypeOK /\ MaxCount \in Nat /\ MaxEpoch \in Nat /\ log \in Seq(Entry)
    BY CountAssumption, LogTyped DEF IInv
<1>. DEFINE NoSec == [integ |-> NoKey, ciph |-> NoKey]
<1>1. NoSec \in Security
    BY DEF Security
<1>2. ASSUME NEW p \in SecurityInputs, AddEntity(p) PROVE IInv'
    <2>1. security' \in Security
        BY <1>0, <1>2, SecurityTyped DEF AddEntity
    <2>2. /\ Zeroed /\ exists' \in BOOLEAN /\ epoch' = epoch /\ log' = log
        BY <1>2 DEF AddEntity
    <2>3. RxDelivSeparates'
        <3>1. rx_deliv = 0
            BY <1>2 DEF AddEntity, IInv, AbsentIsZero
        <3>. QED BY <2>2, <3>1 DEF Zeroed, IInv, RxDelivSeparates
    <2>. QED BY <1>0, <2>1, <2>2, <2>3, ZeroedPreservesIInv DEF EntityTypeOK
<1>3. ASSUME NEW p \in SecurityInputs, ConfigSetSecurity(p) \/ ReestablishDrbAm(p)
      PROVE  IInv'
    <2>1. security' \in Security
        BY <1>0, <1>3, SecurityTyped DEF ConfigSetSecurity, ReestablishDrbAm
    <2>2. /\ UNCHANGED <<exists, tx_next, rxvars, t_known, hist>>
          /\ entity_suspended' \in BOOLEAN
        BY <1>0, <1>3 DEF ConfigSetSecurity, ReestablishDrbAm, EntityTypeOK
    <2>. QED BY <2>1, <2>2 DEF IInv, EntityTypeOK, RxDelivSeparates, GapHasTimer, NoStaleSdu,
                               AbsentIsZero, rxvars, hist
<1>4. ASSUME NEW p \in SecurityInputs, ReestablishDrbUm(p) PROVE IInv'
    <2>1. security' \in Security
        BY <1>0, <1>4, SecurityTyped DEF ReestablishDrbUm
    <2>. QED BY <1>0, <1>4, <2>1, FlushPreservesIInv DEF ReestablishDrbUm, EntityTypeOK
<1>5. CASE Suspend
    BY <1>0, <1>5, FlushPreservesIInv DEF Suspend, EntityTypeOK
<1>6. ASSUME NEW p \in SecurityInputs, ReestablishSrb(p) PROVE IInv'
    <2>1. security' \in Security
        BY <1>0, <1>6, SecurityTyped DEF ReestablishSrb
    <2>2. /\ rx_list' = {} /\ t_age' = Stopped /\ epoch < MaxEpoch
          /\ tx_next' = 0 /\ rx_next' = 0 /\ rx_deliv' = 0 /\ epoch' = epoch + 1
          /\ entity_suspended' = FALSE
          /\ UNCHANGED <<exists, rx_reord, t_known, log, rx_at_zero>>
        BY <1>6 DEF ReestablishSrb
    <2>3. EntityTypeOK'
        <3>1. 0 \in 0..MaxCount /\ epoch' \in 0..MaxEpoch
            BY <1>0, <2>2 DEF EntityTypeOK
        <3>. QED BY <1>0, <2>1, <2>2, <3>1 DEF EntityTypeOK
    <2>4. Burst({})
        BY <2>2 DEF Burst
    <2>5. RxDelivSeparates'
        BY <2>2, <2>4, SeparatesAfterReset
    <2>. QED BY <2>2, <2>3, <2>5 DEF IInv, GapHasTimer, NoStaleSdu, AbsentIsZero
<1>7. CASE ProcessSdu
    <2>1. /\ tx_next' \in 0..MaxCount
          /\ UNCHANGED <<exists, rxvars, t_known, security, entity_suspended, hist>>
        BY <1>0, <1>7 DEF ProcessSdu, EntityTypeOK
    <2>. QED BY <2>1 DEF IInv, EntityTypeOK, RxDelivSeparates, GapHasTimer, NoStaleSdu,
                         AbsentIsZero, rxvars, hist
<1>8. ASSUME NEW c \in 0..(MaxCount - 1), NEW sec \in Security,
             InWindow(c), RecvPdu(PduOf(c, sec, c))
      PROVE  IInv'
    BY <1>8, RecvPreservesIInv
<1>9. Jumps \subseteq Nat \ {0}
    BY BearersAssumption DEF Jumps, Infinity, TReordering
<1>10. ASSUME NEW d \in Jumps, SetTime(d) PROVE IInv'
    <2>1. /\ t_known' = TRUE
          /\ t_age' = t_age \/ (t_age # Stopped /\ t_age' = t_age + d)
          /\ UNCHANGED <<exists, tx_next, rx_next, rx_deliv, rx_reord, rx_list,
                         security, entity_suspended, hist>>
        BY <1>10 DEF SetTime
    <2>2. t_age' \in Nat \cup {Stopped} /\ (t_age' = Stopped <=> t_age = Stopped)
        BY <1>0, <1>9, <2>1 DEF EntityTypeOK, Stopped
    <2>. QED BY <2>1, <2>2 DEF IInv, EntityTypeOK, RxDelivSeparates, GapHasTimer, NoStaleSdu,
                               AbsentIsZero, hist
<1>11. ASSUME NEW d \in Jumps, TReorderingExpires(d) PROVE IInv'
    BY <1>9, <1>11, ExpiryPreservesIInv
<1>12. CASE ReleaseDrb \/ Delete
    <2>1. PICK out : out \subseteq rx_list /\ Burst(out)
        <3>1. CASE ReleaseDrb
            BY <3>1 DEF ReleaseDrb
        <3>2. CASE Delete
            <4>1. Burst({})
                BY <3>2 DEF Burst, Delete
            <4>. QED BY <4>1
        <3>. QED BY <1>12, <3>1, <3>2
    <2>2. /\ Zeroed /\ exists' = FALSE /\ security' = NoSec
          /\ epoch' = epoch + 1 /\ epoch < MaxEpoch
        BY <1>12 DEF ReleaseDrb, Delete
    <2>3. \A s \in out : s.count \in 0..(MaxCount - 1)
        BY <1>0, <2>1 DEF EntityTypeOK
    <2>4. log' \in Seq(Entry)
        BY <1>0, <2>1, <2>3, BurstEffect
    <2>5. rx_deliv' = 0 /\ rx_list' = {} /\ epoch' \in 0..MaxEpoch
        BY <1>0, <2>2 DEF Zeroed, EntityTypeOK
    <2>6. RxDelivSeparates'
        BY <2>1, <2>2, <2>3, <2>5, SeparatesAfterReset
    <2>. QED BY <1>1, <2>2, <2>4, <2>5, <2>6, ZeroedPreservesIInv
<1>13. CASE UNCHANGED vars
    BY <1>13 DEF vars, rxvars, hist, IInv, EntityTypeOK, RxDelivSeparates, GapHasTimer, NoStaleSdu,
                    AbsentIsZero
<1>. QED BY <1>2, <1>3, <1>4, <1>5, <1>6, <1>7, <1>8, <1>10, <1>11, <1>12, <1>13
         DEF Next, Operation

LEMMA BearerStays == Spec => [](bearer \in Bearers)
<1>1. Init => bearer \in Bearers
    BY DEF Init
<1>2. bearer \in Bearers /\ [Next]_vars => (bearer \in Bearers)'
    BY DEF Next, vars
<1>. QED BY <1>1, <1>2, PTL DEF Spec

LEMMA Invariance == Spec => []IInv
<1>1. Init => IInv
    BY InitIInv
<1>2. IInv /\ bearer \in Bearers /\ [Next]_vars => IInv'
    BY NextPreservesIInv
<1>. QED BY <1>1, <1>2, BearerStays, PTL DEF Spec

(* The state of a PDCP entity keeps its types under every operation; in    *)
(* particular COUNT values stay in range although HFN inference subtracts. *)
THEOREM TypeCorrect == Spec => []TypeOK
<1>1. IInv /\ bearer \in Bearers => TypeOK
    BY DEF IInv, TypeOK
<1>. QED BY <1>1, BearerStays, Invariance, PTL

(* In every epoch rx_deliv separates the delivered from the stored SDUs.   *)
THEOREM DelivSeparates == Spec => []RxDelivSeparates
<1>1. IInv => RxDelivSeparates
    BY DEF IInv
<1>. QED BY <1>1, Invariance, PTL

(* A gap in the received COUNTs is always covered by t-Reordering, except  *)
(* after a PDU was stored at t_current = 0.                                *)
THEOREM GapsAreTimed == Spec => []GapHasTimer
<1>1. IInv => GapHasTimer
    BY DEF IInv
<1>. QED BY <1>1, Invariance, PTL

(* No SDU stored before a reset of the counters (suspension,               *)
(* re-establishment, release) survives it, with the same exception.        *)
THEOREM ResetsLeaveNothing == Spec => []NoStaleSdu
<1>1. IInv => NoStaleSdu
    BY DEF IInv
<1>. QED BY <1>1, Invariance, PTL

(* HFN inference is exact in every reachable state, for every SN size.     *)
THEOREM HfnIsExact == Spec => []HfnInference
<1>1. TypeOK => HfnInference
    <2>. SUFFICES ASSUME TypeOK, NEW c \in 0..(MaxCount - 1), InWindow(c)
                  PROVE  RcvdCount(c % SnModulus) = c
        BY DEF HfnInference
    <2>1. rx_deliv \in Nat /\ c \in Nat /\ c < CountModulus
        BY CountAssumption DEF TypeOK, EntityTypeOK
    <2>. QED BY <2>1, RcvdCountExact
<1>. QED BY <1>1, TypeCorrect, PTL

(* A burst of SDUs at or above rx_deliv is one the service allows.         *)
LEMMA BurstIsAllowed ==
    ASSUME IInv, NEW out, \A s \in out : s.count \in 0..(MaxCount - 1), Burst(out),
           \A s \in out : rx_deliv <= s.count
    PROVE  Delivery!Burst \/ UNCHANGED log
<1>1. CASE out = {}
    BY <1>1 DEF Burst
<1>2. CASE out # {}
    <2>. DEFINE cs == CountsOf(out)
    <2>1. cs \in SUBSET (0..(MaxCount - 1)) /\ cs # {}
        BY <1>2 DEF CountsOf
    <2>2. \A n \in cs : rx_deliv <= n
        BY DEF CountsOf
    <2>3. log' = Append(log, [epoch |-> epoch, counts |-> cs])
        BY <1>2 DEF Burst
    <2>4. Delivery!Fresh(cs)
        <3>1. /\ rx_deliv \in Nat /\ cs \subseteq Nat
              /\ \A i \in 1..Len(log) : log[i].counts \subseteq Nat
            BY <2>1, LogTyped DEF IInv, EntityTypeOK
        <3>2. \A i \in 1..Len(log) :
                  log[i].epoch = epoch => \A n \in log[i].counts : n < rx_deliv
            BY DEF IInv, RxDelivSeparates
        <3>. HIDE DEF cs
        <3>. QED BY <2>2, <3>1, <3>2 DEF Delivery!Fresh
    <2>. HIDE DEF cs
    <2>. QED BY <2>1, <2>3, <2>4 DEF Delivery!Burst
<1>. QED BY <1>1, <1>2

LEMMA NextIsDelivery ==
    ASSUME IInv, [Next]_vars
    PROVE  [Delivery!DNext]_(Delivery!dvars)
<1>0. /\ EntityTypeOK /\ \A s \in rx_list : s.count \in 0..(MaxCount - 1)
      /\ \A s \in rx_list : rx_deliv <= s.count
    BY DEF IInv, EntityTypeOK, RxDelivSeparates
<1>. DEFINE Goal == [Delivery!DNext]_(Delivery!dvars)
<1>a. ASSUME NEW out, out \subseteq rx_list, Burst(out), epoch' \in {epoch, epoch + 1}
      PROVE  Goal
    BY <1>0, <1>a, BurstIsAllowed DEF Delivery!DNext, Delivery!dvars
<1>b. ASSUME log' = log, epoch' \in {epoch, epoch + 1}
      PROVE  Goal
    BY <1>b DEF Delivery!DNext, Delivery!dvars
<1>1. ASSUME NEW p \in SecurityInputs,
             AddEntity(p) \/ ConfigSetSecurity(p) \/ ReestablishDrbAm(p) \/ ReestablishSrb(p)
      PROVE  Goal
    BY <1>1, <1>b DEF AddEntity, ConfigSetSecurity, ReestablishDrbAm, ReestablishSrb, hist
<1>2. ASSUME FlushAndReset PROVE Goal
    BY <1>2, <1>a DEF FlushAndReset
<1>3. ASSUME NEW p \in SecurityInputs, ReestablishDrbUm(p) PROVE Goal
    BY <1>2, <1>3 DEF ReestablishDrbUm
<1>4. CASE Suspend
    BY <1>2, <1>4 DEF Suspend
<1>5. CASE ProcessSdu
    BY <1>5, <1>b DEF ProcessSdu, hist
<1>6. ASSUME NEW c \in 0..(MaxCount - 1), NEW sec \in Security,
             InWindow(c), RecvPdu(PduOf(c, sec, c))
      PROVE  Goal
    <2>1. PICK d \in (0..(MaxCount - 1)) \cup {Garbage}, deliv \in 0..MaxCount :
             Received(c, d, deliv)
        BY <1>0, <1>6, RecvEffect
    <2>. DEFINE new == [count |-> c, epoch |-> epoch, data |-> d]
                stored == rx_list \cup {new}
                out == IF c = rx_deliv THEN {s \in stored : s.count < deliv} ELSE {}
    <2>2. new.count = c
        OBVIOUS
    <2>3. \A s \in stored : s.count \in 0..(MaxCount - 1) /\ rx_deliv <= s.count
        BY <1>0, <2>1, <2>2 DEF Received
    <2>4. out \subseteq stored /\ Burst(out) /\ epoch' = epoch
        BY <2>1 DEF Received
    <2>. HIDE DEF out, stored
    <2>5. Delivery!Burst \/ UNCHANGED log
        BY <2>3, <2>4, BurstIsAllowed
    <2>. QED BY <2>4, <2>5 DEF Delivery!DNext, Delivery!dvars
<1>7. ASSUME NEW d \in Jumps, SetTime(d) PROVE Goal
    BY <1>7, <1>b DEF SetTime, hist
<1>8. ASSUME NEW d \in Jumps, TReorderingExpires(d) PROVE Goal
    BY <1>8, <1>a DEF TReorderingExpires
<1>9. CASE ReleaseDrb
    BY <1>9, <1>a DEF ReleaseDrb
<1>10. CASE Delete
    BY <1>10, <1>b DEF Delete
<1>11. CASE UNCHANGED vars
    BY <1>11, <1>b DEF vars, hist
<1>. QED BY <1>1, <1>3, <1>4, <1>5, <1>6, <1>7, <1>8, <1>9, <1>10, <1>11
         DEF Next, Operation

(* The PDCP entity implements the in-order, at-most-once delivery service. *)
THEOREM ImplementsDelivery == Spec => DeliversInOrder
<1>1. Init => Delivery!DInit
    BY DEF Init, Delivery!DInit
<1>2. IInv /\ [Next]_vars => [Delivery!DNext]_(Delivery!dvars)
    BY NextIsDelivery
<1>. QED BY <1>1, <1>2, Invariance, PTL DEF Spec, DeliversInOrder, Delivery!DSpec
=============================================================================
