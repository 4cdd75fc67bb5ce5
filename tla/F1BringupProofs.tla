--------------------------- MODULE F1BringupProofs ---------------------------
(***************************************************************************)
(* Proofs about the F1 bring-up, for any number of DUs, associations and   *)
(* faults and whichever faults happen: type correctness, no F1AP PDU in    *)
(* clear, no DU registered for ever on an association that is gone, and    *)
(* TASK_SCTP goes wrong of its own only in a handshake whose other end is  *)
(* gone or refuses it; and, for one DU and a CU that is in time, no flight *)
(* of a handshake is taken for F1AP.                                       *)
(***************************************************************************)
EXTENDS F1Bringup, TLAPS

-----------------------------------------------------------------------------
(* Orders within a queue.                                                  *)

(* A request to send on a comes after the request for a's handshake.       *)
HandshakeAhead(q, a) ==
    \A i \in 1..Len(q) : q[i].t = "send" /\ q[i].a = a =>
        \E j \in 1..(i - 1) : q[j].t = "handshake" /\ q[j].a = a

(* What was received on a comes before the loss of a.                      *)
LossBehind(q, a) ==
    \A i \in 1..Len(q) : q[i].t = "data" /\ q[i].a = a =>
        \E j \in (i + 1)..Len(q) : q[j] = M("lost", a)

OnlyLast(q, t) == \A i \in 1..Len(q) : q[i].t = t => i = Len(q)

NoneOf(q, t) == \A m \in Range(q) : m.t # t
AllOn(q, t, a) == \A m \in Range(q) : m.t = t => m.a = a

-----------------------------------------------------------------------------
(* The inductive invariant.                                                *)

Issued == 1..Len(owner)

(* A DU.  At any time one of these is under way and no other: a request    *)
(* for an association, an association, its loss on the way to TASK_DU_F1,  *)
(* the sleep before the next request; what is left of earlier associations *)
(* is told apart once there is a new one.                                  *)
DuRecord == [f1 : {"idle", "sleep1", "sleep2", "sleep3"},
             assoc : Assoc \cup {None}, f1q : Seq(Msg), q : Seq(Msg),
             task : {"loop", "flight", "refused", "undefined", "off"},
             cnx : Assoc \cup {None}, hs : BOOLEAN, acked : Assoc \cup {None}]
OneAttempt(r) ==
    /\ OnlyLast(r.q, "assocReq") /\ OnlyLast(r.f1q, "lost")
    /\ r.cnx # None \/ r.f1q # <<>> \/ r.f1 # "idle" => NoneOf(r.q, "assocReq")
    /\ r.f1 = "sleep3" => r.cnx = None /\ r.f1q = <<>>
    /\ r.cnx # None => /\ NoneOf(r.f1q, "lost")
                       /\ AllOn(r.q, "handshake", r.cnx)
                       /\ AllOn(r.f1q, "established", r.cnx)
                       /\ r.f1 \in {"sleep1", "sleep2"} => r.assoc = r.cnx

(* Until the handshake is done, its request is ahead of every request to   *)
(* send on the association.                                                *)
HandshakeFirst(r) ==
    r.task = "loop" /\ r.cnx # None /\ ~r.hs =>
        /\ HandshakeAhead(r.q, r.cnx)
        /\ r.f1 = "sleep2" => \E m \in Range(r.q) : m.t = "handshake" /\ m.a = r.cnx
DuOK(r) ==
    /\ r \in DuRecord
    /\ OneAttempt(r) /\ HandshakeFirst(r)
    /\ r.task \in {"flight", "refused"} => r.cnx # None
    /\ \A m \in Range(r.q) : m.t = "send" => m.p \in F1aps
DuInv == du \in [Dus -> DuRecord] /\ \A d \in Dus : DuOK(du[d])

(* Associations: each end belongs to the DU that opened it; the CU holds   *)
(* it in its backlog, once, or as a connection.                            *)
Distinct(q) == \A i, j \in 1..Len(q) : q[i] = q[j] => i = j
EndsInv ==
    /\ owner \in Seq(Dus) /\ Len(owner) <= MaxAssoc
    /\ \A d \in Dus : du[d].cnx # None => du[d].cnx \in Issued /\ owner[du[d].cnx] = d
    /\ cu.cnx \subseteq Issued /\ Range(cu.backlog) \subseteq Issued
    /\ cu.cnx \cap Range(cu.backlog) = {}
    /\ Distinct(cu.backlog)

(* The CU's tasks.                                                         *)
CuRecord == [task : {"loop", "hello", "finished", "refused", "undefined", "off"},
             at : Assoc \cup {None}, listening : BOOLEAN,
             backlog : Seq(Assoc), cnx : SUBSET Assoc, hs : SUBSET Assoc,
             events : SUBSET (Assoc \cup {None}), polled : BOOLEAN,
             q : Seq(Msg), f1q : Seq(Msg)]
CuInv ==
    /\ cu \in CuRecord /\ cu.hs \subseteq cu.cnx
    /\ cu.events \subseteq cu.cnx \cup {None}
    /\ None \in cu.events => cu.backlog # <<>>
    /\ cu.task \in {"hello", "finished"} => cu.at \in cu.cnx /\ cu.events = {}
    /\ cu.task = "refused" => cu.at \in cu.cnx
    /\ cu.task = "undefined" => cu.at \in Issued
    /\ cu.task = "off" => cu = CuOff /\ rrc = [q |-> <<>>, dus |-> {}]

(* The messages of the CU's queues.  A message that leads to an F1AP PDU   *)
(* being sent is about an association whose handshake is done or that is   *)
(* gone; one that leads to a handshake is about a connection that the CU   *)
(* has, or about one that the DU does not have any more.                   *)
Pending == Range(cu.f1q) \cup Range(cu.q) \cup Range(rrc.q)
PendingOK(m) ==
    /\ m.t # "init" => m.a \in Issued
    /\ m.t = "send" => m.p \in F1aps
    /\ m.t = "lost" => m = M("lost", m.a)
    /\ m.t = "send" \/ (m.t = "data" /\ m.p = "setupReq") => m.a \in cu.hs \/ ~CuEnd(m.a)
    /\ m.t \in {"established", "handshake"} => m.a \in cu.cnx \/ ~DuEnd(m.a)
PendingInv ==
    /\ rrc \in [q : Seq(Msg), dus : SUBSET [assoc : Assoc, du : Dus]]
    /\ \A m \in Pending : PendingOK(m)
    /\ \A m \in Range(rrc.q) : m.t = "data" => m.p = "setupReq"

(* The sockets.                                                            *)
WireInv ==
    /\ toCu \in [Assoc -> Seq(Wire)] /\ toDu \in [Assoc -> Seq(Wire)]
    /\ \A a \in cu.events \ {None} : toCu[a] # <<>>
    /\ \A a \in Issued : /\ DuEnd(a) => NoneOf(toCu[a], "lost")
                         /\ CuEnd(a) => NoneOf(toDu[a], "lost")
                         /\ DuUp(a) => NoneOf(toCu[a], "alert")
                         /\ CuUp(a) => NoneOf(toDu[a], "alert")

(* Nothing of an association that is gone comes after its loss.            *)
RegistryInv ==
    /\ \A a \in Issued \ cu.cnx :
          /\ LossBehind(cu.f1q, a)
          /\ M("lost", a) \in Range(cu.f1q) \/ LossBehind(rrc.q, a)

IInv ==
    /\ DuInv /\ EndsInv /\ CuInv /\ PendingInv /\ WireInv /\ RegistryInv
    /\ F1apProtected /\ NoGhostDu /\ UndefinedOnlyIfPeerFails
    /\ faults \in 0..MaxFaults

-----------------------------------------------------------------------------
(* Queues.                                                                 *)

LEMMA RangeEmpty == Range(<<>>) = {} /\ \A S : <<>> \in Seq(S)
BY DEF Range

LEMMA AppendIndex ==
    ASSUME NEW S, NEW q \in Seq(S), NEW m
    PROVE  /\ Len(q) \in Nat /\ Len(Append(q, m)) = Len(q) + 1
           /\ \A n \in 1..Len(q) : Append(q, m)[n] = q[n]
           /\ Append(q, m)[Len(q) + 1] = m
           /\ DOMAIN q = 1..Len(q) /\ DOMAIN Append(q, m) = 1..(Len(q) + 1)
<1>1. q \in Seq(S \cup {m}) /\ m \in S \cup {m}
  OBVIOUS
<1>. QED BY <1>1

LEMMA TailIndex ==
    ASSUME NEW S, NEW q \in Seq(S), q # <<>>
    PROVE  /\ Len(q) \in Nat \ {0} /\ Len(Tail(q)) = Len(q) - 1
           /\ \A n \in 1..(Len(q) - 1) : Tail(q)[n] = q[n + 1]
           /\ Head(q) = q[1] /\ q[1] \in S /\ Tail(q) \in Seq(S)
           /\ DOMAIN q = 1..Len(q) /\ DOMAIN Tail(q) = 1..(Len(q) - 1)
OBVIOUS

LEMMA RangeAppend ==
    ASSUME NEW S, NEW q \in Seq(S), NEW m
    PROVE  /\ Range(Append(q, m)) = Range(q) \cup {m}
           /\ m \in S => Append(q, m) \in Seq(S)
           /\ Append(q, m) # <<>>
<1>1. Range(Append(q, m)) = Range(q) \cup {m}
  BY AppendIndex DEF Range
<1>2. Append(q, m) # <<>>
  BY AppendIndex
<1>. QED BY <1>1, <1>2

LEMMA RangeTail ==
    ASSUME NEW S, NEW q \in Seq(S), q # <<>>
    PROVE  /\ Range(q) = Range(Tail(q)) \cup {Head(q)}
           /\ Tail(q) \in Seq(S) /\ Head(q) \in S
<1>1. ASSUME NEW n \in 1..Len(q) PROVE q[n] \in Range(Tail(q)) \cup {Head(q)}
  <2>1. CASE n = 1
    BY <2>1
  <2>2. CASE n # 1
    <3>1. (n - 1) \in DOMAIN Tail(q) /\ Tail(q)[n - 1] = q[n]
      BY <2>2, TailIndex
    <3>. QED BY <3>1 DEF Range
  <2>. QED BY <2>1, <2>2
<1>2. Range(Tail(q)) \cup {Head(q)} \subseteq Range(q)
  BY TailIndex DEF Range
<1>3. Range(q) \subseteq Range(Tail(q)) \cup {Head(q)}
  BY <1>1 DEF Range
<1>. QED BY <1>2, <1>3

(* An element of a queue has a place in it.                                *)
LEMMA InRange ==
    ASSUME NEW S, NEW q \in Seq(S), NEW m
    PROVE  /\ m \in Range(q) => \E i \in 1..Len(q) : q[i] = m
           /\ \A i \in 1..Len(q) : q[i] \in Range(q)
           /\ Range(q) \subseteq S
BY DEF Range

LEMMA HandshakeAheadAppend ==
    ASSUME NEW q \in Seq(Msg), NEW m \in Msg, NEW a, HandshakeAhead(q, a),
           m.t = "send" /\ m.a = a =>
              \E x \in Range(q) : x.t = "handshake" /\ x.a = a
    PROVE  HandshakeAhead(Append(q, m), a)
<1>. DEFINE p == Append(q, m)
<1>1. /\ Len(q) \in Nat /\ Len(p) = Len(q) + 1 /\ p[Len(q) + 1] = m
      /\ \A n \in 1..Len(q) : p[n] = q[n]
  BY AppendIndex
<1>. HIDE DEF p
<1>2. ASSUME NEW i \in 1..Len(p), p[i].t = "send", p[i].a = a
      PROVE  \E j \in 1..(i - 1) : p[j].t = "handshake" /\ p[j].a = a
  <2>1. CASE i \in 1..Len(q)
    <3>1. PICK j \in 1..(i - 1) : q[j].t = "handshake" /\ q[j].a = a
      BY <1>1, <1>2, <2>1 DEF HandshakeAhead
    <3>2. p[j] = q[j]
      BY <1>1, <2>1
    <3>. QED BY <3>1, <3>2
  <2>2. CASE i = Len(q) + 1
    <3>1. PICK x \in Range(q) : x.t = "handshake" /\ x.a = a
      BY <1>1, <1>2, <2>2
    <3>2. PICK j \in 1..Len(q) : q[j] = x
      BY <3>1, InRange
    <3>3. p[j] = x /\ j \in 1..(i - 1)
      BY <1>1, <2>2, <3>2
    <3>. QED BY <3>1, <3>3
  <2>. QED BY <1>1, <2>1, <2>2
<1>3. HandshakeAhead(p, a)
  BY <1>2 DEF HandshakeAhead
<1>. QED BY <1>3 DEF p

LEMMA HandshakeAheadTail ==
    ASSUME NEW q \in Seq(Msg), q # <<>>, NEW a, HandshakeAhead(q, a)
    PROVE  /\ ~(Head(q).t = "send" /\ Head(q).a = a)
           /\ Head(q).t # "handshake" => HandshakeAhead(Tail(q), a)
<1>. DEFINE p == Tail(q)
<1>1. /\ Len(q) \in Nat \ {0} /\ Len(p) = Len(q) - 1 /\ Head(q) = q[1]
      /\ \A n \in 1..(Len(q) - 1) : p[n] = q[n + 1]
  BY TailIndex
<1>. HIDE DEF p
<1>2. ~(Head(q).t = "send" /\ Head(q).a = a)
  BY <1>1 DEF HandshakeAhead
<1>3. ASSUME NEW i \in 1..Len(p), p[i].t = "send", p[i].a = a, Head(q).t # "handshake"
      PROVE  \E j \in 1..(i - 1) : p[j].t = "handshake" /\ p[j].a = a
  <2>1. i + 1 \in 1..Len(q) /\ q[i + 1] = p[i]
    BY <1>1
  <2>2. PICK k \in 1..i : q[k].t = "handshake" /\ q[k].a = a
    BY <1>3, <2>1 DEF HandshakeAhead
  <2>3. k # 1
    BY <1>1, <1>3, <2>2
  <2>4. k - 1 \in 1..(i - 1) /\ p[k - 1] = q[k]
    BY <1>1, <2>2, <2>3
  <2>. QED BY <2>2, <2>4
<1>4. Head(q).t # "handshake" => HandshakeAhead(p, a)
  BY <1>3 DEF HandshakeAhead
<1>. QED BY <1>2, <1>4 DEF p

LEMMA LossBehindAppend ==
    ASSUME NEW q \in Seq(Msg), NEW m \in Msg, NEW a
    PROVE  /\ LossBehind(q, a) /\ ~(m.t = "data" /\ m.a = a) => LossBehind(Append(q, m), a)
           /\ m = M("lost", a) => LossBehind(Append(q, m), a)
<1>. DEFINE p == Append(q, m)
<1>1. /\ Len(q) \in Nat /\ Len(p) = Len(q) + 1 /\ p[Len(q) + 1] = m
      /\ \A n \in 1..Len(q) : p[n] = q[n]
  BY AppendIndex
<1>. HIDE DEF p
<1>2. ASSUME LossBehind(q, a), ~(m.t = "data" /\ m.a = a) PROVE LossBehind(p, a)
  <2>1. ASSUME NEW i \in 1..Len(p), p[i].t = "data", p[i].a = a
        PROVE  \E j \in (i + 1)..Len(p) : p[j] = M("lost", a)
    <3>1. i \in 1..Len(q) /\ p[i] = q[i]
      BY <1>1, <1>2, <2>1
    <3>2. PICK j \in (i + 1)..Len(q) : q[j] = M("lost", a)
      BY <1>2, <2>1, <3>1 DEF LossBehind
    <3>3. j \in (i + 1)..Len(p) /\ p[j] = q[j]
      BY <1>1, <3>1, <3>2
    <3>. QED BY <3>2, <3>3
  <2>. QED BY <2>1 DEF LossBehind
<1>3. ASSUME m = M("lost", a) PROVE LossBehind(p, a)
  <2>1. ASSUME NEW i \in 1..Len(p), p[i].t = "data", p[i].a = a
        PROVE  \E j \in (i + 1)..Len(p) : p[j] = M("lost", a)
    <3>1. m.t # "data"
      BY <1>3 DEF M
    <3>2. i # Len(q) + 1
      BY <1>1, <2>1, <3>1
    <3>3. Len(p) \in (i + 1)..Len(p)
      BY <1>1, <3>2
    <3>. QED BY <1>1, <1>3, <3>3
  <2>. QED BY <2>1 DEF LossBehind
<1>. QED BY <1>2, <1>3 DEF p

LEMMA LossBehindTail ==
    ASSUME NEW q \in Seq(Msg), q # <<>>, NEW a, LossBehind(q, a)
    PROVE  /\ LossBehind(Tail(q), a)
           /\ Head(q).t = "data" /\ Head(q).a = a => M("lost", a) \in Range(Tail(q))
<1>. DEFINE p == Tail(q)
<1>1. /\ Len(q) \in Nat \ {0} /\ Len(p) = Len(q) - 1 /\ Head(q) = q[1]
      /\ \A n \in 1..(Len(q) - 1) : p[n] = q[n + 1]
      /\ p \in Seq(Msg)
  BY TailIndex
<1>. HIDE DEF p
<1>2. ASSUME NEW i \in 1..Len(p), p[i].t = "data", p[i].a = a
      PROVE  \E j \in (i + 1)..Len(p) : p[j] = M("lost", a)
  <2>1. i + 1 \in 1..Len(q) /\ q[i + 1] = p[i]
    BY <1>1
  <2>2. PICK k \in (i + 2)..Len(q) : q[k] = M("lost", a)
    BY <1>1, <1>2, <2>1 DEF LossBehind
  <2>3. k - 1 \in (i + 1)..Len(p) /\ p[k - 1] = q[k]
    BY <1>1, <2>1, <2>2
  <2>. QED BY <2>2, <2>3
<1>3. ASSUME Head(q).t = "data", Head(q).a = a PROVE M("lost", a) \in Range(p)
  <2>1. PICK k \in 2..Len(q) : q[k] = M("lost", a)
    BY <1>1, <1>3 DEF LossBehind
  <2>2. k - 1 \in 1..Len(p) /\ p[k - 1] = q[k]
    BY <1>1, <2>1
  <2>. QED BY <1>1, <2>1, <2>2, InRange
<1>. QED BY <1>2, <1>3 DEF p, LossBehind

(* Without a loss there is nothing that needs one, and the other way round. *)
LEMMA NothingLost ==
    ASSUME NEW q \in Seq(Msg), NEW a, LossBehind(q, a), M("lost", a) \notin Range(q)
    PROVE  \A m \in Range(q) : ~(m.t = "data" /\ m.a = a)
<1>1. ASSUME NEW i \in 1..Len(q), q[i].t = "data", q[i].a = a PROVE FALSE
  <2>1. PICK j \in (i + 1)..Len(q) : q[j] = M("lost", a)
    BY <1>1 DEF LossBehind
  <2>2. j \in 1..Len(q)
    BY <1>1, <2>1
  <2>. QED BY <2>1, <2>2, InRange
<1>. QED BY <1>1, InRange

LEMMA OnlyLastAppend ==
    ASSUME NEW q \in Seq(Msg), NEW m \in Msg, NEW t, NoneOf(q, t)
    PROVE  OnlyLast(Append(q, m), t)
<1>1. \A n \in 1..Len(q) : q[n].t # t
  BY InRange DEF NoneOf
<1>. QED BY <1>1, AppendIndex DEF OnlyLast

LEMMA OnlyLastTail ==
    ASSUME NEW q \in Seq(Msg), q # <<>>, NEW t, OnlyLast(q, t)
    PROVE  /\ OnlyLast(Tail(q), t)
           /\ Head(q).t = t => Tail(q) = <<>>
<1>1. OnlyLast(Tail(q), t)
  BY TailIndex DEF OnlyLast
<1>2. Head(q).t = t => Len(Tail(q)) = 0
  <2>1. 1 \in 1..Len(q) /\ Head(q) = q[1] /\ Len(q) \in Nat /\ Len(Tail(q)) = Len(q) - 1
    BY TailIndex
  <2>2. q[1].t = t => 1 = Len(q)
    BY <2>1 DEF OnlyLast
  <2>. QED BY <2>1, <2>2
<1>. QED BY <1>1, <1>2, TailIndex

LEMMA DistinctAppend ==
    ASSUME NEW q \in Seq(Assoc), NEW a, a \notin Range(q), Distinct(q)
    PROVE  Distinct(Append(q, a))
<1>1. \A n \in 1..Len(q) : q[n] # a
  BY InRange
<1>. QED BY <1>1, AppendIndex DEF Distinct

LEMMA DistinctTail ==
    ASSUME NEW q \in Seq(Assoc), q # <<>>, Distinct(q)
    PROVE  Distinct(Tail(q)) /\ Head(q) \notin Range(Tail(q))
<1>1. Distinct(Tail(q))
  BY TailIndex DEF Distinct
<1>2. \A n \in 1..(Len(q) - 1) : Tail(q)[n] # Head(q)
  BY TailIndex DEF Distinct
<1>. QED BY <1>1, <1>2, TailIndex DEF Range

-----------------------------------------------------------------------------
(* The DUs.                                                                *)

LEMMA Nones == None \notin Assoc
BY DEF Assoc, None

LEMMA Messages ==
    ASSUME NEW a \in Assoc \cup {None}
    PROVE  /\ \A t \in {"init", "assocReq", "handshake", "ind", "established", "lost"} :
                  M(t, a) \in Msg /\ M(t, a).t = t /\ M(t, a).a = a
           /\ \A p \in {"junk", "hello", "flight", "finished"} \cup F1aps :
                  [t |-> "data", a |-> a, p |-> p] \in Msg
           /\ \A p \in F1aps : [t |-> "send", a |-> a, p |-> p] \in Msg
           /\ \A m \in Msg : m.a \in Assoc \cup {None}
BY DEF M, Msg

(* What one DU does.                                                       *)
LEMMA OneDu ==
    ASSUME DuInv, NEW d \in Dus, NEW r, DuOK(r), du' = [du EXCEPT ![d] = r]
    PROVE  DuInv'
BY DEF DuInv, DuOK

LEMMA StartedIsOK == DuOK(DuStarted) /\ DuOK(DuOff)
<1>1. M("assocReq", None) \in Msg /\ M("assocReq", None).t = "assocReq"
  BY Messages
<1>2. DuStarted \in DuRecord /\ DuOff \in DuRecord
  <2>1. <<M("assocReq", None)>> \in Seq(Msg) /\ <<>> \in Seq(Msg)
    BY <1>1
  <2>. QED BY <2>1 DEF DuStarted, DuOff, DuRecord
<1>3. Range(<<M("assocReq", None)>>) = {M("assocReq", None)}
  BY DEF Range
<1>4. /\ OnlyLast(<<M("assocReq", None)>>, "assocReq") /\ OnlyLast(<<>>, "assocReq")
      /\ OnlyLast(<<>>, "lost") /\ NoneOf(<<>>, "assocReq")
  BY RangeEmpty DEF OnlyLast, NoneOf
<1>5. OneAttempt(DuStarted) /\ OneAttempt(DuOff)
  BY <1>4 DEF OneAttempt, DuStarted, DuOff
<1>6. HandshakeFirst(DuStarted) /\ HandshakeFirst(DuOff)
  BY DEF HandshakeFirst, DuStarted, DuOff
<1>7. \A m \in Range(DuStarted.q) \cup Range(DuOff.q) : m.t # "send"
  BY <1>1, <1>3, RangeEmpty DEF DuStarted, DuOff
<1>8. \A t \in {"flight", "refused"} : DuStarted.task # t /\ DuOff.task # t
  BY DEF DuStarted, DuOff
<1>. QED BY <1>2, <1>5, <1>6, <1>7, <1>8 DEF DuOK

(* The queue of a DU that takes its next ITTI message.                     *)
LEMMA TakeFacts ==
    ASSUME NEW r, DuOK(r), r.q # <<>>
    PROVE  /\ Tail(r.q) \in Seq(Msg) /\ Head(r.q) \in Msg
           /\ Range(r.q) = Range(Tail(r.q)) \cup {Head(r.q)}
           /\ OnlyLast(Tail(r.q), "assocReq")
           /\ Head(r.q).t = "assocReq" =>
                 Tail(r.q) = <<>> /\ r.cnx = None /\ r.f1q = <<>> /\ r.f1 = "idle"
<1>1. r.q \in Seq(Msg) /\ OnlyLast(r.q, "assocReq")
  BY DEF DuOK, DuRecord, OneAttempt
<1>2. Range(r.q) = Range(Tail(r.q)) \cup {Head(r.q)} /\ Head(r.q) \in Msg
      /\ Tail(r.q) \in Seq(Msg)
  BY <1>1, RangeTail
<1>3. OnlyLast(Tail(r.q), "assocReq") /\ (Head(r.q).t = "assocReq" => Tail(r.q) = <<>>)
  BY <1>1, OnlyLastTail
<1>4. Head(r.q).t = "assocReq" => r.cnx = None /\ r.f1q = <<>> /\ r.f1 = "idle"
  BY <1>2 DEF DuOK, OneAttempt, NoneOf
<1>. QED BY <1>2, <1>3, <1>4

LEMMA DuNewAssociationReqKeeps ==
    ASSUME DuInv, NEW d \in Dus, DuNewAssociationReq(d) \/ DuNewAssociationReqFails(d)
    PROVE  DuInv'
<1>. DEFINE r == du[d]
            a == Len(owner) + 1
            m == M("lost", None)
<1>1. DuOK(r) /\ r \in DuRecord /\ r.q # <<>> /\ Head(r.q).t = "assocReq"
  BY DEF DuInv, DuOK, DuNewAssociationReq, DuNewAssociationReqFails, DuTake
<1>2. /\ Tail(r.q) = <<>> /\ r.cnx = None /\ r.f1q = <<>> /\ r.f1 = "idle"
      /\ Range(<<>>) = {} /\ <<>> \in Seq(Msg)
  BY <1>1, TakeFacts, RangeEmpty
<1>3. /\ OnlyLast(<<>>, "assocReq") /\ OnlyLast(<<>>, "lost") /\ NoneOf(<<>>, "assocReq")
      /\ NoneOf(<<>>, "lost") /\ \A b : HandshakeAhead(<<>>, b)
      /\ \A b : AllOn(<<>>, "handshake", b) /\ AllOn(<<>>, "established", b)
  BY RangeEmpty DEF OnlyLast, NoneOf, HandshakeAhead, AllOn
<1>4. CASE a \in Assoc /\ du' = [du EXCEPT ![d].q = Tail(@), ![d].cnx = a, ![d].hs = FALSE]
  <2>. DEFINE n == [r EXCEPT !.q = <<>>, !.cnx = a, !.hs = FALSE]
  <2>1. du' = [du EXCEPT ![d] = n]
    BY <1>2, <1>4 DEF DuInv
  <2>2. n \in DuRecord
    BY <1>1, <1>2, <1>4 DEF DuRecord
  <2>3. n.q = <<>> /\ n.f1q = <<>> /\ n.f1 = "idle" /\ n.cnx = a /\ ~n.hs /\ n.task = r.task
    BY <1>1, <1>2 DEF DuRecord
  <2>. HIDE DEF n
  <2>4. OneAttempt(n) /\ HandshakeFirst(n)
    BY <1>3, <2>3 DEF OneAttempt, HandshakeFirst
  <2>5. DuOK(n)
    BY <1>2, <1>4, <2>2, <2>3, <2>4, Nones DEF DuOK
  <2>. QED BY <2>1, <2>5, OneDu
<1>5. CASE du' = [du EXCEPT ![d].q = Tail(@), ![d].f1q = Append(@, m)]
  <2>. DEFINE n == [r EXCEPT !.q = <<>>, !.f1q = Append(r.f1q, m)]
  <2>1. du' = [du EXCEPT ![d] = n]
    BY <1>2, <1>5 DEF DuInv
  <2>2. m \in Msg /\ Append(<<>>, m) \in Seq(Msg)
    BY <1>2, Messages, RangeAppend
  <2>3. n \in DuRecord
    BY <1>1, <1>2, <2>2 DEF DuRecord
  <2>4. n.q = <<>> /\ n.f1q = Append(<<>>, m) /\ n.f1 = "idle" /\ n.cnx = None
        /\ n.task = r.task
    BY <1>1, <1>2 DEF DuRecord
  <2>5. OnlyLast(Append(<<>>, m), "lost")
    BY <1>2, <1>3, <2>2, OnlyLastAppend
  <2>. HIDE DEF n, m
  <2>6. OneAttempt(n) /\ HandshakeFirst(n)
    BY <1>3, <2>4, <2>5 DEF OneAttempt, HandshakeFirst
  <2>7. DuOK(n)
    BY <1>1, <1>2, <2>3, <2>4, <2>6 DEF DuOK
  <2>. QED BY <2>1, <2>7, OneDu
<1>6. CASE du' = [du EXCEPT ![d].q = Tail(@)]
  <2>. DEFINE n == [r EXCEPT !.q = <<>>]
  <2>1. du' = [du EXCEPT ![d] = n]
    BY <1>2, <1>6 DEF DuInv
  <2>2. n \in DuRecord /\ n.q = <<>> /\ n.f1q = <<>> /\ n.f1 = "idle" /\ n.cnx = None
        /\ n.task = r.task
    BY <1>1, <1>2 DEF DuRecord
  <2>. HIDE DEF n
  <2>3. OneAttempt(n) /\ HandshakeFirst(n)
    BY <1>3, <2>2 DEF OneAttempt, HandshakeFirst
  <2>4. DuOK(n)
    BY <1>1, <1>2, <2>2, <2>3 DEF DuOK
  <2>. QED BY <2>1, <2>4, OneDu
<1>. QED BY <1>4, <1>5, <1>6 DEF DuNewAssociationReq, DuNewAssociationReqFails

LEMMA DuSslDoHandshakeKeeps ==
    ASSUME DuInv, NEW d \in Dus, DuSslDoHandshake(d)
    PROVE  DuInv'
<1>. DEFINE r == du[d]
            h == Head(r.q)
            t == IF h.a # None /\ r.cnx = h.a THEN "flight" ELSE "undefined"
            n == [r EXCEPT !.q = Tail(r.q), !.task = t]
<1>1. DuOK(r) /\ r \in DuRecord /\ r.q # <<>>
  BY DEF DuInv, DuOK, DuSslDoHandshake, DuTake
<1>2. du' = [du EXCEPT ![d] = n]
  BY DEF DuInv, DuSslDoHandshake
<1>3. /\ Tail(r.q) \in Seq(Msg) /\ OnlyLast(Tail(r.q), "assocReq")
      /\ Range(r.q) = Range(Tail(r.q)) \cup {Head(r.q)}
  BY <1>1, TakeFacts
<1>4. n \in DuRecord /\ n.q = Tail(r.q) /\ n.f1q = r.f1q /\ n.f1 = r.f1 /\ n.cnx = r.cnx
      /\ n.task = t /\ n.assoc = r.assoc
  BY <1>1, <1>3 DEF DuRecord
<1>5. t # "loop" /\ t # "refused" /\ (t = "flight" => r.cnx # None)
  OBVIOUS
<1>. HIDE DEF n, t
<1>6. OneAttempt(n)
  BY <1>1, <1>3, <1>4 DEF DuOK, OneAttempt, NoneOf, AllOn
<1>7. DuOK(n)
  BY <1>1, <1>3, <1>4, <1>5, <1>6 DEF DuOK, HandshakeFirst
<1>. QED BY <1>2, <1>7, OneDu

LEMMA DuHandshakeReadsKeeps ==
    ASSUME DuInv, NEW d \in Dus, DuHandshakeReads(d)
    PROVE  DuInv'
<1>. DEFINE r == du[d]
<1>1. DuOK(r) /\ r \in DuRecord
  BY DEF DuInv, DuOK
<1>2. CASE du' = [du EXCEPT ![d].hs = TRUE, ![d].task = "loop"]
  <2>. DEFINE n == [r EXCEPT !.hs = TRUE, !.task = "loop"]
  <2>1. du' = [du EXCEPT ![d] = n]
    BY <1>2 DEF DuInv
  <2>2. n \in DuRecord /\ n.q = r.q /\ n.f1q = r.f1q /\ n.f1 = r.f1 /\ n.cnx = r.cnx
        /\ n.task = "loop" /\ n.assoc = r.assoc /\ n.hs
    BY <1>1 DEF DuRecord
  <2>. HIDE DEF n
  <2>3. DuOK(n)
    BY <1>1, <2>2 DEF DuOK, OneAttempt, HandshakeFirst
  <2>. QED BY <2>1, <2>3, OneDu
<1>3. CASE du' = [du EXCEPT ![d].task = "undefined"]
  <2>. DEFINE n == [r EXCEPT !.task = "undefined"]
  <2>1. du' = [du EXCEPT ![d] = n]
    BY <1>3 DEF DuInv
  <2>2. n \in DuRecord /\ n.q = r.q /\ n.f1q = r.f1q /\ n.f1 = r.f1 /\ n.cnx = r.cnx
        /\ n.task = "undefined" /\ n.assoc = r.assoc
    BY <1>1 DEF DuRecord
  <2>. HIDE DEF n
  <2>3. DuOK(n)
    BY <1>1, <2>2 DEF DuOK, OneAttempt, HandshakeFirst
  <2>. QED BY <2>1, <2>3, OneDu
<1>. QED BY <1>2, <1>3 DEF DuHandshakeReads

LEMMA DuHandshakeFailsKeeps ==
    ASSUME DuInv, NEW d \in Dus, DuHandshakeFails(d)
    PROVE  DuInv'
<1>. DEFINE r == du[d]
            n == [r EXCEPT !.task = "refused"]
<1>1. DuOK(r) /\ r \in DuRecord /\ r.task = "flight"
  BY DEF DuInv, DuOK, DuHandshakeFails
<1>2. du' = [du EXCEPT ![d] = n]
  BY DEF DuInv, DuHandshakeFails
<1>3. n \in DuRecord /\ n.q = r.q /\ n.f1q = r.f1q /\ n.f1 = r.f1 /\ n.cnx = r.cnx
      /\ n.task = "refused" /\ n.assoc = r.assoc
  BY <1>1 DEF DuRecord
<1>. HIDE DEF n
<1>4. DuOK(n)
  BY <1>1, <1>3 DEF DuOK, OneAttempt, HandshakeFirst
<1>. QED BY <1>2, <1>4, OneDu

(* What it sends next is covered by the handshake before it.               *)
LEMMA DuSendDataKeeps ==
    ASSUME DuInv, NEW d \in Dus, DuSendData(d)
    PROVE  DuInv'
<1>. DEFINE r == du[d]
            n == [r EXCEPT !.q = Tail(r.q)]
<1>1. DuOK(r) /\ r \in DuRecord /\ r.q # <<>> /\ Head(r.q).t = "send" /\ r.q \in Seq(Msg)
  BY DEF DuInv, DuOK, DuSendData, DuTake, DuRecord
<1>2. du' = [du EXCEPT ![d] = n]
  BY DEF DuInv, DuSendData
<1>3. /\ Tail(r.q) \in Seq(Msg) /\ OnlyLast(Tail(r.q), "assocReq")
      /\ Range(r.q) = Range(Tail(r.q)) \cup {Head(r.q)}
  BY <1>1, TakeFacts
<1>4. n \in DuRecord /\ n.q = Tail(r.q) /\ n.f1q = r.f1q /\ n.f1 = r.f1 /\ n.cnx = r.cnx
      /\ n.task = r.task /\ n.assoc = r.assoc /\ n.hs = r.hs
  BY <1>1, <1>3 DEF DuRecord
<1>5. HandshakeAhead(r.q, r.cnx) => HandshakeAhead(Tail(r.q), r.cnx)
  BY <1>1, HandshakeAheadTail
<1>. HIDE DEF n
<1>6. OneAttempt(n)
  BY <1>1, <1>3, <1>4 DEF DuOK, OneAttempt, NoneOf, AllOn
<1>7. HandshakeFirst(n)
  BY <1>1, <1>3, <1>4, <1>5 DEF DuOK, HandshakeFirst
<1>8. DuOK(n)
  BY <1>1, <1>3, <1>4, <1>6, <1>7 DEF DuOK
<1>. QED BY <1>2, <1>8, OneDu

(* TASK_DU_F1 is told something by a DU that has a connection.             *)
LEMMA TellFacts ==
    ASSUME NEW r, DuOK(r), r.cnx # None, NEW x \in Msg
    PROVE  /\ Append(r.f1q, x) \in Seq(Msg) /\ Append(r.f1q, x) # <<>>
           /\ Range(Append(r.f1q, x)) = Range(r.f1q) \cup {x}
           /\ OnlyLast(Append(r.f1q, x), "lost")
           /\ NoneOf(r.q, "assocReq") /\ r.f1 # "sleep3" /\ NoneOf(r.f1q, "lost")
<1>1. r.f1q \in Seq(Msg) /\ NoneOf(r.f1q, "lost") /\ NoneOf(r.q, "assocReq") /\ r.f1 # "sleep3"
  BY DEF DuOK, DuRecord, OneAttempt
<1>. QED BY <1>1, RangeAppend, OnlyLastAppend

LEMMA DuReadFromSocketKeeps ==
    ASSUME DuInv, toDu \in [Assoc -> Seq(Wire)], NEW d \in Dus, DuReadFromSocket(d)
    PROVE  DuInv'
<1>. DEFINE r == du[d]
            a == r.cnx
            m == Head(toDu[a])
<1>1. DuOK(r) /\ r \in DuRecord /\ a # None /\ a \in Assoc /\ toDu[a] # <<>>
  BY DEF DuInv, DuOK, DuReadFromSocket, DuRecord
<1>2. m \in Wire
  <2>1. toDu[a] \in Seq(Wire)
    BY <1>1
  <2>. QED BY <1>1, <2>1, RangeTail
<1>3. ASSUME NEW x \in Msg, x.t # "lost", x.t = "established" => x.a = a,
             du' = [du EXCEPT ![d].f1q = Append(@, x)]
      PROVE  DuInv'
  <2>. DEFINE n == [r EXCEPT !.f1q = Append(r.f1q, x)]
  <2>1. du' = [du EXCEPT ![d] = n]
    BY <1>3 DEF DuInv
  <2>2. /\ Append(r.f1q, x) \in Seq(Msg) /\ Append(r.f1q, x) # <<>>
        /\ Range(Append(r.f1q, x)) = Range(r.f1q) \cup {x}
        /\ OnlyLast(Append(r.f1q, x), "lost")
        /\ NoneOf(r.q, "assocReq") /\ r.f1 # "sleep3" /\ NoneOf(r.f1q, "lost")
    BY <1>1, <1>3, TellFacts
  <2>3. n \in DuRecord /\ n.q = r.q /\ n.f1q = Append(r.f1q, x) /\ n.f1 = r.f1 /\ n.cnx = r.cnx
        /\ n.task = r.task /\ n.assoc = r.assoc /\ n.hs = r.hs
    BY <1>1, <2>2 DEF DuRecord
  <2>. HIDE DEF n
  <2>4. NoneOf(n.f1q, "lost") /\ AllOn(n.f1q, "established", n.cnx)
    BY <1>1, <1>3, <2>2, <2>3 DEF DuOK, OneAttempt, NoneOf, AllOn
  <2>5. OneAttempt(n)
    BY <1>1, <2>2, <2>3, <2>4 DEF DuOK, OneAttempt
  <2>6. DuOK(n)
    BY <1>1, <2>3, <2>5 DEF DuOK, HandshakeFirst
  <2>. QED BY <2>1, <2>6, OneDu
<1>4. ASSUME m.t = "lost",
             du' = [[du EXCEPT ![d].f1q = Append(@, M("lost", a))]
                       EXCEPT ![d].cnx = None, ![d].hs = FALSE]
      PROVE  DuInv'
  <2>. DEFINE x == M("lost", a)
              n == [r EXCEPT !.f1q = Append(r.f1q, x), !.cnx = None, !.hs = FALSE]
  <2>1. du' = [du EXCEPT ![d] = n]
    BY <1>4 DEF DuInv
  <2>2. x \in Msg
    BY <1>1, Messages
  <2>3. /\ Append(r.f1q, x) \in Seq(Msg) /\ Append(r.f1q, x) # <<>>
        /\ OnlyLast(Append(r.f1q, x), "lost")
        /\ NoneOf(r.q, "assocReq") /\ r.f1 # "sleep3"
    BY <1>1, <2>2, TellFacts
  <2>4. n \in DuRecord /\ n.q = r.q /\ n.f1q = Append(r.f1q, x) /\ n.f1 = r.f1 /\ n.cnx = None
        /\ n.task = r.task
    BY <1>1, <2>3 DEF DuRecord
  <2>5. r.task = "loop"
    BY DEF DuReadFromSocket
  <2>. HIDE DEF n, x
  <2>6. OneAttempt(n) /\ HandshakeFirst(n)
    BY <1>1, <2>3, <2>4 DEF DuOK, OneAttempt, HandshakeFirst
  <2>7. DuOK(n)
    BY <1>1, <2>4, <2>5, <2>6 DEF DuOK
  <2>. QED BY <2>1, <2>7, OneDu
<1>5. CASE m.t = "commUp"
  <2>1. du' = [du EXCEPT ![d].f1q = Append(@, M("established", a))]
    BY <1>5 DEF DuReadFromSocket
  <2>2. M("established", a) \in Msg /\ M("established", a).t = "established"
        /\ M("established", a).a = a
    BY <1>1, Messages
  <2>. QED BY <1>3, <2>1, <2>2
<1>6. CASE m.t = "lost"
  BY <1>4, <1>6 DEF DuReadFromSocket
<1>7. CASE m.t \notin {"commUp", "lost"}
  <2>. DEFINE x == [t |-> "data", a |-> a, p |-> Received(m, r.hs)]
  <2>1. du' = [du EXCEPT ![d].f1q = Append(@, x)]
    BY <1>7 DEF DuReadFromSocket
  <2>2. x \in Msg
    BY <1>1, <1>2, <1>7 DEF Received, Wire, Msg
  <2>. QED BY <1>3, <2>1, <2>2
<1>. QED BY <1>5, <1>6, <1>7

(* TASK_DU_F1 takes a message.                                             *)
LEMMA DuF1ReceivesKeeps ==
    ASSUME DuInv, NEW d \in Dus, DuF1Receives(d)
    PROVE  DuInv'
<1>. DEFINE r == du[d]
            m == Head(r.f1q)
            q == Tail(r.f1q)
<1>1. DuOK(r) /\ r \in DuRecord /\ r.f1q # <<>> /\ r.f1q \in Seq(Msg) /\ r.f1 = "idle"
  BY DEF DuInv, DuOK, DuF1Receives, DuRecord
<1>2. q \in Seq(Msg) /\ m \in Msg /\ Range(r.f1q) = Range(q) \cup {m}
  BY <1>1, RangeTail
<1>3. OnlyLast(q, "lost") /\ (m.t = "lost" => q = <<>>)
  BY <1>1, OnlyLastTail DEF DuOK, OneAttempt
<1>4. m.a \in Assoc \cup {None}
  BY <1>2 DEF Msg
<1>5. NoneOf(r.q, "assocReq")
  BY <1>1 DEF DuOK, OneAttempt
<1>. HIDE DEF q, m
<1>6. CASE m.t = "established"
  <2>. DEFINE n == [r EXCEPT !.f1q = q, !.assoc = m.a, !.f1 = "sleep1"]
  <2>1. du' = [du EXCEPT ![d] = n]
    BY <1>6 DEF DuInv, DuF1Receives, m, q
  <2>2. n \in DuRecord /\ n.q = r.q /\ n.f1q = q /\ n.f1 = "sleep1" /\ n.cnx = r.cnx
        /\ n.task = r.task /\ n.assoc = m.a /\ n.hs = r.hs
    BY <1>1, <1>2, <1>4 DEF DuRecord
  <2>. HIDE DEF n
  <2>3. n.cnx # None => m.a = n.cnx
    BY <1>1, <1>2, <1>6, <2>2 DEF DuOK, OneAttempt, AllOn
  <2>4. OneAttempt(n)
    BY <1>1, <1>2, <1>3, <1>5, <2>2, <2>3 DEF DuOK, OneAttempt, AllOn, NoneOf
  <2>5. DuOK(n)
    BY <1>1, <2>2, <2>4 DEF DuOK, HandshakeFirst
  <2>. QED BY <2>1, <2>5, OneDu
<1>7. CASE m.t = "lost"
  <2>. DEFINE n == [r EXCEPT !.f1q = q, !.f1 = "sleep3"]
  <2>1. du' = [du EXCEPT ![d] = n]
    BY <1>7 DEF DuInv, DuF1Receives, m, q
  <2>2. n \in DuRecord /\ n.q = r.q /\ n.f1q = q /\ n.f1 = "sleep3" /\ n.cnx = r.cnx
        /\ n.task = r.task
    BY <1>1, <1>2 DEF DuRecord
  <2>. HIDE DEF n
  <2>3. n.cnx = None
    BY <1>1, <1>2, <1>7, <2>2 DEF DuOK, OneAttempt, NoneOf
  <2>4. OneAttempt(n)
    BY <1>1, <1>3, <1>5, <1>7, <2>2, <2>3 DEF DuOK, OneAttempt
  <2>5. DuOK(n)
    BY <1>1, <2>2, <2>3, <2>4 DEF DuOK, HandshakeFirst
  <2>. QED BY <2>1, <2>5, OneDu
<1>8. CASE m.t \notin {"established", "lost"}
  <2>1. PICK k \in Assoc \cup {None} :
              du' = [du EXCEPT ![d] = [r EXCEPT !.f1q = q, !.acked = k]]
    <3>1. CASE m.t = "data" /\ m.p = "setupResp"
      <4>1. du' = [du EXCEPT ![d] = [r EXCEPT !.f1q = q, !.acked = m.a]]
        BY <1>8, <3>1 DEF DuInv, DuF1Receives, m, q
      <4>. QED BY <1>4, <4>1
    <3>2. CASE ~(m.t = "data" /\ m.p = "setupResp")
      <4>1. du' = [du EXCEPT ![d].f1q = Tail(@)]
        BY <1>8, <3>2 DEF DuF1Receives, m
      <4>2. r.acked \in Assoc \cup {None} /\ r.acked = r.acked
        BY <1>1 DEF DuRecord
      <4>3. [r EXCEPT !.f1q = q] = [r EXCEPT !.f1q = q, !.acked = r.acked]
        BY <1>1 DEF DuRecord
      <4>4. du' = [du EXCEPT ![d] = [r EXCEPT !.f1q = q]]
        BY <4>1 DEF DuInv, q
      <4>. QED BY <4>2, <4>3, <4>4
    <3>. QED BY <3>1, <3>2
  <2>. DEFINE n == [r EXCEPT !.f1q = q, !.acked = k]
  <2>2. n \in DuRecord /\ n.q = r.q /\ n.f1q = q /\ n.f1 = r.f1 /\ n.cnx = r.cnx
        /\ n.task = r.task /\ n.assoc = r.assoc /\ n.hs = r.hs
    BY <1>1, <1>2 DEF DuRecord
  <2>3. du' = [du EXCEPT ![d] = n]
    BY <2>1
  <2>. HIDE DEF n
  <2>4. OneAttempt(n)
    BY <1>1, <1>2, <1>3, <1>5, <2>2 DEF DuOK, OneAttempt, AllOn, NoneOf
  <2>5. DuOK(n)
    BY <1>1, <2>2, <2>4 DEF DuOK, HandshakeFirst
  <2>. QED BY <2>3, <2>5, OneDu
<1>. QED BY <1>6, <1>7, <1>8

(* TASK_DU_F1 asks TASK_SCTP for something.                                *)
LEMMA AskFacts ==
    ASSUME NEW r, DuOK(r), NEW x \in Msg, NoneOf(r.q, "assocReq")
    PROVE  /\ Append(r.q, x) \in Seq(Msg)
           /\ Range(Append(r.q, x)) = Range(r.q) \cup {x}
           /\ OnlyLast(Append(r.q, x), "assocReq")
<1>1. r.q \in Seq(Msg)
  BY DEF DuOK, DuRecord
<1>. QED BY <1>1, RangeAppend, OnlyLastAppend

LEMMA DuF1AsksHandshakeKeeps ==
    ASSUME DuInv, NEW d \in Dus, DuF1AsksHandshake(d)
    PROVE  DuInv'
<1>. DEFINE r == du[d]
            x == M("handshake", r.assoc)
            n == [r EXCEPT !.q = Append(r.q, x), !.f1 = "sleep2"]
<1>1. DuOK(r) /\ r \in DuRecord /\ r.f1 = "sleep1" /\ r.q \in Seq(Msg)
  BY DEF DuInv, DuOK, DuF1AsksHandshake, DuRecord
<1>2. du' = [du EXCEPT ![d] = n]
  BY DEF DuInv, DuF1AsksHandshake, Sctp
<1>3. x \in Msg /\ x.t = "handshake" /\ x.a = r.assoc
  <2>1. r.assoc \in Assoc \cup {None}
    BY <1>1 DEF DuRecord
  <2>. QED BY <2>1, Messages
<1>4. NoneOf(r.q, "assocReq")
  BY <1>1 DEF DuOK, OneAttempt
<1>5. /\ Append(r.q, x) \in Seq(Msg) /\ Range(Append(r.q, x)) = Range(r.q) \cup {x}
      /\ OnlyLast(Append(r.q, x), "assocReq")
  BY <1>1, <1>3, <1>4, AskFacts
<1>6. HandshakeAhead(r.q, r.cnx) => HandshakeAhead(Append(r.q, x), r.cnx)
  BY <1>1, <1>3, HandshakeAheadAppend
<1>7. n \in DuRecord /\ n.q = Append(r.q, x) /\ n.f1q = r.f1q /\ n.f1 = "sleep2" /\ n.cnx = r.cnx
      /\ n.task = r.task /\ n.assoc = r.assoc /\ n.hs = r.hs
  BY <1>1, <1>5 DEF DuRecord
<1>. HIDE DEF n, x
<1>8. r.cnx # None => r.assoc = r.cnx
  BY <1>1 DEF DuOK, OneAttempt
<1>9. OneAttempt(n)
  BY <1>1, <1>3, <1>4, <1>5, <1>7, <1>8 DEF DuOK, OneAttempt, NoneOf, AllOn
<1>10. HandshakeFirst(n)
  BY <1>1, <1>3, <1>5, <1>6, <1>7, <1>8 DEF DuOK, HandshakeFirst
<1>11. DuOK(n)
  BY <1>1, <1>3, <1>5, <1>7, <1>9, <1>10 DEF DuOK
<1>. QED BY <1>2, <1>11, OneDu

LEMMA DuF1SendsSetupRequestKeeps ==
    ASSUME DuInv, NEW d \in Dus, DuF1SendsSetupRequest(d)
    PROVE  DuInv'
<1>. DEFINE r == du[d]
            x == [t |-> "send", a |-> r.assoc, p |-> "setupReq"]
            n == [r EXCEPT !.q = Append(r.q, x), !.f1 = "idle"]
<1>1. DuOK(r) /\ r \in DuRecord /\ r.f1 = "sleep2" /\ r.q \in Seq(Msg)
  BY DEF DuInv, DuOK, DuF1SendsSetupRequest, DuRecord
<1>2. du' = [du EXCEPT ![d] = n]
  BY DEF DuInv, DuF1SendsSetupRequest, Sctp
<1>3. x \in Msg /\ x.t = "send" /\ x.a = r.assoc /\ x.p \in F1aps
  <2>1. r.assoc \in Assoc \cup {None}
    BY <1>1 DEF DuRecord
  <2>. QED BY <2>1 DEF Msg, F1aps
<1>4. NoneOf(r.q, "assocReq")
  BY <1>1 DEF DuOK, OneAttempt
<1>5. /\ Append(r.q, x) \in Seq(Msg) /\ Range(Append(r.q, x)) = Range(r.q) \cup {x}
      /\ OnlyLast(Append(r.q, x), "assocReq")
  BY <1>1, <1>3, <1>4, AskFacts
<1>6. ASSUME HandshakeAhead(r.q, r.cnx), r.task = "loop", r.cnx # None, ~r.hs
      PROVE  HandshakeAhead(Append(r.q, x), r.cnx)
  <2>1. \E m \in Range(r.q) : m.t = "handshake" /\ m.a = r.cnx
    BY <1>1, <1>6 DEF DuOK, HandshakeFirst
  <2>. QED BY <1>1, <1>3, <1>6, <2>1, HandshakeAheadAppend
<1>7. n \in DuRecord /\ n.q = Append(r.q, x) /\ n.f1q = r.f1q /\ n.f1 = "idle" /\ n.cnx = r.cnx
      /\ n.task = r.task /\ n.assoc = r.assoc /\ n.hs = r.hs
  BY <1>1, <1>5 DEF DuRecord
<1>. HIDE DEF n, x
<1>8. OneAttempt(n)
  BY <1>1, <1>3, <1>4, <1>5, <1>7 DEF DuOK, OneAttempt, NoneOf, AllOn
<1>9. HandshakeFirst(n)
  BY <1>1, <1>6, <1>7 DEF DuOK, HandshakeFirst
<1>10. DuOK(n)
  BY <1>1, <1>3, <1>5, <1>7, <1>8, <1>9 DEF DuOK
<1>. QED BY <1>2, <1>10, OneDu

LEMMA DuF1RetriesKeeps ==
    ASSUME DuInv, NEW d \in Dus, DuF1Retries(d)
    PROVE  DuInv'
<1>. DEFINE r == du[d]
            x == M("assocReq", None)
            n == [r EXCEPT !.q = Append(r.q, x), !.f1 = "idle"]
<1>1. DuOK(r) /\ r \in DuRecord /\ r.f1 = "sleep3"
  BY DEF DuInv, DuOK, DuF1Retries
<1>2. du' = [du EXCEPT ![d] = n]
  BY DEF DuInv, DuF1Retries, Sctp
<1>3. x \in Msg /\ x.t = "assocReq"
  BY Messages
<1>4. NoneOf(r.q, "assocReq") /\ r.cnx = None /\ r.f1q = <<>>
  BY <1>1 DEF DuOK, OneAttempt
<1>5. /\ Append(r.q, x) \in Seq(Msg) /\ Range(Append(r.q, x)) = Range(r.q) \cup {x}
      /\ OnlyLast(Append(r.q, x), "assocReq")
  BY <1>1, <1>3, <1>4, AskFacts
<1>6. n \in DuRecord /\ n.q = Append(r.q, x) /\ n.f1q = r.f1q /\ n.f1 = "idle" /\ n.cnx = r.cnx
      /\ n.task = r.task
  BY <1>1, <1>5 DEF DuRecord
<1>. HIDE DEF n, x
<1>7. OneAttempt(n)
  BY <1>1, <1>4, <1>5, <1>6 DEF DuOK, OneAttempt
<1>8. DuOK(n)
  BY <1>1, <1>3, <1>4, <1>5, <1>6, <1>7 DEF DuOK, HandshakeFirst
<1>. QED BY <1>2, <1>8, OneDu

LEMMA DuRestartKeeps ==
    ASSUME DuInv, NEW d \in Dus, (\E b \in BOOLEAN : DuGone(d, b)) \/ DuStarts(d)
    PROVE  DuInv'
BY StartedIsOK, OneDu DEF DuGone, DuStarts

-----------------------------------------------------------------------------
(* What a step of DU d is for the others, unless it opens an association.  *)
DuStep(d) ==
    /\ UNCHANGED <<cu, rrc, owner>>
    /\ \A e \in Dus \ {d} : du'[e] = du[e]
    /\ du'[d].cnx \in {du[d].cnx, None}
    /\ \/ toCu' = toCu
       \/ \E w \in Wire : /\ toCu' = [toCu EXCEPT ![du[d].cnx] = Append(@, w)]
                          /\ du[d].cnx # None
                          /\ w.t = "lost" => du'[d].cnx = None
                          /\ w.t = "alert" => du'[d].task = "refused"
                          /\ w.t \in F1aps => w.enc
    /\ \/ toDu' = toDu
       \/ \E s \in Seq(Wire) : /\ toDu' = [toDu EXCEPT ![du[d].cnx] = s]
                               /\ du[d].cnx # None
                               /\ Range(s) \subseteq Range(toDu[du[d].cnx])
    /\ du'[d].task = "undefined" =>
          \/ du[d].task = "undefined" /\ du'[d].cnx = du[d].cnx
          \/ du'[d].cnx = None \/ ~CuUp(du'[d].cnx)
    /\ du[d].task = "refused" => du'[d].task = "refused" \/ du'[d].cnx = None

Rest == EndsInv /\ CuInv /\ PendingInv /\ WireInv /\ RegistryInv
        /\ F1apProtected /\ NoGhostDu /\ UndefinedOnlyIfPeerFails

LEMMA DuFacts ==
    ASSUME DuInv, NEW d \in Dus
    PROVE  /\ DuOK(du[d]) /\ du[d] \in DuRecord
           /\ du[d].cnx # None => du[d].cnx \in Assoc
BY DEF DuInv, DuRecord

LEMMA SocketTail ==
    ASSUME NEW f \in [Assoc -> Seq(Wire)], NEW a \in Assoc, f[a] # <<>>
    PROVE  /\ Tail(f[a]) \in Seq(Wire) /\ Head(f[a]) \in Wire
           /\ Range(f[a]) = Range(Tail(f[a])) \cup {Head(f[a])}
<1>1. f[a] \in Seq(Wire)
  OBVIOUS
<1>. QED BY <1>1, RangeTail

LEMMA DuSctpIsStep ==
    ASSUME DuInv, EndsInv, WireInv, NEW d \in Dus,
           \/ DuSslDoHandshake(d) \/ DuHandshakeReads(d) \/ DuHandshakeFails(d)
           \/ DuSendData(d) \/ DuReadFromSocket(d)
    PROVE  DuStep(d)
<1>. DEFINE r == du[d]
            a == r.cnx
<1>1. DuOK(r) /\ r \in DuRecord /\ (a # None => a \in Assoc)
  BY DuFacts
<1>2. du \in [Dus -> DuRecord] /\ toDu \in [Assoc -> Seq(Wire)]
  BY DEF DuInv, WireInv
<1>3. \A t \in {"hello", "finished", "lost", "alert"} : Plain(t) \in Wire /\ Plain(t).t = t
  BY DEF Plain, Wire
<1>4. CASE DuSslDoHandshake(d)
  <2>1. /\ du'[d].task = IF Head(r.q).a # None /\ r.cnx = Head(r.q).a
                         THEN "flight" ELSE "undefined"
        /\ du'[d].cnx = r.cnx /\ \A e \in Dus \ {d} : du'[e] = du[e]
    BY <1>1, <1>2, <1>4 DEF DuSslDoHandshake, DuRecord
  <2>2. Head(r.q).t = "handshake" /\ r.q # <<>> /\ r.task = "loop"
    BY <1>4 DEF DuSslDoHandshake, DuTake
  <2>3. Head(r.q) \in Range(r.q)
    BY <1>1, <2>2, TakeFacts
  <2>4. r.cnx # None => Head(r.q).a = r.cnx
    BY <1>1, <2>2, <2>3 DEF DuOK, OneAttempt, AllOn
  <2>5. toCu' = toCu \/ (toCu' = [toCu EXCEPT ![a] = Append(@, Plain("hello"))] /\ a # None)
    BY <1>4 DEF DuSslDoHandshake, ToCu
  <2>6. "hello" \notin F1aps
    BY DEF F1aps
  <2>7. UNCHANGED <<cu, rrc, owner, toDu>>
    BY <1>4 DEF DuSslDoHandshake
  <2>. QED BY <1>3, <2>1, <2>2, <2>4, <2>5, <2>6, <2>7 DEF DuStep
<1>5. CASE DuHandshakeReads(d)
  <2>. DEFINE m == Head(toDu[a])
  <2>1. a \in Assoc /\ a # None /\ toDu[a] # <<>> /\ r.task = "flight"
    BY <1>1, <1>5 DEF DuHandshakeReads, DuOK
  <2>2. /\ Tail(toDu[a]) \in Seq(Wire) /\ m \in Wire
        /\ Range(toDu[a]) = Range(Tail(toDu[a])) \cup {m}
    BY <1>2, <2>1, SocketTail
  <2>3. toDu' = [toDu EXCEPT ![a] = Tail(toDu[a])] /\ UNCHANGED <<cu, rrc, owner>>
    BY <1>5 DEF DuHandshakeReads
  <2>4. toCu' = toCu \/ toCu' = [toCu EXCEPT ![a] = Append(@, Plain("finished"))]
    BY <1>5 DEF DuHandshakeReads, ToCu
  <2>5. /\ du'[d].cnx = a /\ \A e \in Dus \ {d} : du'[e] = du[e]
        /\ du'[d].task = "undefined" => m.t \in {"lost", "alert"}
    BY <1>1, <1>2, <1>5 DEF DuHandshakeReads, DuRecord
  <2>6. a \in Issued
    BY <2>1 DEF EndsInv
  <2>7. m.t \in {"lost", "alert"} => ~CuUp(a)
    BY <2>2, <2>6 DEF WireInv, NoneOf, CuUp
  <2>8. "finished" \notin F1aps
    BY DEF F1aps
  <2>. HIDE DEF m
  <2>. QED BY <1>3, <2>1, <2>2, <2>3, <2>4, <2>5, <2>7, <2>8 DEF DuStep
<1>8. CASE DuHandshakeFails(d)
  <2>1. a \in Assoc /\ a # None /\ toDu[a] # <<>>
    BY <1>1, <1>8 DEF DuHandshakeFails, DuOK
  <2>2. Tail(toDu[a]) \in Seq(Wire) /\ Range(Tail(toDu[a])) \subseteq Range(toDu[a])
    BY <1>2, <2>1, SocketTail
  <2>3. toDu' = [toDu EXCEPT ![a] = Tail(toDu[a])] /\ UNCHANGED <<cu, rrc, owner>>
    BY <1>8 DEF DuHandshakeFails
  <2>4. \/ toCu' = toCu
        \/ \E t \in {"alert", "finished"} : toCu' = [toCu EXCEPT ![a] = Append(@, Plain(t))]
    BY <1>8 DEF DuHandshakeFails, ToCu
  <2>5. /\ du'[d].cnx = a /\ \A e \in Dus \ {d} : du'[e] = du[e]
        /\ du'[d].task = "refused"
    BY <1>1, <1>2, <1>8 DEF DuHandshakeFails, DuRecord
  <2>6. "finished" \notin F1aps /\ "alert" \notin F1aps
    BY DEF F1aps
  <2>. QED BY <1>3, <2>1, <2>2, <2>3, <2>4, <2>5, <2>6 DEF DuStep
<1>6. CASE DuSendData(d)
  <2>. DEFINE m == Head(r.q)
              w == [t |-> m.p, enc |-> r.hs]
  <2>1. m.t = "send" /\ r.q # <<>> /\ r.task = "loop" /\ r.q \in Seq(Msg)
    BY <1>1, <1>6 DEF DuSendData, DuTake, DuRecord
  <2>2. m \in Range(r.q)
    BY <1>1, <2>1, TakeFacts
  <2>3. m.p \in F1aps
    BY <1>1, <2>1, <2>2 DEF DuOK
  <2>4. r.hs \in BOOLEAN
    BY <1>1 DEF DuRecord
  <2>5. w \in Wire
    BY <2>3, <2>4 DEF Wire
  <2>6. /\ UNCHANGED <<cu, rrc, owner, toDu>>
        /\ du'[d].cnx = a /\ du'[d].task = r.task /\ \A e \in Dus \ {d} : du'[e] = du[e]
    BY <1>1, <1>2, <1>6 DEF DuSendData, DuRecord
  <2>7. CASE toCu' = toCu
    BY <2>1, <2>6, <2>7 DEF DuStep
  <2>8. CASE m.a = a /\ CuEnd(a) /\ toCu' = [toCu EXCEPT ![a] = Append(@, w)]
    <3>1. a # None
      BY <2>8, Nones DEF CuEnd, EndsInv, Issued, None
    <3>2. r.hs
      <4>1. SUFFICES ASSUME ~r.hs PROVE FALSE
        BY <2>4
      <4>2. HandshakeAhead(r.q, a)
        BY <1>1, <2>1, <3>1, <4>1 DEF DuOK, HandshakeFirst
      <4>. QED BY <2>1, <2>8, <4>2, HandshakeAheadTail
    <3>3. w.enc /\ w.t # "lost" /\ w.t # "alert"
      BY <2>3, <3>2 DEF F1aps
    <3>. HIDE DEF w, m
    <3>. QED BY <2>1, <2>5, <2>6, <2>8, <3>1, <3>3 DEF DuStep
  <2>. QED BY <1>6, <2>7, <2>8 DEF DuSendData, ToCu
<1>7. CASE DuReadFromSocket(d)
  <2>1. a \in Assoc /\ a # None /\ toDu[a] # <<>> /\ r.task = "loop"
    BY <1>1, <1>7 DEF DuReadFromSocket
  <2>2. /\ Tail(toDu[a]) \in Seq(Wire)
        /\ Range(toDu[a]) = Range(Tail(toDu[a])) \cup {Head(toDu[a])}
    BY <1>2, <2>1, SocketTail
  <2>3. toDu' = [toDu EXCEPT ![a] = Tail(toDu[a])] /\ UNCHANGED <<cu, rrc, owner, toCu>>
    BY <1>7 DEF DuReadFromSocket
  <2>4. /\ du'[d].cnx \in {a, None} /\ du'[d].task = r.task
        /\ \A e \in Dus \ {d} : du'[e] = du[e]
    <3>1. \/ \E x : du' = [du EXCEPT ![d].f1q = Append(@, x)]
          \/ \E x : du' = [[du EXCEPT ![d].f1q = Append(@, x)] EXCEPT ![d].cnx = None, ![d].hs = FALSE]
      BY <1>7 DEF DuReadFromSocket
    <3>2. ASSUME NEW x, du' = [du EXCEPT ![d].f1q = Append(@, x)]
          PROVE  du'[d].cnx = a /\ du'[d].task = r.task /\ \A e \in Dus \ {d} : du'[e] = du[e]
      BY <1>1, <1>2, <3>2 DEF DuRecord
    <3>3. ASSUME NEW x, du' = [[du EXCEPT ![d].f1q = Append(@, x)] EXCEPT ![d].cnx = None, ![d].hs = FALSE]
          PROVE  du'[d].cnx = None /\ du'[d].task = r.task /\ \A e \in Dus \ {d} : du'[e] = du[e]
      BY <1>1, <1>2, <3>3 DEF DuRecord
    <3>. QED BY <3>1, <3>2, <3>3
  <2>. QED BY <2>1, <2>2, <2>3, <2>4 DEF DuStep
<1>. QED BY <1>4, <1>5, <1>6, <1>7, <1>8

LEMMA DuF1IsStep ==
    ASSUME DuInv, NEW d \in Dus,
           \/ DuF1Receives(d) \/ DuF1AsksHandshake(d) \/ DuF1SendsSetupRequest(d)
           \/ DuF1Retries(d) \/ DuStarts(d) \/ DuNewAssociationReqFails(d)
           \/ DuNewAssociationReq(d) /\ ~cu.listening
    PROVE  DuStep(d)
<1>1. DuOK(du[d]) /\ du[d] \in DuRecord /\ du \in [Dus -> DuRecord]
  BY DuFacts DEF DuInv
<1>2. UNCHANGED <<cu, rrc, owner, toCu, toDu>>
  BY DEF DuF1Receives, DuF1AsksHandshake, DuF1SendsSetupRequest, DuF1Retries, DuStarts,
         DuNewAssociationReqFails, DuNewAssociationReq
<1>3. /\ \A e \in Dus \ {d} : du'[e] = du[e]
      /\ \/ du'[d].cnx = du[d].cnx /\ du'[d].task = du[d].task
         \/ du'[d].cnx = None
  <2>1. CASE DuF1Receives(d)
    <3>. DEFINE m == Head(du[d].f1q)
                A == [du EXCEPT ![d].f1q = Tail(@)]
    <3>1. \/ du' = [A EXCEPT ![d].assoc = m.a, ![d].f1 = "sleep1"]
          \/ du' = [A EXCEPT ![d].f1 = "sleep3"]
          \/ du' = [A EXCEPT ![d].acked = m.a]
          \/ du' = A
      BY <2>1 DEF DuF1Receives
    <3>2. /\ \A e \in Dus \ {d} : A[e] = du[e]
          /\ A[d].cnx = du[d].cnx /\ A[d].task = du[d].task /\ DOMAIN A = Dus
          /\ A[d] \in [DOMAIN du[d] -> {A[d][k] : k \in DOMAIN du[d]}]
          /\ DOMAIN du[d] = {"f1", "assoc", "f1q", "q", "task", "cnx", "hs", "acked"}
      BY <1>1 DEF DuRecord
    <3>. HIDE DEF A
    <3>. QED BY <1>1, <3>1, <3>2 DEF DuRecord
  <2>2. CASE DuF1AsksHandshake(d) \/ DuF1SendsSetupRequest(d) \/ DuF1Retries(d)
    BY <1>1, <2>2 DEF DuF1AsksHandshake, DuF1SendsSetupRequest, DuF1Retries, Sctp, DuRecord
  <2>3. CASE DuStarts(d)
    BY <1>1, <2>3 DEF DuStarts, DuStarted
  <2>4. CASE DuNewAssociationReqFails(d) \/ (DuNewAssociationReq(d) /\ ~cu.listening)
    BY <1>1, <2>4 DEF DuNewAssociationReqFails, DuNewAssociationReq, DuRecord
  <2>. QED BY <2>1, <2>2, <2>3, <2>4
<1>. QED BY <1>2, <1>3 DEF DuStep

LEMMA DuGoneIsStep ==
    ASSUME DuInv, WireInv, NEW d \in Dus, NEW b \in BOOLEAN, DuGone(d, b)
    PROVE  DuStep(d)
<1>1. du \in [Dus -> DuRecord]
  BY DEF DuInv
<1>2. /\ \A e \in Dus \ {d} : du'[e] = du[e]
      /\ du'[d].cnx = None /\ du'[d].task = "off"
  BY <1>1 DEF DuGone, DuOff, DuStarted
<1>3. UNCHANGED <<cu, rrc, owner>>
  BY DEF DuGone
<1>4. Plain("lost") \in Wire /\ Plain("lost").t = "lost" /\ "lost" \notin F1aps
  BY DEF Plain, Wire, F1aps
<1>5. \/ toCu' = toCu
      \/ toCu' = [toCu EXCEPT ![du[d].cnx] = Append(@, Plain("lost"))] /\ du[d].cnx # None
  BY DEF DuGone, ToCu
<1>6. \/ toDu' = toDu
      \/ toDu' = [toDu EXCEPT ![du[d].cnx] = <<>>] /\ du[d].cnx # None
  BY DEF DuGone
<1>7. <<>> \in Seq(Wire) /\ Range(<<>>) \subseteq Range(toDu[du[d].cnx])
  BY RangeEmpty
<1>. QED BY <1>2, <1>3, <1>4, <1>5, <1>6, <1>7 DEF DuStep

(* A step of a DU takes no end of an association back.                     *)
LEMMA DuStepEnds ==
    ASSUME DuInv, DuInv', EndsInv, NEW d \in Dus, DuStep(d)
    PROVE  /\ \A a \in Issued : owner[a] \in Dus /\ a # None
           /\ \A a \in Issued : DuEnd(a)' => DuEnd(a)
           /\ \A a \in Issued : DuUp(a)' => DuUp(a)
           /\ owner' = owner /\ Issued' = Issued
<1>1. \A a \in Issued : owner[a] \in Dus /\ a # None
  BY DEF Issued, EndsInv, None
<1>2. owner' = owner
  BY DEF DuStep
<1>3. ASSUME NEW a \in Issued, du'[owner[a]].cnx = a PROVE du[owner[a]].cnx = a
  <2>1. CASE owner[a] = d
    BY <1>1, <1>3, <2>1 DEF DuStep
  <2>2. CASE owner[a] # d
    BY <1>1, <1>3, <2>2 DEF DuStep
  <2>. QED BY <2>1, <2>2
<1>4. ASSUME NEW a \in Issued, du'[owner[a]].cnx = a, du'[owner[a]].task # "refused"
      PROVE  du[owner[a]].task # "refused"
  BY <1>1, <1>4 DEF DuStep
<1>. QED BY <1>1, <1>2, <1>3, <1>4 DEF DuEnd, DuUp, Issued

LEMMA DuStepKeepsRest ==
    ASSUME DuInv, DuInv', Rest, NEW d \in Dus, DuStep(d)
    PROVE  Rest'
<1>. DEFINE c == du[d].cnx
<1>1. /\ \A a \in Issued : owner[a] \in Dus /\ a # None
      /\ \A a \in Issued : DuEnd(a)' => DuEnd(a)
      /\ \A a \in Issued : DuUp(a)' => DuUp(a)
      /\ owner' = owner /\ Issued' = Issued
  BY DuStepEnds DEF Rest
<1>2. UNCHANGED <<cu, rrc, owner>>
  BY DEF DuStep
<1>3. \A a : (CuEnd(a)' <=> CuEnd(a)) /\ (CuUp(a)' <=> CuUp(a))
  BY <1>2 DEF CuEnd, CuUp
<1>4. EndsInv'
  <2>1. \A e \in Dus : du'[e].cnx # None => du'[e].cnx = du[e].cnx
    BY DEF DuStep
  <2>. QED BY <1>1, <1>2, <2>1 DEF Rest, EndsInv
<1>5. CuInv'
  BY <1>1, <1>2 DEF Rest, CuInv
<1>6. PendingInv'
  <2>1. Pending' = Pending
    BY <1>2 DEF Pending
  <2>2. ASSUME NEW m \in Pending PROVE PendingOK(m)'
    <3>1. PendingOK(m)
      BY DEF Rest, PendingInv
    <3>2. m.t # "init" => (DuEnd(m.a)' => DuEnd(m.a))
      BY <1>1, <3>1 DEF PendingOK
    <3>. QED BY <1>1, <1>2, <1>3, <3>1, <3>2 DEF PendingOK
  <2>. QED BY <1>2, <2>1, <2>2 DEF Rest, PendingInv
<1>7. c # None => c \in Assoc /\ c \in Issued /\ owner[c] = d /\ DuEnd(c)
  BY DuFacts DEF Rest, EndsInv, DuEnd
<1>8. toCu \in [Assoc -> Seq(Wire)] /\ toDu \in [Assoc -> Seq(Wire)]
  BY DEF Rest, WireInv
<1>9. /\ toCu' \in [Assoc -> Seq(Wire)]
      /\ \A a \in cu.events \ {None} : toCu'[a] # <<>>
      /\ \A a \in Issued : DuEnd(a)' => NoneOf(toCu'[a], "lost")
      /\ \A a \in Issued : DuUp(a)' => NoneOf(toCu'[a], "alert")
      /\ \A a \in Assoc : \A m \in Range(toCu'[a]) : m.t \in F1aps => m.enc
  <2>1. CASE toCu' = toCu
    BY <1>1, <1>8, <2>1 DEF Rest, WireInv, F1apProtected
  <2>2. CASE toCu' # toCu
    <3>1. PICK w \in Wire : /\ toCu' = [toCu EXCEPT ![c] = Append(@, w)] /\ c # None
                            /\ w.t = "lost" => du'[d].cnx = None
                            /\ w.t = "alert" => du'[d].task = "refused"
                            /\ w.t \in F1aps => w.enc
      BY <2>2 DEF DuStep
    <3>2. toCu[c] \in Seq(Wire)
      BY <1>7, <1>8, <3>1
    <3>3. /\ Range(Append(toCu[c], w)) = Range(toCu[c]) \cup {w}
          /\ Append(toCu[c], w) \in Seq(Wire) /\ Append(toCu[c], w) # <<>>
      BY <3>2, RangeAppend
    <3>4. /\ toCu' \in [Assoc -> Seq(Wire)] /\ toCu'[c] = Append(toCu[c], w)
          /\ \A a \in Assoc \ {c} : toCu'[a] = toCu[a]
      BY <1>7, <1>8, <3>1, <3>3
    <3>5. \A a \in cu.events \ {None} : toCu'[a] # <<>>
      <4>1. cu.events \ {None} \subseteq Assoc
        BY DEF Rest, CuInv, CuRecord
      <4>. QED BY <3>3, <3>4, <4>1 DEF Rest, WireInv
    <3>6. ASSUME NEW a \in Issued, DuEnd(a)' PROVE NoneOf(toCu'[a], "lost")
      <4>1. NoneOf(toCu[a], "lost")
        BY <1>1, <3>6 DEF Rest, WireInv
      <4>2. CASE a = c
        <5>1. w.t # "lost"
          BY <1>1, <1>7, <3>1, <3>6, <4>2 DEF DuEnd
        <5>. QED BY <3>3, <3>4, <4>1, <4>2, <5>1 DEF NoneOf
      <4>3. CASE a # c
        <5>1. a \in Assoc
          BY F1Assumption DEF Rest, EndsInv, Issued, Assoc
        <5>. QED BY <3>4, <4>1, <4>3, <5>1
      <4>. QED BY <4>2, <4>3
    <3>8. ASSUME NEW a \in Issued, DuUp(a)' PROVE NoneOf(toCu'[a], "alert")
      <4>1. NoneOf(toCu[a], "alert")
        BY <1>1, <3>8 DEF Rest, WireInv
      <4>2. CASE a = c
        <5>1. w.t # "alert"
          BY <1>1, <1>7, <3>1, <3>8, <4>2 DEF DuUp
        <5>. QED BY <3>3, <3>4, <4>1, <4>2, <5>1 DEF NoneOf
      <4>3. CASE a # c
        <5>1. a \in Assoc
          BY F1Assumption DEF Rest, EndsInv, Issued, Assoc
        <5>. QED BY <3>4, <4>1, <4>3, <5>1
      <4>. QED BY <4>2, <4>3
    <3>7. \A a \in Assoc : \A m \in Range(toCu'[a]) : m.t \in F1aps => m.enc
      BY <1>7, <3>1, <3>3, <3>4 DEF Rest, F1apProtected
    <3>. QED BY <3>4, <3>5, <3>6, <3>7, <3>8
  <2>. QED BY <2>1, <2>2
<1>10. /\ toDu' \in [Assoc -> Seq(Wire)]
       /\ \A a \in Assoc : Range(toDu'[a]) \subseteq Range(toDu[a])
  <2>1. CASE toDu' = toDu
    BY <1>8, <2>1
  <2>2. CASE toDu' # toDu
    BY <1>7, <1>8, <2>2, ZenonT(60) DEF DuStep
  <2>. QED BY <2>1, <2>2
<1>11. Issued \subseteq Assoc
  BY F1Assumption DEF Rest, EndsInv, Issued, Assoc
<1>12. WireInv'
  <2>1. \A a \in Issued : /\ CuEnd(a)' => NoneOf(toDu'[a], "lost")
                          /\ CuUp(a)' => NoneOf(toDu'[a], "alert")
    BY <1>3, <1>10, <1>11 DEF Rest, WireInv, NoneOf
  <2>. QED BY <1>1, <1>2, <1>9, <1>10, <2>1 DEF WireInv
<1>13. RegistryInv' /\ NoGhostDu'
  BY <1>1, <1>2 DEF Rest, RegistryInv, NoGhostDu
<1>14. F1apProtected'
  BY <1>9, <1>10 DEF Rest, F1apProtected
<1>15. UndefinedOnlyIfPeerFails'
  <2>1. cu.task = "undefined" => cu.at \in Issued /\ ~DuUp(cu.at)
    BY DEF Rest, CuInv, UndefinedOnlyIfPeerFails
  <2>2. cu.task = "undefined" => ~(/\ du'[owner[cu.at]].cnx = cu.at
                                   /\ du'[owner[cu.at]].task # "refused")
    BY <1>1, <1>2, <2>1 DEF DuUp, DuEnd
  <2>3. ASSUME NEW e \in Dus, du'[e].task = "undefined"
        PROVE  du'[e].cnx = None \/ ~CuUp(du'[e].cnx)
    <3>1. CASE e = d
      BY <2>3, <3>1 DEF DuStep, Rest, UndefinedOnlyIfPeerFails
    <3>2. CASE e # d
      BY <2>3, <3>2 DEF DuStep, Rest, UndefinedOnlyIfPeerFails
    <3>. QED BY <3>1, <3>2
  <2>. QED BY <1>2, <2>2, <2>3 DEF UndefinedOnlyIfPeerFails, CuUp, CuEnd, DuUp, DuEnd
<1>. QED BY <1>4, <1>5, <1>6, <1>12, <1>13, <1>14, <1>15 DEF Rest

(* A new association: its id is new to everybody.                          *)
LEMMA NewAssociationKeepsRest ==
    ASSUME DuInv, DuInv', Rest, NEW d \in Dus, DuNewAssociationReq(d), cu.listening
    PROVE  Rest'
<1>. DEFINE n == Len(owner) + 1
<1>1. /\ n \in Assoc /\ owner' = Append(owner, d)
      /\ du' = [du EXCEPT ![d].q = Tail(@), ![d].cnx = n, ![d].hs = FALSE]
      /\ cu' = [cu EXCEPT !.backlog = Append(@, n)]
      /\ toCu' = [toCu EXCEPT ![n] = <<Plain("commUp")>>]
      /\ toDu' = [toDu EXCEPT ![n] = <<Plain("commUp")>>]
      /\ UNCHANGED rrc
  BY DEF DuNewAssociationReq
<1>2. owner \in Seq(Dus) /\ Len(owner) \in Nat /\ MaxAssoc \in Nat
  BY F1Assumption DEF Rest, EndsInv
<1>3. /\ owner' \in Seq(Dus) /\ Len(owner') = n /\ owner'[n] = d
      /\ \A a \in Issued : owner'[a] = owner[a]
  BY <1>1, <1>2 DEF Issued
<1>4. Issued' = Issued \cup {n} /\ n \notin Issued /\ n # None /\ Issued \subseteq Assoc
      /\ \A a \in Issued : a # None /\ owner[a] \in Dus
  BY <1>1, <1>2, <1>3 DEF Issued, None, Assoc, Rest, EndsInv
<1>5. cu \in CuRecord /\ cu.backlog \in Seq(Assoc)
  BY DEF Rest, CuInv, CuRecord
<1>6. /\ Append(cu.backlog, n) \in Seq(Assoc) /\ Append(cu.backlog, n) # <<>>
      /\ Range(Append(cu.backlog, n)) = Range(cu.backlog) \cup {n}
  BY <1>1, <1>5, RangeAppend
<1>7. /\ cu' \in CuRecord /\ cu'.backlog = Append(cu.backlog, n) /\ cu'.cnx = cu.cnx
      /\ cu'.hs = cu.hs /\ cu'.events = cu.events /\ cu'.task = cu.task /\ cu'.at = cu.at
      /\ cu'.q = cu.q /\ cu'.f1q = cu.f1q
  BY <1>1, <1>5, <1>6 DEF CuRecord
<1>8. DuOK(du[d]) /\ du[d] \in DuRecord /\ du \in [Dus -> DuRecord]
  BY DuFacts DEF DuInv
<1>9. du[d].task = "loop" /\ du[d].q # <<>> /\ Head(du[d].q).t = "assocReq"
  BY DEF DuNewAssociationReq, DuTake
<1>10. du'[d].cnx = n /\ du'[d].task = "loop" /\ \A e \in Dus \ {d} : du'[e] = du[e]
  BY <1>1, <1>8, <1>9 DEF DuRecord
<1>11. du[d].cnx = None
  BY <1>8, <1>9, TakeFacts
<1>12. \A a \in Issued : /\ (DuEnd(a)' <=> DuEnd(a)) /\ (CuEnd(a)' <=> CuEnd(a))
                         /\ (DuUp(a)' => DuUp(a)) /\ (CuUp(a)' <=> CuUp(a))
  <2>1. \A a \in Issued : CuEnd(a)' <=> CuEnd(a)
    BY <1>4, <1>6, <1>7 DEF CuEnd
  <2>2. ASSUME NEW a \in Issued PROVE du'[owner'[a]].cnx = a <=> du[owner[a]].cnx = a
    BY <1>3, <1>4, <1>10, <1>11
  <2>3. \A a \in Issued : CuUp(a)' <=> CuUp(a)
    BY <1>7, <2>1 DEF CuUp
  <2>4. ASSUME NEW a \in Issued, du'[owner'[a]].task # "refused", du[owner[a]].cnx = a
        PROVE  du[owner[a]].task # "refused"
    BY <1>3, <1>4, <1>10, <1>11, <2>4
  <2>. QED BY <2>1, <2>2, <2>3, <2>4 DEF DuEnd, DuUp
<1>13. EndsInv'
  <2>1. n \notin cu.cnx /\ n \notin Range(cu.backlog) /\ Distinct(cu.backlog)
    BY <1>4 DEF Rest, EndsInv
  <2>2. Distinct(Append(cu.backlog, n))
    BY <1>5, <2>1, DistinctAppend
  <2>3. \A e \in Dus : du'[e].cnx # None => du'[e].cnx \in Issued' /\ owner'[du'[e].cnx] = e
    BY <1>3, <1>4, <1>10 DEF Rest, EndsInv
  <2>4. n <= MaxAssoc
    BY <1>1, <1>2 DEF Assoc
  <2>5. /\ cu'.cnx \subseteq Issued' /\ Range(cu'.backlog) \subseteq Issued'
        /\ cu'.cnx \cap Range(cu'.backlog) = {}
    BY <1>4, <1>6, <1>7, <2>1 DEF Rest, EndsInv
  <2>. QED BY <1>3, <1>7, <2>2, <2>3, <2>4, <2>5 DEF EndsInv
<1>14. CuInv'
  <2>1. cu.task # "off"
    BY DEF Rest, CuInv, CuOff, CuStarted
  <2>. QED BY <1>4, <1>6, <1>7, <2>1 DEF Rest, CuInv
<1>15. PendingInv'
  <2>1. Pending' = Pending
    BY <1>1, <1>7 DEF Pending
  <2>2. ASSUME NEW m \in Pending PROVE PendingOK(m)'
    <3>1. PendingOK(m)
      BY DEF Rest, PendingInv
    <3>. QED BY <1>4, <1>7, <1>12, <3>1 DEF PendingOK
  <2>. QED BY <1>1, <2>1, <2>2 DEF Rest, PendingInv
<1>16. toCu \in [Assoc -> Seq(Wire)] /\ toDu \in [Assoc -> Seq(Wire)]
  BY DEF Rest, WireInv
<1>. DEFINE s == <<Plain("commUp")>>
<1>17. s \in Seq(Wire) /\ s # <<>> /\ Range(s) = {Plain("commUp")} /\ Plain("commUp").t = "commUp"
  <2>1. Plain("commUp") \in Wire /\ Plain("commUp").t = "commUp"
    BY DEF Wire, Plain
  <2>2. Range(s) = {Plain("commUp")}
    BY DEF Range
  <2>. QED BY <2>1, <2>2
<1>. HIDE DEF s
<1>18. /\ toCu' \in [Assoc -> Seq(Wire)] /\ toDu' \in [Assoc -> Seq(Wire)]
       /\ toCu'[n] = s /\ toDu'[n] = s
       /\ \A a \in Assoc \ {n} : toCu'[a] = toCu[a] /\ toDu'[a] = toDu[a]
  BY <1>1, <1>16, <1>17 DEF s
<1>19. WireInv'
  <2>1. \A a \in cu'.events \ {None} : toCu'[a] # <<>>
    <3>1. cu.events \ {None} \subseteq Assoc
      BY <1>5 DEF CuRecord
    <3>. QED BY <1>7, <1>17, <1>18, <3>1 DEF Rest, WireInv
  <2>2. NoneOf(s, "lost") /\ NoneOf(s, "alert")
    BY <1>17 DEF NoneOf
  <2>3. ASSUME NEW a \in Issued \cup {n} PROVE /\ DuEnd(a)' => NoneOf(toCu'[a], "lost")
                                               /\ CuEnd(a)' => NoneOf(toDu'[a], "lost")
                                               /\ DuUp(a)' => NoneOf(toCu'[a], "alert")
                                               /\ CuUp(a)' => NoneOf(toDu'[a], "alert")
    <3>1. CASE a = n
      BY <1>18, <2>2, <3>1
    <3>2. CASE a # n
      <4>1. a \in Issued /\ a \in Assoc
        BY <1>4, <3>2
      <4>. QED BY <1>12, <1>18, <3>2, <4>1 DEF Rest, WireInv
    <3>. QED BY <3>1, <3>2
  <2>. QED BY <1>4, <1>18, <2>1, <2>3 DEF WireInv
<1>20. F1apProtected'
  <2>1. "commUp" \notin F1aps
    BY DEF F1aps
  <2>. QED BY <1>17, <1>18, <2>1, ZenonT(60) DEF Rest, F1apProtected
<1>21. ASSUME NEW m \in Pending, m.t # "init" PROVE m.a # n
  BY <1>4, <1>21 DEF Rest, PendingInv, PendingOK
<1>22. RegistryInv'
  <2>1. ASSUME NEW q \in Seq(Msg), Range(q) \subseteq Pending PROVE LossBehind(q, n)
    <3>1. \A i \in 1..Len(q) : q[i] \in Pending
      BY <2>1, InRange
    <3>. QED BY <1>21, <3>1 DEF LossBehind
  <2>2. /\ cu.f1q \in Seq(Msg) /\ rrc.q \in Seq(Msg)
        /\ Range(cu.f1q) \subseteq Pending /\ Range(rrc.q) \subseteq Pending
    BY <1>5 DEF CuRecord, Rest, PendingInv, Pending
  <2>3. LossBehind(cu.f1q, n) /\ LossBehind(rrc.q, n)
    BY <2>1, <2>2
  <2>. QED BY <1>1, <1>4, <1>7, <2>3 DEF Rest, RegistryInv
<1>23. NoGhostDu'
  BY <1>1, <1>7 DEF Rest, NoGhostDu
<1>24. UndefinedOnlyIfPeerFails'
  <2>0. cu.task = "undefined" => cu.at \in Issued /\ ~DuUp(cu.at)
    BY DEF Rest, CuInv, UndefinedOnlyIfPeerFails
  <2>1. cu.task = "undefined" => ~(/\ du'[owner'[cu.at]].cnx = cu.at
                                   /\ du'[owner'[cu.at]].task # "refused")
    BY <1>12, <2>0 DEF DuUp, DuEnd
  <2>2. ASSUME NEW e \in Dus, du'[e].task = "undefined", du'[e].cnx # None
        PROVE  ~(/\ du'[e].cnx \in cu'.cnx \cup Range(cu'.backlog)
                 /\ ~(cu'.task = "refused" /\ cu'.at = du'[e].cnx))
    <3>1. e # d /\ du'[e] = du[e]
      BY <1>10, <2>2
    <3>2. du[e].cnx \in Issued /\ ~CuUp(du[e].cnx)
      BY <2>2, <3>1 DEF Rest, EndsInv, UndefinedOnlyIfPeerFails
    <3>. QED BY <1>12, <3>1, <3>2 DEF CuUp, CuEnd
  <2>. QED BY <1>7, <2>1, <2>2 DEF UndefinedOnlyIfPeerFails, DuUp, DuEnd, CuUp, CuEnd
<1>. QED BY <1>13, <1>14, <1>15, <1>19, <1>20, <1>22, <1>23, <1>24 DEF Rest

-----------------------------------------------------------------------------
(* The CU.                                                                 *)

LEMMA CuFacts ==
    ASSUME Rest
    PROVE  /\ cu \in CuRecord /\ cu.q \in Seq(Msg) /\ cu.f1q \in Seq(Msg)
           /\ cu.backlog \in Seq(Assoc) /\ cu.cnx \subseteq Assoc
           /\ rrc.q \in Seq(Msg)
           /\ toCu \in [Assoc -> Seq(Wire)] /\ toDu \in [Assoc -> Seq(Wire)]
           /\ Issued \subseteq Assoc /\ None \notin Issued
           /\ \A a \in Issued : owner[a] \in Dus
<1>1. cu \in CuRecord
  BY DEF Rest, CuInv
<1>2. /\ cu.q \in Seq(Msg) /\ cu.f1q \in Seq(Msg)
      /\ cu.backlog \in Seq(Assoc) /\ cu.cnx \subseteq Assoc
  BY <1>1 DEF CuRecord
<1>3. rrc.q \in Seq(Msg)
  BY DEF Rest, PendingInv
<1>4. Issued \subseteq Assoc /\ None \notin Issued /\ \A a \in Issued : owner[a] \in Dus
  BY F1Assumption DEF Rest, EndsInv, Issued, Assoc, None
<1>. QED BY <1>1, <1>2, <1>3, <1>4 DEF Rest, WireInv

(* Messages stay as they should be while ends of associations go.          *)
LEMMA PendingStays ==
    ASSUME PendingInv, UNCHANGED <<du, owner>>, NEW N,
           Pending' \subseteq Pending \cup N, \A m \in N : PendingOK(m)',
           \A a \in Issued : /\ CuEnd(a)' => CuEnd(a)
                             /\ a \in cu.hs => a \in cu'.hs \/ ~CuEnd(a)'
                             /\ a \in cu.cnx => a \in cu'.cnx \/ ~DuEnd(a)
    PROVE  \A m \in Pending' : PendingOK(m)'
<1>1. ASSUME NEW m \in Pending PROVE PendingOK(m)'
  <2>1. PendingOK(m)
    BY DEF PendingInv
  <2>2. \A a : DuEnd(a)' <=> DuEnd(a)
    BY DEF DuEnd
  <2>3. Issued' = Issued
    BY DEF Issued
  <2>. QED BY <2>1, <2>2, <2>3 DEF PendingOK
<1>. QED BY <1>1

(* A CU that refused a handshake stays in it.                              *)
StillRefused == cu.task = "refused" => cu'.task = "refused" /\ cu'.at = cu.at

LEMMA CuUpGoes ==
    ASSUME StillRefused, NEW a, CuEnd(a)' => CuEnd(a)
    PROVE  CuUp(a)' => CuUp(a)
BY DEF StillRefused, CuUp

LEMMA WireStays ==
    ASSUME Rest, UNCHANGED <<du, owner>>, cu'.events \subseteq Assoc \cup {None},
           \A a \in Issued : (CuEnd(a)' => CuEnd(a)) /\ (CuUp(a)' => CuUp(a)),
           toCu' \in [Assoc -> Seq(Wire)], toDu' \in [Assoc -> Seq(Wire)],
           \A a \in cu'.events \ {None} : toCu'[a] # <<>>,
           \A a \in Assoc : \A m \in Range(toCu'[a]) :
               \/ m \in Range(toCu[a])
               \/ m.t = "lost" /\ ~DuEnd(a),
           \A a \in Assoc : \A m \in Range(toDu'[a]) :
               \/ m \in Range(toDu[a])
               \/ m.t = "lost" /\ ~CuEnd(a)'
               \/ /\ m.t # "lost" /\ (m.t \in F1aps => m.enc)
                  /\ m.t = "alert" => ~CuUp(a)'
    PROVE  WireInv' /\ F1apProtected'
<1>1. /\ Issued' = Issued /\ Issued \subseteq Assoc
      /\ \A a : (DuEnd(a)' <=> DuEnd(a)) /\ (DuUp(a)' <=> DuUp(a))
  BY CuFacts DEF Issued, DuEnd, DuUp
<1>2. "lost" \notin F1aps
  BY DEF F1aps
<1>3. F1apProtected'
  BY <1>2 DEF Rest, F1apProtected
<1>4. ASSUME NEW a \in Issued PROVE /\ DuEnd(a)' => NoneOf(toCu'[a], "lost")
                                    /\ CuEnd(a)' => NoneOf(toDu'[a], "lost")
  BY <1>1 DEF Rest, WireInv, NoneOf
<1>5. ASSUME NEW a \in Issued PROVE /\ DuUp(a)' => NoneOf(toCu'[a], "alert")
                                    /\ CuUp(a)' => NoneOf(toDu'[a], "alert")
  BY <1>1 DEF Rest, WireInv, NoneOf
<1>. QED BY <1>1, <1>3, <1>4, <1>5 DEF WireInv

LEMMA StaysUndefined ==
    ASSUME UndefinedOnlyIfPeerFails, UNCHANGED <<du, owner>>,
           \A a : CuUp(a)' => CuUp(a), cu'.task = "undefined" => ~DuUp(cu'.at)
    PROVE  UndefinedOnlyIfPeerFails'
<1>1. ASSUME NEW d \in Dus, du[d].task = "undefined"
      PROVE  du[d].cnx = None \/ ~CuUp(du[d].cnx)'
  <2>1. du[d].cnx = None \/ ~CuUp(du[d].cnx)
    BY <1>1 DEF UndefinedOnlyIfPeerFails
  <2>2. PICK c : c = du[d].cnx
    OBVIOUS
  <2>3. CuUp(c)' => CuUp(c)
    OBVIOUS
  <2>4. c = du'[d].cnx
    BY <2>2
  <2>. QED BY <2>1, <2>2, <2>3, <2>4
<1>2. cu'.task = "undefined" => ~(/\ du'[owner'[cu'.at]].cnx = cu'.at
                                 /\ du'[owner'[cu'.at]].task # "refused")
  BY DEF DuUp, DuEnd
<1>. QED BY <1>1, <1>2 DEF UndefinedOnlyIfPeerFails, DuUp, DuEnd

(* Steps of the CU's TASK_SCTP that tell the F1 task nothing.              *)
LEMMA SilentCuStep ==
    ASSUME Rest, UNCHANGED <<du, owner, rrc>>, cu'.f1q = cu.f1q,
           Range(cu'.q) \subseteq Range(cu.q), cu'.cnx = cu.cnx, cu.hs \subseteq cu'.hs,
           Range(cu'.backlog) \subseteq Range(cu.backlog), StillRefused,
           EndsInv', CuInv', WireInv', F1apProtected',
           cu'.task = "undefined" => ~DuUp(cu'.at)
    PROVE  Rest'
<1>1. PendingInv'
  <2>1. Pending' \subseteq Pending \cup {}
    BY DEF Pending
  <2>2. \A a \in Issued : /\ CuEnd(a)' => CuEnd(a)
                          /\ a \in cu.hs => a \in cu'.hs \/ ~CuEnd(a)'
                          /\ a \in cu.cnx => a \in cu'.cnx \/ ~DuEnd(a)
    BY DEF CuEnd
  <2>3. PendingInv
    BY DEF Rest
  <2>. DEFINE N == {}
  <2>4. Pending' \subseteq Pending \cup N /\ \A m \in N : PendingOK(m)'
    BY <2>1
  <2>. HIDE DEF N
  <2>5. \A m \in Pending' : PendingOK(m)'
    BY <2>2, <2>3, <2>4, PendingStays
  <2>. QED BY <2>3, <2>5 DEF PendingInv
<1>2. RegistryInv' /\ NoGhostDu'
  BY DEF Rest, RegistryInv, NoGhostDu, Issued
<1>3. UndefinedOnlyIfPeerFails'
  <2>1. \A a : CuUp(a)' => CuUp(a)
    BY CuUpGoes DEF CuEnd
  <2>. QED BY <2>1, StaysUndefined DEF Rest
<1>. QED BY <1>1, <1>2, <1>3 DEF Rest

(* Nothing of the sockets or of the ends changes.                          *)
LEMMA SameSockets ==
    ASSUME Rest, UNCHANGED <<du, owner, toCu, toDu>>, cu'.cnx = cu.cnx,
           cu'.backlog = cu.backlog, cu'.events \subseteq Assoc \cup {None},
           \A a \in cu'.events \ {None} : toCu[a] # <<>>, StillRefused
    PROVE  EndsInv' /\ WireInv' /\ F1apProtected'
<1>1. \A a : (CuEnd(a)' <=> CuEnd(a)) /\ (CuUp(a)' => CuUp(a))
  BY CuUpGoes DEF CuEnd
<1>2. WireInv' /\ F1apProtected'
  BY <1>1, CuFacts, WireStays
<1>3. EndsInv'
  BY DEF Rest, EndsInv, Issued
<1>. QED BY <1>2, <1>3

LEMMA CuTakeFacts ==
    ASSUME Rest, NEW t, CuTake(t)
    PROVE  /\ Tail(cu.q) \in Seq(Msg) /\ Head(cu.q) \in Msg /\ Head(cu.q) \in Pending
           /\ Head(cu.q) \in Range(cu.q)
           /\ Range(Tail(cu.q)) \subseteq Range(cu.q)
           /\ Head(cu.q).t = t /\ cu.task = "loop" /\ cu.events = {}
           /\ Took \in CuRecord /\ Took.q = Tail(cu.q) /\ Took.f1q = cu.f1q
           /\ Took.cnx = cu.cnx /\ Took.hs = cu.hs /\ Took.backlog = cu.backlog
           /\ Took.events = {} /\ Took.task = "loop" /\ Took.at = cu.at
<1>1. cu.q # <<>> /\ Head(cu.q).t = t /\ cu.task = "loop" /\ cu.events = {}
      /\ cu \in CuRecord /\ cu.q \in Seq(Msg)
  BY CuFacts DEF CuTake
<1>2. Range(cu.q) = Range(Tail(cu.q)) \cup {Head(cu.q)}
      /\ Tail(cu.q) \in Seq(Msg) /\ Head(cu.q) \in Msg
  BY <1>1, RangeTail
<1>3. /\ Took \in CuRecord /\ Took.q = Tail(cu.q) /\ Took.f1q = cu.f1q
      /\ Took.cnx = cu.cnx /\ Took.hs = cu.hs /\ Took.backlog = cu.backlog
      /\ Took.events = {} /\ Took.task = "loop" /\ Took.at = cu.at
  BY <1>1, <1>2 DEF Took, CuRecord
<1>. QED BY <1>1, <1>2, <1>3 DEF Pending

LEMMA CuCreateNewListenerKeeps ==
    ASSUME Rest, CuCreateNewListener
    PROVE  Rest'
<1>1. CuTake("init") /\ cu' = [Took EXCEPT !.listening = TRUE]
      /\ UNCHANGED <<du, rrc, owner, toCu, toDu>>
  BY DEF CuCreateNewListener
<1>2. /\ cu' \in CuRecord /\ cu'.q = Tail(cu.q) /\ cu'.f1q = cu.f1q
      /\ cu'.cnx = cu.cnx /\ cu'.hs = cu.hs /\ cu'.backlog = cu.backlog
      /\ cu'.events = {} /\ cu'.task = "loop"
      /\ Range(Tail(cu.q)) \subseteq Range(cu.q)
  BY <1>1, CuTakeFacts DEF CuRecord
<1>0. StillRefused
  BY <1>1, CuTakeFacts DEF StillRefused
<1>3. EndsInv' /\ WireInv' /\ F1apProtected'
  BY <1>0, <1>1, <1>2, SameSockets
<1>4. CuInv'
  BY <1>1, <1>2 DEF Rest, CuInv
<1>. QED BY <1>0, <1>1, <1>2, <1>3, <1>4, SilentCuStep

LEMMA CuPollKeeps ==
    ASSUME Rest, CuPoll
    PROVE  Rest'
<1>1. /\ cu.task = "loop" /\ cu' = [cu EXCEPT !.events = Readable, !.polled = TRUE]
      /\ UNCHANGED <<du, rrc, owner, toCu, toDu>>
  BY DEF CuPoll
<1>2. /\ Readable \subseteq cu.cnx \cup {None} /\ Readable \subseteq Assoc \cup {None}
      /\ None \in Readable => cu.backlog # <<>>
      /\ \A a \in Readable \ {None} : toCu[a] # <<>>
  <2>1. None \notin cu.cnx
    BY CuFacts, Nones
  <2>. QED BY <2>1, CuFacts DEF Readable
<1>3. /\ cu' \in CuRecord /\ cu'.q = cu.q /\ cu'.f1q = cu.f1q
      /\ cu'.cnx = cu.cnx /\ cu'.hs = cu.hs /\ cu'.backlog = cu.backlog
      /\ cu'.events = Readable /\ cu'.task = "loop"
  BY <1>1, <1>2, CuFacts DEF CuRecord
<1>0. StillRefused
  BY <1>1 DEF StillRefused
<1>4. EndsInv' /\ WireInv' /\ F1apProtected'
  BY <1>0, <1>1, <1>2, <1>3, SameSockets
<1>5. CuInv'
  BY <1>1, <1>2, <1>3 DEF Rest, CuInv
<1>. QED BY <1>0, <1>1, <1>3, <1>4, <1>5, SilentCuStep

(* A handshake that the CU cannot start is one of an association that the  *)
(* DU has lost.                                                            *)
LEMMA CuSslDoHandshakeKeeps ==
    ASSUME Rest, CuSslDoHandshake
    PROVE  Rest'
<1>. DEFINE a == Head(cu.q).a
            t == IF a \in cu.cnx THEN "hello" ELSE "undefined"
<1>1. CuTake("handshake") /\ cu' = [Took EXCEPT !.at = a, !.task = t]
      /\ UNCHANGED <<du, rrc, owner, toCu, toDu>>
  BY DEF CuSslDoHandshake
<1>2. PendingOK(Head(cu.q)) /\ Head(cu.q).t = "handshake" /\ Head(cu.q) \in Msg
  BY <1>1, CuTakeFacts DEF Rest, PendingInv
<1>3. a \in Issued /\ (a \in cu.cnx \/ ~DuEnd(a)) /\ a \in Assoc
  BY <1>2, CuFacts DEF PendingOK
<1>4. /\ cu' \in CuRecord /\ cu'.q = Tail(cu.q) /\ cu'.f1q = cu.f1q
      /\ cu'.cnx = cu.cnx /\ cu'.hs = cu.hs /\ cu'.backlog = cu.backlog
      /\ cu'.events = {} /\ cu'.task = t /\ cu'.at = a
      /\ Range(Tail(cu.q)) \subseteq Range(cu.q)
  <2>. HIDE DEF a
  <2>. QED BY <1>1, <1>3, CuTakeFacts DEF CuRecord
<1>0. StillRefused
  BY <1>1, CuTakeFacts DEF StillRefused
<1>5. EndsInv' /\ WireInv' /\ F1apProtected'
  BY <1>0, <1>1, <1>4, SameSockets
<1>6. CuInv'
  <2>1. t \in {"hello", "undefined"} /\ (t = "hello" => a \in cu.cnx) /\ Issued' = Issued
    BY <1>1 DEF Issued
  <2>. HIDE DEF a, t
  <2>. QED BY <1>3, <1>4, <2>1 DEF Rest, CuInv
<1>7. cu'.task = "undefined" => ~DuUp(cu'.at)
  BY <1>3, <1>4 DEF DuUp
<1>. QED BY <1>0, <1>1, <1>4, <1>5, <1>6, <1>7, SilentCuStep

LEMMA ToDuFacts ==
    ASSUME Rest, NEW a \in Assoc, NEW w \in Wire
    PROVE  /\ ToDu(a, w) \in [Assoc -> Seq(Wire)]
           /\ \A b \in Assoc : \A m \in Range(ToDu(a, w)[b]) :
                 m \in Range(toDu[b]) \/ (b = a /\ m = w)
<1>1. toDu \in [Assoc -> Seq(Wire)] /\ toDu[a] \in Seq(Wire)
  BY CuFacts
<1>2. /\ Append(toDu[a], w) \in Seq(Wire)
      /\ Range(Append(toDu[a], w)) = Range(toDu[a]) \cup {w}
  BY <1>1, RangeAppend
<1>. QED BY <1>1, <1>2 DEF ToDu

LEMMA CuHandshakeReadsKeeps ==
    ASSUME Rest, CuHandshakeReads
    PROVE  Rest'
<1>. DEFINE a == cu.at
            m == Head(toCu[a])
<1>1. /\ cu.task \in {"hello", "finished"} /\ toCu[a] # <<>>
      /\ toCu' = [toCu EXCEPT ![a] = Tail(toCu[a])] /\ UNCHANGED <<du, rrc, owner>>
  BY DEF CuHandshakeReads
<1>2. a \in cu.cnx /\ a \in Assoc /\ cu.events = {} /\ a \in Issued
  BY <1>1, CuFacts DEF Rest, CuInv, EndsInv
<1>3. /\ Tail(toCu[a]) \in Seq(Wire) /\ m \in Wire
      /\ Range(toCu[a]) = Range(Tail(toCu[a])) \cup {m}
  BY <1>1, <1>2, CuFacts, SocketTail
<1>4. /\ toCu' \in [Assoc -> Seq(Wire)]
      /\ \A b \in Assoc : Range(toCu'[b]) \subseteq Range(toCu[b])
  <2>1. toCu \in [Assoc -> Seq(Wire)]
    BY CuFacts
  <2>. QED BY <1>1, <1>2, <1>3, <2>1
<1>0. StillRefused
  BY <1>1 DEF StillRefused
<1>5. m.t \in {"lost", "alert"} => ~DuUp(a)
  BY <1>2, <1>3 DEF Rest, WireInv, NoneOf, DuUp
<1>6. ASSUME NEW t \in {"finished", "loop", "undefined"}, NEW k \in {a, None},
             NEW h \in SUBSET cu.cnx, cu.hs \subseteq h,
             cu' = [cu EXCEPT !.task = t, !.at = k, !.hs = h],
             t # "loop" => k = a, t = "undefined" => ~DuUp(a),
             toDu' = toDu \/ toDu' = ToDu(a, Plain("flight"))
      PROVE  Rest'
  <2>1. /\ cu' \in CuRecord /\ cu'.q = cu.q /\ cu'.f1q = cu.f1q
        /\ cu'.cnx = cu.cnx /\ cu'.hs = h /\ cu'.backlog = cu.backlog
        /\ cu'.events = {} /\ cu'.task = t /\ cu'.at = k
    BY <1>2, <1>6, CuFacts DEF CuRecord
  <2>2. \A b : (CuEnd(b)' <=> CuEnd(b)) /\ (CuUp(b)' => CuUp(b))
    BY <1>0, <2>1, CuUpGoes DEF CuEnd
  <2>3. Plain("flight") \in Wire /\ Plain("flight").t = "flight" /\ "flight" \notin F1aps
    BY DEF Plain, Wire, F1aps
  <2>4. /\ toDu' \in [Assoc -> Seq(Wire)]
        /\ \A b \in Assoc : \A x \in Range(toDu'[b]) :
              x \in Range(toDu[b]) \/ (x.t # "lost" /\ x.t # "alert" /\ x.t \notin F1aps)
    <3>1. CASE toDu' = toDu
      BY <3>1, CuFacts
    <3>2. CASE toDu' = ToDu(a, Plain("flight"))
      <4>. DEFINE f == ToDu(a, Plain("flight"))
      <4>1. f \in [Assoc -> Seq(Wire)]
            /\ \A b \in Assoc : \A x \in Range(f[b]) :
                  x \in Range(toDu[b]) \/ (b = a /\ x = Plain("flight"))
        BY <1>2, <2>3, ToDuFacts
      <4>2. toDu' = f
        BY <3>2
      <4>. HIDE DEF f
      <4>. QED BY <2>3, <4>1, <4>2
    <3>. QED BY <1>6, <3>1, <3>2
  <2>5. WireInv' /\ F1apProtected'
    BY <1>1, <1>4, <2>1, <2>2, <2>4, WireStays
  <2>6. EndsInv'
    BY <1>1, <2>1 DEF Rest, EndsInv, Issued
  <2>7. CuInv'
    <3>1. Issued' = Issued
      BY <1>1 DEF Issued
    <3>. QED BY <1>2, <1>6, <2>1, <3>1 DEF Rest, CuInv
  <2>. QED BY <1>0, <1>1, <1>6, <2>1, <2>5, <2>6, <2>7, SilentCuStep
<1>7. cu \in CuRecord /\ cu.hs \subseteq cu.cnx
  BY CuFacts DEF Rest, CuInv
<1>8. CASE m.t = "hello" /\ cu' = [cu EXCEPT !.task = "finished"]
           /\ toDu' = ToDu(a, Plain("flight"))
  <2>1. cu' = [cu EXCEPT !.task = "finished", !.at = a, !.hs = cu.hs]
    BY <1>7, <1>8 DEF CuRecord
  <2>. QED BY <1>6, <1>7, <1>8, <2>1
<1>9. CASE m.t = "finished" /\ UNCHANGED toDu
           /\ cu' = [cu EXCEPT !.task = "loop", !.at = None, !.hs = @ \cup {a}]
  <2>. DEFINE h == cu.hs \cup {a}
  <2>1. cu' = [cu EXCEPT !.task = "loop", !.at = None, !.hs = h]
    BY <1>9
  <2>2. h \in SUBSET cu.cnx /\ cu.hs \subseteq h
    BY <1>2, <1>7
  <2>. HIDE DEF h
  <2>. QED BY <1>6, <1>9, <2>1, <2>2
<1>10. CASE m.t \in {"lost", "alert"} /\ cu' = [cu EXCEPT !.task = "undefined"] /\ UNCHANGED toDu
  <2>1. cu' = [cu EXCEPT !.task = "undefined", !.at = a, !.hs = cu.hs]
    BY <1>7, <1>10 DEF CuRecord
  <2>. QED BY <1>5, <1>6, <1>7, <1>10, <2>1
<1>. QED BY <1>8, <1>9, <1>10 DEF CuHandshakeReads

LEMMA CuHandshakeFailsKeeps ==
    ASSUME Rest, CuHandshakeFails
    PROVE  Rest'
<1>0. PICK a : a = cu.at
  OBVIOUS
<1>1. /\ cu.task \in {"hello", "finished"} /\ toCu[a] # <<>>
      /\ toCu' = [toCu EXCEPT ![a] = Tail(toCu[a])] /\ UNCHANGED <<du, rrc, owner>>
      /\ cu' = [cu EXCEPT !.task = "refused"]
      /\ toDu' \in {toDu, ToDu(a, Plain("alert"))}
  BY <1>0 DEF CuHandshakeFails
<1>2. a \in cu.cnx /\ a \in Assoc /\ cu.events = {} /\ a \in Issued
  BY <1>0, <1>1, CuFacts DEF Rest, CuInv, EndsInv
<1>3. /\ Tail(toCu[a]) \in Seq(Wire)
      /\ Range(Tail(toCu[a])) \subseteq Range(toCu[a])
  BY <1>1, <1>2, CuFacts, SocketTail
<1>4. /\ toCu' \in [Assoc -> Seq(Wire)]
      /\ \A b \in Assoc : Range(toCu'[b]) \subseteq Range(toCu[b])
  <2>1. toCu \in [Assoc -> Seq(Wire)]
    BY CuFacts
  <2>. QED BY <1>1, <1>2, <1>3, <2>1
<1>5. /\ cu' \in CuRecord /\ cu'.q = cu.q /\ cu'.f1q = cu.f1q
      /\ cu'.cnx = cu.cnx /\ cu'.hs = cu.hs /\ cu'.backlog = cu.backlog
      /\ cu'.events = {} /\ cu'.task = "refused" /\ cu'.at = a
  BY <1>0, <1>1, <1>2, CuFacts DEF CuRecord
<1>6. StillRefused
  BY <1>1 DEF StillRefused
<1>7. \A b : (CuEnd(b)' <=> CuEnd(b)) /\ (CuUp(b)' => CuUp(b))
  BY <1>5, <1>6, CuUpGoes DEF CuEnd
<1>8. ~CuUp(a)'
  BY <1>5 DEF CuUp
<1>9. Plain("alert") \in Wire /\ Plain("alert").t = "alert" /\ "alert" \notin F1aps
  BY DEF Plain, Wire, F1aps
<1>10. /\ toDu' \in [Assoc -> Seq(Wire)]
       /\ \A b \in Assoc : \A x \in Range(toDu'[b]) :
             \/ x \in Range(toDu[b])
             \/ x.t # "lost" /\ x.t \notin F1aps /\ ~CuUp(b)'
  <2>1. CASE toDu' = toDu
    BY <2>1, CuFacts
  <2>2. CASE toDu' = ToDu(a, Plain("alert"))
    <3>1. PICK f : f = ToDu(a, Plain("alert"))
      OBVIOUS
    <3>2. f \in [Assoc -> Seq(Wire)]
          /\ \A b \in Assoc : \A x \in Range(f[b]) :
                x \in Range(toDu[b]) \/ (b = a /\ x = Plain("alert"))
      BY <1>2, <1>9, <3>1, ToDuFacts
    <3>. QED BY <1>8, <1>9, <2>2, <3>1, <3>2
  <2>. QED BY <1>1, <2>1, <2>2
<1>11. WireInv' /\ F1apProtected'
  BY <1>1, <1>4, <1>5, <1>7, <1>10, WireStays
<1>12. EndsInv'
  BY <1>1, <1>5 DEF Rest, EndsInv, Issued
<1>13. CuInv'
  BY <1>2, <1>5 DEF Rest, CuInv
<1>. QED BY <1>1, <1>5, <1>6, <1>11, <1>12, <1>13, SilentCuStep

(* The CU sends F1AP on connections only whose handshake is done.          *)
LEMMA CuSendDataKeeps ==
    ASSUME Rest, CuSendData
    PROVE  Rest'
<1>. DEFINE m == Head(cu.q)
            w == [t |-> m.p, enc |-> m.a \in cu.hs]
<1>1. CuTake("send") /\ cu' = Took /\ UNCHANGED <<du, rrc, owner, toCu>>
      /\ toDu' = IF m.a \in cu.cnx THEN ToDu(m.a, w) ELSE toDu
  BY DEF CuSendData
<1>2. PendingOK(m) /\ m.t = "send"
  BY <1>1, CuTakeFacts DEF Rest, PendingInv
<1>3. m.p \in F1aps /\ (m.a \in cu.hs \/ ~CuEnd(m.a)) /\ m.a \in Assoc
  BY <1>2, CuFacts DEF PendingOK
<1>4. /\ cu' \in CuRecord /\ cu'.q = Tail(cu.q) /\ cu'.f1q = cu.f1q
      /\ cu'.cnx = cu.cnx /\ cu'.hs = cu.hs /\ cu'.backlog = cu.backlog
      /\ cu'.events = {} /\ cu'.task = "loop"
      /\ Range(Tail(cu.q)) \subseteq Range(cu.q)
  BY <1>1, CuTakeFacts
<1>5. m.a \in cu.cnx => w \in Wire /\ w.enc /\ w.t # "lost" /\ w.t # "alert"
  BY <1>3 DEF CuEnd, Wire, F1aps
<1>6. /\ toDu' \in [Assoc -> Seq(Wire)]
      /\ \A b \in Assoc : \A x \in Range(toDu'[b]) :
            x \in Range(toDu[b]) \/ (x.t # "lost" /\ x.t # "alert" /\ (x.t \in F1aps => x.enc))
  <2>. HIDE DEF w, m
  <2>. QED BY <1>1, <1>3, <1>5, ToDuFacts, CuFacts
<1>0. StillRefused
  BY <1>1, CuTakeFacts DEF StillRefused
<1>7. \A b : (CuEnd(b)' <=> CuEnd(b)) /\ (CuUp(b)' => CuUp(b))
  BY <1>0, <1>4, CuUpGoes DEF CuEnd
<1>8. WireInv' /\ F1apProtected'
  BY <1>1, <1>4, <1>6, <1>7, CuFacts, WireStays
<1>9. EndsInv'
  BY <1>1, <1>4 DEF Rest, EndsInv, Issued
<1>10. CuInv'
  BY <1>1, <1>4 DEF Rest, CuInv
<1>. QED BY <1>0, <1>1, <1>4, <1>8, <1>9, <1>10, SilentCuStep

LEMMA CuNoticesLossKeeps ==
    ASSUME Rest, CuNoticesLoss
    PROVE  Rest'
<1>1. PICK a \in cu.cnx \cup Range(cu.backlog) :
         ~DuEnd(a) /\ toCu' = [toCu EXCEPT ![a] = Append(@, Plain("lost"))]
  BY DEF CuNoticesLoss
<1>2. UNCHANGED <<du, cu, rrc, owner, toDu>>
  BY DEF CuNoticesLoss
<1>3. a \in Assoc
  BY <1>1, CuFacts, InRange
<1>4. toCu \in [Assoc -> Seq(Wire)] /\ toCu[a] \in Seq(Wire)
  BY <1>3, CuFacts
<1>5. Plain("lost") \in Wire /\ Plain("lost").t = "lost"
  BY DEF Plain, Wire
<1>6. /\ Append(toCu[a], Plain("lost")) \in Seq(Wire)
      /\ Append(toCu[a], Plain("lost")) # <<>>
      /\ Range(Append(toCu[a], Plain("lost"))) = Range(toCu[a]) \cup {Plain("lost")}
  BY <1>4, <1>5, RangeAppend
<1>7. /\ toCu' \in [Assoc -> Seq(Wire)] /\ toCu'[a] = Append(toCu[a], Plain("lost"))
      /\ \A b \in Assoc \ {a} : toCu'[b] = toCu[b]
  BY <1>1, <1>3, <1>4, <1>6
<1>8. /\ cu'.events \subseteq Assoc \cup {None}
      /\ \A b \in cu'.events \ {None} : toCu'[b] # <<>>
  <2>1. cu.events \subseteq Assoc \cup {None}
    BY CuFacts DEF CuRecord
  <2>. QED BY <1>2, <1>6, <1>7, <2>1 DEF Rest, WireInv
<1>9. \A b \in Assoc : \A m \in Range(toCu'[b]) :
         m \in Range(toCu[b]) \/ (m.t = "lost" /\ ~DuEnd(b))
  BY <1>1, <1>5, <1>6, <1>7
<1>0. StillRefused
  BY <1>2 DEF StillRefused
<1>10. \A b : (CuEnd(b)' <=> CuEnd(b)) /\ (CuUp(b)' => CuUp(b))
  BY <1>0, <1>2, CuUpGoes DEF CuEnd
<1>11. WireInv' /\ F1apProtected'
  BY <1>2, <1>7, <1>8, <1>9, <1>10, CuFacts, WireStays
<1>12. EndsInv' /\ CuInv'
  BY <1>2 DEF Rest, EndsInv, CuInv, Issued
<1>13. cu'.task = "undefined" => ~DuUp(cu'.at)
  BY <1>2 DEF Rest, UndefinedOnlyIfPeerFails
<1>. QED BY <1>0, <1>2, <1>11, <1>12, <1>13, SilentCuStep

(* The association at the head of the backlog.                             *)
LEMMA BacklogFacts ==
    ASSUME Rest, None \in cu.events
    PROVE  LET a == Head(cu.backlog) IN
           /\ cu.backlog # <<>> /\ a \in Issued /\ a \in Assoc /\ a \notin cu.cnx
           /\ Range(cu.backlog) = Range(Tail(cu.backlog)) \cup {a}
           /\ a \notin Range(Tail(cu.backlog)) /\ Distinct(Tail(cu.backlog))
           /\ Tail(cu.backlog) \in Seq(Assoc)
<1>1. cu.backlog # <<>> /\ cu.backlog \in Seq(Assoc) /\ Distinct(cu.backlog)
  BY CuFacts DEF Rest, CuInv, EndsInv
<1>2. /\ Range(cu.backlog) = Range(Tail(cu.backlog)) \cup {Head(cu.backlog)}
      /\ Tail(cu.backlog) \in Seq(Assoc)
  BY <1>1, RangeTail
<1>3. Distinct(Tail(cu.backlog)) /\ Head(cu.backlog) \notin Range(Tail(cu.backlog))
  BY <1>1, DistinctTail
<1>4. Head(cu.backlog) \in Issued /\ Head(cu.backlog) \notin cu.cnx
  BY <1>2 DEF Rest, EndsInv
<1>. QED BY <1>1, <1>2, <1>3, <1>4, CuFacts

LEMMA CuAcceptKeeps ==
    ASSUME Rest, CuAccept
    PROVE  Rest'
<1>. DEFINE a == Head(cu.backlog)
            x == M("ind", a)
<1>1. /\ cu.task = "loop" /\ None \in cu.events /\ UNCHANGED <<du, rrc, owner, toCu, toDu>>
      /\ cu' = [cu EXCEPT !.events = @ \ {None}, !.backlog = Tail(@), !.cnx = @ \cup {a},
                          !.f1q = Append(@, x)]
  BY DEF CuAccept
<1>2. /\ cu.backlog # <<>> /\ a \in Issued /\ a \in Assoc /\ a \notin cu.cnx
      /\ Range(cu.backlog) = Range(Tail(cu.backlog)) \cup {a}
      /\ a \notin Range(Tail(cu.backlog)) /\ Distinct(Tail(cu.backlog))
      /\ Tail(cu.backlog) \in Seq(Assoc)
  BY <1>1, BacklogFacts
<1>3. x \in Msg /\ x.t = "ind" /\ x.a = a
  BY <1>2, Messages
<1>. HIDE DEF a, x
<1>4. /\ Append(cu.f1q, x) \in Seq(Msg)
      /\ Range(Append(cu.f1q, x)) = Range(cu.f1q) \cup {x}
  BY <1>3, CuFacts, RangeAppend
<1>5. /\ cu' \in CuRecord /\ cu'.q = cu.q /\ cu'.f1q = Append(cu.f1q, x)
      /\ cu'.cnx = cu.cnx \cup {a} /\ cu'.hs = cu.hs /\ cu'.backlog = Tail(cu.backlog)
      /\ cu'.events = cu.events \ {None} /\ cu'.task = "loop"
  BY <1>1, <1>2, <1>4, CuFacts DEF CuRecord
<1>0. StillRefused
  BY <1>1 DEF StillRefused
<1>15. \A b : CuEnd(b)' <=> CuEnd(b)
  BY <1>2, <1>5 DEF CuEnd
<1>6. \A b : (CuEnd(b)' <=> CuEnd(b)) /\ (CuUp(b)' => CuUp(b))
  BY <1>0, <1>15, CuUpGoes
<1>7. Issued' = Issued
  BY <1>1 DEF Issued
<1>8. EndsInv'
  BY <1>1, <1>2, <1>5, <1>7 DEF Rest, EndsInv
<1>9. CuInv'
  BY <1>5 DEF Rest, CuInv
<1>10. PendingInv'
  <2>. DEFINE N == {x}
  <2>1. Pending' \subseteq Pending \cup N
    BY <1>1, <1>4, <1>5 DEF Pending
  <2>2. \A m \in N : PendingOK(m)'
    BY <1>2, <1>3, <1>7 DEF PendingOK
  <2>3. \A b \in Issued : /\ CuEnd(b)' => CuEnd(b)
                          /\ b \in cu.hs => b \in cu'.hs \/ ~CuEnd(b)'
                          /\ b \in cu.cnx => b \in cu'.cnx \/ ~DuEnd(b)
    BY <1>5, <1>6
  <2>4. PendingInv
    BY DEF Rest
  <2>. HIDE DEF N
  <2>5. \A m \in Pending' : PendingOK(m)'
    BY <1>1, <2>1, <2>2, <2>3, <2>4, PendingStays
  <2>. QED BY <1>1, <2>4, <2>5 DEF PendingInv
<1>11. WireInv' /\ F1apProtected'
  <2>1. cu'.events \subseteq Assoc \cup {None} /\ \A b \in cu'.events \ {None} : toCu'[b] # <<>>
    BY <1>1, <1>5, CuFacts DEF CuRecord, Rest, WireInv
  <2>. QED BY <1>1, <1>6, <2>1, CuFacts, WireStays
<1>12. RegistryInv'
  <2>1. \A b : LossBehind(cu.f1q, b) => LossBehind(Append(cu.f1q, x), b)
    BY <1>3, CuFacts, LossBehindAppend
  <2>. QED BY <1>1, <1>4, <1>5, <1>7, <2>1 DEF Rest, RegistryInv
<1>13. NoGhostDu'
  BY <1>1, <1>4, <1>5 DEF Rest, NoGhostDu
<1>14. UndefinedOnlyIfPeerFails'
  BY <1>1, <1>5, <1>6, StaysUndefined DEF Rest
<1>. QED BY <1>8, <1>9, <1>10, <1>11, <1>12, <1>13, <1>14 DEF Rest

LEMMA CuAcceptFailsKeeps ==
    ASSUME Rest, CuAcceptFails
    PROVE  Rest'
<1>0. PICK a : a = Head(cu.backlog)
  OBVIOUS
<1>1. /\ cu.task = "loop" /\ None \in cu.events /\ UNCHANGED <<du, rrc, owner>>
      /\ cu' = [cu EXCEPT !.events = @ \ {None}, !.backlog = Tail(@)]
      /\ toCu' = [toCu EXCEPT ![a] = <<>>] /\ toDu' = ToDu(a, Plain("lost"))
  BY <1>0 DEF CuAcceptFails
<1>2. /\ cu.backlog # <<>> /\ a \in Issued /\ a \in Assoc /\ a \notin cu.cnx
      /\ Range(cu.backlog) = Range(Tail(cu.backlog)) \cup {a}
      /\ a \notin Range(Tail(cu.backlog)) /\ Distinct(Tail(cu.backlog))
      /\ Tail(cu.backlog) \in Seq(Assoc)
  BY <1>0, <1>1, BacklogFacts
<1>3. /\ cu' \in CuRecord /\ cu'.q = cu.q /\ cu'.f1q = cu.f1q
      /\ cu'.cnx = cu.cnx /\ cu'.hs = cu.hs /\ cu'.backlog = Tail(cu.backlog)
      /\ cu'.events = cu.events \ {None} /\ cu'.task = "loop"
  BY <1>1, <1>2, CuFacts DEF CuRecord
<1>13. StillRefused
  BY <1>1 DEF StillRefused
<1>14. (\A b : CuEnd(b)' => CuEnd(b)) /\ ~CuEnd(a)'
  BY <1>2, <1>3 DEF CuEnd
<1>4. (\A b : (CuEnd(b)' => CuEnd(b)) /\ (CuUp(b)' => CuUp(b))) /\ ~CuEnd(a)'
  BY <1>13, <1>14, CuUpGoes
<1>5. Issued' = Issued
  BY <1>1 DEF Issued
<1>6. EndsInv'
  BY <1>1, <1>2, <1>3, <1>5 DEF Rest, EndsInv
<1>7. CuInv'
  BY <1>3 DEF Rest, CuInv
<1>8. Plain("lost") \in Wire /\ Plain("lost").t = "lost"
  BY DEF Plain, Wire
<1>9. /\ toDu' \in [Assoc -> Seq(Wire)]
      /\ \A b \in Assoc : \A m \in Range(toDu'[b]) :
            m \in Range(toDu[b]) \/ (m.t = "lost" /\ ~CuEnd(b)')
  <2>. DEFINE f == ToDu(a, Plain("lost"))
  <2>1. f \in [Assoc -> Seq(Wire)]
        /\ \A b \in Assoc : \A m \in Range(f[b]) :
              m \in Range(toDu[b]) \/ (b = a /\ m = Plain("lost"))
    BY <1>2, <1>8, ToDuFacts
  <2>2. toDu' = f
    BY <1>1
  <2>. HIDE DEF f
  <2>. QED BY <1>4, <1>8, <2>1, <2>2
<1>10. /\ toCu' \in [Assoc -> Seq(Wire)]
       /\ \A b \in Assoc : Range(toCu'[b]) \subseteq Range(toCu[b])
       /\ \A b \in Assoc \ {a} : toCu'[b] = toCu[b]
  BY <1>1, <1>2, CuFacts, RangeEmpty
<1>11. cu'.events \subseteq Assoc \cup {None} /\ \A b \in cu'.events \ {None} : toCu'[b] # <<>>
  <2>1. cu.events \subseteq Assoc \cup {None} /\ a \notin cu.events
    BY <1>2, CuFacts, Nones DEF CuRecord, Rest, CuInv
  <2>. QED BY <1>3, <1>10, <2>1 DEF Rest, WireInv
<1>12. WireInv' /\ F1apProtected'
  BY <1>1, <1>4, <1>9, <1>10, <1>11, WireStays
<1>. QED BY <1>1, <1>2, <1>3, <1>6, <1>7, <1>12, <1>13, SilentCuStep

(* The F1 task is told x, which is about a connection that has a message.  *)
LEMMA CuReadFromSocketKeeps ==
    ASSUME Rest, CuReadFromSocket
    PROVE  Rest'
<1>1. PICK a \in cu.events \ {None} :
        /\ cu.task = "loop" /\ toCu' = [toCu EXCEPT ![a] = Tail(@)]
        /\ UNCHANGED <<du, rrc, owner, toDu>>
        /\ LET m == Head(toCu[a])
               Tell(x) == [cu EXCEPT !.events = @ \ {a}, !.f1q = Append(@, x)]
           IN cu' = CASE m.t = "commUp" -> Tell(M("established", a))
                      [] m.t = "lost" ->
                           [Tell(M("lost", a)) EXCEPT !.cnx = @ \ {a}, !.hs = @ \ {a}]
                      [] OTHER -> Tell([t |-> "data", a |-> a, p |-> Received(m, a \in cu.hs)])
  BY DEF CuReadFromSocket
<1>. DEFINE m == Head(toCu[a])
<1>2. /\ a \in cu.cnx /\ a \in Assoc /\ a \in Issued /\ toCu[a] # <<>> /\ a # None
      /\ a \notin Range(cu.backlog)
  BY <1>1, CuFacts DEF Rest, CuInv, WireInv, EndsInv
<1>3. /\ Tail(toCu[a]) \in Seq(Wire) /\ m \in Wire
      /\ Range(toCu[a]) = Range(Tail(toCu[a])) \cup {m}
  BY <1>2, CuFacts, SocketTail
<1>4. /\ toCu' \in [Assoc -> Seq(Wire)]
      /\ \A b \in Assoc : Range(toCu'[b]) \subseteq Range(toCu[b])
      /\ \A b \in Assoc \ {a} : toCu'[b] = toCu[b]
  BY <1>1, <1>2, <1>3, CuFacts
<1>5. Issued' = Issued
  BY <1>1 DEF Issued
<1>6. m.t = "lost" => ~DuEnd(a)
  BY <1>2, <1>3 DEF Rest, WireInv, NoneOf
<1>7. ASSUME NEW x \in Msg, x.a = a, NEW G \in SUBSET {a},
             cu' = [cu EXCEPT !.events = @ \ {a}, !.f1q = Append(@, x),
                              !.cnx = @ \ G, !.hs = @ \ G],
             G # {} => x = M("lost", a) /\ ~DuEnd(a),
             x.t \in {"established", "lost", "data"},
             x.t = "lost" => x = M("lost", a) /\ G = {a},
             x.t = "data" /\ x.p = "setupReq" => a \in cu.hs
      PROVE  Rest'
  <2>1. /\ Append(cu.f1q, x) \in Seq(Msg)
        /\ Range(Append(cu.f1q, x)) = Range(cu.f1q) \cup {x}
    BY <1>7, CuFacts, RangeAppend
  <2>2. /\ cu' \in CuRecord /\ cu'.q = cu.q /\ cu'.f1q = Append(cu.f1q, x)
        /\ cu'.cnx = cu.cnx \ G /\ cu'.hs = cu.hs \ G /\ cu'.backlog = cu.backlog
        /\ cu'.events = cu.events \ {a} /\ cu'.task = "loop"
    <3>1. cu \in CuRecord /\ cu.task = "loop"
      BY <1>1, CuFacts
    <3>. QED BY <1>7, <2>1, <3>1 DEF CuRecord
  <2>0. StillRefused
    BY <1>1 DEF StillRefused
  <2>11. /\ \A b : CuEnd(b)' => CuEnd(b)
         /\ \A b \in G : ~CuEnd(b)'
    BY <1>2, <2>2 DEF CuEnd
  <2>3. /\ \A b : (CuEnd(b)' => CuEnd(b)) /\ (CuUp(b)' => CuUp(b))
        /\ \A b \in G : ~CuEnd(b)'
    BY <2>0, <2>11, CuUpGoes
  <2>4. EndsInv'
    BY <1>1, <1>5, <2>2 DEF Rest, EndsInv
  <2>5. CuInv'
    BY <1>2, <2>2 DEF Rest, CuInv
  <2>6. PendingInv'
    <3>. DEFINE N == {x}
    <3>1. Pending' \subseteq Pending \cup N
      BY <1>1, <2>1, <2>2 DEF Pending
    <3>2. PendingOK(x)'
      <4>1. x.t = "established" => a \in cu'.cnx
        BY <1>2, <1>7, <2>2 DEF M
      <4>2. x.t = "data" => G = {}
        BY <1>7 DEF M
      <4>3. x.t # "send" /\ x.t # "handshake"
        BY <1>7
      <4>. QED BY <1>2, <1>5, <1>7, <2>2, <4>1, <4>2, <4>3 DEF PendingOK
    <3>3. \A y \in N : PendingOK(y)'
      BY <3>2
    <3>4. \A b \in Issued : /\ CuEnd(b)' => CuEnd(b)
                            /\ b \in cu.hs => b \in cu'.hs \/ ~CuEnd(b)'
                            /\ b \in cu.cnx => b \in cu'.cnx \/ ~DuEnd(b)
      BY <1>7, <2>2, <2>3
    <3>5. PendingInv
      BY DEF Rest
    <3>. HIDE DEF N
    <3>6. \A y \in Pending' : PendingOK(y)'
      BY <1>1, <3>1, <3>3, <3>4, <3>5, PendingStays
    <3>. QED BY <1>1, <3>5, <3>6 DEF PendingInv
  <2>7. WireInv' /\ F1apProtected'
    <3>1. cu'.events \subseteq Assoc \cup {None} /\ \A b \in cu'.events \ {None} : toCu'[b] # <<>>
      <4>1. cu.events \subseteq Assoc \cup {None}
        BY CuFacts DEF CuRecord
      <4>. QED BY <1>4, <2>2, <4>1 DEF Rest, WireInv
    <3>. QED BY <1>1, <1>4, <2>3, <3>1, CuFacts, WireStays
  <2>8. RegistryInv'
    <3>1. ASSUME NEW b \in Issued \ cu'.cnx
          PROVE  /\ LossBehind(cu'.f1q, b)
                 /\ M("lost", b) \in Range(cu'.f1q) \/ LossBehind(rrc'.q, b)
      <4>1. CASE b \in G
        <5>1. x = M("lost", b)
          BY <1>7, <4>1
        <5>. QED BY <1>7, <2>1, <2>2, <5>1, CuFacts, LossBehindAppend
      <4>2. CASE b \notin G
        <5>1. b \notin cu.cnx /\ b # a
          BY <1>2, <2>2, <3>1, <4>2
        <5>2. LossBehind(cu.f1q, b) /\ (M("lost", b) \in Range(cu.f1q) \/ LossBehind(rrc.q, b))
          BY <3>1, <5>1 DEF Rest, RegistryInv
        <5>3. LossBehind(Append(cu.f1q, x), b)
          BY <1>7, <5>1, <5>2, CuFacts, LossBehindAppend
        <5>. QED BY <1>1, <2>1, <2>2, <5>2, <5>3
      <4>. QED BY <4>1, <4>2
    <3>. QED BY <1>5, <3>1 DEF RegistryInv
  <2>9. NoGhostDu'
    BY <1>1, <1>7, <2>1, <2>2 DEF Rest, NoGhostDu
  <2>10. UndefinedOnlyIfPeerFails'
    BY <1>1, <2>2, <2>3, StaysUndefined DEF Rest
  <2>. QED BY <2>4, <2>5, <2>6, <2>7, <2>8, <2>9, <2>10 DEF Rest
<1>8. cu \in CuRecord
  BY CuFacts
<1>9. CASE m.t = "commUp"
  <2>. DEFINE x == M("established", a)
  <2>1. cu' = [cu EXCEPT !.events = @ \ {a}, !.f1q = Append(@, x)]
    BY <1>1, <1>9
  <2>. DEFINE G == {}
  <2>2. cu' = [cu EXCEPT !.events = @ \ {a}, !.f1q = Append(@, x), !.cnx = @ \ G, !.hs = @ \ G]
    BY <1>8, <2>1 DEF CuRecord
  <2>3. x \in Msg /\ x.a = a /\ x.t = "established"
    BY <1>2, Messages
  <2>5. G = {} /\ G \in SUBSET {a}
    OBVIOUS
  <2>. HIDE DEF x, G
  <2>. QED BY <1>7, <2>2, <2>3, <2>5
<1>10. CASE m.t = "lost"
  <2>. DEFINE x == M("lost", a)
  <2>1. cu' = [[cu EXCEPT !.events = @ \ {a}, !.f1q = Append(@, x)]
                  EXCEPT !.cnx = @ \ {a}, !.hs = @ \ {a}]
    BY <1>1, <1>10
  <2>2. cu' = [cu EXCEPT !.events = @ \ {a}, !.f1q = Append(@, x), !.cnx = @ \ {a}, !.hs = @ \ {a}]
    BY <1>8, <2>1 DEF CuRecord
  <2>3. x \in Msg /\ x.a = a /\ x.t = "lost"
    BY <1>2, Messages
  <2>4. x = M("lost", a)
    OBVIOUS
  <2>. HIDE DEF x
  <2>. QED BY <1>6, <1>7, <1>10, <2>2, <2>3, <2>4
<1>11. CASE m.t \notin {"commUp", "lost"}
  <2>. DEFINE x == [t |-> "data", a |-> a, p |-> Received(m, a \in cu.hs)]
  <2>1. cu' = [cu EXCEPT !.events = @ \ {a}, !.f1q = Append(@, x)]
    BY <1>1, <1>11
  <2>. DEFINE G == {}
  <2>2. cu' = [cu EXCEPT !.events = @ \ {a}, !.f1q = Append(@, x), !.cnx = @ \ G, !.hs = @ \ G]
    BY <1>8, <2>1 DEF CuRecord
  <2>3. x \in Msg /\ x.a = a /\ x.t = "data"
    BY <1>2, <1>3, <1>11 DEF Received, Wire, Msg
  <2>4. x.p = "setupReq" => a \in cu.hs
    <3>1. m.t = "setupReq" => m.enc
      BY <1>2, <1>3 DEF Rest, F1apProtected, F1aps
    <3>2. x.p = "setupReq" => m.t = "setupReq" /\ (a \in cu.hs) = m.enc
      BY DEF Received
    <3>. QED BY <3>1, <3>2
  <2>5. G = {} /\ G \in SUBSET {a}
    OBVIOUS
  <2>. HIDE DEF x, G
  <2>. QED BY <1>7, <2>2, <2>3, <2>4, <2>5
<1>. QED BY <1>9, <1>10, <1>11

(* From SCTP to RRC and back.  Only the queues change.                     *)
LEMMA QueueStep ==
    ASSUME Rest, UNCHANGED <<du, owner, toCu, toDu>>, cu' \in CuRecord,
           cu'.cnx = cu.cnx, cu'.hs = cu.hs, cu'.backlog = cu.backlog,
           cu'.events = cu.events, cu'.task = cu.task, cu'.at = cu.at,
           cu.task # "off",
           rrc' \in [q : Seq(Msg), dus : SUBSET [assoc : Assoc, du : Dus]],
           \A m \in Range(rrc'.q) : m.t = "data" => m.p = "setupReq",
           NEW N, Pending' \subseteq Pending \cup N, \A m \in N : PendingOK(m)',
           RegistryInv', NoGhostDu'
    PROVE  Rest'
<1>1. cu.events \subseteq Assoc \cup {None} /\ \A a \in cu.events \ {None} : toCu[a] # <<>>
  BY CuFacts DEF CuRecord, Rest, WireInv
<1>0. StillRefused
  BY DEF StillRefused
<1>2. EndsInv' /\ WireInv' /\ F1apProtected'
  BY <1>0, <1>1, SameSockets
<1>3. CuInv'
  BY DEF Rest, CuInv, Issued
<1>4. \A a \in Issued : /\ CuEnd(a)' => CuEnd(a)
                        /\ a \in cu.hs => a \in cu'.hs \/ ~CuEnd(a)'
                        /\ a \in cu.cnx => a \in cu'.cnx \/ ~DuEnd(a)
  BY DEF CuEnd
<1>5. PendingInv
  BY DEF Rest
<1>6. \A m \in Pending' : PendingOK(m)'
  BY <1>4, <1>5, PendingStays
<1>7. UndefinedOnlyIfPeerFails'
  <2>1. \A a : CuUp(a)' => CuUp(a)
    BY DEF CuUp, CuEnd
  <2>. QED BY <2>1, StaysUndefined DEF Rest, UndefinedOnlyIfPeerFails
<1>. QED BY <1>2, <1>3, <1>6, <1>7 DEF Rest, PendingInv

LEMMA CuF1ReceivesKeeps ==
    ASSUME Rest, CuF1Receives
    PROVE  Rest'
<1>0. PICK m : m = Head(cu.f1q)
  OBVIOUS
<1>1. cu.f1q # <<>> /\ UNCHANGED <<du, owner, toCu, toDu>>
  BY DEF CuF1Receives
<1>2. /\ Range(cu.f1q) = Range(Tail(cu.f1q)) \cup {m} /\ m \in Msg
      /\ Tail(cu.f1q) \in Seq(Msg)
  BY <1>0, <1>1, CuFacts, RangeTail
<1>3. PendingOK(m) /\ cu.task # "off"
  <2>1. m \in Pending
    BY <1>2 DEF Pending
  <2>2. cu.task # "off"
    BY <1>1 DEF Rest, CuInv, CuOff, CuStarted
  <2>. QED BY <2>1, <2>2 DEF Rest, PendingInv
<1>4. Issued' = Issued /\ \A a : DuEnd(a)' <=> DuEnd(a)
  BY <1>1 DEF Issued, DuEnd
<1>5. \A a \in Issued \ cu.cnx :
         /\ LossBehind(cu.f1q, a) /\ LossBehind(Tail(cu.f1q), a)
         /\ M("lost", a) \in Range(cu.f1q) \/ LossBehind(rrc.q, a)
  BY <1>1, CuFacts, LossBehindTail DEF Rest, RegistryInv
(* The F1 task asks TASK_SCTP for x, or does nothing.                      *)
<1>6. ASSUME m.t # "lost", UNCHANGED rrc, NEW x \in Msg,
             \/ cu' = [cu EXCEPT !.f1q = Tail(@), !.q = Append(@, x)] /\ PendingOK(x)'
             \/ cu' = [cu EXCEPT !.f1q = Tail(@)]
      PROVE  Rest'
  <2>1. cu.q \in Seq(Msg) /\ cu \in CuRecord
    BY CuFacts
  <2>2. Append(cu.q, x) \in Seq(Msg) /\ Range(Append(cu.q, x)) = Range(cu.q) \cup {x}
    BY <2>1, RangeAppend
  <2>3. /\ cu' \in CuRecord /\ cu'.cnx = cu.cnx /\ cu'.hs = cu.hs /\ cu'.backlog = cu.backlog
        /\ cu'.events = cu.events /\ cu'.task = cu.task /\ cu'.at = cu.at
        /\ cu'.f1q = Tail(cu.f1q)
        /\ cu'.q = cu.q \/ (cu'.q = Append(cu.q, x) /\ PendingOK(x)')
    BY <1>2, <1>6, <2>1, <2>2 DEF CuRecord
  <2>. DEFINE N == IF PendingOK(x)' THEN {x} ELSE {}
  <2>4. Pending' \subseteq Pending \cup N /\ \A y \in N : PendingOK(y)'
    BY <1>2, <1>6, <2>2, <2>3 DEF Pending
  <2>. HIDE DEF N
  <2>5. \A a : M("lost", a) \in Range(cu.f1q) => M("lost", a) \in Range(Tail(cu.f1q))
    BY <1>2, <1>6 DEF M
  <2>6. RegistryInv'
    BY <1>4, <1>5, <1>6, <2>3, <2>5 DEF RegistryInv
  <2>7. NoGhostDu'
    BY <1>6, <2>3, <2>5 DEF Rest, NoGhostDu
  <2>8. /\ rrc' \in [q : Seq(Msg), dus : SUBSET [assoc : Assoc, du : Dus]]
        /\ \A y \in Range(rrc'.q) : y.t = "data" => y.p = "setupReq"
    BY <1>6 DEF Rest, PendingInv
  <2>. QED BY <1>1, <1>3, <2>3, <2>4, <2>6, <2>7, <2>8, QueueStep
(* It tells RRC what it was told.                                          *)
<1>7. ASSUME m.t = "lost" \/ (m.t = "data" /\ m.p = "setupReq"),
             cu' = [cu EXCEPT !.f1q = Tail(@)], rrc' = [rrc EXCEPT !.q = Append(@, m)]
      PROVE  Rest'
  <2>1. /\ cu \in CuRecord /\ rrc.q \in Seq(Msg)
        /\ rrc \in [q : Seq(Msg), dus : SUBSET [assoc : Assoc, du : Dus]]
    BY CuFacts DEF Rest, PendingInv
  <2>2. Append(rrc.q, m) \in Seq(Msg) /\ Range(Append(rrc.q, m)) = Range(rrc.q) \cup {m}
    BY <1>2, <2>1, RangeAppend
  <2>3. /\ cu' \in CuRecord /\ cu'.cnx = cu.cnx /\ cu'.hs = cu.hs /\ cu'.backlog = cu.backlog
        /\ cu'.events = cu.events /\ cu'.task = cu.task /\ cu'.at = cu.at
        /\ cu'.f1q = Tail(cu.f1q) /\ cu'.q = cu.q
    BY <1>2, <1>7, <2>1 DEF CuRecord
  <2>4. /\ rrc' \in [q : Seq(Msg), dus : SUBSET [assoc : Assoc, du : Dus]]
        /\ rrc'.q = Append(rrc.q, m) /\ rrc'.dus = rrc.dus
    BY <1>7, <2>1, <2>2
  <2>5. \A y \in Range(rrc'.q) : y.t = "data" => y.p = "setupReq"
    BY <1>7, <2>2, <2>4 DEF Rest, PendingInv
  <2>. DEFINE N == {}
  <2>6. Pending' \subseteq Pending \cup N /\ \A y \in N : PendingOK(y)'
    BY <1>2, <2>2, <2>3, <2>4 DEF Pending
  <2>. HIDE DEF N
  <2>7. m.t = "lost" => m = M("lost", m.a)
    BY <1>3 DEF PendingOK
  <2>8. RegistryInv'
    <3>1. ASSUME NEW a \in Issued \ cu.cnx
          PROVE  M("lost", a) \in Range(Tail(cu.f1q)) \/ LossBehind(Append(rrc.q, m), a)
      <4>1. CASE m = M("lost", a)
        BY <1>2, <2>1, <4>1, LossBehindAppend
      <4>2. CASE m # M("lost", a) /\ M("lost", a) \in Range(cu.f1q)
        BY <1>2, <4>2
      <4>3. CASE M("lost", a) \notin Range(cu.f1q)
        <5>1. LossBehind(rrc.q, a) /\ LossBehind(cu.f1q, a) /\ cu.f1q \in Seq(Msg)
          BY <1>5, <3>1, <4>3, CuFacts
        <5>2. ~(m.t = "data" /\ m.a = a)
          BY <1>2, <4>3, <5>1, NothingLost
        <5>. QED BY <1>2, <2>1, <5>1, <5>2, LossBehindAppend
      <4>. QED BY <4>1, <4>2, <4>3
    <3>. QED BY <1>4, <1>5, <2>3, <2>4, <3>1 DEF RegistryInv
  <2>9. NoGhostDu'
    BY <1>2, <2>2, <2>3, <2>4 DEF Rest, NoGhostDu
  <2>. QED BY <1>1, <1>3, <2>3, <2>4, <2>5, <2>6, <2>8, <2>9, QueueStep
<1>8. CASE m.t = "established"
  <2>. DEFINE x == M("handshake", m.a)
  <2>1. cu' = [cu EXCEPT !.f1q = Tail(@), !.q = Append(@, x)] /\ UNCHANGED rrc
    BY <1>0, <1>8, CuFacts DEF CuF1Receives, CuRecord
  <2>2. m.a \in Issued /\ m.a \in Assoc /\ (m.a \in cu.cnx \/ ~DuEnd(m.a))
    BY <1>3, <1>8, CuFacts DEF PendingOK
  <2>3. x \in Msg /\ x.t = "handshake" /\ x.a = m.a
    BY <2>2, Messages
  <2>4. cu'.cnx = cu.cnx
    BY <2>1, CuFacts DEF CuRecord
  <2>5. PendingOK(x)'
    BY <1>4, <2>2, <2>3, <2>4 DEF PendingOK
  <2>. HIDE DEF x
  <2>. QED BY <1>6, <1>8, <2>1, <2>3, <2>5
<1>9. CASE m.t = "send"
  <2>1. cu' = [cu EXCEPT !.f1q = Tail(@), !.q = Append(@, m)] /\ UNCHANGED rrc
    BY <1>0, <1>9, CuFacts DEF CuF1Receives, CuRecord
  <2>2. cu'.cnx = cu.cnx /\ cu'.hs = cu.hs /\ cu'.backlog = cu.backlog
    BY <2>1, CuFacts DEF CuRecord
  <2>3. PendingOK(m)'
    BY <1>3, <1>4, <2>2 DEF PendingOK, CuEnd
  <2>. QED BY <1>2, <1>6, <1>9, <2>1, <2>3
<1>10. CASE m.t = "lost" \/ (m.t = "data" /\ m.p = "setupReq")
  BY <1>0, <1>7, <1>10 DEF CuF1Receives
<1>11. CASE m.t \notin {"established", "send", "lost"} /\ ~(m.t = "data" /\ m.p = "setupReq")
  <2>1. cu' = [cu EXCEPT !.f1q = Tail(@)] /\ UNCHANGED rrc
    BY <1>0, <1>11 DEF CuF1Receives
  <2>. QED BY <1>2, <1>6, <1>11, <2>1
<1>. QED BY <1>8, <1>9, <1>10, <1>11

LEMMA RrcReceivesKeeps ==
    ASSUME Rest, RrcReceives
    PROVE  Rest'
<1>0. PICK m : m = Head(rrc.q)
  OBVIOUS
<1>1. rrc.q # <<>> /\ UNCHANGED <<du, owner, toCu, toDu>>
  BY DEF RrcReceives
<1>2. /\ Range(rrc.q) = Range(Tail(rrc.q)) \cup {m} /\ m \in Msg
      /\ Tail(rrc.q) \in Seq(Msg) /\ rrc.q \in Seq(Msg)
  BY <1>0, <1>1, CuFacts, RangeTail
<1>3. PendingOK(m) /\ cu.task # "off"
  <2>1. m \in Pending
    BY <1>2 DEF Pending
  <2>2. cu.task # "off"
    BY <1>1 DEF Rest, CuInv
  <2>. QED BY <2>1, <2>2 DEF Rest, PendingInv
<1>4. Issued' = Issued
  BY <1>1 DEF Issued
<1>5. \A a \in Issued \ cu.cnx :
         /\ LossBehind(cu.f1q, a)
         /\ M("lost", a) \in Range(cu.f1q) \/ LossBehind(rrc.q, a)
  BY DEF Rest, RegistryInv
<1>6. rrc \in [q : Seq(Msg), dus : SUBSET [assoc : Assoc, du : Dus]]
      /\ \A y \in Range(rrc.q) : y.t = "data" => y.p = "setupReq"
  BY DEF Rest, PendingInv
<1>7. CASE m.t = "data" /\ RrcSetupReq(m)
  <2>. DEFINE e == [assoc |-> m.a, du |-> owner[m.a]]
  <2>1. PICK x : /\ cu' = [cu EXCEPT !.f1q = Append(@, x)]
                 /\ x = [t |-> "send", a |-> m.a, p |-> x.p] /\ x.p \in F1aps
    <3>1. PICK p \in {"setupFail", "setupResp"} :
              cu' = [cu EXCEPT !.f1q = Append(@, [t |-> "send", a |-> m.a, p |-> p])]
      BY <1>7 DEF RrcSetupReq
    <3>2. p \in F1aps
      BY DEF F1aps
    <3>. DEFINE x == [t |-> "send", a |-> m.a, p |-> p]
    <3>3. x.p = p /\ x = [t |-> "send", a |-> m.a, p |-> x.p]
      OBVIOUS
    <3>4. cu' = [cu EXCEPT !.f1q = Append(@, x)]
      BY <3>1
    <3>. HIDE DEF x
    <3>. QED BY <3>2, <3>3, <3>4
  <2>2. rrc'.q = Tail(rrc.q) /\ rrc' = [q |-> rrc'.q, dus |-> rrc'.dus]
        /\ rrc'.dus \subseteq rrc.dus \cup {e}
    BY <1>7 DEF RrcSetupReq
  <2>3. m.a \in Issued /\ m.a \in Assoc /\ owner[m.a] \in Dus /\ m.p = "setupReq"
        /\ (m.a \in cu.hs \/ ~CuEnd(m.a))
    BY <1>2, <1>3, <1>6, <1>7, CuFacts DEF PendingOK
  <2>4. x \in Msg /\ x.t = "send" /\ x.a = m.a
    BY <2>1, <2>3 DEF Msg
  <2>5. Append(cu.f1q, x) \in Seq(Msg) /\ Range(Append(cu.f1q, x)) = Range(cu.f1q) \cup {x}
    BY <2>4, CuFacts, RangeAppend
  <2>6. /\ cu' \in CuRecord /\ cu'.cnx = cu.cnx /\ cu'.hs = cu.hs /\ cu'.backlog = cu.backlog
        /\ cu'.events = cu.events /\ cu'.task = cu.task /\ cu'.at = cu.at
        /\ cu'.f1q = Append(cu.f1q, x) /\ cu'.q = cu.q
    BY <2>1, <2>5, CuFacts DEF CuRecord
  <2>7. rrc' \in [q : Seq(Msg), dus : SUBSET [assoc : Assoc, du : Dus]]
        /\ \A y \in Range(rrc'.q) : y.t = "data" => y.p = "setupReq"
    <3>1. e \in [assoc : Assoc, du : Dus]
      BY <2>3
    <3>2. rrc.dus \subseteq [assoc : Assoc, du : Dus]
      BY <1>6
    <3>. HIDE DEF e
    <3>3. rrc'.dus \subseteq [assoc : Assoc, du : Dus]
      BY <2>2, <3>1, <3>2
    <3>4. rrc' \in [q : Seq(Msg), dus : SUBSET [assoc : Assoc, du : Dus]]
      BY <1>2, <2>2, <3>3
    <3>. QED BY <1>2, <1>6, <2>2, <3>4
  <2>8. PendingOK(x)'
    BY <1>4, <2>1, <2>3, <2>4, <2>6 DEF PendingOK, CuEnd
  <2>. DEFINE N == {x}
  <2>9. Pending' \subseteq Pending \cup N /\ \A y \in N : PendingOK(y)'
    BY <1>2, <2>2, <2>5, <2>6, <2>8 DEF Pending
  <2>. HIDE DEF N
  <2>10. RegistryInv'
    <3>1. \A a \in Issued \ cu.cnx :
              /\ LossBehind(Append(cu.f1q, x), a)
              /\ LossBehind(rrc.q, a) => LossBehind(Tail(rrc.q), a)
      BY <1>1, <1>2, <1>5, <2>4, CuFacts, LossBehindAppend, LossBehindTail
    <3>. QED BY <1>4, <1>5, <2>2, <2>5, <2>6, <3>1 DEF RegistryInv
  <2>11. NoGhostDu'
    <3>1. ASSUME NEW k \in rrc'.dus, k.assoc \notin cu.cnx
          PROVE  M("lost", k.assoc) \in Range(cu'.f1q) \cup Range(rrc'.q)
      <4>1. CASE k \in rrc.dus
        <5>1. M("lost", k.assoc) \in Range(cu.f1q) \cup Range(rrc.q)
          BY <3>1, <4>1 DEF Rest, NoGhostDu
        <5>2. m # M("lost", k.assoc)
          BY <1>7 DEF M
        <5>. QED BY <1>2, <2>2, <2>5, <2>6, <5>1, <5>2
      <4>2. CASE k = e
        <5>1. k.assoc = m.a /\ m.a \in Issued \ cu.cnx
          BY <2>3, <3>1, <4>2
        <5>2. LossBehind(rrc.q, m.a) => M("lost", m.a) \in Range(Tail(rrc.q))
          BY <1>0, <1>1, <1>2, <1>7, LossBehindTail
        <5>. QED BY <1>5, <2>2, <2>5, <2>6, <5>1, <5>2
      <4>. QED BY <2>2, <3>1, <4>1, <4>2
    <3>. QED BY <2>6, <3>1 DEF NoGhostDu
  <2>. QED BY <1>1, <1>3, <2>6, <2>7, <2>9, <2>10, <2>11, QueueStep
<1>8. CASE m.t = "lost" /\ RrcLostConnection(m)
  <2>1. rrc'.q = Tail(rrc.q) /\ rrc'.dus = {e \in rrc.dus : e.assoc # m.a}
        /\ rrc' = [q |-> rrc'.q, dus |-> rrc'.dus] /\ cu' = cu
    BY <1>8 DEF RrcLostConnection
  <2>2. rrc' \in [q : Seq(Msg), dus : SUBSET [assoc : Assoc, du : Dus]]
        /\ \A y \in Range(rrc'.q) : y.t = "data" => y.p = "setupReq"
    BY <1>2, <1>6, <2>1
  <2>. DEFINE N == {}
  <2>3. Pending' \subseteq Pending \cup N /\ \A y \in N : PendingOK(y)'
    BY <1>2, <2>1 DEF Pending
  <2>. HIDE DEF N
  <2>4. RegistryInv'
    <3>1. \A a : LossBehind(rrc.q, a) => LossBehind(Tail(rrc.q), a)
      BY <1>1, <1>2, LossBehindTail
    <3>. QED BY <1>4, <1>5, <2>1, <3>1 DEF RegistryInv
  <2>5. NoGhostDu'
    <3>1. ASSUME NEW k \in rrc'.dus, k.assoc \notin cu.cnx
          PROVE  M("lost", k.assoc) \in Range(cu.f1q) \cup Range(rrc'.q)
      <4>1. M("lost", k.assoc) \in Range(cu.f1q) \cup Range(rrc.q) /\ k.assoc # m.a
        BY <2>1, <3>1 DEF Rest, NoGhostDu
      <4>2. m # M("lost", k.assoc)
        BY <4>1 DEF M
      <4>. QED BY <1>2, <2>1, <4>1, <4>2
    <3>. QED BY <2>1, <3>1 DEF NoGhostDu
  <2>. QED BY <1>1, <1>3, <2>1, <2>2, <2>3, <2>4, <2>5, CuFacts, QueueStep
<1>. QED BY <1>0, <1>7, <1>8 DEF RrcReceives

LEMMA CuDiesKeeps ==
    ASSUME Rest, CuDies
    PROVE  Rest'
<1>1. /\ cu' = CuOff /\ rrc' = [q |-> <<>>, dus |-> {}] /\ UNCHANGED <<du, owner>>
      /\ toCu' = [a \in Assoc |-> <<>>]
      /\ toDu' = [a \in Assoc |-> IF a <= Len(owner) /\ CuEnd(a) /\ DuEnd(a)
                                  THEN Append(toDu[a], Plain("lost")) ELSE toDu[a]]
  BY DEF CuDies
<1>2. CuOff \in CuRecord
  <2>1. <<>> \in Seq(Msg) /\ <<>> \in Seq(Assoc)
    BY RangeEmpty
  <2>. QED BY <2>1 DEF CuOff, CuStarted, CuRecord
<1>3. /\ cu'.cnx = {} /\ cu'.backlog = <<>> /\ cu'.hs = {} /\ cu'.events = {}
      /\ cu'.task = "off" /\ cu'.q = <<>> /\ cu'.f1q = <<>>
  BY <1>1 DEF CuOff, CuStarted
<1>4. rrc'.q = <<>> /\ rrc'.dus = {} /\ Range(<<>>) = {} /\ <<>> \in Seq(Msg) /\ <<>> \in Seq(Wire)
  BY <1>1, RangeEmpty
<1>5. Issued' = Issued
  BY <1>1 DEF Issued
<1>6. EndsInv'
  <2>1. Distinct(<<>>)
    BY DEF Distinct
  <2>. QED BY <1>1, <1>3, <1>4, <1>5, <2>1 DEF Rest, EndsInv
<1>7. CuInv'
  BY <1>1, <1>2, <1>3 DEF CuInv
<1>8. PendingInv'
  <2>1. Pending' = {}
    BY <1>3, <1>4 DEF Pending
  <2>. QED BY <1>1, <1>4, <2>1 DEF PendingInv
<1>9. WireInv' /\ F1apProtected'
  <2>1. \A b : ~CuEnd(b)' /\ ~CuUp(b)'
    BY <1>3, <1>4 DEF CuEnd, CuUp
  <2>2. Plain("lost") \in Wire /\ Plain("lost").t = "lost"
    BY DEF Plain, Wire
  <2>3. ASSUME NEW b \in Assoc
        PROVE  toDu'[b] \in Seq(Wire) /\ Range(toDu'[b]) \subseteq Range(toDu[b]) \cup {Plain("lost")}
    <3>1. toDu[b] \in Seq(Wire)
      BY CuFacts
    <3>2. /\ Append(toDu[b], Plain("lost")) \in Seq(Wire)
          /\ Range(Append(toDu[b], Plain("lost"))) = Range(toDu[b]) \cup {Plain("lost")}
      BY <2>2, <3>1, RangeAppend
    <3>. QED BY <1>1, <3>1, <3>2
  <2>4. toDu' \in [Assoc -> Seq(Wire)] /\ toCu' \in [Assoc -> Seq(Wire)]
        /\ \A b \in Assoc : Range(toCu'[b]) = {}
    BY <1>1, <1>4, <2>3
  <2>. QED BY <1>1, <1>3, <2>1, <2>2, <2>3, <2>4, WireStays
<1>10. RegistryInv'
  <2>1. \A a : LossBehind(<<>>, a)
    BY DEF LossBehind
  <2>. QED BY <1>3, <1>4, <2>1 DEF RegistryInv
<1>11. NoGhostDu'
  BY <1>4 DEF NoGhostDu
<1>12. UndefinedOnlyIfPeerFails'
  BY <1>3, <1>4 DEF UndefinedOnlyIfPeerFails, CuUp, CuEnd
<1>. QED BY <1>6, <1>7, <1>8, <1>9, <1>10, <1>11, <1>12 DEF Rest

LEMMA CuStartsKeeps ==
    ASSUME Rest, CuStarts
    PROVE  Rest'
<1>1. /\ cu' = CuStarted /\ UNCHANGED <<du, rrc, owner, toCu, toDu>>
      /\ cu = CuOff /\ rrc = [q |-> <<>>, dus |-> {}]
  BY DEF CuStarts, Rest, CuInv
<1>. DEFINE i == M("init", None)
<1>2. i \in Msg /\ i.t = "init" /\ <<i>> \in Seq(Msg) /\ Range(<<i>>) = {i}
  <2>1. i \in Msg /\ i.t = "init"
    BY Messages
  <2>2. Range(<<i>>) = {i}
    BY DEF Range
  <2>. QED BY <2>1, <2>2
<1>3. /\ cu'.cnx = {} /\ cu'.backlog = <<>> /\ cu'.hs = {} /\ cu'.events = {}
      /\ cu'.task = "loop" /\ cu'.q = <<i>> /\ cu'.f1q = <<>>
      /\ cu.cnx = {} /\ cu.backlog = <<>>
  BY <1>1 DEF CuStarted, CuOff
<1>. HIDE DEF i
<1>4. cu' \in CuRecord
  BY <1>1, <1>2 DEF CuStarted, CuRecord, None, i
<1>5. EndsInv' /\ WireInv' /\ F1apProtected'
  <2>1. StillRefused
    BY <1>1 DEF StillRefused, CuOff
  <2>. QED BY <1>1, <1>3, <2>1, SameSockets
<1>6. CuInv'
  BY <1>3, <1>4 DEF CuInv
<1>7. PendingInv'
  <2>1. Pending' = {i}
    BY <1>1, <1>2, <1>3, RangeEmpty DEF Pending
  <2>2. PendingOK(i)'
    BY <1>2 DEF PendingOK
  <2>. QED BY <1>1, <2>1, <2>2, RangeEmpty DEF Rest, PendingInv
<1>8. RegistryInv' /\ NoGhostDu'
  <2>1. \A a : LossBehind(<<>>, a)
    BY DEF LossBehind
  <2>. QED BY <1>1, <1>3, <2>1 DEF RegistryInv, NoGhostDu
<1>9. UndefinedOnlyIfPeerFails'
  BY <1>3, RangeEmpty DEF UndefinedOnlyIfPeerFails, CuUp, CuEnd
<1>. QED BY <1>5, <1>6, <1>7, <1>8, <1>9 DEF Rest

-----------------------------------------------------------------------------
(* The whole.                                                              *)
LEMMA InitOK == Init => IInv
<1>. SUFFICES ASSUME Init PROVE IInv
  OBVIOUS
<1>. DEFINE i == M("init", None)
<1>1. i \in Msg /\ i.t = "init" /\ <<i>> \in Seq(Msg) /\ Range(<<i>>) = {i}
  <2>1. i \in Msg /\ i.t = "init"
    BY Messages
  <2>2. Range(<<i>>) = {i}
    BY DEF Range
  <2>. QED BY <2>1, <2>2
<1>2. /\ cu.cnx = {} /\ cu.backlog = <<>> /\ cu.hs = {} /\ cu.events = {}
      /\ cu.task = "loop" /\ cu.q = <<i>> /\ cu.f1q = <<>>
  BY DEF Init, CuStarted
<1>3. cu \in CuRecord
  BY <1>1 DEF Init, CuStarted, CuRecord
<1>. HIDE DEF i
<1>4. /\ Range(<<>>) = {} /\ <<>> \in Seq(Msg) /\ <<>> \in Seq(Wire)
      /\ <<>> \in Seq(Dus) /\ Len(<<>>) = 0 /\ Distinct(<<>>)
      /\ \A a : LossBehind(<<>>, a)
  BY RangeEmpty DEF Distinct, LossBehind
<1>5. DuInv /\ \A d \in Dus : du[d].cnx = None /\ du[d].task = "loop"
  <2>1. \A d \in Dus : du[d] = DuStarted
    BY DEF Init
  <2>2. du \in [Dus -> DuRecord]
    BY StartedIsOK DEF Init, DuOK
  <2>3. DuStarted.cnx = None /\ DuStarted.task = "loop"
    BY DEF DuStarted
  <2>. QED BY <2>1, <2>2, <2>3, StartedIsOK DEF DuInv
<1>6. Issued = {}
  BY <1>4 DEF Init, Issued
<1>7. EndsInv
  BY <1>2, <1>4, <1>5, F1Assumption DEF EndsInv, Init
<1>8. CuInv
  BY <1>2, <1>3 DEF CuInv
<1>9. PendingInv
  <2>1. Pending = {i} /\ rrc = [q |-> <<>>, dus |-> {}]
    BY <1>1, <1>2, <1>4 DEF Pending, Init
  <2>2. PendingOK(i)
    BY <1>1 DEF PendingOK
  <2>. QED BY <1>4, <2>1, <2>2 DEF PendingInv
<1>10. /\ toCu \in [Assoc -> Seq(Wire)] /\ toDu \in [Assoc -> Seq(Wire)]
       /\ \A a \in Assoc : Range(toCu[a]) = {} /\ Range(toDu[a]) = {}
  BY <1>4 DEF Init
<1>11. WireInv /\ RegistryInv /\ F1apProtected
  BY <1>2, <1>6, <1>10 DEF WireInv, RegistryInv, F1apProtected
<1>12. NoGhostDu /\ UndefinedOnlyIfPeerFails
  BY <1>2, <1>5 DEF Init, NoGhostDu, UndefinedOnlyIfPeerFails
<1>13. faults \in 0..MaxFaults
  BY F1Assumption DEF Init
<1>. QED BY <1>5, <1>7, <1>8, <1>9, <1>11, <1>12, <1>13 DEF IInv

LEMMA FaultsCounted ==
    ASSUME faults \in 0..MaxFaults, [Next]_vars
    PROVE  faults' \in 0..MaxFaults
<1>1. faults' = faults \/ (faults < MaxFaults /\ faults' = faults + 1)
  BY ZenonT(60) DEF Next, vars, DuSctp, DuF1, CuSctp, DuNewAssociationReq, DuSslDoHandshake,
         DuHandshakeReads, DuSendData, DuReadFromSocket, DuF1Receives,
         DuF1AsksHandshake, DuF1SendsSetupRequest, DuF1Retries, DuSetupFailure,
         DuStarts, DuDies, DuLosesPower, May, DuNewAssociationReqFails, DuHandshakeFails,
         CuCreateNewListener, CuPoll, CuAccept, CuReadFromSocket,
         CuSslDoHandshake, CuHandshakeReads, CuSendData, CuAcceptFails,
         CuHandshakeFails, CuF1Receives, RrcReceives, CuDies, CuStarts, CuNoticesLoss
<1>. QED BY <1>1, F1Assumption

LEMMA Invariance == IInv /\ [Next]_vars => IInv'
<1>. SUFFICES ASSUME IInv, [Next]_vars PROVE IInv'
  OBVIOUS
<1>1. DuInv /\ Rest /\ toDu \in [Assoc -> Seq(Wire)] /\ EndsInv /\ WireInv
  BY DEF IInv, Rest, WireInv
<1>2. faults' \in 0..MaxFaults
  BY FaultsCounted DEF IInv
<1>3. SUFFICES DuInv' /\ Rest'
  BY <1>2 DEF IInv, Rest
(* The steps of a DU.                                                      *)
<1>4. ASSUME NEW d \in Dus, DuNewAssociationReq(d) \/ DuNewAssociationReqFails(d)
      PROVE  DuInv' /\ Rest'
  <2>1. DuInv'
    BY <1>1, <1>4, DuNewAssociationReqKeeps
  <2>2. CASE DuNewAssociationReq(d) /\ cu.listening
    BY <1>1, <2>1, <2>2, NewAssociationKeepsRest
  <2>3. CASE ~(DuNewAssociationReq(d) /\ cu.listening)
    <3>1. DuStep(d)
      BY <1>1, <1>4, <2>3, DuF1IsStep
    <3>. QED BY <1>1, <2>1, <3>1, DuStepKeepsRest
  <2>. QED BY <2>1, <2>2, <2>3
<1>5. ASSUME NEW d \in Dus, \/ DuSslDoHandshake(d) \/ DuHandshakeReads(d)
                            \/ DuHandshakeFails(d) \/ DuSendData(d) \/ DuReadFromSocket(d)
      PROVE  DuInv' /\ Rest'
  <2>1. DuInv'
    BY <1>1, <1>5, DuSslDoHandshakeKeeps, DuHandshakeReadsKeeps, DuSendDataKeeps,
       DuHandshakeFailsKeeps, DuReadFromSocketKeeps
  <2>2. DuStep(d)
    BY <1>1, <1>5, DuSctpIsStep
  <2>. QED BY <1>1, <2>1, <2>2, DuStepKeepsRest
<1>6. ASSUME NEW d \in Dus, \/ DuF1Receives(d) \/ DuF1AsksHandshake(d)
                            \/ DuF1SendsSetupRequest(d) \/ DuF1Retries(d) \/ DuStarts(d)
      PROVE  DuInv' /\ Rest'
  <2>1. DuInv'
    BY <1>1, <1>6, DuF1ReceivesKeeps, DuF1AsksHandshakeKeeps,
       DuF1SendsSetupRequestKeeps, DuF1RetriesKeeps, DuRestartKeeps
  <2>2. DuStep(d)
    BY <1>1, <1>6, DuF1IsStep
  <2>. QED BY <1>1, <2>1, <2>2, DuStepKeepsRest
<1>7. ASSUME NEW d \in Dus, DuDies(d) \/ DuLosesPower(d) \/ DuSetupFailure(d)
      PROVE  DuInv' /\ Rest'
  <2>1. PICK b \in BOOLEAN : DuGone(d, b)
    BY <1>7 DEF DuDies, DuLosesPower, DuSetupFailure
  <2>2. DuInv'
    BY <1>1, <2>1, DuRestartKeeps
  <2>3. DuStep(d)
    BY <1>1, <2>1, DuGoneIsStep
  <2>. QED BY <1>1, <2>2, <2>3, DuStepKeepsRest
(* The steps of the CU.                                                    *)
<1>8. ASSUME \/ CuSctp \/ CuAcceptFails \/ CuHandshakeFails \/ CuF1Receives \/ RrcReceives
             \/ CuDies \/ CuStarts \/ CuNoticesLoss
      PROVE  DuInv' /\ Rest'
  <2>1. UNCHANGED du
    BY <1>8 DEF CuSctp, CuCreateNewListener, CuPoll, CuAccept, CuReadFromSocket,
                CuSslDoHandshake, CuHandshakeReads, CuSendData, CuAcceptFails,
                CuHandshakeFails, CuF1Receives, RrcReceives, CuDies, CuStarts, CuNoticesLoss
  <2>2. DuInv'
    BY <1>1, <2>1 DEF DuInv
  <2>3. Rest'
    BY <1>1, <1>8, CuCreateNewListenerKeeps, CuPollKeeps, CuAcceptKeeps,
       CuReadFromSocketKeeps, CuSslDoHandshakeKeeps, CuHandshakeReadsKeeps,
       CuSendDataKeeps, CuAcceptFailsKeeps, CuHandshakeFailsKeeps,
       CuF1ReceivesKeeps, RrcReceivesKeeps,
       CuDiesKeeps, CuStartsKeeps, CuNoticesLossKeeps DEF CuSctp
  <2>. QED BY <2>2, <2>3
<1>9. CASE UNCHANGED vars
  BY <1>1, <1>9 DEF vars, DuInv, Rest, EndsInv, Issued, CuInv, PendingInv, PendingOK,
     Pending, WireInv, RegistryInv, F1apProtected, NoGhostDu, UndefinedOnlyIfPeerFails,
     CuEnd, DuEnd, CuUp, DuUp
<1>. QED BY <1>4, <1>5, <1>6, <1>7, <1>8, <1>9 DEF Next, DuSctp, DuF1

LEMMA IInvType == IInv => TypeOK
<1>. SUFFICES ASSUME IInv PROVE TypeOK
  OBVIOUS
<1>1. cu \in CuRecord /\ cu.hs \subseteq cu.cnx
  BY DEF IInv, CuInv
<1>. QED BY <1>1 DEF IInv, TypeOK, DuInv, DuRecord, CuRecord, EndsInv, PendingInv, WireInv

(* The inductive invariant holds in every state of every behaviour.        *)
THEOREM BringupInvariant == Spec => []IInv
BY InitOK, Invariance, PTL DEF Spec

(* Type correctness of the tasks, queues and sockets, whatever the number  *)
(* of DUs, associations and faults.                                        *)
THEOREM TypeCorrect == Spec => []TypeOK
BY BringupInvariant, IInvType, PTL

(* sctp_send_data never puts an F1AP PDU on the wire in clear, on either   *)
(* side, however the processes die and are started again: the request for  *)
(* the handshake is ahead of every request to send on the association, and *)
(* on the CU's side an answer is only sent where a request came in.        *)
THEOREM F1apAlwaysProtected == Spec => []F1apProtected
<1>1. IInv => F1apProtected
  BY DEF IInv
<1>. QED BY <1>1, BringupInvariant, PTL

(* rrc_CU_process_f1_lost_connection will be called for every DU that is   *)
(* registered on an association that TASK_SCTP does not have any more: the *)
(* registry never keeps a DU that the CU is not about to be told the loss  *)
(* of.                                                                     *)
THEOREM NoGhost == Spec => []NoGhostDu
<1>1. IInv => NoGhostDu
  BY DEF IInv
<1>. QED BY <1>1, BringupInvariant, PTL

(* The handler of SCTP_SSL_DO_HANDSHAKE, on either side, follows a null or *)
(* a freed pointer of its own only where the other end of the association  *)
(* is gone or has refused the handshake.                                   *)
THEOREM UndefinedOnlyThen == Spec => []UndefinedOnlyIfPeerFails
<1>1. IInv => UndefinedOnlyIfPeerFails
  BY DEF IInv
<1>. QED BY <1>1, BringupInvariant, PTL

-----------------------------------------------------------------------------
(* One DU, and a CU that gets its work done while the DU sleeps.           *)

Has(q, t) == \E m \in Range(q) : m.t = t
Once(q, t) == \A i, j \in 1..Len(q) : q[i].t = t /\ q[j].t = t => i = j

(* The DU asks for one handshake on its association: COMM_UP in the socket *)
(* (w), NEW_ASSOCIATION_RESP in TASK_DU_F1's queue, the sleep, the request *)
(* in TASK_SCTP's queue and the hello that is out follow one another.      *)
Past(r) == r.task \in {"flight", "refused", "undefined"} \/ r.hs
OneHello(r, w) ==
    /\ Once(w, "commUp") /\ Once(r.f1q, "established") /\ Once(r.q, "handshake")
    /\ Has(w, "commUp") => ~Has(r.f1q, "established")
    /\ Has(w, "commUp") \/ Has(r.f1q, "established") => r.f1 # "sleep1"
    /\ Has(w, "commUp") \/ Has(r.f1q, "established") \/ r.f1 = "sleep1" =>
           ~Has(r.q, "handshake")
    /\ Has(w, "commUp") \/ Has(r.f1q, "established") \/ r.f1 = "sleep1"
           \/ Has(r.q, "handshake") => ~Past(r)

(* The CU is in the handshake of a; the CU is in a handshake that it never *)
(* leaves, or has left it by following a freed pointer.                    *)
At(t, a) == cu.task = t /\ cu.at = a
Stuck(d) ==
    \/ cu.task \in {"refused", "undefined"}
    \/ /\ cu.task \in {"hello", "finished"} /\ du[d].cnx # cu.at
       /\ \A m \in Range(toCu[cu.at]) : m.t = "lost"

(* The two ends of the DU's association: the CU waits for the hello before *)
(* the DU is asked to send it.                                             *)
InStep(d) ==
    LET r == du[d]
        c == du[d].cnx
    IN /\ Has(r.q, "handshake") => Stuck(d) \/ At("hello", c)
       /\ r.hs => Stuck(d) \/ At("finished", c) \/ c \in cu.hs
       /\ c \in cu.hs \/ At("finished", c) \/ Has(toCu[c], "hello")
             \/ Has(toDu[c], "flight") => Past(r)
       /\ Has(toDu[c], "flight") =>
             (Stuck(d) \/ At("finished", c)) /\ ~Has(toCu[c], "finished")
       /\ Once(toDu[c], "flight")

(* A socket of the CU: flights are only there for a handshake that reads   *)
(* them, F1AP only where the handshake is done or about to be.             *)
SocketOK(d, a) ==
    /\ Once(toCu[a], "hello") /\ Once(toCu[a], "finished")
    /\ Has(toCu[a], "hello") => Stuck(d) \/ At("hello", a)
    /\ Has(toCu[a], "finished") \/ Has(toCu[a], "alert") => Stuck(d) \/ At("finished", a)
    /\ Has(toCu[a], "finished") => ~Has(toCu[a], "alert")
    /\ Has(toCu[a], "setupReq") => Stuck(d) \/ At("finished", a) \/ a \in cu.hs
    /\ \A m \in Range(toCu[a]) :
          m.t \in {"commUp", "lost", "hello", "finished", "alert", "setupReq"}

(* The CU has not forgotten the handshake of a connection.                 *)
DueAt(a) ==
    \/ Has(toCu[a], "commUp") \/ M("established", a) \in Range(cu.f1q)
    \/ M("handshake", a) \in Range(cu.q)
    \/ At("hello", a) \/ At("finished", a) \/ a \in cu.hs \/ cu.task \in {"refused", "undefined"}

HelloInv(d) == du[d].cnx # None => OneHello(du[d], toDu[du[d].cnx])
StepInv(d) == du[d].cnx # None /\ CuEnd(du[d].cnx) => InStep(d)
SocketInv(d) == \A a \in Assoc : CuEnd(a) => SocketOK(d, a)
DueInv == \A a \in Assoc : CuEnd(a) => DueAt(a)
SendsInv(d) == \A m \in Range(du[d].q) : m.t = "send" => m.p = "setupReq"
FirstInv(d) == /\ HelloInv(d) /\ StepInv(d) /\ SocketInv(d) /\ DueInv /\ SendsInv(d)
               /\ FirstDataIsSetupRequest

LEMMA HasEmpty == \A t : ~Has(<<>>, t) /\ Once(<<>>, t)
BY RangeEmpty DEF Has, Once

LEMMA HasAppend ==
    ASSUME NEW S, NEW q \in Seq(S), NEW m, NEW t
    PROVE  /\ Has(Append(q, m), t) <=> Has(q, t) \/ m.t = t
           /\ Once(q, t) /\ ~(Has(q, t) /\ m.t = t) => Once(Append(q, m), t)
<1>1. Has(Append(q, m), t) <=> Has(q, t) \/ m.t = t
  BY RangeAppend DEF Has
<1>2. ASSUME Once(q, t), ~(Has(q, t) /\ m.t = t) PROVE Once(Append(q, m), t)
  <2>1. \A n \in 1..Len(q) : q[n].t = t => m.t # t
    BY <1>2, InRange DEF Has
  <2>. QED BY <1>2, <2>1, AppendIndex DEF Once
<1>. QED BY <1>1, <1>2

LEMMA HasTail ==
    ASSUME NEW S, NEW q \in Seq(S), q # <<>>, NEW t
    PROVE  /\ Has(q, t) <=> Has(Tail(q), t) \/ Head(q).t = t
           /\ Once(q, t) => /\ Once(Tail(q), t)
                            /\ Head(q).t = t => ~Has(Tail(q), t)
<1>1. Has(q, t) <=> Has(Tail(q), t) \/ Head(q).t = t
  BY RangeTail DEF Has
<1>. DEFINE p == Tail(q)
<1>2. /\ Len(q) \in Nat \ {0} /\ Len(p) = Len(q) - 1 /\ Head(q) = q[1]
      /\ \A n \in 1..(Len(q) - 1) : p[n] = q[n + 1]
      /\ p \in Seq(S)
  BY TailIndex
<1>. HIDE DEF p
<1>3. ASSUME Once(q, t) PROVE Once(p, t)
  <2>1. ASSUME NEW i \in 1..Len(p), NEW j \in 1..Len(p), p[i].t = t, p[j].t = t
        PROVE  i = j
    <3>1. /\ i + 1 \in 1..Len(q) /\ j + 1 \in 1..Len(q) /\ i \in Int /\ j \in Int
          /\ q[i + 1].t = t /\ q[j + 1].t = t
      BY <1>2, <2>1
    <3>2. i + 1 = j + 1
      BY <1>3, <3>1 DEF Once
    <3>. QED BY <3>1, <3>2
  <2>. QED BY <2>1 DEF Once
<1>4. ASSUME Once(q, t), Head(q).t = t, Has(p, t) PROVE FALSE
  <2>1. PICK i \in 1..Len(p) : p[i].t = t
    BY <1>2, <1>4, InRange DEF Has
  <2>2. /\ i + 1 \in 1..Len(q) /\ q[i + 1].t = t /\ 1 \in 1..Len(q) /\ q[1].t = t
        /\ i + 1 # 1
    BY <1>2, <1>4, <2>1
  <2>. QED BY <1>4, <2>2 DEF Once
<1>. QED BY <1>1, <1>3, <1>4 DEF p

(* With one DU, the DU's end of an association is that DU's.               *)
LEMMA OnlyDu ==
    ASSUME NEW d, Dus = {d}, DuInv, Rest
    PROVE  /\ d \in Dus /\ DuOK(du[d]) /\ du[d] \in DuRecord
           /\ du[d].q \in Seq(Msg) /\ du[d].f1q \in Seq(Msg)
           /\ du[d].cnx # None => du[d].cnx \in Issued /\ du[d].cnx \in Assoc
           /\ \A a \in Issued : DuEnd(a) <=> du[d].cnx = a
           /\ \A a : CuEnd(a) => a \in Issued /\ a \in Assoc /\ a # None
<1>1. d \in Dus /\ DuOK(du[d]) /\ du[d] \in DuRecord
  BY DuFacts
<1>2. du[d].q \in Seq(Msg) /\ du[d].f1q \in Seq(Msg)
  BY <1>1 DEF DuRecord
<1>3. \A a \in Issued : owner[a] = d
  BY CuFacts
<1>4. \A a : CuEnd(a) => a \in Issued /\ a \in Assoc /\ a # None
  BY CuFacts DEF CuEnd, Rest, EndsInv
<1>5. du[d].cnx # None => du[d].cnx \in Issued /\ du[d].cnx \in Assoc
  BY <1>1, CuFacts DEF Rest, EndsInv
<1>. QED BY <1>1, <1>2, <1>3, <1>4, <1>5 DEF DuEnd

(* The DU has no association any more: what may be left of it is its loss. *)
LEMMA DuLeaves ==
    ASSUME NEW d, Dus = {d}, DuInv, Rest, FirstInv(d), cu' = cu,
           du'[d].cnx = None, SendsInv(d)',
           \/ toCu' = toCu
           \/ /\ du[d].cnx # None
              /\ toCu' = [toCu EXCEPT ![du[d].cnx] = Append(@, Plain("lost"))]
    PROVE  FirstInv(d)'
<1>. DEFINE w == Plain("lost")
<1>1. w.t = "lost"
  BY DEF Plain
<1>. HIDE DEF w
<1>2. toCu \in [Assoc -> Seq(Wire)] /\ \A a : CuEnd(a) => a \in Assoc /\ a # None
  BY OnlyDu, CuFacts
<1>3. ASSUME NEW a \in Assoc
      PROVE  toCu'[a] \in {toCu[a], Append(toCu[a], w)} /\ toCu[a] \in Seq(Wire)
  BY <1>2 DEF w
<1>4. ASSUME NEW a \in Assoc, NEW t \in {"hello", "finished", "alert", "setupReq", "commUp"}
      PROVE  (Has(toCu'[a], t) <=> Has(toCu[a], t)) /\ (Once(toCu[a], t) => Once(toCu'[a], t))
  <2>1. /\ Has(Append(toCu[a], w), t) <=> Has(toCu[a], t)
        /\ Once(toCu[a], t) => Once(Append(toCu[a], w), t)
    BY <1>1, <1>3, HasAppend
  <2>. QED BY <1>3, <2>1
<1>5. ASSUME NEW a \in Assoc PROVE \A m \in Range(toCu'[a]) : m \in Range(toCu[a]) \/ m.t = "lost"
  <2>1. Range(Append(toCu[a], w)) = Range(toCu[a]) \cup {w}
    BY <1>3, RangeAppend
  <2>. QED BY <1>1, <1>3, <2>1
<1>6. \A a : CuEnd(a)' <=> CuEnd(a)
  BY DEF CuEnd
<1>7. \A t, a : At(t, a)' <=> At(t, a)
  BY DEF At
<1>8. Stuck(d) => Stuck(d)'
  <2>1. cu.task \in {"hello", "finished"} => cu.at \in Assoc /\ cu.at # None
    BY <1>2 DEF Rest, CuInv, CuEnd
  <2>. QED BY <1>5, <2>1 DEF Stuck
<1>9. SocketInv(d)'
  <2>1. ASSUME NEW a \in Assoc, CuEnd(a) PROVE SocketOK(d, a)'
    <3>1. SocketOK(d, a)
      BY <2>1 DEF FirstInv, SocketInv
    <3>. QED BY <1>4, <1>5, <1>7, <1>8, <3>1 DEF SocketOK
  <2>. QED BY <1>6, <2>1 DEF SocketInv
<1>10. DueInv'
  BY <1>4, <1>6, <1>7 DEF FirstInv, DueInv, DueAt
<1>11. HelloInv(d)' /\ StepInv(d)' /\ FirstDataIsSetupRequest'
  BY DEF HelloInv, StepInv, FirstInv, FirstDataIsSetupRequest
<1>. QED BY <1>9, <1>10, <1>11 DEF FirstInv

(* The DU does something that the CU does not see.                         *)
LEMMA DuQuiet ==
    ASSUME NEW d, Dus = {d}, DuInv, Rest, FirstInv(d), cu' = cu, toCu' = toCu,
           du'[d].cnx = du[d].cnx, du'[d].hs = du[d].hs, du'[d].task = du[d].task,
           HelloInv(d)', SendsInv(d)',
           du[d].cnx # None =>
              LET c == du[d].cnx IN
              /\ Has(du'[d].q, "handshake") =>
                    Has(du[d].q, "handshake") \/ ~CuEnd(c) \/ Stuck(d) \/ At("hello", c)
              /\ Has(toDu'[c], "flight") => Has(toDu[c], "flight")
              /\ Once(toDu[c], "flight") => Once(toDu'[c], "flight")
    PROVE  FirstInv(d)'
<1>1. \A a : CuEnd(a)' <=> CuEnd(a)
  BY DEF CuEnd
<1>2. \A t, a : At(t, a)' <=> At(t, a)
  BY DEF At
<1>3. Stuck(d)' <=> Stuck(d)
  BY DEF Stuck
<1>4. SocketInv(d)' /\ DueInv'
  BY <1>1, <1>2, <1>3 DEF FirstInv, SocketInv, SocketOK, DueInv, DueAt
<1>5. Past(du[d]) => Past(du'[d])
  BY DEF Past
<1>6. StepInv(d)'
  <2>1. SUFFICES ASSUME du[d].cnx # None, CuEnd(du[d].cnx) PROVE InStep(d)'
    BY <1>1 DEF StepInv
  <2>2. InStep(d)
    BY <2>1 DEF FirstInv, StepInv
  <2>. QED BY <1>2, <1>3, <1>5, <2>1, <2>2 DEF InStep
<1>7. FirstDataIsSetupRequest'
  BY DEF FirstInv, FirstDataIsSetupRequest
<1>. QED BY <1>4, <1>6, <1>7 DEF FirstInv

LEMMA FirstDuF1Receives ==
    ASSUME NEW d, Dus = {d}, DuInv, Rest, FirstInv(d), DuF1Receives(d)
    PROVE  FirstInv(d)'
<1>. DEFINE r == du[d]
            n == du'[d]
            m == Head(r.f1q)
<1>1. /\ d \in Dus /\ r \in DuRecord /\ r.f1q \in Seq(Msg) /\ r.q \in Seq(Msg)
      /\ du \in [Dus -> DuRecord]
  BY OnlyDu DEF DuInv
<1>2. r.f1 = "idle" /\ r.f1q # <<>> /\ UNCHANGED <<cu, toCu, toDu>>
  BY DEF DuF1Receives
<1>3. /\ n.f1q = Tail(r.f1q) /\ n.q = r.q /\ n.cnx = r.cnx /\ n.hs = r.hs /\ n.task = r.task
      /\ n.f1 = "sleep1" => m.t = "established"
  BY <1>1 DEF DuF1Receives, DuRecord
<1>4. /\ \A t : Has(r.f1q, t) <=> Has(Tail(r.f1q), t) \/ m.t = t
      /\ \A t : Once(r.f1q, t) => Once(Tail(r.f1q), t) /\ (m.t = t => ~Has(Tail(r.f1q), t))
  BY <1>1, <1>2, HasTail
<1>. HIDE DEF r, n, m
<1>5. HelloInv(d)'
  <2>1. SUFFICES ASSUME r.cnx # None PROVE OneHello(n, toDu[r.cnx])
    BY <1>2, <1>3 DEF HelloInv, n, r
  <2>2. OneHello(r, toDu[r.cnx])
    BY <2>1 DEF FirstInv, HelloInv, r
  <2>3. Past(n) <=> Past(r)
    BY <1>3 DEF Past
  <2>. QED BY <1>2, <1>3, <1>4, <2>2, <2>3 DEF OneHello
<1>6. SendsInv(d)'
  BY <1>3 DEF FirstInv, SendsInv, n, r
<1>. QED BY <1>2, <1>3, <1>5, <1>6, DuQuiet DEF n, r

LEMMA FirstDuF1SendsSetupRequest ==
    ASSUME NEW d, Dus = {d}, DuInv, Rest, FirstInv(d), DuF1SendsSetupRequest(d)
    PROVE  FirstInv(d)'
<1>. DEFINE r == du[d]
            n == du'[d]
            x == [t |-> "send", a |-> r.assoc, p |-> "setupReq"]
<1>1. /\ d \in Dus /\ r \in DuRecord /\ r.f1q \in Seq(Msg) /\ r.q \in Seq(Msg)
      /\ du \in [Dus -> DuRecord]
  BY OnlyDu DEF DuInv
<1>2. r.f1 = "sleep2" /\ UNCHANGED <<cu, toCu, toDu>>
  BY DEF DuF1SendsSetupRequest
<1>3. /\ n.f1q = r.f1q /\ n.q = Append(r.q, x) /\ n.cnx = r.cnx /\ n.hs = r.hs
      /\ n.task = r.task /\ n.f1 = "idle" /\ x.t = "send" /\ x.p = "setupReq"
  BY <1>1 DEF DuF1SendsSetupRequest, Sctp, DuRecord
<1>. HIDE DEF r, n, x
<1>4. /\ Has(n.q, "handshake") <=> Has(r.q, "handshake")
      /\ Once(r.q, "handshake") => Once(n.q, "handshake")
  BY <1>1, <1>3, HasAppend
<1>5. HelloInv(d)'
  <2>1. SUFFICES ASSUME r.cnx # None PROVE OneHello(n, toDu[r.cnx])
    BY <1>2, <1>3 DEF HelloInv, n, r
  <2>2. OneHello(r, toDu[r.cnx])
    BY <2>1 DEF FirstInv, HelloInv, r
  <2>3. Past(n) <=> Past(r)
    BY <1>3 DEF Past
  <2>. QED BY <1>2, <1>3, <1>4, <2>2, <2>3 DEF OneHello
<1>6. SendsInv(d)'
  <2>1. Range(n.q) = Range(r.q) \cup {x}
    BY <1>1, <1>3, RangeAppend
  <2>. QED BY <1>3, <2>1 DEF FirstInv, SendsInv, n, r
<1>. QED BY <1>2, <1>3, <1>4, <1>5, <1>6, DuQuiet DEF n, r

(* TASK_DU_F1 wakes up when the CU has nothing left to do: it is in the    *)
(* handshake of this association, or in one that it does not leave.        *)
LEMMA CuIsWaiting ==
    ASSUME NEW d, Dus = {d}, DuInv, Rest, FirstInv(d), ~CuReady,
           NEW c, c = du[d].cnx, c # None, CuEnd(c), du[d].f1 = "sleep1"
    PROVE  Stuck(d) \/ At("hello", c)
<1>1. ~Past(du[d])
  BY DEF FirstInv, HelloInv, OneHello
<1>2. InStep(d) /\ DueAt(c) /\ c \in Assoc
  BY OnlyDu DEF FirstInv, StepInv, DueInv
<1>3. c \notin cu.hs /\ ~At("finished", c)
  BY <1>1, <1>2 DEF InStep
<1>4. cu.f1q = <<>> /\ M("established", c) \notin Range(cu.f1q)
  BY RangeEmpty DEF CuReady
<1>5. CASE cu.task = "loop"
  <2>1. cu.q = <<>> /\ cu.backlog = <<>> /\ \A a \in cu.cnx : toCu[a] = <<>>
    BY <1>5 DEF CuReady
  <2>2. c \in cu.cnx /\ toCu[c] = <<>>
    BY <2>1, RangeEmpty DEF CuEnd
  <2>. QED BY <1>2, <1>3, <1>4, <1>5, <2>1, <2>2, RangeEmpty, HasEmpty DEF DueAt, At
<1>6. CASE cu.task \in {"hello", "finished"}
  <2>1. toCu[cu.at] = <<>>
    BY <1>6 DEF CuReady
  <2>2. CASE cu.at = c
    BY <1>3, <1>6, <2>2 DEF At
  <2>3. CASE cu.at # c
    BY <1>6, <2>1, <2>3, RangeEmpty DEF Stuck
  <2>. QED BY <2>2, <2>3
<1>7. cu.task # "off"
  BY RangeEmpty DEF CuOff, CuStarted, CuEnd, Rest, CuInv
<1>8. cu.task \in {"loop", "hello", "finished", "refused", "undefined", "off"}
  BY CuFacts DEF CuRecord
<1>. QED BY <1>5, <1>6, <1>7, <1>8 DEF Stuck

LEMMA FirstDuF1AsksHandshake ==
    ASSUME NEW d, Dus = {d}, Timely, DuInv, Rest, FirstInv(d), DuF1AsksHandshake(d)
    PROVE  FirstInv(d)'
<1>. DEFINE r == du[d]
            n == du'[d]
            x == M("handshake", r.assoc)
<1>1. /\ d \in Dus /\ r \in DuRecord /\ r.f1q \in Seq(Msg) /\ r.q \in Seq(Msg)
      /\ du \in [Dus -> DuRecord]
  BY OnlyDu DEF DuInv
<1>2. r.f1 = "sleep1" /\ ~CuReady /\ UNCHANGED <<cu, toCu, toDu>>
  BY DEF DuF1AsksHandshake
<1>3. /\ n.f1q = r.f1q /\ n.q = Append(r.q, x) /\ n.cnx = r.cnx /\ n.hs = r.hs
      /\ n.task = r.task /\ n.f1 = "sleep2" /\ x.t = "handshake"
  BY <1>1 DEF DuF1AsksHandshake, Sctp, DuRecord, M
<1>. HIDE DEF r, n, x
<1>4. Once(r.q, "handshake") /\ ~Has(r.q, "handshake") => Once(n.q, "handshake")
  BY <1>1, <1>3, HasAppend
<1>5. HelloInv(d)'
  <2>1. SUFFICES ASSUME r.cnx # None PROVE OneHello(n, toDu[r.cnx])
    BY <1>2, <1>3 DEF HelloInv, n, r
  <2>2. OneHello(r, toDu[r.cnx])
    BY <2>1 DEF FirstInv, HelloInv, r
  <2>3. Past(n) <=> Past(r)
    BY <1>3 DEF Past
  <2>. QED BY <1>2, <1>3, <1>4, <2>2, <2>3 DEF OneHello
<1>6. SendsInv(d)'
  <2>1. Range(n.q) = Range(r.q) \cup {x}
    BY <1>1, <1>3, RangeAppend
  <2>. QED BY <1>3, <2>1 DEF FirstInv, SendsInv, n, r
<1>7. r.cnx # None /\ CuEnd(r.cnx) => Stuck(d) \/ At("hello", r.cnx)
  BY <1>2, CuIsWaiting DEF r
<1>. QED BY <1>2, <1>3, <1>5, <1>6, <1>7, DuQuiet DEF n, r

(* Steps without an association, and the steps that end it.                *)
LEMMA FirstDuF1Retries ==
    ASSUME NEW d, Dus = {d}, DuInv, Rest, FirstInv(d), DuF1Retries(d)
    PROVE  FirstInv(d)'
<1>. DEFINE r == du[d]
            x == M("assocReq", None)
<1>1. /\ d \in Dus /\ DuOK(r) /\ r \in DuRecord /\ r.q \in Seq(Msg) /\ du \in [Dus -> DuRecord]
  BY OnlyDu DEF DuInv
<1>2. r.f1 = "sleep3" /\ UNCHANGED <<cu, toCu>>
  BY DEF DuF1Retries
<1>3. du'[d].q = Append(r.q, x) /\ du'[d].cnx = r.cnx /\ x.t = "assocReq"
  BY <1>1 DEF DuF1Retries, Sctp, DuRecord, M
<1>4. r.cnx = None
  BY <1>1, <1>2 DEF DuOK, OneAttempt
<1>. HIDE DEF x
<1>5. Range(du'[d].q) = Range(r.q) \cup {x}
  BY <1>1, <1>3, RangeAppend
<1>6. SendsInv(d)'
  BY <1>3, <1>5 DEF FirstInv, SendsInv
<1>. QED BY <1>2, <1>3, <1>4, <1>6, DuLeaves

LEMMA FirstDuGone ==
    ASSUME NEW d, Dus = {d}, DuInv, Rest, FirstInv(d),
           (\E b \in BOOLEAN : DuGone(d, b)) \/ DuStarts(d)
    PROVE  FirstInv(d)'
<1>1. d \in Dus /\ du \in [Dus -> DuRecord]
  BY OnlyDu DEF DuInv
<1>2. du'[d] \in {DuOff, DuStarted} /\ cu' = cu
  BY <1>1 DEF DuGone, DuStarts
<1>3. /\ DuOff.cnx = None /\ DuStarted.cnx = None
      /\ DuOff.q = <<>> /\ DuStarted.q = <<M("assocReq", None)>>
  BY DEF DuOff, DuStarted
<1>4. /\ \A m \in Range(<<>>) : m.t # "send"
      /\ \A m \in Range(<<M("assocReq", None)>>) : m.t # "send"
  BY RangeEmpty DEF Range, M
<1>5. SendsInv(d)'
  BY <1>2, <1>3, <1>4 DEF SendsInv
<1>6. \/ toCu' = toCu
      \/ /\ du[d].cnx # None
         /\ toCu' = [toCu EXCEPT ![du[d].cnx] = Append(@, Plain("lost"))]
  BY DEF DuGone, DuStarts, ToCu
<1>. QED BY <1>2, <1>3, <1>5, <1>6, DuLeaves

LEMMA FirstNoAssociation ==
    ASSUME NEW d, Dus = {d}, DuInv, Rest, FirstInv(d),
           DuNewAssociationReqFails(d) \/ (DuNewAssociationReq(d) /\ ~cu.listening)
    PROVE  FirstInv(d)'
<1>. DEFINE r == du[d]
<1>1. /\ d \in Dus /\ DuOK(r) /\ r \in DuRecord /\ du \in [Dus -> DuRecord]
      /\ r.q # <<>> /\ Head(r.q).t = "assocReq"
  BY OnlyDu DEF DuInv, DuNewAssociationReq, DuNewAssociationReqFails, DuTake
<1>2. Tail(r.q) = <<>> /\ r.cnx = None
  BY <1>1, TakeFacts
<1>3. du'[d].q = Tail(r.q) /\ du'[d].cnx = r.cnx /\ UNCHANGED <<cu, toCu>>
  BY <1>1 DEF DuNewAssociationReq, DuNewAssociationReqFails, DuRecord
<1>4. SendsInv(d)'
  BY <1>2, <1>3, RangeEmpty DEF SendsInv
<1>. QED BY <1>2, <1>3, <1>4, DuLeaves

(* sctp_handle_new_association_req.                                        *)
LEMMA FirstNewAssociation ==
    ASSUME NEW d, Dus = {d}, DuInv, Rest, FirstInv(d), DuNewAssociationReq(d), cu.listening
    PROVE  FirstInv(d)'
<1>. DEFINE r == du[d]
            n == du'[d]
            w == Plain("commUp")
<1>. PICK c : c = Len(owner) + 1
  OBVIOUS
<1>1. /\ d \in Dus /\ DuOK(r) /\ r \in DuRecord /\ du \in [Dus -> DuRecord]
      /\ r.q # <<>> /\ Head(r.q).t = "assocReq" /\ r.task = "loop"
  BY OnlyDu DEF DuInv, DuNewAssociationReq, DuTake
<1>2. Tail(r.q) = <<>> /\ r.cnx = None /\ r.f1q = <<>> /\ r.f1 = "idle"
  BY <1>1, TakeFacts
<1>3. /\ c \in Assoc /\ cu' = [cu EXCEPT !.backlog = Append(@, c)]
      /\ toCu' = [toCu EXCEPT ![c] = <<w>>] /\ toDu' = [toDu EXCEPT ![c] = <<w>>]
      /\ du' = [du EXCEPT ![d].q = Tail(@), ![d].cnx = c, ![d].hs = FALSE]
  BY DEF DuNewAssociationReq
<1>4. n.q = <<>> /\ n.f1q = <<>> /\ n.f1 = "idle" /\ n.cnx = c /\ ~n.hs /\ n.task = "loop"
  BY <1>1, <1>2, <1>3 DEF DuRecord
<1>5. /\ c \notin Issued /\ c # None /\ cu \in CuRecord /\ cu.backlog \in Seq(Assoc)
      /\ toCu \in [Assoc -> Seq(Wire)] /\ toDu \in [Assoc -> Seq(Wire)]
  <2>1. Len(owner) \in Nat
    BY DEF Rest, EndsInv
  <2>. QED BY <1>3, <2>1, CuFacts, Nones DEF Issued
<1>6. /\ Range(cu'.backlog) = Range(cu.backlog) \cup {c} /\ cu'.cnx = cu.cnx
      /\ cu'.hs = cu.hs /\ cu'.task = cu.task /\ cu'.at = cu.at
      /\ cu'.q = cu.q /\ cu'.f1q = cu.f1q
  <2>1. cu'.backlog = Append(cu.backlog, c)
    BY <1>3, <1>5 DEF CuRecord
  <2>2. Range(Append(cu.backlog, c)) = Range(cu.backlog) \cup {c}
    BY <1>5, RangeAppend
  <2>. QED BY <1>3, <1>5, <2>1, <2>2 DEF CuRecord
<1>7. /\ toCu'[c] = <<w>> /\ toDu'[c] = <<w>>
      /\ \A a \in Assoc \ {c} : toCu'[a] = toCu[a] /\ toDu'[a] = toDu[a]
  BY <1>3, <1>5
<1>8. /\ Once(<<w>>, "commUp") /\ Once(<<w>>, "hello") /\ Once(<<w>>, "finished")
      /\ Once(<<w>>, "flight") /\ Has(<<w>>, "commUp") /\ Range(<<w>>) = {w} /\ w.t = "commUp"
      /\ \A t \in {"hello", "finished", "alert", "flight", "setupReq"} : ~Has(<<w>>, t)
  <2>1. Range(<<w>>) = {w} /\ w.t = "commUp"
    <3>1. w.t = "commUp"
      BY DEF Plain
    <3>. HIDE DEF w
    <3>2. Range(<<w>>) = {w}
      BY DEF Range
    <3>. QED BY <3>1, <3>2
  <2>2. Len(<<w>>) = 1
    OBVIOUS
  <2>3. \A t : Once(<<w>>, t)
    BY <2>2 DEF Once
  <2>. QED BY <2>1, <2>3 DEF Has
<1>. HIDE DEF r, n, w
<1>9. \A a : CuEnd(a)' <=> CuEnd(a) \/ a = c
  BY <1>6 DEF CuEnd
<1>10. \A t, a : At(t, a)' <=> At(t, a)
  BY <1>6 DEF At
<1>11. \A a : CuEnd(a) => a \in Issued /\ a \in Assoc \ {c}
  BY <1>5, OnlyDu
<1>12. cu.task \in {"hello", "finished"} => CuEnd(cu.at)
  BY DEF Rest, CuInv, CuEnd
<1>13. Stuck(d) => Stuck(d)'
  BY <1>4, <1>6, <1>7, <1>11, <1>12 DEF Stuck, n
<1>14. c \notin cu.hs /\ ~At("hello", c) /\ ~At("finished", c)
  BY <1>11, <1>12 DEF At, CuEnd, Rest, CuInv
<1>15. HelloInv(d)'
  <2>1. OneHello(n, <<w>>)
    BY <1>4, <1>8, HasEmpty DEF OneHello, Past
  <2>. QED BY <1>4, <1>7, <2>1 DEF HelloInv, n
<1>16. StepInv(d)'
  BY <1>4, <1>6, <1>7, <1>8, <1>10, <1>14, HasEmpty DEF StepInv, InStep, n
<1>17. SocketInv(d)'
  <2>1. SocketOK(d, c)'
    BY <1>7, <1>8 DEF SocketOK
  <2>2. ASSUME NEW a \in Assoc, CuEnd(a) PROVE SocketOK(d, a)'
    <3>1. SocketOK(d, a) /\ toCu'[a] = toCu[a]
      BY <1>7, <1>11, <2>2 DEF FirstInv, SocketInv
    <3>. QED BY <1>6, <1>10, <1>13, <3>1 DEF SocketOK
  <2>. QED BY <1>9, <2>1, <2>2 DEF SocketInv
<1>18. DueInv'
  BY <1>6, <1>7, <1>8, <1>9, <1>10, <1>11 DEF FirstInv, DueInv, DueAt
<1>19. SendsInv(d)' /\ FirstDataIsSetupRequest'
  BY <1>4, <1>6, RangeEmpty DEF SendsInv, FirstInv, FirstDataIsSetupRequest, n
<1>. QED BY <1>15, <1>16, <1>17, <1>18, <1>19 DEF FirstInv

(* The DU sends w on its association c.                                    *)
SentToCu(d, c, w) ==
    /\ \A a \in Assoc \ {c} : toCu'[a] = toCu[a]
    /\ CuEnd(c) => /\ \A t : /\ Has(toCu'[c], t) <=> Has(toCu[c], t) \/ w.t = t
                             /\ Once(toCu[c], t) /\ ~(Has(toCu[c], t) /\ w.t = t)
                                  => Once(toCu'[c], t)
                   /\ Range(toCu'[c]) = Range(toCu[c]) \cup {w}
    /\ \A a : CuEnd(a)' <=> CuEnd(a)
    /\ \A t, a : At(t, a)' <=> At(t, a)
    /\ Stuck(d) => Stuck(d)'

LEMMA ToCuFacts ==
    ASSUME NEW d, Dus = {d}, DuInv, Rest, cu' = cu, NEW c \in Assoc, c = du[d].cnx,
           du'[d].cnx = c, NEW w \in Wire, toCu' = ToCu(c, w)
    PROVE  SentToCu(d, c, w)
<1>1. toCu \in [Assoc -> Seq(Wire)] /\ toCu[c] \in Seq(Wire)
  BY CuFacts
<1>2. \A a \in Assoc \ {c} : toCu'[a] = toCu[a]
  BY <1>1 DEF ToCu
<1>3. CuEnd(c) => toCu'[c] = Append(toCu[c], w)
  BY <1>1 DEF ToCu
<1>4. /\ \A t : /\ Has(Append(toCu[c], w), t) <=> Has(toCu[c], t) \/ w.t = t
                /\ Once(toCu[c], t) /\ ~(Has(toCu[c], t) /\ w.t = t)
                      => Once(Append(toCu[c], w), t)
      /\ Range(Append(toCu[c], w)) = Range(toCu[c]) \cup {w}
  BY <1>1, HasAppend, RangeAppend
<1>5. /\ \A a : CuEnd(a)' <=> CuEnd(a)
      /\ \A t, a : At(t, a)' <=> At(t, a)
  BY DEF CuEnd, At
<1>6. Stuck(d) => Stuck(d)'
  <2>1. cu.task \in {"hello", "finished"} => cu.at \in Assoc
    BY OnlyDu DEF Rest, CuInv, CuEnd
  <2>. QED BY <1>2, <2>1 DEF Stuck
<1>. QED BY <1>2, <1>3, <1>4, <1>5, <1>6 DEF SentToCu

(* The parts of the invariant that are about the other connections.        *)
LEMMA OthersStay ==
    ASSUME NEW d, Dus = {d}, DuInv, Rest, FirstInv(d), cu' = cu, NEW c \in Assoc,
           \A a \in Assoc \ {c} : toCu'[a] = toCu[a],
           \A a : CuEnd(a)' <=> CuEnd(a), \A t, a : At(t, a)' <=> At(t, a),
           Stuck(d) => Stuck(d)',
           CuEnd(c) => /\ SocketOK(d, c)'
                       /\ Has(toCu[c], "commUp") => Has(toCu'[c], "commUp")
    PROVE  SocketInv(d)' /\ DueInv' /\ FirstDataIsSetupRequest'
<1>1. ASSUME NEW a \in Assoc, CuEnd(a) PROVE SocketOK(d, a)' /\ DueAt(a)'
  <2>1. SocketOK(d, a) /\ DueAt(a)
    BY <1>1 DEF FirstInv, SocketInv, DueInv
  <2>2. CASE a = c
    BY <1>1, <2>1, <2>2 DEF DueAt
  <2>3. CASE a # c
    <3>1. toCu'[a] = toCu[a]
      BY <2>3
    <3>2. SocketOK(d, a)'
      BY <2>1, <3>1 DEF SocketOK
    <3>3. DueAt(a)'
      BY <2>1, <3>1 DEF DueAt
    <3>. QED BY <3>2, <3>3
  <2>. QED BY <2>2, <2>3
<1>. QED BY <1>1 DEF SocketInv, DueInv, FirstInv, FirstDataIsSetupRequest

LEMMA FirstDuSslDoHandshake ==
    ASSUME NEW d, Dus = {d}, DuInv, Rest, FirstInv(d), DuSslDoHandshake(d)
    PROVE  FirstInv(d)'
<1>. DEFINE r == du[d]
            n == du'[d]
            w == Plain("hello")
<1>. PICK c : c = r.cnx
  OBVIOUS
<1>1. /\ d \in Dus /\ DuOK(r) /\ r \in DuRecord /\ r.q \in Seq(Msg)
      /\ du \in [Dus -> DuRecord] /\ (c # None => c \in Assoc)
      /\ r.q # <<>> /\ Head(r.q).t = "handshake" /\ UNCHANGED <<cu, toDu>>
  BY OnlyDu DEF DuInv, DuSslDoHandshake, DuTake
<1>2. /\ Range(r.q) = Range(Tail(r.q)) \cup {Head(r.q)}
      /\ \A t : Has(r.q, t) <=> Has(Tail(r.q), t) \/ Head(r.q).t = t
      /\ \A t : Once(r.q, t) => Once(Tail(r.q), t) /\ (Head(r.q).t = t => ~Has(Tail(r.q), t))
  BY <1>1, RangeTail, HasTail
<1>3. c # None => Head(r.q).a = c
  BY <1>1, <1>2 DEF DuOK, OneAttempt, AllOn
<1>4. n.q = Tail(r.q) /\ n.cnx = c /\ n.hs = r.hs /\ n.f1q = r.f1q /\ n.f1 = r.f1
  BY <1>1 DEF DuSslDoHandshake, DuRecord
<1>5. SendsInv(d)'
  BY <1>2, <1>4 DEF FirstInv, SendsInv
<1>6. CASE c = None
  <2>1. toCu' = toCu
    BY <1>3, <1>6 DEF DuSslDoHandshake
  <2>. QED BY <1>1, <1>4, <1>5, <1>6, <2>1, DuLeaves
<1>7. CASE c # None
  <2>1. n.task = "flight" /\ toCu' = ToCu(c, w) /\ c \in Assoc
    BY <1>1, <1>3, <1>7 DEF DuSslDoHandshake, DuRecord
  <2>2. w \in Wire /\ w.t = "hello"
    BY DEF Plain, Wire
  <2>. HIDE DEF r, n, w
  <2>3. SentToCu(d, c, w)
    <3>1. c = du[d].cnx /\ du'[d].cnx = c
      BY <1>4 DEF r, n
    <3>. QED BY ONLY Dus = {d}, DuInv, Rest, <1>1, <2>1, <2>2, <3>1, ToCuFacts
  <2>4. OneHello(r, toDu[c])
    BY <1>7 DEF FirstInv, HelloInv, r
  <2>5. Has(r.q, "handshake") /\ ~Past(r)
    BY <1>1, <1>2, <2>4 DEF OneHello
  <2>6. HelloInv(d)'
    <3>1. OneHello(n, toDu[c])
      BY <1>1, <1>2, <1>4, <2>4, <2>5 DEF OneHello
    <3>. QED BY <1>1, <1>4, <3>1 DEF HelloInv, n
  <2>7. CuEnd(c) => InStep(d) /\ SocketOK(d, c)
    BY <1>7, <2>1 DEF FirstInv, StepInv, SocketInv, r
  <2>8. CuEnd(c) => /\ Stuck(d) \/ At("hello", c)
                    /\ c \notin cu.hs /\ ~At("finished", c) /\ ~Has(toCu[c], "hello")
                    /\ ~Has(toDu[c], "flight") /\ Once(toDu[c], "flight") /\ ~r.hs
    BY <2>5, <2>7 DEF InStep, r, Past
  <2>9. StepInv(d)'
    <3>1. ASSUME CuEnd(c) PROVE InStep(d)'
      <4>1. Past(n) /\ ~n.hs /\ n.cnx = c /\ ~Has(n.q, "handshake")
        BY <1>1, <1>2, <1>4, <2>1, <2>4, <2>8, <3>1 DEF Past, OneHello
      <4>. QED BY <1>1, <2>8, <3>1, <4>1 DEF InStep, n
    <3>. QED BY <1>4, <2>3, <3>1 DEF StepInv, n, SentToCu
  <2>10. CuEnd(c) => SocketOK(d, c)' /\ (Has(toCu[c], "commUp") => Has(toCu'[c], "commUp"))
    BY <1>1, <2>2, <2>3, <2>7, <2>8 DEF SocketOK, SentToCu
  <2>11. SocketInv(d)' /\ DueInv' /\ FirstDataIsSetupRequest'
    BY <1>1, <2>1, <2>3, <2>10, OthersStay DEF SentToCu
  <2>. QED BY <1>5, <2>6, <2>9, <2>11 DEF FirstInv
<1>. QED BY <1>6, <1>7

(* A DU that still reads has not refused.                                  *)
LEMMA NoAlertYet ==
    ASSUME NEW d, Dus = {d}, DuInv, Rest, NEW c, c = du[d].cnx, c # None,
           du[d].task # "refused"
    PROVE  ~Has(toCu[c], "alert")
<1>1. c \in Issued /\ c \in Assoc /\ DuEnd(c) /\ owner[c] = d
  BY OnlyDu, CuFacts
<1>2. DuUp(c)
  BY <1>1 DEF DuUp
<1>. QED BY <1>1, <1>2 DEF Has, Rest, WireInv, NoneOf

LEMMA FirstDuHandshakeReads ==
    ASSUME NEW d, Dus = {d}, DuInv, Rest, FirstInv(d), DuHandshakeReads(d)
    PROVE  FirstInv(d)'
<1>. DEFINE r == du[d]
            n == du'[d]
            w == Plain("finished")
<1>. PICK c : c = r.cnx
  OBVIOUS
<1>1. /\ d \in Dus /\ DuOK(r) /\ r \in DuRecord /\ du \in [Dus -> DuRecord]
      /\ c # None /\ c \in Assoc /\ c \in Issued /\ r.task = "flight" /\ cu' = cu
      /\ toDu[c] # <<>> /\ toDu' = [toDu EXCEPT ![c] = Tail(@)]
  BY OnlyDu DEF DuInv, DuHandshakeReads, DuOK
<1>2. toDu \in [Assoc -> Seq(Wire)] /\ toDu[c] \in Seq(Wire) /\ toDu'[c] = Tail(toDu[c])
  BY <1>1, CuFacts
<1>3. /\ \A t : Has(toDu[c], t) <=> Has(toDu'[c], t) \/ Head(toDu[c]).t = t
      /\ \A t : Once(toDu[c], t) =>
            Once(toDu'[c], t) /\ (Head(toDu[c]).t = t => ~Has(toDu'[c], t))
  BY <1>1, <1>2, HasTail
<1>4. OneHello(r, toDu[c]) /\ Past(r)
  BY <1>1 DEF FirstInv, HelloInv, Past
<1>5. CuEnd(c) => InStep(d) /\ SocketOK(d, c)
  BY <1>1 DEF FirstInv, StepInv, SocketInv
<1>6. CASE /\ Head(toDu[c]).t = "flight" /\ toCu' = ToCu(c, w)
           /\ du' = [du EXCEPT ![d].hs = TRUE, ![d].task = "loop"]
  <2>1. /\ n.q = r.q /\ n.cnx = c /\ n.hs /\ n.task = "loop" /\ n.f1q = r.f1q /\ n.f1 = r.f1
    BY <1>1, <1>6 DEF DuRecord
  <2>2. w \in Wire /\ w.t = "finished"
    BY DEF Plain, Wire
  <2>. HIDE DEF r, n, w
  <2>3. SentToCu(d, c, w)
    <3>1. c = du[d].cnx /\ du'[d].cnx = c
      BY <2>1 DEF r, n
    <3>. QED BY ONLY Dus = {d}, DuInv, Rest, <1>1, <1>6, <2>2, <3>1, ToCuFacts
  <2>4. HelloInv(d)'
    <3>1. OneHello(n, toDu'[c])
      BY <1>3, <1>4, <2>1 DEF OneHello
    <3>. QED BY <2>1, <3>1 DEF HelloInv, n
  <2>5. CuEnd(c) => /\ Stuck(d) \/ At("finished", c)
                    /\ ~Has(toCu[c], "finished") /\ ~Has(toCu[c], "alert")
                    /\ ~Has(toDu'[c], "flight") /\ Once(toDu'[c], "flight")
    <3>1. ~Has(toCu[c], "alert")
      BY <1>1, NoAlertYet DEF r
    <3>. QED BY <1>3, <1>5, <1>6, <3>1 DEF InStep, r
  <2>6. StepInv(d)'
    <3>1. ASSUME CuEnd(c) PROVE InStep(d)'
      <4>1. Past(n) /\ n.cnx = c /\ ~Has(n.q, "handshake")
        BY <1>4, <2>1 DEF Past, OneHello
      <4>. QED BY <2>3, <2>5, <3>1, <4>1 DEF InStep, n, SentToCu
    <3>. QED BY <2>1, <2>3, <3>1 DEF StepInv, n, SentToCu
  <2>7. CuEnd(c) => SocketOK(d, c)' /\ (Has(toCu[c], "commUp") => Has(toCu'[c], "commUp"))
    BY <1>1, <1>5, <2>2, <2>3, <2>5 DEF SocketOK, SentToCu
  <2>8. SocketInv(d)' /\ DueInv' /\ FirstDataIsSetupRequest'
    BY <1>1, <2>3, <2>7, OthersStay DEF SentToCu
  <2>9. SendsInv(d)'
    BY <2>1 DEF FirstInv, SendsInv, n, r
  <2>. QED BY <2>4, <2>6, <2>8, <2>9 DEF FirstInv
<1>7. CASE toCu' = toCu /\ du' = [du EXCEPT ![d].task = "undefined"]
  <2>1. n.q = r.q /\ n.cnx = c /\ n.hs = r.hs /\ n.f1q = r.f1q /\ n.f1 = r.f1
        /\ n.task = "undefined"
    BY <1>1, <1>7 DEF DuRecord
  <2>. HIDE DEF r, n
  <2>3. /\ \A a : CuEnd(a)' <=> CuEnd(a)
        /\ \A t, a : At(t, a)' <=> At(t, a)
        /\ Stuck(d) => Stuck(d)'
    BY <1>1, <1>7, <2>1 DEF CuEnd, At, Stuck, n, r
  <2>4. HelloInv(d)'
    <3>1. OneHello(n, toDu'[c])
      BY <1>3, <1>4, <2>1 DEF OneHello, Past
    <3>. QED BY <2>1, <3>1 DEF HelloInv, n
  <2>5. StepInv(d)'
    <3>1. ASSUME CuEnd(c) PROVE InStep(d)'
      <4>1. Past(n) /\ n.cnx = c /\ ~Has(n.q, "handshake")
        BY <1>4, <2>1 DEF Past, OneHello
      <4>. QED BY <1>1, <1>3, <1>5, <1>7, <2>1, <2>3, <3>1, <4>1 DEF InStep, n, r
    <3>. QED BY <2>1, <2>3, <3>1 DEF StepInv, n
  <2>6. CuEnd(c) => SocketOK(d, c)'
    BY <1>1, <1>5, <1>7, <2>3 DEF SocketOK
  <2>8. SocketInv(d)' /\ DueInv' /\ FirstDataIsSetupRequest'
    BY <1>1, <1>7, <2>3, <2>6, OthersStay
  <2>7. SendsInv(d)'
    BY <2>1 DEF FirstInv, SendsInv, n, r
  <2>. QED BY <2>4, <2>5, <2>7, <2>8 DEF FirstInv
<1>. QED BY <1>1, <1>6, <1>7 DEF DuHandshakeReads

(* The DU refuses the handshake: its alert, or the finished it had sent     *)
(* before it refused, is all that the CU may still get.                     *)
LEMMA FirstDuHandshakeFails ==
    ASSUME NEW d, Dus = {d}, DuInv, Rest, FirstInv(d), DuHandshakeFails(d)
    PROVE  FirstInv(d)'
<1>. DEFINE r == du[d]
            n == du'[d]
<1>. PICK c : c = r.cnx
  OBVIOUS
<1>1. /\ d \in Dus /\ DuOK(r) /\ r \in DuRecord /\ du \in [Dus -> DuRecord]
      /\ c # None /\ c \in Assoc /\ r.task = "flight" /\ cu' = cu
      /\ toDu[c] # <<>> /\ toDu' = [toDu EXCEPT ![c] = Tail(@)] /\ Head(toDu[c]).t = "flight"
      /\ toCu' \in {toCu, ToCu(c, Plain("alert")), ToCu(c, Plain("finished"))}
      /\ du' = [du EXCEPT ![d].task = "refused"]
  BY OnlyDu DEF DuInv, DuHandshakeFails, DuOK
<1>2. toDu \in [Assoc -> Seq(Wire)] /\ toDu[c] \in Seq(Wire) /\ toDu'[c] = Tail(toDu[c])
  BY <1>1, CuFacts
<1>3. /\ \A t : Has(toDu[c], t) <=> Has(toDu'[c], t) \/ Head(toDu[c]).t = t
      /\ \A t : Once(toDu[c], t) =>
            Once(toDu'[c], t) /\ (Head(toDu[c]).t = t => ~Has(toDu'[c], t))
  BY <1>1, <1>2, HasTail
<1>4. OneHello(r, toDu[c]) /\ Past(r)
  BY <1>1 DEF FirstInv, HelloInv, Past
<1>5. CuEnd(c) => InStep(d) /\ SocketOK(d, c)
  BY <1>1 DEF FirstInv, StepInv, SocketInv
<1>6. /\ n.q = r.q /\ n.cnx = c /\ n.hs = r.hs /\ n.task = "refused"
      /\ n.f1q = r.f1q /\ n.f1 = r.f1
  BY <1>1 DEF DuRecord
<1>7. Plain("alert") \in Wire /\ Plain("finished") \in Wire
      /\ Plain("alert").t = "alert" /\ Plain("finished").t = "finished"
  BY DEF Plain, Wire
<1>. HIDE DEF r, n
<1>8. ~Has(toCu[c], "alert")
  BY <1>1, NoAlertYet DEF r
<1>9. CuEnd(c) => /\ Stuck(d) \/ At("finished", c)
                  /\ ~Has(toCu[c], "finished")
                  /\ ~Has(toDu'[c], "flight") /\ Once(toDu'[c], "flight")
  BY <1>1, <1>3, <1>5 DEF InStep, r
<1>10. HelloInv(d)'
  <2>1. OneHello(n, toDu'[c])
    BY <1>3, <1>4, <1>6 DEF OneHello
  <2>. QED BY <1>6, <2>1 DEF HelloInv, n
<1>11. SendsInv(d)'
  BY <1>6 DEF FirstInv, SendsInv, n, r
<1>12. Past(n) /\ ~Has(n.q, "handshake")
  BY <1>4, <1>6 DEF Past, OneHello
<1>13. CASE toCu' = toCu
  <2>1. /\ \A a : CuEnd(a)' <=> CuEnd(a)
        /\ \A t, a : At(t, a)' <=> At(t, a)
        /\ Stuck(d) => Stuck(d)'
    BY <1>1, <1>6, <1>13 DEF CuEnd, At, Stuck, n, r
  <2>2. StepInv(d)'
    <3>1. ASSUME CuEnd(c) PROVE InStep(d)'
      BY <1>1, <1>5, <1>6, <1>9, <1>12, <1>13, <2>1, <3>1 DEF InStep, n, r
    <3>. QED BY <1>6, <2>1, <3>1 DEF StepInv, n
  <2>3. CuEnd(c) => SocketOK(d, c)'
    BY <1>1, <1>5, <1>13, <2>1 DEF SocketOK
  <2>4. SocketInv(d)' /\ DueInv' /\ FirstDataIsSetupRequest'
    BY <1>1, <1>13, <2>1, <2>3, OthersStay
  <2>. QED BY <1>10, <1>11, <2>2, <2>4 DEF FirstInv
<1>14. ASSUME NEW w \in Wire, w.t \in {"alert", "finished"}, toCu' = ToCu(c, w)
       PROVE  FirstInv(d)'
  <2>1. SentToCu(d, c, w)
    <3>1. c = du[d].cnx /\ du'[d].cnx = c
      BY <1>6 DEF r, n
    <3>. QED BY ONLY Dus = {d}, DuInv, Rest, <1>1, <1>14, <3>1, ToCuFacts
  <2>2. StepInv(d)'
    <3>1. ASSUME CuEnd(c) PROVE InStep(d)'
      BY <1>1, <1>5, <1>6, <1>9, <1>12, <1>14, <2>1, <3>1 DEF InStep, n, r, SentToCu
    <3>. QED BY <1>6, <2>1, <3>1 DEF StepInv, n, SentToCu
  <2>3. CuEnd(c) => SocketOK(d, c)' /\ (Has(toCu[c], "commUp") => Has(toCu'[c], "commUp"))
    BY <1>1, <1>5, <1>8, <1>9, <1>14, <2>1 DEF SocketOK, SentToCu
  <2>4. SocketInv(d)' /\ DueInv' /\ FirstDataIsSetupRequest'
    BY <1>1, <2>1, <2>3, OthersStay DEF SentToCu
  <2>. QED BY <1>10, <1>11, <2>2, <2>4 DEF FirstInv
<1>. QED BY <1>1, <1>7, <1>13, <1>14

LEMMA FirstDuSendData ==
    ASSUME NEW d, Dus = {d}, DuInv, Rest, Rest', FirstInv(d), DuSendData(d)
    PROVE  FirstInv(d)'
<1>. DEFINE r == du[d]
            n == du'[d]
<1>. PICK c : c = r.cnx
  OBVIOUS
<1>. PICK m : m = Head(r.q)
  OBVIOUS
<1>. PICK w : w = [t |-> m.p, enc |-> r.hs]
  OBVIOUS
<1>1. /\ d \in Dus /\ DuOK(r) /\ r \in DuRecord /\ r.q \in Seq(Msg)
      /\ du \in [Dus -> DuRecord] /\ (c # None => c \in Assoc)
      /\ r.q # <<>> /\ m.t = "send" /\ UNCHANGED <<cu, toDu>>
      /\ toCu' = IF c = m.a THEN ToCu(c, w) ELSE toCu
  BY OnlyDu DEF DuInv, DuSendData, DuTake
<1>2. /\ Range(r.q) = Range(Tail(r.q)) \cup {m}
      /\ \A t : Has(r.q, t) <=> Has(Tail(r.q), t) \/ m.t = t
      /\ \A t : Once(r.q, t) => Once(Tail(r.q), t)
  BY <1>1, RangeTail, HasTail
<1>3. /\ n.q = Tail(r.q) /\ n.cnx = c /\ n.hs = r.hs /\ n.f1q = r.f1q /\ n.f1 = r.f1
      /\ n.task = r.task
  BY <1>1 DEF DuSendData, DuRecord
<1>4. m.p = "setupReq"
  BY <1>1, <1>2 DEF FirstInv, SendsInv
<1>5. w \in Wire /\ w.t = "setupReq" /\ w.enc = r.hs
  BY <1>1, <1>4 DEF Wire, F1aps, DuRecord
<1>6. SendsInv(d)'
  BY <1>2, <1>3 DEF FirstInv, SendsInv
<1>. HIDE DEF r, n
<1>7. HelloInv(d)'
  <2>1. SUFFICES ASSUME c # None PROVE OneHello(n, toDu[c])
    BY <1>1, <1>3 DEF HelloInv, n
  <2>2. OneHello(r, toDu[c])
    BY <2>1 DEF FirstInv, HelloInv, r
  <2>. QED BY <1>2, <1>3, <2>2 DEF OneHello, Past
<1>8. CASE toCu' = toCu
  <2>1. /\ du'[d].cnx = du[d].cnx /\ du'[d].hs = du[d].hs /\ du'[d].task = du[d].task
        /\ Has(du'[d].q, "handshake") => Has(du[d].q, "handshake")
    BY <1>2, <1>3 DEF n, r
  <2>. QED BY <1>1, <1>6, <1>7, <1>8, <2>1, DuQuiet
<1>9. CASE toCu' # toCu
  <2>1. toCu' = ToCu(c, w) /\ CuEnd(c)
    BY <1>1, <1>9 DEF ToCu
  <2>2. c \in Assoc /\ c # None
    BY <2>1, OnlyDu
  <2>3. SentToCu(d, c, w)
    <3>1. c = du[d].cnx /\ du'[d].cnx = c
      BY <1>3 DEF r, n
    <3>. QED BY ONLY Dus = {d}, DuInv, Rest, <1>1, <1>5, <2>1, <2>2, <3>1, ToCuFacts
  <2>4. r.hs
    <3>1. w \in Range(toCu'[c])
      BY <2>1, <2>3 DEF SentToCu
    <3>. QED BY <1>5, <2>2, <3>1 DEF Rest, F1apProtected, F1aps
  <2>5. InStep(d) /\ SocketOK(d, c)
    BY <2>1, <2>2 DEF FirstInv, StepInv, SocketInv, r
  <2>6. Stuck(d) \/ At("finished", c) \/ c \in cu.hs
    BY <2>4, <2>5 DEF InStep, r
  <2>7. StepInv(d)'
    <3>1. Past(n) <=> Past(r)
      BY <1>3 DEF Past
    <3>2. InStep(d)'
      BY <1>1, <1>2, <1>3, <1>5, <2>1, <2>3, <2>5, <3>1 DEF InStep, n, r, SentToCu
    <3>. QED BY <3>2 DEF StepInv
  <2>8. SocketOK(d, c)' /\ (Has(toCu[c], "commUp") => Has(toCu'[c], "commUp"))
    BY <1>1, <1>5, <2>1, <2>3, <2>5, <2>6 DEF SocketOK, SentToCu
  <2>9. SocketInv(d)' /\ DueInv' /\ FirstDataIsSetupRequest'
    BY <1>1, <2>2, <2>3, <2>8, OthersStay DEF SentToCu
  <2>. QED BY <1>6, <1>7, <2>7, <2>9 DEF FirstInv
<1>. QED BY <1>8, <1>9

LEMMA FirstDuReadFromSocket ==
    ASSUME NEW d, Dus = {d}, DuInv, Rest, FirstInv(d), DuReadFromSocket(d)
    PROVE  FirstInv(d)'
<1>. DEFINE r == du[d]
            n == du'[d]
<1>. PICK c : c = r.cnx
  OBVIOUS
<1>. PICK m : m = Head(toDu[c])
  OBVIOUS
<1>1. /\ d \in Dus /\ DuOK(r) /\ r \in DuRecord /\ du \in [Dus -> DuRecord]
      /\ c # None /\ c \in Assoc /\ r.task = "loop" /\ UNCHANGED <<cu, toCu>>
      /\ toDu[c] # <<>> /\ toDu' = [toDu EXCEPT ![c] = Tail(@)] /\ r.f1q \in Seq(Msg)
  BY OnlyDu DEF DuInv, DuReadFromSocket
<1>2. toDu \in [Assoc -> Seq(Wire)] /\ toDu[c] \in Seq(Wire) /\ toDu'[c] = Tail(toDu[c])
  BY <1>1, CuFacts
<1>3. /\ \A t : Has(toDu[c], t) <=> Has(toDu'[c], t) \/ m.t = t
      /\ \A t : Once(toDu[c], t) => Once(toDu'[c], t) /\ (m.t = t => ~Has(toDu'[c], t))
  BY <1>1, <1>2, HasTail
<1>4. CASE m.t = "lost"
  <2>1. n.q = r.q /\ n.cnx = None
    BY <1>1, <1>4 DEF DuReadFromSocket, DuRecord
  <2>2. SendsInv(d)'
    BY <2>1 DEF FirstInv, SendsInv
  <2>. QED BY <1>1, <2>1, <2>2, DuLeaves
<1>5. CASE m.t # "lost"
  <2>1. PICK x : /\ n.f1q = Append(r.f1q, x)
                 /\ x.t = "established" => m.t = "commUp"
                 /\ x.t # "lost"
                 /\ n.q = r.q /\ n.cnx = c /\ n.hs = r.hs /\ n.f1 = r.f1 /\ n.task = r.task
    <3>1. CASE m.t = "commUp"
      <4>1. du' = [du EXCEPT ![d].f1q = Append(@, M("established", c))]
        BY <1>1, <3>1 DEF DuReadFromSocket
      <4>2. M("established", c).t = "established"
        BY DEF M
      <4>3. /\ n.f1q = Append(r.f1q, M("established", c))
            /\ n.q = r.q /\ n.cnx = c /\ n.hs = r.hs /\ n.f1 = r.f1 /\ n.task = r.task
        BY <1>1, <4>1 DEF DuRecord
      <4>. QED BY <3>1, <4>2, <4>3
    <3>2. CASE m.t # "commUp"
      <4>1. PICK p : du' = [du EXCEPT ![d].f1q = Append(@, [t |-> "data", a |-> c, p |-> p])]
        BY <1>1, <1>5, <3>2 DEF DuReadFromSocket
      <4>2. /\ n.f1q = Append(r.f1q, [t |-> "data", a |-> c, p |-> p])
            /\ n.q = r.q /\ n.cnx = c /\ n.hs = r.hs /\ n.f1 = r.f1 /\ n.task = r.task
        BY <1>1, <4>1 DEF DuRecord
      <4>. QED BY <4>2
    <3>. QED BY <3>1, <3>2
  <2>2. /\ \A t : Has(n.f1q, t) <=> Has(r.f1q, t) \/ x.t = t
        /\ \A t : Once(r.f1q, t) /\ ~(Has(r.f1q, t) /\ x.t = t) => Once(n.f1q, t)
    BY <1>1, <2>1, HasAppend
  <2>. HIDE DEF r, n
  <2>3. HelloInv(d)'
    <3>1. OneHello(r, toDu[c])
      BY <1>1 DEF FirstInv, HelloInv, r
    <3>2. Past(n) <=> Past(r)
      BY <2>1 DEF Past
    <3>3. OneHello(n, toDu'[c])
      BY <1>3, <2>1, <2>2, <3>1, <3>2 DEF OneHello
    <3>. QED BY <2>1, <3>3 DEF HelloInv, n
  <2>4. SendsInv(d)'
    BY <2>1 DEF FirstInv, SendsInv, n, r
  <2>5. /\ du'[d].cnx = du[d].cnx /\ du'[d].hs = du[d].hs /\ du'[d].task = du[d].task
        /\ Has(du'[d].q, "handshake") => Has(du[d].q, "handshake")
        /\ Has(toDu'[du[d].cnx], "flight") => Has(toDu[du[d].cnx], "flight")
        /\ Once(toDu[du[d].cnx], "flight") => Once(toDu'[du[d].cnx], "flight")
    BY <1>3, <2>1 DEF n, r
  <2>. QED BY <1>1, <2>3, <2>4, <2>5, DuQuiet
<1>. QED BY <1>4, <1>5

(* The CU does something outside a handshake, and forgets none.            *)
LEMMA CuQuiet ==
    ASSUME NEW d, Dus = {d}, DuInv, Rest, Rest', FirstInv(d), du' = du,
           cu'.task = cu.task, cu'.at = cu.at, cu'.hs = cu.hs,
           \A a : CuEnd(a)' => CuEnd(a),
           \A a \in Assoc : CuEnd(a)' => toCu'[a] \in {toCu[a], Append(toCu[a], Plain("lost"))},
           \A a \in Assoc : \/ toDu'[a] = toDu[a]
                            \/ \E w : /\ toDu'[a] = Append(toDu[a], w)
                                      /\ w.t \notin {"flight", "commUp"},
           \A a : M("established", a) \in Range(cu.f1q) =>
                     \/ M("established", a) \in Range(cu'.f1q)
                     \/ M("handshake", a) \in Range(cu'.q),
           \A a : M("handshake", a) \in Range(cu.q) => M("handshake", a) \in Range(cu'.q),
           FirstDataIsSetupRequest'
    PROVE  FirstInv(d)'
<1>1. /\ toCu \in [Assoc -> Seq(Wire)] /\ toDu \in [Assoc -> Seq(Wire)]
      /\ \A a : CuEnd(a) => a \in Assoc /\ a # None
      /\ du[d].cnx # None => du[d].cnx \in Assoc
  BY OnlyDu, CuFacts
<1>. PICK l : l = Plain("lost")
  OBVIOUS
<1>2. l.t = "lost"
  BY DEF Plain
<1>3. ASSUME NEW a \in Assoc, CuEnd(a)'
      PROVE  /\ \A t \in {"hello", "finished", "alert", "setupReq", "commUp"} :
                   /\ Has(toCu'[a], t) <=> Has(toCu[a], t)
                   /\ Once(toCu[a], t) => Once(toCu'[a], t)
             /\ \A m \in Range(toCu'[a]) : m \in Range(toCu[a]) \/ m.t = "lost"
  <2>1. toCu[a] \in Seq(Wire) /\ toCu'[a] \in {toCu[a], Append(toCu[a], l)}
    BY <1>1, <1>3
  <2>2. ASSUME NEW t \in {"hello", "finished", "alert", "setupReq", "commUp"}
        PROVE  /\ Has(Append(toCu[a], l), t) <=> Has(toCu[a], t)
               /\ Once(toCu[a], t) => Once(Append(toCu[a], l), t)
    BY <1>2, <2>1, HasAppend
  <2>3. Range(Append(toCu[a], l)) = Range(toCu[a]) \cup {l}
    BY <2>1, RangeAppend
  <2>. QED BY <1>2, <2>1, <2>2, <2>3
<1>4. ASSUME NEW a \in Assoc
      PROVE  \A t \in {"flight", "commUp"} : /\ Has(toDu'[a], t) <=> Has(toDu[a], t)
                                             /\ Once(toDu[a], t) => Once(toDu'[a], t)
  <2>1. CASE toDu'[a] = toDu[a]
    BY <2>1
  <2>2. ASSUME NEW w, toDu'[a] = Append(toDu[a], w), w.t \notin {"flight", "commUp"}
        PROVE  \A t \in {"flight", "commUp"} : /\ Has(toDu'[a], t) <=> Has(toDu[a], t)
                                               /\ Once(toDu[a], t) => Once(toDu'[a], t)
    <3>1. toDu[a] \in Seq(Wire)
      BY <1>1
    <3>. QED BY <2>2, <3>1, HasAppend
  <2>. QED BY <2>1, <2>2
<1>5. \A t, a : At(t, a)' <=> At(t, a)
  BY DEF At
<1>6. Stuck(d) => Stuck(d)'
  <2>1. cu.task \in {"hello", "finished"} => cu.at \in Assoc /\ CuEnd(cu.at)'
    <3>1. cu'.task \in {"hello", "finished"} => cu'.at \in cu'.cnx
      BY DEF Rest, CuInv
    <3>2. cu.task \in {"hello", "finished"} => CuEnd(cu.at)'
      BY <3>1 DEF CuEnd
    <3>3. CuEnd(cu.at)' => CuEnd(cu.at)
      BY DEF CuEnd
    <3>. QED BY <1>1, <3>2, <3>3
  <2>. QED BY <1>3, <2>1 DEF Stuck
<1>7. HelloInv(d)'
  BY <1>1, <1>4 DEF FirstInv, HelloInv, OneHello
<1>8. StepInv(d)'
  <2>. PICK c : c = du[d].cnx
    OBVIOUS
  <2>1. SUFFICES ASSUME c # None, CuEnd(c)' PROVE InStep(d)'
    BY DEF StepInv
  <2>2. InStep(d) /\ c \in Assoc
    BY <1>1, <2>1 DEF FirstInv, StepInv
  <2>. QED BY <1>3, <1>4, <1>5, <1>6, <2>1, <2>2 DEF InStep
<1>9. SocketInv(d)'
  <2>1. ASSUME NEW a \in Assoc, CuEnd(a)' PROVE SocketOK(d, a)'
    <3>1. SocketOK(d, a)
      BY <2>1 DEF FirstInv, SocketInv
    <3>. QED BY <1>3, <1>5, <1>6, <2>1, <3>1 DEF SocketOK
  <2>. QED BY <2>1 DEF SocketInv
<1>10. DueInv'
  <2>1. ASSUME NEW a \in Assoc, CuEnd(a)' PROVE DueAt(a)'
    <3>1. DueAt(a)
      BY <2>1 DEF FirstInv, DueInv
    <3>. QED BY <1>3, <1>5, <2>1, <3>1 DEF DueAt
  <2>. QED BY <2>1 DEF DueInv
<1>11. SendsInv(d)'
  BY DEF FirstInv, SendsInv
<1>. QED BY <1>7, <1>8, <1>9, <1>10, <1>11 DEF FirstInv

LEMMA FirstCuListens ==
    ASSUME NEW d, Dus = {d}, DuInv, Rest, Rest', FirstInv(d), CuCreateNewListener \/ CuPoll
    PROVE  FirstInv(d)'
<1>1. /\ cu \in CuRecord /\ cu.q \in Seq(Msg) /\ UNCHANGED <<du, toCu, toDu>>
  BY CuFacts DEF CuCreateNewListener, CuPoll
<1>2. /\ cu'.task = cu.task /\ cu'.at = cu.at /\ cu'.hs = cu.hs /\ cu'.cnx = cu.cnx
      /\ cu'.backlog = cu.backlog /\ cu'.f1q = cu.f1q
      /\ \/ cu'.q = cu.q
         \/ cu'.q = Tail(cu.q) /\ cu.q # <<>> /\ Head(cu.q).t = "init"
  BY <1>1 DEF CuCreateNewListener, CuPoll, CuTake, Took, CuRecord
<1>3. \A a : M("handshake", a) \in Range(cu.q) => M("handshake", a) \in Range(cu'.q)
  <2>1. CASE cu'.q = cu.q
    BY <2>1
  <2>2. CASE cu'.q # cu.q
    <3>1. Range(cu.q) = Range(cu'.q) \cup {Head(cu.q)} /\ Head(cu.q).t = "init"
      BY <1>1, <1>2, <2>2, RangeTail
    <3>. QED BY <3>1 DEF M
  <2>. QED BY <2>1, <2>2
<1>4. \A a : CuEnd(a)' <=> CuEnd(a)
  BY <1>2 DEF CuEnd
<1>5. FirstDataIsSetupRequest'
  BY <1>2 DEF FirstInv, FirstDataIsSetupRequest
<1>. QED BY <1>1, <1>2, <1>3, <1>4, <1>5, CuQuiet

LEMMA FirstCuAccept ==
    ASSUME NEW d, Dus = {d}, DuInv, Rest, Rest', FirstInv(d), CuAccept
    PROVE  FirstInv(d)'
<1>. PICK a : a = Head(cu.backlog)
  OBVIOUS
<1>. PICK x : x = M("ind", a)
  OBVIOUS
<1>1. /\ cu \in CuRecord /\ cu.f1q \in Seq(Msg) /\ UNCHANGED <<du, toCu, toDu>>
      /\ cu' = [cu EXCEPT !.events = @ \ {None}, !.backlog = Tail(@), !.cnx = @ \cup {a},
                          !.f1q = Append(@, x)]
      /\ None \in cu.events
  BY CuFacts DEF CuAccept
<1>2. Range(cu.backlog) = Range(Tail(cu.backlog)) \cup {a}
  BY <1>1, BacklogFacts
<1>3. /\ cu'.task = cu.task /\ cu'.at = cu.at /\ cu'.hs = cu.hs /\ cu'.cnx = cu.cnx \cup {a}
      /\ cu'.backlog = Tail(cu.backlog) /\ cu'.f1q = Append(cu.f1q, x) /\ cu'.q = cu.q
  BY <1>1 DEF CuRecord
<1>4. \A b : CuEnd(b)' <=> CuEnd(b)
  BY <1>2, <1>3 DEF CuEnd
<1>5. Range(cu'.f1q) = Range(cu.f1q) \cup {x} /\ x.t = "ind"
  BY <1>1, <1>3, RangeAppend DEF M
<1>6. FirstDataIsSetupRequest'
  BY <1>5 DEF FirstInv, FirstDataIsSetupRequest
<1>. QED BY <1>1, <1>3, <1>4, <1>5, <1>6, CuQuiet

LEMMA FirstCuAcceptFails ==
    ASSUME NEW d, Dus = {d}, DuInv, Rest, Rest', FirstInv(d), CuAcceptFails
    PROVE  FirstInv(d)'
<1>. PICK a : a = Head(cu.backlog)
  OBVIOUS
<1>1. /\ cu \in CuRecord /\ UNCHANGED du
      /\ cu' = [cu EXCEPT !.events = @ \ {None}, !.backlog = Tail(@)]
      /\ None \in cu.events /\ toCu' = [toCu EXCEPT ![a] = <<>>]
      /\ toDu' = ToDu(a, Plain("lost"))
      /\ toCu \in [Assoc -> Seq(Wire)] /\ toDu \in [Assoc -> Seq(Wire)]
  BY CuFacts DEF CuAcceptFails
<1>2. /\ Range(cu.backlog) = Range(Tail(cu.backlog)) \cup {a} /\ a \notin Range(Tail(cu.backlog))
      /\ a \in Assoc /\ a \notin cu.cnx
  BY <1>1, BacklogFacts
<1>3. /\ cu'.task = cu.task /\ cu'.at = cu.at /\ cu'.hs = cu.hs /\ cu'.cnx = cu.cnx
      /\ cu'.backlog = Tail(cu.backlog) /\ cu'.f1q = cu.f1q /\ cu'.q = cu.q
  BY <1>1 DEF CuRecord
<1>4. \A b : CuEnd(b)' => CuEnd(b) /\ b # a
  BY <1>2, <1>3 DEF CuEnd
<1>5. FirstDataIsSetupRequest'
  BY <1>3 DEF FirstInv, FirstDataIsSetupRequest
<1>6. \A b \in Assoc : CuEnd(b)' => toCu'[b] \in {toCu[b], Append(toCu[b], Plain("lost"))}
  BY <1>1, <1>4
<1>7. \A b \in Assoc : \/ toDu'[b] = toDu[b]
                       \/ \E w : /\ toDu'[b] = Append(toDu[b], w)
                                 /\ w.t \notin {"flight", "commUp"}
  <2>1. Plain("lost").t \notin {"flight", "commUp"}
    BY DEF Plain
  <2>2. \A b \in Assoc : toDu'[b] = toDu[b] \/ toDu'[b] = Append(toDu[b], Plain("lost"))
    BY <1>1 DEF ToDu
  <2>. QED BY <2>1, <2>2
<1>. QED BY <1>1, <1>3, <1>4, <1>5, <1>6, <1>7, CuQuiet

LEMMA FirstCuNoticesLoss ==
    ASSUME NEW d, Dus = {d}, DuInv, Rest, Rest', FirstInv(d), CuNoticesLoss
    PROVE  FirstInv(d)'
<1>1. UNCHANGED <<du, cu, toDu>> /\ toCu \in [Assoc -> Seq(Wire)]
  BY CuFacts DEF CuNoticesLoss
<1>2. \A b \in Assoc : toCu'[b] \in {toCu[b], Append(toCu[b], Plain("lost"))}
  BY <1>1 DEF CuNoticesLoss
<1>3. \A b : CuEnd(b)' <=> CuEnd(b)
  BY <1>1 DEF CuEnd
<1>4. FirstDataIsSetupRequest'
  BY <1>1 DEF FirstInv, FirstDataIsSetupRequest
<1>. QED BY <1>1, <1>2, <1>3, <1>4, CuQuiet

LEMMA FirstCuSendData ==
    ASSUME NEW d, Dus = {d}, DuInv, Rest, Rest', FirstInv(d), CuSendData
    PROVE  FirstInv(d)'
<1>. PICK m : m = Head(cu.q)
  OBVIOUS
<1>. PICK w : w = [t |-> m.p, enc |-> m.a \in cu.hs]
  OBVIOUS
<1>1. /\ cu.q # <<>> /\ m.t = "send" /\ cu' = Took /\ UNCHANGED <<du, toCu>>
      /\ toDu' = IF m.a \in cu.cnx THEN ToDu(m.a, w) ELSE toDu
      /\ CuTake("send")
  BY DEF CuSendData, CuTake
<1>2. /\ Took.q = Tail(cu.q) /\ Took.f1q = cu.f1q /\ Took.task = cu.task
      /\ Took.cnx = cu.cnx /\ Took.hs = cu.hs /\ Took.backlog = cu.backlog
      /\ Took.at = cu.at /\ m \in Pending
  BY <1>1, CuTakeFacts
<1>3. Range(cu.q) = Range(Tail(cu.q)) \cup {m}
  BY <1>1, CuFacts, RangeTail
<1>4. w.t \notin {"flight", "commUp"}
  BY <1>1, <1>2 DEF Rest, PendingInv, PendingOK, F1aps
<1>5. \A b \in Assoc : \/ toDu'[b] = toDu[b]
                       \/ \E x : /\ toDu'[b] = Append(toDu[b], x)
                                 /\ x.t \notin {"flight", "commUp"}
  <2>1. \A b \in Assoc : toDu'[b] = toDu[b] \/ toDu'[b] = Append(toDu[b], w)
    BY <1>1, CuFacts DEF ToDu
  <2>. QED BY <1>4, <2>1
<1>6. \A b : CuEnd(b)' <=> CuEnd(b)
  BY <1>1, <1>2 DEF CuEnd
<1>7. FirstDataIsSetupRequest'
  BY <1>1, <1>2 DEF FirstInv, FirstDataIsSetupRequest
<1>8. \A a : M("handshake", a) \in Range(cu.q) => M("handshake", a) \in Range(cu'.q)
  BY <1>1, <1>2, <1>3 DEF M
<1>. QED BY <1>1, <1>2, <1>5, <1>6, <1>7, <1>8, CuQuiet

(* TASK_CU_F1 and TASK_RRC_GNB.                                            *)
LEMMA FirstCuF1Receives ==
    ASSUME NEW d, Dus = {d}, DuInv, Rest, Rest', FirstInv(d), CuF1Receives
    PROVE  FirstInv(d)'
<1>. PICK m : m = Head(cu.f1q)
  OBVIOUS
<1>1. /\ cu.f1q # <<>> /\ cu.f1q \in Seq(Msg) /\ cu.q \in Seq(Msg) /\ cu \in CuRecord
      /\ UNCHANGED <<du, toCu, toDu>>
  BY CuFacts DEF CuF1Receives
<1>2. Range(cu.f1q) = Range(Tail(cu.f1q)) \cup {m}
  BY <1>1, RangeTail
<1>3. /\ cu'.task = cu.task /\ cu'.at = cu.at /\ cu'.hs = cu.hs /\ cu'.cnx = cu.cnx
      /\ cu'.backlog = cu.backlog /\ cu'.f1q = Tail(cu.f1q)
      /\ \/ cu'.q = cu.q /\ m.t # "established"
         \/ \E x : cu'.q = Append(cu.q, x) /\ (m.t = "established" => x = M("handshake", m.a))
  <2>1. CASE m.t = "established"
    <3>1. cu' = [cu EXCEPT !.f1q = Tail(@), !.q = Append(@, M("handshake", m.a))]
      BY <2>1 DEF CuF1Receives
    <3>. QED BY <1>1, <3>1 DEF CuRecord
  <2>2. CASE m.t = "send"
    <3>1. cu' = [cu EXCEPT !.f1q = Tail(@), !.q = Append(@, m)]
      BY <2>2 DEF CuF1Receives
    <3>. QED BY <1>1, <2>2, <3>1 DEF CuRecord
  <2>3. CASE m.t \notin {"established", "send"}
    <3>1. cu' = [cu EXCEPT !.f1q = Tail(@)]
      BY <2>3 DEF CuF1Receives
    <3>. QED BY <1>1, <2>3, <3>1 DEF CuRecord
  <2>. QED BY <2>1, <2>2, <2>3
<1>4. /\ \A y : y \in Range(cu.q) => y \in Range(cu'.q)
      /\ m.t = "established" => M("handshake", m.a) \in Range(cu'.q)
  <2>1. \A x : Range(Append(cu.q, x)) = Range(cu.q) \cup {x}
    BY <1>1, RangeAppend
  <2>. QED BY <1>3, <2>1
<1>5. \A a : M("established", a) \in Range(cu.f1q) =>
                \/ M("established", a) \in Range(cu'.f1q)
                \/ M("handshake", a) \in Range(cu'.q)
  BY <1>2, <1>3, <1>4 DEF M
<1>6. \A b : CuEnd(b)' <=> CuEnd(b)
  BY <1>3 DEF CuEnd
<1>7. FirstDataIsSetupRequest'
  BY <1>2, <1>3 DEF FirstInv, FirstDataIsSetupRequest
<1>. QED BY <1>1, <1>3, <1>4, <1>5, <1>6, <1>7, CuQuiet

LEMMA FirstRrcReceives ==
    ASSUME NEW d, Dus = {d}, DuInv, Rest, Rest', FirstInv(d), RrcReceives
    PROVE  FirstInv(d)'
<1>1. /\ cu.f1q \in Seq(Msg) /\ cu \in CuRecord /\ UNCHANGED <<du, toCu, toDu>>
  BY CuFacts DEF RrcReceives
<1>2. \/ cu' = cu
      \/ \E x : x.t = "send" /\ cu' = [cu EXCEPT !.f1q = Append(@, x)]
  BY DEF RrcReceives, RrcSetupReq, RrcLostConnection
<1>3. /\ cu'.task = cu.task /\ cu'.at = cu.at /\ cu'.hs = cu.hs /\ cu'.cnx = cu.cnx
      /\ cu'.backlog = cu.backlog /\ cu'.q = cu.q
      /\ cu'.f1q = cu.f1q \/ \E x : x.t = "send" /\ cu'.f1q = Append(cu.f1q, x)
  BY <1>1, <1>2 DEF CuRecord
<1>4. /\ \A y : y \in Range(cu.f1q) => y \in Range(cu'.f1q)
      /\ \A y : y \in Range(cu'.f1q) => y \in Range(cu.f1q) \/ y.t = "send"
  <2>1. \A x : Range(Append(cu.f1q, x)) = Range(cu.f1q) \cup {x}
    BY <1>1, RangeAppend
  <2>. QED BY <1>3, <2>1
<1>5. \A b : CuEnd(b)' <=> CuEnd(b)
  BY <1>3 DEF CuEnd
<1>6. FirstDataIsSetupRequest'
  BY <1>4 DEF FirstInv, FirstDataIsSetupRequest
<1>. QED BY <1>1, <1>3, <1>4, <1>5, <1>6, CuQuiet

(* The CU in its loop reads no flight of a handshake as data.              *)
LEMMA FirstCuReadFromSocket ==
    ASSUME NEW d, Dus = {d}, DuInv, Rest, Rest', FirstInv(d), CuReadFromSocket
    PROVE  FirstInv(d)'
<1>1. PICK a \in cu.events \ {None} :
        /\ cu.task = "loop" /\ toCu' = [toCu EXCEPT ![a] = Tail(@)] /\ UNCHANGED <<du, toDu>>
        /\ LET m == Head(toCu[a])
               Tell(x) == [cu EXCEPT !.events = @ \ {a}, !.f1q = Append(@, x)]
           IN cu' = CASE m.t = "commUp" -> Tell(M("established", a))
                      [] m.t = "lost" ->
                           [Tell(M("lost", a)) EXCEPT !.cnx = @ \ {a}, !.hs = @ \ {a}]
                      [] OTHER -> Tell([t |-> "data", a |-> a,
                                        p |-> Received(m, a \in cu.hs)])
  BY DEF CuReadFromSocket
<1>. PICK m : m = Head(toCu[a])
  OBVIOUS
<1>2. /\ cu \in CuRecord /\ cu.f1q \in Seq(Msg) /\ toCu \in [Assoc -> Seq(Wire)]
      /\ a \in cu.cnx /\ a \in Assoc /\ toCu[a] # <<>> /\ toCu[a] \in Seq(Wire) /\ m \in Wire
  <2>1. a \in cu.cnx /\ toCu[a] # <<>>
    BY <1>1 DEF Rest, CuInv, WireInv
  <2>2. a \in Assoc /\ toCu[a] \in Seq(Wire)
    BY <2>1, CuFacts
  <2>. QED BY <2>1, <2>2, CuFacts, SocketTail
<1>3. /\ toCu'[a] = Tail(toCu[a]) /\ \A b \in Assoc \ {a} : toCu'[b] = toCu[b]
      /\ Range(toCu[a]) = Range(toCu'[a]) \cup {m}
      /\ \A t : Has(toCu[a], t) <=> Has(toCu'[a], t) \/ m.t = t
      /\ \A t : Once(toCu[a], t) => Once(toCu'[a], t)
  <2>1. toCu'[a] = Tail(toCu[a]) /\ \A b \in Assoc \ {a} : toCu'[b] = toCu[b]
    BY <1>1, <1>2
  <2>. QED BY <1>2, <2>1, RangeTail, HasTail
<1>4. CuEnd(a) /\ SocketOK(d, a) /\ ~Stuck(d) /\ \A t \in {"hello", "finished"} : ~At(t, a)
  BY <1>1, <1>2 DEF CuEnd, FirstInv, SocketInv, Stuck, At
<1>5. m.t \in {"commUp", "lost", "setupReq"} /\ (m.t = "setupReq" => a \in cu.hs /\ m.enc)
  <2>1. m \in Range(toCu[a])
    BY <1>3
  <2>2. Has(toCu[a], m.t)
    BY <2>1 DEF Has
  <2>3. m.t = "setupReq" => m.enc
    BY <1>2, <2>1 DEF Rest, F1apProtected, F1aps
  <2>. QED BY <1>4, <2>1, <2>2, <2>3 DEF SocketOK
<1>6. \E x : /\ cu'.f1q = Append(cu.f1q, x) /\ (x.t = "data" => x.p = "setupReq")
             /\ m.t = "commUp" => x = M("established", a)
             /\ cu'.q = cu.q /\ cu'.task = "loop" /\ cu'.at = cu.at
             /\ cu'.backlog = cu.backlog
             /\ \/ m.t # "lost" /\ cu'.cnx = cu.cnx /\ cu'.hs = cu.hs
                \/ m.t = "lost" /\ cu'.cnx = cu.cnx \ {a} /\ cu'.hs = cu.hs \ {a}
  <2>1. CASE m.t = "commUp"
    <3>1. cu' = [cu EXCEPT !.events = @ \ {a}, !.f1q = Append(@, M("established", a))]
      BY <1>1, <2>1
    <3>2. M("established", a).t # "data"
      BY DEF M
    <3>3. /\ cu'.f1q = Append(cu.f1q, M("established", a)) /\ cu'.q = cu.q
          /\ cu'.task = cu.task /\ cu'.at = cu.at /\ cu'.backlog = cu.backlog
          /\ cu'.cnx = cu.cnx /\ cu'.hs = cu.hs
      BY ONLY <1>2, <3>1 DEF CuRecord
    <3>. QED BY <1>1, <2>1, <3>2, <3>3
  <2>2. CASE m.t = "lost"
    <3>1. cu' = [cu EXCEPT !.events = @ \ {a}, !.f1q = Append(@, M("lost", a)),
                           !.cnx = @ \ {a}, !.hs = @ \ {a}]
      BY <1>1, <1>2, <2>2 DEF CuRecord
    <3>2. M("lost", a).t # "data"
      BY DEF M
    <3>3. /\ cu'.f1q = Append(cu.f1q, M("lost", a)) /\ cu'.q = cu.q
          /\ cu'.task = cu.task /\ cu'.at = cu.at /\ cu'.backlog = cu.backlog
          /\ cu'.cnx = cu.cnx \ {a} /\ cu'.hs = cu.hs \ {a}
      BY ONLY <1>2, <3>1 DEF CuRecord
    <3>. QED BY <1>1, <2>2, <3>2, <3>3
  <2>3. CASE m.t = "setupReq"
    <3>1. Received(m, a \in cu.hs) = "setupReq"
      BY <1>2, <1>5, <2>3 DEF Received, Wire
    <3>2. cu' = [cu EXCEPT !.events = @ \ {a},
                           !.f1q = Append(@, [t |-> "data", a |-> a, p |-> "setupReq"])]
      BY <1>1, <2>3, <3>1
    <3>3. /\ cu'.f1q = Append(cu.f1q, [t |-> "data", a |-> a, p |-> "setupReq"])
          /\ cu'.q = cu.q
          /\ cu'.task = cu.task /\ cu'.at = cu.at /\ cu'.backlog = cu.backlog
          /\ cu'.cnx = cu.cnx /\ cu'.hs = cu.hs
      BY ONLY <1>2, <3>2 DEF CuRecord
    <3>. QED BY <1>1, <2>3, <3>3
  <2>. QED BY <1>5, <2>1, <2>2, <2>3
<1>7. PICK x : /\ cu'.f1q = Append(cu.f1q, x) /\ (x.t = "data" => x.p = "setupReq")
               /\ m.t = "commUp" => x = M("established", a)
               /\ cu'.q = cu.q /\ cu'.task = "loop" /\ cu'.at = cu.at
               /\ cu'.backlog = cu.backlog
               /\ \/ m.t # "lost" /\ cu'.cnx = cu.cnx /\ cu'.hs = cu.hs
                  \/ m.t = "lost" /\ cu'.cnx = cu.cnx \ {a} /\ cu'.hs = cu.hs \ {a}
  BY <1>6
<1>8. Range(cu'.f1q) = Range(cu.f1q) \cup {x}
  BY <1>2, <1>7, RangeAppend
<1>9. FirstDataIsSetupRequest'
  BY <1>7, <1>8 DEF FirstInv, FirstDataIsSetupRequest
<1>10. \A b : CuEnd(b)' => CuEnd(b) /\ (b = a => m.t # "lost")
  BY <1>2, <1>7 DEF CuEnd, Rest, EndsInv
<1>11. \A b : CuEnd(b)' => (b \in cu'.hs <=> b \in cu.hs)
  BY <1>7, <1>10
<1>12. \A t \in {"hello", "finished"} : \A b : ~At(t, b) /\ ~At(t, b)'
  BY <1>1, <1>7 DEF At
<1>13. HelloInv(d)' /\ SendsInv(d)'
  BY <1>1 DEF FirstInv, HelloInv, SendsInv
<1>14. ASSUME NEW b \in Assoc, CuEnd(b)'
       PROVE  /\ \A t : Has(toCu'[b], t) => Has(toCu[b], t)
              /\ \A t : Once(toCu[b], t) => Once(toCu'[b], t)
              /\ Range(toCu'[b]) \subseteq Range(toCu[b])
              /\ Has(toCu[b], "commUp") =>
                    Has(toCu'[b], "commUp") \/ M("established", b) \in Range(cu'.f1q)
  <2>1. CASE b = a
    BY <1>3, <1>7, <1>8, <2>1
  <2>2. CASE b # a
    BY <1>3, <2>2
  <2>. QED BY <2>1, <2>2
<1>15. StepInv(d)'
  <2>. PICK c : c = du[d].cnx
    OBVIOUS
  <2>1. SUFFICES ASSUME c # None, CuEnd(c)' PROVE InStep(d)'
    BY <1>1 DEF StepInv
  <2>2. InStep(d) /\ c \in Assoc
    BY <1>1, <1>10, <2>1, OnlyDu DEF FirstInv, StepInv
  <2>. QED BY <1>1, <1>4, <1>11, <1>12, <1>14, <2>1, <2>2 DEF InStep
<1>16. SocketInv(d)'
  <2>1. ASSUME NEW b \in Assoc, CuEnd(b)' PROVE SocketOK(d, b)'
    <3>1. SocketOK(d, b)
      BY <1>10, <2>1 DEF FirstInv, SocketInv
    <3>. QED BY <1>4, <1>11, <1>12, <1>14, <2>1, <3>1 DEF SocketOK
  <2>. QED BY <2>1 DEF SocketInv
<1>17. DueInv'
  <2>1. ASSUME NEW b \in Assoc, CuEnd(b)' PROVE DueAt(b)'
    <3>1. DueAt(b)
      BY <1>10, <2>1 DEF FirstInv, DueInv
    <3>. QED BY <1>1, <1>7, <1>8, <1>11, <1>12, <1>14, <2>1, <3>1 DEF DueAt
  <2>. QED BY <2>1 DEF DueInv
<1>. QED BY <1>9, <1>13, <1>15, <1>16, <1>17 DEF FirstInv

(* The CU enters a handshake: no socket of its holds a flight yet.         *)
LEMMA FirstCuSslDoHandshake ==
    ASSUME NEW d, Dus = {d}, DuInv, Rest, FirstInv(d), CuSslDoHandshake
    PROVE  FirstInv(d)'
<1>. PICK m : m = Head(cu.q)
  OBVIOUS
<1>. PICK a : a = m.a
  OBVIOUS
<1>1. /\ CuTake("handshake") /\ m.t = "handshake" /\ cu.q # <<>> /\ UNCHANGED <<du, toCu, toDu>>
      /\ cu' = [Took EXCEPT !.at = a, !.task = IF a \in cu.cnx THEN "hello" ELSE "undefined"]
  BY DEF CuSslDoHandshake, CuTake
<1>2. /\ Took \in CuRecord /\ Took.q = Tail(cu.q) /\ Took.f1q = cu.f1q
      /\ Took.cnx = cu.cnx /\ Took.hs = cu.hs /\ Took.backlog = cu.backlog
      /\ cu.task = "loop"
  BY <1>1, CuTakeFacts
<1>3. /\ cu'.q = Tail(cu.q) /\ cu'.f1q = cu.f1q /\ cu'.cnx = cu.cnx /\ cu'.hs = cu.hs
      /\ cu'.backlog = cu.backlog /\ cu'.at = a
      /\ cu'.task = IF a \in cu.cnx THEN "hello" ELSE "undefined"
  BY <1>1, <1>2 DEF CuRecord
<1>4. Range(cu.q) = Range(Tail(cu.q)) \cup {m}
  BY <1>1, CuFacts, RangeTail
<1>5. \A b : CuEnd(b)' <=> CuEnd(b)
  BY <1>3 DEF CuEnd
<1>6. ~Stuck(d) /\ \A t \in {"hello", "finished"} : \A b : ~At(t, b)
  BY <1>2 DEF Stuck, At
<1>7. Stuck(d)' \/ At("hello", a)'
  BY <1>3 DEF Stuck, At
<1>8. \A b : ~At("finished", b)'
  BY <1>3 DEF At
<1>9. SocketInv(d)'
  <2>1. ASSUME NEW b \in Assoc, CuEnd(b) PROVE SocketOK(d, b)'
    <3>1. SocketOK(d, b)
      BY <2>1 DEF FirstInv, SocketInv
    <3>. QED BY <1>1, <1>3, <1>6, <3>1 DEF SocketOK
  <2>. QED BY <1>5, <2>1 DEF SocketInv
<1>10. StepInv(d)'
  <2>. PICK c : c = du[d].cnx
    OBVIOUS
  <2>1. SUFFICES ASSUME c # None, CuEnd(c) PROVE InStep(d)'
    BY <1>1, <1>5 DEF StepInv
  <2>2. InStep(d)
    BY <2>1 DEF FirstInv, StepInv
  <2>. QED BY <1>1, <1>3, <1>6, <1>8, <2>2 DEF InStep
<1>11. DueInv'
  <2>1. ASSUME NEW b \in Assoc, CuEnd(b) PROVE DueAt(b)'
    <3>1. DueAt(b)
      BY <2>1 DEF FirstInv, DueInv
    <3>2. CASE b = a
      BY <1>3, <3>2 DEF DueAt, At
    <3>3. CASE b # a
      <4>1. M("handshake", b) # m
        BY <3>3 DEF M
      <4>. QED BY <1>1, <1>2, <1>3, <1>4, <1>6, <3>1, <4>1 DEF DueAt
    <3>. QED BY <3>2, <3>3
  <2>. QED BY <1>5, <2>1 DEF DueInv
<1>12. HelloInv(d)' /\ SendsInv(d)' /\ FirstDataIsSetupRequest'
  BY <1>1, <1>3 DEF FirstInv, HelloInv, SendsInv, FirstDataIsSetupRequest
<1>. QED BY <1>9, <1>10, <1>11, <1>12 DEF FirstInv

(* The CU goes on with a handshake.                                        *)
LEMMA FirstCuHandshakeReads ==
    ASSUME NEW d, Dus = {d}, DuInv, Rest, FirstInv(d), CuHandshakeReads
    PROVE  FirstInv(d)'
<1>. PICK a : a = cu.at
  OBVIOUS
<1>. PICK m : m = Head(toCu[a])
  OBVIOUS
<1>1. /\ cu.task \in {"hello", "finished"} /\ toCu[a] # <<>> /\ UNCHANGED du
      /\ toCu' = [toCu EXCEPT ![a] = Tail(@)]
      /\ \/ /\ m.t = "hello" /\ cu.task = "hello"
            /\ cu' = [cu EXCEPT !.task = "finished"]
            /\ toDu' = ToDu(a, Plain("flight"))
         \/ /\ m.t = "finished" /\ cu.task = "finished"
            /\ cu' = [cu EXCEPT !.task = "loop", !.at = None, !.hs = @ \cup {a}]
            /\ UNCHANGED toDu
         \/ /\ cu' = [cu EXCEPT !.task = "undefined"]
            /\ UNCHANGED toDu
  BY DEF CuHandshakeReads
<1>2. /\ cu \in CuRecord /\ toCu \in [Assoc -> Seq(Wire)] /\ toDu \in [Assoc -> Seq(Wire)]
      /\ a \in cu.cnx /\ a \in Assoc /\ a \in Issued /\ toCu[a] \in Seq(Wire) /\ a # None
  <2>1. a \in cu.cnx
    BY <1>1 DEF Rest, CuInv
  <2>. QED BY <2>1, CuFacts, OnlyDu DEF CuEnd
<1>3. /\ toCu'[a] = Tail(toCu[a]) /\ \A b \in Assoc \ {a} : toCu'[b] = toCu[b]
      /\ Range(toCu[a]) = Range(toCu'[a]) \cup {m}
      /\ \A t : Has(toCu[a], t) <=> Has(toCu'[a], t) \/ m.t = t
      /\ \A t : Once(toCu[a], t) => Once(toCu'[a], t) /\ (m.t = t => ~Has(toCu'[a], t))
  <2>1. toCu'[a] = Tail(toCu[a]) /\ \A b \in Assoc \ {a} : toCu'[b] = toCu[b]
    BY <1>1, <1>2
  <2>2. toCu[a] # <<>> /\ toCu[a] \in Seq(Wire)
    BY <1>1, <1>2
  <2>. QED BY ONLY m = Head(toCu[a]), <2>1, <2>2, RangeTail, HasTail
<1>4. CuEnd(a) /\ SocketOK(d, a)
  BY <1>2 DEF CuEnd, FirstInv, SocketInv
<1>5. /\ cu'.q = cu.q /\ cu'.f1q = cu.f1q /\ cu'.cnx = cu.cnx /\ cu'.backlog = cu.backlog
      /\ \A b : CuEnd(b)' <=> CuEnd(b)
  <2>1. cu'.q = cu.q /\ cu'.f1q = cu.f1q /\ cu'.cnx = cu.cnx /\ cu'.backlog = cu.backlog
    BY <1>1, <1>2 DEF CuRecord
  <2>. QED BY <2>1 DEF CuEnd
<1>6. SendsInv(d)' /\ FirstDataIsSetupRequest'
  BY <1>1, <1>5 DEF FirstInv, SendsInv, FirstDataIsSetupRequest
<1>7. CASE cu' = [cu EXCEPT !.task = "undefined"] /\ UNCHANGED toDu
  <2>1. cu'.task = "undefined" /\ cu'.hs = cu.hs
    BY <1>2, <1>7 DEF CuRecord
  <2>2. Stuck(d)' /\ \A t \in {"hello", "finished"} : \A b : ~At(t, b)'
    BY <2>1 DEF Stuck, At
  <2>3. HelloInv(d)'
    BY <1>1, <1>7 DEF FirstInv, HelloInv
  <2>5. StepInv(d)'
    <3>. PICK c : c = du[d].cnx
      OBVIOUS
    <3>1. SUFFICES ASSUME c # None, CuEnd(c) PROVE InStep(d)'
      BY <1>1, <1>5 DEF StepInv
    <3>2. InStep(d) /\ c \in Assoc /\ \A t : Has(toCu'[c], t) => Has(toCu[c], t)
      BY <1>3, <3>1, OnlyDu DEF FirstInv, StepInv
    <3>. QED BY <1>1, <1>7, <2>1, <2>2, <3>2 DEF InStep
  <2>6. SocketInv(d)'
    <3>1. ASSUME NEW b \in Assoc, CuEnd(b) PROVE SocketOK(d, b)'
      <4>1. SocketOK(d, b)
        BY <3>1 DEF FirstInv, SocketInv
      <4>2. /\ \A t : Once(toCu[b], t) => Once(toCu'[b], t)
            /\ \A t : Has(toCu'[b], t) => Has(toCu[b], t)
            /\ Range(toCu'[b]) \subseteq Range(toCu[b])
        BY <1>3
      <4>. QED BY <2>2, <4>1, <4>2 DEF SocketOK
    <3>. QED BY <1>5, <3>1 DEF SocketInv
  <2>7. DueInv'
    BY <2>1 DEF DueInv, DueAt
  <2>. QED BY <1>6, <2>3, <2>5, <2>6, <2>7 DEF FirstInv
<1>8. ASSUME m.t \in {"hello", "finished"} PROVE ~Stuck(d)
  <2>1. m \in Range(toCu[cu.at])
    BY <1>3
  <2>. QED BY <1>1, <1>8, <2>1 DEF Stuck
<1>9. CASE /\ m.t = "hello" /\ cu.task = "hello" /\ cu' = [cu EXCEPT !.task = "finished"]
           /\ toDu' = ToDu(a, Plain("flight"))
  <2>. PICK w : w = Plain("flight")
    OBVIOUS
  <2>1. cu'.task = "finished" /\ cu'.hs = cu.hs /\ cu'.at = a
    BY <1>2, <1>9 DEF CuRecord
  <2>2. /\ At("hello", a) /\ At("finished", a)' /\ \A b : ~At("finished", b) /\ ~At("hello", b)'
        /\ \A b : At("hello", b) => b = a
    BY <1>9, <2>1 DEF At
  <2>3. /\ ~Has(toCu[a], "finished") /\ ~Has(toCu'[a], "finished") /\ ~Has(toCu'[a], "hello")
    BY <1>3, <1>4, <1>8, <1>9, <2>2 DEF SocketOK
  <2>4. w.t = "flight"
    BY DEF Plain
  <2>5. ASSUME NEW b \in Assoc, b # a \/ du[d].cnx # a PROVE toDu'[b] = toDu[b]
    BY <1>2, <1>9, <2>5, OnlyDu DEF ToDu
  <2>6. du[d].cnx = a =>
               \A t : /\ Has(toDu'[a], t) <=> Has(toDu[a], t) \/ w.t = t
                      /\ Once(toDu[a], t) /\ ~(Has(toDu[a], t) /\ w.t = t) => Once(toDu'[a], t)
    <3>. SUFFICES ASSUME du[d].cnx = a, NEW t
         PROVE  /\ Has(toDu'[a], t) <=> Has(toDu[a], t) \/ w.t = t
                /\ Once(toDu[a], t) /\ ~(Has(toDu[a], t) /\ w.t = t) => Once(toDu'[a], t)
      OBVIOUS
    <3>1. toDu[a] \in Seq(Wire)
      BY <1>2
    <3>2. toDu'[a] = Append(toDu[a], w)
      BY <1>2, <1>9, OnlyDu DEF ToDu
    <3>. QED BY ONLY <3>1, <3>2, HasAppend
  <2>7. HelloInv(d)'
    <3>. PICK c : c = du[d].cnx
      OBVIOUS
    <3>1. SUFFICES ASSUME c # None PROVE OneHello(du[d], toDu'[c])
      BY <1>1 DEF HelloInv
    <3>2. OneHello(du[d], toDu[c]) /\ c \in Assoc
      BY <3>1, OnlyDu DEF FirstInv, HelloInv
    <3>3. (Has(toDu'[c], "commUp") <=> Has(toDu[c], "commUp"))
          /\ (Once(toDu[c], "commUp") => Once(toDu'[c], "commUp"))
      BY <2>4, <2>5, <2>6, <3>2
    <3>. QED BY <3>2, <3>3 DEF OneHello
  <2>8. StepInv(d)'
    <3>. PICK c : c = du[d].cnx
      OBVIOUS
    <3>1. SUFFICES ASSUME c # None, CuEnd(c) PROVE InStep(d)'
      BY <1>1, <1>5 DEF StepInv
    <3>2. InStep(d) /\ c \in Assoc /\ OneHello(du[d], toDu[c])
      BY <3>1, OnlyDu DEF FirstInv, StepInv, HelloInv
    <3>3. CASE c = a
      <4>1. Has(toCu[a], "hello") /\ Past(du[d])
        BY <1>3, <1>9, <3>2, <3>3 DEF InStep
      <4>2. ~Has(du[d].q, "handshake")
        BY <3>2, <4>1 DEF OneHello
      <4>3. ~Has(toDu[a], "flight") /\ Once(toDu[a], "flight")
        BY <1>8, <1>9, <2>2, <3>2, <3>3 DEF InStep
      <4>4. Once(toDu'[a], "flight")
        BY <2>6, <3>3, <4>3
      <4>. QED BY <1>1, <2>1, <2>2, <2>3, <3>3, <4>1, <4>2, <4>4 DEF InStep
    <3>4. CASE c # a
      <4>1. toCu'[c] = toCu[c] /\ toDu'[c] = toDu[c] /\ ~At("hello", c) /\ ~At("finished", c)'
        BY <1>3, <2>1, <2>2, <2>5, <3>2, <3>4 DEF At
      <4>2. /\ ~Has(du[d].q, "handshake") /\ (du[d].hs => c \in cu.hs)
            /\ ~Has(toDu[c], "flight")
        BY <1>8, <1>9, <2>2, <3>2, <4>1 DEF InStep
      <4>. QED BY <1>1, <2>1, <2>2, <3>2, <4>1, <4>2 DEF InStep
    <3>. QED BY <3>3, <3>4
  <2>9. SocketInv(d)'
    <3>1. ASSUME NEW b \in Assoc, CuEnd(b) PROVE SocketOK(d, b)'
      <4>1. SocketOK(d, b)
        BY <3>1 DEF FirstInv, SocketInv
      <4>2. CASE b = a
        BY <1>3, <2>2, <2>3, <4>1, <4>2 DEF SocketOK
      <4>3. CASE b # a
        <5>1. toCu'[b] = toCu[b] /\ ~At("hello", b)
          BY <1>3, <2>2, <4>3
        <5>. QED BY <1>8, <1>9, <2>1, <2>2, <4>1, <5>1 DEF SocketOK
      <4>. QED BY <4>2, <4>3
    <3>. QED BY <1>5, <3>1 DEF SocketInv
  <2>10. DueInv'
    <3>1. ASSUME NEW b \in Assoc, CuEnd(b) PROVE DueAt(b)'
      <4>1. DueAt(b)
        BY <3>1 DEF FirstInv, DueInv
      <4>2. CASE b = a
        BY <2>2, <4>2 DEF DueAt
      <4>3. CASE b # a
        <5>1. toCu'[b] = toCu[b] /\ ~At("hello", b) /\ ~At("finished", b)
          BY <1>3, <2>2, <4>3
        <5>. QED BY <1>5, <1>9, <2>1, <4>1, <5>1 DEF DueAt
      <4>. QED BY <4>2, <4>3
    <3>. QED BY <1>5, <3>1 DEF DueInv
  <2>. QED BY <1>6, <2>7, <2>8, <2>9, <2>10 DEF FirstInv
<1>10. CASE /\ m.t = "finished" /\ cu.task = "finished" /\ UNCHANGED toDu
            /\ cu' = [cu EXCEPT !.task = "loop", !.at = None, !.hs = @ \cup {a}]
  <2>1. cu'.task = "loop" /\ cu'.hs = cu.hs \cup {a}
    BY <1>2, <1>10 DEF CuRecord
  <2>2. /\ At("finished", a) /\ \A b : ~At("finished", b)' /\ ~At("hello", b)' /\ ~At("hello", b)
        /\ \A b : At("finished", b) => b = a
    BY <1>10, <2>1 DEF At
  <2>3. ~Has(toCu'[a], "finished") /\ ~Has(toCu'[a], "hello") /\ ~Has(toCu'[a], "alert")
    BY <1>3, <1>4, <1>8, <1>10, <2>2 DEF SocketOK
  <2>4. HelloInv(d)'
    BY <1>1, <1>10 DEF FirstInv, HelloInv
  <2>5. StepInv(d)'
    <3>. PICK c : c = du[d].cnx
      OBVIOUS
    <3>1. SUFFICES ASSUME c # None, CuEnd(c) PROVE InStep(d)'
      BY <1>1, <1>5 DEF StepInv
    <3>2. InStep(d) /\ c \in Assoc
      BY <3>1, OnlyDu DEF FirstInv, StepInv
    <3>3. ~Has(du[d].q, "handshake")
      BY <1>8, <1>10, <2>2, <3>2 DEF InStep
    <3>4. CASE c = a
      <4>1. Past(du[d]) /\ Has(toCu[a], "finished")
        BY <1>3, <1>10, <2>2, <3>2, <3>4 DEF InStep
      <4>2. ~Has(toDu[a], "flight") /\ Once(toDu[a], "flight")
        BY <3>2, <3>4, <4>1 DEF InStep
      <4>. QED BY <1>1, <1>10, <2>1, <3>3, <3>4, <4>1, <4>2 DEF InStep
    <3>5. CASE c # a
      <4>1. toCu'[c] = toCu[c] /\ ~At("finished", c)
        BY <1>3, <2>2, <3>2, <3>5
      <4>2. (du[d].hs => c \in cu.hs) /\ ~Has(toDu[c], "flight")
        BY <1>8, <1>10, <3>2, <4>1 DEF InStep
      <4>. QED BY <1>1, <1>10, <2>1, <2>2, <3>2, <3>3, <3>5, <4>1, <4>2 DEF InStep
    <3>. QED BY <3>4, <3>5
  <2>6. SocketInv(d)'
    <3>1. ASSUME NEW b \in Assoc, CuEnd(b) PROVE SocketOK(d, b)'
      <4>1. SocketOK(d, b)
        BY <3>1 DEF FirstInv, SocketInv
      <4>2. CASE b = a
        BY <1>3, <2>1, <2>3, <4>1, <4>2 DEF SocketOK
      <4>3. CASE b # a
        <5>1. toCu'[b] = toCu[b] /\ ~At("finished", b)
          BY <1>3, <2>2, <4>3
        <5>. QED BY <1>8, <1>10, <2>1, <2>2, <4>1, <5>1 DEF SocketOK
      <4>. QED BY <4>2, <4>3
    <3>. QED BY <1>5, <3>1 DEF SocketInv
  <2>7. DueInv'
    <3>1. ASSUME NEW b \in Assoc, CuEnd(b) PROVE DueAt(b)'
      <4>1. DueAt(b)
        BY <3>1 DEF FirstInv, DueInv
      <4>2. CASE b = a
        BY <2>1, <4>2 DEF DueAt
      <4>3. CASE b # a
        <5>1. toCu'[b] = toCu[b] /\ ~At("hello", b) /\ ~At("finished", b)
          BY <1>3, <2>2, <4>3
        <5>. QED BY <1>5, <1>10, <2>1, <4>1, <5>1 DEF DueAt
      <4>. QED BY <4>2, <4>3
    <3>. QED BY <1>5, <3>1 DEF DueInv
  <2>. QED BY <1>6, <2>4, <2>5, <2>6, <2>7 DEF FirstInv
<1>. QED BY <1>1, <1>7, <1>9, <1>10

(* The CU refuses a handshake, and is in it from then on.                   *)
LEMMA FirstCuHandshakeFails ==
    ASSUME NEW d, Dus = {d}, DuInv, Rest, FirstInv(d), CuHandshakeFails
    PROVE  FirstInv(d)'
<1>. PICK a : a = cu.at
  OBVIOUS
<1>. PICK w : w = Plain("alert")
  OBVIOUS
<1>1. /\ cu.task \in {"hello", "finished"} /\ toCu[a] # <<>> /\ UNCHANGED du
      /\ toCu' = [toCu EXCEPT ![a] = Tail(@)] /\ toDu' \in {toDu, ToDu(a, w)}
      /\ cu' = [cu EXCEPT !.task = "refused"]
  BY DEF CuHandshakeFails
<1>2. /\ cu \in CuRecord /\ toCu \in [Assoc -> Seq(Wire)] /\ toDu \in [Assoc -> Seq(Wire)]
      /\ a \in Assoc /\ toCu[a] \in Seq(Wire)
  <2>1. a \in cu.cnx
    BY <1>1 DEF Rest, CuInv
  <2>. QED BY <2>1, CuFacts, OnlyDu DEF CuEnd
<1>3. /\ \A b \in Assoc \ {a} : toCu'[b] = toCu[b]
      /\ Range(toCu'[a]) \subseteq Range(toCu[a])
      /\ \A t : Has(toCu'[a], t) => Has(toCu[a], t)
      /\ \A t : Once(toCu[a], t) => Once(toCu'[a], t)
  <2>1. toCu'[a] = Tail(toCu[a]) /\ \A b \in Assoc \ {a} : toCu'[b] = toCu[b]
    BY <1>1, <1>2
  <2>2. toCu[a] # <<>> /\ toCu[a] \in Seq(Wire)
    BY <1>1, <1>2
  <2>. QED BY ONLY <2>1, <2>2, RangeTail, HasTail
<1>4. /\ cu'.task = "refused" /\ cu'.hs = cu.hs /\ cu'.q = cu.q /\ cu'.f1q = cu.f1q
      /\ cu'.cnx = cu.cnx /\ cu'.backlog = cu.backlog
  BY <1>1, <1>2 DEF CuRecord
<1>5. \A b : CuEnd(b)' <=> CuEnd(b)
  BY <1>4 DEF CuEnd
<1>6. Stuck(d)' /\ \A t \in {"hello", "finished"} : \A b : ~At(t, b)'
  BY <1>4 DEF Stuck, At
<1>7. ASSUME NEW b \in Assoc
      PROVE  \A t \in {"flight", "commUp"} : /\ Has(toDu'[b], t) <=> Has(toDu[b], t)
                                             /\ Once(toDu[b], t) => Once(toDu'[b], t)
  <2>1. toDu[b] \in Seq(Wire) /\ toDu'[b] \in {toDu[b], Append(toDu[b], w)}
    BY <1>1, <1>2 DEF ToDu
  <2>2. w.t = "alert"
    BY DEF Plain
  <2>3. ASSUME NEW t \in {"flight", "commUp"}
        PROVE  /\ Has(Append(toDu[b], w), t) <=> Has(toDu[b], t)
               /\ Once(toDu[b], t) => Once(Append(toDu[b], w), t)
    BY <2>1, <2>2, HasAppend
  <2>. QED BY <2>1, <2>3
<1>8. HelloInv(d)'
  <2>. PICK c : c = du[d].cnx
    OBVIOUS
  <2>1. SUFFICES ASSUME c # None PROVE OneHello(du[d], toDu'[c])
    BY <1>1 DEF HelloInv
  <2>2. OneHello(du[d], toDu[c]) /\ c \in Assoc
    BY <2>1, OnlyDu DEF FirstInv, HelloInv
  <2>. QED BY <1>7, <2>2 DEF OneHello
<1>9. StepInv(d)'
  <2>. PICK c : c = du[d].cnx
    OBVIOUS
  <2>1. SUFFICES ASSUME c # None, CuEnd(c) PROVE InStep(d)'
    BY <1>1, <1>5 DEF StepInv
  <2>2. InStep(d) /\ c \in Assoc /\ \A t : Has(toCu'[c], t) => Has(toCu[c], t)
    BY <1>3, <2>1, OnlyDu DEF FirstInv, StepInv
  <2>. QED BY <1>1, <1>4, <1>6, <1>7, <2>2 DEF InStep
<1>10. SocketInv(d)'
  <2>1. ASSUME NEW b \in Assoc, CuEnd(b) PROVE SocketOK(d, b)'
    <3>1. SocketOK(d, b)
      BY <2>1 DEF FirstInv, SocketInv
    <3>2. /\ \A t : Once(toCu[b], t) => Once(toCu'[b], t)
          /\ \A t : Has(toCu'[b], t) => Has(toCu[b], t)
          /\ Range(toCu'[b]) \subseteq Range(toCu[b])
      BY <1>3
    <3>. QED BY <1>6, <3>1, <3>2 DEF SocketOK
  <2>. QED BY <1>5, <2>1 DEF SocketInv
<1>11. DueInv'
  BY <1>4 DEF DueInv, DueAt
<1>12. SendsInv(d)' /\ FirstDataIsSetupRequest'
  BY <1>1, <1>4 DEF FirstInv, SendsInv, FirstDataIsSetupRequest
<1>. QED BY <1>8, <1>9, <1>10, <1>11, <1>12 DEF FirstInv

(* A CU that is gone, or has just started, has no connection.              *)
LEMMA FirstCuRestarts ==
    ASSUME NEW d, Dus = {d}, DuInv, Rest, FirstInv(d), CuDies \/ CuStarts
    PROVE  FirstInv(d)'
<1>1. cu' \in {CuOff, CuStarted} /\ UNCHANGED du
  BY DEF CuDies, CuStarts
<1>2. /\ cu'.cnx = {} /\ Range(cu'.backlog) = {} /\ Range(cu'.f1q) = {}
  <2>1. /\ CuStarted.cnx = {} /\ CuStarted.backlog = <<>> /\ CuStarted.f1q = <<>>
        /\ CuOff.cnx = {} /\ CuOff.backlog = <<>> /\ CuOff.f1q = <<>>
    BY DEF CuOff, CuStarted
  <2>. QED BY <1>1, <2>1, RangeEmpty
<1>3. \A a : ~CuEnd(a)'
  BY <1>2 DEF CuEnd
<1>4. StepInv(d)' /\ SocketInv(d)' /\ DueInv' /\ FirstDataIsSetupRequest'
  BY <1>2, <1>3 DEF StepInv, SocketInv, DueInv, FirstDataIsSetupRequest
<1>5. SendsInv(d)'
  BY <1>1 DEF FirstInv, SendsInv
<1>6. HelloInv(d)'
  <2>. PICK c : c = du[d].cnx
    OBVIOUS
  <2>1. SUFFICES ASSUME c # None PROVE OneHello(du[d], toDu'[c])
    BY <1>1 DEF HelloInv
  <2>2. OneHello(du[d], toDu[c]) /\ c \in Assoc /\ toDu[c] \in Seq(Wire)
    BY <2>1, OnlyDu, CuFacts DEF FirstInv, HelloInv
  <2>3. toDu'[c] \in {toDu[c], Append(toDu[c], Plain("lost"))}
    BY <2>2 DEF CuDies, CuStarts
  <2>4. Plain("lost").t # "commUp"
    BY DEF Plain
  <2>5. /\ Has(Append(toDu[c], Plain("lost")), "commUp") <=> Has(toDu[c], "commUp")
        /\ Once(toDu[c], "commUp") => Once(Append(toDu[c], Plain("lost")), "commUp")
    BY <2>2, <2>4, HasAppend
  <2>. QED BY <2>2, <2>3, <2>5 DEF OneHello
<1>. QED BY <1>4, <1>5, <1>6 DEF FirstInv

LEMMA FirstInit ==
    ASSUME NEW d, Dus = {d}, Init
    PROVE  FirstInv(d)
<1>1. du[d] = DuStarted /\ cu = CuStarted
  BY DEF Init
<1>2. /\ DuStarted.cnx = None /\ DuStarted.q = <<M("assocReq", None)>>
      /\ CuStarted.cnx = {} /\ Range(CuStarted.backlog) = {} /\ Range(CuStarted.f1q) = {}
  BY RangeEmpty DEF DuStarted, CuStarted
<1>3. \A m \in Range(<<M("assocReq", None)>>) : m.t # "send"
  BY DEF Range, M
<1>4. \A a : ~CuEnd(a)
  BY <1>1, <1>2 DEF CuEnd
<1>. QED BY <1>1, <1>2, <1>3, <1>4 DEF FirstInv, HelloInv, StepInv, SocketInv, DueInv,
       SendsInv, FirstDataIsSetupRequest

LEMMA FirstNext ==
    ASSUME NEW d, Dus = {d}, Timely, IInv, FirstInv(d), [Next]_vars
    PROVE  FirstInv(d)'
<1>1. DuInv /\ Rest /\ DuInv' /\ Rest'
  <2>1. IInv'
    BY Invariance
  <2>. QED BY <2>1 DEF IInv, Rest
<1>2. ASSUME NEW e \in Dus, \/ DuSctp(e) \/ DuF1(e) \/ DuStarts(e)
                            \/ DuDies(e) \/ DuLosesPower(e)
                            \/ DuNewAssociationReqFails(e) \/ DuHandshakeFails(e)
      PROVE  FirstInv(d)'
  <2>1. e = d
    OBVIOUS
  <2>2. CASE DuDies(d) \/ DuLosesPower(d) \/ DuSetupFailure(d)
    <3>1. \E b \in BOOLEAN : DuGone(d, b)
      BY <2>2 DEF DuDies, DuLosesPower, DuSetupFailure
    <3>. QED BY <1>1, <3>1, FirstDuGone
  <2>3. CASE DuStarts(d)
    BY <1>1, <2>3, FirstDuGone
  <2>4. CASE DuNewAssociationReqFails(d) \/ DuNewAssociationReq(d)
    BY <1>1, <2>4, FirstNoAssociation, FirstNewAssociation
  <2>5. CASE \/ DuSslDoHandshake(d) \/ DuHandshakeReads(d) \/ DuHandshakeFails(d)
             \/ DuSendData(d) \/ DuReadFromSocket(d)
    BY <1>1, <2>5, FirstDuSslDoHandshake, FirstDuHandshakeReads, FirstDuHandshakeFails,
       FirstDuSendData, FirstDuReadFromSocket
  <2>6. CASE \/ DuF1Receives(d) \/ DuF1AsksHandshake(d) \/ DuF1SendsSetupRequest(d)
             \/ DuF1Retries(d)
    BY <1>1, <2>6, FirstDuF1Receives, FirstDuF1AsksHandshake,
       FirstDuF1SendsSetupRequest, FirstDuF1Retries
  <2>. QED BY <1>2, <2>1, <2>2, <2>3, <2>4, <2>5, <2>6 DEF DuSctp, DuF1
<1>3. CASE CuSctp
  BY <1>1, <1>3, FirstCuListens, FirstCuAccept, FirstCuReadFromSocket,
     FirstCuSslDoHandshake, FirstCuHandshakeReads, FirstCuSendData DEF CuSctp
<1>4. CASE \/ CuAcceptFails \/ CuHandshakeFails \/ CuF1Receives \/ RrcReceives
           \/ CuDies \/ CuStarts \/ CuNoticesLoss
  BY <1>1, <1>4, FirstCuAcceptFails, FirstCuHandshakeFails, FirstCuF1Receives,
     FirstRrcReceives, FirstCuRestarts, FirstCuNoticesLoss
<1>5. CASE UNCHANGED vars
  BY <1>5 DEF vars, FirstInv, HelloInv, StepInv, InStep, SocketInv, SocketOK, DueInv, DueAt,
     SendsInv, FirstDataIsSetupRequest, CuEnd, At, Stuck
<1>. QED BY <1>2, <1>3, <1>4, <1>5 DEF Next

OneTimelyDu == Timely /\ \E d : Dus = {d}

(* What TASK_CU_F1 gets from SCTP is F1AP and nothing of a handshake, the  *)
(* first being F1 Setup Request, however the processes die, lose power and *)
(* come back and whatever fails, as long as there is one DU and an idle CU *)
(* gets its work done within the second for which TASK_DU_F1 sleeps before *)
(* it asks for the handshake.  Neither can be left out: with two DUs it is *)
(* violated (run f1_two), and nothing else than the sleep orders the CU's  *)
(* handshake before the DU's hello.                                        *)
THEOREM SetupRequestIsFirst == Spec => [](OneTimelyDu => FirstDataIsSetupRequest)
<1>. DEFINE K == IInv /\ \A d : Timely /\ Dus = {d} => FirstInv(d)
<1>1. Init => K
  BY InitOK, FirstInit
<1>2. K /\ [Next]_vars => K'
  <2>. SUFFICES ASSUME K, [Next]_vars PROVE K'
    OBVIOUS
  <2>1. IInv'
    BY Invariance
  <2>2. ASSUME NEW d, Timely, Dus = {d} PROVE FirstInv(d)'
    BY <2>2, FirstNext
  <2>. QED BY <2>1, <2>2
<1>3. K => (OneTimelyDu => FirstDataIsSetupRequest)
  BY DEF OneTimelyDu, FirstInv
<1>. HIDE DEF K
<1>. QED BY <1>1, <1>2, <1>3, PTL DEF Spec
=============================================================================
