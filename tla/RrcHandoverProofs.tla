-------------------------- MODULE RrcHandoverProofs --------------------------
(***************************************************************************)
(* Proofs about handover and reestablishment, for any number of DUs,        *)
(* contexts and events, on the invariants IInv and Base of RrcHandoverBase. *)
(*                                                                          *)
(* First, what holds as long as nothing was out of turn (Timely): a UE is   *)
(* addressed by an ID of its own DU and sent its own DU's cell group.  The  *)
(* invariant says, of every association, which messages about a UE may be   *)
(* under way at which stage of its handover or reestablishment; and that    *)
(* bearers are asked of the serving DU, with no handover on (Asked).  So no *)
(* answer finds a UE without a DU, which is what the CU would die of.       *)
(*                                                                          *)
(* Second, under the same proviso (OldInv), the context that a DU is to     *)
(* take over at a reestablishment is there: every DU UE ID belongs to one   *)
(* UE context, and what that context has is neither released nor taken over *)
(* by a message that is under way.                                          *)
(***************************************************************************)
EXTENDS RrcHandoverBase

-----------------------------------------------------------------------------
(* What holds as long as nothing was out of turn.                           *)

(* The F1 data of UE c belong together; during a handover the cell group is *)
(* the target's from the time that its context is known.                    *)
CtxOK(r, c, M) ==
    /\ On(r) =>
        /\ r.ho.src # r.ho.tgt /\ r.du \in {r.ho.src, r.ho.tgt}
        /\ r.ho.old_cg \in {r.ho.src, NoDu}
        /\ r.ho.tgt_id = 0 => r.du = r.ho.src /\ r.cg \in {r.ho.src, NoDu}
        /\ r.ho.tgt_id # 0 => /\ MadeIn(M, r.ho.tgt, r.ho.tgt_id) /\ M[r.ho.tgt_id].cu = c
                              /\ r.cg = r.ho.tgt
        /\ r.du = r.ho.tgt => r.id = r.ho.tgt_id
    /\ r.live /\ r.du # NoDu => MadeIn(M, r.du, r.id) /\ (~On(r) => r.cg \in {r.du, NoDu})

(* What is under way between the CU and d about UE c, and at which stage of *)
(* a handover or reestablishment c is then: a setup before the target's ID  *)
(* is known, a modification before the UE is switched or after it has come  *)
(* back, the messages of a reestablishment behind it.                       *)
LinkOK(r, c, d, p, q) ==
    /\ Has(p, q, "setup", c) => On(r) /\ r.ho.tgt = d /\ r.ho.tgt_id = 0
    /\ Once(p, q, "setup", c)
    /\ Has(p, q, "modif", c) =>
        /\ On(r) => r.ho.src = d /\ r.du = d /\ r.ho.tgt_id # 0
        /\ r.live /\ ~On(r) => "reestab" \in r.xids /\ r.du = d
    /\ Once(p, q, "modif", c)
    /\ r.live =>
        /\ Has(p, q, "reest", c) => "reestab" \in r.xids /\ r.du = d /\ ~On(r)
        /\ Once(p, q, "reest", c) /\ Ahead(p, q, "modif", "reest", c)

(* The UE waits for the answer to its request to context i of d, or has     *)
(* given up.                                                                *)
Asks(u, d, i) == \/ u.next = [du |-> d, id |-> i, why |-> "reest"]
                 \/ u.id = 0 /\ ~u.here /\ u.next = Nowhere

(* A reestablishment is asked for by one request at a time; the reply is    *)
(* the first that the UE gets in its new context.                           *)
TurnOK(u, d, p, q) ==
    /\ Once(p, q, "turn", 0) /\ Ahead(p, q, "answer", "turn", 0)
    /\ \A i : /\ Has(p, q, "asked", i) \/ Has(p, q, "again", i) => Asks(u, d, i)
              /\ Ahead(p, q, "again", "other", i)
Turns(u, P, Q) ==
    /\ \A d \in Dus : TurnOK(u, d, P[d], Q[d])
    /\ \A d, e \in Dus : Has(P[d], Q[d], "turn", 0) /\ Has(P[e], Q[e], "turn", 0) => d = e

(* An ID that nobody but its DU, and the message that announces it, knows.  *)
Some(P, Q, t, i) == \E d \in Dus : Has(P[d], Q[d], t, i)
Fresh(u, C, P, Q) ==
    /\ \A d \in Dus : \A i : Once(P[d], Q[d], "made", i)
    /\ \A i : Some(P, Q, "made", i) =>
          /\ u.id # i /\ u.next.id # i
          /\ ~Some(P, Q, "names", i) /\ ~Some(P, Q, "asked", i) /\ ~Some(P, Q, "sends", i)
    /\ \A i : Some(P, Q, "asked", i) =>
          /\ \A c \in CuIds : C[c].id # i /\ C[c].ho.tgt_id # i
          /\ ~Some(P, Q, "again", i) /\ ~Some(P, Q, "other", i)
    /\ u.next.why = "reest" =>
          u.next.id # 0 /\ ~u.here /\ \A c \in CuIds : C[c].ho.tgt_id # u.next.id

(* A UE that has used its new context has said so at the target.            *)
Arrived(u, C, P) ==
    \A c \in CuIds : On(C[c]) /\ C[c].ho.tgt_id # 0 =>
        /\ u.id = C[c].ho.tgt_id => In(P[C[c].ho.tgt], "complete", c)
        /\ Led(P[C[c].ho.tgt], C[c].ho.tgt_id, c)

Fits(C, M)     == \A c \in CuIds : CtxOK(C[c], c, M)
Links(C, P, Q) == \A c \in CuIds : \A d \in Dus : LinkOK(C[c], c, d, P[d], Q[d])

InTurn(C, M, u, P, Q) ==
    Fits(C, M) /\ Links(C, P, Q) /\ Turns(u, P, Q) /\ Fresh(u, C, P, Q) /\ Arrived(u, C, P)
Timely == ~untimely => InTurn(ctx, mac, ue, to_cu, to_du) /\ ~misfit

CalmAll(K, P, Q, P2, Q2) == \A d \in Dus : Calm(K, P[d], Q[d], P2[d], Q2[d])
LinkKinds == {"setup", "modif", "reest"}

LEMMA FitsStable ==
    ASSUME NEW C, NEW M, NEW M2, MacKeeps(M, M2), Fits(C, M),
           \A c \in CuIds : C[c].du \in AnyDu /\ (On(C[c]) => C[c].ho.tgt \in Dus)
    PROVE  Fits(C, M2)
<1> SUFFICES ASSUME NEW c \in CuIds PROVE CtxOK(C[c], c, M2)
  BY DEF Fits
<1>1. CtxOK(C[c], c, M) /\ C[c].du \in AnyDu /\ (On(C[c]) => C[c].ho.tgt \in Dus)
  BY DEF Fits
<1>2. c # 0 /\ NoDu \notin Dus
  BY IdsFinite, DusAssumption
<1>3. \A d \in Dus : \A i : MadeIn(M, d, i) => MadeIn(M2, d, i) /\ (M[i].cu # 0 => M2[i].cu = M[i].cu)
  BY <1>2 DEF MacKeeps, MadeIn
<1>4. QED BY <1>1, <1>2, <1>3 DEF CtxOK, AnyDu

LEMMA LinkCalm ==
    ASSUME NEW r, NEW c, NEW d, NEW p, NEW q, NEW p2, NEW q2, LinkOK(r, c, d, p, q),
           Calm(LinkKinds, p, q, p2, q2)
    PROVE  LinkOK(r, c, d, p2, q2)
<1>1. ASSUME NEW t \in LinkKinds
      PROVE  /\ Has(p2, q2, t, c) => Has(p, q, t, c)
             /\ Once(p, q, t, c) => Once(p2, q2, t, c)
  BY DEF Calm
<1>2. Ahead(p, q, "modif", "reest", c) => Ahead(p2, q2, "modif", "reest", c)
  BY DEF Calm, LinkKinds
<1>3. QED BY <1>1, <1>2 DEF LinkOK, LinkKinds

LEMMA LinksCalm ==
    ASSUME NEW C, NEW P, NEW Q, NEW P2, NEW Q2, Links(C, P, Q), CalmAll(LinkKinds, P, Q, P2, Q2)
    PROVE  Links(C, P2, Q2)
BY LinkCalm DEF Links, CalmAll

LEMMA CalmAllSubset ==
    ASSUME NEW K, NEW L, L \subseteq K, NEW P, NEW Q, NEW P2, NEW Q2, CalmAll(K, P, Q, P2, Q2)
    PROVE  CalmAll(L, P, Q, P2, Q2)
BY CalmSubset DEF CalmAll

LEMMA SomeCalm ==
    ASSUME NEW K, NEW P, NEW Q, NEW P2, NEW Q2, CalmAll(K, P, Q, P2, Q2), NEW t \in K, NEW x,
           Some(P2, Q2, t, x)
    PROVE  Some(P, Q, t, x)
BY DEF Some, CalmAll, Calm

(* As far as turns can tell; other messages may be sent behind.             *)
TurnKinds == {"turn", "answer", "asked", "again"}
LEMMA TurnsCalm ==
    ASSUME NEW u, NEW u2, NEW P, NEW Q, NEW P2, NEW Q2, Turns(u, P, Q),
           CalmAll(TurnKinds, P, Q, P2, Q2),
           \A d \in Dus : \A i : Ahead(P[d], Q[d], "again", "other", i)
                                    => Ahead(P2[d], Q2[d], "again", "other", i),
           \A d, i : Asks(u, d, i) => Asks(u2, d, i)
    PROVE  Turns(u2, P2, Q2)
<1>1. ASSUME NEW d \in Dus PROVE TurnOK(u2, d, P2[d], Q2[d])
  <2>1. TurnOK(u, d, P[d], Q[d]) /\ Calm(TurnKinds, P[d], Q[d], P2[d], Q2[d])
    BY DEF Turns, CalmAll
  <2>2. Once(P2[d], Q2[d], "turn", 0) /\ Ahead(P2[d], Q2[d], "answer", "turn", 0)
    BY <2>1 DEF TurnOK, Calm, TurnKinds
  <2>3. ASSUME NEW i
        PROVE  /\ Has(P2[d], Q2[d], "asked", i) \/ Has(P2[d], Q2[d], "again", i) => Asks(u2, d, i)
               /\ Ahead(P2[d], Q2[d], "again", "other", i)
    BY <2>1 DEF TurnOK, Calm, TurnKinds
  <2>4. QED BY <2>2, <2>3 DEF TurnOK
<1>2. ASSUME NEW d \in Dus, Has(P2[d], Q2[d], "turn", 0) PROVE Has(P[d], Q[d], "turn", 0)
  BY <1>2 DEF CalmAll, Calm, TurnKinds
<1>3. QED BY <1>1, <1>2 DEF Turns

LEMMA TurnsCalmAll ==
    ASSUME NEW u, NEW u2, NEW P, NEW Q, NEW P2, NEW Q2, Turns(u, P, Q),
           CalmAll(TurnKinds \cup {"other"}, P, Q, P2, Q2),
           \A d, i : Asks(u, d, i) => Asks(u2, d, i)
    PROVE  Turns(u2, P2, Q2)
<1>1. CalmAll(TurnKinds, P, Q, P2, Q2)
  BY CalmAllSubset
<1>2. ASSUME NEW d \in Dus, NEW i, Ahead(P[d], Q[d], "again", "other", i)
      PROVE  Ahead(P2[d], Q2[d], "again", "other", i)
  BY <1>2 DEF CalmAll, Calm, TurnKinds
<1>3. QED BY <1>1, <1>2, TurnsCalm

(* Nobody asks.                                                             *)
LEMMA NoTurns ==
    ASSUME NEW u, NEW P, NEW Q, \A d \in Dus : ~Has(P[d], Q[d], "turn", 0)
    PROVE  Turns(u, P, Q) /\ \A i : ~Some(P, Q, "asked", i) /\ ~Some(P, Q, "again", i)
<1>1. ASSUME NEW d \in Dus PROVE TurnOK(u, d, P[d], Q[d])
                                 /\ \A i : ~Has(P[d], Q[d], "asked", i) /\ ~Has(P[d], Q[d], "again", i)
  <2>1. ~Has(P[d], Q[d], "turn", 0)
    OBVIOUS
  <2>2. ASSUME NEW q, ~In(q, "turn", 0), NEW i
        PROVE  /\ ~In(q, "asked", i) /\ ~In(q, "again", i)
               /\ One(q, "turn", 0) /\ Before(q, "answer", "turn", 0) /\ Before(q, "again", "other", i)
    <3>1. \A k \in 1..Len(q) : ~Is(q[k], "turn", 0)
      BY <2>2 DEF In
    <3>2. \A k \in 1..Len(q) : ~Is(q[k], "asked", i) /\ ~Is(q[k], "again", i)
      BY <3>1 DEF Is
    <3>3. QED BY <3>1, <3>2 DEF In, One, Before
  <2>3. ~In(P[d], "turn", 0) /\ ~In(Q[d], "turn", 0)
    BY <2>1 DEF Has
  <2>4. QED BY <2>2, <2>3 DEF TurnOK, Has, Once, Ahead
<1>2. QED BY <1>1 DEF Turns, Some

LEMMA FreshStep ==
    ASSUME NEW u, NEW u2, NEW C, NEW C2, NEW P, NEW Q, NEW P2, NEW Q2, Fresh(u, C, P, Q),
           \A d \in Dus : \A i : Once(P[d], Q[d], "made", i) => Once(P2[d], Q2[d], "made", i),
           \A t \in {"made", "names", "asked", "sends", "again"} : \A i :
               Some(P2, Q2, t, i) => Some(P, Q, t, i),
           \A i : Some(P, Q, "made", i) => u2.id # i /\ u2.next.id # i,
           \A i : Some(P, Q, "asked", i) =>
               /\ \A c \in CuIds : C2[c].id # i /\ C2[c].ho.tgt_id # i
               /\ Some(P2, Q2, "other", i) => Some(P, Q, "other", i),
           u2.next.why = "reest" =>
               /\ u2.next = u.next /\ ~u2.here
               /\ \A c \in CuIds : C2[c].ho.tgt_id = 0 \/ \E k \in CuIds : C2[c].ho.tgt_id = C[k].ho.tgt_id
    PROVE  Fresh(u2, C2, P2, Q2)
<1>1. \A i : Some(P2, Q2, "made", i) =>
          /\ u2.id # i /\ u2.next.id # i
          /\ ~Some(P2, Q2, "names", i) /\ ~Some(P2, Q2, "asked", i) /\ ~Some(P2, Q2, "sends", i)
  BY DEF Fresh
<1>2. \A i : Some(P2, Q2, "asked", i) =>
          /\ \A c \in CuIds : C2[c].id # i /\ C2[c].ho.tgt_id # i
          /\ ~Some(P2, Q2, "again", i) /\ ~Some(P2, Q2, "other", i)
  BY DEF Fresh
<1>3. u2.next.why = "reest" =>
          u2.next.id # 0 /\ ~u2.here /\ \A c \in CuIds : C2[c].ho.tgt_id # u2.next.id
  BY DEF Fresh
<1>4. \A d \in Dus : \A i : Once(P2[d], Q2[d], "made", i)
  BY DEF Fresh
<1>5. QED BY <1>1, <1>2, <1>3, <1>4 DEF Fresh

-----------------------------------------------------------------------------
(* The DUs and the UE keep it.                                              *)

LEMMA LedAppend ==
    ASSUME NEW p, IsSeq(p), NEW m, NEW i, NEW c, Led(p, i, c),
           Is(m, "names", i) => In(p, "complete", c)
    PROVE  Led(Append(p, m), i, c)
<1> DEFINE a == Append(p, m)
           n == Len(p)
<1>1. n \in Nat /\ Len(a) = n + 1 /\ (\A k \in 1..n : a[k] = p[k]) /\ a[n + 1] = m
  BY SeqAppend
<1> HIDE DEF a, n
<1> SUFFICES ASSUME NEW k \in 1..Len(a), Is(a[k], "names", i)
             PROVE  \E l \in 1..(k - 1) : Is(a[l], "complete", c)
  BY DEF Led, a
<1>2. CASE k \in 1..n
  <2>1. Is(p[k], "names", i)
    BY <1>1, <1>2
  <2>2. PICK l \in 1..(k - 1) : Is(p[l], "complete", c)
    BY <1>2, <2>1 DEF Led, n
  <2>3. a[l] = p[l]
    BY <1>1, <1>2, <2>2
  <2>4. QED BY <2>2, <2>3
<1>3. CASE k = n + 1
  <2>1. In(p, "complete", c)
    BY <1>1, <1>3
  <2>2. PICK l \in 1..n : Is(p[l], "complete", c)
    BY <2>1 DEF In, n
  <2>3. l \in 1..(k - 1) /\ a[l] = p[l]
    BY <1>1, <1>3, <2>2
  <2>4. QED BY <2>2, <2>3
<1>4. QED BY <1>1, <1>2, <1>3

LEMMA LedTail ==
    ASSUME NEW p, IsSeq(p), p # <<>>, NEW i, NEW c, Led(p, i, c), ~Is(Head(p), "complete", c)
    PROVE  /\ Led(Tail(p), i, c) /\ ~Is(Head(p), "names", i)
           /\ In(p, "complete", c) => In(Tail(p), "complete", c)
<1> DEFINE a == Tail(p)
           n == Len(p)
<1>1. n \in Nat \ {0} /\ Len(a) = n - 1 /\ (\A k \in 1..Len(a) : a[k] = p[k + 1] /\ k + 1 \in 1..n)
      /\ Head(p) = p[1] /\ 1 \in 1..n
  BY SeqTail
<1> HIDE DEF a, n
<1>2. Led(a, i, c)
  <2> SUFFICES ASSUME NEW k \in 1..Len(a), Is(a[k], "names", i)
               PROVE  \E l \in 1..(k - 1) : Is(a[l], "complete", c)
    BY DEF Led
  <2>1. k + 1 \in 1..n /\ Is(p[k + 1], "names", i)
    BY <1>1
  <2>2. PICK l \in 1..((k + 1) - 1) : Is(p[l], "complete", c)
    BY <2>1 DEF Led, n
  <2>3. l # 1
    BY <1>1, <2>2
  <2>4. l - 1 \in 1..(k - 1) /\ l - 1 \in 1..Len(a) /\ (l - 1) + 1 = l
    BY <1>1, <2>2, <2>3
  <2>5. a[l - 1] = p[l]
    BY <1>1, <2>4
  <2>6. QED BY <2>2, <2>4, <2>5
<1>3. ~Is(Head(p), "names", i)
  BY <1>1 DEF Led, n
<1>4. In(p, "complete", c) => In(a, "complete", c)
  BY TailKinds DEF a
<1>5. QED BY <1>2, <1>3, <1>4 DEF a

LEMMA ArrivedSay ==
    ASSUME NEW u, NEW u2, NEW C, NEW P, NEW P2, Arrived(u, C, P), NEW d \in Dus, NEW m,
           \A e \in Dus : IsSeq(P[e]), \A c \in CuIds : On(C[c]) => C[c].ho.tgt \in Dus,
           P2[d] = Append(P[d], m), \A e \in Dus \ {d} : P2[e] = P[e],
           \A i : Is(m, "names", i) => i = u.id,
           \A c \in CuIds : On(C[c]) /\ C[c].ho.tgt_id # 0 /\ u2.id = C[c].ho.tgt_id =>
               u.id = u2.id \/ (C[c].ho.tgt = d /\ Is(m, "complete", c))
    PROVE  Arrived(u2, C, P2)
<1> SUFFICES ASSUME NEW c \in CuIds, On(C[c]), C[c].ho.tgt_id # 0
             PROVE  /\ u2.id = C[c].ho.tgt_id => In(P2[C[c].ho.tgt], "complete", c)
                    /\ Led(P2[C[c].ho.tgt], C[c].ho.tgt_id, c)
  BY DEF Arrived
<1> DEFINE t == C[c].ho.tgt
           i == C[c].ho.tgt_id
<1>1. t \in Dus /\ IsSeq(P[t]) /\ (u.id = i => In(P[t], "complete", c)) /\ Led(P[t], i, c)
  BY DEF Arrived
<1>2. u2.id = i => u.id = i \/ (t = d /\ Is(m, "complete", c))
  OBVIOUS
<1> HIDE DEF t, i
<1>3. CASE t = d
  <2>1. P2[t] = Append(P[t], m)
    BY <1>3
  <2>2. In(P2[t], "complete", c) <=> In(P[t], "complete", c) \/ Is(m, "complete", c)
    BY <1>1, <2>1, AppendKinds
  <2>3. Led(P2[t], i, c)
    BY <1>1, <2>1, LedAppend
  <2>4. QED BY <1>1, <1>2, <2>2, <2>3 DEF t, i
<1>4. CASE t # d
  <2>1. P2[t] = P[t]
    BY <1>1, <1>4
  <2>2. QED BY <1>1, <1>2, <1>4, <2>1 DEF t, i
<1>5. QED BY <1>3, <1>4

LEMMA ArrivedSame ==
    ASSUME NEW u, NEW u2, NEW C, NEW P, Arrived(u, C, P), u2.id = u.id \/ u2.id = 0
    PROVE  Arrived(u2, C, P)
BY DEF Arrived

LEMMA TakenCalm ==
    ASSUME Base, NEW K, (to_du' = to_du /\ up' = up) \/ (\E d : Taken(d)) \/ (\E d : Cut(d))
    PROVE  CalmAll(K, to_cu, to_du, to_cu, to_du')
<1>1. \A e \in Dus : IsSeq(to_du[e])
  BY DEF Base, DuQ
<1>2. to_du = [e \in Dus |-> to_du[e]]
  BY DEF Base, DuQ
<1>3. CASE to_du' = to_du
  BY <1>3, CalmSame DEF CalmAll
<1>4. ASSUME NEW d, Taken(d) PROVE CalmAll(K, to_cu, to_du, to_cu, to_du')
  <2>1. d \in Dus /\ to_du[d] # <<>> /\ to_du'[d] = Tail(to_du[d])
        /\ \A e \in Dus \ {d} : to_du'[e] = to_du[e]
    BY <1>2, <1>4 DEF Taken, DuTakes
  <2>2. ASSUME NEW e \in Dus PROVE Calm(K, to_cu[e], to_du[e], to_cu[e], to_du'[e])
    BY <1>1, <2>1, CalmSame, DuTakeCalm
  <2>3. QED BY <2>2 DEF CalmAll
<1>5. ASSUME NEW d, Cut(d) PROVE CalmAll(K, to_cu, to_du, to_cu, to_du')
  <2>1. d \in Dus /\ to_du'[d] = <<>> /\ \A e \in Dus \ {d} : to_du'[e] = to_du[e]
    BY <1>2, <1>5 DEF Cut
  <2>2. ASSUME NEW e \in Dus PROVE Calm(K, to_cu[e], to_du[e], to_cu[e], to_du'[e])
    BY <2>1, CalmSame, CutCalm
  <2>3. QED BY <2>2 DEF CalmAll
<1>6. QED BY <1>3, <1>4, <1>5

LEMMA SaidCalm ==
    ASSUME Base, NEW K, NEW Q, NEW d \in Dus, NEW m, Sent(d, m), \A t \in K : \A x : ~Is(m, t, x)
    PROVE  CalmAll(K, to_cu, Q, to_cu', Q)
<1>1. /\ to_cu = [e \in Dus |-> to_cu[e]]
      /\ \A e \in Dus : IsSeq(to_cu[e])
  BY DEF Base, CuQ
<1>2. to_cu'[d] = Append(to_cu[d], m) /\ \A e \in Dus \ {d} : to_cu'[e] = to_cu[e]
  BY <1>1 DEF Sent
<1>3. ASSUME NEW e \in Dus PROVE Calm(K, to_cu[e], Q[e], to_cu'[e], Q[e])
  <2>1. CASE e = d
    <3>1. Calm(K, to_cu[d], Q[d], Append(to_cu[d], m), Q[d])
      BY <1>1, DuSayCalm
    <3>2. QED BY <1>2, <2>1, <3>1
  <2>2. CASE e # d
    BY <1>2, <2>2, CalmSame
  <2>3. QED BY <2>1, <2>2
<1>4. QED BY <1>3 DEF CalmAll

LEMMA CalmAllTrans ==
    ASSUME NEW K, NEW P, NEW Q, NEW P1, NEW Q1, NEW P2, NEW Q2,
           CalmAll(K, P, Q, P1, Q1), CalmAll(K, P1, Q1, P2, Q2)
    PROVE  CalmAll(K, P, Q, P2, Q2)
BY CalmTrans DEF CalmAll

LEMMA NeutralMessages ==
    ASSUME NEW c, NEW i, NEW a, NEW w
    PROVE  /\ Neutral([t |-> "rel_compl", cu |-> c]) /\ Neutral([t |-> "rel_req", cu |-> c])
           /\ Neutral([t |-> "lost"]) /\ Neutral([t |-> "complete", cu |-> c, what |-> w])
           /\ Neutral(Release(c, i, a))
           /\ \A t \in {"bearers", "more_bearers", "refuse", "required"} :
                 Neutral([t |-> t, cu |-> c, id |-> i])
           /\ \A t \in {"bearers_resp", "more_bearers_resp"} : Neutral([t |-> t, cu |-> c])
<1>1. ASSUME NEW m,
             m.t \in {"rel_compl", "rel_req", "lost", "complete", "release", "refuse", "required",
                     "bearers", "more_bearers", "bearers_resp", "more_bearers_resp"}
      PROVE  Neutral(m)
  BY <1>1 DEF Neutral, Is, Again, Kinds
<1>2. QED BY <1>1 DEF Release

(* A step of a DU or the UE that only lets messages go, or answers them.    *)
LEMMA CalmStep ==
    ASSUME Base, IInv, InTurn(ctx, mac, ue, to_cu, to_du), ctx' = ctx, MacKeeps(mac, mac'),
           CalmAll(Kinds, to_cu, to_du, to_cu', to_du'),
           \A d, i : Asks(ue, d, i) => Asks(ue', d, i),
           \A i : Some(to_cu, to_du, "made", i) => ue'.id # i /\ ue'.next.id # i,
           ue'.next.why = "reest" => ue'.next = ue.next /\ ~ue'.here,
           Arrived(ue', ctx, to_cu')
    PROVE  InTurn(ctx', mac', ue', to_cu', to_du')
<1>1. \A c \in CuIds : ctx[c].du \in AnyDu /\ (On(ctx[c]) => ctx[c].ho.tgt \in Dus)
  BY BaseParts, RecordOK DEF IInv, CtxInv, Sound, On
<1>2. Fits(ctx, mac')
  BY <1>1, FitsStable DEF InTurn
<1>3. Links(ctx, to_cu', to_du')
  <2>1. LinkKinds \subseteq Kinds
    BY DEF LinkKinds, Kinds
  <2>2. QED BY <2>1, CalmAllSubset, LinksCalm DEF InTurn
<1>4. Turns(ue', to_cu', to_du')
  <2>1. TurnKinds \cup {"other"} \subseteq Kinds
    BY DEF TurnKinds, Kinds
  <2>2. QED BY <2>1, CalmAllSubset, TurnsCalmAll DEF InTurn
<1>5. Fresh(ue', ctx, to_cu', to_du')
  <2>1. \A t \in Kinds : \A i : Some(to_cu', to_du', t, i) => Some(to_cu, to_du, t, i)
    BY SomeCalm
  <2>2. \A d \in Dus : \A i : Once(to_cu[d], to_du[d], "made", i) => Once(to_cu'[d], to_du'[d], "made", i)
    BY DEF CalmAll, Calm, Kinds
  <2>3. {"made", "names", "asked", "sends", "again", "other"} \subseteq Kinds
    BY DEF Kinds
  <2>4. /\ Fresh(ue, ctx, to_cu, to_du)
        /\ \A i : Some(to_cu, to_du, "asked", i) => \A c \in CuIds : ctx[c].id # i /\ ctx[c].ho.tgt_id # i
    BY DEF InTurn, Fresh
  <2>5. QED BY <2>1, <2>2, <2>3, <2>4, FreshStep
<1>6. QED BY <1>2, <1>3, <1>4, <1>5 DEF InTurn

InTurnNow == InTurn(ctx, mac, ue, to_cu, to_du)

(* The IDs in messages are ones that DUs have given out.                    *)
LEMMA KindsOfIds ==
    ASSUME Base, NEW d \in Dus, NEW i
    PROVE  /\ Has(to_cu[d], to_du[d], "made", i) => MadeIn(mac, d, i)
           /\ \A t \in {"made", "asked", "names", "sends"} :
                 Has(to_cu[d], to_du[d], t, i) => Used(mac, i) /\ i # 0
           /\ \A t \in {"again", "other"} : Has(to_cu[d], to_du[d], t, i) => Mentioned(mac, i)
<1>1. /\ \A m \in Elems(to_cu[d]) : CuMsgOK(m, d, mac)
      /\ \A m \in Elems(to_du[d]) : DuMsgOK(m, mac)
  BY DEF Base, CuQ, DuQ
<1>2. d # NoDu /\ 0 \notin Ids
  BY DusAssumption, IdsFinite
<1>3. ASSUME NEW m \in Elems(to_cu[d])
      PROVE  /\ Is(m, "made", i) => MadeIn(mac, d, i)
             /\ \A t \in {"made", "asked", "names", "sends"} : Is(m, t, i) => Used(mac, i) /\ i # 0
             /\ ~Is(m, "again", i) /\ ~Is(m, "other", i)
  BY <1>1, <1>2 DEF CuMsgOK, Is, Again, MadeIn, Used
<1>4. ASSUME NEW m \in Elems(to_du[d])
      PROVE  /\ \A t \in {"made", "asked", "names"} : ~Is(m, t, i)
             /\ Is(m, "sends", i) => Used(mac, i) /\ i # 0
             /\ \A t \in {"again", "other"} : Is(m, t, i) => Mentioned(mac, i)
  BY <1>1, <1>2 DEF DuMsgOK, Is, Again, Used
<1>5. \A t : Has(to_cu[d], to_du[d], t, i) =>
          (\E m \in Elems(to_cu[d]) : Is(m, t, i)) \/ (\E m \in Elems(to_du[d]) : Is(m, t, i))
  BY InElems DEF Has
<1>6. Has(to_cu[d], to_du[d], "made", i) => MadeIn(mac, d, i)
  BY <1>3, <1>4, <1>5
<1>7. ASSUME NEW t \in {"made", "asked", "names", "sends"}, Has(to_cu[d], to_du[d], t, i)
      PROVE  Used(mac, i) /\ i # 0
  BY <1>3, <1>4, <1>5, <1>7
<1>8. ASSUME NEW t \in {"again", "other"}, Has(to_cu[d], to_du[d], t, i)
      PROVE  Mentioned(mac, i)
  BY <1>3, <1>4, <1>5, <1>8
<1>9. QED BY <1>6, <1>7, <1>8

LEMMA SomeIds ==
    ASSUME Base, NEW i
    PROVE  /\ \A t \in {"made", "asked", "names", "sends"} :
                 Some(to_cu, to_du, t, i) => Used(mac, i) /\ i # 0
           /\ \A t \in {"again", "other"} : Some(to_cu, to_du, t, i) => Mentioned(mac, i)
BY KindsOfIds DEF Some

(* What only one direction carries.                                         *)
LEMMA OneWay ==
    ASSUME Base, NEW d \in Dus, NEW x
    PROVE  ~In(to_cu[d], "again", x) /\ ~In(to_cu[d], "other", x) /\ ~In(to_du[d], "answer", x)
           /\ ~In(to_du[d], "asked", x)
<1>1. /\ \A m \in Elems(to_cu[d]) : CuMsgOK(m, d, mac)
      /\ \A m \in Elems(to_du[d]) : DuMsgOK(m, mac)
  BY DEF Base, CuQ, DuQ
<1>2. ASSUME NEW m \in Elems(to_cu[d]) PROVE ~Is(m, "again", x) /\ ~Is(m, "other", x)
  BY <1>1 DEF CuMsgOK, Is, Again
<1>3. ASSUME NEW m \in Elems(to_du[d]) PROVE ~Is(m, "answer", x) /\ ~Is(m, "asked", x)
  BY <1>1 DEF DuMsgOK, Is
<1>4. QED BY <1>2, <1>3, InElems

LEMMA NotAsking ==
    ASSUME InTurnNow, ue.here \/ ue.next.why = "ho" \/ (ue.id # 0 /\ ue.next.why # "reest")
    PROVE  \A d, i : ~Asks(ue, d, i)
<1>1. ue.next.why = "reest" => ~ue.here
  BY DEF InTurnNow, InTurn, Fresh
<1>2. \A d, i : [du |-> d, id |-> i, why |-> "reest"].why = "reest"
  OBVIOUS
<1>3. Nowhere.why = "none"
  BY DEF Nowhere
<1>4. QED BY <1>1, <1>2, <1>3 DEF Asks

LEMMA NobodyAsks ==
    ASSUME InTurnNow, \A d, i : ~Asks(ue, d, i), NEW e \in Dus
    PROVE  ~Has(to_cu[e], to_du[e], "turn", 0)
<1>1. \A i : ~Has(to_cu[e], to_du[e], "asked", i) /\ ~Has(to_cu[e], to_du[e], "again", i)
  BY DEF InTurnNow, InTurn, Turns, TurnOK
<1>2. ASSUME NEW m, Is(m, "turn", 0) PROVE Is(m, "asked", m.id) \/ Is(m, "again", m.id)
  BY <1>2 DEF Is, Again
<1>3. ASSUME NEW q, In(q, "turn", 0) PROVE \E i : In(q, "asked", i) \/ In(q, "again", i)
  <2>1. PICK k \in 1..Len(q) : Is(q[k], "turn", 0)
    BY <1>3 DEF In
  <2>2. In(q, "asked", q[k].id) \/ In(q, "again", q[k].id)
    BY <1>2, <2>1 DEF In
  <2>3. QED BY <2>2
<1>4. QED BY <1>1, <1>3 DEF Has

(* The UE loses its radio link, is dismissed, or returns while it heads for *)
(* no other cell.                                                           *)
LEMMA UeFades ==
    ASSUME Base, InTurnNow, ue'.next = ue.next,
           (ue'.here => ue.here) \/ (ue.id # 0 /\ ue.next = Nowhere),
           ue'.id = ue.id \/ (ue'.id = 0 /\ ~ue'.here),
           IsUe(ue')
    PROVE  /\ \A d, i : Asks(ue, d, i) => Asks(ue', d, i)
           /\ \A i : Some(to_cu, to_du, "made", i) => ue'.id # i /\ ue'.next.id # i
           /\ ue'.next.why = "reest" => ue'.next = ue.next /\ ~ue'.here
<1>1. Fresh(ue, ctx, to_cu, to_du)
  BY DEF InTurnNow, InTurn
<1>0. Nowhere.why = "none" /\ \A d, i : Nowhere # [du |-> d, id |-> i, why |-> "reest"]
  BY DEF Nowhere
<1>2. \A d, i : Asks(ue, d, i) => Asks(ue', d, i)
  BY <1>0 DEF Asks
<1>3. ue'.next.why = "reest" => ue'.next = ue.next /\ ~ue'.here
  BY <1>0, <1>1 DEF Fresh
<1>4. \A i : Some(to_cu, to_du, "made", i) => ue'.id # i /\ ue'.next.id # i
  BY <1>1, SomeIds DEF Fresh
<1>5. QED BY <1>2, <1>3, <1>4

LEMMA TargetsOK ==
    ASSUME Base, IInv
    PROVE  /\ \A c \in CuIds : On(ctx[c]) => ctx[c].ho.tgt \in Dus /\ ctx[c].ho.src \in Dus
           /\ \A c \in CuIds : On(ctx[c]) => ctx[c].live
           /\ \A c \in CuIds : ctx[c].du \in Dus \cup {NoDu}
           /\ \A d \in Dus : IsSeq(to_cu[d]) /\ IsSeq(to_du[d])
<1>1. \A c \in CuIds : ctx[c].du \in Dus \cup {NoDu}
  BY BaseParts, RecordOK DEF AnyDu
<1>2. QED BY <1>1 DEF IInv, CtxInv, NetInv, Sound, On, Base, CuQ, DuQ, CtxBase

(* A DU takes or loses what it was sent, and says what is of no kind.       *)
LEMMA FadingStep ==
    ASSUME Base, IInv, InTurnNow, ctx' = ctx, MacKeeps(mac, mac'),
           (to_du' = to_du /\ up' = up) \/ (\E d : Taken(d)) \/ (\E d : Cut(d)),
           to_cu' = to_cu \/ (\E d, m : Says(d, m) /\ Neutral(m)),
           ue'.next = ue.next, (ue'.here => ue.here) \/ (ue.id # 0 /\ ue.next = Nowhere),
           ue'.id = ue.id \/ (ue'.id = 0 /\ ~ue'.here), IsUe(ue')
    PROVE  InTurnNow'
<1>1. CalmAll(Kinds, to_cu, to_du, to_cu, to_du')
  BY TakenCalm
<1>2. Arrived(ue, ctx, to_cu)
  BY DEF InTurnNow, InTurn
<1>3. CalmAll(Kinds, to_cu, to_du', to_cu', to_du') /\ Arrived(ue', ctx, to_cu')
  <2>1. CASE to_cu' = to_cu
    <3>1. CalmAll(Kinds, to_cu, to_du', to_cu', to_du')
      BY <2>1, CalmSame DEF CalmAll
    <3>2. Arrived(ue', ctx, to_cu)
      BY <1>2, ArrivedSame
    <3>3. QED BY <2>1, <3>1, <3>2
  <2>2. ASSUME NEW d, NEW m, Says(d, m), Neutral(m)
        PROVE  CalmAll(Kinds, to_cu, to_du', to_cu', to_du') /\ Arrived(ue', ctx, to_cu')
    <3>1. d \in Dus /\ Sent(d, m)
      BY <2>2 DEF Says
    <3>2. CalmAll(Kinds, to_cu, to_du', to_cu', to_du')
      BY <2>2, <3>1, SaidCalm DEF Neutral
    <3>3. to_cu'[d] = Append(to_cu[d], m) /\ \A e \in Dus \ {d} : to_cu'[e] = to_cu[e]
      BY <3>1 DEF Sent, Base, CuQ
    <3>4. \A i : ~Is(m, "names", i)
      BY <2>2 DEF Neutral, Kinds
    <3>5. Arrived(ue', ctx, to_cu')
      <4>1. /\ \A e \in Dus : IsSeq(to_cu[e])
            /\ \A c \in CuIds : On(ctx[c]) => ctx[c].ho.tgt \in Dus
        BY TargetsOK
      <4>2. \A c \in CuIds : On(ctx[c]) /\ ctx[c].ho.tgt_id # 0 /\ ue'.id = ctx[c].ho.tgt_id =>
               ue.id = ue'.id \/ (ctx[c].ho.tgt = d /\ Is(m, "complete", c))
        OBVIOUS
      <4>3. \A i : Is(m, "names", i) => i = ue.id
        BY <3>4
      <4>4. QED BY ONLY <1>2, <3>1, <3>3, <4>1, <4>2, <4>3, ArrivedSay, ZenonT(60)
    <3>6. QED BY <3>2, <3>5
  <2>3. QED BY <2>1, <2>2
<1>4. CalmAll(Kinds, to_cu, to_du, to_cu', to_du')
  BY <1>1, <1>3, CalmAllTrans
<1>5. QED BY <1>3, <1>4, UeFades, CalmStep DEF InTurnNow

LEMMA MoveStep ==
    ASSUME Base, NEW K, NEW d, Taken(d), NEW m, Sent(d, m),
           \A t \in K : \A x : Is(m, t, x) => Is(Head(to_du[d]), t, x)
    PROVE  CalmAll(K, to_cu, to_du, to_cu', to_du')
<1>1. /\ to_du = [e \in Dus |-> to_du[e]] /\ to_cu = [e \in Dus |-> to_cu[e]]
      /\ \A e \in Dus : IsSeq(to_du[e]) /\ IsSeq(to_cu[e])
  BY DEF Base, CuQ, DuQ
<1>2. /\ d \in Dus /\ to_du[d] # <<>> /\ to_du'[d] = Tail(to_du[d])
      /\ \A e \in Dus \ {d} : to_du'[e] = to_du[e]
  BY <1>1 DEF Taken, DuTakes
<1>3. to_cu'[d] = Append(to_cu[d], m) /\ \A e \in Dus \ {d} : to_cu'[e] = to_cu[e]
  BY <1>1, <1>2 DEF Sent
<1>4. ASSUME NEW e \in Dus PROVE Calm(K, to_cu[e], to_du[e], to_cu'[e], to_du'[e])
  <2>1. CASE e = d
    <3>1. Calm(K, to_cu[d], to_du[d], Append(to_cu[d], m), Tail(to_du[d]))
      BY <1>1, <1>2, MoveCalm
    <3>2. QED BY <1>2, <1>3, <2>1, <3>1
  <2>2. CASE e # d
    BY <1>2, <1>3, <2>2, CalmSame
  <2>3. QED BY <2>1, <2>2
<1>5. QED BY <1>4 DEF CalmAll

LEMMA MacStepsKeep ==
    ASSUME Base, MacSteps
    PROVE  MacKeeps(mac, mac')
BY MacStepsOK DEF Base

LEMMA DuReleaseCommandTurn ==
    ASSUME Base, IInv, InTurnNow, NEW d \in Dus, DuReleaseCommand(d)
    PROVE  InTurnNow'
<1>1. /\ Taken(d) /\ MacSteps
      /\ ue' = ue \/ ue' = [ue EXCEPT !.here = FALSE, !.id = 0]
      /\ to_cu' = to_cu \/ \E c : Says(d, [t |-> "rel_compl", cu |-> c])
  BY DuReleaseCommandEffect
<1>2. ctx' = ctx
  BY DEF DuReleaseCommand, cuVars
<1>3. to_cu' = to_cu \/ \E e, m : Says(e, m) /\ Neutral(m)
  BY <1>1, NeutralMessages
<1>4. IsUe(ue)
  BY SameUe
<1>5. /\ ue'.next = ue.next /\ (ue'.here => ue.here) /\ IsUe(ue')
      /\ ue'.id = ue.id \/ (ue'.id = 0 /\ ~ue'.here)
  BY <1>1, <1>4 DEF IsUe
<1>6. MacKeeps(mac, mac')
  BY <1>1, MacStepsKeep
<1>7. QED BY <1>1, <1>2, <1>3, <1>5, <1>6, FadingStep

LEMMA TimersTurn ==
    ASSUME Base, IInv, InTurnNow, NEW i \in Ids, UlFailure(i) \/ ReleaseTimerExpires(i)
    PROVE  InTurnNow'
<1>1. /\ MacSteps /\ up' = up /\ ue' = ue /\ to_du' = to_du
      /\ \/ to_cu' = to_cu
         \/ \E d, c : Says(d, [t |-> "rel_compl", cu |-> c]) \/ Says(d, [t |-> "rel_req", cu |-> c])
  BY TimersEffect
<1>2. ctx' = ctx
  BY DEF UlFailure, ReleaseTimerExpires, cuVars
<1>3. to_cu' = to_cu \/ \E e, m : Says(e, m) /\ Neutral(m)
  BY <1>1, NeutralMessages
<1>4. IsUe(ue)
  BY SameUe
<1>5. MacKeeps(mac, mac')
  BY <1>1, MacStepsKeep
<1>6. QED BY <1>1, <1>2, <1>3, <1>4, <1>5, FadingStep

LEMMA DiesTurn ==
    ASSUME Base, IInv, InTurnNow, NEW d \in Dus, Dies(d), ctx' = ctx
    PROVE  InTurnNow'
<1>1. /\ MacSteps /\ Cut(d) /\ Says(d, [t |-> "lost"])
      /\ IsUe(ue') /\ ue' = [ue EXCEPT !.here = @ /\ ue.du # d]
      /\ ue'.id = ue.id /\ ue'.next = ue.next
  BY DiesEffect
<1>2. \E e, m : Says(e, m) /\ Neutral(m)
  BY <1>1, NeutralMessages
<1>3. ue'.here => ue.here
  BY <1>1, SameUe DEF IsUe
<1>4. MacKeeps(mac, mac')
  BY <1>1, MacStepsKeep
<1>5. QED BY <1>1, <1>2, <1>3, <1>4, FadingStep

LEMMA DuAnswersTurn ==
    ASSUME Base, IInv, InTurnNow, NEW d \in Dus,
           DuBearersRequest(d) \/ DuMoreBearersRequest(d) \/ DuModificationRefuse(d)
    PROVE  InTurnNow'
<1>1. ctx' = ctx
  BY DEF DuBearersRequest, DuMoreBearersRequest, DuModificationRefuse, cuVars
<1>2. CASE Dies(d)
  BY <1>1, <1>2, DiesTurn
<1>3. CASE Taken(d) /\ mac' = mac /\ ue' = ue /\ (to_cu' = to_cu \/ \E m : Says(d, m) /\ Neutral(m))
  <2>1. IsUe(ue) /\ MacKeeps(mac, mac')
    BY <1>3, SameUe, SameMac, MacStepsKeep
  <2>2. QED BY <1>1, <1>3, <2>1, FadingStep
<1>4. \A t \in {"bearers_resp", "more_bearers_resp", "rel_req"} : Neutral(Reply(d, t))
  BY NeutralMessages DEF Reply
<1>5. QED BY <1>2, <1>3, <1>4, DuAnswersEffect

LEMMA UeReturnsTurn ==
    ASSUME Base, IInv, InTurnNow, UeReturns
    PROVE  InTurnNow'
<1>1. /\ up' = up /\ to_du' = to_du /\ ctx' = ctx /\ MacSteps
      /\ ue.id \in Ids /\ ue.next = Nowhere
      /\ IsUe(ue') /\ ue'.id = ue.id /\ ue'.next = ue.next
      /\ to_cu' = to_cu \/ Says(ue.du, RequiredMessage)
  BY UeReturnsEffect
<1>2. to_cu' = to_cu \/ \E e, m : Says(e, m) /\ Neutral(m)
  BY <1>1, NeutralMessages DEF RequiredMessage
<1>3. MacKeeps(mac, mac') /\ ue.id # 0
  BY <1>1, MacStepsKeep, IdsFinite
<1>4. QED BY <1>1, <1>2, <1>3, FadingStep

LEMMA DuModificationRequestTurn ==
    ASSUME Base, IInv, InTurnNow, NEW d \in Dus, DuModificationRequest(d)
    PROVE  InTurnNow'
<1> DEFINE m == Head(to_du[d])
           a == [t |-> "modif_resp", cu |-> m.cu]
<1>1. /\ Taken(d) /\ m.t = "modif" /\ ctx' = ctx /\ mac' = mac /\ d \in up
  BY DEF DuModificationRequest, TookCmd, Taken, duVars, cuVars
<1>2. \/ to_cu' = to_cu /\ ue' = ue
      \/ Sent(d, a) /\ ue' = ue
      \/ /\ Sent(d, a) /\ UeIn(d, m.id)
         /\ ue' = [ue EXCEPT !.here = FALSE, !.next = [du |-> m.to, id |-> m.to_id, why |-> "ho"]]
  BY DEF DuModificationRequest
<1>3. MacSteps /\ MacKeeps(mac, mac')
  BY <1>1, SameMac, MacStepsKeep
<1>4. IsUe(ue)
  BY SameUe
<1>5. CASE to_cu' = to_cu /\ ue' = ue
  BY <1>1, <1>3, <1>4, <1>5, FadingStep
<1>6. CASE Sent(d, a)
  <2>1. \A t \in Kinds : \A x : Is(a, t, x) => Is(m, t, x)
    BY <1>1 DEF Is, Again, Kinds
  <2>2. CalmAll(Kinds, to_cu, to_du, to_cu', to_du')
    BY <1>1, <1>6, <2>1, MoveStep
  <2>3. Is(m, "sends", m.to_id) /\ In(to_du[d], "sends", m.to_id)
    <3>1. Is(m, "sends", m.to_id)
      BY <1>1 DEF Is
    <3>2. IsSeq(to_du[d]) /\ to_du[d] # <<>>
      BY <1>1, TargetsOK DEF Taken
    <3>3. QED BY <3>1, <3>2, TailKinds
  <2>4. Some(to_cu, to_du, "sends", m.to_id)
    BY <2>3 DEF Some, Has
  <2>5. Fresh(ue, ctx, to_cu, to_du) /\ Arrived(ue, ctx, to_cu)
    BY DEF InTurnNow, InTurn
  <2>6. \A i : ~Is(a, "names", i)
    BY DEF Is, Again
  <2> HIDE DEF a, m
  <2>7. to_cu'[d] = Append(to_cu[d], a) /\ \A e \in Dus \ {d} : to_cu'[e] = to_cu[e]
    BY <1>6 DEF Sent, Base, CuQ
  <2>8. ue'.id = ue.id
    BY <1>2, <1>4, <1>6 DEF IsUe
  <2>9. Arrived(ue', ctx, to_cu')
    <3>1. /\ \A e \in Dus : IsSeq(to_cu[e])
          /\ \A c \in CuIds : On(ctx[c]) => ctx[c].ho.tgt \in Dus
      BY TargetsOK
    <3>2. QED BY ONLY <2>5, <2>6, <2>7, <2>8, <3>1, d \in Dus, ArrivedSay, ZenonT(60)
  <2>10. CASE ue' = ue
    <3>1. /\ \A i : Some(to_cu, to_du, "made", i) => ue'.id # i /\ ue'.next.id # i
          /\ ue'.next.why = "reest" => ue'.next = ue.next /\ ~ue'.here
      BY <2>5, <2>10 DEF Fresh
    <3>2. \A e, i : Asks(ue, e, i) => Asks(ue', e, i)
      BY <2>10
    <3>3. QED BY <1>1, <1>3, <2>2, <2>9, <3>1, <3>2, CalmStep DEF InTurnNow
  <2>11. CASE /\ UeIn(d, m.id)
              /\ ue' = [ue EXCEPT !.here = FALSE, !.next = [du |-> m.to, id |-> m.to_id, why |-> "ho"]]
    <3>1. ue'.next.id = m.to_id /\ ue'.next.why = "ho"
      BY <1>4, <2>11 DEF IsUe
    <3>2. /\ \A i : Some(to_cu, to_du, "made", i) => ue'.id # i /\ ue'.next.id # i
          /\ ue'.next.why = "reest" => ue'.next = ue.next /\ ~ue'.here
      BY <2>4, <2>5, <2>8, <3>1 DEF Fresh
    <3>3. \A e, i : Asks(ue, e, i) => Asks(ue', e, i)
      BY <2>11, NotAsking DEF UeIn
    <3>4. QED BY <1>1, <1>3, <2>2, <2>9, <3>2, <3>3, CalmStep DEF InTurnNow
  <2>12. QED BY <1>2, <1>6, <2>10, <2>11, <1>5
<1>7. QED BY <1>2, <1>5, <1>6

LEMMA DuSetupRequestTurn ==
    ASSUME Base, IInv, InTurnNow, NEW d \in Dus, DuSetupRequest(d)
    PROVE  InTurnNow'
<1>1. /\ Taken(d) /\ Cardinality(UsedIds(mac)) <= MaxEvents
      /\ Head(to_du[d]).t = "setup" /\ Head(to_du[d]).cu \in 0..MaxEvents + 1
  BY DuSetupRequestRoom
<1>2. PICK i : i = NewId
  OBVIOUS
<1>3. PICK a : a = [t |-> "setup_resp", cu |-> Head(to_du[d]).cu, id |-> i]
  OBVIOUS
<1>4. Sent(d, a) /\ ctx' = ctx /\ ue' = ue
      /\ mac' = [mac EXCEPT ![NewId] = [du |-> d, cu |-> Head(to_du[d]).cu, st |-> "active"]]
  BY <1>2, <1>3 DEF DuSetupRequest, cuVars
<1>5. MacKeeps(mac, mac') /\ ~Used(mac, i) /\ i # 0
  BY <1>1, <1>2, <1>4, NewIdStep
<1> DEFINE K == Kinds \ {"made"}
<1>6. \A t \in K : \A x : Is(a, t, x) => Is(Head(to_du[d]), t, x)
  BY <1>1, <1>3 DEF Is, Again, Kinds
<1>7. \A x : /\ Is(a, "made", x) <=> x = i
             /\ ~Is(a, "names", x)
  BY <1>3 DEF Is, Again
<1>8. CalmAll(K, to_cu, to_du, to_cu', to_du')
  BY <1>1, <1>4, <1>6, MoveStep
<1> HIDE DEF K
<1>9. to_cu'[d] = Append(to_cu[d], a) /\ \A e \in Dus \ {d} : to_cu'[e] = to_cu[e]
  BY <1>4 DEF Sent, Base, CuQ
<1>10. to_du'[d] = Tail(to_du[d]) /\ (\A e \in Dus \ {d} : to_du'[e] = to_du[e]) /\ to_du[d] # <<>>
  BY <1>1 DEF Taken, DuTakes, Base, DuQ
<1>11. Fits(ctx, mac') /\ Links(ctx, to_cu', to_du') /\ Turns(ue, to_cu', to_du')
  <2>1. \A c \in CuIds : ctx[c].du \in AnyDu /\ (On(ctx[c]) => ctx[c].ho.tgt \in Dus)
    BY TargetsOK DEF AnyDu
  <2>2. LinkKinds \subseteq K /\ TurnKinds \cup {"other"} \subseteq K
    BY DEF K, Kinds, LinkKinds, TurnKinds
  <2>3. CalmAll(LinkKinds, to_cu, to_du, to_cu', to_du')
        /\ CalmAll(TurnKinds \cup {"other"}, to_cu, to_du, to_cu', to_du')
    BY <1>8, <2>2, CalmAllSubset
  <2>4. Fits(ctx, mac) /\ Links(ctx, to_cu, to_du) /\ Turns(ue, to_cu, to_du)
    BY DEF InTurnNow, InTurn
  <2>5. Fits(ctx, mac')
    BY <1>5, <2>1, <2>4, FitsStable
  <2>6. Links(ctx, to_cu', to_du')
    BY <2>3, <2>4, LinksCalm
  <2>7. Turns(ue, to_cu', to_du')
    BY <2>3, <2>4, TurnsCalmAll
  <2>8. QED BY <2>5, <2>6, <2>7
<1>12. Arrived(ue, ctx, to_cu')
  <2>1. /\ \A e \in Dus : IsSeq(to_cu[e])
        /\ \A c \in CuIds : On(ctx[c]) => ctx[c].ho.tgt \in Dus
    BY TargetsOK
  <2>2. Arrived(ue, ctx, to_cu)
    BY DEF InTurnNow, InTurn
  <2>3. QED BY ONLY <1>7, <1>9, <2>1, <2>2, d \in Dus, ArrivedSay
<1>13. Fresh(ue, ctx, to_cu', to_du')
  <2>1. Fresh(ue, ctx, to_cu, to_du)
    BY DEF InTurnNow, InTurn
  <2>2. \A t \in {"names", "asked", "sends", "again", "other"} : \A x :
           Some(to_cu', to_du', t, x) => Some(to_cu, to_du, t, x)
    BY <1>8, SomeCalm DEF K, Kinds
  <2>3. /\ \A t \in {"made", "names", "asked", "sends"} : ~Some(to_cu, to_du, t, i)
        /\ ue.id # i /\ ue.next.id # i
    BY <1>5, SomeIds, SameUe DEF Mentioned
  <2>4. ASSUME NEW e \in Dus, NEW x
        PROVE  /\ Has(to_cu'[e], to_du'[e], "made", x) => Has(to_cu[e], to_du[e], "made", x) \/ x = i
               /\ Once(to_cu'[e], to_du'[e], "made", x)
    <3>1. IsSeq(to_cu[e]) /\ IsSeq(to_du[e]) /\ Once(to_cu[e], to_du[e], "made", x)
      BY <2>1, TargetsOK DEF Fresh
    <3>2. CASE e # d
      BY <1>9, <1>10, <3>1, <3>2
    <3>3. CASE e = d
      <4>1. /\ In(to_cu'[e], "made", x) <=> In(to_cu[e], "made", x) \/ x = i
            /\ One(to_cu[e], "made", x) /\ ~(x = i /\ In(to_cu[e], "made", x)) => One(to_cu'[e], "made", x)
        BY <1>7, <1>9, <3>1, <3>3, AppendKinds
      <4>2. /\ In(to_du'[e], "made", x) => In(to_du[e], "made", x)
            /\ One(to_du[e], "made", x) => One(to_du'[e], "made", x)
        BY <1>10, <3>1, <3>3, TailKinds
      <4>3. x = i => ~In(to_cu[e], "made", x) /\ ~In(to_du[e], "made", x)
        BY <2>3 DEF Some, Has
      <4>4. QED BY <3>1, <4>1, <4>2, <4>3 DEF Has, Once
    <3>4. QED BY <3>2, <3>3
  <2>5. \A x : Some(to_cu', to_du', "made", x) => Some(to_cu, to_du, "made", x) \/ x = i
    BY <2>4 DEF Some
  <2>6. \A x : Some(to_cu', to_du', "made", x) =>
          /\ ue.id # x /\ ue.next.id # x
          /\ ~Some(to_cu', to_du', "names", x) /\ ~Some(to_cu', to_du', "asked", x)
          /\ ~Some(to_cu', to_du', "sends", x)
    BY <2>1, <2>2, <2>3, <2>5 DEF Fresh
  <2>7. \A x : Some(to_cu', to_du', "asked", x) =>
          /\ \A c \in CuIds : ctx[c].id # x /\ ctx[c].ho.tgt_id # x
          /\ ~Some(to_cu', to_du', "again", x) /\ ~Some(to_cu', to_du', "other", x)
    BY <2>1, <2>2 DEF Fresh
  <2>8. ue.next.why = "reest" =>
          ue.next.id # 0 /\ ~ue.here /\ \A c \in CuIds : ctx[c].ho.tgt_id # ue.next.id
    BY <2>1 DEF Fresh
  <2>9. QED BY <2>4, <2>6, <2>7, <2>8 DEF Fresh
<1>14. QED BY <1>4, <1>11, <1>12, <1>13 DEF InTurnNow, InTurn

(* The UE gets an RRC message in the context that it uses or waits in: then *)
(* nobody asks any more.                                                    *)
LEMMA AnswerEndsTurn ==
    ASSUME Base, IInv, InTurnNow, NEW d \in Dus, Taken(d), NEW m, m = Head(to_du[d]), m.t = "dl",
           UeIn(d, m.id) \/ ue.next = [du |-> d, id |-> m.id, why |-> "reest"],
           NEW e \in Dus
    PROVE  /\ ~Has(to_cu[e], to_du'[e], "turn", 0)
           /\ m.what = "reestab" => ~In(to_cu[e], "turn", 0) \/ e # d
<1>1. to_du'[d] = Tail(to_du[d]) /\ (\A k \in Dus \ {d} : to_du'[k] = to_du[k]) /\ to_du[d] # <<>>
  BY DEF Taken, DuTakes, Base, DuQ
<1>2. IsSeq(to_du[d]) /\ IsSeq(to_cu[d])
  BY TargetsOK
<1>3. Turns(ue, to_cu, to_du) /\ Fresh(ue, ctx, to_cu, to_du)
  BY DEF InTurnNow, InTurn
<1>4. TurnOK(ue, d, to_cu[d], to_du[d])
  BY <1>3 DEF Turns
<1>5. \A t, x : Is(m, t, x) => In(to_du[d], t, x)
  BY <1>1, <1>2, TailKinds
<1>6. CASE m.what = "reestab"
  <2>1. Is(m, "turn", 0)
    BY <1>6 DEF Is, Again
  <2>2. Once(to_cu[d], to_du[d], "turn", 0) /\ Has(to_cu[d], to_du[d], "turn", 0)
    BY <1>4, <1>5, <2>1 DEF TurnOK, Has
  <2>3. ~In(to_cu[d], "turn", 0) /\ ~In(to_du'[d], "turn", 0)
    BY <1>1, <1>2, <1>5, <2>1, <2>2, TailKinds DEF Once
  <2>4. e # d => ~Has(to_cu[e], to_du[e], "turn", 0)
    BY <1>3, <2>2 DEF Turns
  <2>5. QED BY <1>1, <2>3, <2>4 DEF Has
<1>7. CASE m.what # "reestab"
  <2>1. Is(m, "other", m.id)
    BY <1>7 DEF Is
  <2>2. Some(to_cu, to_du, "other", m.id)
    BY <1>5, <2>1 DEF Some, Has
  <2>3. ASSUME NEW k \in Dus, NEW i, Has(to_cu[k], to_du[k], "asked", i) \/ Has(to_cu[k], to_du[k], "again", i)
        PROVE  FALSE
    <3>1. Asks(ue, k, i)
      BY <1>3, <2>3 DEF Turns, TurnOK
    <3>2. ~UeIn(d, m.id)
      BY <3>1, NotAsking DEF UeIn
    <3>3. ue.next = [du |-> d, id |-> m.id, why |-> "reest"] /\ ue.next # Nowhere
      BY <3>2 DEF Nowhere
    <3>4. ue.next = [du |-> k, id |-> i, why |-> "reest"]
      BY <3>1, <3>3 DEF Asks
    <3>5. k = d /\ i = m.id
      BY <3>3, <3>4
    <3>6. CASE Has(to_cu[k], to_du[k], "asked", i)
      <4>1. Some(to_cu, to_du, "asked", i)
        BY <3>6 DEF Some
      <4>2. QED BY <1>3, <2>2, <3>5, <4>1 DEF Fresh
    <3>7. CASE Has(to_cu[k], to_du[k], "again", i)
      <4>1. In(to_du[d], "again", i)
        BY <3>5, <3>7, OneWay DEF Has
      <4>2. Before(to_du[d], "again", "other", i)
        BY <1>4 DEF TurnOK, Ahead
      <4>3. QED BY <1>1, <1>2, <2>1, <3>5, <4>1, <4>2, TailKinds
    <3>8. QED BY <2>3, <3>6, <3>7
  <2>4. ASSUME NEW q, In(q, "turn", 0) PROVE \E i : In(q, "asked", i) \/ In(q, "again", i)
    <3>1. PICK k \in 1..Len(q) : Is(q[k], "turn", 0)
      BY <2>4 DEF In
    <3>2. Is(q[k], "asked", q[k].id) \/ Is(q[k], "again", q[k].id)
      BY <3>1 DEF Is, Again
    <3>3. QED BY <3>2 DEF In
  <2>5. ~Has(to_cu[e], to_du[e], "turn", 0)
    BY <2>3, <2>4 DEF Has
  <2>6. In(to_du'[e], "turn", 0) => In(to_du[e], "turn", 0)
    BY <1>1, <1>2, TailKinds
  <2>7. QED BY <1>7, <2>5, <2>6 DEF Has
<1>8. QED BY <1>6, <1>7

LEMMA UeAnswersTurn ==
    ASSUME Base, IInv, InTurnNow, NEW d \in Dus, Taken(d), NEW m, m = Head(to_du[d]), m.t = "dl",
           DuMsgOK(m, mac), MacSteps, ctx' = ctx,
           UeIn(d, m.id) \/ ue.next = [du |-> d, id |-> m.id, why |-> "reest"],
           ue' = [du |-> d, id |-> m.id, here |-> TRUE, next |-> Nowhere],
           to_cu' = to_cu \/ (Sent(d, Answered(d, m)))
    PROVE  InTurnNow'
<1>1. MacKeeps(mac, mac')
  BY MacStepsKeep
<1>2. PICK a : a = Answered(d, m)
  OBVIOUS
<1> DEFINE K == Kinds \ {"answer"}
<1>3. \A t \in K : \A x : Is(a, t, x) => Is(m, t, x)
  BY <1>2 DEF Answered, Is, Again, Kinds
<1>4. \A x : ~Is(a, "names", x) /\ ~Is(a, "turn", x)
  BY <1>2 DEF Answered, Is, Again
<1>5. CalmAll(K, to_cu, to_du, to_cu', to_du')
  <2>1. CASE to_cu' = to_cu
    BY <2>1, TakenCalm
  <2>2. CASE Sent(d, a)
    BY <1>3, <2>2, MoveStep
  <2>3. QED BY <1>2, <2>1, <2>2
<1> HIDE DEF K
<1>6. ue'.id = m.id /\ ue'.next = Nowhere /\ Nowhere.id = 0 /\ Nowhere.why = "none"
  BY DEF Nowhere
<1>7. ue.id = m.id \/ (ue.next.id = m.id /\ ue.next.why = "reest")
  BY DEF UeIn
<1>8. Fits(ctx, mac) /\ Links(ctx, to_cu, to_du) /\ Turns(ue, to_cu, to_du)
      /\ Fresh(ue, ctx, to_cu, to_du) /\ Arrived(ue, ctx, to_cu)
  BY DEF InTurnNow, InTurn
<1>9. Fits(ctx, mac')
  <2>1. \A c \in CuIds : ctx[c].du \in AnyDu /\ (On(ctx[c]) => ctx[c].ho.tgt \in Dus)
    BY TargetsOK DEF AnyDu
  <2>2. QED BY <1>1, <1>8, <2>1, FitsStable
<1>10. Links(ctx, to_cu', to_du')
  <2>1. LinkKinds \subseteq K
    BY DEF K, Kinds, LinkKinds
  <2>2. CalmAll(LinkKinds, to_cu, to_du, to_cu', to_du')
    BY <1>5, <2>1, CalmAllSubset
  <2>3. QED BY <1>8, <2>2, LinksCalm
<1>11. Turns(ue', to_cu', to_du')
  <2>1. ASSUME NEW e \in Dus PROVE ~Has(to_cu'[e], to_du'[e], "turn", 0)
    <3>1. ~Has(to_cu[e], to_du'[e], "turn", 0)
      BY AnswerEndsTurn
    <3>2. CASE to_cu' = to_cu
      BY <3>1, <3>2
    <3>3. CASE Sent(d, a)
      <4>1. to_cu'[d] = Append(to_cu[d], a) /\ \A k \in Dus \ {d} : to_cu'[k] = to_cu[k]
        BY <3>3 DEF Sent, Base, CuQ
      <4>2. IsSeq(to_cu[d])
        BY TargetsOK
      <4>3. In(to_cu'[e], "turn", 0) => In(to_cu[e], "turn", 0)
        BY <1>4, <4>1, <4>2, AppendKinds
      <4>4. QED BY <3>1, <4>3 DEF Has
    <3>4. QED BY <1>2, <3>2, <3>3
  <2>2. QED BY <2>1, NoTurns
<1>12. Fresh(ue', ctx, to_cu', to_du')
  <2>1. {"made", "names", "asked", "sends", "again", "other"} \subseteq K
    BY DEF K, Kinds
  <2>2. \A t \in K : \A x : Some(to_cu', to_du', t, x) => Some(to_cu, to_du, t, x)
    BY <1>5, SomeCalm
  <2>3. \A e \in Dus : \A x : Once(to_cu[e], to_du[e], "made", x) => Once(to_cu'[e], to_du'[e], "made", x)
    BY <1>5, <2>1 DEF CalmAll, Calm
  <2>4. \A x : Some(to_cu, to_du, "made", x) => ue'.id # x /\ ue'.next.id # x
    BY <1>6, <1>7, <1>8, SomeIds DEF Fresh
  <2>5. \A x : Some(to_cu, to_du, "asked", x) => \A c \in CuIds : ctx[c].id # x /\ ctx[c].ho.tgt_id # x
    BY <1>8 DEF Fresh
  <2>6. QED BY <1>6, <1>8, <2>1, <2>2, <2>3, <2>4, <2>5, FreshStep
<1>13. Arrived(ue', ctx, to_cu')
  <2>1. /\ \A e \in Dus : IsSeq(to_cu[e])
        /\ \A c \in CuIds : On(ctx[c]) => ctx[c].ho.tgt \in Dus
    BY TargetsOK
  <2>2. \A c \in CuIds : On(ctx[c]) /\ ctx[c].ho.tgt_id # 0 /\ ue'.id = ctx[c].ho.tgt_id => ue.id = ue'.id
    BY <1>6, <1>7, <1>8 DEF Fresh
  <2>3. CASE to_cu' = to_cu
    BY <1>8, <2>2, <2>3 DEF Arrived
  <2>4. CASE Sent(d, a)
    <3>1. to_cu'[d] = Append(to_cu[d], a) /\ \A k \in Dus \ {d} : to_cu'[k] = to_cu[k]
      BY <2>4 DEF Sent, Base, CuQ
    <3>2. \A x : Is(a, "names", x) => x = ue.id
      BY <1>4
    <3>3. \A c \in CuIds : On(ctx[c]) /\ ctx[c].ho.tgt_id # 0 /\ ue'.id = ctx[c].ho.tgt_id =>
             ue.id = ue'.id \/ (ctx[c].ho.tgt = d /\ Is(a, "complete", c))
      BY <2>2
    <3>4. Arrived(ue, ctx, to_cu)
      BY <1>8
    <3>5. QED BY ONLY <2>1, <3>1, <3>2, <3>3, <3>4, d \in Dus, ArrivedSay, ZenonT(60)
  <2>5. QED BY <1>2, <2>3, <2>4
<1>14. QED BY <1>9, <1>10, <1>11, <1>12, <1>13 DEF InTurnNow, InTurn

LEMMA DuDlRrcTurn ==
    ASSUME Base, IInv, InTurnNow, NEW d \in Dus, DuDlRrc(d)
    PROVE  InTurnNow'
<1>1. PICK m : m = Head(to_du[d])
  OBVIOUS
<1>2. /\ to_du[d] # <<>> /\ m.t = "dl" /\ DuMsgOK(m, mac)
      /\ MacSteps
      /\ \/ Dies(d)
         \/ Taken(d) /\ ue' = ue /\ to_cu' = to_cu
         \/ /\ Taken(d)
            /\ UeIn(d, m.id) \/ ue.next = [du |-> d, id |-> m.id, why |-> "reest"]
            /\ ue' = [du |-> d, id |-> m.id, here |-> TRUE, next |-> Nowhere]
            /\ \/ m.what = "setup" /\ to_cu' = to_cu
               \/ m.what # "setup" /\ Says(d, Answered(d, m))
  BY <1>1, DuDlRrcEffect
<1>3. ctx' = ctx
  BY DEF DuDlRrc, cuVars
<1>4. CASE Dies(d)
  BY <1>3, <1>4, DiesTurn
<1>5. CASE Taken(d) /\ ue' = ue /\ to_cu' = to_cu
  <2>1. MacKeeps(mac, mac') /\ IsUe(ue)
    BY <1>2, MacStepsKeep, SameUe
  <2>2. QED BY <1>3, <1>5, <2>1, FadingStep
<1>6. CASE /\ Taken(d)
           /\ UeIn(d, m.id) \/ ue.next = [du |-> d, id |-> m.id, why |-> "reest"]
           /\ ue' = [du |-> d, id |-> m.id, here |-> TRUE, next |-> Nowhere]
           /\ \/ m.what = "setup" /\ to_cu' = to_cu
              \/ m.what # "setup" /\ Says(d, Answered(d, m))
  <2>1. to_cu' = to_cu \/ Sent(d, Answered(d, m))
    BY <1>6 DEF Says
  <2>2. QED BY <1>1, <1>2, <1>3, <1>6, <2>1, UeAnswersTurn
<1>7. QED BY <1>2, <1>4, <1>5, <1>6

LEMMA UeStepsTurn ==
    ASSUME Base, IInv, InTurnNow, UeArrives \/ UeLosesRadio \/ UeGivesUp
    PROVE  InTurnNow'
<1>1. /\ mac' = mac /\ up' = up /\ to_du' = to_du /\ ctx' = ctx
      /\ IsUe(ue')
      /\ to_cu' = to_cu \/ (UeArrives /\ Says(ue.next.du, UeMessage))
  BY UeStepsEffect
<1>2. MacKeeps(mac, mac') /\ IsUe(ue)
  BY <1>1, SameMac, MacStepsKeep, SameUe
<1>3. Fresh(ue, ctx, to_cu, to_du) /\ Arrived(ue, ctx, to_cu)
  BY DEF InTurnNow, InTurn
<1>4. Nowhere.id = 0 /\ Nowhere.why = "none"
  BY DEF Nowhere
<1>5. CASE UeLosesRadio
  <2>1. ue'.next = ue.next /\ ue'.id = ue.id /\ ~ue'.here /\ to_cu' = to_cu
    BY <1>2, <1>5 DEF UeLosesRadio, IsUe, netVars
  <2>2. QED BY <1>1, <1>2, <2>1, FadingStep
<1>6. CASE UeGivesUp
  <2>1. /\ ue'.next = Nowhere /\ ue'.here = ue.here /\ to_cu' = to_cu
        /\ ue'.id = (IF ue.next.why = "ho" THEN ue.id ELSE 0) /\ ue.next # Nowhere
    BY <1>2, <1>6 DEF UeGivesUp, IsUe, netVars
  <2>2. CalmAll(Kinds, to_cu, to_du, to_cu', to_du')
    BY <1>1, <2>1, CalmSame DEF CalmAll
  <2>3. \A d, i : Asks(ue, d, i) => Asks(ue', d, i)
    <3>1. ASSUME NEW d, NEW i, Asks(ue, d, i) PROVE ue.next.why = "reest"
      BY <2>1, <3>1 DEF Asks
    <3>2. QED BY <1>3, <2>1, <3>1 DEF Asks, Fresh
  <2>4. /\ \A i : Some(to_cu, to_du, "made", i) => ue'.id # i /\ ue'.next.id # i
        /\ ue'.next.why = "reest" => ue'.next = ue.next /\ ~ue'.here
    BY <1>3, <1>4, <2>1, SomeIds DEF Fresh
  <2>5. Arrived(ue', ctx, to_cu')
    BY <1>3, <2>1, ArrivedSame
  <2>6. QED BY <1>1, <1>2, <2>2, <2>3, <2>4, <2>5, CalmStep DEF InTurnNow
<1>7. CASE UeArrives
  <2>1. PICK a : a = UeMessage
    OBVIOUS
  <2>2. PICK d : d = ue.next.du
    OBVIOUS
  <2>3. PICK i : i = ue.next.id
    OBVIOUS
  <2>4. /\ ue' = [du |-> d, id |-> i, here |-> TRUE, next |-> Nowhere]
        /\ Sent(d, a) /\ Known(d, i) /\ ue.next.why = "ho" /\ a.t = "complete" /\ a.cu = mac[i].cu
    BY <1>7, <2>1, <2>2, <2>3 DEF UeArrives, UeMessage
  <2>5. d \in Dus /\ mac[i].du = d /\ i \in Ids
    BY <2>4, KnownOK
  <2>6. ue'.id = i /\ ue'.next = Nowhere
    BY <2>4
  <2>7. Neutral(a)
    BY <2>1, NeutralMessages DEF UeMessage
  <2>8. CalmAll(Kinds, to_cu, to_du, to_cu', to_du')
    BY <1>1, <2>4, <2>5, <2>7, SaidCalm DEF Neutral
  <2>9. to_cu'[d] = Append(to_cu[d], a) /\ \A k \in Dus \ {d} : to_cu'[k] = to_cu[k]
    BY <2>4, <2>5 DEF Sent, Base, CuQ
  <2>10. \A c \in CuIds : On(ctx[c]) /\ ctx[c].ho.tgt_id # 0 /\ ue'.id = ctx[c].ho.tgt_id =>
            ctx[c].ho.tgt = d /\ Is(a, "complete", c)
    <3>1. ASSUME NEW c \in CuIds, On(ctx[c]), ctx[c].ho.tgt_id # 0, ue'.id = ctx[c].ho.tgt_id
          PROVE  ctx[c].ho.tgt = d /\ Is(a, "complete", c)
      <4>1. CtxOK(ctx[c], c, mac)
        BY DEF InTurnNow, InTurn, Fits
      <4>2. mac[i].du = ctx[c].ho.tgt /\ mac[i].cu = c
        BY <2>6, <3>1, <4>1 DEF CtxOK, MadeIn
      <4>3. QED BY <2>4, <2>5, <4>2 DEF Is
    <3>2. QED BY <3>1
  <2>11. Arrived(ue', ctx, to_cu')
    <3>1. /\ \A e \in Dus : IsSeq(to_cu[e])
          /\ \A c \in CuIds : On(ctx[c]) => ctx[c].ho.tgt \in Dus
      BY TargetsOK
    <3>2. \A x : Is(a, "names", x) => x = ue.id
      BY <2>7 DEF Neutral, Kinds
    <3>3. \A c \in CuIds : On(ctx[c]) /\ ctx[c].ho.tgt_id # 0 /\ ue'.id = ctx[c].ho.tgt_id =>
             ue.id = ue'.id \/ (ctx[c].ho.tgt = d /\ Is(a, "complete", c))
      BY <2>10
    <3>4. QED BY ONLY <1>3, <2>5, <2>9, <3>1, <3>2, <3>3, ArrivedSay, ZenonT(60)
  <2>12. \A e, x : Asks(ue, e, x) => Asks(ue', e, x)
    BY <2>4, NotAsking
  <2>13. /\ \A x : Some(to_cu, to_du, "made", x) => ue'.id # x /\ ue'.next.id # x
         /\ ue'.next.why = "reest" => ue'.next = ue.next /\ ~ue'.here
    BY <1>3, <1>4, <2>3, <2>6, SomeIds DEF Fresh
  <2>14. QED BY <1>1, <1>2, <2>8, <2>11, <2>12, <2>13, CalmStep DEF InTurnNow
<1>8. QED BY <1>5, <1>6, <1>7

LEMMA UeReestablishesTurn ==
    ASSUME Base, IInv, InTurnNow, NEW d \in Dus, UeReestablishes(d)
    PROVE  InTurnNow'
<1>1. Cardinality(UsedIds(mac)) <= MaxEvents /\ Used(mac, ue.id)
  BY ReestablishRoom
<1>2. PICK i : i = NewId
  OBVIOUS
<1>3. PICK a : a = [t |-> "reest_req", pci |-> ue.du, rnti |-> ue.id, id |-> i]
  OBVIOUS
<1>4. /\ Sent(d, a) /\ ctx' = ctx /\ to_du' = to_du
      /\ mac' = [mac EXCEPT ![NewId] = [du |-> d, cu |-> 0, st |-> "active"]]
      /\ ue' = [ue EXCEPT !.next = [du |-> d, id |-> i, why |-> "reest"]]
      /\ ~ue.here /\ ue.id # 0 /\ ue.next.why # "reest"
  BY <1>2, <1>3 DEF UeReestablishes, cuVars
<1>5. MacKeeps(mac, mac') /\ ~Used(mac, i) /\ i # 0
  <2>1. 0 \in 0..MaxEvents + 1
    BY BoundAssumption
  <2>2. QED BY <1>1, <1>2, <1>4, <2>1, NewIdStep
<1>6. /\ ue'.id = ue.id /\ ue'.here = ue.here /\ ue'.next = [du |-> d, id |-> i, why |-> "reest"]
      /\ ue'.next.id = i /\ ue'.next.why = "reest"
  BY <1>4, SameUe DEF IsUe
<1>7. \A e \in Dus : ~Has(to_cu[e], to_du[e], "turn", 0)
  <2>1. \A e, x : ~Asks(ue, e, x)
    BY <1>4, NotAsking
  <2>2. QED BY <2>1, NobodyAsks
<1>8. /\ \A x : Is(a, "turn", x)
      /\ \A x : Is(a, "asked", x) <=> x = i
      /\ \A x : Is(a, "names", x) <=> x = ue.id
      /\ \A t \in Kinds \ {"turn", "asked", "names"} : \A x : ~Is(a, t, x)
  BY <1>3 DEF Is, Again, Kinds
<1>9. to_cu'[d] = Append(to_cu[d], a) /\ \A e \in Dus \ {d} : to_cu'[e] = to_cu[e]
  BY <1>4 DEF Sent, Base, CuQ
<1> DEFINE K == Kinds \ {"turn", "asked", "names"}
<1>10. CalmAll(K, to_cu, to_du, to_cu', to_du')
  BY <1>4, <1>8, SaidCalm
<1> HIDE DEF K
<1>11. Fits(ctx, mac) /\ Links(ctx, to_cu, to_du) /\ Fresh(ue, ctx, to_cu, to_du) /\ Arrived(ue, ctx, to_cu)
  BY DEF InTurnNow, InTurn
<1>12. Fits(ctx, mac')
  <2>1. \A c \in CuIds : ctx[c].du \in AnyDu /\ (On(ctx[c]) => ctx[c].ho.tgt \in Dus)
    BY TargetsOK DEF AnyDu
  <2>2. QED BY <1>5, <1>11, <2>1, FitsStable
<1>13. Links(ctx, to_cu', to_du')
  <2>1. LinkKinds \subseteq K
    BY DEF K, Kinds, LinkKinds
  <2>2. CalmAll(LinkKinds, to_cu, to_du, to_cu', to_du')
    BY <1>10, <2>1, CalmAllSubset
  <2>3. QED BY <1>11, <2>2, LinksCalm
<1>14. ASSUME NEW e \in Dus, NEW x
       PROVE  /\ Has(to_cu'[e], to_du'[e], "turn", x) => e = d
              /\ Has(to_cu'[e], to_du'[e], "asked", x) => e = d /\ x = i
              /\ ~Has(to_cu'[e], to_du'[e], "again", x)
              /\ Has(to_cu'[e], to_du'[e], "names", x) => Has(to_cu[e], to_du[e], "names", x) \/ x = ue.id
              /\ TurnOK(ue', e, to_cu'[e], to_du'[e])
  <2>1. IsSeq(to_cu[e]) /\ IsSeq(to_du[e])
    BY TargetsOK
  <2>2. ~In(to_cu[e], "turn", 0) /\ ~In(to_du[e], "turn", 0)
    BY <1>7 DEF Has
  <2>3. ASSUME NEW q, ~In(q, "turn", 0)
        PROVE  /\ \A y : ~In(q, "asked", y) /\ ~In(q, "again", y) /\ ~In(q, "turn", y)
               /\ One(q, "turn", 0) /\ Before(q, "answer", "turn", 0)
               /\ \A y : Before(q, "again", "other", y)
    <3>1. \A k \in 1..Len(q) : ~Is(q[k], "turn", 0)
      BY <2>3 DEF In
    <3>2. \A y : \A k \in 1..Len(q) : ~Is(q[k], "asked", y) /\ ~Is(q[k], "again", y) /\ ~Is(q[k], "turn", y)
      BY <3>1 DEF Is
    <3>3. QED BY <3>1, <3>2 DEF In, One, Before
  <2>4. ~In(to_du[e], "answer", 0)
    BY OneWay
  <2>5. CASE e # d
    <3>1. to_cu'[e] = to_cu[e] /\ to_du'[e] = to_du[e]
      BY <1>4, <1>9, <2>5
    <3>2. QED BY <2>2, <2>3, <3>1 DEF Has, TurnOK, Once, Ahead
  <2>6. CASE e = d
    <3>1. to_cu'[e] = Append(to_cu[e], a) /\ to_du'[e] = to_du[e]
      BY <1>4, <1>9, <2>6
    <3>2. \A t, y : In(to_cu'[e], t, y) <=> In(to_cu[e], t, y) \/ Is(a, t, y)
      BY <2>1, <3>1, AppendKinds
    <3>3. ~Is(a, "again", x) /\ ~Is(a, "answer", 0) /\ \A y : ~Is(a, "again", y)
      BY <1>8 DEF Kinds
    <3>4. One(to_cu'[e], "turn", 0) /\ Before(to_cu'[e], "answer", "turn", 0)
      BY <2>1, <2>2, <2>3, <3>1, <3>3, AppendKinds
    <3>5. \A y : Before(to_cu'[e], "again", "other", y)
      BY <2>1, <2>2, <2>3, <3>1, <3>3, AppendKinds
    <3>6. ASSUME NEW y, Has(to_cu'[e], to_du'[e], "asked", y) \/ Has(to_cu'[e], to_du'[e], "again", y)
          PROVE  Asks(ue', e, y)
      <4>1. y = i
        BY <1>8, <2>2, <2>3, <3>1, <3>2, <3>3, <3>6 DEF Has
      <4>2. QED BY <1>6, <2>6, <4>1 DEF Asks
    <3>7. Once(to_cu'[e], to_du'[e], "turn", 0)
      BY <2>2, <2>3, <3>1, <3>4 DEF Once
    <3>8. Ahead(to_cu'[e], to_du'[e], "answer", "turn", 0)
      BY <2>2, <2>3, <2>4, <3>1, <3>4 DEF Ahead
    <3>9. \A y : Ahead(to_cu'[e], to_du'[e], "again", "other", y)
      BY <2>2, <2>3, <3>1, <3>5 DEF Ahead
    <3>10. TurnOK(ue', e, to_cu'[e], to_du'[e])
      BY <3>6, <3>7, <3>8, <3>9 DEF TurnOK
    <3>11. QED BY <1>8, <2>2, <2>3, <2>6, <3>1, <3>2, <3>3, <3>10 DEF Has
  <2>7. QED BY <2>5, <2>6
<1>15. Turns(ue', to_cu', to_du')
  BY <1>14 DEF Turns
<1>16. Fresh(ue', ctx, to_cu', to_du')
  <2>1. {"made", "sends", "again", "other"} \subseteq K
    BY DEF K, Kinds
  <2>2. \A t \in K : \A x : Some(to_cu', to_du', t, x) => Some(to_cu, to_du, t, x)
    BY <1>10, SomeCalm
  <2>3. \A e \in Dus : \A x : Once(to_cu'[e], to_du'[e], "made", x)
    <3>1. \A e \in Dus : \A x : Once(to_cu[e], to_du[e], "made", x)
      BY <1>11 DEF Fresh
    <3>2. QED BY <1>10, <2>1, <3>1 DEF CalmAll, Calm
  <2>4. \A x : /\ Some(to_cu', to_du', "asked", x) => x = i
               /\ ~Some(to_cu', to_du', "again", x)
               /\ Some(to_cu', to_du', "names", x) => Some(to_cu, to_du, "names", x) \/ x = ue.id
    BY <1>14 DEF Some
  <2>5. ~Some(to_cu, to_du, "made", i) /\ ~Some(to_cu, to_du, "other", i)
    BY <1>5, SomeIds DEF Mentioned
  <2>6. \A c \in CuIds : ctx[c].id # i /\ ctx[c].ho.tgt_id # i
    BY <1>5 DEF Base, CtxBase, Mentioned
  <2>7. \A x : Some(to_cu', to_du', "made", x) =>
          /\ ue'.id # x /\ ue'.next.id # x
          /\ ~Some(to_cu', to_du', "names", x) /\ ~Some(to_cu', to_du', "asked", x)
          /\ ~Some(to_cu', to_du', "sends", x)
    BY <1>6, <1>11, <2>1, <2>2, <2>4, <2>5 DEF Fresh
  <2>8. \A x : Some(to_cu', to_du', "asked", x) =>
          /\ \A c \in CuIds : ctx[c].id # x /\ ctx[c].ho.tgt_id # x
          /\ ~Some(to_cu', to_du', "again", x) /\ ~Some(to_cu', to_du', "other", x)
    BY <2>1, <2>2, <2>4, <2>5, <2>6
  <2>9. ue'.next.id # 0 /\ ~ue'.here /\ \A c \in CuIds : ctx[c].ho.tgt_id # ue'.next.id
    BY <1>4, <1>5, <1>6, <2>6
  <2>10. QED BY <2>3, <2>7, <2>8, <2>9 DEF Fresh
<1>17. Arrived(ue', ctx, to_cu')
  <2>1. /\ \A e \in Dus : IsSeq(to_cu[e])
        /\ \A c \in CuIds : On(ctx[c]) => ctx[c].ho.tgt \in Dus
    BY TargetsOK
  <2>2. \A x : Is(a, "names", x) => x = ue.id
    BY <1>8
  <2>3. \A c \in CuIds : On(ctx[c]) /\ ctx[c].ho.tgt_id # 0 /\ ue'.id = ctx[c].ho.tgt_id =>
           ue.id = ue'.id \/ (ctx[c].ho.tgt = d /\ Is(a, "complete", c))
    BY <1>6
  <2>4. Arrived(ue, ctx, to_cu)
    BY <1>11
  <2>5. QED BY ONLY <1>9, <2>1, <2>2, <2>3, <2>4, d \in Dus, ArrivedSay, ZenonT(60)
<1>18. QED BY <1>4, <1>12, <1>13, <1>15, <1>16, <1>17 DEF InTurnNow, InTurn

-----------------------------------------------------------------------------
(* The CU keeps it.                                                         *)

Assoc(Q) == Q = [e \in Dus |-> Q[e]] /\ \A e \in Dus : IsSeq(Q[e])

LEMMA QueuedCalm ==
    ASSUME Base, IInv, NEW K, NEW P, NEW Q, Assoc(Q),
           NEW d, NEW m, \A t \in K : \A x : ~Is(m, t, x)
    PROVE  CalmAll(K, P, Q, P, Queued(Q, d, m))
<1>1. up \subseteq Dus
  BY BaseParts
<1>0. Q = [e \in Dus |-> Q[e]] /\ \A e \in Dus : IsSeq(Q[e])
  BY DEF Assoc
<1>2. CASE d \notin up
  BY <1>2, CalmSame DEF Queued, CalmAll
<1>3. CASE d \in up
  <2> DEFINE Q2 == Queued(Q, d, m)
  <2>1. Q2[d] = Append(Q[d], m) /\ \A e \in Dus \ {d} : Q2[e] = Q[e]
    BY <1>0, <1>1, <1>3 DEF Queued
  <2> HIDE DEF Q2
  <2>2. ASSUME NEW e \in Dus PROVE Calm(K, P[e], Q[e], P[e], Q2[e])
    <3>1. CASE e = d
      <4>1. Calm(K, P[d], Q[d], P[d], Append(Q[d], m))
        BY <1>0, <1>1, <1>3, CuSayCalm
      <4>2. QED BY <2>1, <3>1, <4>1
    <3>2. CASE e # d
      BY <2>1, <3>2, CalmSame
    <3>3. QED BY <3>1, <3>2
  <2>3. QED BY <2>2 DEF CalmAll, Q2
<1>4. QED BY <1>2, <1>3

LEMMA QueuedKinds ==
    ASSUME Base, IInv, NEW P, NEW Q, Assoc(Q), NEW d, NEW m, NEW Q2, Q2 = Queued(Q, d, m)
    PROVE  /\ \A e \in Dus : \A t, x : Has(P[e], Q2[e], t, x) =>
                 Has(P[e], Q[e], t, x) \/ (e = d /\ Is(m, t, x))
           /\ \A e \in Dus : \A t, u, x :
                 Ahead(P[e], Q[e], t, u, x) /\ ~Is(m, t, x) => Ahead(P[e], Q2[e], t, u, x)
           /\ Assoc(Q2)
           /\ \A e \in Dus : e # d => Q2[e] = Q[e]
           /\ Q2[d] = Q[d] \/ (d \in Dus /\ Q2[d] = Append(Q[d], m))
<1>1. up \subseteq Dus
  BY BaseParts
<1>0. Q = [e \in Dus |-> Q[e]] /\ \A e \in Dus : IsSeq(Q[e])
  BY DEF Assoc
<1>2. CASE d \notin up
  <2>1. Q2 = Q
    BY <1>2 DEF Queued
  <2>2. Assoc(Q2)
    BY <2>1
  <2>3. QED BY ONLY <2>1, <2>2
<1>3. CASE d \in up
  <2>1. Q2[d] = Append(Q[d], m) /\ (\A e \in Dus \ {d} : Q2[e] = Q[e]) /\ d \in Dus
        /\ Q2 = [e \in Dus |-> Q2[e]]
    <3>1. Q2 = [Q EXCEPT ![d] = Append(Q[d], m)] /\ d \in Dus
      BY <1>1, <1>3 DEF Queued
    <3>2. Q2 = [e \in Dus |-> IF e = d THEN Append(Q[d], m) ELSE Q[e]]
      BY <1>0, <3>1
    <3>3. QED BY ONLY <3>1, <3>2
  <2>2. IsSeq(Q[d]) /\ IsSeq(Q2[d])
    <3>1. IsSeq(Q[d])
      BY <1>0, <2>1
    <3>2. IsSeq(Append(Q[d], m))
      BY ONLY <3>1, SeqAppend
    <3>3. QED BY ONLY <2>1, <3>1, <3>2
  <2>3. \A t, u, x : /\ Has(P[d], Q2[d], t, x) <=> Has(P[d], Q[d], t, x) \/ Is(m, t, x)
                     /\ Ahead(P[d], Q[d], t, u, x) /\ ~Is(m, t, x) => Ahead(P[d], Q2[d], t, u, x)
    <3>1. \A t, u, x :
             /\ Has(P[d], Append(Q[d], m), t, x) <=> Has(P[d], Q[d], t, x) \/ Is(m, t, x)
             /\ Ahead(P[d], Q[d], t, u, x) /\ ~Is(m, t, x) => Ahead(P[d], Append(Q[d], m), t, u, x)
      BY ONLY <2>2, CuSayKind
    <3>2. QED BY ONLY <2>1, <3>1
  <2>4. ASSUME NEW e \in Dus
        PROVE  /\ \A t, x : Has(P[e], Q2[e], t, x) => Has(P[e], Q[e], t, x) \/ (e = d /\ Is(m, t, x))
               /\ \A t, u, x : Ahead(P[e], Q[e], t, u, x) /\ ~Is(m, t, x) => Ahead(P[e], Q2[e], t, u, x)
               /\ IsSeq(Q2[e]) /\ (e # d => Q2[e] = Q[e])
    BY <1>0, <2>1, <2>2, <2>3
  <2>5. Assoc(Q2)
    BY <2>1, <2>4 DEF Assoc
  <2>6. QED BY <2>1, <2>4, <2>5
<1>4. QED BY <1>2, <1>3

LEMMA TakeCalm ==
    ASSUME Base, NEW d \in Dus, to_cu[d] # <<>>, CuTakes(d), NEW K
    PROVE  CalmAll(K, to_cu, to_du, to_cu', to_du)
<1>1. to_cu = [e \in Dus |-> to_cu[e]] /\ \A e \in Dus : IsSeq(to_cu[e])
  BY DEF Base, CuQ
<1>2. to_cu'[d] = Tail(to_cu[d]) /\ \A e \in Dus \ {d} : to_cu'[e] = to_cu[e]
  BY <1>1 DEF CuTakes
<1>3. ASSUME NEW e \in Dus PROVE Calm(K, to_cu[e], to_du[e], to_cu'[e], to_du[e])
  <2>1. CASE e = d
    <3>1. Calm(K, to_cu[d], to_du[d], Tail(to_cu[d]), to_du[d])
      BY <1>1, CuTakeCalm
    <3>2. QED BY ONLY <1>2, <2>1, <3>1
  <2>2. CASE e # d
    BY <1>2, <2>2, CalmSame
  <2>3. QED BY <2>1, <2>2
<1>4. QED BY <1>3 DEF CalmAll

(* The messages to the CU are as they were, or the first of one association *)
(* is taken; no handover whose completion is taken goes on.                 *)
TookOne ==
    \/ to_cu' = to_cu
    \/ \E d \in Dus : /\ to_cu[d] # <<>> /\ CuTakes(d)
                      /\ \A c \in CuIds : Is(Head(to_cu[d]), "complete", c) => ~On(ctx'[c])

LEMMA TookOneCalm ==
    ASSUME Base, TookOne, NEW K
    PROVE  CalmAll(K, to_cu, to_du, to_cu', to_du)
<1>1. CASE to_cu' = to_cu
  BY <1>1, CalmSame DEF CalmAll
<1>2. ASSUME NEW d \in Dus, to_cu[d] # <<>> /\ CuTakes(d) PROVE CalmAll(K, to_cu, to_du, to_cu', to_du)
  BY <1>2, TakeCalm
<1>3. QED BY <1>1, <1>2 DEF TookOne

LEMMA ArrivedTakeOne ==
    ASSUME Base, IInv, Arrived(ue, ctx, to_cu), TookOne,
           NEW c \in CuIds, On(ctx'[c]), ctx'[c].ho.tgt_id # 0,
           On(ctx[c]), ctx'[c].ho.tgt = ctx[c].ho.tgt, ctx'[c].ho.tgt_id = ctx[c].ho.tgt_id
    PROVE  /\ ue.id = ctx'[c].ho.tgt_id => In(to_cu'[ctx'[c].ho.tgt], "complete", c)
           /\ Led(to_cu'[ctx'[c].ho.tgt], ctx'[c].ho.tgt_id, c)
<1>1. PICK i : i = ctx[c].ho.tgt_id
  OBVIOUS
<1>2. PICK t : t = ctx[c].ho.tgt
  OBVIOUS
<1>3. On(ctx[c]) /\ ctx'[c].ho.tgt = t /\ ctx'[c].ho.tgt_id = i /\ i # 0
  BY <1>1, <1>2
<1>4. t \in Dus /\ IsSeq(to_cu[t]) /\ \A d \in Dus : IsSeq(to_cu[d])
  BY <1>2, <1>3, TargetsOK
<1>5. (ue.id = i => In(to_cu[t], "complete", c)) /\ Led(to_cu[t], i, c)
  BY <1>1, <1>2, <1>3 DEF Arrived
<1>6. CASE to_cu' = to_cu
  BY <1>3, <1>5, <1>6
<1>7. ASSUME NEW d \in Dus, to_cu[d] # <<>>, CuTakes(d),
             \A k \in CuIds : Is(Head(to_cu[d]), "complete", k) => ~On(ctx'[k])
      PROVE  (ue.id = i => In(to_cu'[t], "complete", c)) /\ Led(to_cu'[t], i, c)
  <2>1. to_cu'[d] = Tail(to_cu[d]) /\ \A e \in Dus \ {d} : to_cu'[e] = to_cu[e]
    BY <1>7 DEF CuTakes, Base, CuQ
  <2>2. ~Is(Head(to_cu[d]), "complete", c)
    BY <1>7
  <2>3. CASE t = d
    BY <1>4, <1>5, <1>7, <2>1, <2>2, <2>3, LedTail
  <2>4. CASE t # d
    BY <1>4, <1>5, <2>1, <2>4
  <2>5. QED BY <2>3, <2>4
<1>8. QED BY <1>3, <1>6, <1>7 DEF TookOne

LEMMA ArrivedTake ==
    ASSUME Base, IInv, Arrived(ue, ctx, to_cu), TookOne,
           \A c \in CuIds : On(ctx'[c]) /\ ctx'[c].ho.tgt_id # 0 =>
               On(ctx[c]) /\ ctx'[c].ho.tgt = ctx[c].ho.tgt /\ ctx'[c].ho.tgt_id = ctx[c].ho.tgt_id
    PROVE  Arrived(ue, ctx', to_cu')
BY ArrivedTakeOne DEF Arrived

(* What the CU may send without more ado: nothing of a kind but a message   *)
(* to a UE under the ID that it has.                                        *)
Plain(m) == \A t \in Kinds : \A x : Is(m, t, x) => t = "other" /\ \E c \in CuIds : x = ctx'[c].id
IdsKept == \A c \in CuIds :
    /\ ctx'[c].id \in {ctx[c].id, ctx[c].ho.tgt_id, 0}
    /\ ctx'[c].ho.tgt_id \in {ctx[c].ho.tgt_id, 0}
    /\ On(ctx'[c]) => On(ctx[c]) /\ ctx'[c].ho = ctx[c].ho

LEMMA CuStepTurn ==
    ASSUME Base, IInv, InTurnNow, mac' = mac, ue' = ue, TookOne, IdsKept,
           Fits(ctx', mac), Links(ctx', to_cu', to_du),
           to_du' = to_du \/ \E d, m : to_du' = Queued(to_du, d, m) /\ Plain(m)
    PROVE  InTurnNow'
<1>1. Turns(ue, to_cu, to_du) /\ Fresh(ue, ctx, to_cu, to_du) /\ Arrived(ue, ctx, to_cu)
  BY DEF InTurnNow, InTurn
<1>2. Assoc(to_du)
  BY DEF Base, DuQ, Assoc
<1> DEFINE K == Kinds \ {"other"}
<1>3. CalmAll(Kinds, to_cu, to_du, to_cu', to_du)
  BY TookOneCalm
<1>4. ASSUME NEW d, NEW m, to_du' = Queued(to_du, d, m), Plain(m)
      PROVE  /\ CalmAll(K, to_cu', to_du, to_cu', to_du')
             /\ \A e \in Dus : \A x :
                   /\ Ahead(to_cu'[e], to_du[e], "again", "other", x)
                         => Ahead(to_cu'[e], to_du'[e], "again", "other", x)
                   /\ Has(to_cu'[e], to_du'[e], "other", x)
                         => Has(to_cu'[e], to_du[e], "other", x) \/ \E c \in CuIds : x = ctx'[c].id
  <2>1. \A t \in K : \A x : ~Is(m, t, x)
    BY <1>4 DEF Plain
  <2>2. CalmAll(K, to_cu', to_du, to_cu', to_du')
    BY <1>2, <1>4, <2>1, QueuedCalm
  <2>3. \A x : ~Is(m, "again", x) /\ (Is(m, "other", x) => \E c \in CuIds : x = ctx'[c].id)
    BY <1>4 DEF Plain, Kinds
  <2>4. /\ \A e \in Dus : \A t, x : Has(to_cu'[e], to_du'[e], t, x) =>
               Has(to_cu'[e], to_du[e], t, x) \/ (e = d /\ Is(m, t, x))
        /\ \A e \in Dus : \A t, u, x :
               Ahead(to_cu'[e], to_du[e], t, u, x) /\ ~Is(m, t, x) => Ahead(to_cu'[e], to_du'[e], t, u, x)
    <3>1. PICK P : P = to_cu'
      OBVIOUS
    <3>2. /\ \A e \in Dus : \A t, x : Has(P[e], to_du'[e], t, x) =>
               Has(P[e], to_du[e], t, x) \/ (e = d /\ Is(m, t, x))
          /\ \A e \in Dus : \A t, u, x :
               Ahead(P[e], to_du[e], t, u, x) /\ ~Is(m, t, x) => Ahead(P[e], to_du'[e], t, u, x)
      BY <1>2, <1>4, QueuedKinds
    <3>3. QED BY ONLY <3>1, <3>2
  <2>5. QED BY <2>2, <2>3, <2>4
<1>5. /\ CalmAll(K, to_cu', to_du, to_cu', to_du')
      /\ \A e \in Dus : \A x :
            /\ Ahead(to_cu'[e], to_du[e], "again", "other", x)
                  => Ahead(to_cu'[e], to_du'[e], "again", "other", x)
            /\ Has(to_cu'[e], to_du'[e], "other", x)
                  => Has(to_cu'[e], to_du[e], "other", x) \/ \E c \in CuIds : x = ctx'[c].id
  <2>1. CASE to_du' = to_du
    BY <2>1, CalmSame DEF CalmAll
  <2>2. QED BY <1>4, <2>1
<1>6. CalmAll(K, to_cu, to_du, to_cu', to_du')
  <2>1. CalmAll(K, to_cu, to_du, to_cu', to_du)
    BY <1>3, CalmAllSubset
  <2>2. QED BY <1>5, <2>1, CalmAllTrans
<1> HIDE DEF K
<1>7. Links(ctx', to_cu', to_du')
  <2>1. LinkKinds \subseteq K
    BY DEF K, Kinds, LinkKinds
  <2>2. CalmAll(LinkKinds, to_cu', to_du, to_cu', to_du')
    BY <1>5, <2>1, CalmAllSubset
  <2>3. QED BY <2>2, LinksCalm
<1>8. Turns(ue, to_cu', to_du')
  <2>1. TurnKinds \subseteq K
    BY DEF K, Kinds, TurnKinds
  <2>2. CalmAll(TurnKinds, to_cu, to_du, to_cu', to_du')
    BY <1>6, <2>1, CalmAllSubset
  <2>3. ASSUME NEW e \in Dus, NEW x, Ahead(to_cu[e], to_du[e], "again", "other", x)
        PROVE  Ahead(to_cu'[e], to_du'[e], "again", "other", x)
    <3>1. Ahead(to_cu'[e], to_du[e], "again", "other", x)
      BY <1>3, <2>3 DEF CalmAll, Calm, Kinds
    <3>2. QED BY <1>5, <3>1
  <2>4. QED BY <1>1, <2>2, <2>3, TurnsCalm
<1>9. Fresh(ue, ctx', to_cu', to_du')
  <2>1. {"made", "names", "asked", "sends", "again"} \subseteq K /\ "other" \in Kinds
    BY DEF K, Kinds
  <2>2. \A t \in K : \A x : Some(to_cu', to_du', t, x) => Some(to_cu, to_du, t, x)
    BY <1>6, SomeCalm
  <2>3. \A e \in Dus : \A x : Once(to_cu[e], to_du[e], "made", x) => Once(to_cu'[e], to_du'[e], "made", x)
    BY <1>6, <2>1 DEF CalmAll, Calm
  <2>4. \A x : Some(to_cu', to_du, "other", x) => Some(to_cu, to_du, "other", x)
    BY <1>3, <2>1, SomeCalm
  <2>5. \A x : Some(to_cu', to_du', "other", x) => Some(to_cu, to_du, "other", x) \/ \E c \in CuIds : x = ctx'[c].id
    BY <1>5, <2>4 DEF Some
  <2>6. \A x : Some(to_cu, to_du, "asked", x) => x # 0 /\ \A c \in CuIds : ctx[c].id # x /\ ctx[c].ho.tgt_id # x
    BY <1>1, SomeIds DEF Fresh
  <2>7. \A x : Some(to_cu, to_du, "asked", x) => \A c \in CuIds : ctx'[c].id # x /\ ctx'[c].ho.tgt_id # x
    BY <2>6 DEF IdsKept
  <2>8. \A x : Some(to_cu, to_du, "made", x) => ue.id # x /\ ue.next.id # x
    BY <1>1 DEF Fresh
  <2>9. ue.next.why = "reest" =>
           /\ ~ue.here
           /\ \A c \in CuIds : ctx'[c].ho.tgt_id = 0 \/ \E k \in CuIds : ctx'[c].ho.tgt_id = ctx[k].ho.tgt_id
    BY <1>1 DEF Fresh, IdsKept
  <2>10. \A x : Some(to_cu, to_du, "asked", x) =>
               /\ \A c \in CuIds : ctx'[c].id # x /\ ctx'[c].ho.tgt_id # x
               /\ Some(to_cu', to_du', "other", x) => Some(to_cu, to_du, "other", x)
    BY <2>5, <2>7
  <2>11. QED BY <1>1, <2>1, <2>2, <2>3, <2>8, <2>9, <2>10, FreshStep
<1>10. Arrived(ue, ctx', to_cu')
  BY <1>1, ArrivedTake DEF IdsKept
<1>11. QED BY <1>7, <1>8, <1>9, <1>10 DEF InTurnNow, InTurn

LEMMA NoneOnce ==
    ASSUME NEW p, NEW q, NEW t, NEW x, ~Has(p, q, t, x)
    PROVE  Once(p, q, t, x) /\ \A u : Ahead(p, q, t, u, x) /\ Ahead(p, q, u, t, x)
<1>1. ~In(p, t, x) /\ ~In(q, t, x)
  BY DEF Has
<1>2. ASSUME NEW w, ~In(w, t, x) PROVE One(w, t, x) /\ \A u : Before(w, t, u, x) /\ Before(w, u, t, x)
  BY <1>2 DEF In, One, Before
<1>3. QED BY <1>1, <1>2 DEF Once, Ahead

(* Nothing about c is under way on the association.                         *)
LEMMA QuietLink ==
    ASSUME NEW r, NEW c, NEW d, NEW p, NEW q,
           \A t \in LinkKinds : ~Has(p, q, t, c)
    PROVE  LinkOK(r, c, d, p, q)
<1>1. ~Has(p, q, "setup", c) /\ ~Has(p, q, "modif", c) /\ ~Has(p, q, "reest", c)
  BY DEF LinkKinds
<1>2. Once(p, q, "setup", c) /\ Once(p, q, "modif", c) /\ Once(p, q, "reest", c)
      /\ Ahead(p, q, "modif", "reest", c)
  BY <1>1, NoneOnce
<1>3. QED BY <1>1, <1>2 DEF LinkOK

(* What of a context the associations tell.                                 *)
SameStage(r, r2) ==
    /\ r2.live = r.live /\ r2.ho = r.ho /\ r2.du = r.du
    /\ "reestab" \in r.xids => "reestab" \in r2.xids

LEMMA StageLink ==
    ASSUME NEW r, NEW r2, NEW c, NEW d, NEW p, NEW q, LinkOK(r, c, d, p, q), SameStage(r, r2)
    PROVE  LinkOK(r2, c, d, p, q)
BY DEF LinkOK, SameStage, On

LEMMA StageFits ==
    ASSUME NEW r, NEW r2, NEW c, NEW M, CtxOK(r, c, M), SameStage(r, r2), r2.id = r.id, r2.cg = r.cg
    PROVE  CtxOK(r2, c, M)
BY DEF CtxOK, SameStage, On

(* A context that is not in a handover is removed.                          *)
LEMMA RemovedLink ==
    ASSUME NEW r, NEW c, NEW d, NEW p, NEW q, LinkOK(r, c, d, p, q), ~On(r), NEW M
    PROVE  LinkOK(NoCtx, c, d, p, q) /\ CtxOK(NoCtx, c, M)
BY NoHoOK DEF LinkOK, CtxOK

(* A handover whose UE is switched: nothing is under way.                   *)
LEMMA SwitchedQuiet ==
    ASSUME NEW r, NEW c, NEW d, NEW p, NEW q, NEW M, CtxOK(r, c, M), LinkOK(r, c, d, p, q),
           On(r), r.live, r.du = r.ho.tgt
    PROVE  (\A t \in LinkKinds : ~Has(p, q, t, c)) /\ r.ho.tgt_id # 0 /\ r.cg = r.du
<1>1. r.ho.src # r.ho.tgt /\ r.ho.tgt_id # 0 /\ r.cg = r.ho.tgt
  BY DEF CtxOK
<1>2. ~Has(p, q, "setup", c) /\ ~Has(p, q, "modif", c) /\ ~Has(p, q, "reest", c)
  BY <1>1 DEF LinkOK
<1>3. QED BY <1>1, <1>2 DEF LinkKinds

LEMMA OneCtxTurn ==
    ASSUME Base, IInv, InTurnNow, mac' = mac, ue' = ue, TookOne, NEW c \in CuIds, Only(c),
           CtxOK(ctx'[c], c, mac),
           \A d \in Dus : LinkOK(ctx'[c], c, d, to_cu'[d], to_du[d]),
           ctx'[c].id \in {ctx[c].id, ctx[c].ho.tgt_id, 0},
           ctx'[c].ho.tgt_id \in {ctx[c].ho.tgt_id, 0},
           On(ctx'[c]) => On(ctx[c]) /\ ctx'[c].ho = ctx[c].ho,
           to_du' = to_du \/ \E d, m : to_du' = Queued(to_du, d, m) /\ Plain(m)
    PROVE  InTurnNow'
<1>1. Fits(ctx, mac) /\ Links(ctx, to_cu, to_du)
  BY DEF InTurnNow, InTurn
<1>2. IdsKept
  BY DEF IdsKept, Only
<1>3. Fits(ctx', mac)
  BY <1>1 DEF Fits, Only
<1>4. Links(ctx, to_cu', to_du)
  BY <1>1, TookOneCalm, LinksCalm
<1>5. Links(ctx', to_cu', to_du)
  BY <1>4 DEF Links, Only
<1>6. QED BY <1>2, <1>3, <1>5, CuStepTurn

(* No context changes.                                                      *)
LEMMA SameCtxTurn ==
    ASSUME Base, IInv, InTurnNow, mac' = mac, ue' = ue, TookOne, ctx' = ctx,
           to_du' = to_du \/ \E d, m : to_du' = Queued(to_du, d, m) /\ Plain(m)
    PROVE  InTurnNow'
<1>1. Fits(ctx, mac) /\ Links(ctx, to_cu, to_du)
  BY DEF InTurnNow, InTurn
<1>2. IdsKept
  BY DEF IdsKept
<1>3. Links(ctx, to_cu', to_du)
  BY <1>1, TookOneCalm, LinksCalm
<1>4. QED BY <1>1, <1>2, <1>3, CuStepTurn

LEMMA PlainMessages ==
    ASSUME NEW c \in CuIds, NEW m
    PROVE  /\ \A k, i, a : Plain(Release(k, i, a))
           /\ m.t = "dl" /\ m.what # "reestab" /\ m.id = ctx'[c].id => Plain(m)
<1>1. \A k, i, a : Plain(Release(k, i, a))
  BY NeutralMessages DEF Plain, Neutral
<1>2. ASSUME m.t = "dl", m.what # "reestab", m.id = ctx'[c].id PROVE Plain(m)
  BY <1>2 DEF Plain, Is, Again, Kinds
<1>3. QED BY <1>1, <1>2

LEMMA TransferPlain ==
    ASSUME NEW c \in CuIds, NEW Q, NEW old, NEW what, what # "reestab", NEW Q2, Q2 = Transfer(Q, c, old, what)
    PROVE  Q2 = Q \/ \E d, m : Q2 = Queued(Q, d, m) /\ Plain(m)
<1>1. PICK m : m = DlRrc(c, ctx'[c].id, old, what, ctx'[c].cg)
  OBVIOUS
<1>2. m.t = "dl" /\ m.what = what /\ m.id = ctx'[c].id
  BY <1>1 DEF DlRrc
<1>3. Plain(m)
  BY <1>2, PlainMessages
<1>4. Q2 = Q \/ Q2 = Queued(Q, ctx'[c].du, m)
  BY <1>1 DEF Transfer
<1>5. QED BY <1>3, <1>4

(* One message is taken, and it is not the completion of a handover.        *)
LEMMA TookNoCompletion ==
    ASSUME NEW d \in Dus, NEW t, Took(d, t), CuTakes(d), t # "complete"
    PROVE  TookOne
BY DEF TookOne, Took, Is

(* What is known of the message that the CU takes.                          *)
LEMMA TakenKinds ==
    ASSUME Base, IInv, InTurnNow, NEW d \in Dus, to_cu[d] # <<>>, CuTakes(d), NEW c \in CuIds,
           NEW e \in Dus
    PROVE  /\ CtxOK(ctx[c], c, mac)
           /\ LinkOK(ctx[c], c, e, to_cu[e], to_du[e]) /\ LinkOK(ctx[c], c, e, to_cu'[e], to_du[e])
           /\ \A t, x : Has(to_cu'[e], to_du[e], t, x) => Has(to_cu[e], to_du[e], t, x)
           /\ \A t, x : Is(Head(to_cu[d]), t, x) => Has(to_cu[d], to_du[d], t, x)
           /\ \A t, x : Is(Head(to_cu[d]), t, x) /\ Once(to_cu[d], to_du[d], t, x)
                           => ~Has(to_cu'[d], to_du[d], t, x)
           /\ \A t, u, x : Is(Head(to_cu[d]), u, x) /\ Ahead(to_cu[d], to_du[d], t, u, x)
                           => ~Has(to_cu[d], to_du[d], t, x)
           /\ CuMsgOK(Head(to_cu[d]), d, mac)
<1>1. Fits(ctx, mac) /\ Links(ctx, to_cu, to_du)
  BY DEF InTurnNow, InTurn
<1>2. to_cu'[d] = Tail(to_cu[d]) /\ IsSeq(to_cu[d])
  BY DEF Base, CuQ, CuTakes
<1>3. \A K : CalmAll(K, to_cu, to_du, to_cu', to_du)
  BY TakeCalm
<1>4. LinkOK(ctx[c], c, e, to_cu'[e], to_du[e])
  BY <1>1, <1>3, LinksCalm DEF Links
<1>5. ASSUME NEW t, NEW x, Has(to_cu'[e], to_du[e], t, x) PROVE Has(to_cu[e], to_du[e], t, x)
  <2>1. CalmAll({t}, to_cu, to_du, to_cu', to_du)
    BY <1>3
  <2>2. QED BY <1>5, <2>1 DEF CalmAll, Calm
<1>6. /\ \A t, x : Is(Head(to_cu[d]), t, x) => Has(to_cu[d], to_du[d], t, x)
      /\ \A t, x : Is(Head(to_cu[d]), t, x) /\ Once(to_cu[d], to_du[d], t, x)
                      => ~Has(Tail(to_cu[d]), to_du[d], t, x)
      /\ \A t, u, x : Is(Head(to_cu[d]), u, x) /\ Ahead(to_cu[d], to_du[d], t, u, x)
                      => ~Has(to_cu[d], to_du[d], t, x)
  BY <1>2, CuTakeKind
<1>7. CuMsgOK(Head(to_cu[d]), d, mac)
  BY CuTakesOK DEF Base
<1>8. CtxOK(ctx[c], c, mac) /\ LinkOK(ctx[c], c, e, to_cu[e], to_du[e])
  BY <1>1 DEF Fits, Links
<1>9. QED BY <1>2, <1>4, <1>5, <1>6, <1>7, <1>8

LEMMA ModificationResponseTurn ==
    ASSUME Base, IInv, InTurnNow, NEW d \in Dus, ModificationResponse(d)
    PROVE  InTurnNow'
<1>1. PICK c : c = Head(to_cu[d]).cu
  OBVIOUS
<1>2. /\ to_cu[d] # <<>> /\ CuTakes(d) /\ Head(to_cu[d]).t = "modif_resp" /\ TookOne
      /\ mac' = mac /\ ue' = ue /\ to_du' = to_du
  BY TookNoCompletion DEF ModificationResponse, Took, duVars
<1>3. CASE ~(Live(c) /\ HandingOver(c))
  <2>1. ctx' = ctx
    BY <1>1, <1>3 DEF ModificationResponse
  <2>2. QED BY <1>2, <2>1, SameCtxTurn
<1>4. CASE Live(c) /\ HandingOver(c)
  <2>1. ctx' = [ctx EXCEPT ![c].du = ctx[c].ho.tgt, ![c].id = ctx[c].ho.tgt_id] /\ c \in CuIds
    BY <1>1, <1>4 DEF ModificationResponse, Live
  <2>2. Only(c) /\ ctx'[c] = [ctx[c] EXCEPT !.du = ctx[c].ho.tgt, !.id = ctx[c].ho.tgt_id]
    BY <2>1, BaseParts DEF Only
  <2>3. /\ ctx'[c].live = ctx[c].live /\ ctx'[c].ho = ctx[c].ho /\ ctx'[c].cg = ctx[c].cg
        /\ ctx'[c].id = ctx[c].ho.tgt_id /\ ctx'[c].du = ctx[c].ho.tgt /\ ctx'[c].xids = ctx[c].xids
    BY <2>1, <2>2, BaseParts DEF CtxSet
  <2>4. On(ctx[c]) /\ On(ctx'[c]) /\ ctx[c].live
    BY <1>4, <2>3 DEF HandingOver, On, Live
  <2>5. Is(Head(to_cu[d]), "modif", c)
    BY <1>1, <1>2 DEF Is
  <2>6. CtxOK(ctx[c], c, mac) /\ LinkOK(ctx[c], c, d, to_cu[d], to_du[d])
        /\ Has(to_cu[d], to_du[d], "modif", c)
        /\ (Once(to_cu[d], to_du[d], "modif", c) => ~Has(to_cu'[d], to_du[d], "modif", c))
    BY <1>2, <2>1, <2>5, TakenKinds
  <2>7. ctx[c].ho.src = d /\ ctx[c].du = d /\ ctx[c].ho.tgt_id # 0
        /\ ~Has(to_cu'[d], to_du[d], "modif", c)
    BY <2>4, <2>6 DEF LinkOK
  <2>8. CtxOK(ctx'[c], c, mac)
    BY <2>3, <2>4, <2>6, <2>7 DEF CtxOK, On
  <2>9. ASSUME NEW e \in Dus PROVE LinkOK(ctx'[c], c, e, to_cu'[e], to_du[e])
    <3>1. LinkOK(ctx[c], c, e, to_cu'[e], to_du[e])
      BY <1>2, <2>1, TakenKinds
    <3>2. ~Has(to_cu'[e], to_du[e], "setup", c) /\ ~Has(to_cu'[e], to_du[e], "modif", c)
          /\ ~Has(to_cu'[e], to_du[e], "reest", c)
      BY <2>4, <2>7, <3>1 DEF LinkOK
    <3>3. QED BY <3>2, QuietLink DEF LinkKinds
  <2>10. QED BY <1>2, <2>1, <2>2, <2>3, <2>4, <2>8, <2>9, OneCtxTurn
<1>5. QED BY <1>3, <1>4

(* A handover ends whose UE is switched, or it had ended.                   *)
LEMMA EndedFits ==
    ASSUME Base, IInv, InTurnNow, NEW d \in Dus, to_cu[d] # <<>>, CuTakes(d), NEW c \in CuIds,
           ctx[c].live, On(ctx[c]) => Switched(c),
           ctx'[c].live = ctx[c].live, ctx'[c].du = ctx[c].du, ctx'[c].id = ctx[c].id,
           ctx'[c].cg = ctx[c].cg, ctx'[c].ho = NoHo,
           "reestab" \in ctx[c].xids => "reestab" \in ctx'[c].xids
    PROVE  /\ CtxOK(ctx'[c], c, mac)
           /\ \A e \in Dus : LinkOK(ctx'[c], c, e, to_cu'[e], to_du[e])
<1>1. CtxOK(ctx[c], c, mac) /\ \A e \in Dus : LinkOK(ctx[c], c, e, to_cu'[e], to_du[e])
  BY TakenKinds
<1>2. CASE On(ctx[c])
  <2>1. ctx[c].du = ctx[c].ho.tgt
    BY <1>2 DEF Switched
  <2>2. ASSUME NEW e \in Dus PROVE LinkOK(ctx'[c], c, e, to_cu'[e], to_du[e])
    BY <1>1, <1>2, <2>1, SwitchedQuiet, QuietLink
  <2>3. ctx[c].cg = ctx[c].du
    BY <1>1, <1>2, <2>1 DEF CtxOK
  <2>4. CtxOK(ctx'[c], c, mac)
    BY <1>1, <2>3 DEF CtxOK, On
  <2>5. QED BY <2>2, <2>4
<1>3. CASE ~On(ctx[c])
  <2>1. SameStage(ctx[c], ctx'[c])
    BY <1>3 DEF SameStage, On
  <2>2. QED BY <1>1, <2>1, StageLink, StageFits
<1>4. QED BY <1>2, <1>3

LEMMA ReconfigurationCompleteTurn ==
    ASSUME Base, IInv, InTurnNow, NEW d \in Dus, ReconfigurationComplete(d), ~untimely'
    PROVE  InTurnNow'
<1>1. PICK m : m = Head(to_cu[d])
  OBVIOUS
<1>2. PICK c : c = m.cu
  OBVIOUS
<1>3. /\ to_cu[d] # <<>> /\ CuTakes(d) /\ m.t = "complete" /\ mac' = mac /\ ue' = ue
  BY <1>1 DEF ReconfigurationComplete, Took, duVars
<1>4. \A k : Is(m, "complete", k) => k = c
  BY <1>2, <1>3 DEF Is, Again
<1>5. m.what # "reestab"
  BY <1>1, <1>3, CuTakesOK DEF Base, CuMsgOK
<1>6. CASE ~Live(c)
  <2>1. ctx' = ctx /\ to_du' = to_du
    BY <1>1, <1>2, <1>6 DEF ReconfigurationComplete
  <2>2. c \in CuIds => ~On(ctx'[c])
    BY <1>6, <2>1, TargetsOK DEF Live
  <2>3. TookOne
    BY <1>1, <1>3, <1>4, <2>2 DEF TookOne
  <2>4. QED BY <1>3, <2>1, <2>3, SameCtxTurn
<1>7. CASE Live(c)
  <2>1. /\ ctx' = [ctx EXCEPT ![c].xids = @ \ {m.what}, ![c].ho = NoHo] /\ c \in CuIds /\ ctx[c].live
        /\ to_du' = to_du \/ to_du' = Queued(to_du, ctx[c].ho.src, Release(c, ctx[c].ho.src_id, FALSE))
        /\ On(ctx[c]) => Switched(c)
    BY <1>1, <1>2, <1>7 DEF ReconfigurationComplete, Live, HandingOver, On
  <2>2. Only(c) /\ ctx'[c] = [ctx[c] EXCEPT !.xids = @ \ {m.what}, !.ho = NoHo]
    BY <2>1, BaseParts DEF Only
  <2>3. /\ ctx'[c].live = ctx[c].live /\ ctx'[c].ho = NoHo /\ ctx'[c].cg = ctx[c].cg
        /\ ctx'[c].id = ctx[c].id /\ ctx'[c].du = ctx[c].du /\ ctx'[c].xids = ctx[c].xids \ {m.what}
    BY <2>1, <2>2, BaseParts, ZenonT(60) DEF CtxSet
  <2>4. CtxOK(ctx'[c], c, mac) /\ \A e \in Dus : LinkOK(ctx'[c], c, e, to_cu'[e], to_du[e])
    BY <1>3, <1>5, <2>1, <2>3, EndedFits
  <2>5. ~On(ctx'[c]) /\ ctx'[c].ho.tgt_id = 0
    BY <2>3, NoHoOK DEF On
  <2>6. TookOne
    BY <1>1, <1>3, <1>4, <2>5 DEF TookOne
  <2>7. to_du' = to_du \/ \E e, n : to_du' = Queued(to_du, e, n) /\ Plain(n)
    BY <2>1, PlainMessages
  <2>8. QED BY <1>3, <2>1, <2>2, <2>3, <2>4, <2>5, <2>6, <2>7, OneCtxTurn
<1>8. QED BY <1>6, <1>7

LEMMA ReestablishmentCompleteTurn ==
    ASSUME Base, IInv, InTurnNow, NEW d \in Dus, ReestablishmentComplete(d)
    PROVE  InTurnNow' /\ (misfit' => misfit)
<1>1. PICK c : c = Head(to_cu[d]).cu
  OBVIOUS
<1>2. /\ to_cu[d] # <<>> /\ CuTakes(d) /\ Head(to_cu[d]).t = "reest_compl" /\ TookOne
      /\ mac' = mac /\ ue' = ue
  BY TookNoCompletion DEF ReestablishmentComplete, Took, duVars
<1>3. CASE ~Live(c)
  <2>1. ctx' = ctx /\ to_du' = to_du /\ misfit' = misfit
    BY <1>1, <1>3 DEF ReestablishmentComplete
  <2>2. QED BY <1>2, <2>1, SameCtxTurn
<1>6. CASE Live(c) /\ ctx[c].cg = NoDu
  <2>1. ctx' = ctx /\ to_du' = to_du /\ misfit' = misfit
    BY <1>1, <1>6 DEF ReestablishmentComplete
  <2>2. QED BY <1>2, <2>1, SameCtxTurn
<1>4. CASE Live(c) /\ ctx[c].cg # NoDu
  <2>1. /\ ctx' = [ctx EXCEPT ![c].xids = (@ \ {"reestab"}) \cup {"reestab_done"}] /\ c \in CuIds
        /\ to_du' = Transfer(to_du, c, 0, "reestab_done") /\ Misfits(c) /\ ctx[c].live
        /\ ctx[c].cg # NoDu
    BY <1>1, <1>4 DEF ReestablishmentComplete, Live
  <2>2. Only(c) /\ ctx'[c] = [ctx[c] EXCEPT !.xids = (@ \ {"reestab"}) \cup {"reestab_done"}]
    BY <2>1, BaseParts DEF Only
  <2>3. /\ ctx'[c].live = ctx[c].live /\ ctx'[c].ho = ctx[c].ho /\ ctx'[c].cg = ctx[c].cg
        /\ ctx'[c].id = ctx[c].id /\ ctx'[c].du = ctx[c].du
    BY <2>1, <2>2, BaseParts DEF CtxSet
  <2>4. Is(Head(to_cu[d]), "reest", c)
    BY <1>1, <1>2 DEF Is
  <2>5. CtxOK(ctx[c], c, mac) /\ LinkOK(ctx[c], c, d, to_cu[d], to_du[d])
        /\ Has(to_cu[d], to_du[d], "reest", c)
        /\ (Once(to_cu[d], to_du[d], "reest", c) => ~Has(to_cu'[d], to_du[d], "reest", c))
        /\ (Ahead(to_cu[d], to_du[d], "modif", "reest", c) => ~Has(to_cu[d], to_du[d], "modif", c))
        /\ (Has(to_cu'[d], to_du[d], "modif", c) => Has(to_cu[d], to_du[d], "modif", c))
    BY <1>2, <2>1, <2>4, TakenKinds
  <2>6. ctx[c].du = d /\ ~On(ctx[c]) /\ ~Has(to_cu'[d], to_du[d], "reest", c)
        /\ ~Has(to_cu'[d], to_du[d], "modif", c)
    BY <2>1, <2>5 DEF LinkOK
  <2>7. CtxOK(ctx'[c], c, mac) /\ ctx'[c].cg = ctx'[c].du
    <3>1. d # NoDu
      BY DusAssumption
    <3>2. QED BY <2>1, <2>3, <2>5, <2>6, <3>1 DEF CtxOK, On
  <2>8. ASSUME NEW e \in Dus PROVE LinkOK(ctx'[c], c, e, to_cu'[e], to_du[e])
    <3>1. LinkOK(ctx[c], c, e, to_cu'[e], to_du[e])
      BY <1>2, <2>1, TakenKinds
    <3>2. ~Has(to_cu'[e], to_du[e], "setup", c) /\ ~Has(to_cu'[e], to_du[e], "modif", c)
          /\ ~Has(to_cu'[e], to_du[e], "reest", c)
      BY <2>1, <2>6, <3>1 DEF LinkOK
    <3>3. QED BY <3>2, QuietLink DEF LinkKinds
  <2>9. to_du' = to_du \/ \E e, m : to_du' = Queued(to_du, e, m) /\ Plain(m)
    BY <2>1, TransferPlain
  <2>10. InTurnNow'
    <3>1. /\ ctx'[c].id \in {ctx[c].id, ctx[c].ho.tgt_id, 0}
          /\ ctx'[c].ho.tgt_id \in {ctx[c].ho.tgt_id, 0}
          /\ On(ctx'[c]) => On(ctx[c]) /\ ctx'[c].ho = ctx[c].ho
      BY <2>3 DEF On
    <3>2. c \in CuIds /\ Only(c) /\ CtxOK(ctx'[c], c, mac)
      BY <2>1, <2>2, <2>7
    <3>3. \A e \in Dus : LinkOK(ctx'[c], c, e, to_cu'[e], to_du[e])
      BY <2>8
    <3>4. QED BY ONLY Base, IInv, InTurnNow, <1>2, <2>9, <3>1, <3>2, <3>3, OneCtxTurn
  <2>11. QED BY <2>1, <2>7, <2>10 DEF Misfits
<1>5. QED BY <1>3, <1>4, <1>6

LEMMA ReleaseRequestTurn ==
    ASSUME Base, IInv, InTurnNow, NEW d \in Dus, ReleaseRequest(d), ~untimely'
    PROVE  InTurnNow'
<1>1. PICK c : c = Head(to_cu[d]).cu
  OBVIOUS
<1>2. /\ to_cu[d] # <<>> /\ CuTakes(d) /\ Head(to_cu[d]).t = "rel_req" /\ TookOne
      /\ mac' = mac /\ ue' = ue
  BY TookNoCompletion DEF ReleaseRequest, Took, duVars
<1>3. CASE ~Live(c)
  <2>1. ctx' = ctx /\ to_du' = to_du
    BY <1>1, <1>3 DEF ReleaseRequest
  <2>2. QED BY <1>2, <2>1, SameCtxTurn
<1>4. CASE Live(c)
  <2>1. /\ c \in CuIds /\ ctx[c].live /\ ctx' = [ctx EXCEPT ![c].ho = NoHo]
        /\ to_du' = to_du \/ to_du' = Queued(to_du, d, Release(c, ctx[c].ho.src_id, FALSE))
        /\ On(ctx[c]) => Switched(c)
    BY <1>1, <1>4 DEF ReleaseRequest, Live, HandingOver, On
  <2>2. Only(c) /\ ctx'[c] = [ctx[c] EXCEPT !.ho = NoHo]
    BY <2>1, BaseParts DEF Only
  <2>3. /\ ctx'[c].live = ctx[c].live /\ ctx'[c].ho = NoHo /\ ctx'[c].cg = ctx[c].cg
        /\ ctx'[c].id = ctx[c].id /\ ctx'[c].du = ctx[c].du /\ ctx'[c].xids = ctx[c].xids
    BY <2>1, <2>2, BaseParts DEF CtxSet
  <2>4. CtxOK(ctx'[c], c, mac) /\ \A e \in Dus : LinkOK(ctx'[c], c, e, to_cu'[e], to_du[e])
    BY <1>2, <2>1, <2>3, EndedFits
  <2>5. ~On(ctx'[c]) /\ ctx'[c].ho.tgt_id = 0
    BY <2>3, NoHoOK DEF On
  <2>6. to_du' = to_du \/ \E e, n : to_du' = Queued(to_du, e, n) /\ Plain(n)
    BY <2>1, PlainMessages
  <2>7. QED BY <1>2, <2>1, <2>2, <2>3, <2>4, <2>5, <2>6, OneCtxTurn
<1>5. QED BY <1>3, <1>4

(* A context changes in what neither the associations nor the DUs tell.     *)
LEMMA StageTurn ==
    ASSUME Base, IInv, InTurnNow, mac' = mac, ue' = ue, to_cu' = to_cu, NEW c \in CuIds, Only(c),
           SameStage(ctx[c], ctx'[c]), ctx'[c].id = ctx[c].id, ctx'[c].cg = ctx[c].cg,
           to_du' = to_du \/ \E d, m : to_du' = Queued(to_du, d, m) /\ Plain(m)
    PROVE  InTurnNow'
<1>1. Fits(ctx, mac) /\ Links(ctx, to_cu, to_du) /\ TookOne
  BY DEF InTurnNow, InTurn, TookOne
<1>2. CtxOK(ctx'[c], c, mac)
  BY <1>1, StageFits DEF Fits
<1>3. ASSUME NEW e \in Dus PROVE LinkOK(ctx'[c], c, e, to_cu'[e], to_du[e])
  BY <1>1, StageLink DEF Links
<1>4. /\ ctx'[c].id \in {ctx[c].id, ctx[c].ho.tgt_id, 0}
      /\ ctx'[c].ho.tgt_id \in {ctx[c].ho.tgt_id, 0}
      /\ On(ctx'[c]) => On(ctx[c]) /\ ctx'[c].ho = ctx[c].ho
  BY DEF SameStage, On
<1>5. QED BY <1>1, <1>2, <1>3, <1>4, OneCtxTurn

LEMMA RemovedTurn ==
    ASSUME Base, IInv, InTurnNow, mac' = mac, ue' = ue, to_du' = to_du, TookOne,
           NEW c \in CuIds, Removed(c), ~untimely'
    PROVE  InTurnNow'
<1>1. ctx' = [ctx EXCEPT ![c] = NoCtx] /\ ~On(ctx[c])
  BY DEF Removed, HandingOver, On
<1>2. Only(c) /\ ctx'[c] = NoCtx
  BY <1>1, BaseParts DEF Only
<1>3. Links(ctx, to_cu', to_du)
  BY TookOneCalm, LinksCalm DEF InTurnNow, InTurn
<1>4. \A e \in Dus : LinkOK(ctx'[c], c, e, to_cu'[e], to_du[e])
  BY <1>1, <1>2, <1>3, RemovedLink DEF Links
<1>5. CtxOK(ctx'[c], c, mac)
  BY <1>2, NoHoOK DEF CtxOK
<1>6. /\ ctx'[c].id \in {ctx[c].id, ctx[c].ho.tgt_id, 0}
      /\ ctx'[c].ho.tgt_id \in {ctx[c].ho.tgt_id, 0}
      /\ On(ctx'[c]) => On(ctx[c]) /\ ctx'[c].ho = ctx[c].ho
  BY <1>2, NoHoOK
<1>7. QED BY <1>2, <1>4, <1>5, <1>6, OneCtxTurn

LEMMA ReleaseCompleteTurn ==
    ASSUME Base, IInv, InTurnNow, NEW d \in Dus, ReleaseComplete(d), ~untimely'
    PROVE  InTurnNow'
<1>1. PICK c : c = Head(to_cu[d]).cu
  OBVIOUS
<1>2. /\ to_cu[d] # <<>> /\ CuTakes(d) /\ TookOne
      /\ mac' = mac /\ ue' = ue /\ to_du' = to_du
  BY TookNoCompletion DEF ReleaseComplete, Took, duVars
<1>3. CASE ctx' = ctx
  BY <1>2, <1>3, SameCtxTurn
<1>4. CASE Live(c) /\ Removed(c)
  BY <1>2, <1>4, RemovedTurn DEF Live
<1>5. QED BY <1>1, <1>3, <1>4 DEF ReleaseComplete

LEMMA LostConnectionTurn ==
    ASSUME Base, IInv, InTurnNow, NEW d \in Dus, LostConnection(d), ~untimely'
    PROVE  InTurnNow'
<1>1. /\ to_cu[d] # <<>> /\ CuTakes(d) /\ Head(to_cu[d]).t = "lost" /\ TookOne /\ up' = up
      /\ mac' = mac /\ ue' = ue /\ to_du' = to_du /\ dus' = dus \ {d}
  BY TookNoCompletion DEF LostConnection, Took, duVars
<1>2. /\ ctx' = [c \in CuIds |-> [ctx[c] EXCEPT !.ho = NoHo, !.du = IF @ = d THEN NoDu ELSE @]]
      /\ \A c \in CuIds : ~On(ctx[c])
  BY DEF LostConnection, HandingOver, On
<1>3. to_cu'[d] = <<>> /\ to_du[d] = <<>>
  <2>1. NetInv'
    BY <1>1, TakeKeeps DEF IInv
  <2>2. to_cu'[d] = <<>>
    BY <1>1, <2>1 DEF NetInv, Channel
  <2>3. d \notin up
    <3>1. Channel(to_cu[d], d, up, dus) /\ IsSeq(to_cu[d])
      BY DEF IInv, NetInv, Base, CuQ
    <3>2. Head(to_cu[d]) = to_cu[d][1] /\ 1 \in 1..Len(to_cu[d])
      BY <1>1, <3>1, SeqTail
    <3>3. QED BY <1>1, <3>1, <3>2 DEF Channel
  <2>4. QED BY <2>2, <2>3 DEF Base, DuQ
<1>4. ASSUME NEW c \in CuIds
      PROVE  /\ ctx'[c].live = ctx[c].live /\ ctx'[c].ho = ctx[c].ho /\ ctx'[c].id = ctx[c].id
             /\ ctx'[c].cg = ctx[c].cg /\ ctx'[c].xids = ctx[c].xids
             /\ ctx'[c].du = IF ctx[c].du = d THEN NoDu ELSE ctx[c].du
             /\ ctx[c].ho = NoHo /\ ~On(ctx[c]) /\ ~On(ctx'[c])
  <2>1. ctx[c] \in CtxSet /\ ctx[c].ho = NoHo
    BY <1>2, BaseParts DEF On
  <2>2. ctx'[c] = [ctx[c] EXCEPT !.ho = NoHo, !.du = IF ctx[c].du = d THEN NoDu ELSE ctx[c].du]
    BY <1>2, <2>1 DEF CtxSet
  <2>3. QED BY <2>1, <2>2 DEF CtxSet, On
<1>5. Fits(ctx, mac) /\ Links(ctx, to_cu', to_du)
  BY <1>1, TookOneCalm, LinksCalm DEF InTurnNow, InTurn
<1>6. Fits(ctx', mac)
  <2>1. ASSUME NEW c \in CuIds PROVE CtxOK(ctx'[c], c, mac)
    BY <1>4, <1>5 DEF Fits, CtxOK
  <2>2. QED BY <2>1 DEF Fits
<1>7. Links(ctx', to_cu', to_du)
  <2>1. ASSUME NEW c \in CuIds, NEW e \in Dus
        PROVE  LinkOK(ctx'[c], c, e, to_cu'[e], to_du[e])
    <3>1. CASE e = d
      <4>1. \A t \in LinkKinds : ~Has(to_cu'[e], to_du[e], t, c)
        BY <1>3, <3>1, NoneInEmpty DEF Has
      <4>2. QED BY <4>1, QuietLink
    <3>2. CASE e # d
      <4>1. LinkOK(ctx[c], c, e, to_cu'[e], to_du[e])
        BY <1>5 DEF Links
      <4>2. QED BY <1>4, <3>2, <4>1 DEF LinkOK
    <3>3. QED BY <3>1, <3>2
  <2>2. QED BY <2>1 DEF Links
<1>8. IdsKept
  BY <1>4 DEF IdsKept
<1>9. QED BY <1>1, <1>6, <1>7, <1>8, CuStepTurn

LEMMA CuActionsTurn ==
    ASSUME Base, IInv, InTurnNow, NEW c \in CuIds, ~untimely',
           \/ ReleaseCommand(c) \/ AmfReleases(c) \/ ModifySession(c) \/ Register(c)
           \/ SetupSession(c)
    PROVE  InTurnNow' /\ misfit' = misfit
<1>0. ctx[c] \in CtxSet
  BY BaseParts
<1>1. CASE ReleaseCommand(c) /\ ctx[c].du # NoDu
  <2>1. /\ mac' = mac /\ ue' = ue /\ to_cu' = to_cu /\ misfit' = misfit
        /\ ctx' = [ctx EXCEPT ![c].an_release = TRUE]
        /\ to_du' = Queued(to_du, ctx[c].du, Release(c, ctx[c].id, TRUE))
    BY <1>1 DEF ReleaseCommand, duVars
  <2>2. Only(c) /\ ctx'[c] = [ctx[c] EXCEPT !.an_release = TRUE]
    BY <2>1, BaseParts DEF Only
  <2>3. SameStage(ctx[c], ctx'[c]) /\ ctx'[c].id = ctx[c].id /\ ctx'[c].cg = ctx[c].cg
    BY <1>0, <2>2 DEF SameStage, CtxSet
  <2>4. \E d, m : to_du' = Queued(to_du, d, m) /\ Plain(m)
    BY <2>1, PlainMessages
  <2>5. QED BY <2>1, <2>2, <2>3, <2>4, StageTurn
<1>2. CASE ReleaseCommand(c) /\ ctx[c].du = NoDu
  <2>1. /\ mac' = mac /\ ue' = ue /\ to_cu' = to_cu /\ misfit' = misfit /\ to_du' = to_du
        /\ Removed(c) /\ TookOne
    BY <1>2 DEF ReleaseCommand, duVars, TookOne
  <2>2. QED BY <2>1, RemovedTurn
<1>3. CASE AmfReleases(c)
  <2>1. /\ mac' = mac /\ ue' = ue /\ misfit' = misfit /\ to_du' = to_du /\ ctx' = ctx /\ TookOne
    BY <1>3 DEF AmfReleases, duVars, netVars, history, TookOne
  <2>2. QED BY <2>1, SameCtxTurn
<1>4. CASE ModifySession(c)
  <2>1. /\ mac' = mac /\ ue' = ue /\ to_cu' = to_cu /\ misfit' = misfit
        /\ ctx' = [ctx EXCEPT ![c].xids = @ \cup {"session"}]
        /\ to_du' = Transfer(to_du, c, 0, "session")
    BY <1>4 DEF ModifySession, duVars, history
  <2>2. Only(c) /\ ctx'[c] = [ctx[c] EXCEPT !.xids = @ \cup {"session"}]
    BY <2>1, BaseParts DEF Only
  <2>3. SameStage(ctx[c], ctx'[c]) /\ ctx'[c].id = ctx[c].id /\ ctx'[c].cg = ctx[c].cg
    BY <1>0, <2>2 DEF SameStage, CtxSet
  <2>4. to_du' = to_du \/ \E d, m : to_du' = Queued(to_du, d, m) /\ Plain(m)
    BY <2>1, TransferPlain
  <2>5. QED BY <2>1, <2>2, <2>3, <2>4, StageTurn
<1>5. CASE Register(c)
  <2>1. /\ mac' = mac /\ ue' = ue /\ to_cu' = to_cu /\ misfit' = misfit /\ to_du' = to_du
        /\ ctx' = [ctx EXCEPT ![c].sec = TRUE]
    BY <1>5 DEF Register, duVars, netVars, history
  <2>2. Only(c) /\ ctx'[c] = [ctx[c] EXCEPT !.sec = TRUE]
    BY <2>1, BaseParts DEF Only
  <2>3. SameStage(ctx[c], ctx'[c]) /\ ctx'[c].id = ctx[c].id /\ ctx'[c].cg = ctx[c].cg
    BY <1>0, <2>2 DEF SameStage, CtxSet
  <2>4. QED BY <2>1, <2>2, <2>3, StageTurn
<1>6. CASE SetupSession(c)
  <2>1. PICK m : m = [t |-> IF ctx[c].f1 THEN "more_bearers" ELSE "bearers", cu |-> c, id |-> ctx[c].id]
    OBVIOUS
  <2>2. /\ mac' = mac /\ ue' = ue /\ to_cu' = to_cu /\ misfit' = misfit /\ ctx' = ctx /\ TookOne
        /\ to_du' = Queued(to_du, ctx[c].du, m)
    BY <1>6, <2>1 DEF SetupSession, cuVars, duVars, TookOne
  <2>3. Neutral(m)
    <3>1. \A t \in {"bearers", "more_bearers"} : Neutral([t |-> t, cu |-> c, id |-> ctx[c].id])
      BY NeutralMessages
    <3>2. QED BY <2>1, <3>1
  <2>4. Plain(m)
    BY <2>3 DEF Plain, Neutral
  <2>5. QED BY <2>2, <2>4, SameCtxTurn
<1>7. QED BY <1>1, <1>2, <1>3, <1>4, <1>5, <1>6

(* The CU says something that has a kind.                                   *)
LEMMA QueuedMore ==
    ASSUME Base, IInv, NEW P, NEW Q, Assoc(Q), NEW d, NEW m, NEW Q2, Q2 = Queued(Q, d, m),
           NEW e \in Dus, NEW t, NEW u, NEW x
    PROVE  /\ Has(P[e], Q2[e], t, x) => Has(P[e], Q[e], t, x) \/ (e = d /\ Is(m, t, x))
           /\ Once(P[e], Q[e], t, x) /\ ~(e = d /\ Is(m, t, x) /\ Has(P[e], Q[e], t, x))
                 => Once(P[e], Q2[e], t, x)
           /\ Ahead(P[e], Q[e], t, u, x)
              /\ ~(e = d /\ Is(m, t, x) /\ (Has(P[e], Q[e], u, x) \/ Is(m, u, x)))
                 => Ahead(P[e], Q2[e], t, u, x)
<1>1. (e # d => Q2[e] = Q[e]) /\ (Q2[d] = Q[d] \/ (d \in Dus /\ Q2[d] = Append(Q[d], m)))
  BY QueuedKinds
<1>2. CASE Q2[e] = Q[e]
  BY <1>2
<1>3. CASE e = d /\ Q2[e] = Append(Q[e], m)
  <2>1. IsSeq(Q[e])
    BY DEF Assoc
  <2>2. /\ Has(P[e], Append(Q[e], m), t, x) <=> Has(P[e], Q[e], t, x) \/ Is(m, t, x)
        /\ Once(P[e], Q[e], t, x) /\ ~(Is(m, t, x) /\ Has(P[e], Q[e], t, x))
              => Once(P[e], Append(Q[e], m), t, x)
        /\ Ahead(P[e], Q[e], t, u, x) /\ ~(Is(m, t, x) /\ (Has(P[e], Q[e], u, x) \/ Is(m, u, x)))
              => Ahead(P[e], Append(Q[e], m), t, u, x)
    BY ONLY <2>1, CuSayKind
  <2>3. QED BY ONLY <1>3, <2>2
<1>4. QED BY ONLY <1>1, <1>2, <1>3

LEMMA QueuedLink ==
    ASSUME Base, IInv, NEW P, NEW Q, Assoc(Q), NEW d, NEW m, NEW Q2, Q2 = Queued(Q, d, m),
           NEW e \in Dus, NEW r, NEW k, LinkOK(r, k, e, P[e], Q[e]), \A t \in LinkKinds : ~Is(m, t, k)
    PROVE  LinkOK(r, k, e, P[e], Q2[e])
<1>1. ASSUME NEW t \in LinkKinds
      PROVE  /\ Has(P[e], Q2[e], t, k) => Has(P[e], Q[e], t, k)
             /\ Once(P[e], Q[e], t, k) => Once(P[e], Q2[e], t, k)
  BY QueuedMore
<1>2. Ahead(P[e], Q[e], "modif", "reest", k) => Ahead(P[e], Q2[e], "modif", "reest", k)
  <2>1. ~Is(m, "modif", k)
    BY DEF LinkKinds
  <2>2. QED BY <2>1, QueuedMore
<1>3. QED BY <1>1, <1>2 DEF LinkOK, LinkKinds

LEMMA TriggerTurn ==
    ASSUME Base, IInv, InTurnNow, NEW c \in CuIds, NEW t \in Dus, TriggerF1Ho(c, t)
    PROVE  InTurnNow' /\ misfit' = misfit
<1>1. PICK h : h = [src |-> ctx[c].du, src_id |-> ctx[c].id, old_cg |-> ctx[c].cg,
                    tgt |-> t, tgt_id |-> 0]
  OBVIOUS
<1>2. PICK m : m = [t |-> "setup", cu |-> c]
  OBVIOUS
<1>3. /\ ctx[c].live /\ ctx[c].du # NoDu /\ t # ctx[c].du /\ ~On(ctx[c]) /\ ctx[c].xids = {}
      /\ mac' = mac /\ ue' = ue /\ to_cu' = to_cu /\ to_du' = Queued(to_du, t, m) /\ misfit' = misfit
      /\ ctx' = [ctx EXCEPT ![c].ho = h]
  BY <1>1, <1>2 DEF TriggerF1Ho, Live, HandingOver, On, duVars
<1>4. Only(c) /\ ctx'[c] = [ctx[c] EXCEPT !.ho = h]
  BY <1>3, BaseParts DEF Only
<1>5. h.src = ctx[c].du /\ h.old_cg = ctx[c].cg /\ h.tgt = t /\ h.tgt_id = 0 /\ h # NoHo
  <2>1. h.src = ctx[c].du /\ h.old_cg = ctx[c].cg /\ h.tgt = t /\ h.tgt_id = 0
    BY <1>1
  <2>2. NoHo.src = NoDu
    BY DEF NoHo
  <2>3. QED BY <1>3, <2>1, <2>2
<1>6. /\ ctx'[c].live = ctx[c].live /\ ctx'[c].ho = h /\ ctx'[c].cg = ctx[c].cg
      /\ ctx'[c].id = ctx[c].id /\ ctx'[c].du = ctx[c].du /\ ctx'[c].xids = ctx[c].xids
  <2>1. ctx[c] \in CtxSet
    BY BaseParts
  <2>2. QED BY <1>4, <2>1 DEF CtxSet
<1>7. Fits(ctx, mac) /\ Links(ctx, to_cu, to_du) /\ Turns(ue, to_cu, to_du)
      /\ Fresh(ue, ctx, to_cu, to_du) /\ Arrived(ue, ctx, to_cu) /\ Assoc(to_du)
  BY DEF InTurnNow, InTurn, Base, DuQ, Assoc
<1>8. \A k, x : Is(m, k, x) => k = "setup" /\ x = c
  BY <1>2 DEF Is, Again
<1>9. Fits(ctx', mac)
  <2>1. CtxOK(ctx[c], c, mac)
    BY <1>7 DEF Fits
  <2>2. CtxOK(ctx'[c], c, mac)
    BY <1>3, <1>5, <1>6, <2>1 DEF CtxOK, On
  <2>3. QED BY <1>4, <1>7, <2>2 DEF Fits, Only
<1>10. Links(ctx', to_cu, to_du')
  <2>1. ASSUME NEW k \in CuIds, k # c, NEW e \in Dus PROVE LinkOK(ctx'[k], k, e, to_cu[e], to_du'[e])
    <3>1. LinkOK(ctx[k], k, e, to_cu[e], to_du[e]) /\ ctx'[k] = ctx[k]
      BY <1>4, <1>7, <2>1 DEF Links, Only
    <3>2. \A j \in LinkKinds : ~Is(m, j, k)
      BY <1>8, <2>1
    <3>3. QED BY <1>3, <1>7, <3>1, <3>2, QueuedLink
  <2>2. ASSUME NEW e \in Dus PROVE LinkOK(ctx'[c], c, e, to_cu[e], to_du'[e])
    <3>1. LinkOK(ctx[c], c, e, to_cu[e], to_du[e])
      BY <1>7 DEF Links
    <3>2. ~Has(to_cu[e], to_du[e], "setup", c) /\ ~Has(to_cu[e], to_du[e], "modif", c)
          /\ ~Has(to_cu[e], to_du[e], "reest", c)
      BY <1>3, <3>1 DEF LinkOK
    <3>3. ~Has(to_cu[e], to_du'[e], "modif", c) /\ ~Has(to_cu[e], to_du'[e], "reest", c)
          /\ (Has(to_cu[e], to_du'[e], "setup", c) => e = t)
      <4>1. ASSUME NEW k, Has(to_cu[e], to_du'[e], k, c)
            PROVE  Has(to_cu[e], to_du[e], k, c) \/ (e = t /\ Is(m, k, c))
        BY <1>3, <1>7, <4>1, QueuedMore
      <4>2. QED BY <1>8, <3>2, <4>1
    <3>4. Once(to_cu[e], to_du'[e], "setup", c)
      <4>1. Once(to_cu[e], to_du[e], "setup", c)
        BY <3>2, NoneOnce
      <4>2. QED BY <1>3, <1>7, <3>2, <4>1, QueuedMore
    <3>5. Once(to_cu[e], to_du'[e], "modif", c) /\ Once(to_cu[e], to_du'[e], "reest", c)
          /\ Ahead(to_cu[e], to_du'[e], "modif", "reest", c)
      BY <3>3, NoneOnce
    <3>6. QED BY <1>5, <1>6, <3>3, <3>4, <3>5 DEF LinkOK, On
  <2>3. QED BY <2>1, <2>2 DEF Links
<1>11. CalmAll(Kinds \ {"setup"}, to_cu, to_du, to_cu, to_du')
  <2>1. \A k \in Kinds \ {"setup"} : \A x : ~Is(m, k, x)
    BY <1>8
  <2>2. QED BY <1>3, <1>7, <2>1, QueuedCalm
<1>12. Turns(ue, to_cu, to_du')
  <2>1. TurnKinds \cup {"other"} \subseteq Kinds \ {"setup"}
    BY DEF TurnKinds, Kinds
  <2>2. QED BY <1>7, <1>11, <2>1, CalmAllSubset, TurnsCalmAll
<1>13. \A k \in CuIds : ctx'[k].id = ctx[k].id /\ (ctx'[k].ho.tgt_id = 0 \/ ctx'[k].ho = ctx[k].ho)
       /\ (On(ctx'[k]) /\ ctx'[k].ho.tgt_id # 0 => ctx'[k] = ctx[k])
  BY <1>4, <1>5, <1>6 DEF Only
<1>14. Fresh(ue, ctx', to_cu, to_du')
  <2>1. {"made", "names", "asked", "sends", "again", "other"} \subseteq Kinds \ {"setup"}
    BY DEF Kinds
  <2>2. \A k \in Kinds \ {"setup"} : \A x : Some(to_cu, to_du', k, x) => Some(to_cu, to_du, k, x)
    BY <1>11, SomeCalm
  <2>3. \A e \in Dus : \A x : Once(to_cu[e], to_du[e], "made", x) => Once(to_cu[e], to_du'[e], "made", x)
    BY <1>11, <2>1 DEF CalmAll, Calm
  <2>4. \A x : Some(to_cu, to_du, "asked", x) =>
             /\ \A k \in CuIds : ctx'[k].id # x /\ ctx'[k].ho.tgt_id # x
             /\ Some(to_cu, to_du', "other", x) => Some(to_cu, to_du, "other", x)
    <3>1. \A x : Some(to_cu, to_du, "asked", x) => x # 0 /\ \A k \in CuIds : ctx[k].id # x /\ ctx[k].ho.tgt_id # x
      BY <1>7, SomeIds DEF Fresh
    <3>2. QED BY <1>13, <2>1, <2>2, <3>1
  <2>5. \A x : Some(to_cu, to_du, "made", x) => ue.id # x /\ ue.next.id # x
    BY <1>7 DEF Fresh
  <2>6. ue.next.why = "reest" =>
           /\ ~ue.here
           /\ \A k \in CuIds : ctx'[k].ho.tgt_id = 0 \/ \E l \in CuIds : ctx'[k].ho.tgt_id = ctx[l].ho.tgt_id
    BY <1>7, <1>13 DEF Fresh
  <2>7. QED BY <1>7, <2>1, <2>2, <2>3, <2>4, <2>5, <2>6, FreshStep
<1>15. Arrived(ue, ctx', to_cu)
  BY <1>7, <1>13 DEF Arrived
<1>16. QED BY <1>3, <1>9, <1>10, <1>12, <1>14, <1>15 DEF InTurnNow, InTurn

LEMMA SetupResponseTurn ==
    ASSUME Base, IInv, InTurnNow, NEW d \in Dus, SetupResponse(d)
    PROVE  InTurnNow' /\ misfit' = misfit /\ exit' = exit
<1>1. PICK m : m = Head(to_cu[d])
  OBVIOUS
<1>2. PICK c : c = m.cu
  OBVIOUS
<1>3. PICK i : i = m.id
  OBVIOUS
<1>4. /\ to_cu[d] # <<>> /\ CuTakes(d) /\ m.t = "setup_resp" /\ TookOne /\ mac' = mac /\ ue' = ue
  BY <1>1, TookNoCompletion DEF SetupResponse, Took, duVars
<1>5. MadeIn(mac, d, i) /\ mac[i].cu = c /\ c \in CuIds /\ i # 0
  <2>1. CuMsgOK(m, d, mac)
    BY <1>1, <1>4, CuTakesOK DEF Base
  <2>2. QED BY <1>2, <1>3, <1>4, <2>1, IdsFinite DEF CuMsgOK, MadeIn
<1>6. Is(m, "setup", c) /\ Is(m, "made", i)
  BY <1>2, <1>3, <1>4 DEF Is
<1>7. /\ CtxOK(ctx[c], c, mac) /\ LinkOK(ctx[c], c, d, to_cu[d], to_du[d])
      /\ Has(to_cu[d], to_du[d], "setup", c) /\ Has(to_cu[d], to_du[d], "made", i)
      /\ (Once(to_cu[d], to_du[d], "setup", c) => ~Has(to_cu'[d], to_du[d], "setup", c))
      /\ (Once(to_cu[d], to_du[d], "made", i) => ~Has(to_cu'[d], to_du[d], "made", i))
  BY <1>1, <1>4, <1>5, <1>6, TakenKinds, ZenonT(60)
<1>8. /\ On(ctx[c]) /\ ctx[c].ho.tgt = d /\ ctx[c].ho.tgt_id = 0 /\ ctx[c].live
      /\ ctx[c].du = ctx[c].ho.src /\ ctx[c].ho.src # d /\ ctx[c].ho.src \in Dus
      /\ ctx[c].ho.old_cg \in {ctx[c].ho.src, NoDu} /\ ~Has(to_cu'[d], to_du[d], "setup", c)
  <2>1. On(ctx[c]) /\ ctx[c].ho.tgt = d /\ ctx[c].ho.tgt_id = 0 /\ ~Has(to_cu'[d], to_du[d], "setup", c)
    BY <1>7 DEF LinkOK
  <2>2. ctx[c].live /\ ctx[c].ho.src \in Dus
    BY <1>5, <2>1, TargetsOK
  <2>3. QED BY <1>7, <2>1, <2>2 DEF CtxOK
<1>9. PICK s : s = ctx[c].ho.src
  OBVIOUS
<1>10. PICK n : n = [t |-> "modif", cu |-> c, id |-> ctx[c].id, to |-> d, to_id |-> i]
  OBVIOUS
<1>11. /\ ctx' = [ctx EXCEPT ![c].cg = d, ![c].f1 = TRUE, ![c].ho.tgt_id = i,
                               ![c].xids = @ \cup {"dedicated"}]
       /\ to_du' = Queued(to_du, s, n) /\ misfit' = misfit /\ exit' = exit
  <2>1. Live(c) /\ HandingOver(c) /\ ctx[c].du # NoDu
    BY <1>5, <1>8, DusAssumption DEF Live, HandingOver, On
  <2>2. QED BY <1>1, <1>2, <1>3, <1>8, <1>9, <1>10, <2>1 DEF SetupResponse, history
<1>12. Only(c) /\ ctx'[c] = [ctx[c] EXCEPT !.cg = d, !.f1 = TRUE, !.ho.tgt_id = i,
                                            !.xids = @ \cup {"dedicated"}]
  BY <1>5, <1>11, BaseParts, ZenonT(60) DEF Only
<1>13. /\ ctx'[c].live /\ ctx'[c].id = ctx[c].id /\ ctx'[c].du = s /\ ctx'[c].cg = d
       /\ ctx'[c].ho.tgt_id = i /\ ctx'[c].ho.tgt = d /\ ctx'[c].ho.src = s 
       /\ ctx'[c].ho.old_cg \in {s, NoDu}
  <2>1. ctx[c] \in CtxSet
    BY <1>5, BaseParts
  <2> DEFINE g == [ctx[c].ho EXCEPT !.tgt_id = i]
  <2>2. g.tgt_id = i /\ g.tgt = d /\ g.src = s /\ g.old_cg \in {s, NoDu}
    BY <1>8, <1>9, <2>1, RecordOK DEF HoSet
  <2>3. ctx'[c] = [ctx[c] EXCEPT !.cg = d, !.f1 = TRUE, !.ho = g, !.xids = @ \cup {"dedicated"}]
    BY <1>12, <2>1 DEF CtxSet
  <2> HIDE DEF g
  <2>4. QED BY <1>8, <1>9, <2>1, <2>2, <2>3 DEF CtxSet
<1>14. On(ctx'[c]) /\ s # d /\ s \in Dus /\ s # NoDu
  BY <1>5, <1>8, <1>9, <1>13, NoHoOK, DusAssumption DEF On
<1>15. Fits(ctx, mac) /\ Links(ctx, to_cu', to_du) /\ Turns(ue, to_cu, to_du)
       /\ Fresh(ue, ctx, to_cu, to_du) /\ Arrived(ue, ctx, to_cu) /\ Assoc(to_du)
  BY <1>4, TookOneCalm, LinksCalm DEF InTurnNow, InTurn, Base, DuQ, Assoc
<1>16. \A k, x : Is(n, k, x) => (k = "modif" /\ x = c) \/ (k = "sends" /\ x = i)
  BY <1>10 DEF Is, Again
<1>17. PICK P : P = to_cu'
  OBVIOUS
<1>18. Fits(ctx', mac)
  <2>1. CtxOK(ctx'[c], c, mac)
    BY <1>5, <1>7, <1>8, <1>9, <1>13, <1>14 DEF CtxOK
  <2>2. QED BY <1>12, <1>15, <2>1 DEF Fits, Only
<1>19. Links(ctx', P, to_du')
  <2>1. ASSUME NEW k \in CuIds, k # c, NEW e \in Dus PROVE LinkOK(ctx'[k], k, e, P[e], to_du'[e])
    <3>1. LinkOK(ctx[k], k, e, P[e], to_du[e]) /\ ctx'[k] = ctx[k]
      BY <1>12, <1>15, <1>17, <2>1 DEF Links, Only
    <3>2. \A j \in LinkKinds : ~Is(n, j, k)
      BY <1>16, <2>1 DEF LinkKinds
    <3>3. LinkOK(ctx[k], k, e, P[e], to_du'[e])
      BY <1>11, <1>15, <3>1, <3>2, QueuedLink
    <3>4. QED BY <3>1, <3>3
  <2>2. ASSUME NEW e \in Dus PROVE LinkOK(ctx'[c], c, e, P[e], to_du'[e])
    <3>1. LinkOK(ctx[c], c, e, P[e], to_du[e])
      BY <1>5, <1>15, <1>17 DEF Links
    <3>2. ~Has(P[e], to_du[e], "setup", c) /\ ~Has(P[e], to_du[e], "modif", c)
          /\ ~Has(P[e], to_du[e], "reest", c)
      BY <1>8, <1>17, <3>1 DEF LinkOK
    <3>3. ~Has(P[e], to_du'[e], "setup", c) /\ ~Has(P[e], to_du'[e], "reest", c)
          /\ (Has(P[e], to_du'[e], "modif", c) => e = s)
      <4>1. ASSUME NEW k, Has(P[e], to_du'[e], k, c)
            PROVE  Has(P[e], to_du[e], k, c) \/ (e = s /\ Is(n, k, c))
        BY <1>11, <1>15, <4>1, QueuedMore
      <4>2. ~Is(n, "setup", c) /\ ~Is(n, "reest", c)
        BY <1>16
      <4>3. QED BY <3>2, <4>1, <4>2
    <3>4. Once(P[e], to_du'[e], "modif", c)
      <4>1. Once(P[e], to_du[e], "modif", c)
        BY <3>2, NoneOnce
      <4>2. QED BY <1>11, <1>15, <3>2, <4>1, QueuedMore
    <3>5. Once(P[e], to_du'[e], "setup", c) /\ Once(P[e], to_du'[e], "reest", c)
          /\ Ahead(P[e], to_du'[e], "modif", "reest", c)
      BY <3>3, NoneOnce
    <3>6. QED BY <1>5, <1>13, <1>14, <3>3, <3>4, <3>5 DEF LinkOK
  <2>3. QED BY <2>1, <2>2 DEF Links
<1>20. PICK K : K = Kinds \ {"modif", "sends"}
  OBVIOUS
<1>21. CalmAll(K, to_cu, to_du, P, to_du')
  <2>1. CalmAll(K, to_cu, to_du, P, to_du)
    BY <1>4, <1>17, TookOneCalm
  <2>2. \A k \in K : \A x : ~Is(n, k, x)
    BY <1>16, <1>20
  <2>3. CalmAll(K, P, to_du, P, to_du')
    BY <1>11, <1>15, <2>2, QueuedCalm
  <2>4. QED BY <2>1, <2>3, CalmAllTrans
<1>22. Turns(ue, P, to_du')
  <2>1. TurnKinds \cup {"other"} \subseteq K
    BY <1>20 DEF TurnKinds, Kinds
  <2>2. QED BY <1>15, <1>21, <2>1, CalmAllSubset, TurnsCalmAll
<1>23. /\ Some(to_cu, to_du, "made", i) /\ ue.id # i /\ ue.next.id # i
       /\ ~Some(to_cu, to_du, "names", i) /\ ~Some(to_cu, to_du, "asked", i)
  BY <1>7, <1>15 DEF Some, Fresh
<1>24. Fresh(ue, ctx', P, to_du')
  <2>1. {"made", "names", "asked", "again", "other"} \subseteq K
    BY <1>20 DEF Kinds
  <2>2. \A k \in K : \A x : Some(P, to_du', k, x) => Some(to_cu, to_du, k, x)
    BY <1>21, SomeCalm
  <2>3. \A e \in Dus : \A x : Once(P[e], to_du'[e], "made", x)
    BY <1>15, <1>21, <2>1 DEF CalmAll, Calm, Fresh
  <2>4. \A x : Some(P, to_du', "sends", x) => Some(to_cu, to_du, "sends", x) \/ x = i
    <3>1. CalmAll({"sends"}, to_cu, to_du, P, to_du)
      BY <1>4, <1>17, TookOneCalm
    <3>2. ASSUME NEW e \in Dus, NEW x, Has(P[e], to_du'[e], "sends", x)
          PROVE  Has(P[e], to_du[e], "sends", x) \/ x = i
      <4>1. Has(P[e], to_du[e], "sends", x) \/ (e = s /\ Is(n, "sends", x))
        BY <1>11, <1>15, <3>2, QueuedMore
      <4>2. QED BY <1>16, <4>1
    <3>3. \A x : Some(P, to_du, "sends", x) => Some(to_cu, to_du, "sends", x)
      BY <3>1, SomeCalm
    <3>4. QED BY <3>2, <3>3 DEF Some
  <2>5. ~Some(P, to_du', "made", i)
    <3>1. CalmAll({"made"}, P, to_du, P, to_du')
      <4>1. \A k \in {"made"} : \A x : ~Is(n, k, x)
        BY <1>16
      <4>2. QED BY <1>11, <1>15, <4>1, QueuedCalm
    <3>2. ASSUME NEW e \in Dus, Has(P[e], to_du[e], "made", i) PROVE FALSE
      <4>1. CalmAll({"made"}, to_cu, to_du, P, to_du)
        BY <1>4, <1>17, TookOneCalm
      <4>2. Has(to_cu[e], to_du[e], "made", i)
        BY <3>2, <4>1 DEF CalmAll, Calm
      <4>3. e = d
        BY <1>5, <4>2, KindsOfIds DEF MadeIn
      <4>4. ~Has(P[d], to_du[d], "made", i)
        BY <1>7, <1>15, <1>17 DEF Fresh
      <4>5. QED BY <3>2, <4>3, <4>4
    <3>3. QED BY <3>1, <3>2, SomeCalm DEF Some
  <2>6. ASSUME NEW x, Some(P, to_du', "made", x)
        PROVE  /\ ue.id # x /\ ue.next.id # x
               /\ ~Some(P, to_du', "names", x) /\ ~Some(P, to_du', "asked", x)
               /\ ~Some(P, to_du', "sends", x)
    <3>1. x # i /\ Some(to_cu, to_du, "made", x)
      BY <2>1, <2>2, <2>5, <2>6
    <3>2. QED BY <1>15, <2>1, <2>2, <2>4, <3>1 DEF Fresh
  <2>7. \A k \in CuIds : /\ ctx'[k].id = ctx[k].id
                         /\ ctx'[k].ho.tgt_id = ctx[k].ho.tgt_id \/ ctx'[k].ho.tgt_id = i
    BY <1>12, <1>13 DEF Only
  <2>8. ASSUME NEW x, Some(P, to_du', "asked", x)
        PROVE  /\ \A k \in CuIds : ctx'[k].id # x /\ ctx'[k].ho.tgt_id # x
               /\ ~Some(P, to_du', "again", x) /\ ~Some(P, to_du', "other", x)
    <3>1. Some(to_cu, to_du, "asked", x) /\ x # i
      BY <1>23, <2>1, <2>2, <2>8
    <3>2. QED BY <1>15, <2>1, <2>2, <2>7, <3>1 DEF Fresh
  <2>9. ue.next.why = "reest" =>
            ue.next.id # 0 /\ ~ue.here /\ \A k \in CuIds : ctx'[k].ho.tgt_id # ue.next.id
    BY <1>15, <1>23, <2>7 DEF Fresh
  <2>10. QED BY <2>3, <2>6, <2>8, <2>9 DEF Fresh
<1>25. Arrived(ue, ctx', P)
  <2>1. ASSUME NEW k \in CuIds, k # c, On(ctx'[k]), ctx'[k].ho.tgt_id # 0
        PROVE  /\ ue.id = ctx'[k].ho.tgt_id => In(P[ctx'[k].ho.tgt], "complete", k)
               /\ Led(P[ctx'[k].ho.tgt], ctx'[k].ho.tgt_id, k)
    <3>1. ctx'[k] = ctx[k]
      BY <1>12, <2>1 DEF Only
    <3>2. QED BY <1>4, <1>15, <1>17, <2>1, <3>1, ArrivedTakeOne
  <2>2. Led(P[d], i, c)
    <3>1. CalmAll({"names"}, to_cu, to_du, P, to_du)
      BY <1>4, <1>17, TookOneCalm
    <3>2. ~Has(P[d], to_du[d], "names", i)
      BY <1>23, <3>1 DEF CalmAll, Calm, Some
    <3>3. QED BY <3>2 DEF Has, In, Led
  <2>3. QED BY <1>13, <1>23, <2>1, <2>2 DEF Arrived
<1>26. QED BY <1>4, <1>11, <1>17, <1>18, <1>19, <1>22, <1>24, <1>25 DEF InTurnNow, InTurn

(* A request to reestablish that the CU takes: it was the only one, and     *)
(* nobody else knows the context that it is made from.                      *)
LEMMA RequestFacts ==
    ASSUME Base, IInv, InTurnNow, NEW d \in Dus, Took(d, "reest_req"), CuTakes(d),
           NEW m, m = Head(to_cu[d])
    PROVE  /\ \A e \in Dus : ~Has(to_cu'[e], to_du[e], "turn", 0)
           /\ ~Has(to_cu'[d], to_du[d], "answer", 0)
           /\ Asks(ue, d, m.id)
           /\ \A c \in CuIds : ctx[c].id # m.id /\ ctx[c].ho.tgt_id # m.id
           /\ ~Some(to_cu, to_du, "other", m.id)
           /\ MadeIn(mac, d, m.id) /\ Is(m, "names", m.rnti)
<1>1. to_cu[d] # <<>> /\ m.t = "reest_req"
  BY DEF Took
<1>2. Turns(ue, to_cu, to_du) /\ Fresh(ue, ctx, to_cu, to_du)
  BY DEF InTurnNow, InTurn
<1>3. Is(m, "turn", 0) /\ Is(m, "asked", m.id) /\ Is(m, "names", m.rnti)
  BY <1>1 DEF Is
<1>4. 1 \in CuIds
  BY BoundAssumption DEF CuIds, Ids
<1>5. /\ Has(to_cu[d], to_du[d], "turn", 0) /\ Has(to_cu[d], to_du[d], "asked", m.id)
      /\ (Once(to_cu[d], to_du[d], "turn", 0) => ~Has(to_cu'[d], to_du[d], "turn", 0))
      /\ (Ahead(to_cu[d], to_du[d], "answer", "turn", 0) => ~Has(to_cu[d], to_du[d], "answer", 0))
      /\ CuMsgOK(m, d, mac)
  BY <1>1, <1>3, <1>4, TakenKinds
<1>6. \A e \in Dus : \A t, x : Has(to_cu'[e], to_du[e], t, x) => Has(to_cu[e], to_du[e], t, x)
  BY <1>1, <1>4, TakenKinds
<1>7. TurnOK(ue, d, to_cu[d], to_du[d])
  BY <1>2 DEF Turns
<1>8. ASSUME NEW e \in Dus PROVE ~Has(to_cu'[e], to_du[e], "turn", 0)
  <2>1. CASE e = d
    BY <1>5, <1>7, <2>1 DEF TurnOK
  <2>2. CASE e # d
    BY <1>2, <1>5, <1>6, <2>2 DEF Turns
  <2>3. QED BY <2>1, <2>2
<1>9. ~Has(to_cu'[d], to_du[d], "answer", 0) /\ Asks(ue, d, m.id)
  BY <1>5, <1>6, <1>7 DEF TurnOK
<1>10. /\ \A c \in CuIds : ctx[c].id # m.id /\ ctx[c].ho.tgt_id # m.id
       /\ ~Some(to_cu, to_du, "other", m.id)
  BY <1>2, <1>5 DEF Fresh, Some
<1>11. MadeIn(mac, d, m.id)
  BY <1>1, <1>5 DEF CuMsgOK
<1>12. QED BY <1>3, <1>8, <1>9, <1>10, <1>11

(* Its context gets the new ID, and the UE its answer, behind whatever else *)
(* the CU has to say.                                                       *)
LEMMA RequestTurn ==
    ASSUME Base, IInv, InTurnNow, NEW d \in Dus, Took(d, "reest_req"), CuTakes(d),
           NEW m, m = Head(to_cu[d]), mac' = mac, ue' = ue,
           NEW c \in CuIds, Only(c), ctx'[c].ho = NoHo, CtxOK(ctx'[c], c, mac),
           \A e \in Dus : LinkOK(ctx'[c], c, e, to_cu'[e], to_du'[e]),
           NEW Q, Q = to_du \/ (\E e, k : Q = Queued(to_du, e, k) /\ Neutral(k)),
           NEW n, n.t = "dl", n.cu = c, n.id = m.id, to_du' = Queued(Q, d, n)
    PROVE  InTurnNow'
<1>1. PICK P : P = to_cu'
  OBVIOUS
<1>2. /\ \A e \in Dus : ~Has(P[e], to_du[e], "turn", 0)
      /\ ~Has(P[d], to_du[d], "answer", 0)
      /\ Asks(ue, d, m.id)
      /\ \A k \in CuIds : ctx[k].id # m.id /\ ctx[k].ho.tgt_id # m.id
      /\ ~Some(to_cu, to_du, "other", m.id)
  BY <1>1, RequestFacts
<1>3. TookOne
  BY TookNoCompletion
<1>4. Fits(ctx, mac) /\ Links(ctx, P, to_du)
      /\ Fresh(ue, ctx, to_cu, to_du) /\ Arrived(ue, ctx, to_cu) /\ Assoc(to_du)
  BY <1>1, <1>3, TookOneCalm, LinksCalm DEF InTurnNow, InTurn, Base, DuQ, Assoc
<1>5. CalmAll(Kinds, P, to_du, P, Q) /\ Assoc(Q)
  <2>1. CASE Q = to_du
    BY <1>4, <2>1, CalmSame DEF CalmAll
  <2>2. ASSUME NEW e, NEW k, Q = Queued(to_du, e, k), Neutral(k)
        PROVE  CalmAll(Kinds, P, to_du, P, Q) /\ Assoc(Q)
    <3>1. \A t \in Kinds : \A x : ~Is(k, t, x)
      BY <2>2 DEF Neutral
    <3>2. CalmAll(Kinds, P, to_du, P, Q)
      BY <1>4, <2>2, <3>1, QueuedCalm
    <3>3. Assoc(Q)
      BY <1>4, <2>2, QueuedKinds
    <3>4. QED BY <3>2, <3>3
  <2>3. QED BY <2>1, <2>2
<1>6. CalmAll(Kinds, to_cu, to_du, P, Q)
  <2>1. CalmAll(Kinds, to_cu, to_du, P, to_du)
    BY <1>1, <1>3, TookOneCalm
  <2>2. QED BY <1>5, <2>1, CalmAllTrans
<1>7. PICK Q2 : Q2 = to_du'
  OBVIOUS
<1>8. \A t, x : Is(n, t, x) => (t = "reest" /\ x = c) \/ t = "turn" \/ (t = "again" /\ x = m.id)
                                \/ (t = "other" /\ x = m.id)
  BY DEF Is, Again
<1>9. Fits(ctx', mac)
  BY <1>4 DEF Fits, Only
<1>10. Links(ctx', P, Q2)
  <2>1. Links(ctx, P, Q)
    <3>1. CalmAll(LinkKinds, P, to_du, P, Q)
      <4>1. LinkKinds \subseteq Kinds
        BY DEF LinkKinds, Kinds
      <4>2. QED BY <1>5, <4>1, CalmAllSubset
    <3>2. QED BY <1>4, <3>1, LinksCalm
  <2>2. ASSUME NEW k \in CuIds, k # c, NEW e \in Dus PROVE LinkOK(ctx'[k], k, e, P[e], Q2[e])
    <3>1. LinkOK(ctx[k], k, e, P[e], Q[e]) /\ ctx'[k] = ctx[k]
      BY <2>1, <2>2 DEF Links, Only
    <3>2. \A j \in LinkKinds : ~Is(n, j, k)
      BY <1>8, <2>2 DEF LinkKinds
    <3>3. LinkOK(ctx[k], k, e, P[e], Q2[e])
      BY <1>5, <1>7, <3>1, <3>2, QueuedLink
    <3>4. QED BY <3>1, <3>3
  <2>3. ASSUME NEW e \in Dus PROVE LinkOK(ctx'[c], c, e, P[e], Q2[e])
    BY <1>1, <1>7
  <2>4. QED BY <2>2, <2>3 DEF Links
<1>11. ASSUME NEW e \in Dus, NEW t, NEW x, Has(P[e], Q2[e], t, x)
       PROVE  Has(P[e], Q[e], t, x) \/ (e = d /\ Is(n, t, x))
  BY <1>5, <1>7, <1>11, QueuedMore
<1>12. \A e \in Dus : \A t \in Kinds : \A x : Has(P[e], Q[e], t, x) => Has(P[e], to_du[e], t, x)
  BY <1>5 DEF CalmAll, Calm
<1>13. {"turn", "answer", "asked", "again", "other", "made", "names", "sends"} \subseteq Kinds
  BY DEF Kinds
<1>14. /\ \A e \in Dus : ~Has(P[e], Q[e], "turn", 0)
       /\ ~Has(P[d], Q[d], "answer", 0)
  BY <1>2, <1>12, <1>13
<1>15. /\ Turns(ue, P, Q)
       /\ \A i : ~Some(P, Q, "asked", i) /\ ~Some(P, Q, "again", i)
  BY <1>14, NoTurns
<1>16. \A i : ~Some(P, Q2, "asked", i)
  BY <1>8, <1>11, <1>15 DEF Some
<1>17. Turns(ue, P, Q2)
  <2>1. ASSUME NEW e \in Dus, e # d PROVE TurnOK(ue, e, P[e], Q2[e])
    <3>1. Q2[e] = Q[e]
      BY <1>5, <1>7, <2>1, QueuedKinds
    <3>2. QED BY <1>15, <3>1 DEF Turns
  <2>2. TurnOK(ue, d, P[d], Q2[d])
    <3>1. Once(P[d], Q2[d], "turn", 0)
      <4>1. Once(P[d], Q[d], "turn", 0) /\ ~Has(P[d], Q[d], "turn", 0)
        BY <1>14, NoneOnce
      <4>2. QED BY <1>5, <1>7, <4>1, QueuedMore
    <3>2. ~Has(P[d], Q2[d], "answer", 0)
      BY <1>8, <1>11, <1>14
    <3>3. Ahead(P[d], Q2[d], "answer", "turn", 0)
      BY <3>2, NoneOnce
    <3>4. ASSUME NEW i, Has(P[d], Q2[d], "again", i) PROVE i = m.id
      <4>1. ~Has(P[d], Q[d], "again", i)
        BY <1>15 DEF Some
      <4>2. Is(n, "again", i)
        BY <1>11, <3>4, <4>1
      <4>3. QED BY <1>8, <4>2
    <3>5. ASSUME NEW i PROVE Ahead(P[d], Q2[d], "again", "other", i)
      <4>1. CASE i # m.id
        BY <3>4, <4>1, NoneOnce
      <4>2. CASE i = m.id
        <5>1. ~Has(P[d], Q[d], "other", i)
          <6>1. \A k \in Kinds : \A x : Some(P, Q, k, x) => Some(to_cu, to_du, k, x)
            BY <1>6, SomeCalm
          <6>2. QED BY <1>2, <1>13, <4>2, <6>1 DEF Some
        <5>2. ~Has(P[d], Q[d], "again", i)
          BY <1>15 DEF Some
        <5>3. Ahead(P[d], Q[d], "again", "other", i)
          BY <5>2, NoneOnce
        <5>4. ~(Is(n, "again", i) /\ Is(n, "other", i))
          BY DEF Is, Again
        <5>5. Ahead(P[d], Q[d], "again", "other", i)
              /\ ~(d = d /\ Is(n, "again", i) /\ (Has(P[d], Q[d], "other", i) \/ Is(n, "other", i)))
                 => Ahead(P[d], Q2[d], "again", "other", i)
          BY <1>5, <1>7, QueuedMore
        <5>6. QED BY ONLY <5>1, <5>3, <5>4, <5>5
      <4>3. QED BY <4>1, <4>2
    <3>6. \A i : ~Has(P[d], Q2[d], "asked", i)
      BY <1>16 DEF Some
    <3>7. QED BY <1>2, <3>1, <3>3, <3>4, <3>5, <3>6 DEF TurnOK
  <2>3. ASSUME NEW e \in Dus, Has(P[e], Q2[e], "turn", 0) PROVE e = d
    BY <1>11, <1>14, <2>3
  <2>4. QED BY <2>1, <2>2, <2>3 DEF Turns
<1>18. Fresh(ue, ctx', P, Q2)
  <2>1. PICK K : K = {"made", "names", "sends"}
    OBVIOUS
  <2>2. CalmAll(K, to_cu, to_du, P, Q2)
    <3>1. \A t \in K : \A x : ~Is(n, t, x)
      BY <1>8, <2>1
    <3>2. CalmAll(K, P, Q, P, Q2)
      BY <1>5, <1>7, <3>1, QueuedCalm
    <3>3. CalmAll(K, to_cu, to_du, P, Q)
      BY <1>6, <1>13, <2>1, CalmAllSubset
    <3>4. QED BY <3>2, <3>3, CalmAllTrans
  <2>3. \A t \in K : \A x : Some(P, Q2, t, x) => Some(to_cu, to_du, t, x)
    BY <2>2, SomeCalm
  <2>4. \A e \in Dus : \A x : Once(P[e], Q2[e], "made", x)
    BY <1>4, <2>1, <2>2 DEF CalmAll, Calm, Fresh
  <2>5. \A x : Some(P, Q2, "made", x) =>
           /\ ue.id # x /\ ue.next.id # x
           /\ ~Some(P, Q2, "names", x) /\ ~Some(P, Q2, "asked", x) /\ ~Some(P, Q2, "sends", x)
    BY <1>4, <1>16, <2>1, <2>3 DEF Fresh
  <2>6. ue.next.why = "reest" =>
           ue.next.id # 0 /\ ~ue.here /\ \A k \in CuIds : ctx'[k].ho.tgt_id # ue.next.id
    BY <1>4, NoHoOK DEF Fresh, Only
  <2>7. QED BY <1>16, <2>4, <2>5, <2>6 DEF Fresh
<1>19. Arrived(ue, ctx', P)
  <2>1. \A k \in CuIds : On(ctx'[k]) /\ ctx'[k].ho.tgt_id # 0 =>
           On(ctx[k]) /\ ctx'[k].ho.tgt = ctx[k].ho.tgt /\ ctx'[k].ho.tgt_id = ctx[k].ho.tgt_id
    BY DEF Only, On
  <2>2. QED BY <1>1, <1>3, <1>4, <2>1, ArrivedTake
<1>20. QED BY <1>1, <1>7, <1>9, <1>10, <1>17, <1>18, <1>19 DEF InTurnNow, InTurn

LEMMA QuietFreeId ==
    ASSUME Base, NEW c \in CuIds, ~UnderWay(c), NEW e \in Dus, NEW t \in LinkKinds
    PROVE  ~Has(to_cu[e], to_du[e], t, c)
<1>1. ASSUME NEW m, Is(m, t, c) PROVE About(m, c)
  BY <1>1 DEF Is, Again, About, LinkKinds
<1>2. /\ \A k \in DOMAIN to_du[e] : ~About(to_du[e][k], c)
      /\ \A k \in DOMAIN to_cu[e] : ~About(to_cu[e][k], c)
  BY DEF UnderWay
<1>3. IsSeq(to_cu[e]) /\ IsSeq(to_du[e])
  BY DEF Base, CuQ, DuQ
<1>4. ASSUME NEW q, IsSeq(q), \A k \in DOMAIN q : ~About(q[k], c) PROVE ~In(q, t, c)
  <2>1. DOMAIN q = 1..Len(q)
    BY <1>4 DEF IsSeq
  <2>2. QED BY <1>1, <1>4, <2>1 DEF In
<1>5. QED BY <1>2, <1>3, <1>4 DEF Has

LEMMA FallBackTurn ==
    ASSUME Base, IInv, InTurnNow, NEW d \in Dus, Took(d, "reest_req"), CuTakes(d),
           NEW m, m = Head(to_cu[d]), mac' = mac, ue' = ue, ~untimely',
           NEW old, FallBack(d, m.id, old)
    PROVE  InTurnNow' /\ misfit' = misfit
<1>1. PICK c : c = NewCuId
  OBVIOUS
<1>2. c \in CuIds /\ ~ctx[c].live
  BY <1>1, CuIdForRequest
<1>3. MadeIn(mac, d, m.id)
  BY RequestFacts
<1>4. /\ ctx' = [ctx EXCEPT ![c] = NewCtx(d, m.id)] /\ to_du' = Transfer(to_du, c, 0, "setup")
      /\ ~UnderWay(c) /\ misfit' = misfit
  BY <1>1 DEF FallBack
<1>5. Only(c) /\ ctx'[c] = NewCtx(d, m.id)
  BY <1>2, <1>4, BaseParts DEF Only
<1>6. /\ ctx'[c].live /\ ctx'[c].du = d /\ ctx'[c].id = m.id /\ ctx'[c].ho = NoHo /\ ctx'[c].cg = NoDu
      /\ d # NoDu
  BY <1>5, DusAssumption DEF NewCtx, NoCtx
<1>7. PICK n : n = DlRrc(c, m.id, 0, "setup", NoDu)
  OBVIOUS
<1>8. to_du' = Queued(to_du, d, n) /\ n.t = "dl" /\ n.cu = c /\ n.id = m.id /\ n.what = "setup"
  BY <1>4, <1>6, <1>7 DEF Transfer, DlRrc
<1>9. CtxOK(ctx'[c], c, mac)
  BY <1>3, <1>6 DEF CtxOK, On
<1>10. ASSUME NEW e \in Dus PROVE LinkOK(ctx'[c], c, e, to_cu'[e], to_du'[e])
  <2>1. PICK P : P = to_cu'
    OBVIOUS
  <2>2. \A t \in LinkKinds : ~Is(n, t, c)
    BY <1>8 DEF Is, Again, LinkKinds
  <2>3. ASSUME NEW t \in LinkKinds PROVE ~Has(P[e], to_du'[e], t, c)
    <3>1. ~Has(to_cu[e], to_du[e], t, c)
      BY <1>2, <1>4, QuietFreeId
    <3>2. ~Has(P[e], to_du[e], t, c)
      BY <1>2, <2>1, <3>1, TakenKinds DEF Took
    <3>3. Assoc(to_du)
      BY DEF Base, DuQ, Assoc
    <3>4. Has(P[e], to_du'[e], t, c) => Has(P[e], to_du[e], t, c) \/ (e = d /\ Is(n, t, c))
      BY <1>8, <3>3, QueuedMore
    <3>5. QED BY <2>2, <3>2, <3>4
  <2>4. LinkOK(ctx'[c], c, e, P[e], to_du'[e])
    BY <2>3, QuietLink
  <2>5. QED BY <2>1, <2>4
<1>11. InTurnNow'
  <2>1. PICK Q : Q = to_du
    OBVIOUS
  <2>2. Q = to_du \/ (\E e, k : Q = Queued(to_du, e, k) /\ Neutral(k))
    BY <2>1
  <2>3. to_du' = Queued(Q, d, n) /\ n.t = "dl" /\ n.cu = c /\ n.id = m.id
    BY <1>8, <2>1
  <2>4. QED BY <1>2, <1>5, <1>6, <1>9, <1>10, <2>2, <2>3, RequestTurn
<1>12. QED BY <1>4, <1>11

(* The links of a context that is given its new ID, when no message of a    *)
(* setup or a reestablishment is under way, and a modification only on the  *)
(* association that it comes back to.                                       *)
LEMMA BackLinks ==
    ASSUME Base, IInv, NEW P, NEW Q, Assoc(Q), NEW d \in Dus, NEW c, NEW r, NEW n, NEW Q2,
           Q2 = Queued(Q, d, n), n.t = "dl", r.du = d, r.ho = NoHo, "reestab" \in r.xids, NEW e \in Dus,
           ~Has(P[e], Q[e], "setup", c), ~Has(P[e], Q[e], "reest", c), Once(P[e], Q[e], "modif", c),
           Has(P[e], Q[e], "modif", c) => e = d
    PROVE  LinkOK(r, c, e, P[e], Q2[e])
<1>1. \A x : ~Is(n, "setup", x) /\ ~Is(n, "modif", x)
  BY DEF Is, Again
<1>2. ASSUME NEW t PROVE Has(P[e], Q2[e], t, c) => Has(P[e], Q[e], t, c) \/ (e = d /\ Is(n, t, c))
  BY QueuedMore
<1>3. ~Has(P[e], Q2[e], "setup", c) /\ (Has(P[e], Q2[e], "modif", c) => e = d)
      /\ (Has(P[e], Q2[e], "reest", c) => e = d)
  BY <1>1, <1>2
<1>4. Once(P[e], Q2[e], "setup", c)
  BY <1>3, NoneOnce
<1>5. Once(P[e], Q2[e], "modif", c)
  BY <1>1, QueuedMore
<1>6. Once(P[e], Q2[e], "reest", c)
  <2>1. Once(P[e], Q[e], "reest", c)
    BY NoneOnce
  <2>2. QED BY <2>1, QueuedMore
<1>7. Ahead(P[e], Q2[e], "modif", "reest", c)
  <2>1. Ahead(P[e], Q[e], "modif", "reest", c)
    BY NoneOnce
  <2>2. QED BY <1>1, <2>1, QueuedMore
<1>8. ~On(r)
  BY DEF On
<1>9. QED BY <1>3, <1>4, <1>5, <1>6, <1>7, <1>8 DEF LinkOK

(* Context r once its UE has come back to the cell with ID i.               *)
Back(r, i) == [r EXCEPT !.id = i, !.xids = @ \cup {"reestab"}]

LEMMA BackRecord ==
    ASSUME NEW r \in CtxSet, NEW i, NEW s, s = Back(r, i)
    PROVE  /\ s.live = r.live /\ s.du = r.du /\ s.cg = r.cg /\ s.id = i /\ s.ho = r.ho
           /\ "reestab" \in s.xids
<1>1. DOMAIN r = {"live", "du", "id", "cg", "ho", "f1", "an_release", "sec", "xids"}
  BY DEF CtxSet
<1>2. QED BY <1>1 DEF Back

(* The UE comes back to the source of its handover.                         *)
LEMMA CameBackTurn ==
    ASSUME Base, IInv, InTurnNow, NEW d \in Dus, Took(d, "reest_req"), CuTakes(d),
           NEW m, m = Head(to_cu[d]), mac' = mac, ue' = ue,
           NEW c \in CuIds, On(ctx[c]), ctx[c].ho.src = d, ctx[c].ho.tgt_id # 0,
           ctx' = [ctx EXCEPT ![c] = [RolledBack(c) EXCEPT !.id = m.id, !.xids = @ \cup {"reestab"}]],
           to_du' = Transfer(Cancelled(c), c, m.rnti, "reestab")
    PROVE  InTurnNow'
<1>1. Only(c) /\ ctx'[c] = [RolledBack(c) EXCEPT !.id = m.id, !.xids = @ \cup {"reestab"}]
  BY BaseParts DEF Only
<1>2. ctx[c].live /\ CtxOK(ctx[c], c, mac) /\ ctx[c].ho.old_cg \in {d, NoDu} /\ d # NoDu
  <2>1. CtxOK(ctx[c], c, mac)
    BY DEF InTurnNow, InTurn, Fits
  <2>2. QED BY <2>1, TargetsOK, DusAssumption DEF CtxOK
<1>3. /\ ctx'[c].live = ctx[c].live /\ ctx'[c].du = d /\ ctx'[c].cg \in {d, NoDu} /\ ctx'[c].id = m.id
      /\ ctx'[c].ho = NoHo /\ "reestab" \in ctx'[c].xids
  <2>1. ctx[c] \in CtxSet
    BY BaseParts
  <2>2. PICK r : r = RolledBack(c)
    OBVIOUS
  <2>3. r \in CtxSet /\ r.live = ctx[c].live /\ r.cg \in {d, NoDu} /\ r.du = d /\ r.ho = NoHo
    <3>1. r = [ctx[c] EXCEPT !.xids = @ \ {"dedicated", "required"}, !.cg = ctx[c].ho.old_cg,
                              !.du = d, !.ho = NoHo]
      BY <1>2, <2>2 DEF RolledBack
    <3>2. QED BY <1>2, <2>1, <3>1, RecordOK, NoHoOK DEF CtxSet, AnyDu
  <2>4. ctx'[c] = [r EXCEPT !.id = m.id, !.xids = @ \cup {"reestab"}]
    BY <1>1, <2>2
  <2>5. PICK s : s = ctx'[c]
    OBVIOUS
  <2>6. PICK i : i = m.id
    OBVIOUS
  <2>7. s = Back(r, i)
    BY ONLY <2>4, <2>5, <2>6 DEF Back
  <2>8. /\ s.live = r.live /\ s.du = r.du /\ s.cg = r.cg /\ s.id = i /\ s.ho = r.ho
        /\ "reestab" \in s.xids
    BY ONLY <2>3, <2>7, BackRecord
  <2>9. QED BY ONLY <2>3, <2>5, <2>6, <2>8
<1>4. PICK n : n = DlRrc(c, m.id, m.rnti, "reestab", ctx'[c].cg)
  OBVIOUS
<1>5. PICK Q : Q = Queued(to_du, ctx[c].ho.tgt, Release(c, ctx[c].ho.tgt_id, FALSE))
  OBVIOUS
<1>6. to_du' = Queued(Q, d, n) /\ n.t = "dl" /\ n.cu = c /\ n.id = m.id
  BY <1>2, <1>3, <1>4, <1>5 DEF Transfer, DlRrc, Cancelled
<1>7. CtxOK(ctx'[c], c, mac)
  <2>1. MadeIn(mac, d, m.id)
    BY RequestFacts
  <2>2. QED BY <1>3, <2>1 DEF CtxOK, On
<1>8. Assoc(to_du) /\ Neutral(Release(c, ctx[c].ho.tgt_id, FALSE))
  BY NeutralMessages DEF Base, DuQ, Assoc
<1>9. PICK P : P = to_cu'
  OBVIOUS
<1>10. CalmAll(Kinds, P, to_du, P, Q) /\ Assoc(Q)
  <2>1. \A t \in Kinds : \A x : ~Is(Release(c, ctx[c].ho.tgt_id, FALSE), t, x)
    BY <1>8 DEF Neutral
  <2>2. CalmAll(Kinds, P, to_du, P, Q)
    BY <1>5, <1>8, <2>1, QueuedCalm
  <2>3. Assoc(Q)
    BY <1>5, <1>8, QueuedKinds
  <2>4. QED BY <2>2, <2>3
<1>11. ASSUME NEW e \in Dus PROVE LinkOK(ctx'[c], c, e, to_cu'[e], to_du'[e])
  <2>1. LinkOK(ctx[c], c, e, P[e], to_du[e])
    BY <1>9, TakenKinds DEF Took
  <2>2. LinkOK(ctx[c], c, e, P[e], Q[e])
    <3>1. LinkKinds \subseteq Kinds
      BY DEF LinkKinds, Kinds
    <3>2. Calm(LinkKinds, P[e], to_du[e], P[e], Q[e])
      BY <1>10, <3>1, CalmSubset DEF CalmAll
    <3>3. QED BY <2>1, <3>2, LinkCalm
  <2>3. /\ ~Has(P[e], Q[e], "setup", c) /\ ~Has(P[e], Q[e], "reest", c) /\ Once(P[e], Q[e], "modif", c)
        /\ Has(P[e], Q[e], "modif", c) => e = d
    BY <1>2, <2>2 DEF LinkOK
  <2>4. PICK r : r = ctx'[c]
    OBVIOUS
  <2>5. PICK Q2 : Q2 = to_du'
    OBVIOUS
  <2>6. /\ r.du = d /\ r.ho = NoHo /\ "reestab" \in r.xids
        /\ Q2 = Queued(Q, d, n) /\ n.t = "dl" /\ Assoc(Q)
    BY ONLY <1>3, <1>6, <1>10, <2>4, <2>5
  <2>7. Base /\ IInv /\ d \in Dus /\ e \in Dus
    OBVIOUS
  <2>8. LinkOK(r, c, e, P[e], Q2[e])
    BY ONLY <2>3, <2>6, <2>7, BackLinks
  <2>9. QED BY ONLY <1>9, <2>4, <2>5, <2>8
<1>12. Q = to_du \/ (\E e, k : Q = Queued(to_du, e, k) /\ Neutral(k))
  BY <1>5, <1>8
<1>13. QED BY <1>1, <1>3, <1>6, <1>7, <1>11, <1>12, RequestTurn

(* A UE that comes from where it was served has no handover on: its         *)
(* completion has been received.                                            *)
LEMMA StayedOff ==
    ASSUME Base, IInv, InTurnNow, NEW d \in Dus, Took(d, "reest_req"), CuTakes(d),
           NEW m, m = Head(to_cu[d]), NEW c \in CuIds, ctx[c].du = d, ctx[c].id = m.rnti,
           ~(On(ctx[c]) /\ ctx[c].ho.src = d)
    PROVE  ~On(ctx[c])
<1> SUFFICES ASSUME On(ctx[c]) PROVE FALSE
  OBVIOUS
<1>1. CtxOK(ctx[c], c, mac) /\ Arrived(ue, ctx, to_cu)
  BY DEF InTurnNow, InTurn, Fits
<1>2. ctx[c].ho.tgt = d /\ ctx[c].ho.tgt_id = m.rnti /\ ctx[c].ho.tgt_id # 0
  BY <1>1 DEF CtxOK
<1>3. Led(to_cu[d], m.rnti, c)
  BY <1>1, <1>2 DEF Arrived
<1>4. Is(m, "names", m.rnti) /\ ~Is(m, "complete", c)
  BY DEF Is, Took
<1>5. IsSeq(to_cu[d]) /\ to_cu[d] # <<>>
  BY DEF Base, CuQ, Took
<1>6. QED BY <1>3, <1>4, <1>5, LedTail

(* The UE reestablishes in its cell.                                        *)
LEMMA StayedTurn ==
    ASSUME Base, IInv, InTurnNow, NEW d \in Dus, Took(d, "reest_req"), CuTakes(d),
           NEW m, m = Head(to_cu[d]), mac' = mac, ue' = ue,
           NEW c \in CuIds, ctx[c].live, ctx[c].du = d, ctx[c].id = m.rnti,
           ~(On(ctx[c]) /\ ctx[c].ho.src = d), ~(On(ctx[c]) /\ ctx[c].ho.tgt_id = 0),
           ctx' = [ctx EXCEPT ![c] = [ctx[c] EXCEPT !.id = m.id, !.xids = @ \cup {"reestab"}]],
           to_du' = Transfer(to_du, c, m.rnti, "reestab")
    PROVE  InTurnNow'
<1>1. Only(c) /\ ctx'[c] = [ctx[c] EXCEPT !.id = m.id, !.xids = @ \cup {"reestab"}]
  BY BaseParts DEF Only
<1>2. CtxOK(ctx[c], c, mac) /\ Arrived(ue, ctx, to_cu) /\ Turns(ue, to_cu, to_du) /\ d # NoDu
  BY DusAssumption DEF InTurnNow, InTurn, Fits
<1>3. MadeIn(mac, d, m.id) /\ Is(m, "names", m.rnti) /\ m.t = "reest_req"
  BY RequestFacts DEF Took
<1>4. ~On(ctx[c])
  BY StayedOff
<1>5. /\ ctx'[c].live = ctx[c].live /\ ctx'[c].du = d /\ ctx'[c].cg \in {d, NoDu} /\ ctx'[c].id = m.id
      /\ ctx'[c].ho = NoHo /\ "reestab" \in ctx'[c].xids
  <2>1. ctx[c] \in CtxSet /\ ctx[c].cg \in {d, NoDu} /\ ctx[c].ho = NoHo
    BY <1>2, <1>4, BaseParts DEF CtxOK, On
  <2>2. PICK s : s = ctx'[c]
    OBVIOUS
  <2>3. PICK r : r = ctx[c]
    OBVIOUS
  <2>4. PICK i : i = m.id
    OBVIOUS
  <2>5. s = Back(r, i)
    BY ONLY <1>1, <2>2, <2>3, <2>4 DEF Back
  <2>6. r \in CtxSet /\ r.du = d /\ r.cg \in {d, NoDu} /\ r.ho = NoHo /\ r.live = ctx[c].live
    BY <2>1, <2>3
  <2>7. /\ s.live = r.live /\ s.du = r.du /\ s.cg = r.cg /\ s.id = i /\ s.ho = r.ho
        /\ "reestab" \in s.xids
    BY ONLY <2>5, <2>6, BackRecord
  <2>8. QED BY ONLY <2>2, <2>4, <2>6, <2>7
<1>6. PICK n : n = DlRrc(c, m.id, m.rnti, "reestab", ctx'[c].cg)
  OBVIOUS
<1>7. to_du' = Queued(to_du, d, n) /\ n.t = "dl" /\ n.cu = c /\ n.id = m.id
  BY <1>2, <1>5, <1>6 DEF Transfer, DlRrc
<1>8. CtxOK(ctx'[c], c, mac)
  BY <1>3, <1>5 DEF CtxOK, On
<1>9. PICK P : P = to_cu'
  OBVIOUS
<1>10. ~Has(P[d], to_du[d], "reest", c)
  <2>1. ~Has(P[d], to_du[d], "turn", 0) /\ ~Has(P[d], to_du[d], "answer", 0)
    BY <1>9, RequestFacts
  <2>2. ASSUME NEW k, Is(k, "reest", c) PROVE Is(k, "turn", 0) \/ Is(k, "answer", 0)
    BY <2>2 DEF Is
  <2>3. QED BY <2>1, <2>2 DEF Has, In
<1>11. Assoc(to_du)
  BY DEF Base, DuQ, Assoc
<1>12. ASSUME NEW e \in Dus PROVE LinkOK(ctx'[c], c, e, to_cu'[e], to_du'[e])
  <2>1. LinkOK(ctx[c], c, e, P[e], to_du[e])
    BY <1>9, TakenKinds DEF Took
  <2>2. /\ ~Has(P[e], to_du[e], "setup", c) /\ ~Has(P[e], to_du[e], "reest", c)
        /\ Once(P[e], to_du[e], "modif", c)
        /\ Has(P[e], to_du[e], "modif", c) => e = d
    BY <1>4, <1>10, <2>1 DEF LinkOK
  <2>3. PICK r : r = ctx'[c]
    OBVIOUS
  <2>4. PICK Q : Q = to_du
    OBVIOUS
  <2>5. PICK Q2 : Q2 = to_du'
    OBVIOUS
  <2>6. /\ r.du = d /\ r.ho = NoHo /\ "reestab" \in r.xids
        /\ Q2 = Queued(Q, d, n) /\ n.t = "dl" /\ Assoc(Q)
    BY ONLY <1>5, <1>7, <1>11, <2>3, <2>4, <2>5
  <2>7. Base /\ IInv /\ d \in Dus /\ e \in Dus
    OBVIOUS
  <2>8. /\ ~Has(P[e], Q[e], "setup", c) /\ ~Has(P[e], Q[e], "reest", c)
        /\ Once(P[e], Q[e], "modif", c)
        /\ Has(P[e], Q[e], "modif", c) => e = d
    BY ONLY <2>2, <2>4
  <2>9. LinkOK(r, c, e, P[e], Q2[e])
    BY ONLY <2>6, <2>7, <2>8, BackLinks
  <2>10. QED BY ONLY <1>9, <2>3, <2>5, <2>9
<1>13. PICK Q : Q = to_du
  OBVIOUS
<1>14. (Q = to_du \/ (\E e, k : Q = Queued(to_du, e, k) /\ Neutral(k))) /\ to_du' = Queued(Q, d, n)
  BY <1>7, <1>13
<1>15. QED BY <1>1, <1>5, <1>7, <1>8, <1>12, <1>14, RequestTurn

LEMMA ReestablishmentRequestTurn ==
    ASSUME Base, IInv, InTurnNow, NEW d \in Dus, ReestablishmentRequest(d), ~untimely'
    PROVE  InTurnNow' /\ misfit' = misfit
<1>1. PICK m : m = Head(to_cu[d])
  OBVIOUS
<1>2. PICK c : c = CHOOSE k \in Sought(d, m.pci, m.rnti) : TRUE
  OBVIOUS
<1>3. Took(d, "reest_req") /\ CuTakes(d) /\ mac' = mac /\ ue' = ue
  BY DEF ReestablishmentRequest, duVars
<1>4. CASE FallBack(d, m.id, {}) \/ FallBack(d, m.id, {c})
  BY <1>1, <1>3, <1>4, FallBackTurn
<1>5. CASE /\ Sought(d, m.pci, m.rnti) # {} /\ OnSource(c, m.pci) /\ misfit' = misfit
           /\ ctx' = [ctx EXCEPT ![c] = [RolledBack(c) EXCEPT !.id = m.id, !.xids = @ \cup {"reestab"}]]
           /\ to_du' = Transfer(Cancelled(c), c, m.rnti, "reestab")
           /\ untimely' = \/ untimely \/ d # RolledBack(c).du \/ ctx[c].an_release
                          \/ HandingOver(c) /\ ctx[c].ho.tgt_id = 0
  <2>1. c \in CuIds /\ On(ctx[c]) /\ ctx[c].ho.tgt_id # 0 /\ d = RolledBack(c).du
    BY <1>2, <1>5, SoughtOK DEF OnSource, HandingOver, On
  <2>2. RolledBack(c).du = ctx[c].ho.src
    <3>1. ctx[c] \in CtxSet
      BY <2>1, BaseParts
    <3>2. QED BY <3>1 DEF RolledBack, CtxSet
  <2>3. InTurnNow'
    BY <1>1, <1>3, <1>5, <2>1, <2>2, CameBackTurn
  <2>4. QED BY <1>5, <2>3
<1>6. CASE /\ Sought(d, m.pci, m.rnti) # {} /\ ~OnSource(c, m.pci) /\ m.pci = d /\ misfit' = misfit
           /\ ctx' = [ctx EXCEPT ![c] = [ctx[c] EXCEPT !.id = m.id, !.xids = @ \cup {"reestab"}]]
           /\ to_du' = Transfer(to_du, c, m.rnti, "reestab")
           /\ untimely' = \/ untimely \/ d # ctx[c].du \/ ctx[c].an_release
                          \/ HandingOver(c) /\ ctx[c].ho.tgt_id = 0
  <2>1. /\ c \in CuIds /\ ctx[c].live /\ ctx[c].du = d /\ ctx[c].id = m.rnti
        /\ ~(On(ctx[c]) /\ ctx[c].ho.src = d) /\ ~(On(ctx[c]) /\ ctx[c].ho.tgt_id = 0)
    <3>1. /\ c \in CuIds /\ ctx[c].live
          /\ \/ ctx[c].du = d /\ ctx[c].id = m.rnti
             \/ HandingOver(c) /\ ctx[c].ho.src = m.pci /\ ctx[c].ho.src_id = m.rnti
      BY <1>2, <1>6, SoughtOK
    <3>2. ~(HandingOver(c) /\ m.pci = ctx[c].ho.src) /\ m.pci = d
      BY <1>6 DEF OnSource
    <3>3. ~(HandingOver(c) /\ ctx[c].ho.tgt_id = 0)
      BY <1>6
    <3>4. HandingOver(c) <=> On(ctx[c])
      BY DEF HandingOver, On
    <3>5. QED BY ONLY <3>1, <3>2, <3>3, <3>4
  <2>2. InTurnNow'
    BY <1>1, <1>3, <1>6, <2>1, StayedTurn
  <2>3. QED BY <1>6, <2>2
<1>7. QED BY <1>1, <1>2, <1>4, <1>5, <1>6 DEF ReestablishmentRequest

-----------------------------------------------------------------------------
(* Bearers are asked for at the DU of the UE, and with no handover on.      *)

Want(q, c) == \E k \in 1..Len(q) : Bearers(q[k], c)
Wants(P, Q, d, c) == Want(P[d], c) \/ Want(Q[d], c)
AskedNow == \A c \in CuIds : \A d \in Dus :
    ctx[c].live /\ Wants(to_cu, to_du, d, c) => ~On(ctx[c]) /\ ctx[c].du = d
Asked == ~untimely => AskedNow

LEMMA WantOne ==
    ASSUME NEW q, IsSeq(q), NEW m, NEW c
    PROVE  /\ Want(Append(q, m), c) => Want(q, c) \/ Bearers(m, c)
           /\ ~Want(<<>>, c)
           /\ q # <<>> => /\ Want(Tail(q), c) => Want(q, c)
                          /\ Bearers(Head(q), c) => Want(q, c)
<1>1. ASSUME Want(Append(q, m), c) PROVE Want(q, c) \/ Bearers(m, c)
  <2>1. /\ Len(q) \in Nat /\ Len(Append(q, m)) = Len(q) + 1
        /\ \A n \in 1..Len(q) : Append(q, m)[n] = q[n]
        /\ Append(q, m)[Len(q) + 1] = m
    BY SeqAppend
  <2>2. PICK k \in 1..(Len(q) + 1) : Bearers(Append(q, m)[k], c)
    BY <1>1, <2>1 DEF Want
  <2>3. CASE k \in 1..Len(q)
    BY <2>1, <2>2, <2>3 DEF Want
  <2>4. CASE k = Len(q) + 1
    BY <2>1, <2>2, <2>4
  <2>5. QED BY <2>1, <2>2, <2>3, <2>4
<1>2. ~Want(<<>>, c)
  BY DEF Want
<1>3. ASSUME q # <<>> PROVE (Want(Tail(q), c) => Want(q, c)) /\ (Bearers(Head(q), c) => Want(q, c))
  <2>1. /\ \A k \in 1..Len(Tail(q)) : Tail(q)[k] = q[k + 1] /\ k + 1 \in 1..Len(q)
        /\ Head(q) = q[1] /\ 1 \in 1..Len(q)
    BY <1>3, SeqTail
  <2>2. QED BY <2>1 DEF Want
<1>4. QED BY <1>1, <1>2, <1>3

NoMoreWanted == \A c \in CuIds : \A d \in Dus :
    Wants(to_cu', to_du', d, c) => Wants(to_cu, to_du, d, c)
AskedKept(c) ==
    ctx'[c].live => /\ ctx[c].live /\ (On(ctx'[c]) => On(ctx[c]))
                    /\ ctx'[c].du = ctx[c].du \/ On(ctx[c])

LEMMA AskedStep ==
    ASSUME AskedNow, NoMoreWanted,
           \A c \in CuIds : AskedKept(c) \/ \A d \in Dus : ~Wants(to_cu', to_du', d, c)
    PROVE  AskedNow'
<1>1. ASSUME NEW c \in CuIds, NEW d \in Dus, ctx'[c].live, Wants(to_cu', to_du', d, c)
      PROVE  ~On(ctx'[c]) /\ ctx'[c].du = d
  <2>1. AskedKept(c) /\ Wants(to_cu, to_du, d, c)
    BY <1>1 DEF NoMoreWanted
  <2>2. ctx[c].live /\ ~On(ctx[c]) /\ ctx[c].du = d
    BY <1>1, <2>1 DEF AskedKept, AskedNow
  <2>3. QED BY <1>1, <2>1, <2>2 DEF AskedKept
<1>2. QED BY <1>1 DEF AskedNow

(* The DUs and the UE.                                                      *)
LEMMA DuWants ==
    ASSUME Base, (to_du' = to_du /\ up' = up) \/ (\E d : Taken(d)) \/ (\E d : Cut(d)),
           NEW c \in CuIds, NEW e \in Dus, Want(to_du'[e], c)
    PROVE  Want(to_du[e], c)
<1>1. to_du = [d \in Dus |-> to_du[d]] /\ IsSeq(to_du[e])
  BY DEF Base, DuQ
<1>2. CASE to_du' = to_du
  BY <1>2
<1>3. ASSUME NEW d, Taken(d) PROVE Want(to_du[e], c)
  <2>1. d \in Dus /\ to_du[d] # <<>> /\ to_du'[d] = Tail(to_du[d])
        /\ \A k \in Dus \ {d} : to_du'[k] = to_du[k]
    BY <1>1, <1>3 DEF Taken, DuTakes
  <2>2. QED BY <1>1, <2>1, WantOne
<1>4. ASSUME NEW d, Cut(d) PROVE Want(to_du[e], c)
  <2>1. d \in Dus /\ to_du'[d] = <<>> /\ \A k \in Dus \ {d} : to_du'[k] = to_du[k]
    BY <1>1, <1>4 DEF Cut
  <2>2. QED BY <1>1, <2>1, WantOne
<1>5. QED BY <1>2, <1>3, <1>4

LEMMA SaidWants ==
    ASSUME Base, NEW d \in Dus, NEW m, Sent(d, m), NEW c \in CuIds, NEW e \in Dus, Want(to_cu'[e], c)
    PROVE  Want(to_cu[e], c) \/ (e = d /\ Bearers(m, c))
<1>1. to_cu = [k \in Dus |-> to_cu[k]] /\ IsSeq(to_cu[e]) /\ IsSeq(to_cu[d])
  BY DEF Base, CuQ
<1>2. to_cu'[d] = Append(to_cu[d], m) /\ \A k \in Dus \ {d} : to_cu'[k] = to_cu[k]
  BY <1>1 DEF Sent
<1>3. CASE e = d
  BY <1>1, <1>2, <1>3, WantOne
<1>4. CASE e # d
  BY <1>2, <1>4
<1>5. QED BY <1>3, <1>4

LEMMA DuAsked ==
    ASSUME Base, AskedNow, ctx' = ctx,
           (to_du' = to_du /\ up' = up) \/ (\E d : Taken(d)) \/ (\E d : Cut(d)),
           \/ to_cu' = to_cu
           \/ \E d \in Dus : \E m : /\ Sent(d, m)
                                    /\ \A c \in CuIds : Bearers(m, c) => Wants(to_cu, to_du, d, c)
    PROVE  AskedNow'
<1>1. ASSUME NEW c \in CuIds, NEW e \in Dus, Wants(to_cu', to_du', e, c)
      PROVE  Wants(to_cu, to_du, e, c)
  <2>1. CASE Want(to_du'[e], c)
    BY <2>1, DuWants DEF Wants
  <2>2. CASE Want(to_cu'[e], c)
    <3>1. CASE to_cu' = to_cu
      BY <2>2, <3>1 DEF Wants
    <3>2. ASSUME NEW d \in Dus, NEW m, Sent(d, m),
                 \A k \in CuIds : Bearers(m, k) => Wants(to_cu, to_du, d, k)
          PROVE  Wants(to_cu, to_du, e, c)
      <4>1. Want(to_cu[e], c) \/ (e = d /\ Bearers(m, c))
        BY <2>2, <3>2, SaidWants
      <4>2. QED BY <3>2, <4>1 DEF Wants
    <3>3. QED BY <3>1, <3>2
  <2>3. QED BY <1>1, <2>1, <2>2 DEF Wants
<1>2. QED BY <1>1, AskedStep DEF NoMoreWanted, AskedKept

LEMMA DuStepsAsked ==
    ASSUME Base, IInv, AskedNow, NEW d \in Dus, DuReceives(d) \/ DuLost(d) \/ UeReestablishes(d)
    PROVE  AskedNow'
<1>0. ctx' = ctx
  BY DEF DuReceives, DuSetupRequest, DuModificationRequest, DuReleaseCommand, DuDlRrc, DuBearersRequest,
     DuMoreBearersRequest, DuModificationRefuse, DuLost, UeReestablishes, cuVars
<1>1. CASE Dies(d)
  <2>1. Cut(d) /\ Sent(d, [t |-> "lost"])
    BY <1>1, DiesEffect DEF Says
  <2>2. \A c \in CuIds : ~Bearers([t |-> "lost"], c)
    BY DEF Bearers
  <2>3. QED BY <1>0, <2>1, <2>2, DuAsked
<1>2. CASE DuSetupRequest(d)
  <2>1. PICK m : m = [t |-> "setup_resp", cu |-> Head(to_du[d]).cu, id |-> NewId]
    OBVIOUS
  <2>2. Taken(d) /\ Sent(d, m)
    BY <1>2, <2>1 DEF DuSetupRequest, TookCmd, Taken
  <2>3. \A c \in CuIds : ~Bearers(m, c)
    BY <2>1 DEF Bearers
  <2>4. QED BY <1>0, <2>2, <2>3, DuAsked
<1>3. CASE DuModificationRequest(d)
  <2>1. PICK m : m = [t |-> "modif_resp", cu |-> Head(to_du[d]).cu]
    OBVIOUS
  <2>2. Taken(d) /\ (to_cu' = to_cu \/ Sent(d, m))
    BY <1>3, <2>1 DEF DuModificationRequest, TookCmd, Taken, duVars
  <2>3. \A c \in CuIds : ~Bearers(m, c)
    BY <2>1 DEF Bearers
  <2>4. QED BY <1>0, <2>2, <2>3, DuAsked
<1>4. CASE DuReleaseCommand(d)
  <2>1. Taken(d) /\ (to_cu' = to_cu \/ \E c : Sent(d, [t |-> "rel_compl", cu |-> c]))
    BY <1>4, DuReleaseCommandEffect DEF Says
  <2>2. \A k : \A c \in CuIds : ~Bearers([t |-> "rel_compl", cu |-> k], c)
    BY DEF Bearers
  <2>3. QED BY <1>0, <2>1, <2>2, DuAsked
<1>5. CASE DuDlRrc(d)
  <2>1. PICK m : m = Head(to_du[d])
    OBVIOUS
  <2>2. Dies(d) \/ (Taken(d) /\ (to_cu' = to_cu \/ Sent(d, Answered(d, m))))
    BY <1>5, <2>1, DuDlRrcEffect DEF Says
  <2>3. \A c \in CuIds : ~Bearers(Answered(d, m), c)
    BY DEF Bearers, Answered
  <2>4. QED BY <1>0, <1>1, <2>2, <2>3, DuAsked
<1>6. CASE DuBearersRequest(d) \/ DuMoreBearersRequest(d) \/ DuModificationRefuse(d)
  <2>1. PICK h : h = Head(to_du[d])
    OBVIOUS
  <2>2. \/ Dies(d)
        \/ /\ Taken(d)
           /\ \/ to_cu' = to_cu
              \/ Sent(d, Reply(d, "bearers_resp")) /\ h.t = "bearers"
              \/ Sent(d, Reply(d, "more_bearers_resp")) /\ h.t = "more_bearers"
              \/ Sent(d, Reply(d, "rel_req"))
    BY <1>6, <2>1, DuAnswersEffect DEF Says
  <2>3. ASSUME NEW t, NEW c \in CuIds, Taken(d), Bearers(Reply(d, t), c),
               h.t \in {"bearers", "more_bearers"}
        PROVE  Wants(to_cu, to_du, d, c)
    <3>1. Bearers(h, c)
      BY <2>1, <2>3 DEF Bearers, Reply
    <3>2. to_du[d] # <<>> /\ IsSeq(to_du[d])
      BY <2>3 DEF Taken, Base, DuQ
    <3>3. QED BY <2>1, <3>1, <3>2, WantOne DEF Wants
  <2>4. \A c \in CuIds : ~Bearers(Reply(d, "rel_req"), c)
    BY DEF Bearers, Reply
  <2>5. CASE Taken(d) /\ to_cu' = to_cu
    BY <1>0, <2>5, DuAsked
  <2>6. CASE Taken(d) /\ Sent(d, Reply(d, "bearers_resp")) /\ h.t = "bearers"
    BY <1>0, <2>3, <2>6, DuAsked
  <2>7. CASE Taken(d) /\ Sent(d, Reply(d, "more_bearers_resp")) /\ h.t = "more_bearers"
    BY <1>0, <2>3, <2>7, DuAsked
  <2>8. CASE Taken(d) /\ Sent(d, Reply(d, "rel_req"))
    BY <1>0, <2>4, <2>8, DuAsked
  <2>9. QED BY <1>1, <2>2, <2>5, <2>6, <2>7, <2>8
<1>7. CASE DuLost(d)
  BY <1>1, <1>7 DEF DuLost
<1>8. CASE UeReestablishes(d)
  <2>1. PICK m : m = [t |-> "reest_req", pci |-> ue.du, rnti |-> ue.id, id |-> NewId]
    OBVIOUS
  <2>2. to_du' = to_du /\ up' = up /\ Sent(d, m)
    BY <1>8, <2>1 DEF UeReestablishes
  <2>3. \A c \in CuIds : ~Bearers(m, c)
    BY <2>1 DEF Bearers
  <2>4. QED BY <1>0, <2>2, <2>3, DuAsked
<1>9. QED BY <1>2, <1>3, <1>4, <1>5, <1>6, <1>7, <1>8 DEF DuReceives

LEMMA UeAndTimersAsked ==
    ASSUME Base, IInv, AskedNow,
           \/ \E i \in Ids : UlFailure(i) \/ ReleaseTimerExpires(i)
           \/ UeArrives \/ UeLosesRadio \/ UeGivesUp \/ UeReturns
    PROVE  AskedNow'
<1>1. ASSUME NEW i \in Ids, UlFailure(i) \/ ReleaseTimerExpires(i) PROVE AskedNow'
  <2>1. ctx' = ctx
    BY <1>1 DEF UlFailure, ReleaseTimerExpires, cuVars
  <2>2. /\ to_du' = to_du /\ up' = up
        /\ \/ to_cu' = to_cu
           \/ \E d \in Dus : \E c : \/ Sent(d, [t |-> "rel_compl", cu |-> c])
                                  \/ Sent(d, [t |-> "rel_req", cu |-> c])
    BY <1>1, TimersEffect DEF Says
  <2>3. \A k : \A c \in CuIds : ~Bearers([t |-> "rel_compl", cu |-> k], c) /\ ~Bearers([t |-> "rel_req", cu |-> k], c)
    BY DEF Bearers
  <2>4. QED BY <2>1, <2>2, <2>3, DuAsked
<1>2. CASE UeArrives \/ UeLosesRadio \/ UeGivesUp
  <2>1. /\ to_du' = to_du /\ up' = up /\ ctx' = ctx
        /\ to_cu' = to_cu \/ \E d \in Dus : Sent(d, UeMessage)
    BY <1>2, UeStepsEffect DEF Says
  <2>2. \A c \in CuIds : ~Bearers(UeMessage, c)
    BY DEF Bearers, UeMessage
  <2>3. QED BY <2>1, <2>2, DuAsked
<1>3. CASE UeReturns
  <2>1. /\ to_du' = to_du /\ up' = up /\ ctx' = ctx
        /\ to_cu' = to_cu \/ \E d \in Dus : Sent(d, RequiredMessage)
    BY <1>3, UeReturnsEffect DEF Says
  <2>2. \A c \in CuIds : ~Bearers(RequiredMessage, c)
    BY DEF Bearers, RequiredMessage
  <2>3. QED BY <2>1, <2>2, DuAsked
<1>4. QED BY <1>1, <1>2, <1>3

(* The CU.                                                                  *)
CuTookIt == to_cu' = to_cu \/ \E d \in Dus : to_cu[d] # <<>> /\ CuTakes(d)
Silent(m) == \A c \in CuIds : ~Bearers(m, c)

LEMMA TookWants ==
    ASSUME Base, CuTookIt, NEW c \in CuIds, NEW e \in Dus, Want(to_cu'[e], c)
    PROVE  Want(to_cu[e], c)
<1>1. CASE to_cu' = to_cu
  BY <1>1
<1>2. ASSUME NEW d \in Dus, to_cu[d] # <<>>, CuTakes(d) PROVE Want(to_cu[e], c)
  <2>1. to_cu = [k \in Dus |-> to_cu[k]] /\ IsSeq(to_cu[e])
    BY DEF Base, CuQ
  <2>2. to_cu'[d] = Tail(to_cu[d]) /\ \A k \in Dus \ {d} : to_cu'[k] = to_cu[k]
    BY <1>2, <2>1 DEF CuTakes
  <2>3. QED BY <1>2, <2>1, <2>2, WantOne
<1>3. QED BY <1>1, <1>2 DEF CuTookIt

LEMMA QueuedWants ==
    ASSUME Base, IInv, NEW Q, Assoc(Q), NEW d, NEW m, NEW Q2, Q2 = Queued(Q, d, m),
           NEW c \in CuIds, NEW e \in Dus, Want(Q2[e], c)
    PROVE  Want(Q[e], c) \/ (e = d /\ Bearers(m, c))
<1>1. (e # d => Q2[e] = Q[e]) /\ (Q2[d] = Q[d] \/ (d \in Dus /\ Q2[d] = Append(Q[d], m)))
  BY QueuedKinds
<1>2. IsSeq(Q[e])
  BY DEF Assoc
<1>3. QED BY <1>1, <1>2, WantOne

LEMMA CuWants ==
    ASSUME Base, IInv, CuTookIt,
           NEW Q, Q = to_du \/ (\E e, k : Q = Queued(to_du, e, k) /\ Silent(k)),
           to_du' = Q \/ (\E e, k : to_du' = Queued(Q, e, k) /\ Silent(k))
    PROVE  NoMoreWanted
<1>1. Assoc(to_du) /\ Assoc(Q)
  <2>1. Assoc(to_du)
    BY DEF Base, DuQ, Assoc
  <2>2. QED BY <2>1, QueuedKinds
<1>2. ASSUME NEW c \in CuIds, NEW e \in Dus, Want(Q[e], c) PROVE Want(to_du[e], c)
  <2>1. CASE Q = to_du
    BY <1>2, <2>1
  <2>2. ASSUME NEW d, NEW k, Q = Queued(to_du, d, k), Silent(k) PROVE Want(to_du[e], c)
    BY <1>1, <1>2, <2>2, QueuedWants DEF Silent
  <2>3. QED BY <2>1, <2>2
<1>3. ASSUME NEW c \in CuIds, NEW e \in Dus, Want(to_du'[e], c) PROVE Want(Q[e], c)
  <2>1. CASE to_du' = Q
    BY <1>3, <2>1
  <2>2. ASSUME NEW d, NEW k, to_du' = Queued(Q, d, k), Silent(k) PROVE Want(Q[e], c)
    <3>1. PICK Q2 : Q2 = to_du'
      OBVIOUS
    <3>2. Q2 = Queued(Q, d, k) /\ Want(Q2[e], c)
      BY <1>3, <2>2, <3>1
    <3>3. QED BY <1>1, <2>2, <3>2, QueuedWants DEF Silent
  <2>3. QED BY <2>1, <2>2
<1>4. QED BY <1>2, <1>3, TookWants DEF NoMoreWanted, Wants

LEMMA SilentMessages ==
    ASSUME NEW m, m.t \in {"setup", "modif", "release", "dl", "refuse"}
    PROVE  Silent(m)
BY DEF Silent, Bearers

LEMMA TransferSilent ==
    ASSUME NEW Q, NEW c, NEW old, NEW what, NEW Q2, Q2 = Transfer(Q, c, old, what)
    PROVE  Q2 = Q \/ \E e, k : Q2 = Queued(Q, e, k) /\ Silent(k)
<1>1. PICK m : m = DlRrc(c, ctx'[c].id, old, what, ctx'[c].cg)
  OBVIOUS
<1>2. Silent(m)
  BY <1>1, SilentMessages DEF DlRrc
<1>3. Q2 = Q \/ Q2 = Queued(Q, ctx'[c].du, m)
  BY <1>1 DEF Transfer
<1>4. QED BY <1>2, <1>3

(* At most one context changes, and the CU says nothing about bearers.      *)
SaysSilent == to_du' = to_du \/ \E e, k : to_du' = Queued(to_du, e, k) /\ Silent(k)
LEMMA OneAsked ==
    ASSUME Base, IInv, AskedNow, CuTookIt, SaysSilent, NEW c, Only(c) \/ ctx' = ctx, AskedKept(c)
    PROVE  AskedNow'
<1>1. PICK Q : Q = to_du
  OBVIOUS
<1>2. NoMoreWanted
  <2>1. Q = to_du \/ (\E e, k : Q = Queued(to_du, e, k) /\ Silent(k))
    BY <1>1
  <2>2. to_du' = Q \/ (\E e, k : to_du' = Queued(Q, e, k) /\ Silent(k))
    BY <1>1 DEF SaysSilent
  <2>3. QED BY <2>1, <2>2, CuWants
<1>3. \A k \in CuIds : AskedKept(k)
  BY DEF AskedKept, Only
<1>4. QED BY <1>2, <1>3, AskedStep

LEMMA SameAsked ==
    ASSUME Base, IInv, AskedNow, CuTookIt, SaysSilent, ctx' = ctx
    PROVE  AskedNow'
<1>1. AskedKept(1)
  BY DEF AskedKept
<1>2. QED BY <1>1, OneAsked

(* A context keeps what bearers are about.                                  *)
LEMMA KeepsAsked ==
    ASSUME Base, IInv, AskedNow, CuTookIt, SaysSilent, NEW c \in CuIds, NEW r,
           ctx' = [ctx EXCEPT ![c] = r],
           r.live => ctx[c].live /\ (r.ho = ctx[c].ho \/ r.ho = NoHo \/ On(ctx[c]))
                     /\ (r.du = ctx[c].du \/ On(ctx[c]))
    PROVE  AskedNow'
<1>1. Only(c) /\ ctx'[c] = r
  BY BaseParts DEF Only
<1>2. AskedKept(c)
  BY <1>1 DEF AskedKept, On
<1>3. QED BY <1>1, <1>2, OneAsked

LEMMA GenerateAsked ==
    ASSUME Base, IInv, AskedNow, CuTookIt, NEW c \in CuIds, ctx[c].live, NEW r \in CtxSet,
           r.du = ctx[c].du, r.ho = ctx[c].ho, GenerateReconfiguration(c, r)
    PROVE  AskedNow'
<1>1. CASE r.du = NoDu
  <2>1. ctx' = ctx /\ to_du' = to_du
    BY <1>1 DEF GenerateReconfiguration
  <2>2. QED BY <2>1, SameAsked DEF SaysSilent
<1>2. CASE r.du # NoDu
  <2>1. PICK s : s = [r EXCEPT !.xids = r.xids \cup {"session"}]
    OBVIOUS
  <2>2. ctx' = [ctx EXCEPT ![c] = s] /\ to_du' = Transfer(to_du, c, 0, "session")
    BY <1>2, <2>1 DEF GenerateReconfiguration
  <2>3. s.du = r.du /\ s.ho = r.ho
    BY <2>1 DEF CtxSet
  <2>4. SaysSilent
    BY <2>2, TransferSilent DEF SaysSilent
  <2>5. QED BY <2>2, <2>3, <2>4, KeepsAsked
<1>3. QED BY <1>1, <1>2

(* The context of the cell group that comes with an answer.                 *)
LEMMA AnswerFields ==
    ASSUME NEW r \in CtxSet, NEW d \in Dus
    PROVE  /\ [r EXCEPT !.cg = d] \in CtxSet /\ [r EXCEPT !.cg = d, !.f1 = TRUE] \in CtxSet
           /\ \A s \in {[r EXCEPT !.cg = d], [r EXCEPT !.cg = d, !.f1 = TRUE]} :
                 /\ s.live = r.live /\ s.du = r.du /\ s.id = r.id /\ s.ho = r.ho /\ s.cg = d
                 /\ s.xids = r.xids
BY DEF CtxSet, AnyDu

LEMMA AnswersAsked ==
    ASSUME Base, IInv, AskedNow, NEW d \in Dus,
           SetupResponse(d) \/ BearersResponse(d) \/ MoreBearersResponse(d)
    PROVE  AskedNow'
<1>1. PICK m : m = Head(to_cu[d])
  OBVIOUS
<1>2. PICK c : c = m.cu
  OBVIOUS
<1>3. to_cu[d] # <<>> /\ CuTakes(d) /\ CuTookIt
  BY DEF SetupResponse, BearersResponse, MoreBearersResponse, Took, CuTookIt
<1>4. CASE ctx' = ctx /\ to_du' = to_du
  BY <1>3, <1>4, SameAsked DEF SaysSilent
<1>5. CASE /\ Live(c)
           /\ \/ GenerateReconfiguration(c, [ctx[c] EXCEPT !.cg = d])
              \/ GenerateReconfiguration(c, [ctx[c] EXCEPT !.cg = d, !.f1 = TRUE])
  <2>1. c \in CuIds /\ ctx[c].live /\ ctx[c] \in CtxSet
    BY <1>5, BaseParts DEF Live
  <2>2. PICK r \in {[ctx[c] EXCEPT !.cg = d], [ctx[c] EXCEPT !.cg = d, !.f1 = TRUE]} :
           GenerateReconfiguration(c, r)
    BY <1>5
  <2>3. r \in CtxSet /\ r.du = ctx[c].du /\ r.ho = ctx[c].ho
    <3>1. PICK k : k = ctx[c]
      OBVIOUS
    <3>2. k \in CtxSet /\ r \in {[k EXCEPT !.cg = d], [k EXCEPT !.cg = d, !.f1 = TRUE]}
      BY <2>1, <3>1
    <3>3. CASE r = [k EXCEPT !.cg = d]
      BY ONLY d \in Dus, <3>1, <3>2, <3>3 DEF CtxSet, AnyDu
    <3>4. CASE r = [k EXCEPT !.cg = d, !.f1 = TRUE]
      BY ONLY d \in Dus, <3>1, <3>2, <3>4 DEF CtxSet, AnyDu
    <3>5. QED BY <3>2, <3>3, <3>4
  <2>4. QED BY <1>3, <2>1, <2>2, <2>3, GenerateAsked
<1>6. CASE SetupResponse(d) /\ Live(c) /\ HandingOver(c)
  <2>1. c \in CuIds /\ ctx[c].live /\ On(ctx[c])
    BY <1>6 DEF Live, HandingOver, On
  <2>2. PICK n : n = [t |-> "modif", cu |-> c, id |-> ctx[c].id, to |-> d, to_id |-> m.id]
    OBVIOUS
  <2>3. /\ ctx' = [ctx EXCEPT ![c].cg = d, ![c].f1 = TRUE, ![c].ho.tgt_id = m.id,
                              ![c].xids = @ \cup {"dedicated"}]
        /\ to_du' = to_du \/ to_du' = Queued(to_du, ctx[c].du, n)
    BY <1>1, <1>2, <1>6, <2>2 DEF SetupResponse
  <2>4. SaysSilent
    BY <2>2, <2>3, SilentMessages DEF SaysSilent
  <2>5. Only(c)
    BY <2>1, <2>3, BaseParts, ZenonT(60) DEF Only
  <2>6. AskedKept(c)
    BY <2>1 DEF AskedKept
  <2>7. QED BY <1>3, <2>4, <2>5, <2>6, OneAsked
<1>7. CASE MoreBearersResponse(d) /\ Live(c) /\ HandingOver(c)
  <2>1. c \in CuIds /\ ctx[c].live /\ On(ctx[c])
    BY <1>7 DEF Live, HandingOver, On
  <2>2. Bearers(m, c) /\ IsSeq(to_cu[d])
    BY <1>1, <1>2, <1>7 DEF MoreBearersResponse, Took, Bearers, Base, CuQ
  <2>3. Wants(to_cu, to_du, d, c)
    BY <1>1, <1>3, <2>2, WantOne DEF Wants
  <2>4. QED BY <2>1, <2>3 DEF AskedNow
<1>8. CASE SetupResponse(d)
  <2>1. \/ ctx' = ctx /\ to_du' = to_du
        \/ Live(c) /\ GenerateReconfiguration(c, [ctx[c] EXCEPT !.cg = d, !.f1 = TRUE])
        \/ Live(c) /\ HandingOver(c)
    BY <1>1, <1>2, <1>8 DEF SetupResponse, cuVars
  <2>2. QED BY <1>4, <1>5, <1>6, <1>8, <2>1
<1>9. CASE BearersResponse(d)
  <2>1. \/ ctx' = ctx /\ to_du' = to_du
        \/ Live(c) /\ GenerateReconfiguration(c, [ctx[c] EXCEPT !.cg = d, !.f1 = TRUE])
    BY <1>1, <1>2, <1>9 DEF BearersResponse
  <2>2. QED BY <1>4, <1>5, <2>1
<1>10. CASE MoreBearersResponse(d)
  <2>1. \/ ctx' = ctx /\ to_du' = to_du
        \/ Live(c) /\ GenerateReconfiguration(c, [ctx[c] EXCEPT !.cg = d])
        \/ Live(c) /\ HandingOver(c)
    BY <1>1, <1>2, <1>10 DEF MoreBearersResponse
  <2>2. QED BY <1>4, <1>5, <1>7, <1>10, <2>1
<1>11. QED BY <1>8, <1>9, <1>10

LEMMA OthersAsked ==
    ASSUME Base, IInv, AskedNow, NEW d \in Dus,
           \/ ModificationRequired(d) \/ ModificationResponse(d) \/ ReconfigurationComplete(d)
           \/ ReestablishmentComplete(d) \/ ReleaseRequest(d) \/ ReleaseComplete(d)
    PROVE  AskedNow'
<1>1. PICK m : m = Head(to_cu[d])
  OBVIOUS
<1>2. PICK c : c = m.cu
  OBVIOUS
<1>3. CuTookIt
  BY DEF ModificationRequired, ModificationResponse, ReconfigurationComplete, ReestablishmentComplete,
     ReleaseRequest, ReleaseComplete, Took, CuTookIt
<1>4. \A k, i, a : Silent(Release(k, i, a))
  BY SilentMessages DEF Release
<1>5. CASE ctx' = ctx /\ SaysSilent
  BY <1>3, <1>5, SameAsked
<1>6. Live(c) => c \in CuIds /\ ctx[c].live /\ ctx[c] \in CtxSet
  BY BaseParts DEF Live
<1>7. CASE ModificationRequired(d)
  <2>1. PICK n : n = [t |-> "refuse", cu |-> c, id |-> m.id]
    OBVIOUS
  <2>2. \/ ctx' = ctx /\ (to_du' = to_du \/ to_du' = Queued(to_du, d, n))
        \/ /\ Live(c) /\ ctx' = [ctx EXCEPT ![c].cg = d, ![c].xids = @ \cup {"required"}]
           /\ to_du' = Transfer(to_du, c, 0, "required")
    BY <1>1, <1>2, <1>7, <2>1 DEF ModificationRequired
  <2>3. Silent(n)
    BY <2>1, SilentMessages
  <2>4. SaysSilent
    BY <2>2, <2>3, TransferSilent DEF SaysSilent
  <2>5. CASE Live(c) /\ ctx' = [ctx EXCEPT ![c].cg = d, ![c].xids = @ \cup {"required"}]
    <3>1. PICK r : r = [ctx[c] EXCEPT !.cg = d, !.xids = @ \cup {"required"}]
      OBVIOUS
    <3>2. ctx' = [ctx EXCEPT ![c] = r] /\ r.live = ctx[c].live /\ r.ho = ctx[c].ho /\ r.du = ctx[c].du
      BY <1>6, <2>5, <3>1, BaseParts DEF CtxSet
    <3>3. QED BY <1>3, <1>6, <2>4, <2>5, <3>2, KeepsAsked
  <2>6. QED BY <1>5, <2>2, <2>4, <2>5
<1>8. CASE ModificationResponse(d)
  <2>1. /\ SaysSilent
        /\ \/ ctx' = ctx
           \/ /\ Live(c) /\ HandingOver(c)
              /\ ctx' = [ctx EXCEPT ![c].du = ctx[c].ho.tgt, ![c].id = ctx[c].ho.tgt_id]
    BY <1>1, <1>2, <1>8 DEF ModificationResponse, SaysSilent
  <2>2. CASE Live(c) /\ HandingOver(c)
             /\ ctx' = [ctx EXCEPT ![c].du = ctx[c].ho.tgt, ![c].id = ctx[c].ho.tgt_id]
    <3>1. Only(c) /\ On(ctx[c])
      BY <1>6, <2>2, BaseParts DEF Only, HandingOver, On
    <3>2. AskedKept(c)
      BY <1>6, <2>2, <3>1 DEF AskedKept
    <3>3. QED BY <1>3, <1>6, <2>1, <3>1, <3>2, OneAsked
  <2>3. QED BY <1>5, <2>1, <2>2
<1>9. CASE ReconfigurationComplete(d)
  <2>1. \/ ctx' = ctx /\ to_du' = to_du
        \/ /\ Live(c) /\ ctx' = [ctx EXCEPT ![c].xids = @ \ {m.what}, ![c].ho = NoHo]
           /\ to_du' = to_du \/ to_du' = Queued(to_du, ctx[c].ho.src, Release(c, ctx[c].ho.src_id, FALSE))
    BY <1>1, <1>2, <1>9 DEF ReconfigurationComplete
  <2>2. SaysSilent
    BY <1>4, <2>1 DEF SaysSilent
  <2>3. CASE Live(c) /\ ctx' = [ctx EXCEPT ![c].xids = @ \ {m.what}, ![c].ho = NoHo]
    <3>1. PICK r : r = [ctx[c] EXCEPT !.xids = @ \ {m.what}, !.ho = NoHo]
      OBVIOUS
    <3>2. ctx' = [ctx EXCEPT ![c] = r] /\ r.live = ctx[c].live /\ r.ho = NoHo /\ r.du = ctx[c].du
      BY <1>6, <2>3, <3>1, BaseParts DEF CtxSet
    <3>3. QED BY <1>3, <1>6, <2>2, <2>3, <3>2, KeepsAsked
  <2>4. QED BY <1>5, <2>1, <2>2, <2>3
<1>10. CASE ReestablishmentComplete(d)
  <2>1. \/ ctx' = ctx /\ to_du' = to_du
        \/ /\ Live(c) /\ ctx' = [ctx EXCEPT ![c].xids = (@ \ {"reestab"}) \cup {"reestab_done"}]
           /\ to_du' = Transfer(to_du, c, 0, "reestab_done")
    BY <1>1, <1>2, <1>10 DEF ReestablishmentComplete
  <2>2. SaysSilent
    BY <2>1, TransferSilent DEF SaysSilent
  <2>3. CASE Live(c) /\ ctx' = [ctx EXCEPT ![c].xids = (@ \ {"reestab"}) \cup {"reestab_done"}]
    <3>1. PICK r : r = [ctx[c] EXCEPT !.xids = (@ \ {"reestab"}) \cup {"reestab_done"}]
      OBVIOUS
    <3>2. ctx' = [ctx EXCEPT ![c] = r] /\ r.live = ctx[c].live /\ r.ho = ctx[c].ho /\ r.du = ctx[c].du
      BY <1>6, <2>3, <3>1, BaseParts DEF CtxSet
    <3>3. QED BY <1>3, <1>6, <2>2, <2>3, <3>2, KeepsAsked
  <2>4. QED BY <1>5, <2>1, <2>2, <2>3
<1>11. CASE ReleaseRequest(d)
  <2>1. \/ ctx' = ctx /\ to_du' = to_du
        \/ /\ Live(c) /\ ctx' = [ctx EXCEPT ![c].ho = NoHo]
           /\ to_du' = to_du \/ to_du' = Queued(to_du, d, Release(c, ctx[c].ho.src_id, FALSE))
    BY <1>1, <1>2, <1>11 DEF ReleaseRequest
  <2>2. SaysSilent
    BY <1>4, <2>1 DEF SaysSilent
  <2>3. CASE Live(c) /\ ctx' = [ctx EXCEPT ![c].ho = NoHo]
    <3>1. PICK r : r = [ctx[c] EXCEPT !.ho = NoHo]
      OBVIOUS
    <3>2. ctx' = [ctx EXCEPT ![c] = r] /\ r.live = ctx[c].live /\ r.ho = NoHo /\ r.du = ctx[c].du
      BY <1>6, <2>3, <3>1, BaseParts DEF CtxSet
    <3>3. QED BY <1>3, <1>6, <2>2, <2>3, <3>2, KeepsAsked
  <2>4. QED BY <1>5, <2>1, <2>2, <2>3
<1>12. CASE ReleaseComplete(d)
  <2>1. SaysSilent /\ (ctx' = ctx \/ (Live(c) /\ ctx' = [ctx EXCEPT ![c] = NoCtx]))
    BY <1>1, <1>2, <1>12 DEF ReleaseComplete, Removed, SaysSilent
  <2>2. ~NoCtx.live
    BY DEF NoCtx
  <2>3. QED BY <1>3, <1>5, <1>6, <2>1, <2>2, KeepsAsked
<1>13. QED BY <1>7, <1>8, <1>9, <1>10, <1>11, <1>12

LEMMA NotAsked ==
    ASSUME Base, NEW c \in CuIds, ~BearersAsked(c), NEW e \in Dus
    PROVE  ~Wants(to_cu, to_du, e, c)
<1>1. /\ \A k \in DOMAIN to_du[e] : ~Bearers(to_du[e][k], c)
      /\ \A k \in DOMAIN to_cu[e] : ~Bearers(to_cu[e][k], c)
  BY DEF BearersAsked
<1>2. IsSeq(to_cu[e]) /\ IsSeq(to_du[e])
  BY DEF Base, CuQ, DuQ
<1>3. \A q : IsSeq(q) => DOMAIN q = 1..Len(q)
  BY DEF IsSeq
<1>4. QED BY <1>1, <1>2, <1>3 DEF Wants, Want

LEMMA NotUnderWay ==
    ASSUME Base, NEW c \in CuIds, ~UnderWay(c), NEW e \in Dus
    PROVE  ~Wants(to_cu, to_du, e, c)
<1>1. \A m : Bearers(m, c) => About(m, c)
  BY DEF Bearers, About
<1>2. ~BearersAsked(c)
  BY <1>1 DEF UnderWay, BearersAsked
<1>3. QED BY <1>2, NotAsked

(* A context changes of whose bearers nothing is under way.                 *)
LEMMA QuietAsked ==
    ASSUME Base, IInv, AskedNow, CuTookIt, SaysSilent, NEW c \in CuIds, Only(c),
           \A e \in Dus : ~Wants(to_cu, to_du, e, c)
    PROVE  AskedNow'
<1>1. PICK Q : Q = to_du
  OBVIOUS
<1>2. NoMoreWanted
  <2>1. Q = to_du \/ (\E e, k : Q = Queued(to_du, e, k) /\ Silent(k))
    BY <1>1
  <2>2. to_du' = Q \/ (\E e, k : to_du' = Queued(Q, e, k) /\ Silent(k))
    BY <1>1 DEF SaysSilent
  <2>3. QED BY <2>1, <2>2, CuWants
<1>3. \A e \in Dus : ~Wants(to_cu', to_du', e, c)
  BY <1>2 DEF NoMoreWanted
<1>4. \A k \in CuIds \ {c} : AskedKept(k)
  BY DEF AskedKept, Only
<1>5. QED BY <1>2, <1>3, <1>4, AskedStep

LEMMA FallBackAsked ==
    ASSUME Base, IInv, AskedNow, NEW d \in Dus, Took(d, "reest_req"), CuTakes(d), ~untimely',
           NEW i, NEW old, FallBack(d, i, old)
    PROVE  AskedNow'
<1>1. PICK c : c = NewCuId
  OBVIOUS
<1>2. c \in CuIds
  BY <1>1, CuIdForRequest
<1>3. /\ ctx' = [ctx EXCEPT ![c] = NewCtx(d, i)] /\ to_du' = Transfer(to_du, c, 0, "setup")
      /\ ~UnderWay(c)
  BY <1>1 DEF FallBack
<1>4. Only(c) /\ CuTookIt
  BY <1>2, <1>3, BaseParts DEF Only, CuTookIt, Took
<1>5. SaysSilent
  BY <1>3, TransferSilent DEF SaysSilent
<1>6. \A e \in Dus : ~Wants(to_cu, to_du, e, c)
  BY <1>2, <1>3, NotUnderWay
<1>7. QED BY <1>2, <1>4, <1>5, <1>6, QuietAsked

LEMMA ReestablishmentRequestAsked ==
    ASSUME Base, IInv, AskedNow, NEW d \in Dus, ReestablishmentRequest(d), ~untimely'
    PROVE  AskedNow'
<1>1. PICK m : m = Head(to_cu[d])
  OBVIOUS
<1>2. PICK c : c = CHOOSE k \in Sought(d, m.pci, m.rnti) : TRUE
  OBVIOUS
<1>3. Took(d, "reest_req") /\ CuTakes(d) /\ CuTookIt
  BY DEF ReestablishmentRequest, CuTookIt, Took
<1>4. CASE FallBack(d, m.id, {}) \/ FallBack(d, m.id, {c})
  BY <1>1, <1>3, <1>4, FallBackAsked
<1>5. ASSUME Sought(d, m.pci, m.rnti) # {} PROVE c \in CuIds /\ ctx[c].live /\ ctx[c] \in CtxSet
  BY <1>2, <1>5, SoughtOK, BaseParts
<1>6. CASE /\ Sought(d, m.pci, m.rnti) # {} /\ OnSource(c, m.pci)
           /\ ctx' = [ctx EXCEPT ![c] = [RolledBack(c) EXCEPT !.id = m.id, !.xids = @ \cup {"reestab"}]]
           /\ to_du' = Transfer(Cancelled(c), c, m.rnti, "reestab")
  <2>1. c \in CuIds /\ ctx[c].live /\ On(ctx[c])
    BY <1>5, <1>6 DEF OnSource, HandingOver, On
  <2>2. Only(c)
    BY <1>6, <2>1, BaseParts DEF Only
  <2>3. \A k \in CuIds : AskedKept(k)
    BY <2>1, <2>2 DEF AskedKept, Only
  <2>4. PICK Q : Q = Cancelled(c)
    OBVIOUS
  <2>5. \E e, k : Q = Queued(to_du, e, k) /\ Silent(k)
    <3>1. Silent(Release(c, ctx[c].ho.tgt_id, FALSE))
      BY SilentMessages DEF Release
    <3>2. QED BY <2>4, <3>1 DEF Cancelled
  <2>6. to_du' = Q \/ (\E e, k : to_du' = Queued(Q, e, k) /\ Silent(k))
    BY <1>6, <2>4, TransferSilent
  <2>7. NoMoreWanted
    BY <1>3, <2>5, <2>6, CuWants
  <2>8. QED BY <2>3, <2>7, AskedStep
<1>7. CASE /\ Sought(d, m.pci, m.rnti) # {}
           /\ ctx' = [ctx EXCEPT ![c] = [ctx[c] EXCEPT !.id = m.id, !.xids = @ \cup {"reestab"}]]
           /\ to_du' = Transfer(to_du, c, m.rnti, "reestab")
  <2>1. PICK r : r = [ctx[c] EXCEPT !.id = m.id, !.xids = @ \cup {"reestab"}]
    OBVIOUS
  <2>2. r.live = ctx[c].live /\ r.ho = ctx[c].ho /\ r.du = ctx[c].du
    BY <1>5, <1>7, <2>1 DEF CtxSet
  <2>3. SaysSilent
    BY <1>7, TransferSilent DEF SaysSilent
  <2>4. QED BY <1>3, <1>5, <1>7, <2>1, <2>2, <2>3, KeepsAsked
<1>8. QED BY <1>1, <1>2, <1>4, <1>6, <1>7 DEF ReestablishmentRequest

LEMMA LostConnectionAsked ==
    ASSUME Base, IInv, AskedNow, NEW d \in Dus, LostConnection(d), ~untimely'
    PROVE  AskedNow'
<1>1. /\ to_cu[d] # <<>> /\ CuTakes(d) /\ Head(to_cu[d]).t = "lost" /\ to_du' = to_du /\ up' = up
      /\ dus' = dus \ {d} /\ CuTookIt
  BY DEF LostConnection, Took, duVars, CuTookIt
<1>2. \A c \in CuIds : ~On(ctx[c])
  BY DEF LostConnection, HandingOver, On
<1>3. to_cu'[d] = <<>> /\ to_du'[d] = <<>>
  <2>1. NetInv'
    BY <1>1, TakeKeeps DEF IInv
  <2>2. to_cu'[d] = <<>>
    BY <1>1, <2>1 DEF NetInv, Channel
  <2>3. d \notin up
    <3>1. Channel(to_cu[d], d, up, dus) /\ IsSeq(to_cu[d])
      BY DEF IInv, NetInv, Base, CuQ
    <3>2. Head(to_cu[d]) = to_cu[d][1] /\ 1 \in 1..Len(to_cu[d])
      BY <1>1, <3>1, SeqTail
    <3>3. QED BY <1>1, <3>1, <3>2 DEF Channel
  <2>4. QED BY <1>1, <2>2, <2>3 DEF Base, DuQ
<1>4. ASSUME NEW c \in CuIds
      PROVE  /\ ctx'[c].live = ctx[c].live /\ ~On(ctx'[c])
             /\ ctx'[c].du = IF ctx[c].du = d THEN NoDu ELSE ctx[c].du
  <2>1. ctx[c] \in CtxSet
    BY BaseParts
  <2>2. ctx'[c] = [ctx[c] EXCEPT !.ho = NoHo, !.du = IF ctx[c].du = d THEN NoDu ELSE ctx[c].du]
    BY <2>1 DEF LostConnection, CtxSet
  <2>3. QED BY <2>1, <2>2 DEF CtxSet, On
<1>5. ASSUME NEW c \in CuIds, NEW e \in Dus, ctx'[c].live, Wants(to_cu', to_du', e, c)
      PROVE  ~On(ctx'[c]) /\ ctx'[c].du = e
  <2>1. ~Want(<<>>, c)
    BY DEF Want
  <2>2. e # d
    BY <1>3, <1>5, <2>1 DEF Wants
  <2>3. Wants(to_cu, to_du, e, c)
    BY <1>1, <1>5, TookWants DEF Wants
  <2>4. ctx[c].du = e
    BY <1>4, <1>5, <2>3 DEF AskedNow
  <2>5. QED BY <1>4, <2>2, <2>4
<1>6. QED BY <1>5 DEF AskedNow

LEMMA CuActionsAsked ==
    ASSUME Base, IInv, AskedNow, NEW c \in CuIds, ~untimely',
           \/ \E t \in Dus : TriggerF1Ho(c, t)
           \/ ReleaseCommand(c) \/ AmfReleases(c) \/ ModifySession(c) \/ Register(c)
           \/ SetupSession(c)
    PROVE  AskedNow'
<1>0. ctx[c] \in CtxSet
  BY BaseParts
<1>1. to_cu' = to_cu /\ CuTookIt
  BY DEF TriggerF1Ho, ReleaseCommand, AmfReleases, ModifySession, Register, SetupSession, netVars, CuTookIt
<1>2. ASSUME NEW t \in Dus, TriggerF1Ho(c, t) PROVE AskedNow'
  <2>1. PICK m : m = [t |-> "setup", cu |-> c]
    OBVIOUS
  <2>2. Only(c)
    BY <1>2, BaseParts DEF TriggerF1Ho, Only
  <2>3. to_du' = Queued(to_du, t, m) /\ ~BearersAsked(c)
    BY <1>2, <2>1 DEF TriggerF1Ho
  <2>4. SaysSilent
    BY <2>1, <2>3, SilentMessages DEF SaysSilent
  <2>5. QED BY <1>1, <2>2, <2>3, <2>4, NotAsked, QuietAsked
<1>3. CASE ReleaseCommand(c) /\ ctx[c].du # NoDu
  <2>1. /\ ctx' = [ctx EXCEPT ![c].an_release = TRUE]
        /\ to_du' = Queued(to_du, ctx[c].du, Release(c, ctx[c].id, TRUE))
    BY <1>3 DEF ReleaseCommand
  <2>2. PICK r : r = [ctx[c] EXCEPT !.an_release = TRUE]
    OBVIOUS
  <2>3. ctx' = [ctx EXCEPT ![c] = r] /\ r.live = ctx[c].live /\ r.ho = ctx[c].ho /\ r.du = ctx[c].du
    BY <1>0, <2>1, <2>2, BaseParts DEF CtxSet
  <2>4. SaysSilent
    <3>1. Silent(Release(c, ctx[c].id, TRUE))
      BY SilentMessages DEF Release
    <3>2. QED BY <2>1, <3>1 DEF SaysSilent
  <2>5. QED BY <1>1, <2>3, <2>4, KeepsAsked
<1>4. CASE ReleaseCommand(c) /\ ctx[c].du = NoDu
  <2>1. ctx' = [ctx EXCEPT ![c] = NoCtx] /\ to_du' = to_du /\ ~NoCtx.live
    BY <1>4 DEF ReleaseCommand, Removed, NoCtx
  <2>2. QED BY <1>1, <2>1, KeepsAsked DEF SaysSilent
<1>5. CASE AmfReleases(c)
  BY <1>1, <1>5, SameAsked DEF AmfReleases, netVars, SaysSilent
<1>6. CASE ModifySession(c)
  <2>1. /\ ctx' = [ctx EXCEPT ![c].xids = @ \cup {"session"}]
        /\ to_du' = Transfer(to_du, c, 0, "session")
    BY <1>6 DEF ModifySession
  <2>2. PICK r : r = [ctx[c] EXCEPT !.xids = @ \cup {"session"}]
    OBVIOUS
  <2>3. ctx' = [ctx EXCEPT ![c] = r] /\ r.live = ctx[c].live /\ r.ho = ctx[c].ho /\ r.du = ctx[c].du
    BY <1>0, <2>1, <2>2, BaseParts DEF CtxSet
  <2>4. SaysSilent
    BY <2>1, TransferSilent DEF SaysSilent
  <2>5. QED BY <1>1, <2>3, <2>4, KeepsAsked
<1>7. CASE Register(c)
  <2>1. ctx' = [ctx EXCEPT ![c].sec = TRUE] /\ to_du' = to_du
    BY <1>7 DEF Register, netVars
  <2>2. PICK r : r = [ctx[c] EXCEPT !.sec = TRUE]
    OBVIOUS
  <2>3. ctx' = [ctx EXCEPT ![c] = r] /\ r.live = ctx[c].live /\ r.ho = ctx[c].ho /\ r.du = ctx[c].du
    BY <1>0, <2>1, <2>2, BaseParts DEF CtxSet
  <2>4. QED BY <1>1, <2>1, <2>3, KeepsAsked DEF SaysSilent
<1>8. CASE SetupSession(c)
  <2>1. PICK m : m = [t |-> IF ctx[c].f1 THEN "more_bearers" ELSE "bearers", cu |-> c, id |-> ctx[c].id]
    OBVIOUS
  <2>2. ctx' = ctx /\ ~On(ctx[c]) /\ to_du' = Queued(to_du, ctx[c].du, m)
    BY <1>8, <2>1 DEF SetupSession, cuVars, HandingOver, On
  <2>3. \A k : Bearers(m, k) => k = c
    BY <2>1 DEF Bearers
  <2>4. ASSUME NEW k \in CuIds, NEW e \in Dus, ctx[k].live, Wants(to_cu', to_du', e, k)
        PROVE  ~On(ctx[k]) /\ ctx[k].du = e
    <3>1. Assoc(to_du)
      BY DEF Base, DuQ, Assoc
    <3>2. PICK Q2 : Q2 = to_du'
      OBVIOUS
    <3>3. Q2 = Queued(to_du, ctx[c].du, m) /\ (Want(Q2[e], k) \/ Want(to_cu[e], k))
      BY <1>1, <2>2, <2>4, <3>2 DEF Wants
    <3>4. Wants(to_cu, to_du, e, k) \/ (e = ctx[c].du /\ Bearers(m, k))
      BY <3>1, <3>3, QueuedWants DEF Wants
    <3>5. QED BY <2>2, <2>3, <2>4, <3>4 DEF AskedNow
  <2>5. QED BY <2>2, <2>4 DEF AskedNow
<1>9. QED BY <1>2, <1>3, <1>4, <1>5, <1>6, <1>7, <1>8

LEMMA InitAsked == Init => Asked
<1> SUFFICES ASSUME Init PROVE AskedNow
  BY DEF Asked
<1>1. \A c : ~Want(<<>>, c)
  BY DEF Want
<1>2. \A d \in Dus : to_cu[d] = <<>> /\ to_du[d] = <<>>
  BY DEF Init
<1>3. QED BY <1>1, <1>2 DEF AskedNow, Wants

(* The serving DU replaces the cell group of a UE that it is not about to   *)
(* hand over.                                                               *)
LEMMA RenewedTurn ==
    ASSUME Base, IInv, InTurnNow, NEW d \in Dus, to_cu[d] # <<>>, CuTakes(d), TookOne,
           mac' = mac, ue' = ue, NEW c \in CuIds, Only(c), SameStage(ctx[c], ctx'[c]),
           ctx'[c].id = ctx[c].id, ctx[c].du = d, ctx'[c].cg = d,
           ~(On(ctx[c]) /\ ctx[c].ho.src = d),
           NEW what, what # "reestab", to_du' = Transfer(to_du, c, 0, what)
    PROVE  InTurnNow'
<1>1. CtxOK(ctx[c], c, mac) /\ d # NoDu
  BY DusAssumption DEF InTurnNow, InTurn, Fits
<1>2. CtxOK(ctx'[c], c, mac)
  <2>1. /\ ctx'[c].live = ctx[c].live /\ ctx'[c].ho = ctx[c].ho /\ ctx'[c].du = d
        /\ (On(ctx'[c]) <=> On(ctx[c]))
    BY DEF SameStage, On
  <2>2. On(ctx[c]) => ctx[c].ho.tgt = d /\ ctx[c].ho.tgt_id # 0
    BY <1>1 DEF CtxOK
  <2>3. QED BY <1>1, <2>1, <2>2 DEF CtxOK
<1>3. ASSUME NEW e \in Dus PROVE LinkOK(ctx'[c], c, e, to_cu'[e], to_du[e])
  <2>1. LinkOK(ctx[c], c, e, to_cu'[e], to_du[e])
    BY TakenKinds
  <2>2. QED BY <2>1, StageLink
<1>4. /\ ctx'[c].id \in {ctx[c].id, ctx[c].ho.tgt_id, 0}
      /\ ctx'[c].ho.tgt_id \in {ctx[c].ho.tgt_id, 0}
      /\ On(ctx'[c]) => On(ctx[c]) /\ ctx'[c].ho = ctx[c].ho
  BY DEF SameStage, On
<1>5. to_du' = to_du \/ \E e, m : to_du' = Queued(to_du, e, m) /\ Plain(m)
  BY TransferPlain
<1>6. QED BY <1>2, <1>3, <1>4, <1>5, OneCtxTurn

(* An answer about bearers, which were asked for with no handover on.       *)
LEMMA BearersTurn ==
    ASSUME Base, IInv, InTurnNow, AskedNow, NEW d \in Dus, BearersResponse(d) \/ MoreBearersResponse(d)
    PROVE  InTurnNow' /\ (misfit' => misfit) /\ exit' = exit
<1>1. PICK m : m = Head(to_cu[d])
  OBVIOUS
<1>2. PICK c : c = m.cu
  OBVIOUS
<1>3. /\ to_cu[d] # <<>> /\ CuTakes(d) /\ m.t \in {"bearers_resp", "more_bearers_resp"} /\ TookOne
      /\ mac' = mac /\ ue' = ue
  BY <1>1, TookNoCompletion DEF BearersResponse, MoreBearersResponse, Took, duVars
<1>4. CASE ~Live(c)
  <2>1. ctx' = ctx /\ to_du' = to_du /\ misfit' = misfit /\ exit' = exit
    BY <1>1, <1>2, <1>4 DEF BearersResponse, MoreBearersResponse
  <2>2. QED BY <1>3, <2>1, SameCtxTurn
<1>5. CASE Live(c)
  <2>1. c \in CuIds /\ ctx[c].live /\ ctx[c] \in CtxSet
    BY <1>5, BaseParts DEF Live
  <2>2. ~On(ctx[c]) /\ ctx[c].du = d /\ d # NoDu
    <3>1. Bearers(m, c) /\ IsSeq(to_cu[d])
      BY <1>2, <1>3 DEF Bearers, Base, CuQ
    <3>2. Wants(to_cu, to_du, d, c)
      BY <1>1, <1>3, <3>1, WantOne DEF Wants
    <3>3. QED BY <2>1, <3>2, DusAssumption DEF AskedNow
  <2>3. \/ GenerateReconfiguration(c, [ctx[c] EXCEPT !.cg = d])
        \/ GenerateReconfiguration(c, [ctx[c] EXCEPT !.cg = d, !.f1 = TRUE])
    BY <1>1, <1>2, <1>5, <2>2 DEF BearersResponse, MoreBearersResponse, HandingOver, On
  <2>4. PICK r : /\ GenerateReconfiguration(c, r)
                 /\ r \in {[ctx[c] EXCEPT !.cg = d], [ctx[c] EXCEPT !.cg = d, !.f1 = TRUE]}
    BY <2>3
  <2>5. /\ r \in CtxSet /\ r.live = ctx[c].live /\ r.du = d /\ r.id = ctx[c].id /\ r.ho = ctx[c].ho
        /\ r.cg = d /\ r.xids = ctx[c].xids
    <3>1. PICK k : k = ctx[c]
      OBVIOUS
    <3>2. k \in CtxSet /\ k.du = d /\ r \in {[k EXCEPT !.cg = d], [k EXCEPT !.cg = d, !.f1 = TRUE]}
      BY <2>1, <2>2, <2>4, <3>1
    <3>3. CASE r = [k EXCEPT !.cg = d]
      BY ONLY d \in Dus, <3>1, <3>2, <3>3 DEF CtxSet, AnyDu
    <3>4. CASE r = [k EXCEPT !.cg = d, !.f1 = TRUE]
      BY ONLY d \in Dus, <3>1, <3>2, <3>4 DEF CtxSet, AnyDu
    <3>5. QED BY <3>2, <3>3, <3>4
  <2>6. PICK s : s = [r EXCEPT !.xids = r.xids \cup {"session"}]
    OBVIOUS
  <2>7. /\ ctx' = [ctx EXCEPT ![c] = s] /\ to_du' = Transfer(to_du, c, 0, "session")
        /\ Misfits(c) /\ exit' = exit
    BY <2>2, <2>4, <2>5, <2>6 DEF GenerateReconfiguration
  <2>8. /\ s.live = r.live /\ s.du = r.du /\ s.id = r.id /\ s.ho = r.ho /\ s.cg = r.cg
        /\ s.xids = r.xids \cup {"session"}
    BY <2>5, <2>6 DEF CtxSet
  <2>9. Only(c) /\ ctx'[c] = s
    BY <2>1, <2>7, BaseParts DEF Only
  <2>10. /\ SameStage(ctx[c], ctx'[c]) /\ ctx'[c].id = ctx[c].id /\ ctx'[c].cg = d
         /\ ctx'[c].du = d
    BY <2>2, <2>5, <2>8, <2>9 DEF SameStage
  <2>11. InTurnNow'
    BY <1>3, <2>1, <2>2, <2>7, <2>9, <2>10, RenewedTurn
  <2>12. QED BY <2>7, <2>10, <2>11 DEF Misfits
<1>6. QED BY <1>4, <1>5

LEMMA ModificationRequiredTurn ==
    ASSUME Base, IInv, InTurnNow, NEW d \in Dus, ModificationRequired(d), ~untimely'
    PROVE  InTurnNow' /\ (misfit' => misfit)
<1>1. PICK m : m = Head(to_cu[d])
  OBVIOUS
<1>2. PICK c : c = m.cu
  OBVIOUS
<1>3. /\ to_cu[d] # <<>> /\ CuTakes(d) /\ TookOne /\ mac' = mac /\ ue' = ue
  BY TookNoCompletion DEF ModificationRequired, Took, duVars
<1>4. PICK n : n = [t |-> "refuse", cu |-> c, id |-> m.id]
  OBVIOUS
<1>5. CASE ctx' = ctx /\ misfit' = misfit /\ (to_du' = to_du \/ to_du' = Queued(to_du, d, n))
  <2>1. Neutral(n)
    BY <1>4, NeutralMessages
  <2>2. Plain(n)
    BY <2>1 DEF Plain, Neutral
  <2>3. QED BY <1>3, <1>5, <2>2, SameCtxTurn
<1>6. CASE /\ Live(c) /\ ~(HandingOver(c) /\ ctx[c].ho.src = d) /\ d = ctx[c].du /\ Misfits(c)
           /\ ctx' = [ctx EXCEPT ![c].cg = d, ![c].xids = @ \cup {"required"}]
           /\ to_du' = Transfer(to_du, c, 0, "required")
  <2>1. c \in CuIds /\ ctx[c] \in CtxSet /\ ~(On(ctx[c]) /\ ctx[c].ho.src = d)
    BY <1>6, BaseParts DEF Live, HandingOver, On
  <2>2. Only(c) /\ ctx'[c] = [ctx[c] EXCEPT !.cg = d, !.xids = @ \cup {"required"}]
    BY <1>6, <2>1, BaseParts DEF Only
  <2>3. /\ ctx'[c].live = ctx[c].live /\ ctx'[c].ho = ctx[c].ho /\ ctx'[c].du = ctx[c].du
        /\ ctx'[c].id = ctx[c].id /\ ctx'[c].cg = d /\ ctx'[c].xids = ctx[c].xids \cup {"required"}
    <3>1. PICK k : k = ctx[c]
      OBVIOUS
    <3>2. PICK s : s = ctx'[c]
      OBVIOUS
    <3>3. k \in CtxSet /\ s = [k EXCEPT !.cg = d, !.xids = k.xids \cup {"required"}]
      BY <2>1, <2>2, <3>1, <3>2
    <3>4. /\ s.live = k.live /\ s.ho = k.ho /\ s.du = k.du /\ s.id = k.id /\ s.cg = d
          /\ s.xids = k.xids \cup {"required"}
      BY ONLY <3>3 DEF CtxSet
    <3>5. QED BY ONLY <3>1, <3>2, <3>4
  <2>4. SameStage(ctx[c], ctx'[c])
    BY <2>3 DEF SameStage
  <2>5. InTurnNow'
    BY <1>3, <1>6, <2>1, <2>2, <2>3, <2>4, RenewedTurn
  <2>6. QED BY <1>6, <2>3, <2>5 DEF Misfits
<1>7. QED BY <1>1, <1>2, <1>4, <1>5, <1>6 DEF ModificationRequired

LEMMA InitTurn == Init => Timely
<1> SUFFICES ASSUME Init PROVE InTurnNow /\ ~misfit
  BY DEF Timely, InTurnNow
<1>1. Home \in Dus /\ NoDu \notin Dus /\ Home # NoDu /\ 1 \in Ids /\ CuIds = Ids
  BY DusAssumption, BoundAssumption, IdsFinite DEF Ids
<1>2. ~misfit /\ ue.id = 1 /\ ue.next = Nowhere /\ Nowhere.id = 0 /\ Nowhere.why # "reest"
  BY DEF Init, Nowhere
<1>3. \A d \in Dus : to_cu[d] = <<>> /\ to_du[d] = <<>>
  BY DEF Init
<1>4. \A d \in Dus : \A t, x : ~Has(to_cu[d], to_du[d], t, x)
  BY <1>3, NoneInEmpty DEF Has
<1>5. MadeIn(mac, Home, 1)
  BY <1>1 DEF Init, MadeIn
<1>6. ASSUME NEW c \in CuIds
      PROVE  ~On(ctx[c]) /\ CtxOK(ctx[c], c, mac)
  <2>1. CASE c = 1
    <3>1. PICK f1 \in BOOLEAN : ctx[c] = [NewCtx(Home, 1) EXCEPT !.sec = TRUE, !.cg = Home, !.f1 = f1]
      BY <1>1, <2>1 DEF Init
    <3>2. ctx[c].du = Home /\ ctx[c].id = 1 /\ ctx[c].cg = Home /\ ctx[c].ho = NoHo
      BY <3>1 DEF NewCtx, NoCtx
    <3>3. QED BY <1>5, <3>2 DEF CtxOK, On
  <2>2. CASE c # 1
    <3>1. ctx[c] = NoCtx
      BY <2>2 DEF Init
    <3>2. QED BY <3>1, NoHoOK DEF CtxOK
  <2>3. QED BY <2>1, <2>2
<1>7. Fits(ctx, mac) /\ Arrived(ue, ctx, to_cu)
  BY <1>6 DEF Fits, Arrived
<1>8. Links(ctx, to_cu, to_du)
  BY <1>4, QuietLink DEF Links
<1>9. Turns(ue, to_cu, to_du)
  BY <1>4, NoTurns
<1>10. Fresh(ue, ctx, to_cu, to_du)
  BY <1>2, <1>4, NoneOnce DEF Fresh, Some
<1>11. QED BY <1>2, <1>7, <1>8, <1>9, <1>10 DEF InTurnNow, InTurn

(* Once something was out of turn, that stays on record.                    *)
LEMMA StaysUntimely == [Next]_vars /\ ~untimely' => ~untimely
<1> SUFFICES ASSUME [Next]_vars, ~untimely' PROVE ~untimely
  OBVIOUS
<1>1. ASSUME NEW d \in Dus, CuReceives(d) PROVE ~untimely
  <2>1. CASE ReestablishmentRequest(d)
    BY <2>1 DEF ReestablishmentRequest, FallBack
  <2>2. CASE ReleaseRequest(d)
    BY <2>2 DEF ReleaseRequest, history
  <2>3. CASE ReleaseComplete(d)
    BY <2>3 DEF ReleaseComplete, Removed
  <2>4. CASE SetupResponse(d) \/ BearersResponse(d) \/ MoreBearersResponse(d)
             \/ ModificationResponse(d) \/ ReestablishmentComplete(d)
    BY <2>4 DEF SetupResponse, BearersResponse, MoreBearersResponse, ModificationResponse,
       ReestablishmentComplete, history
  <2>5. CASE ReconfigurationComplete(d) \/ LostConnection(d) \/ ModificationRequired(d)
    BY <2>5 DEF ReconfigurationComplete, LostConnection, ModificationRequired
  <2>6. QED BY <1>1, <2>1, <2>2, <2>3, <2>4, <2>5 DEF CuReceives
<1>2. ASSUME NEW d \in Dus, DuReceives(d) \/ DuLost(d) \/ UeReestablishes(d) PROVE ~untimely
  BY <1>2 DEF DuReceives, DuSetupRequest, DuModificationRequest, DuReleaseCommand, DuDlRrc,
     DuBearersRequest, DuMoreBearersRequest, DuModificationRefuse, DuLost, UeReestablishes, history
<1>3. ASSUME NEW c \in CuIds,
             \/ \E t \in Dus : TriggerF1Ho(c, t)
             \/ ReleaseCommand(c) \/ AmfReleases(c) \/ SetupSession(c) \/ ModifySession(c) \/ Register(c)
      PROVE  ~untimely
  BY <1>3 DEF TriggerF1Ho, ReleaseCommand, Removed, AmfReleases, SetupSession, ModifySession, Register,
     history
<1>4. ASSUME NEW i \in Ids, UlFailure(i) \/ ReleaseTimerExpires(i) PROVE ~untimely
  BY <1>4 DEF UlFailure, ReleaseTimerExpires, history
<1>5. CASE UeArrives \/ UeLosesRadio \/ UeGivesUp \/ UeReturns
  BY <1>5 DEF UeArrives, UeLosesRadio, UeGivesUp, UeReturns, history
<1>6. CASE UNCHANGED vars
  BY <1>6 DEF vars, history
<1>7. QED BY <1>1, <1>2, <1>3, <1>4, <1>5, <1>6 DEF Next, Step

LEMMA NextKeepsAsked == Base /\ IInv /\ Asked /\ [Next]_vars => Asked'
<1> SUFFICES ASSUME Base, IInv, Asked, [Next]_vars, ~untimely' PROVE AskedNow'
  BY DEF Asked
<1>. AskedNow
  BY StaysUntimely DEF Asked
<1>1. ASSUME NEW d \in Dus, CuReceives(d) PROVE AskedNow'
  BY <1>1, AnswersAsked, OthersAsked, ReestablishmentRequestAsked, LostConnectionAsked DEF CuReceives
<1>2. ASSUME NEW d \in Dus, DuReceives(d) \/ DuLost(d) \/ UeReestablishes(d) PROVE AskedNow'
  BY <1>2, DuStepsAsked
<1>3. ASSUME NEW c \in CuIds,
             \/ \E t \in Dus : TriggerF1Ho(c, t)
             \/ ReleaseCommand(c) \/ AmfReleases(c) \/ SetupSession(c) \/ ModifySession(c) \/ Register(c)
      PROVE  AskedNow'
  BY <1>3, CuActionsAsked
<1>4. CASE \/ \E i \in Ids : UlFailure(i) \/ ReleaseTimerExpires(i)
           \/ UeArrives \/ UeLosesRadio \/ UeGivesUp \/ UeReturns
  BY <1>4, UeAndTimersAsked
<1>5. CASE UNCHANGED vars
  <2>1. ctx' = ctx /\ to_cu' = to_cu /\ to_du' = to_du
    BY <1>5 DEF vars, cuVars, netVars
  <2>2. QED BY <2>1 DEF AskedNow
<1>6. QED BY <1>1, <1>2, <1>3, <1>4, <1>5 DEF Next, Step

LEMMA NextKeepsTimely == Base /\ IInv /\ Asked /\ Timely /\ [Next]_vars => Timely'
<1> SUFFICES ASSUME Base, IInv, Asked, Timely, [Next]_vars, ~untimely' PROVE InTurnNow' /\ ~misfit'
  BY DEF Timely, InTurnNow
<1>. InTurnNow /\ ~misfit /\ AskedNow
  BY StaysUntimely DEF Timely, InTurnNow, Asked
<1>1. ASSUME NEW d \in Dus, CuReceives(d) PROVE InTurnNow' /\ ~misfit'
  <2>1. CASE SetupResponse(d)
    BY <2>1, SetupResponseTurn
  <2>2. CASE ReestablishmentRequest(d)
    BY <2>2, ReestablishmentRequestTurn
  <2>3. CASE ReestablishmentComplete(d)
    BY <2>3, ReestablishmentCompleteTurn
  <2>4. CASE ModificationResponse(d)
    <3>1. misfit' = misfit
      BY <2>4 DEF ModificationResponse, history
    <3>2. QED BY <2>4, <3>1, ModificationResponseTurn
  <2>5. CASE ReconfigurationComplete(d)
    <3>1. misfit' = misfit
      BY <2>5 DEF ReconfigurationComplete
    <3>2. QED BY <2>5, <3>1, ReconfigurationCompleteTurn
  <2>6. CASE ReleaseRequest(d)
    <3>1. misfit' = misfit
      BY <2>6 DEF ReleaseRequest, history
    <3>2. QED BY <2>6, <3>1, ReleaseRequestTurn
  <2>7. CASE ReleaseComplete(d)
    <3>1. misfit' = misfit
      BY <2>7 DEF ReleaseComplete
    <3>2. QED BY <2>7, <3>1, ReleaseCompleteTurn
  <2>8. CASE LostConnection(d)
    <3>1. misfit' = misfit
      BY <2>8 DEF LostConnection
    <3>2. QED BY <2>8, <3>1, LostConnectionTurn
  <2>9. CASE BearersResponse(d) \/ MoreBearersResponse(d)
    BY <2>9, BearersTurn
  <2>10. CASE ModificationRequired(d)
    BY <2>10, ModificationRequiredTurn
  <2>11. QED BY <1>1, <2>1, <2>2, <2>3, <2>4, <2>5, <2>6, <2>7, <2>8, <2>9, <2>10 DEF CuReceives
<1>2. ASSUME NEW d \in Dus, DuReceives(d) \/ DuLost(d) \/ UeReestablishes(d)
      PROVE  InTurnNow' /\ ~misfit'
  <2>1. misfit' = misfit
    BY <1>2 DEF DuReceives, DuSetupRequest, DuModificationRequest, DuReleaseCommand, DuDlRrc,
       DuBearersRequest, DuMoreBearersRequest, DuModificationRefuse, DuLost, UeReestablishes, history
  <2>2. CASE DuReceives(d)
    BY <2>1, <2>2, DuSetupRequestTurn, DuModificationRequestTurn, DuReleaseCommandTurn, DuDlRrcTurn,
       DuAnswersTurn DEF DuReceives
  <2>3. CASE DuLost(d)
    <3>1. Dies(d) /\ ctx' = ctx
      BY <2>3 DEF DuLost, cuVars
    <3>2. QED BY <2>1, <3>1, DiesTurn
  <2>4. CASE UeReestablishes(d)
    BY <2>1, <2>4, UeReestablishesTurn
  <2>5. QED BY <1>2, <2>2, <2>3, <2>4
<1>3. ASSUME NEW c \in CuIds,
             \/ \E t \in Dus : TriggerF1Ho(c, t)
             \/ ReleaseCommand(c) \/ AmfReleases(c) \/ SetupSession(c) \/ ModifySession(c) \/ Register(c)
      PROVE  InTurnNow' /\ ~misfit'
  BY <1>3, TriggerTurn, CuActionsTurn
<1>4. ASSUME NEW i \in Ids, UlFailure(i) \/ ReleaseTimerExpires(i) PROVE InTurnNow' /\ ~misfit'
  <2>1. misfit' = misfit
    BY <1>4 DEF UlFailure, ReleaseTimerExpires, history
  <2>2. QED BY <1>4, <2>1, TimersTurn
<1>5. CASE UeArrives \/ UeLosesRadio \/ UeGivesUp \/ UeReturns
  <2>1. misfit' = misfit
    BY <1>5 DEF UeArrives, UeLosesRadio, UeGivesUp, UeReturns, history
  <2>2. QED BY <1>5, <2>1, UeStepsTurn, UeReturnsTurn
<1>6. CASE UNCHANGED vars
  BY <1>6 DEF InTurnNow, vars, cuVars, netVars, duVars, history
<1>7. QED BY <1>1, <1>2, <1>3, <1>4, <1>5, <1>6 DEF Next, Step

LEMMA TimelyHolds == Spec => [](Timely /\ Asked)
<1>1. Init => Timely /\ Asked
  BY InitTurn, InitAsked
<1>2. (Base /\ IInv) /\ (Timely /\ Asked) /\ [Next]_vars => (Timely /\ Asked)'
  BY NextKeepsTimely, NextKeepsAsked
<1>3. QED BY <1>1, <1>2, BaseHolds, PTL DEF Spec

(* As long as nothing was out of turn, the DU UE ID under which the CU      *)
(* addresses a UE is one that the DU which it sends to has given out.       *)
THEOREM IdsBelongTogether == Spec => []IdIsItsDus
<1>1. Timely => IdIsItsDus
  BY DEF Timely, InTurn, Fits, CtxOK, IdIsItsDus, Live, MadeBy, MadeIn
<1>2. QED BY <1>1, TimelyHolds, PTL

(* As long as nothing was out of turn, every reconfiguration other than a   *)
(* handover's that carries a CellGroupConfig carries that of the DU which   *)
(* serves the UE.                                                           *)
THEOREM CellGroupsFit == Spec => []CellGroupFits
<1>1. Timely => CellGroupFits
  BY DEF Timely, CellGroupFits
<1>2. QED BY <1>1, TimelyHolds, PTL

(* As long as nothing was out of turn, an answer finds a DU, and no answer  *)
(* about bearers is taken for a handover's.                                 *)
ExitTimely == exit \in {"no_du", "no_crnti"} => untimely
LEMMA NextKeepsExitTimely ==
    Base /\ IInv /\ Timely /\ Asked /\ ExitTimely /\ [Next]_vars => ExitTimely'
<1> SUFFICES ASSUME Base, IInv, Timely, Asked, ExitTimely, [Next]_vars, ~untimely'
             PROVE  exit' \notin {"no_du", "no_crnti"}
  BY DEF ExitTimely
<1>1. InTurnNow /\ AskedNow /\ exit \notin {"no_du", "no_crnti"}
  BY StaysUntimely DEF Timely, InTurnNow, Asked, ExitTimely
<1>2. ASSUME NEW d \in Dus, Answer(d) PROVE exit' = exit
  BY <1>1, <1>2, SetupResponseTurn, BearersTurn DEF Answer
<1>3. QED BY <1>1, <1>2, Exits

(* Neither the F1 data of a UE nor its handover context names a DU that     *)
(* rrc_CU_process_f1_lost_connection has removed, though requests, handovers *)
(* and losses of any number of DUs cross; and as long as nothing was out of *)
(* turn, the CU dies neither of a reconfiguration of a UE without DU        *)
(* (DevAssert) nor of the C-RNTI that an answer about bearers does not have. *)
THEOREM ContextsNameLiveDus == Spec => []NoDanglingDu
<1>1. Init => ExitTimely
  BY DEF Init, ExitTimely
<1>2. (Base /\ IInv) /\ (Timely /\ Asked) /\ ExitTimely /\ [Next]_vars => ExitTimely'
  BY NextKeepsExitTimely
<1>3. Spec => []ExitTimely
  BY <1>1, <1>2, BaseHolds, TimelyHolds, PTL DEF Spec
<1>4. IInv /\ ExitTimely => NoDanglingDu
  BY DEF IInv, CtxInv, Sound, NoDanglingDu, HandingOver, ExitTimely
<1>5. QED BY <1>3, <1>4, BaseHolds, PTL

-----------------------------------------------------------------------------
(* The contexts that reestablishments take over.                            *)

(* A message to a DU that ends its context i, or that announces it to the   *)
(* CU.                                                                      *)
Ends(m, i) == (m.t = "release" /\ m.id = i) \/ (m.t = "dl" /\ m.old = i)
Ended(Q, i) == \E d \in Dus : \E k \in 1..Len(Q[d]) : Ends(Q[d][k], i)
Announces(m, i) == m.t \in {"setup_resp", "reest_req"} /\ m.id = i
Announced(P, i) == \E d \in Dus : \E k \in 1..Len(P[d]) : Announces(P[d][k], i)

(* The IDs that a UE context has: its own, and those of a handover.         *)
Uses(r, i) == r.id = i \/ (On(r) /\ (r.ho.src_id = i \/ r.ho.tgt_id = i))

(* Nothing ends context i, and once a UE has been served in it, it is there *)
(* as long as its DU.                                                       *)
Unharmed(M, U, i) ==
    /\ M[i].st # "releasing"
    /\ M[i].cu # 0 /\ M[i].du \in U => M[i].st \in {"active", "failed"}

(* Every ID belongs to one UE; during a handover source and target have one *)
(* each.                                                                    *)
SourceOK(r, M) ==
    On(r) => /\ MadeIn(M, r.ho.src, r.ho.src_id) /\ r.ho.src_id # r.ho.tgt_id
             /\ r.du = r.ho.src => r.id = r.ho.src_id
OwnIds(C, M, P) ==
    /\ \A c \in CuIds : SourceOK(C[c], M)
    /\ \A c, k \in CuIds : \A i \in Ids : Uses(C[c], i) /\ Uses(C[k], i) => c = k
    /\ \A c \in CuIds : \A i \in Ids : Announced(P, i) => ~Uses(C[c], i)

(* The contexts that a UE has, unless its release was commanded, or that    *)
(* are announced to the CU, are not ended.                                  *)
Spared(C, M, U, P, Q) ==
    /\ \A i \in Ids : Ended(Q, i) => Used(M, i)
    /\ \A c \in CuIds : \A i \in Ids :
          Uses(C[c], i) /\ ~C[c].an_release => ~Ended(Q, i) /\ Unharmed(M, U, i)
    /\ \A i \in Ids : Announced(P, i) => ~Ended(Q, i) /\ Unharmed(M, U, i)

(* The context that message k of an association takes over is there, and no *)
(* message before it ends it.                                               *)
OldOK(M, d, q, k) ==
    q[k].t = "dl" /\ q[k].old # 0 =>
        /\ MadeIn(M, d, q[k].old) /\ M[q[k].old].cu # 0 /\ M[q[k].old].st \in {"active", "failed"}
        /\ \A l \in 1..(k - 1) : ~Ends(q[l], q[k].old)
OldsThere(M, Q) == \A d \in Dus : \A k \in 1..Len(Q[d]) : OldOK(M, d, Q[d], k)

(* The UE, and its requests, name contexts in which it was served.          *)
Names(m, i) == (m.t = "reest_req" /\ m.rnti = i) \/ (m.t = "modif" /\ m.to_id = i)
Named(P, i) == \E d \in Dus : \E k \in 1..Len(P[d]) : Names(P[d][k], i)
InUse(u, P, Q, i) ==
    \/ u.id = i \/ (u.next.why = "ho" /\ u.next.id = i)
    \/ Named(P, i) \/ Named(Q, i)
Served(u, M, P, Q) == \A i \in Ids : InUse(u, P, Q, i) => M[i].cu # 0

OldNow ==
    /\ OwnIds(ctx, mac, to_cu) /\ Spared(ctx, mac, up, to_cu, to_du)
    /\ OldsThere(mac, to_du) /\ Served(ue, mac, to_cu, to_du)
OldInv == ~untimely => OldNow /\ ~no_old

(* A message is taken from an association.                                  *)
TailOf(Q, Q2, d) == Assoc(Q) /\ d \in Dus /\ Q[d] # <<>> /\ Q2 = [Q EXCEPT ![d] = Tail(@)]

(* What is on the associations after a message is sent on one of them, or   *)
(* taken from it.                                                           *)
LEMMA SentElems ==
    ASSUME NEW Q, Assoc(Q), NEW d, NEW m, NEW Q2, Q2 = [Q EXCEPT ![d] = Append(@, m)]
    PROVE  \A e \in Dus : \A k \in 1..Len(Q2[e]) :
              \/ k \in 1..Len(Q[e]) /\ Q2[e][k] = Q[e][k]
              \/ /\ e = d /\ Q2[e][k] = m /\ k = Len(Q[e]) + 1 /\ Len(Q[e]) \in Nat
                 /\ \A l \in 1..Len(Q[e]) : Q2[e][l] = Q[e][l]
<1> SUFFICES ASSUME NEW e \in Dus, NEW k \in 1..Len(Q2[e])
             PROVE  \/ k \in 1..Len(Q[e]) /\ Q2[e][k] = Q[e][k]
                    \/ /\ e = d /\ Q2[e][k] = m /\ k = Len(Q[e]) + 1 /\ Len(Q[e]) \in Nat
                       /\ \A l \in 1..Len(Q[e]) : Q2[e][l] = Q[e][l]
  OBVIOUS
<1>1. Q = [x \in Dus |-> Q[x]] /\ IsSeq(Q[e])
  BY DEF Assoc
<1>2. CASE e # d
  <2>1. Q2[e] = Q[e]
    BY <1>1, <1>2
  <2>2. QED BY <2>1
<1>3. CASE e = d
  <2>1. Q2[e] = Append(Q[e], m)
    BY <1>1, <1>3
  <2>2. PICK q : q = Q[e]
    OBVIOUS
  <2>3. PICK a : a = Q2[e]
    OBVIOUS
  <2>4. /\ Len(q) \in Nat /\ Len(a) = Len(q) + 1 /\ a[Len(q) + 1] = m
        /\ \A n \in 1..Len(q) : a[n] = q[n]
    <3>1. IsSeq(q) /\ a = Append(q, m)
      BY <1>1, <2>1, <2>2, <2>3
    <3>2. QED BY ONLY <3>1, SeqAppend
  <2>5. k \in 1..Len(a)
    BY <2>3
  <2>6. \/ k \in 1..Len(q) /\ a[k] = q[k]
        \/ /\ a[k] = m /\ k = Len(q) + 1 /\ Len(q) \in Nat /\ \A l \in 1..Len(q) : a[l] = q[l]
    BY ONLY <2>4, <2>5
  <2>7. QED BY ONLY <1>3, <2>2, <2>3, <2>6
<1>4. QED BY <1>2, <1>3

LEMMA TakenElems ==
    ASSUME NEW Q, NEW Q2, NEW d, TailOf(Q, Q2, d)
    PROVE  /\ \A e \in Dus \ {d} : Q2[e] = Q[e]
           /\ \A k \in 1..Len(Q2[d]) : k + 1 \in 1..Len(Q[d]) /\ Q2[d][k] = Q[d][k + 1]
           /\ 1 \in 1..Len(Q[d]) /\ Head(Q[d]) = Q[d][1]
<1>1. Q = [x \in Dus |-> Q[x]] /\ IsSeq(Q[d]) /\ Q[d] # <<>>
  BY DEF Assoc, TailOf
<1>2. Q2[d] = Tail(Q[d]) /\ \A e \in Dus \ {d} : Q2[e] = Q[e]
  BY <1>1 DEF TailOf
<1>3. PICK q : q = Q[d]
  OBVIOUS
<1>4. /\ \A n \in 1..Len(Tail(q)) : Tail(q)[n] = q[n + 1] /\ n + 1 \in 1..Len(q)
      /\ Head(q) = q[1] /\ 1 \in 1..Len(q)
  <2>1. IsSeq(q) /\ q # <<>>
    BY <1>1, <1>3
  <2>2. QED BY ONLY <2>1, SeqTail
<1>5. QED BY ONLY <1>2, <1>3, <1>4

LEMMA SentKinds ==
    ASSUME NEW Q, Assoc(Q), NEW d, NEW m, NEW Q2, Q2 = [Q EXCEPT ![d] = Append(@, m)], NEW i
    PROVE  /\ Ended(Q2, i) => Ended(Q, i) \/ Ends(m, i)
           /\ Announced(Q2, i) => Announced(Q, i) \/ Announces(m, i)
           /\ Named(Q2, i) => Named(Q, i) \/ Names(m, i)
<1>1. \A e \in Dus : \A k \in 1..Len(Q2[e]) : (k \in 1..Len(Q[e]) /\ Q2[e][k] = Q[e][k]) \/ Q2[e][k] = m
  BY SentElems
<1>2. QED BY ONLY <1>1 DEF Ended, Announced, Named

LEMMA TakenKindsOf ==
    ASSUME NEW Q, NEW Q2, NEW d, TailOf(Q, Q2, d), NEW i
    PROVE  /\ Ended(Q2, i) => Ended(Q, i)
           /\ Announced(Q2, i) => Announced(Q, i)
           /\ Named(Q2, i) => Named(Q, i)
           /\ Ends(Head(Q[d]), i) => Ended(Q, i)
           /\ Announces(Head(Q[d]), i) => Announced(Q, i)
           /\ Names(Head(Q[d]), i) => Named(Q, i)
<1>1. /\ \A e \in Dus : \A k \in 1..Len(Q2[e]) : \E l \in 1..Len(Q[e]) : Q2[e][k] = Q[e][l]
      /\ \E l \in 1..Len(Q[d]) : Head(Q[d]) = Q[d][l]
  <2>1. /\ \A e \in Dus \ {d} : Q2[e] = Q[e]
        /\ \A k \in 1..Len(Q2[d]) : k + 1 \in 1..Len(Q[d]) /\ Q2[d][k] = Q[d][k + 1]
        /\ 1 \in 1..Len(Q[d]) /\ Head(Q[d]) = Q[d][1]
    BY TakenElems
  <2>2. QED BY ONLY <2>1
<1>2. d \in Dus
  BY DEF TailOf
<1>3. QED BY ONLY <1>1, <1>2 DEF Ended, Announced, Named

LEMMA QueuedEnds ==
    ASSUME Base, IInv, NEW Q, Assoc(Q), NEW d, NEW m, NEW Q2, Q2 = Queued(Q, d, m)
    PROVE  /\ \A i : Ended(Q2, i) => Ended(Q, i) \/ Ends(m, i)
           /\ \A i : Named(Q2, i) => Named(Q, i) \/ Names(m, i)
           /\ Assoc(Q2)
<1>1. Assoc(Q2)
  BY QueuedKinds
<1>2. CASE d \in up
  <2>1. Q2 = [Q EXCEPT ![d] = Append(@, m)]
    BY <1>2 DEF Queued
  <2>2. QED BY <1>1, <2>1, SentKinds
<1>3. CASE d \notin up
  <2>1. Q2 = Q
    BY <1>3 DEF Queued
  <2>2. QED BY <1>1, <2>1
<1>4. QED BY <1>2, <1>3

(* A message is queued whose old context is there.                          *)
LEMMA OldsQueued ==
    ASSUME Base, IInv, NEW M, NEW Q, Assoc(Q), OldsThere(M, Q), NEW d, NEW m, NEW Q2, Q2 = Queued(Q, d, m),
           d \in up /\ m.t = "dl" /\ m.old # 0 =>
               /\ MadeIn(M, d, m.old) /\ M[m.old].cu # 0 /\ M[m.old].st \in {"active", "failed"}
               /\ ~Ended(Q, m.old)
    PROVE  OldsThere(M, Q2)
<1>1. CASE d \notin up
  BY <1>1 DEF Queued
<1>2. CASE d \in up
  <2> SUFFICES ASSUME NEW e \in Dus, NEW k \in 1..Len(Q2[e]) PROVE OldOK(M, e, Q2[e], k)
    BY DEF OldsThere
  <2>1. Q2 = [Q EXCEPT ![d] = Append(@, m)]
    BY <1>2 DEF Queued
  <2>2. \A j \in 1..Len(Q2[e]) :
           \/ j \in 1..Len(Q[e]) /\ Q2[e][j] = Q[e][j]
           \/ /\ e = d /\ Q2[e][j] = m /\ j = Len(Q[e]) + 1 /\ Len(Q[e]) \in Nat
              /\ \A l \in 1..Len(Q[e]) : Q2[e][l] = Q[e][l]
    BY <2>1, SentElems
  <2>3. Len(Q[e]) \in Nat /\ Len(Q2[e]) \in Nat
    <3>1. IsSeq(Q[e]) /\ IsSeq(Q2[e])
      BY QueuedEnds DEF Assoc
    <3>2. ASSUME NEW q, IsSeq(q) PROVE Len(q) \in Nat
      BY <3>2 DEF IsSeq
    <3>3. QED BY <3>1, <3>2
  <2>4. CASE k \in 1..Len(Q[e]) /\ Q2[e][k] = Q[e][k]
    <3>1. OldOK(M, e, Q[e], k)
      BY <2>4 DEF OldsThere
    <3>2. \A l \in 1..(k - 1) : Q2[e][l] = Q[e][l]
      <4> SUFFICES ASSUME NEW l \in 1..(k - 1) PROVE Q2[e][l] = Q[e][l]
        OBVIOUS
      <4>1. l \in 1..Len(Q2[e]) /\ l \in 1..Len(Q[e]) /\ l # Len(Q[e]) + 1
        BY <2>3, <2>4
      <4>2. QED BY <2>2, <4>1
    <3>3. QED BY <2>4, <3>1, <3>2 DEF OldOK
  <2>5. CASE /\ e = d /\ Q2[e][k] = m /\ k = Len(Q[e]) + 1 /\ Len(Q[e]) \in Nat
             /\ \A l \in 1..Len(Q[e]) : Q2[e][l] = Q[e][l]
    <3>1. 1..(k - 1) = 1..Len(Q[e])
      BY <2>5
    <3>2. \A l \in 1..(k - 1) : ~Ended(Q, m.old) => ~Ends(Q2[e][l], m.old)
      BY <2>5, <3>1 DEF Ended
    <3>3. QED BY <1>2, <2>5, <3>2 DEF OldOK
  <2>6. QED BY <2>2, <2>4, <2>5
<1>3. QED BY <1>1, <1>2

(* The head of an association is taken, and what it ends is not among what  *)
(* the messages behind it take over.                                        *)
LEMMA OldsTaken ==
    ASSUME NEW M, NEW M2, MacKeeps(M, M2), NEW Q, NEW Q2, NEW d \in Dus, TailOf(Q, Q2, d), OldsThere(M, Q),
           \A i \in Ids : /\ M[i].du \in Dus /\ M[i].st \in {"active", "failed"}
                          /\ ~(M[i].du = d /\ Ends(Head(Q[d]), i))
                          => M2[i].st \in {"active", "failed"}
    PROVE  OldsThere(M2, Q2)
<1> SUFFICES ASSUME NEW e \in Dus, NEW k \in 1..Len(Q2[e]), Q2[e][k].t = "dl", Q2[e][k].old # 0
             PROVE  OldOK(M2, e, Q2[e], k)
  BY DEF OldsThere, OldOK
<1>1. PICK o : o = Q2[e][k].old
  OBVIOUS
<1>2. /\ \A x \in Dus \ {d} : Q2[x] = Q[x]
      /\ \A l \in 1..Len(Q2[d]) : l + 1 \in 1..Len(Q[d]) /\ Q2[d][l] = Q[d][l + 1]
      /\ 1 \in 1..Len(Q[d]) /\ Head(Q[d]) = Q[d][1]
  BY TakenElems
<1>3. /\ MadeIn(M, e, o) /\ M[o].cu # 0 /\ M[o].st \in {"active", "failed"}
      /\ \A l \in 1..(k - 1) : ~Ends(Q2[e][l], o)
      /\ ~(e = d /\ Ends(Head(Q[d]), o))
  <2>1. CASE e # d
    <3>1. Q2[e] = Q[e]
      BY <1>2, <2>1
    <3>2. OldOK(M, e, Q[e], k)
      BY <3>1 DEF OldsThere
    <3>3. QED BY <1>1, <2>1, <3>1, <3>2 DEF OldOK
  <2>2. CASE e = d
    <3>1. k + 1 \in 1..Len(Q[d]) /\ Q2[d][k] = Q[d][k + 1] /\ k \in Int /\ k >= 1
      BY <1>2, <2>2
    <3>2. OldOK(M, d, Q[d], k + 1)
      BY <3>1 DEF OldsThere
    <3>3. \A l \in 1..k : ~Ends(Q[d][l], o)
      <4>1. (k + 1) - 1 = k
        BY <3>1
      <4>2. QED BY <1>1, <2>2, <3>1, <3>2, <4>1 DEF OldOK
    <3>4. \A l \in 1..(k - 1) : Q2[d][l] = Q[d][l + 1] /\ l + 1 \in 1..k
      <4> SUFFICES ASSUME NEW l \in 1..(k - 1) PROVE Q2[d][l] = Q[d][l + 1] /\ l + 1 \in 1..k
        OBVIOUS
      <4>1. l \in 1..Len(Q2[d]) /\ l + 1 \in 1..k
        <5>1. k \in 1..Len(Q2[d])
          BY <2>2
        <5>2. QED BY <3>1, <5>1
      <4>2. QED BY <1>2, <4>1
    <3>5. 1 \in 1..k
      BY <3>1
    <3>6. QED BY <1>1, <1>2, <2>2, <3>1, <3>2, <3>3, <3>4, <3>5 DEF OldOK
  <2>3. QED BY <2>1, <2>2
<1>4. NoDu # e
  BY DusAssumption
<1>5. MadeIn(M2, e, o) /\ M2[o].cu # 0 /\ M2[o].st \in {"active", "failed"}
  BY <1>3, <1>4 DEF MadeIn, MacKeeps
<1>6. QED BY <1>1, <1>3, <1>5 DEF OldOK

-----------------------------------------------------------------------------
(* The DUs and the UE keep it.                                              *)

LEMMA Associations ==
    ASSUME Base
    PROVE  Assoc(to_du) /\ Assoc(to_cu)
BY DEF Base, DuQ, CuQ, Assoc

LEMMA TakesTail ==
    ASSUME Base, NEW d \in Dus
    PROVE  /\ Taken(d) => TailOf(to_du, to_du', d)
           /\ to_cu[d] # <<>> /\ CuTakes(d) => TailOf(to_cu, to_cu', d)
BY Associations DEF Taken, DuTakes, CuTakes, TailOf

(* A DU's message that announces nothing.                                   *)
LEMMA SaysNothing ==
    ASSUME Base, to_cu' = to_cu \/ \E d, m : Says(d, m) /\ m.t # "setup_resp", NEW i
    PROVE  (Announced(to_cu', i) => Announced(to_cu, i)) /\ (Named(to_cu', i) => Named(to_cu, i))
<1>1. CASE to_cu' = to_cu
  BY <1>1
<1>2. ASSUME NEW d, NEW m, Says(d, m), m.t # "setup_resp"
      PROVE  (Announced(to_cu', i) => Announced(to_cu, i)) /\ (Named(to_cu', i) => Named(to_cu, i))
  <2>1. to_cu' = [to_cu EXCEPT ![d] = Append(@, m)] /\ ~Announces(m, i) /\ ~Names(m, i)
    BY <1>2 DEF Says, Sent, CuMsgOK, Announces, Names
  <2>2. QED BY <2>1, Associations, SentKinds
<1>3. QED BY <1>1, <1>2

LEMMA SaysRelease ==
    ASSUME NEW d, NEW c, NEW m, m = [t |-> "rel_compl", cu |-> c] \/ m = [t |-> "rel_req", cu |-> c],
           Says(d, m)
    PROVE  \E e, n : Says(e, n) /\ n.t # "setup_resp"
<1>1. m.t # "setup_resp"
  OBVIOUS
<1>2. QED BY <1>1

(* The source of a handover is a DU.                                        *)
LEMMA SourceStable ==
    ASSUME Base, IInv, NEW M, MacKeeps(mac, M), NEW c \in CuIds, SourceOK(ctx[c], mac)
    PROVE  SourceOK(ctx[c], M)
<1>1. On(ctx[c]) => ctx[c].ho.src # NoDu
  BY BaseParts DEF IInv, CtxInv, Sound, On
<1>2. QED BY <1>1 DEF SourceOK, MadeIn, MacKeeps

LEMMA ServedStep ==
    ASSUME Base, MacKeeps(mac, mac'), Served(ue, mac, to_cu, to_du),
           \A i \in Ids : InUse(ue', to_cu', to_du', i) =>
               InUse(ue, to_cu, to_du, i) \/ mac'[i].cu # 0
    PROVE  Served(ue', mac', to_cu', to_du')
<1> SUFFICES ASSUME NEW i \in Ids, InUse(ue', to_cu', to_du', i) PROVE  mac'[i].cu # 0
  BY DEF Served
<1>1. mac[i].cu # 0 \/ mac'[i].cu # 0
  BY DEF Served
<1>2. mac[i].cu # 0 => mac[i].du # NoDu
  BY DEF Base, MacBase, NoMac
<1>3. QED BY <1>1, <1>2 DEF MacKeeps

(* An ID that a UE has is one that a DU gave out.                           *)
LEMMA UsesUsed ==
    ASSUME Base, IInv, NEW c \in CuIds, SourceOK(ctx[c], mac), NEW i \in Ids, Uses(ctx[c], i)
    PROVE  Used(mac, i)
<1>1. Mentioned(mac, ctx[c].id) /\ Mentioned(mac, ctx[c].ho.tgt_id) /\ 0 \notin Ids
  BY IdsFinite DEF Base, CtxBase
<1>2. On(ctx[c]) => ctx[c].ho.src # NoDu
  BY BaseParts DEF IInv, CtxInv, Sound, On
<1>3. QED BY <1>1, <1>2 DEF Uses, Mentioned, SourceOK, MadeIn, Used

LEMMA DuKeepsOld ==
    ASSUME Base, IInv, OldNow, ctx' = ctx, MacKeeps(mac, mac'),
           \A i \in Ids : Announced(to_cu', i) =>
               Announced(to_cu, i) \/ (~Used(mac, i) /\ Unharmed(mac', up', i)),
           \A i \in Ids : Ended(to_du', i) => Ended(to_du, i),
           \A i \in Ids : ~Ended(to_du, i) /\ Unharmed(mac, up, i) => Unharmed(mac', up', i),
           OldsThere(mac', to_du'), Served(ue', mac', to_cu', to_du')
    PROVE  OldNow'
<1>1. OwnIds(ctx, mac, to_cu) /\ Spared(ctx, mac, up, to_cu, to_du)
  BY DEF OldNow
<1>2. OwnIds(ctx, mac', to_cu')
  <2>1. \A c \in CuIds : SourceOK(ctx[c], mac')
    BY <1>1, SourceStable DEF OwnIds
  <2>2. \A c \in CuIds : \A i \in Ids : Uses(ctx[c], i) => Used(mac, i)
    BY <1>1, UsesUsed DEF OwnIds
  <2>3. QED BY <1>1, <2>1, <2>2 DEF OwnIds
<1>3. Spared(ctx, mac', up', to_cu', to_du')
  <2>1. \A i : Used(mac, i) => Used(mac', i)
    BY DEF Used, MacKeeps
  <2>2. QED BY <1>1, <2>1 DEF Spared
<1>4. QED BY <1>2, <1>3 DEF OldNow

LEMMA DuReleaseCommandOld ==
    ASSUME Base, IInv, OldNow, NEW d \in Dus, DuReleaseCommand(d)
    PROVE  OldNow'
<1>1. PICK m : m = Head(to_du[d])
  OBVIOUS
<1>2. /\ Taken(d) /\ MacSteps
      /\ ue' = ue \/ ue' = [ue EXCEPT !.here = FALSE, !.id = 0]
      /\ to_cu' = to_cu \/ \E c : Says(d, [t |-> "rel_compl", cu |-> c])
  BY DuReleaseCommandEffect
<1>3. ctx' = ctx /\ up' = up /\ m.t = "release"
  BY <1>1 DEF DuReleaseCommand, TookCmd, cuVars
<1>4. TailOf(to_du, to_du', d) /\ MacKeeps(mac, mac')
  BY <1>2, TakesTail, MacStepsKeep
<1>5. \A i \in Ids : mac'[i] = mac[i] \/ (i = m.id /\ mac[i].du = d)
  <2>1. mac = [i \in Ids |-> mac[i]]
    BY DEF Base, MacBase
  <2>2. \/ mac' = mac
        \/ Known(d, m.id) /\ mac' = [mac EXCEPT ![m.id].st = "releasing"]
        \/ Known(d, m.id) /\ mac' = [mac EXCEPT ![m.id].st = "gone"]
    BY <1>1 DEF DuReleaseCommand
  <2>3. QED BY <2>1, <2>2 DEF Known
<1>6. \A i : Ends(m, i) <=> i = m.id
  BY <1>3 DEF Ends
<1>7. \A i : (Ended(to_du', i) => Ended(to_du, i)) /\ (Ends(m, i) => Ended(to_du, i))
             /\ (Named(to_du', i) => Named(to_du, i))
  BY <1>1, <1>4, TakenKindsOf
<1>8. \A i : (Announced(to_cu', i) => Announced(to_cu, i)) /\ (Named(to_cu', i) => Named(to_cu, i))
  <2>1. to_cu' = to_cu \/ \E e, n : Says(e, n) /\ n.t # "setup_resp"
    BY <1>2, SaysRelease
  <2>2. QED BY <2>1, SaysNothing
<1>9. \A i \in Ids : ~Ended(to_du, i) /\ Unharmed(mac, up, i) => Unharmed(mac', up', i)
  BY <1>3, <1>5, <1>6, <1>7 DEF Unharmed
<1>10. OldsThere(mac', to_du')
  <2>1. \A i \in Ids : /\ mac[i].du \in Dus /\ mac[i].st \in {"active", "failed"}
                       /\ ~(mac[i].du = d /\ Ends(Head(to_du[d]), i))
                       => mac'[i].st \in {"active", "failed"}
    BY <1>1, <1>5, <1>6
  <2>2. QED BY <1>4, <2>1, OldsTaken DEF OldNow
<1>11. ue'.next = ue.next /\ (ue'.id = ue.id \/ ue'.id = 0)
  BY <1>2 DEF Base, UeBase, IsUe
<1>12. Served(ue', mac', to_cu', to_du')
  <2>1. 0 \notin Ids
    BY IdsFinite
  <2>2. QED BY <1>4, <1>7, <1>8, <1>11, <2>1, ServedStep DEF OldNow, InUse
<1>13. QED BY <1>3, <1>4, <1>7, <1>8, <1>9, <1>10, <1>12, DuKeepsOld

LEMMA TimersOld ==
    ASSUME Base, IInv, OldNow, NEW i \in Ids, UlFailure(i) \/ ReleaseTimerExpires(i)
    PROVE  OldNow'
<1>1. /\ MacSteps /\ up' = up /\ ue' = ue /\ to_du' = to_du
      /\ \/ to_cu' = to_cu
         \/ \E d, c : Says(d, [t |-> "rel_compl", cu |-> c]) \/ Says(d, [t |-> "rel_req", cu |-> c])
  BY TimersEffect
<1>2. ctx' = ctx /\ MacKeeps(mac, mac')
  BY <1>1, MacStepsKeep DEF UlFailure, ReleaseTimerExpires, cuVars
<1>3. /\ \A k \in Ids \ {i} : mac'[k] = mac[k]
      /\ \/ mac[i].st = "releasing"
         \/ mac[i].st = "active" /\ Quiet /\ mac[i].cu = 0 /\ mac'[i].cu = 0 /\ mac'[i].st = "gone"
         \/ mac[i].st = "active" /\ Quiet /\ mac'[i].st = "failed"
  <2>1. mac \in [Ids -> MacSet]
    BY DEF Base, MacBase
  <2>2. \/ mac[i].st = "releasing" /\ mac' = [mac EXCEPT ![i].st = "gone"]
        \/ mac[i].st = "active" /\ Quiet /\ mac[i].cu = 0 /\ mac' = [mac EXCEPT ![i].st = "gone"]
        \/ mac[i].st = "active" /\ Quiet /\ mac' = [mac EXCEPT ![i].st = "failed"]
    BY DEF UlFailure, ReleaseTimerExpires
  <2>3. QED BY <2>1, <2>2 DEF MacSet
<1>4. \A k : (Announced(to_cu', k) => Announced(to_cu, k)) /\ (Named(to_cu', k) => Named(to_cu, k))
  <2>1. to_cu' = to_cu \/ \E e, n : Says(e, n) /\ n.t # "setup_resp"
    BY <1>1, SaysRelease
  <2>2. QED BY <2>1, SaysNothing
<1>5. \A k \in Ids : Unharmed(mac, up, k) => Unharmed(mac', up', k)
  BY <1>1, <1>3 DEF Unharmed
<1>6. OldsThere(mac', to_du')
  <2>1. CASE Quiet
    <3>1. \A d \in Dus : Len(to_du[d]) = 0
      BY <2>1 DEF Quiet
    <3>2. QED BY <1>1, <3>1 DEF OldsThere
  <2>2. CASE mac[i].st = "releasing"
    <3> SUFFICES ASSUME NEW d \in Dus, NEW k \in 1..Len(to_du[d]) PROVE OldOK(mac', d, to_du[d], k)
      BY <1>1 DEF OldsThere
    <3>1. OldOK(mac, d, to_du[d], k)
      BY DEF OldNow, OldsThere
    <3>2. QED BY <1>3, <2>2, <3>1 DEF OldOK, MadeIn
  <2>3. QED BY <1>3, <2>1, <2>2
<1>7. Served(ue', mac', to_cu', to_du')
  BY <1>1, <1>2, <1>4, ServedStep DEF OldNow, InUse
<1>8. QED BY <1>1, <1>2, <1>4, <1>5, <1>6, <1>7, DuKeepsOld

LEMMA DiesOld ==
    ASSUME Base, IInv, OldNow, NEW d \in Dus, Dies(d), ctx' = ctx
    PROVE  OldNow'
<1>1. MacSteps /\ Cut(d) /\ Says(d, [t |-> "lost"]) /\ ue'.id = ue.id /\ ue'.next = ue.next
  BY DiesEffect
<1>2. MacKeeps(mac, mac') /\ up' = up \ {d}
  BY <1>1, MacStepsKeep DEF Cut
<1>3. \A i \in Ids : mac'[i] = mac[i] \/ (mac[i].du = d /\ mac'[i].du = d /\ mac'[i].st = "gone")
  <2>1. \A i \in Ids : mac[i] \in MacSet
    BY DEF Base, MacBase
  <2>2. \A i \in Ids : mac'[i] = mac[i] \/ (mac[i].du = d /\ mac'[i] = [mac[i] EXCEPT !.st = "gone"])
    BY DEF Dies
  <2>3. QED BY <2>1, <2>2 DEF MacSet
<1>4. to_du'[d] = <<>> /\ \A e \in Dus \ {d} : to_du'[e] = to_du[e]
  BY <1>1, Associations DEF Cut, Assoc
<1>5. Len(to_du'[d]) = 0
  BY <1>4
<1>6. \A i : (Ended(to_du', i) => Ended(to_du, i)) /\ (Named(to_du', i) => Named(to_du, i))
  <2>1. \A e \in Dus : \A k \in 1..Len(to_du'[e]) : e # d
    BY <1>5
  <2>2. QED BY <1>4, <2>1 DEF Ended, Named
<1>7. \A i : (Announced(to_cu', i) => Announced(to_cu, i)) /\ (Named(to_cu', i) => Named(to_cu, i))
  BY <1>1, SaysNothing
<1>8. \A i \in Ids : Unharmed(mac, up, i) => Unharmed(mac', up', i)
  BY <1>2, <1>3 DEF Unharmed
<1>9. OldsThere(mac', to_du')
  <2> SUFFICES ASSUME NEW e \in Dus, NEW k \in 1..Len(to_du'[e]) PROVE OldOK(mac', e, to_du'[e], k)
    BY DEF OldsThere
  <2>1. e # d /\ to_du'[e] = to_du[e]
    BY <1>4, <1>5
  <2>2. OldOK(mac, e, to_du[e], k)
    BY <2>1 DEF OldNow, OldsThere
  <2>3. QED BY <1>3, <2>1, <2>2 DEF OldOK, MadeIn
<1>10. Served(ue', mac', to_cu', to_du')
  BY <1>1, <1>2, <1>6, <1>7, ServedStep DEF OldNow, InUse
<1>11. QED BY <1>2, <1>6, <1>7, <1>8, <1>9, <1>10, DuKeepsOld

(* Contexts change, but none that is taken over.                            *)
LEMMA OldsSame ==
    ASSUME NEW M, NEW M2, MacKeeps(M, M2), NEW Q, OldsThere(M, Q),
           \A i \in Ids : M[i].st \in {"active", "failed"} => M2[i].st \in {"active", "failed"}
    PROVE  OldsThere(M2, Q)
<1> SUFFICES ASSUME NEW d \in Dus, NEW k \in 1..Len(Q[d]) PROVE OldOK(M2, d, Q[d], k)
  BY DEF OldsThere
<1>1. OldOK(M, d, Q[d], k) /\ d # NoDu
  BY DusAssumption DEF OldsThere
<1>2. QED BY <1>1 DEF OldOK, MadeIn, MacKeeps

LEMMA SameMacKeeps ==
    MacKeeps(mac, mac)
BY DEF MacKeeps

LEMMA DuModificationRequestOld ==
    ASSUME Base, IInv, OldNow, NEW d \in Dus, DuModificationRequest(d)
    PROVE  OldNow'
<1>1. PICK m : m = Head(to_du[d])
  OBVIOUS
<1>2. /\ Taken(d) /\ ctx' = ctx /\ up' = up /\ mac' = mac /\ m.t = "modif"
      /\ MacKeeps(mac, mac')
  BY <1>1, SameMacKeeps DEF DuModificationRequest, TookCmd, Taken, cuVars, duVars
<1>3. TailOf(to_du, to_du', d)
  BY <1>2, TakesTail
<1>4. \A i : /\ Ended(to_du', i) => Ended(to_du, i)
             /\ Named(to_du', i) => Named(to_du, i)
             /\ Names(m, i) => Named(to_du, i)
  BY <1>1, <1>3, TakenKindsOf
<1>5. \A i : (Announced(to_cu', i) => Announced(to_cu, i)) /\ (Named(to_cu', i) => Named(to_cu, i))
  <2>1. CASE to_cu' = to_cu
    BY <2>1
  <2>2. CASE Sent(d, [t |-> "modif_resp", cu |-> m.cu])
    <3>1. PICK n : n = [t |-> "modif_resp", cu |-> m.cu]
      OBVIOUS
    <3>2. Says(d, n) /\ n.t # "setup_resp"
      BY <2>2, <3>1 DEF Says, CuMsgOK
    <3>3. QED BY <3>2, SaysNothing
  <2>3. QED BY <1>1, <2>1, <2>2 DEF DuModificationRequest
<1>6. OldsThere(mac', to_du')
  BY <1>2, <1>3, OldsTaken DEF OldNow
<1>7. /\ ue'.id = ue.id
      /\ ue'.next = ue.next \/ ue'.next.id = m.to_id
  <2>1. PICK n : n = [du |-> m.to, id |-> m.to_id, why |-> "ho"]
    OBVIOUS
  <2>2. ue' = ue \/ ue' = [ue EXCEPT !.here = FALSE, !.next = n]
    BY <1>1, <2>1 DEF DuModificationRequest
  <2>3. n.id = m.to_id
    BY <2>1
  <2>4. CASE ue' = ue
    BY <2>4
  <2>5. CASE ue' = [ue EXCEPT !.here = FALSE, !.next = n]
    <3>1. ue = [du |-> ue.du, id |-> ue.id, here |-> ue.here, next |-> ue.next]
      BY DEF Base, UeBase, IsUe
    <3>2. ue'.id = ue.id /\ ue'.next = n
      BY <2>5, <3>1
    <3>3. QED BY <2>3, <3>2
  <2>6. QED BY <2>2, <2>4, <2>5
<1>8. Names(m, m.to_id)
  BY <1>2 DEF Names
<1>9. Served(ue', mac', to_cu', to_du')
  <2>1. \A i \in Ids : InUse(ue', to_cu', to_du', i) => InUse(ue, to_cu, to_du, i)
    BY <1>4, <1>5, <1>7, <1>8 DEF InUse
  <2>2. QED BY <1>2, <2>1, ServedStep DEF OldNow
<1>10. QED BY <1>2, <1>4, <1>5, <1>6, <1>9, DuKeepsOld

(* A DU makes a context.                                                    *)
LEMMA NewContextOld ==
    ASSUME Base, Cardinality(UsedIds(mac)) <= MaxEvents, NEW d \in Dus, NEW c \in 0..MaxEvents + 1,
           mac' = [mac EXCEPT ![NewId] = [du |-> d, cu |-> c, st |-> "active"]], up' = up
    PROVE  /\ MacKeeps(mac, mac') /\ NewId \in Ids /\ ~Used(mac, NewId)
           /\ Unharmed(mac', up', NewId)
           /\ \A i \in Ids : Unharmed(mac, up, i) => Unharmed(mac', up', i)
           /\ \A i \in Ids : mac[i].st \in {"active", "failed"} => mac'[i].st \in {"active", "failed"}
<1>1. MacKeeps(mac, mac') /\ NewId \in Ids /\ ~Used(mac, NewId)
  BY NewIdStep
<1>2. mac'[NewId].st = "active" /\ \A i \in Ids : i # NewId => mac'[i] = mac[i]
  <2>1. mac = [i \in Ids |-> mac[i]]
    BY DEF Base, MacBase
  <2>2. QED BY <1>1, <2>1
<1>3. Unharmed(mac', up', NewId)
  BY <1>2 DEF Unharmed
<1>4. QED BY <1>1, <1>2, <1>3 DEF Unharmed

LEMMA DuSetupRequestOld ==
    ASSUME Base, IInv, OldNow, NEW d \in Dus, DuSetupRequest(d)
    PROVE  OldNow'
<1>1. PICK c : c = Head(to_du[d]).cu
  OBVIOUS
<1>2. /\ Taken(d) /\ Cardinality(UsedIds(mac)) <= MaxEvents
      /\ c \in 0..MaxEvents + 1
  BY <1>1, DuSetupRequestRoom
<1>3. /\ ctx' = ctx /\ up' = up /\ ue' = ue
      /\ mac' = [mac EXCEPT ![NewId] = [du |-> d, cu |-> c, st |-> "active"]]
      /\ Sent(d, [t |-> "setup_resp", cu |-> c, id |-> NewId])
  BY <1>1 DEF DuSetupRequest, cuVars
<1>4. /\ MacKeeps(mac, mac') /\ NewId \in Ids /\ ~Used(mac, NewId)
      /\ Unharmed(mac', up', NewId)
      /\ \A i \in Ids : Unharmed(mac, up, i) => Unharmed(mac', up', i)
      /\ \A i \in Ids : mac[i].st \in {"active", "failed"} => mac'[i].st \in {"active", "failed"}
  BY <1>2, <1>3, NewContextOld
<1>5. TailOf(to_du, to_du', d)
  BY <1>2, TakesTail
<1>6. \A i : (Ended(to_du', i) => Ended(to_du, i)) /\ (Named(to_du', i) => Named(to_du, i))
  BY <1>5, TakenKindsOf
<1>7. \A i : /\ Announced(to_cu', i) => Announced(to_cu, i) \/ i = NewId
             /\ Named(to_cu', i) => Named(to_cu, i)
  <2>1. PICK n : n = [t |-> "setup_resp", cu |-> c, id |-> NewId]
    OBVIOUS
  <2>2. to_cu' = [to_cu EXCEPT ![d] = Append(@, n)]
    BY <1>3, <2>1 DEF Sent
  <2>3. \A i : (Announces(n, i) => i = NewId) /\ ~Names(n, i)
    BY <2>1 DEF Announces, Names
  <2>4. Assoc(to_cu)
    BY Associations
  <2>5. PICK P : P = to_cu'
    OBVIOUS
  <2>6. PICK P0 : P0 = to_cu
    OBVIOUS
  <2>7. Assoc(P0) /\ P = [P0 EXCEPT ![d] = Append(@, n)]
    BY ONLY <2>2, <2>4, <2>5, <2>6
  <2>8. ASSUME NEW i
        PROVE  /\ Announced(P, i) => Announced(P0, i) \/ Announces(n, i)
               /\ Named(P, i) => Named(P0, i) \/ Names(n, i)
    BY ONLY <2>7, SentKinds, ZenonT(60)
  <2>9. QED BY <2>3, <2>5, <2>6, <2>8
<1>8. OldsThere(mac', to_du')
  BY <1>4, <1>5, OldsTaken DEF OldNow
<1>9. Served(ue', mac', to_cu', to_du')
  BY <1>3, <1>4, <1>6, <1>7, ServedStep DEF OldNow, InUse
<1>10. QED BY <1>3, <1>4, <1>6, <1>7, <1>8, <1>9, DuKeepsOld

LEMMA UeReestablishesOld ==
    ASSUME Base, IInv, OldNow, NEW d \in Dus, UeReestablishes(d)
    PROVE  OldNow'
<1>1. Cardinality(UsedIds(mac)) <= MaxEvents
  BY ReestablishRoom
<1>2. /\ ctx' = ctx /\ up' = up /\ to_du' = to_du
      /\ ue' = [ue EXCEPT !.next = [du |-> d, id |-> NewId, why |-> "reest"]]
      /\ mac' = [mac EXCEPT ![NewId] = [du |-> d, cu |-> 0, st |-> "active"]]
      /\ Sent(d, [t |-> "reest_req", pci |-> ue.du, rnti |-> ue.id, id |-> NewId])
  BY DEF UeReestablishes, cuVars
<1>3. /\ MacKeeps(mac, mac') /\ NewId \in Ids /\ ~Used(mac, NewId)
      /\ Unharmed(mac', up', NewId)
      /\ \A i \in Ids : Unharmed(mac, up, i) => Unharmed(mac', up', i)
      /\ \A i \in Ids : mac[i].st \in {"active", "failed"} => mac'[i].st \in {"active", "failed"}
  <2>1. 0 \in 0..MaxEvents + 1
    BY BoundAssumption
  <2>2. QED BY <1>1, <1>2, <2>1, NewContextOld
<1>4. \A i : /\ Announced(to_cu', i) => Announced(to_cu, i) \/ i = NewId
             /\ Named(to_cu', i) => Named(to_cu, i) \/ i = ue.id
  <2>1. PICK n : n = [t |-> "reest_req", pci |-> ue.du, rnti |-> ue.id, id |-> NewId]
    OBVIOUS
  <2>2. to_cu' = [to_cu EXCEPT ![d] = Append(@, n)]
    BY <1>2, <2>1 DEF Sent
  <2>3. \A i : (Announces(n, i) => i = NewId) /\ (Names(n, i) => i = ue.id)
    BY <2>1 DEF Announces, Names
  <2>4. Assoc(to_cu)
    BY Associations
  <2>5. PICK P : P = to_cu'
    OBVIOUS
  <2>6. PICK P0 : P0 = to_cu
    OBVIOUS
  <2>7. Assoc(P0) /\ P = [P0 EXCEPT ![d] = Append(@, n)]
    BY ONLY <2>2, <2>4, <2>5, <2>6
  <2>8. ASSUME NEW i
        PROVE  /\ Announced(P, i) => Announced(P0, i) \/ Announces(n, i)
               /\ Named(P, i) => Named(P0, i) \/ Names(n, i)
    BY ONLY <2>7, SentKinds, ZenonT(60)
  <2>9. QED BY <2>3, <2>5, <2>6, <2>8
<1>5. OldsThere(mac', to_du')
  BY <1>2, <1>3, OldsSame DEF OldNow
<1>6. ue'.id = ue.id /\ ue'.next.why = "reest"
  BY <1>2 DEF Base, UeBase, IsUe
<1>7. Served(ue', mac', to_cu', to_du')
  BY <1>2, <1>3, <1>4, <1>6, ServedStep DEF OldNow, InUse
<1>8. QED BY <1>2, <1>3, <1>4, <1>5, <1>7, DuKeepsOld

LEMMA UeStepsOld ==
    ASSUME Base, IInv, OldNow, UeArrives \/ UeLosesRadio \/ UeGivesUp
    PROVE  OldNow'
<1>1. /\ mac' = mac /\ up' = up /\ to_du' = to_du /\ ctx' = ctx
      /\ to_cu' = to_cu \/ (UeArrives /\ Says(ue.next.du, UeMessage))
  BY UeStepsEffect
<1>2. \A i : (Announced(to_cu', i) => Announced(to_cu, i)) /\ (Named(to_cu', i) => Named(to_cu, i))
  <2>1. UeMessage.t # "setup_resp"
    BY DEF UeMessage
  <2>2. QED BY <1>1, <2>1, SaysNothing
<1>3. /\ \/ ue'.id = ue.id \/ ue'.id = 0 \/ (ue.next.why = "ho" /\ ue'.id = ue.next.id)
      /\ ue'.next = ue.next \/ ue'.next = Nowhere
  <2>1. ue = [du |-> ue.du, id |-> ue.id, here |-> ue.here, next |-> ue.next]
    BY DEF Base, UeBase, IsUe
  <2>2. CASE UeArrives
    BY <2>2 DEF UeArrives
  <2>3. CASE UeLosesRadio
    BY <2>1, <2>3 DEF UeLosesRadio
  <2>4. CASE UeGivesUp
    BY <2>1, <2>4 DEF UeGivesUp
  <2>5. QED BY <2>2, <2>3, <2>4
<1>4. Nowhere.why # "ho" /\ 0 \notin Ids
  BY IdsFinite DEF Nowhere
<1>5. Served(ue', mac', to_cu', to_du')
  <2>1. \A i \in Ids : InUse(ue', to_cu', to_du', i) => InUse(ue, to_cu, to_du, i)
    BY <1>1, <1>2, <1>3, <1>4 DEF InUse
  <2>2. QED BY <1>1, <2>1, SameMacKeeps, ServedStep DEF OldNow
<1>6. OldsThere(mac', to_du')
  BY <1>1 DEF OldNow
<1>7. QED BY <1>1, <1>2, <1>5, <1>6, SameMacKeeps, DuKeepsOld

LEMMA UeReturnsOld ==
    ASSUME Base, IInv, OldNow, UeReturns
    PROVE  OldNow'
<1>1. /\ MacSteps /\ up' = up /\ to_du' = to_du /\ ctx' = ctx /\ ue.id \in Ids
      /\ ue'.id = ue.id /\ ue'.next = ue.next
      /\ mac' = mac \/ (mac[ue.id].st = "failed" /\ mac' = [mac EXCEPT ![ue.id].st = "active"])
      /\ to_cu' = to_cu \/ Says(ue.du, RequiredMessage)
  BY UeReturnsEffect
<1>2. MacKeeps(mac, mac')
  BY <1>1, MacStepsKeep
<1>3. \A k \in Ids : /\ mac'[k].du = mac[k].du /\ mac'[k].cu = mac[k].cu
                     /\ mac'[k] = mac[k] \/ (mac[k].st = "failed" /\ mac'[k].st = "active")
  <2>1. mac \in [Ids -> MacSet]
    BY DEF Base, MacBase
  <2>2. QED BY <1>1, <2>1 DEF MacSet
<1>4. \A k : (Announced(to_cu', k) => Announced(to_cu, k)) /\ (Named(to_cu', k) => Named(to_cu, k))
  <2>1. RequiredMessage.t # "setup_resp"
    BY DEF RequiredMessage
  <2>2. QED BY <1>1, <2>1, SaysNothing
<1>5. \A k \in Ids : Unharmed(mac, up, k) => Unharmed(mac', up', k)
  BY <1>1, <1>3 DEF Unharmed
<1>6. OldsThere(mac', to_du')
  <2>1. OldsThere(mac, to_du)
    BY DEF OldNow
  <2>2. OldsThere(mac', to_du)
    BY <1>2, <1>3, <2>1, OldsSame
  <2>3. QED BY <1>1, <2>2
<1>7. Served(ue', mac', to_cu', to_du')
  BY <1>1, <1>2, <1>4, ServedStep DEF OldNow, InUse
<1>8. QED BY <1>1, <1>2, <1>4, <1>5, <1>6, <1>7, DuKeepsOld

LEMMA DuAnswersOld ==
    ASSUME Base, IInv, OldNow, NEW d \in Dus,
           DuBearersRequest(d) \/ DuMoreBearersRequest(d) \/ DuModificationRefuse(d)
    PROVE  OldNow'
<1>1. ctx' = ctx
  BY DEF DuBearersRequest, DuMoreBearersRequest, DuModificationRefuse, cuVars
<1>2. CASE Dies(d)
  BY <1>1, <1>2, DiesOld
<1>3. CASE /\ Taken(d) /\ mac' = mac /\ ue' = ue
           /\ to_cu' = to_cu \/ \E t : Says(d, Reply(d, t)) /\ t # "setup_resp"
  <2>1. up' = up /\ MacKeeps(mac, mac') /\ TailOf(to_du, to_du', d)
    BY <1>3, SameMacKeeps, TakesTail DEF Taken
  <2>2. \A i : /\ Ended(to_du', i) => Ended(to_du, i)
               /\ Named(to_du', i) => Named(to_du, i)
    BY <2>1, TakenKindsOf
  <2>3. \A i : (Announced(to_cu', i) => Announced(to_cu, i)) /\ (Named(to_cu', i) => Named(to_cu, i))
    <3>1. \A t : Reply(d, t).t = t
      BY DEF Reply
    <3>2. QED BY <1>3, <3>1, SaysNothing
  <2>4. OldsThere(mac', to_du')
    BY <1>3, <2>1, OldsTaken DEF OldNow
  <2>5. Served(ue', mac', to_cu', to_du')
    <3>1. \A i \in Ids : InUse(ue', to_cu', to_du', i) => InUse(ue, to_cu, to_du, i)
      BY <1>3, <2>2, <2>3 DEF InUse
    <3>2. QED BY <2>1, <3>1, ServedStep DEF OldNow
  <2>6. QED BY <1>1, <1>3, <2>1, <2>2, <2>3, <2>4, <2>5, DuKeepsOld
<1>4. QED
  <2>1. \A t : t \in {"bearers_resp", "more_bearers_resp", "rel_req"} => t # "setup_resp"
    OBVIOUS
  <2>2. QED BY <1>2, <1>3, <2>1, DuAnswersEffect

(* The DU has the context that it is to take over.                          *)
LEMMA DuDlRrcOld ==
    ASSUME Base, IInv, OldNow, NEW d \in Dus, DuDlRrc(d)
    PROVE  OldNow' /\ no_old' = no_old
<1>1. PICK m : m = Head(to_du[d])
  OBVIOUS
<1>2. to_du[d] # <<>> /\ m.t = "dl" /\ DuMsgOK(m, mac) /\ MacSteps
  BY <1>1, DuDlRrcEffect
<1>3. ctx' = ctx /\ MacKeeps(mac, mac') /\ m.cu \in CuIds /\ m.cu # 0
  BY <1>2, MacStepsKeep, IdsFinite DEF DuDlRrc, cuVars, DuMsgOK
<1>4. m.old = 0 \/ Known(d, m.old)
  <2>1. IsSeq(to_du[d])
    BY Associations DEF Assoc
  <2>2. 1 \in 1..Len(to_du[d]) /\ m = to_du[d][1]
    BY <1>1, <1>2, <2>1, SeqTail
  <2>3. OldOK(mac, d, to_du[d], 1)
    BY <2>2 DEF OldNow, OldsThere
  <2>4. QED BY <1>2, <2>2, <2>3 DEF OldOK, MadeIn, Known
<1>5. /\ no_old' = no_old /\ DuTakes(d) /\ up' = up
      /\ \/ ~Known(d, m.id) /\ mac' = mac /\ ue' = ue /\ to_cu' = to_cu
         \/ /\ Known(d, m.id)
            /\ mac' = [i \in Ids |->
                     IF i = m.id /\ mac[i].cu = 0 THEN [mac[i] EXCEPT !.cu = m.cu]
                     ELSE IF i = m.old THEN [mac[i] EXCEPT !.st = "gone"]
                     ELSE mac[i]]
            /\ (UeAnswers(d, m) \/ (ue' = ue /\ to_cu' = to_cu))
  BY <1>1, <1>4 DEF DuDlRrc, duVars
<1>6. Taken(d) /\ TailOf(to_du, to_du', d)
  BY <1>2, <1>5, TakesTail DEF Taken
<1>7. \A i : /\ Ended(to_du', i) => Ended(to_du, i)
             /\ Named(to_du', i) => Named(to_du, i)
             /\ Ends(m, i) => Ended(to_du, i)
  BY <1>1, <1>6, TakenKindsOf
<1>8. \A i : (Announced(to_cu', i) => Announced(to_cu, i)) /\ (Named(to_cu', i) => Named(to_cu, i))
  <2>1. CASE to_cu' = to_cu
    BY <2>1
  <2>2. CASE Sent(d, Answered(d, m))
    <3>1. Says(d, Answered(d, m)) /\ Answered(d, m).t # "setup_resp"
      BY <2>2 DEF Says, CuMsgOK, Answered
    <3>2. QED BY <3>1, SaysNothing
  <2>3. QED BY <1>5, <2>1, <2>2 DEF UeAnswers, Answered
<1>9. \A i \in Ids :
         /\ mac'[i].st = mac[i].st \/ (i = m.old /\ Known(d, m.old))
         /\ mac'[i].cu = mac[i].cu \/ (i = m.id /\ Known(d, m.id) /\ mac'[i].st = mac[i].st)
         /\ mac'[i].du = mac[i].du
         /\ i = m.id /\ Known(d, m.id) => mac'[i].cu # 0
  <2>1. \A i \in Ids : mac[i] \in MacSet
    BY DEF Base, MacBase
  <2>2. QED BY <1>3, <1>4, <1>5, <2>1, IdsFinite DEF MacSet
<1>10. \A i : Ends(m, i) <=> i = m.old
  BY <1>2 DEF Ends
<1>11. \A i \in Ids : ~Ended(to_du, i) /\ Unharmed(mac, up, i) => Unharmed(mac', up', i)
  <2> SUFFICES ASSUME NEW i \in Ids, ~Ended(to_du, i), Unharmed(mac, up, i) PROVE Unharmed(mac', up', i)
    OBVIOUS
  <2>1. mac'[i].st = mac[i].st /\ mac'[i].du = mac[i].du
    BY <1>7, <1>9, <1>10
  <2>2. CASE mac'[i].cu = mac[i].cu
    BY <1>5, <2>1, <2>2 DEF Unharmed
  <2>3. CASE i = m.id /\ Known(d, m.id)
    <3>1. mac[i].st \in {"none", "active", "failed", "releasing", "gone"} /\ mac[i].st \notin {"none", "gone"}
      BY <2>3 DEF Known, Base, MacBase, MacSet
    <3>2. QED BY <2>1, <3>1 DEF Unharmed
  <2>4. QED BY <1>9, <2>2, <2>3
<1>12. OldsThere(mac', to_du')
  <2>1. \A i \in Ids : /\ mac[i].du \in Dus /\ mac[i].st \in {"active", "failed"}
                       /\ ~(mac[i].du = d /\ Ends(Head(to_du[d]), i))
                       => mac'[i].st \in {"active", "failed"}
    BY <1>1, <1>9, <1>10 DEF Known
  <2>2. QED BY <1>3, <1>6, <2>1, OldsTaken DEF OldNow
<1>13. /\ ue'.id = ue.id \/ (ue'.id = m.id /\ Known(d, m.id))
       /\ ue'.next = ue.next \/ ue'.next = Nowhere
  BY <1>5 DEF UeAnswers
<1>14. Served(ue', mac', to_cu', to_du')
  <2>1. Nowhere.why # "ho"
    BY DEF Nowhere
  <2>2. \A i \in Ids : InUse(ue', to_cu', to_du', i) => InUse(ue, to_cu, to_du, i) \/ mac'[i].cu # 0
    BY <1>7, <1>8, <1>9, <1>13, <2>1 DEF InUse
  <2>3. QED BY <1>3, <2>2, ServedStep DEF OldNow
<1>15. QED BY <1>3, <1>5, <1>7, <1>8, <1>11, <1>12, <1>14, DuKeepsOld

-----------------------------------------------------------------------------
(* The CU keeps it.                                                         *)

(* A handler gives a UE at most the one ID n that was announced to it, and  *)
(* ends only contexts that their UE no longer has or whose release was      *)
(* commanded.                                                               *)
LEMMA CuKeepsOld ==
    ASSUME Base, IInv, OldNow, mac' = mac, up' = up, ue' = ue,
           \A i \in Ids : Announced(to_cu', i) => Announced(to_cu, i),
           \A i \in Ids : Named(to_cu', i) => Named(to_cu, i),
           \A i \in Ids : Named(to_du', i) => Named(to_du, i) \/ mac[i].cu # 0,
           NEW c0, NEW n, n \in Ids => Announced(to_cu, n) /\ ~Announced(to_cu', n),
           \A c \in CuIds : \A i \in Ids : Uses(ctx'[c], i) =>
               \/ Uses(ctx[c], i) /\ (~ctx'[c].an_release => ~ctx[c].an_release)
               \/ i = n /\ c = c0,
           \A c \in CuIds : SourceOK(ctx'[c], mac),
           \A i \in Ids : Ended(to_du', i) =>
               \/ Ended(to_du, i)
               \/ \E c \in CuIds : Uses(ctx[c], i) /\ (~Uses(ctx'[c], i) \/ ctx'[c].an_release),
           OldsThere(mac, to_du')
    PROVE  OldNow'
<1>1. OwnIds(ctx, mac, to_cu) /\ Spared(ctx, mac, up, to_cu, to_du) /\ Served(ue, mac, to_cu, to_du)
  BY DEF OldNow
<1>2. OwnIds(ctx', mac, to_cu')
  <2>1. ASSUME NEW c \in CuIds, NEW k \in CuIds, NEW i \in Ids, Uses(ctx'[c], i), Uses(ctx'[k], i)
        PROVE  c = k
    BY <1>1, <2>1 DEF OwnIds
  <2>2. ASSUME NEW c \in CuIds, NEW i \in Ids, Announced(to_cu', i) PROVE ~Uses(ctx'[c], i)
    BY <1>1, <2>2 DEF OwnIds
  <2>3. QED BY <2>1, <2>2 DEF OwnIds
<1>3. Spared(ctx', mac, up, to_cu', to_du')
  <2>1. ASSUME NEW i \in Ids, Ended(to_du', i) PROVE Used(mac, i)
    <3>1. \A c \in CuIds : Uses(ctx[c], i) => Used(mac, i)
      BY <1>1, UsesUsed DEF OwnIds
    <3>2. QED BY <1>1, <2>1, <3>1 DEF Spared
  <2>2. ASSUME NEW c \in CuIds, NEW i \in Ids, Uses(ctx'[c], i), ~ctx'[c].an_release
        PROVE  ~Ended(to_du', i) /\ Unharmed(mac, up, i)
    <3>1. CASE Uses(ctx[c], i) /\ ~ctx[c].an_release
      <4>1. ~Ended(to_du, i) /\ Unharmed(mac, up, i)
        BY <1>1, <3>1 DEF Spared
      <4>2. \A k \in CuIds : Uses(ctx[k], i) => k = c
        BY <1>1, <3>1 DEF OwnIds
      <4>3. QED BY <2>2, <4>1, <4>2
    <3>2. CASE i = n
      <4>1. ~Ended(to_du, i) /\ Unharmed(mac, up, i)
        BY <1>1, <3>2 DEF Spared
      <4>2. \A k \in CuIds : ~Uses(ctx[k], i)
        BY <1>1, <3>2 DEF OwnIds
      <4>3. QED BY <4>1, <4>2
    <3>3. QED BY <2>2, <3>1, <3>2
  <2>3. ASSUME NEW i \in Ids, Announced(to_cu', i) PROVE ~Ended(to_du', i) /\ Unharmed(mac, up, i)
    <3>1. ~Ended(to_du, i) /\ Unharmed(mac, up, i)
      BY <1>1, <2>3 DEF Spared
    <3>2. \A k \in CuIds : ~Uses(ctx[k], i)
      BY <1>1, <2>3 DEF OwnIds
    <3>3. QED BY <3>1, <3>2
  <2>4. QED BY <2>1, <2>2, <2>3 DEF Spared
<1>4. Served(ue, mac, to_cu', to_du')
  BY <1>1 DEF Served, InUse
<1>5. QED BY <1>2, <1>3, <1>4 DEF OldNow

(* What the CU takes, and what it sends.                                    *)
LEMMA TookOld ==
    ASSUME Base, CuTookIt, NEW i
    PROVE  (Announced(to_cu', i) => Announced(to_cu, i)) /\ (Named(to_cu', i) => Named(to_cu, i))
<1>1. CASE to_cu' = to_cu
  BY <1>1
<1>2. ASSUME NEW d \in Dus, to_cu[d] # <<>>, CuTakes(d)
      PROVE  (Announced(to_cu', i) => Announced(to_cu, i)) /\ (Named(to_cu', i) => Named(to_cu, i))
  <2>1. TailOf(to_cu, to_cu', d)
    BY <1>2, TakesTail
  <2>2. QED BY <2>1, TakenKindsOf
<1>3. QED BY <1>1, <1>2 DEF CuTookIt

LEMMA QueuedOld ==
    ASSUME Base, IInv, OldNow, NEW d, NEW m, to_du' = Queued(to_du, d, m), m.t = "dl" => m.old = 0
    PROVE  /\ OldsThere(mac, to_du')
           /\ \A i : Ended(to_du', i) => Ended(to_du, i) \/ Ends(m, i)
           /\ \A i : Named(to_du', i) => Named(to_du, i) \/ Names(m, i)
<1>1. Assoc(to_du) /\ OldsThere(mac, to_du)
  BY Associations DEF OldNow
<1>2. OldsThere(mac, to_du')
  BY <1>1, OldsQueued
<1>3. QED BY <1>1, <1>2, QueuedEnds

LEMMA TransferOld ==
    ASSUME Base, IInv, OldNow, NEW c, NEW what, to_du' = Transfer(to_du, c, 0, what)
    PROVE  /\ OldsThere(mac, to_du')
           /\ \A i \in Ids : Ended(to_du', i) => Ended(to_du, i)
           /\ \A i \in Ids : Named(to_du', i) => Named(to_du, i)
<1>1. CASE to_du' = to_du
  BY <1>1 DEF OldNow
<1>2. CASE to_du' = Queued(to_du, ctx'[c].du, DlRrc(c, ctx'[c].id, 0, what, ctx'[c].cg))
  <2>1. PICK m : m = DlRrc(c, ctx'[c].id, 0, what, ctx'[c].cg)
    OBVIOUS
  <2>2. m.t = "dl" /\ m.old = 0
    BY <2>1 DEF DlRrc
  <2>3. \A i \in Ids : ~Ends(m, i) /\ ~Names(m, i)
    BY <2>2, IdsFinite DEF Ends, Names
  <2>4. PICK e : e = ctx'[c].du
    OBVIOUS
  <2>5. to_du' = Queued(to_du, e, m)
    BY <1>2, <2>1, <2>4
  <2>6. QED BY <2>2, <2>3, <2>5, QueuedOld
<1>3. QED BY <1>1, <1>2 DEF Transfer

(* A handler that leaves the IDs of a UE alone, or ends its handover.       *)
SameIds(r, r2) ==
    /\ r2.id = r.id /\ r2.an_release = r.an_release
    /\ ~On(r2) \/ (r2.ho = r.ho /\ r2.du = r.du)

LEMMA SameIdsOld ==
    ASSUME NEW r, NEW r2, SameIds(r, r2), NEW M
    PROVE  (\A i : Uses(r2, i) => Uses(r, i)) /\ (SourceOK(r, M) => SourceOK(r2, M))
BY DEF SameIds, Uses, SourceOK, On

LEMMA CuPlainOld ==
    ASSUME Base, IInv, OldNow, mac' = mac, up' = up, ue' = ue, CuTookIt,
           \A c \in CuIds : SameIds(ctx[c], ctx'[c]),
           \/ to_du' = to_du
           \/ \E c, what : to_du' = Transfer(to_du, c, 0, what)
           \/ \E d, m : to_du' = Queued(to_du, d, m) /\ m.t \in {"bearers", "more_bearers", "refuse"}
    PROVE  OldNow'
<1>1. /\ OldsThere(mac, to_du')
      /\ \A i \in Ids : Ended(to_du', i) => Ended(to_du, i)
      /\ \A i \in Ids : Named(to_du', i) => Named(to_du, i)
  <2>1. CASE to_du' = to_du
    BY <2>1 DEF OldNow
  <2>2. CASE \E c, what : to_du' = Transfer(to_du, c, 0, what)
    BY <2>2, TransferOld
  <2>3. ASSUME NEW d, NEW m, to_du' = Queued(to_du, d, m), m.t \in {"bearers", "more_bearers", "refuse"}
        PROVE  /\ OldsThere(mac, to_du')
               /\ \A i \in Ids : Ended(to_du', i) => Ended(to_du, i)
               /\ \A i \in Ids : Named(to_du', i) => Named(to_du, i)
    <3>1. \A i : ~Ends(m, i) /\ ~Names(m, i)
      BY <2>3 DEF Ends, Names
    <3>2. QED BY <2>3, <3>1, QueuedOld
  <2>4. QED BY <2>1, <2>2, <2>3
<1>2. \A i : (Announced(to_cu', i) => Announced(to_cu, i)) /\ (Named(to_cu', i) => Named(to_cu, i))
  BY TookOld
<1>3. \A c \in CuIds : /\ \A i : Uses(ctx'[c], i) => Uses(ctx[c], i)
                       /\ SourceOK(ctx'[c], mac) /\ ctx'[c].an_release = ctx[c].an_release
  BY SameIdsOld DEF OldNow, OwnIds, SameIds
<1>4. PICK n : n = 0
  OBVIOUS
<1>5. n \notin Ids
  BY <1>4, IdsFinite
<1>6. QED BY <1>1, <1>2, <1>3, <1>5, CuKeepsOld

LEMMA FieldsOld ==
    ASSUME Base, IInv, NEW c \in CuIds, NEW v, NEW w,
           \/ ctx' = [ctx EXCEPT ![c].xids = v]
           \/ ctx' = [ctx EXCEPT ![c].sec = v]
           \/ ctx' = [ctx EXCEPT ![c].ho = NoHo]
           \/ ctx' = [ctx EXCEPT ![c].xids = v, ![c].ho = NoHo]
           \/ ctx' = [ctx EXCEPT ![c].cg = w, ![c].xids = v]
    PROVE  \A k \in CuIds : SameIds(ctx[k], ctx'[k])
<1>1. ctx = [k \in CuIds |-> ctx[k]] /\ \A k \in CuIds : ctx[k] \in CtxSet
  BY BaseParts
<1>2. \A k \in CuIds : k # c => ctx'[k] = ctx[k]
  BY <1>1
<1>3. PICK r : r = ctx[c]
  OBVIOUS
<1>4. PICK s : s = ctx'[c]
  OBVIOUS
<1>5. \/ s = [r EXCEPT !.xids = v]
      \/ s = [r EXCEPT !.sec = v]
      \/ s = [r EXCEPT !.ho = NoHo]
      \/ s = [r EXCEPT !.xids = v, !.ho = NoHo]
      \/ s = [r EXCEPT !.cg = w, !.xids = v]
  BY <1>1, <1>3, <1>4
<1>6. r \in CtxSet
  BY <1>1, <1>3
<1>7. s.id = r.id /\ s.an_release = r.an_release /\ s.du = r.du /\ (s.ho = r.ho \/ s.ho = NoHo)
  BY ONLY <1>5, <1>6 DEF CtxSet
<1>8. SameIds(r, s)
  BY ONLY <1>7 DEF SameIds, On
<1>9. QED BY <1>2, <1>3, <1>4, <1>8 DEF SameIds

(* Handlers that give no ID.                                                *)
LEMMA NoIdOld ==
    ASSUME Base, IInv, OldNow, mac' = mac, up' = up, ue' = ue, CuTookIt,
           \A i \in Ids : Named(to_du', i) => Named(to_du, i),
           \A c \in CuIds : \A i \in Ids : Uses(ctx'[c], i) =>
               Uses(ctx[c], i) /\ (~ctx'[c].an_release => ~ctx[c].an_release),
           \A c \in CuIds : SourceOK(ctx'[c], mac),
           \A i \in Ids : Ended(to_du', i) =>
               \/ Ended(to_du, i)
               \/ \E c \in CuIds : Uses(ctx[c], i) /\ (~Uses(ctx'[c], i) \/ ctx'[c].an_release),
           OldsThere(mac, to_du')
    PROVE  OldNow'
<1>1. \A i : (Announced(to_cu', i) => Announced(to_cu, i)) /\ (Named(to_cu', i) => Named(to_cu, i))
  BY TookOld
<1>2. PICK n : n = 0
  OBVIOUS
<1>3. n \notin Ids
  BY <1>2, IdsFinite
<1>4. QED BY <1>1, <1>3, CuKeepsOld

LEMMA ReleasesOld ==
    ASSUME Base, IInv, OldNow, NEW d, NEW c, NEW j, NEW a, to_du' = Queued(to_du, d, Release(c, j, a))
    PROVE  /\ OldsThere(mac, to_du')
           /\ \A i : Ended(to_du', i) => Ended(to_du, i) \/ i = j
           /\ \A i : Named(to_du', i) => Named(to_du, i)
<1>1. PICK m : m = Release(c, j, a)
  OBVIOUS
<1>2. m.t = "release" /\ m.id = j
  BY <1>1 DEF Release
<1>3. \A i : (Ends(m, i) => i = j) /\ ~Names(m, i)
  BY <1>2 DEF Ends, Names
<1>4. QED BY <1>1, <1>2, <1>3, QueuedOld

LEMMA RemovedOld ==
    ASSUME Base, IInv, OldNow, mac' = mac, up' = up, ue' = ue, CuTookIt, to_du' = to_du,
           NEW c \in CuIds, Removed(c)
    PROVE  OldNow'
<1>1. ctx'[c] = NoCtx /\ \A k \in CuIds : k # c => ctx'[k] = ctx[k]
  BY BaseParts DEF Removed
<1>2. \A i \in Ids : ~Uses(NoCtx, i)
  BY NoHoOK, IdsFinite DEF Uses
<1>3. SourceOK(NoCtx, mac)
  BY NoHoOK DEF SourceOK
<1>4. OldsThere(mac, to_du') /\ \A k \in CuIds : SourceOK(ctx[k], mac)
  BY DEF OldNow, OwnIds
<1>5. QED BY <1>1, <1>2, <1>3, <1>4, NoIdOld

LEMMA ModificationResponseOld ==
    ASSUME Base, IInv, InTurnNow, OldNow, NEW d \in Dus, ModificationResponse(d)
    PROVE  OldNow'
<1>1. PICK c : c = Head(to_cu[d]).cu
  OBVIOUS
<1>2. mac' = mac /\ up' = up /\ ue' = ue /\ to_du' = to_du /\ CuTookIt
  BY DEF ModificationResponse, duVars, Took, CuTookIt
<1>3. CASE ctx' = ctx
  BY <1>2, <1>3, CuPlainOld DEF SameIds
<1>4. CASE Live(c) /\ HandingOver(c)
           /\ ctx' = [ctx EXCEPT ![c].du = ctx[c].ho.tgt, ![c].id = ctx[c].ho.tgt_id]
  <2>1. c \in CuIds /\ On(ctx[c]) /\ CtxOK(ctx[c], c, mac) /\ SourceOK(ctx[c], mac) /\ ctx[c] \in CtxSet
    BY <1>4, BaseParts DEF Live, HandingOver, On, InTurnNow, InTurn, Fits, OldNow, OwnIds
  <2>2. /\ \A k \in CuIds : k # c => ctx'[k] = ctx[k]
        /\ ctx'[c] = [ctx[c] EXCEPT !.du = ctx[c].ho.tgt, !.id = ctx[c].ho.tgt_id]
    BY <1>4, <2>1, BaseParts
  <2>3. /\ ctx'[c].du = ctx[c].ho.tgt /\ ctx'[c].id = ctx[c].ho.tgt_id /\ ctx'[c].ho = ctx[c].ho
        /\ ctx'[c].an_release = ctx[c].an_release
    BY <2>1, <2>2 DEF CtxSet
  <2>4. \A i : Uses(ctx'[c], i) => Uses(ctx[c], i)
    BY <2>1, <2>3 DEF Uses, On
  <2>5. SourceOK(ctx'[c], mac)
    BY <2>1, <2>3 DEF SourceOK, CtxOK, On
  <2>6. OldsThere(mac, to_du') /\ \A k \in CuIds : SourceOK(ctx[k], mac)
    BY <1>2 DEF OldNow, OwnIds
  <2>7. QED BY <1>2, <2>2, <2>3, <2>4, <2>5, <2>6, NoIdOld
<1>5. QED BY <1>1, <1>3, <1>4 DEF ModificationResponse

(* A handover ends at its target: the source releases its context.          *)
LEMMA SwitchedOld ==
    ASSUME Base, IInv, InTurnNow, OldNow, mac' = mac, up' = up, ue' = ue, CuTookIt,
           NEW c \in CuIds, On(ctx[c]), Switched(c),
           \A k \in CuIds : SameIds(ctx[k], ctx'[k]), ctx'[c].ho = NoHo,
           NEW d, to_du' = Queued(to_du, d, Release(c, ctx[c].ho.src_id, FALSE))
    PROVE  OldNow'
<1>1. PICK j : j = ctx[c].ho.src_id
  OBVIOUS
<1>2. CtxOK(ctx[c], c, mac) /\ SourceOK(ctx[c], mac)
  BY DEF InTurnNow, InTurn, Fits, OldNow, OwnIds
<1>3. Uses(ctx[c], j) /\ ctx[c].id # j
  BY <1>1, <1>2 DEF Uses, CtxOK, SourceOK, Switched
<1>4. ~Uses(ctx'[c], j)
  BY <1>3 DEF SameIds, Uses, On
<1>5. /\ OldsThere(mac, to_du')
      /\ \A i : Ended(to_du', i) => Ended(to_du, i) \/ i = j
      /\ \A i : Named(to_du', i) => Named(to_du, i)
  <2>1. to_du' = Queued(to_du, d, Release(c, j, FALSE))
    BY <1>1
  <2>2. QED BY <2>1, ReleasesOld
<1>6. \A k \in CuIds : /\ \A i : Uses(ctx'[k], i) => Uses(ctx[k], i)
                       /\ SourceOK(ctx'[k], mac) /\ ctx'[k].an_release = ctx[k].an_release
  BY SameIdsOld DEF OldNow, OwnIds, SameIds
<1>7. QED BY <1>3, <1>4, <1>5, <1>6, NoIdOld

LEMMA ReconfigurationCompleteOld ==
    ASSUME Base, IInv, InTurnNow, OldNow, NEW d \in Dus, ReconfigurationComplete(d), ~untimely'
    PROVE  OldNow'
<1>1. PICK m : m = Head(to_cu[d])
  OBVIOUS
<1>2. PICK c : c = m.cu
  OBVIOUS
<1>3. mac' = mac /\ up' = up /\ ue' = ue /\ CuTookIt
  BY DEF ReconfigurationComplete, duVars, Took, CuTookIt
<1>4. CASE ctx' = ctx /\ to_du' = to_du
  BY <1>3, <1>4, CuPlainOld DEF SameIds
<1>5. CASE Live(c) /\ ctx' = [ctx EXCEPT ![c].xids = @ \ {m.what}, ![c].ho = NoHo]
  <2>1. PICK v : v = ctx[c].xids \ {m.what}
    OBVIOUS
  <2>2. ctx' = [ctx EXCEPT ![c].xids = v, ![c].ho = NoHo] /\ c \in CuIds
    BY <1>5, <2>1 DEF Live
  <2>3. \A k \in CuIds : SameIds(ctx[k], ctx'[k])
    BY <2>2, FieldsOld
  <2>4. CASE to_du' = to_du
    BY <1>3, <2>3, <2>4, CuPlainOld
  <2>5. CASE /\ HandingOver(c) /\ Switched(c)
             /\ to_du' = Queued(to_du, ctx[c].ho.src, Release(c, ctx[c].ho.src_id, FALSE))
    <3>1. ctx'[c].ho = NoHo
      <4>1. ctx[c] \in CtxSet /\ ctx'[c] = [ctx[c] EXCEPT !.xids = v, !.ho = NoHo]
        BY <2>2, BaseParts
      <4>2. QED BY <4>1 DEF CtxSet
    <3>2. PICK e : e = ctx[c].ho.src
      OBVIOUS
    <3>3. On(ctx[c]) /\ to_du' = Queued(to_du, e, Release(c, ctx[c].ho.src_id, FALSE))
      BY <2>5, <3>2 DEF HandingOver, On
    <3>4. QED BY <1>3, <2>2, <2>3, <2>5, <3>1, <3>3, SwitchedOld
  <2>6. QED BY <1>1, <1>2, <1>5, <2>4, <2>5 DEF ReconfigurationComplete
<1>6. QED BY <1>1, <1>2, <1>4, <1>5 DEF ReconfigurationComplete

LEMMA ReleaseRequestOld ==
    ASSUME Base, IInv, InTurnNow, OldNow, NEW d \in Dus, ReleaseRequest(d), ~untimely'
    PROVE  OldNow'
<1>1. PICK c : c = Head(to_cu[d]).cu
  OBVIOUS
<1>2. mac' = mac /\ up' = up /\ ue' = ue /\ CuTookIt
  BY DEF ReleaseRequest, duVars, Took, CuTookIt
<1>3. CASE ctx' = ctx /\ to_du' = to_du
  BY <1>2, <1>3, CuPlainOld DEF SameIds
<1>4. CASE Live(c) /\ ctx' = [ctx EXCEPT ![c].ho = NoHo]
  <2>1. c \in CuIds /\ \A k \in CuIds : SameIds(ctx[k], ctx'[k])
    BY <1>4, FieldsOld DEF Live
  <2>2. CASE to_du' = to_du
    BY <1>2, <2>1, <2>2, CuPlainOld
  <2>3. CASE /\ HandingOver(c) /\ Switched(c)
             /\ to_du' = Queued(to_du, d, Release(c, ctx[c].ho.src_id, FALSE))
    <3>1. ctx'[c].ho = NoHo
      <4>1. ctx[c] \in CtxSet /\ ctx'[c] = [ctx[c] EXCEPT !.ho = NoHo]
        BY <1>4, <2>1, BaseParts
      <4>2. QED BY <4>1 DEF CtxSet
    <3>2. On(ctx[c])
      BY <2>3 DEF HandingOver, On
    <3>3. QED BY <1>2, <2>1, <2>3, <3>1, <3>2, SwitchedOld
  <2>4. QED BY <1>1, <1>4, <2>2, <2>3 DEF ReleaseRequest
<1>5. QED BY <1>1, <1>3, <1>4 DEF ReleaseRequest

LEMMA ReestablishmentCompleteOld ==
    ASSUME Base, IInv, OldNow, NEW d \in Dus, ReestablishmentComplete(d)
    PROVE  OldNow'
<1>1. PICK c : c = Head(to_cu[d]).cu
  OBVIOUS
<1>2. mac' = mac /\ up' = up /\ ue' = ue /\ CuTookIt
  BY DEF ReestablishmentComplete, duVars, Took, CuTookIt
<1>3. CASE ctx' = ctx /\ to_du' = to_du
  BY <1>2, <1>3, CuPlainOld DEF SameIds
<1>4. CASE /\ Live(c) /\ ctx' = [ctx EXCEPT ![c].xids = (@ \ {"reestab"}) \cup {"reestab_done"}]
           /\ to_du' = Transfer(to_du, c, 0, "reestab_done")
  <2>1. PICK v : v = (ctx[c].xids \ {"reestab"}) \cup {"reestab_done"}
    OBVIOUS
  <2>2. ctx' = [ctx EXCEPT ![c].xids = v] /\ c \in CuIds
    BY <1>4, <2>1 DEF Live
  <2>3. \A k \in CuIds : SameIds(ctx[k], ctx'[k])
    BY <2>2, FieldsOld
  <2>4. QED BY <1>2, <1>4, <2>3, CuPlainOld
<1>5. QED BY <1>1, <1>3, <1>4 DEF ReestablishmentComplete

LEMMA ReleaseCompleteOld ==
    ASSUME Base, IInv, OldNow, NEW d \in Dus, ReleaseComplete(d)
    PROVE  OldNow'
<1>1. PICK c : c = Head(to_cu[d]).cu
  OBVIOUS
<1>2. mac' = mac /\ up' = up /\ ue' = ue /\ CuTookIt /\ to_du' = to_du
  BY DEF ReleaseComplete, duVars, Took, CuTookIt
<1>3. CASE ctx' = ctx
  BY <1>2, <1>3, CuPlainOld DEF SameIds
<1>4. CASE Live(c) /\ Removed(c)
  BY <1>2, <1>4, RemovedOld DEF Live
<1>5. QED BY <1>1, <1>3, <1>4 DEF ReleaseComplete

LEMMA LostConnectionOld ==
    ASSUME Base, IInv, OldNow, NEW d \in Dus, LostConnection(d)
    PROVE  OldNow'
<1>1. mac' = mac /\ up' = up /\ ue' = ue /\ CuTookIt /\ to_du' = to_du
  BY DEF LostConnection, duVars, Took, CuTookIt
<1>2. ASSUME NEW c \in CuIds PROVE SameIds(ctx[c], ctx'[c])
  <2>1. ctx[c] \in CtxSet
    BY BaseParts
  <2>2. PICK e : ctx'[c] = [ctx[c] EXCEPT !.ho = NoHo, !.du = e]
    BY DEF LostConnection
  <2>3. ctx'[c].id = ctx[c].id /\ ctx'[c].an_release = ctx[c].an_release /\ ctx'[c].ho = NoHo
    BY <2>1, <2>2 DEF CtxSet
  <2>4. QED BY <2>3 DEF SameIds, On
<1>3. QED BY <1>1, <1>2, CuPlainOld

LEMMA CuActionsOld ==
    ASSUME Base, IInv, OldNow, NEW c \in CuIds,
           ReleaseCommand(c) \/ AmfReleases(c) \/ SetupSession(c) \/ ModifySession(c) \/ Register(c)
    PROVE  OldNow'
<1>1. mac' = mac /\ up' = up /\ ue' = ue /\ CuTookIt
  BY DEF ReleaseCommand, AmfReleases, SetupSession, ModifySession, Register, duVars, netVars, CuTookIt
<1>2. CASE AmfReleases(c)
  <2>1. ctx' = ctx /\ to_du' = to_du
    BY <1>2 DEF AmfReleases, netVars
  <2>2. QED BY <1>1, <2>1, CuPlainOld DEF SameIds
<1>3. CASE ModifySession(c)
  <2>1. PICK v : v = ctx[c].xids \cup {"session"}
    OBVIOUS
  <2>2. ctx' = [ctx EXCEPT ![c].xids = v] /\ to_du' = Transfer(to_du, c, 0, "session")
    BY <1>3, <2>1 DEF ModifySession
  <2>3. \A k \in CuIds : SameIds(ctx[k], ctx'[k])
    BY <2>2, FieldsOld
  <2>4. QED BY <1>1, <2>2, <2>3, CuPlainOld
<1>4. CASE Register(c)
  <2>1. PICK v : v = TRUE
    OBVIOUS
  <2>2. ctx' = [ctx EXCEPT ![c].sec = v] /\ to_du' = to_du
    BY <1>4, <2>1 DEF Register, netVars
  <2>3. \A k \in CuIds : SameIds(ctx[k], ctx'[k])
    BY <2>2, FieldsOld
  <2>4. QED BY <1>1, <2>2, <2>3, CuPlainOld
<1>5. CASE ReleaseCommand(c)
  <2>1. CASE Removed(c) /\ to_du' = to_du
    BY <1>1, <2>1, RemovedOld
  <2>2. CASE /\ ctx' = [ctx EXCEPT ![c].an_release = TRUE]
             /\ to_du' = Queued(to_du, ctx[c].du, Release(c, ctx[c].id, TRUE))
    <3>1. /\ \A k \in CuIds : k # c => ctx'[k] = ctx[k]
          /\ ctx'[c] = [ctx[c] EXCEPT !.an_release = TRUE] /\ ctx[c] \in CtxSet
      BY <2>2, BaseParts
    <3>2. /\ ctx'[c].id = ctx[c].id /\ ctx'[c].ho = ctx[c].ho /\ ctx'[c].du = ctx[c].du
          /\ ctx'[c].an_release
      BY <3>1 DEF CtxSet
    <3>3. \A i : Uses(ctx'[c], i) => Uses(ctx[c], i)
      BY <3>2 DEF Uses, On
    <3>4. \A k \in CuIds : SourceOK(ctx'[k], mac)
      <4>1. \A k \in CuIds : SourceOK(ctx[k], mac)
        BY DEF OldNow, OwnIds
      <4>2. SourceOK(ctx'[c], mac)
        BY <3>2, <4>1 DEF SourceOK, On
      <4>3. QED BY <3>1, <4>1, <4>2
    <3>5. PICK e : e = ctx[c].du
      OBVIOUS
    <3>6. PICK j : j = ctx[c].id
      OBVIOUS
    <3>7. /\ OldsThere(mac, to_du')
          /\ \A i : Ended(to_du', i) => Ended(to_du, i) \/ i = j
          /\ \A i : Named(to_du', i) => Named(to_du, i)
      BY <2>2, <3>5, <3>6, ReleasesOld
    <3>8. Uses(ctx[c], j)
      BY <3>6 DEF Uses
    <3>9. QED BY <1>1, <3>1, <3>2, <3>3, <3>4, <3>7, <3>8, NoIdOld
  <2>3. QED BY <1>5, <2>1, <2>2 DEF ReleaseCommand
<1>6. CASE SetupSession(c)
  <2>1. PICK m : m = [t |-> IF ctx[c].f1 THEN "more_bearers" ELSE "bearers", cu |-> c, id |-> ctx[c].id]
    OBVIOUS
  <2>2. ctx' = ctx /\ to_du' = Queued(to_du, ctx[c].du, m) /\ m.t \in {"bearers", "more_bearers"}
    BY <1>6, <2>1 DEF SetupSession, cuVars
  <2>3. QED BY <1>1, <2>2, CuPlainOld DEF SameIds
<1>7. QED BY <1>2, <1>3, <1>4, <1>5, <1>6

LEMMA TriggerOld ==
    ASSUME Base, IInv, InTurnNow, OldNow, NEW c \in CuIds, NEW t \in Dus, TriggerF1Ho(c, t)
    PROVE  OldNow'
<1>1. PICK h : h = [src |-> ctx[c].du, src_id |-> ctx[c].id, old_cg |-> ctx[c].cg, tgt |-> t, tgt_id |-> 0]
  OBVIOUS
<1>2. PICK m : m = [t |-> "setup", cu |-> c]
  OBVIOUS
<1>3. /\ mac' = mac /\ up' = up /\ ue' = ue /\ CuTookIt
      /\ ctx' = [ctx EXCEPT ![c].ho = h] /\ to_du' = Queued(to_du, t, m)
      /\ ctx[c].live /\ ctx[c].du # NoDu
  BY <1>1, <1>2 DEF TriggerF1Ho, duVars, CuTookIt, Live
<1>4. CtxOK(ctx[c], c, mac) /\ ctx[c] \in CtxSet /\ 0 \notin Ids
  BY BaseParts, IdsFinite DEF InTurnNow, InTurn, Fits
<1>5. /\ \A k \in CuIds : k # c => ctx'[k] = ctx[k]
      /\ ctx'[c] = [ctx[c] EXCEPT !.ho = h]
  BY <1>3, BaseParts
<1>6. /\ ctx'[c].id = ctx[c].id /\ ctx'[c].ho = h /\ ctx'[c].du = ctx[c].du
      /\ ctx'[c].an_release = ctx[c].an_release
  BY <1>4, <1>5 DEF CtxSet
<1>7. h.src = ctx[c].du /\ h.src_id = ctx[c].id /\ h.tgt_id = 0
  BY <1>1
<1>8. MadeIn(mac, ctx[c].du, ctx[c].id)
  BY <1>3, <1>4 DEF CtxOK
<1>9. \A i \in Ids : Uses(ctx'[c], i) => Uses(ctx[c], i)
  BY <1>4, <1>6, <1>7 DEF Uses
<1>10. SourceOK(ctx'[c], mac)
  BY <1>4, <1>6, <1>7, <1>8 DEF SourceOK, MadeIn
<1>11. \A k \in CuIds : SourceOK(ctx'[k], mac)
  BY <1>5, <1>10 DEF OldNow, OwnIds
<1>12. /\ OldsThere(mac, to_du')
       /\ \A i : Ended(to_du', i) => Ended(to_du, i)
       /\ \A i : Named(to_du', i) => Named(to_du, i)
  <2>1. m.t = "setup" /\ \A i : ~Ends(m, i) /\ ~Names(m, i)
    BY <1>2 DEF Ends, Names
  <2>2. QED BY <1>3, <2>1, QueuedOld
<1>13. QED BY <1>3, <1>5, <1>6, <1>9, <1>11, <1>12, NoIdOld

(* An ID is announced once.                                                 *)
LEMMA AnnouncedOnce ==
    ASSUME Base, IInv, InTurnNow, NEW d \in Dus, NEW m, m = Head(to_cu[d]), CuTakes(d),
           Took(d, "setup_resp") \/ Took(d, "reest_req")
    PROVE  /\ Announced(to_cu, m.id) /\ ~Announced(to_cu', m.id) /\ m.id \in Ids
           /\ MadeIn(mac, d, m.id)
<1>1. to_cu[d] # <<>> /\ m.t \in {"setup_resp", "reest_req"} /\ Announces(m, m.id)
  BY DEF Took, Announces
<1>2. TailOf(to_cu, to_cu', d)
  BY <1>1, TakesTail
<1>3. Announced(to_cu, m.id)
  BY <1>1, <1>2, TakenKindsOf
<1>4. CuMsgOK(m, d, mac)
  BY <1>1, CuTakesOK DEF Base
<1>5. MadeIn(mac, d, m.id) /\ m.id \in Ids
  BY <1>1, <1>4 DEF CuMsgOK, MadeIn
<1>6. \A e \in Dus : \A t : Has(to_cu'[e], to_du[e], t, m.id) => Has(to_cu[e], to_du[e], t, m.id)
  <2>1. ASSUME NEW e \in Dus, NEW t PROVE Has(to_cu'[e], to_du[e], t, m.id) => Has(to_cu[e], to_du[e], t, m.id)
    <3>1. CalmAll({t}, to_cu, to_du, to_cu', to_du)
      BY <1>1, TakeCalm
    <3>2. QED BY <3>1 DEF CalmAll, Calm
  <2>2. QED BY <2>1
<1>7. ASSUME NEW e \in Dus, NEW k \in 1..Len(to_cu'[e]), Announces(to_cu'[e][k], m.id)
      PROVE  Has(to_cu'[e], to_du[e], "made", m.id) \/ Has(to_cu'[e], to_du[e], "asked", m.id)
  <2>1. PICK a : a = to_cu'[e][k]
    OBVIOUS
  <2>2. Is(a, "made", m.id) \/ Is(a, "asked", m.id)
    BY <1>7, <2>1 DEF Announces, Is
  <2>3. QED BY <2>1, <2>2 DEF Has, In
<1>8. CASE Took(d, "setup_resp")
  <2>1. Is(m, "made", m.id)
    BY <1>8 DEF Took, Is
  <2>2. Has(to_cu[d], to_du[d], "made", m.id)
    BY <1>1, <2>1, CuTakeKind DEF Base, CuQ
  <2>3. Some(to_cu, to_du, "made", m.id) /\ Once(to_cu[d], to_du[d], "made", m.id)
    BY <2>2 DEF Some, InTurnNow, InTurn, Fresh
  <2>4. ~Some(to_cu, to_du, "asked", m.id)
    BY <2>3 DEF InTurnNow, InTurn, Fresh
  <2>5. ASSUME NEW e \in Dus PROVE ~Has(to_cu'[e], to_du[e], "made", m.id)
    <3>1. CASE e = d
      <4>1. to_cu'[d] = Tail(to_cu[d]) /\ IsSeq(to_cu[d])
        BY <1>1, CuTakesOK DEF Base, CuQ
      <4>2. QED BY <1>1, <2>1, <2>3, <3>1, <4>1, CuTakeKind
    <3>2. CASE e # d
      <4>1. Has(to_cu'[e], to_du[e], "made", m.id) => MadeIn(mac, e, m.id)
        BY <1>6, KindsOfIds
      <4>2. QED BY <1>5, <3>2, <4>1 DEF MadeIn
    <3>3. QED BY <3>1, <3>2
  <2>6. ASSUME NEW e \in Dus PROVE ~Has(to_cu'[e], to_du[e], "asked", m.id)
    BY <1>6, <2>4 DEF Some
  <2>7. QED BY <1>3, <1>5, <1>7, <2>5, <2>6 DEF Announced
<1>9. CASE Took(d, "reest_req")
  <2>1. Is(m, "asked", m.id)
    BY <1>9 DEF Took, Is
  <2>2. Some(to_cu, to_du, "asked", m.id)
    BY <1>1, <2>1, CuTakeKind DEF Base, CuQ, Some
  <2>3. ~Some(to_cu, to_du, "made", m.id)
    BY <2>2 DEF InTurnNow, InTurn, Fresh
  <2>4. ASSUME NEW e \in Dus PROVE ~Has(to_cu'[e], to_du[e], "made", m.id)
    BY <1>6, <2>3 DEF Some
  <2>5. ASSUME NEW e \in Dus PROVE ~Has(to_cu'[e], to_du[e], "asked", m.id)
    <3>1. ~Has(to_cu'[e], to_du[e], "turn", 0)
      BY <1>9, RequestFacts
    <3>2. ASSUME NEW k, Is(k, "asked", m.id) PROVE Is(k, "turn", 0)
      BY <3>2 DEF Is
    <3>3. QED BY <3>1, <3>2 DEF Has, In
  <2>6. QED BY <1>3, <1>5, <1>7, <2>4, <2>5 DEF Announced
<1>10. QED BY <1>8, <1>9

LEMMA GenerateOld ==
    ASSUME Base, IInv, OldNow, mac' = mac, up' = up, ue' = ue, CuTookIt,
           NEW d \in Dus, NEW c \in CuIds,
           \/ GenerateReconfiguration(c, [ctx[c] EXCEPT !.cg = d])
           \/ GenerateReconfiguration(c, [ctx[c] EXCEPT !.cg = d, !.f1 = TRUE])
    PROVE  OldNow'
<1>1. PICK k : k = ctx[c]
  OBVIOUS
<1>2. PICK r : /\ GenerateReconfiguration(c, r)
               /\ r \in {[k EXCEPT !.cg = d], [k EXCEPT !.cg = d, !.f1 = TRUE]}
  BY <1>1
<1>3. k \in CtxSet
  BY <1>1, BaseParts
<1>4. r \in CtxSet /\ r.id = k.id /\ r.an_release = k.an_release /\ r.du = k.du /\ r.ho = k.ho
  <2>1. CASE r = [k EXCEPT !.cg = d]
    BY ONLY d \in Dus, <1>3, <2>1 DEF CtxSet, AnyDu
  <2>2. CASE r = [k EXCEPT !.cg = d, !.f1 = TRUE]
    BY ONLY d \in Dus, <1>3, <2>2 DEF CtxSet, AnyDu
  <2>3. QED BY <1>2, <2>1, <2>2
<1>5. CASE r.du = NoDu
  <2>1. ctx' = ctx /\ to_du' = to_du
    BY <1>2, <1>5 DEF GenerateReconfiguration
  <2>2. QED BY <2>1, CuPlainOld DEF SameIds
<1>6. CASE r.du # NoDu
  <2>1. PICK s : s = [r EXCEPT !.xids = r.xids \cup {"session"}]
    OBVIOUS
  <2>2. ctx' = [ctx EXCEPT ![c] = s] /\ to_du' = Transfer(to_du, c, 0, "session")
    BY <1>2, <1>6, <2>1 DEF GenerateReconfiguration
  <2>3. s.id = r.id /\ s.an_release = r.an_release /\ s.du = r.du /\ s.ho = r.ho
    BY ONLY <1>4, <2>1 DEF CtxSet
  <2>4. SameIds(k, s)
    BY ONLY <1>4, <2>3 DEF SameIds, On
  <2>5. ctx'[c] = s /\ \A l \in CuIds : l # c => ctx'[l] = ctx[l]
    BY <2>2, BaseParts
  <2>6. \A l \in CuIds : SameIds(ctx[l], ctx'[l])
    BY <1>1, <2>4, <2>5 DEF SameIds
  <2>7. QED BY <2>2, <2>6, CuPlainOld
<1>7. QED BY <1>5, <1>6

LEMMA BearersOld ==
    ASSUME Base, IInv, OldNow, AskedNow, NEW d \in Dus, BearersResponse(d) \/ MoreBearersResponse(d)
    PROVE  OldNow'
<1>1. PICK m : m = Head(to_cu[d])
  OBVIOUS
<1>2. PICK c : c = m.cu
  OBVIOUS
<1>3. /\ to_cu[d] # <<>> /\ m.t \in {"bearers_resp", "more_bearers_resp"} /\ CuTookIt
      /\ mac' = mac /\ up' = up /\ ue' = ue
  BY <1>1 DEF BearersResponse, MoreBearersResponse, Took, duVars, CuTookIt
<1>4. CASE ~Live(c)
  <2>1. ctx' = ctx /\ to_du' = to_du
    BY <1>1, <1>2, <1>4 DEF BearersResponse, MoreBearersResponse
  <2>2. QED BY <1>3, <2>1, CuPlainOld DEF SameIds
<1>5. CASE Live(c)
  <2>1. c \in CuIds /\ ctx[c].live
    BY <1>5 DEF Live
  <2>2. ~On(ctx[c])
    <3>1. Bearers(m, c) /\ IsSeq(to_cu[d])
      BY <1>2, <1>3 DEF Bearers, Base, CuQ
    <3>2. Wants(to_cu, to_du, d, c)
      BY <1>1, <1>3, <3>1, WantOne DEF Wants
    <3>3. QED BY <2>1, <3>2 DEF AskedNow
  <2>3. \/ GenerateReconfiguration(c, [ctx[c] EXCEPT !.cg = d])
        \/ GenerateReconfiguration(c, [ctx[c] EXCEPT !.cg = d, !.f1 = TRUE])
    BY <1>1, <1>2, <1>5, <2>2 DEF BearersResponse, MoreBearersResponse, HandingOver, On
  <2>4. QED BY <1>3, <2>1, <2>3, GenerateOld
<1>6. QED BY <1>4, <1>5

LEMMA ModificationRequiredOld ==
    ASSUME Base, IInv, OldNow, NEW d \in Dus, ModificationRequired(d)
    PROVE  OldNow'
<1>1. PICK m : m = Head(to_cu[d])
  OBVIOUS
<1>2. PICK c : c = m.cu
  OBVIOUS
<1>3. CuTookIt /\ mac' = mac /\ up' = up /\ ue' = ue
  BY DEF ModificationRequired, Took, duVars, CuTookIt
<1>4. PICK n : n = [t |-> "refuse", cu |-> c, id |-> m.id]
  OBVIOUS
<1>5. CASE ctx' = ctx /\ (to_du' = to_du \/ to_du' = Queued(to_du, d, n))
  <2>1. n.t = "refuse"
    BY <1>4
  <2>2. QED BY <1>3, <1>5, <2>1, CuPlainOld DEF SameIds
<1>6. CASE /\ Live(c) /\ ctx' = [ctx EXCEPT ![c].cg = d, ![c].xids = @ \cup {"required"}]
           /\ to_du' = Transfer(to_du, c, 0, "required")
  <2>1. PICK v : v = ctx[c].xids \cup {"required"}
    OBVIOUS
  <2>2. ctx' = [ctx EXCEPT ![c].cg = d, ![c].xids = v] /\ c \in CuIds
    BY <1>6, <2>1 DEF Live
  <2>3. \A k \in CuIds : SameIds(ctx[k], ctx'[k])
    BY <2>2, FieldsOld
  <2>4. QED BY <1>3, <1>6, <2>3, CuPlainOld
<1>7. QED BY <1>1, <1>2, <1>4, <1>5, <1>6 DEF ModificationRequired

LEMMA SetupResponseOld ==
    ASSUME Base, IInv, InTurnNow, OldNow, NEW d \in Dus, SetupResponse(d)
    PROVE  OldNow'
<1>1. PICK m : m = Head(to_cu[d])
  OBVIOUS
<1>2. PICK c : c = m.cu
  OBVIOUS
<1>3. PICK i : i = m.id
  OBVIOUS
<1>4. mac' = mac /\ up' = up /\ ue' = ue /\ CuTookIt /\ Took(d, "setup_resp") /\ CuTakes(d)
  BY DEF SetupResponse, duVars, Took, CuTookIt
<1>5. CASE ctx' = ctx /\ to_du' = to_du
  BY <1>4, <1>5, CuPlainOld DEF SameIds
<1>6. CASE Live(c) /\ GenerateReconfiguration(c, [ctx[c] EXCEPT !.cg = d, !.f1 = TRUE])
  BY <1>4, <1>6, GenerateOld DEF Live
<1>7. CASE /\ Live(c) /\ HandingOver(c)
           /\ ctx' = [ctx EXCEPT ![c].cg = d, ![c].f1 = TRUE, ![c].ho.tgt_id = i,
                                 ![c].xids = @ \cup {"dedicated"}]
           /\ to_du' = IF ctx[c].du = NoDu THEN to_du
                       ELSE Queued(to_du, ctx[c].du,
                                   [t |-> "modif", cu |-> c, id |-> ctx[c].id, to |-> d, to_id |-> i])
  <2>1. Announced(to_cu, i) /\ ~Announced(to_cu', i) /\ i \in Ids
    BY <1>1, <1>3, <1>4, AnnouncedOnce
  <2>2. c \in CuIds /\ On(ctx[c]) /\ ctx[c] \in CtxSet /\ SourceOK(ctx[c], mac) /\ ~Uses(ctx[c], i)
    BY <1>7, <2>1, BaseParts DEF Live, HandingOver, On, OldNow, OwnIds
  <2>3. /\ ctx'[c].du = ctx[c].du /\ ctx'[c].id = ctx[c].id
        /\ ctx'[c].an_release = ctx[c].an_release
        /\ ctx'[c].ho = [ctx[c].ho EXCEPT !.tgt_id = i]
        /\ \A k \in CuIds : k # c => ctx'[k] = ctx[k]
    <3>1. PICK v : v = ctx[c].xids \cup {"dedicated"}
      OBVIOUS
    <3>2. PICK h : h = [ctx[c].ho EXCEPT !.tgt_id = i]
      OBVIOUS
    <3>3. ctx' = [ctx EXCEPT ![c] = [ctx[c] EXCEPT !.cg = d, !.f1 = TRUE, !.ho = h, !.xids = v]]
      BY <1>7, <2>2, <3>1, <3>2, BaseParts, ZenonT(60)
    <3>4. PICK s : s = ctx'[c]
      OBVIOUS
    <3>5. PICK r : r = ctx[c]
      OBVIOUS
    <3>6. s = [r EXCEPT !.cg = d, !.f1 = TRUE, !.ho = h, !.xids = v] /\ r \in CtxSet
      BY <2>2, <3>3, <3>4, <3>5, BaseParts
    <3>7. s.du = r.du /\ s.id = r.id /\ s.an_release = r.an_release /\ s.ho = h
      BY ONLY <3>6 DEF CtxSet
    <3>8. \A k \in CuIds : k # c => ctx'[k] = ctx[k]
      BY <3>3, BaseParts
    <3>9. QED BY <3>2, <3>4, <3>5, <3>7, <3>8
  <2>4. ctx'[c].ho.src = ctx[c].ho.src /\ ctx'[c].ho.src_id = ctx[c].ho.src_id /\ ctx'[c].ho.tgt_id = i
    <3>1. PICK o : o = ctx[c].ho
      OBVIOUS
    <3>2. PICK h : h = ctx'[c].ho
      OBVIOUS
    <3>3. o \in HoSet /\ h = [o EXCEPT !.tgt_id = i]
      BY <2>2, <2>3, <3>1, <3>2, RecordOK
    <3>4. h.src = o.src /\ h.src_id = o.src_id /\ h.tgt_id = i
      BY ONLY <3>3 DEF HoSet
    <3>5. QED BY <3>1, <3>2, <3>4
  <2>5. \A j : Uses(ctx'[c], j) => Uses(ctx[c], j) \/ j = i
    BY <2>2, <2>3, <2>4 DEF Uses
  <2>6. SourceOK(ctx'[c], mac)
    <3>1. ctx[c].ho.src_id # i
      BY <2>2 DEF Uses
    <3>2. QED BY <2>2, <2>3, <2>4, <3>1 DEF SourceOK
  <2>7. \A k \in CuIds : SourceOK(ctx'[k], mac)
    BY <2>3, <2>6 DEF OldNow, OwnIds
  <2>8. /\ OldsThere(mac, to_du')
        /\ \A j : Ended(to_du', j) => Ended(to_du, j)
        /\ \A j : Named(to_du', j) => Named(to_du, j) \/ j = i
    <3>1. CASE to_du' = to_du
      BY <3>1 DEF OldNow
    <3>2. PICK n : n = [t |-> "modif", cu |-> c, id |-> ctx[c].id, to |-> d, to_id |-> i]
      OBVIOUS
    <3>3. CASE to_du' = Queued(to_du, ctx[c].du, n)
      <4>1. n.t = "modif" /\ n.to_id = i
        BY <3>2
      <4>2. \A j : ~Ends(n, j) /\ (Names(n, j) => j = i)
        BY <4>1 DEF Ends, Names
      <4>3. PICK e : e = ctx[c].du
        OBVIOUS
      <4>4. to_du' = Queued(to_du, e, n)
        BY <3>3, <4>3
      <4>5. QED BY <4>1, <4>2, <4>4, QueuedOld
    <3>4. QED BY <1>7, <3>1, <3>2, <3>3
  <2>9. mac[i].cu # 0
    <3>1. CuMsgOK(m, d, mac) /\ m.t = "setup_resp"
      BY <1>1, <1>4, CuTakesOK DEF Base, Took
    <3>2. QED BY <1>3, <3>1, IdsFinite DEF CuMsgOK
  <2>10. \A j : (Announced(to_cu', j) => Announced(to_cu, j)) /\ (Named(to_cu', j) => Named(to_cu, j))
    BY <1>4, TookOld
  <2>11. QED BY <1>4, <2>1, <2>3, <2>5, <2>7, <2>8, <2>9, <2>10, CuKeepsOld
<1>8. QED BY <1>1, <1>2, <1>3, <1>5, <1>6, <1>7 DEF SetupResponse, cuVars

LEMMA FallBackOld ==
    ASSUME Base, IInv, InTurnNow, OldNow, NEW d \in Dus, Took(d, "reest_req"), CuTakes(d),
           NEW m, m = Head(to_cu[d]), mac' = mac, up' = up, ue' = ue, NEW old, FallBack(d, m.id, old)
    PROVE  OldNow'
<1>1. PICK c : c = NewCuId
  OBVIOUS
<1>2. PICK i : i = m.id
  OBVIOUS
<1>3. Announced(to_cu, i) /\ ~Announced(to_cu', i) /\ i \in Ids
  BY <1>2, AnnouncedOnce
<1>4. c \in CuIds
  BY <1>1, CuIdForRequest
<1>5. ctx'[c] = NewCtx(d, i) /\ \A k \in CuIds : k # c => ctx'[k] = ctx[k]
  BY <1>1, <1>2, <1>4, BaseParts DEF FallBack
<1>6. NewCtx(d, i).id = i /\ NewCtx(d, i).ho = NoHo
  BY DEF NewCtx, NoCtx
<1>7. (\A j : Uses(ctx'[c], j) => j = i) /\ SourceOK(ctx'[c], mac)
  BY <1>5, <1>6 DEF Uses, SourceOK, On
<1>8. \A k \in CuIds : SourceOK(ctx'[k], mac)
  BY <1>5, <1>7 DEF OldNow, OwnIds
<1>9. /\ OldsThere(mac, to_du')
      /\ \A j \in Ids : Ended(to_du', j) => Ended(to_du, j)
      /\ \A j \in Ids : Named(to_du', j) => Named(to_du, j)
  <2>1. to_du' = Transfer(to_du, c, 0, "setup")
    BY <1>1 DEF FallBack
  <2>2. QED BY <2>1, TransferOld
<1>10. \A j : (Announced(to_cu', j) => Announced(to_cu, j)) /\ (Named(to_cu', j) => Named(to_cu, j))
  BY TookOld DEF CuTookIt, Took
<1>11. QED BY <1>3, <1>5, <1>7, <1>8, <1>9, <1>10, CuKeepsOld

(* A UE context goes on in the new context of the DU, which is to take over *)
(* the old one; a handover is cancelled at its target.                      *)
LEMMA TakesOverOld ==
    ASSUME Base, IInv, InTurnNow, OldNow, NEW d \in Dus, Took(d, "reest_req"), CuTakes(d),
           NEW m, m = Head(to_cu[d]), mac' = mac, up' = up, ue' = ue,
           NEW c \in CuIds, ~ctx[c].an_release, Uses(ctx[c], m.rnti), MadeIn(mac, d, m.rnti),
           \A k \in CuIds : k # c => ctx'[k] = ctx[k],
           ctx'[c].id = m.id, ctx'[c].ho = NoHo, ctx'[c].du = d,
           NEW Q, \/ Q = to_du
                  \/ /\ On(ctx[c]) /\ m.rnti # ctx[c].ho.tgt_id
                     /\ \E e : Q = Queued(to_du, e, Release(c, ctx[c].ho.tgt_id, FALSE)),
           to_du' = Transfer(Q, c, m.rnti, "reestab")
    PROVE  OldNow'
<1>1. PICK i : i = m.id
  OBVIOUS
<1>2. PICK o : o = m.rnti
  OBVIOUS
<1>3. PICK g : g = ctx[c].ho.tgt_id
  OBVIOUS
<1>4. Announced(to_cu, i) /\ ~Announced(to_cu', i) /\ i \in Ids
  BY <1>1, AnnouncedOnce
<1>5. o \in Ids /\ Uses(ctx[c], o) /\ MadeIn(mac, d, o)
  BY <1>2 DEF MadeIn
<1>6. ~Uses(ctx[c], i) /\ ~Ended(to_du, o) /\ Unharmed(mac, up, o)
  BY <1>4, <1>5 DEF OldNow, OwnIds, Spared
<1>7. mac[o].cu # 0
  <2>1. TailOf(to_cu, to_cu', d) /\ Names(m, o)
    BY <1>2, TakesTail DEF Took, Names
  <2>2. Named(to_cu, o)
    BY <2>1, TakenKindsOf
  <2>3. QED BY <1>5, <2>2 DEF OldNow, Served, InUse
<1>8. (\A j : Uses(ctx'[c], j) => j = i) /\ SourceOK(ctx'[c], mac)
  BY <1>1 DEF Uses, SourceOK, On
<1>9. \A k \in CuIds : SourceOK(ctx'[k], mac)
  BY <1>8 DEF OldNow, OwnIds
<1>10. /\ Assoc(Q) /\ OldsThere(mac, Q)
       /\ \A j : Ended(Q, j) => Ended(to_du, j) \/ (j = g /\ On(ctx[c]) /\ o # g)
       /\ \A j : Named(Q, j) => Named(to_du, j)
  <2>1. Assoc(to_du) /\ OldsThere(mac, to_du)
    BY Associations DEF OldNow
  <2>2. CASE Q = to_du
    BY <2>1, <2>2
  <2>3. ASSUME On(ctx[c]), o # g, NEW e, Q = Queued(to_du, e, Release(c, g, FALSE))
        PROVE  /\ Assoc(Q) /\ OldsThere(mac, Q)
               /\ \A j : Ended(Q, j) => Ended(to_du, j) \/ j = g
               /\ \A j : Named(Q, j) => Named(to_du, j)
    <3>1. PICK n : n = Release(c, g, FALSE)
      OBVIOUS
    <3>2. n.t = "release" /\ n.id = g
      BY <3>1 DEF Release
    <3>3. \A j : (Ends(n, j) => j = g) /\ ~Names(n, j)
      BY <3>2 DEF Ends, Names
    <3>4. Q = Queued(to_du, e, n)
      BY <2>3, <3>1
    <3>5. OldsThere(mac, Q)
      BY <2>1, <3>2, <3>4, OldsQueued
    <3>6. QED BY <2>1, <3>3, <3>4, <3>5, QueuedEnds
  <2>4. QED BY <1>2, <1>3, <2>2, <2>3
<1>11. PICK n : n = DlRrc(c, ctx'[c].id, o, "reestab", ctx'[c].cg)
  OBVIOUS
<1>12. to_du' = Queued(Q, d, n) /\ n.t = "dl" /\ n.old = o
  BY <1>2, <1>11, DusAssumption DEF Transfer, DlRrc
<1>13. OldsThere(mac, to_du')
  <2>1. d \in up => mac[o].st \in {"active", "failed"}
    BY <1>5, <1>6, <1>7 DEF Unharmed, MadeIn
  <2>2. ~Ended(Q, o)
    BY <1>6, <1>10
  <2>3. QED BY <1>5, <1>7, <1>10, <1>12, <2>1, <2>2, OldsQueued
<1>14. /\ \A j : Ended(to_du', j) => Ended(Q, j) \/ j = o
       /\ \A j : Named(to_du', j) => Named(Q, j)
  <2>1. \A j : (Ends(n, j) => j = o) /\ ~Names(n, j)
    BY <1>12 DEF Ends, Names
  <2>2. QED BY <1>10, <1>12, <2>1, QueuedEnds
<1>15. \A j : (Announced(to_cu', j) => Announced(to_cu, j)) /\ (Named(to_cu', j) => Named(to_cu, j))
  BY TookOld DEF CuTookIt, Took
<1>16. \A j : Ended(to_du', j) => Ended(to_du, j) \/ (Uses(ctx[c], j) /\ ~Uses(ctx'[c], j))
  <2>1. On(ctx[c]) => Uses(ctx[c], g)
    BY <1>3 DEF Uses
  <2>2. QED BY <1>5, <1>6, <1>8, <1>10, <1>14, <2>1
<1>17. QED BY <1>4, <1>8, <1>9, <1>10, <1>13, <1>14, <1>15, <1>16, CuKeepsOld

LEMMA ReestablishmentRequestOld ==
    ASSUME Base, IInv, InTurnNow, OldNow, NEW d \in Dus, ReestablishmentRequest(d), ~untimely'
    PROVE  OldNow'
<1>1. PICK m : m = Head(to_cu[d])
  OBVIOUS
<1>2. PICK c : c = CHOOSE k \in Sought(d, m.pci, m.rnti) : TRUE
  OBVIOUS
<1>3. Took(d, "reest_req") /\ CuTakes(d) /\ mac' = mac /\ ue' = ue /\ up' = up
  BY DEF ReestablishmentRequest, duVars
<1>4. CASE FallBack(d, m.id, {}) \/ FallBack(d, m.id, {c})
  BY <1>1, <1>3, <1>4, FallBackOld
<1>5. CASE /\ Sought(d, m.pci, m.rnti) # {} /\ OnSource(c, m.pci)
           /\ ctx' = [ctx EXCEPT ![c] = [RolledBack(c) EXCEPT !.id = m.id, !.xids = @ \cup {"reestab"}]]
           /\ to_du' = Transfer(Cancelled(c), c, m.rnti, "reestab")
           /\ untimely' = \/ untimely \/ d # RolledBack(c).du \/ ctx[c].an_release
                          \/ HandingOver(c) /\ ctx[c].ho.tgt_id = 0
  <2>1. /\ c \in CuIds /\ On(ctx[c]) /\ ctx[c].ho.tgt_id # 0 /\ d = RolledBack(c).du /\ ~ctx[c].an_release
        /\ \/ ctx[c].du = d /\ ctx[c].id = m.rnti
           \/ ctx[c].ho.src = m.pci /\ ctx[c].ho.src_id = m.rnti
    <3>1. /\ c \in CuIds
          /\ \/ ctx[c].du = d /\ ctx[c].id = m.rnti
             \/ HandingOver(c) /\ ctx[c].ho.src = m.pci /\ ctx[c].ho.src_id = m.rnti
      BY <1>2, <1>5, SoughtOK
    <3>2. HandingOver(c) /\ On(ctx[c])
      BY <1>5 DEF OnSource, HandingOver, On
    <3>3. ctx[c].ho.tgt_id # 0 /\ d = RolledBack(c).du /\ ~ctx[c].an_release
      BY <1>5, <3>2
    <3>4. QED BY ONLY <3>1, <3>2, <3>3
  <2>2. ctx[c] \in CtxSet /\ SourceOK(ctx[c], mac)
    BY <2>1, BaseParts DEF OldNow, OwnIds
  <2>3. RolledBack(c).du = ctx[c].ho.src /\ RolledBack(c).ho = NoHo /\ RolledBack(c) \in CtxSet
    <3>1. NoHo \in HoSet
      BY NoHoOK
    <3>2. ctx[c].xids \ {"dedicated", "required"} \in SUBSET Xids /\ ctx[c].ho.old_cg \in AnyDu /\ ctx[c].ho.src \in AnyDu
      BY <2>2, RecordOK
    <3>3. QED BY <2>2, <3>1, <3>2 DEF RolledBack, CtxSet
  <2>4. m.rnti = ctx[c].ho.src_id /\ m.rnti # ctx[c].ho.tgt_id /\ MadeIn(mac, d, m.rnti)
    BY <2>1, <2>2, <2>3 DEF SourceOK
  <2>5. Uses(ctx[c], m.rnti)
    BY <2>1, <2>4 DEF Uses
  <2>6. ctx'[c] = Back(RolledBack(c), m.id) /\ \A k \in CuIds : k # c => ctx'[k] = ctx[k]
    BY <1>5, <2>1, BaseParts DEF Back
  <2>7. ctx'[c].id = m.id /\ ctx'[c].ho = NoHo /\ ctx'[c].du = d
    BY <2>1, <2>3, <2>6, BackRecord
  <2>8. PICK Q : Q = Cancelled(c)
    OBVIOUS
  <2>9. \E e : Q = Queued(to_du, e, Release(c, ctx[c].ho.tgt_id, FALSE))
    BY <2>8 DEF Cancelled
  <2>10. to_du' = Transfer(Q, c, m.rnti, "reestab")
    BY <1>5, <2>8
  <2>11. QED BY <1>1, <1>3, <2>1, <2>4, <2>5, <2>6, <2>7, <2>9, <2>10, TakesOverOld
<1>6. CASE /\ Sought(d, m.pci, m.rnti) # {} /\ ~OnSource(c, m.pci) /\ m.pci = d
           /\ ctx' = [ctx EXCEPT ![c] = [ctx[c] EXCEPT !.id = m.id, !.xids = @ \cup {"reestab"}]]
           /\ to_du' = Transfer(to_du, c, m.rnti, "reestab")
           /\ untimely' = \/ untimely \/ d # ctx[c].du \/ ctx[c].an_release
                          \/ HandingOver(c) /\ ctx[c].ho.tgt_id = 0
  <2>1. /\ c \in CuIds /\ ctx[c].live /\ ctx[c].du = d /\ ctx[c].id = m.rnti
        /\ ~(On(ctx[c]) /\ ctx[c].ho.src = d) /\ ~ctx[c].an_release
    <3>1. /\ c \in CuIds /\ ctx[c].live
          /\ \/ ctx[c].du = d /\ ctx[c].id = m.rnti
             \/ HandingOver(c) /\ ctx[c].ho.src = m.pci /\ ctx[c].ho.src_id = m.rnti
      BY <1>2, <1>6, SoughtOK
    <3>2. ~(HandingOver(c) /\ m.pci = ctx[c].ho.src) /\ m.pci = d
      BY <1>6 DEF OnSource
    <3>3. HandingOver(c) <=> On(ctx[c])
      BY DEF HandingOver, On
    <3>4. ~ctx[c].an_release
      BY <1>6
    <3>5. QED BY ONLY <3>1, <3>2, <3>3, <3>4
  <2>2. ctx[c] \in CtxSet /\ ctx[c].ho = NoHo
    BY <1>1, <1>3, <2>1, StayedOff, BaseParts DEF On
  <2>3. MadeIn(mac, d, m.rnti) /\ Uses(ctx[c], m.rnti)
    <3>1. CtxOK(ctx[c], c, mac) /\ d # NoDu
      BY <2>1, DusAssumption DEF InTurnNow, InTurn, Fits
    <3>2. QED BY <2>1, <3>1 DEF CtxOK, Uses
  <2>4. ctx'[c] = Back(ctx[c], m.id) /\ \A k \in CuIds : k # c => ctx'[k] = ctx[k]
    BY <1>6, <2>1, BaseParts DEF Back
  <2>5. ctx'[c].id = m.id /\ ctx'[c].ho = NoHo /\ ctx'[c].du = d
    BY <2>1, <2>2, <2>4, BackRecord
  <2>6. PICK Q : Q = to_du
    OBVIOUS
  <2>7. to_du' = Transfer(Q, c, m.rnti, "reestab")
    BY <1>6, <2>6
  <2>8. QED BY <1>1, <1>3, <2>1, <2>3, <2>4, <2>5, <2>6, <2>7, TakesOverOld
<1>7. QED BY <1>1, <1>2, <1>4, <1>5, <1>6 DEF ReestablishmentRequest

-----------------------------------------------------------------------------

LEMMA InitOld == Init => OldInv
<1> SUFFICES ASSUME Init PROVE OldNow /\ ~no_old
  BY DEF OldInv
<1>1. /\ \A d \in Dus : Len(to_du[d]) = 0 /\ Len(to_cu[d]) = 0
      /\ 1 \in Ids /\ 0 \notin Ids
  BY IdsFinite, BoundAssumption DEF Init, Ids
<1>2. \A i : ~Ended(to_du, i) /\ ~Announced(to_cu, i) /\ ~Named(to_cu, i) /\ ~Named(to_du, i)
  <2>1. \A d \in Dus : 1..Len(to_du[d]) = {} /\ 1..Len(to_cu[d]) = {}
    BY <1>1
  <2>2. QED BY <2>1 DEF Ended, Announced, Named
<1>3. OldsThere(mac, to_du)
  BY <1>1 DEF OldsThere
<1>4. \A c \in CuIds : ctx[c].ho = NoHo /\ ctx[c].id = IF c = 1 THEN 1 ELSE 0
  BY DEF Init, NewCtx, NoCtx
<1>5. OwnIds(ctx, mac, to_cu)
  <2>1. \A c \in CuIds : \A i \in Ids : Uses(ctx[c], i) => c = 1 /\ i = 1
    BY <1>1, <1>4 DEF Uses, On
  <2>2. \A c \in CuIds : SourceOK(ctx[c], mac)
    BY <1>4 DEF SourceOK, On
  <2>3. QED BY <1>2, <2>1, <2>2 DEF OwnIds
<1>6. mac[1].st = "active" /\ mac[1].cu = 1
  BY <1>1 DEF Init
<1>7. Spared(ctx, mac, up, to_cu, to_du)
  <2>1. \A c \in CuIds : \A i \in Ids : Uses(ctx[c], i) => i = 1
    BY <1>1, <1>4 DEF Uses, On
  <2>2. Unharmed(mac, up, 1)
    BY <1>6 DEF Unharmed
  <2>3. QED BY <1>2, <2>1, <2>2 DEF Spared
<1>8. Served(ue, mac, to_cu, to_du)
  <2>1. ue.id = 1 /\ ue.next.why # "ho"
    BY DEF Init, Nowhere
  <2>2. QED BY <1>2, <1>6, <2>1 DEF Served, InUse
<1>9. ~no_old
  BY DEF Init
<1>10. QED BY <1>3, <1>5, <1>7, <1>8, <1>9 DEF OldNow

LEMMA NextKeepsOld == Base /\ IInv /\ Timely /\ Asked /\ OldInv /\ [Next]_vars => OldInv'
<1> SUFFICES ASSUME Base, IInv, Timely, Asked, OldInv, [Next]_vars, ~untimely'
             PROVE  OldNow' /\ ~no_old'
  BY DEF OldInv
<1>. InTurnNow /\ AskedNow /\ OldNow /\ ~no_old
  BY StaysUntimely DEF Timely, InTurnNow, Asked, OldInv
<1>1. ASSUME NEW d \in Dus, CuReceives(d) PROVE OldNow' /\ ~no_old'
  <2>1. no_old' = no_old
    <3>1. CASE \/ ReestablishmentRequest(d) \/ ReestablishmentComplete(d) \/ ReleaseRequest(d)
               \/ ReleaseComplete(d) \/ LostConnection(d)
      BY <3>1 DEF ReestablishmentRequest, FallBack, ReestablishmentComplete, ReleaseRequest,
         ReleaseComplete, LostConnection, history
    <3>2. CASE \/ SetupResponse(d) \/ BearersResponse(d) \/ MoreBearersResponse(d)
               \/ ModificationResponse(d) \/ ModificationRequired(d) \/ ReconfigurationComplete(d)
      BY <3>2 DEF SetupResponse, BearersResponse, MoreBearersResponse, ModificationResponse,
         ModificationRequired, ReconfigurationComplete, history
    <3>3. QED BY <1>1, <3>1, <3>2 DEF CuReceives
  <2>2. QED BY <1>1, <2>1, SetupResponseOld, BearersOld, ModificationRequiredOld,
               ModificationResponseOld, ReconfigurationCompleteOld,
               ReestablishmentRequestOld, ReestablishmentCompleteOld, ReleaseRequestOld,
               ReleaseCompleteOld, LostConnectionOld DEF CuReceives
<1>2. ASSUME NEW d \in Dus, DuReceives(d) \/ DuLost(d) \/ UeReestablishes(d)
      PROVE  OldNow' /\ ~no_old'
  <2>1. CASE DuDlRrc(d)
    BY <2>1, DuDlRrcOld
  <2>2. CASE DuSetupRequest(d) \/ DuModificationRequest(d) \/ DuReleaseCommand(d) \/ UeReestablishes(d)
    <3>1. no_old' = no_old
      BY <2>2 DEF DuSetupRequest, DuModificationRequest, DuReleaseCommand, UeReestablishes, history
    <3>2. QED BY <2>2, <3>1, DuSetupRequestOld, DuModificationRequestOld, DuReleaseCommandOld,
                 UeReestablishesOld
  <2>3. CASE DuLost(d)
    <3>1. Dies(d) /\ ctx' = ctx /\ no_old' = no_old
      BY <2>3 DEF DuLost, cuVars, history
    <3>2. QED BY <3>1, DiesOld
  <2>4. CASE DuBearersRequest(d) \/ DuMoreBearersRequest(d) \/ DuModificationRefuse(d)
    <3>1. no_old' = no_old
      BY <2>4 DEF DuBearersRequest, DuMoreBearersRequest, DuModificationRefuse, history
    <3>2. QED BY <2>4, <3>1, DuAnswersOld
  <2>5. QED BY <1>2, <2>1, <2>2, <2>3, <2>4 DEF DuReceives
<1>3. ASSUME NEW c \in CuIds,
             \/ \E t \in Dus : TriggerF1Ho(c, t)
             \/ ReleaseCommand(c) \/ AmfReleases(c) \/ SetupSession(c) \/ ModifySession(c) \/ Register(c)
      PROVE  OldNow' /\ ~no_old'
  <2>1. no_old' = no_old
    BY <1>3 DEF TriggerF1Ho, ReleaseCommand, AmfReleases, SetupSession, ModifySession, Register, history
  <2>2. QED BY <1>3, <2>1, TriggerOld, CuActionsOld
<1>4. ASSUME NEW i \in Ids, UlFailure(i) \/ ReleaseTimerExpires(i) PROVE OldNow' /\ ~no_old'
  <2>1. no_old' = no_old
    BY <1>4 DEF UlFailure, ReleaseTimerExpires, history
  <2>2. QED BY <1>4, <2>1, TimersOld
<1>5. CASE UeArrives \/ UeLosesRadio \/ UeGivesUp \/ UeReturns
  <2>1. no_old' = no_old
    BY <1>5 DEF UeArrives, UeLosesRadio, UeGivesUp, UeReturns, history
  <2>2. QED BY <1>5, <2>1, UeStepsOld, UeReturnsOld
<1>6. CASE UNCHANGED vars
  BY <1>6 DEF OldNow, vars, cuVars, netVars, duVars, history
<1>7. QED BY <1>1, <1>2, <1>3, <1>4, <1>5, <1>6 DEF Next, Step

(* As long as nothing was out of turn, dl_rrc_message_transfer finds the    *)
(* context of the old DU UE ID that goes with an RRCReestablishment: the    *)
(* CU has commanded no release of it, no earlier reestablishment has taken  *)
(* it over, and the DU has not dropped it by itself.                        *)
THEOREM OldContextsThere == Spec => []OldContextThere
<1>1. Init => OldInv
  BY InitOld
<1>2. (Base /\ IInv) /\ (Timely /\ Asked) /\ OldInv /\ [Next]_vars => OldInv'
  BY NextKeepsOld
<1>3. OldInv => OldContextThere
  BY DEF OldInv, OldContextThere
<1>4. QED BY <1>1, <1>2, <1>3, BaseHolds, TimelyHolds, PTL DEF Spec
=============================================================================
