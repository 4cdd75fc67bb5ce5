--------------------------- MODULE RrcHandoverBase ---------------------------
(***************************************************************************)
(* What always holds in the RRC, for any number of DUs, contexts and        *)
(* events; RrcHandoverProofs builds on it.                                  *)
(*                                                                          *)
(* First (IInv), no UE context names a DU that the registry has lost.  What *)
(* makes it inductive is that the loss of an association is its last        *)
(* message: a DU that the registry has dropped has nothing on its way to    *)
(* the RRC, and will send nothing more.                                     *)
(*                                                                          *)
(* Second, the types (Base), with which IDs are never exhausted.            *)
(***************************************************************************)
EXTENDS RrcHandover, Integers, WellFoundedInduction, FiniteSetTheorems, TLAPS

-----------------------------------------------------------------------------
(* The inductive invariant.                                                 *)

IsHo(h) == h = [src |-> h.src, src_id |-> h.src_id, old_cg |-> h.old_cg,
                tgt |-> h.tgt, tgt_id |-> h.tgt_id]
IsCtx(r) == r = [live |-> r.live, du |-> r.du, id |-> r.id, ho |-> r.ho, cg |-> r.cg,
                 f1 |-> r.f1, an_release |-> r.an_release, sec |-> r.sec, xids |-> r.xids]
IsMac(r) == r = [du |-> r.du, cu |-> r.cu, st |-> r.st]

(* A UE context is sound with respect to the DUs D of the registry.         *)
Sound(r, D) ==
    /\ IsCtx(r) /\ IsHo(r.ho)
    /\ r.du \in D \cup {NoDu}
    /\ r.ho # NoHo => {r.ho.src, r.ho.tgt} \subseteq D
CtxInv == ctx = [c \in CuIds |-> ctx[c]] /\ \A c \in CuIds : Sound(ctx[c], dus)

(* The associations: q is what waits in the one of d.                       *)
Channel(q, d, U, D) ==
    /\ \E S : q \in Seq(S)
    /\ \A n \in 1..Len(q) : q[n].t = "lost" => n = Len(q) /\ d \notin U
    /\ d \notin D => q = <<>>
NetInv ==
    /\ up \subseteq dus /\ dus \subseteq Dus
    /\ to_cu = [d \in Dus |-> to_cu[d]]
    /\ \A d \in Dus : Channel(to_cu[d], d, up, dus)

(* A context that a DU still has is one of a DU that is alive.              *)
MacSound(r) == IsMac(r) /\ (r.st \notin {"none", "gone"} => r.du \in up)
MacInv == mac = [i \in Ids |-> mac[i]] /\ \A i \in Ids : MacSound(mac[i])

IInv == CtxInv /\ NetInv /\ MacInv

-----------------------------------------------------------------------------
(* Associations.                                                            *)

LEMMA Appended ==
    ASSUME NEW q, NEW m, NEW S, q \in Seq(S)
    PROVE  /\ Append(q, m) \in Seq(S \cup {m})
           /\ Len(q) \in Nat /\ Len(Append(q, m)) = Len(q) + 1
           /\ \A n \in 1..Len(q) : Append(q, m)[n] = q[n]
           /\ Append(q, m)[Len(q) + 1] = m
<1>1. q \in Seq(S \cup {m}) /\ m \in S \cup {m}
  OBVIOUS
<1>2. QED BY <1>1

(* A DU that is alive sends something that is not the end of the            *)
(* association.                                                             *)
LEMMA SendKeeps ==
    ASSUME NetInv, NEW d \in up, NEW m, m.t # "lost", Sent(d, m),
           up' = up, dus' = dus
    PROVE  NetInv'
<1>1. d \in Dus /\ d \in dus
  BY DEF NetInv
<1>2. to_cu' = [to_cu EXCEPT ![d] = Append(@, m)]
  BY DEF Sent
<1>3. to_cu' = [e \in Dus |-> to_cu'[e]] /\ to_cu'[d] = Append(to_cu[d], m)
      /\ \A e \in Dus \ {d} : to_cu'[e] = to_cu[e]
  BY <1>1, <1>2 DEF NetInv
<1>4. Channel(to_cu[d], d, up, dus)
  BY <1>1 DEF NetInv
<1>5. PICK S : to_cu[d] \in Seq(S)
  BY <1>4 DEF Channel
<1>6. Channel(to_cu'[d], d, up, dus)
  <2>1. \A n \in 1..Len(to_cu[d]) : to_cu[d][n].t # "lost"
    BY <1>4 DEF Channel
  <2>2. \A n \in 1..Len(to_cu'[d]) : to_cu'[d][n].t # "lost"
    BY <1>3, <1>5, <2>1, Appended
  <2>3. to_cu'[d] \in Seq(S \cup {m})
    BY <1>3, <1>5, Appended
  <2>4. QED BY <1>1, <2>2, <2>3 DEF Channel
<1>7. \A e \in Dus : Channel(to_cu'[e], e, up, dus)
  BY <1>3, <1>6 DEF NetInv
<1>8. QED BY <1>3, <1>7 DEF NetInv

(* The RRC takes a message: one of a DU that it knows.                      *)
LEMMA TakeKeeps ==
    ASSUME NetInv, NEW d \in Dus, to_cu[d] # <<>>, CuTakes(d), up' = up,
           dus' = dus \/ (Head(to_cu[d]).t = "lost" /\ dus' = dus \ {d})
    PROVE  NetInv' /\ d \in dus
<1>1. to_cu' = [e \in Dus |-> to_cu'[e]] /\ to_cu'[d] = Tail(to_cu[d])
      /\ \A e \in Dus \ {d} : to_cu'[e] = to_cu[e]
  BY DEF NetInv, CuTakes
<1>2. Channel(to_cu[d], d, up, dus)
  BY DEF NetInv
<1>3. PICK S : to_cu[d] \in Seq(S)
  BY <1>2 DEF Channel
<1>4. d \in dus
  BY <1>2 DEF Channel
<1>5. /\ Len(to_cu[d]) \in Nat /\ Len(to_cu[d]) # 0
      /\ to_cu'[d] \in Seq(S) /\ Len(to_cu'[d]) = Len(to_cu[d]) - 1
      /\ \A n \in 1..Len(to_cu'[d]) : to_cu'[d][n] = to_cu[d][n + 1]
      /\ Head(to_cu[d]) = to_cu[d][1]
  BY <1>1, <1>3
<1>6. \A n \in 1..Len(to_cu'[d]) :
         to_cu'[d][n].t = "lost" => n = Len(to_cu'[d]) /\ d \notin up
  BY <1>2, <1>5 DEF Channel
<1>7. CASE dus' = dus
  <2>1. Channel(to_cu'[d], d, up, dus)
    BY <1>4, <1>5, <1>6 DEF Channel
  <2>2. \A e \in Dus : Channel(to_cu'[e], e, up, dus)
    BY <1>1, <2>1 DEF NetInv
  <2>3. QED BY <1>1, <1>4, <1>7, <2>2 DEF NetInv
<1>8. CASE Head(to_cu[d]).t = "lost" /\ dus' = dus \ {d}
  <2>1. Len(to_cu[d]) = 1 /\ d \notin up
    <3>1. 1 \in 1..Len(to_cu[d])
      BY <1>5
    <3>2. to_cu[d][1].t = "lost"
      BY <1>5, <1>8
    <3>3. QED BY <1>2, <3>1, <3>2 DEF Channel
  <2>2. to_cu'[d] = <<>>
    BY <1>5, <2>1
  <2>3. Channel(to_cu'[d], d, up, dus')
    BY <1>5, <1>6, <2>2 DEF Channel
  <2>4. \A e \in Dus \ {d} : Channel(to_cu'[e], e, up, dus')
    BY <1>1, <1>8 DEF NetInv, Channel
  <2>5. \A e \in Dus : Channel(to_cu'[e], e, up, dus')
    BY <2>3, <2>4
  <2>6. up \subseteq dus' /\ dus' \subseteq Dus
    BY <1>8, <2>1 DEF NetInv
  <2>7. QED BY <1>1, <1>4, <2>5, <2>6 DEF NetInv
<1>9. QED BY <1>7, <1>8

(* A DU dies: "lost" is the last that it sends, and its contexts go.        *)
LEMMA DieKeeps ==
    ASSUME NetInv, MacInv, NEW d \in up, Dies(d), dus' = dus
    PROVE  NetInv' /\ MacInv'
<1>1. d \in Dus /\ d \in dus /\ up' = up \ {d}
  BY DEF NetInv, Dies
<1> DEFINE m == [t |-> "lost"]
<1>2. to_cu' = [to_cu EXCEPT ![d] = Append(@, m)]
  BY DEF Dies, Sent
<1>3. to_cu' = [e \in Dus |-> to_cu'[e]] /\ to_cu'[d] = Append(to_cu[d], m)
      /\ \A e \in Dus \ {d} : to_cu'[e] = to_cu[e]
  BY <1>1, <1>2 DEF NetInv
<1>4. Channel(to_cu[d], d, up, dus)
  BY <1>1 DEF NetInv
<1>5. PICK S : to_cu[d] \in Seq(S)
  BY <1>4 DEF Channel
<1>6. Channel(to_cu'[d], d, up', dus)
  <2>1. \A n \in 1..Len(to_cu[d]) : to_cu[d][n].t # "lost"
    BY <1>4 DEF Channel
  <2>2. \A n \in 1..Len(to_cu'[d]) : to_cu'[d][n].t = "lost" => n = Len(to_cu'[d])
    BY <1>3, <1>5, <2>1, Appended
  <2>3. to_cu'[d] \in Seq(S \cup {m})
    BY <1>3, <1>5, Appended
  <2>4. QED BY <1>1, <2>2, <2>3 DEF Channel
<1>7. \A e \in Dus \ {d} : Channel(to_cu'[e], e, up', dus)
  BY <1>1, <1>3 DEF NetInv, Channel
<1>8. NetInv'
  <2>1. \A e \in Dus : Channel(to_cu'[e], e, up', dus)
    BY <1>6, <1>7
  <2>2. up' \subseteq dus /\ dus \subseteq Dus
    BY <1>1 DEF NetInv
  <2>3. QED BY <1>3, <2>1, <2>2 DEF NetInv
<1>9. MacInv'
  <2>1. mac' = [i \in Ids |-> IF mac[i].du = d THEN [mac[i] EXCEPT !.st = "gone"] ELSE mac[i]]
    BY DEF Dies
  <2>2. ASSUME NEW i \in Ids PROVE MacSound(mac[i])'
    <3>1. MacSound(mac[i])
      BY DEF MacInv
    <3>2. CASE mac[i].du = d
      BY <2>1, <3>1, <3>2 DEF MacSound, IsMac
    <3>3. CASE mac[i].du # d
      BY <1>1, <2>1, <3>1, <3>3 DEF MacSound, IsMac
    <3>4. QED BY <3>2, <3>3
  <2>3. QED BY <2>1, <2>2 DEF MacInv
<1>10. QED BY <1>8, <1>9

-----------------------------------------------------------------------------
(* UE contexts.                                                             *)

(* What a handler may write into a sound context.                           *)
LEMMA FieldKeeps ==
    ASSUME NEW r, NEW D, Sound(r, D), NEW v
    PROVE  /\ Sound([r EXCEPT !.live = v], D)
           /\ Sound([r EXCEPT !.cg = v], D)
           /\ Sound([r EXCEPT !.id = v], D)
           /\ Sound([r EXCEPT !.xids = v], D)
           /\ Sound([r EXCEPT !.f1 = v], D)
           /\ Sound([r EXCEPT !.sec = v], D)
           /\ Sound([r EXCEPT !.an_release = v], D)
           /\ Sound([r EXCEPT !.ho = NoHo], D)
           /\ v \in D \cup {NoDu} => Sound([r EXCEPT !.du = v], D)
<1>1. IsHo(NoHo)
  BY DEF IsHo, NoHo
<1>2. Sound([r EXCEPT !.ho = NoHo], D)
  BY <1>1 DEF Sound, IsCtx
<1>3. QED BY <1>2 DEF Sound, IsCtx

LEMMA HandoverKeeps ==
    ASSUME NEW r, NEW D, Sound(r, D), NEW h, IsHo(h), h.src \in D, h.tgt \in D
    PROVE  Sound([r EXCEPT !.ho = h], D)
BY DEF Sound, IsCtx

LEMMA NewIsSound ==
    ASSUME NEW D, NEW d \in D, NEW i
    PROVE  Sound(NoCtx, D) /\ Sound(NewCtx(d, i), D)
<1>1. Sound(NoCtx, D)
  BY DEF Sound, IsCtx, IsHo, NoCtx, NoHo
<1> DEFINE r == [NoCtx EXCEPT !.live = TRUE]
           s == [r EXCEPT !.du = d]
           t == [s EXCEPT !.id = i]
<1>2. Sound(r, D)
  BY <1>1, FieldKeeps
<1>3. Sound(s, D)
  BY <1>2, FieldKeeps
<1>4. Sound(t, D)
  BY <1>3, FieldKeeps
<1>5. NewCtx(d, i) = t
  BY DEF NewCtx
<1>6. QED BY <1>1, <1>4, <1>5

(* A handler that rewrites one context.                                     *)
LEMMA OneContext ==
    ASSUME CtxInv, dus' = dus, NEW c, NEW r, ctx' = [ctx EXCEPT ![c] = r],
           c \in CuIds => Sound(r, dus)
    PROVE  CtxInv'
BY DEF CtxInv

LEMMA RemovedKeeps ==
    ASSUME CtxInv, dus' = dus, NEW c, Removed(c)
    PROVE  CtxInv'
<1>1. Sound(NoCtx, dus)
  BY DEF Sound, IsCtx, IsHo, NoCtx, NoHo
<1>2. QED BY <1>1, OneContext DEF Removed

LEMMA TriggerKeeps ==
    ASSUME CtxInv, NEW c, NEW t, TriggerF1Ho(c, t)
    PROVE  CtxInv'
<1>1. c \in CuIds /\ dus' = dus /\ Sound(ctx[c], dus) /\ t \in dus /\ ctx[c].du # NoDu
  BY DEF TriggerF1Ho, Live, CtxInv
<1> DEFINE h == [src |-> ctx[c].du, src_id |-> ctx[c].id, old_cg |-> ctx[c].cg,
                 tgt |-> t, tgt_id |-> 0]
<1>2. ctx' = [ctx EXCEPT ![c] = [ctx[c] EXCEPT !.ho = h]]
  BY DEF TriggerF1Ho
<1>3. Sound([ctx[c] EXCEPT !.ho = h], dus)
  BY <1>1 DEF Sound, IsCtx, IsHo
<1>4. QED BY <1>1, <1>2, <1>3, OneContext

(* A reconfiguration is made of context r.                                  *)
LEMMA GenerateKeeps ==
    ASSUME CtxInv, dus' = dus, NEW c, NEW r, Sound(r, dus), GenerateReconfiguration(c, r)
    PROVE  CtxInv'
<1>1. CASE ctx' = ctx
  BY <1>1 DEF CtxInv
<1>2. CASE ctx' = [ctx EXCEPT ![c] = [r EXCEPT !.xids = @ \cup {"session"}]]
  <2> DEFINE s == [r EXCEPT !.xids = r.xids \cup {"session"}]
  <2>1. Sound(s, dus) /\ ctx' = [ctx EXCEPT ![c] = s]
    BY <1>2, FieldKeeps
  <2>2. QED BY <2>1, OneContext
<1>3. QED BY <1>1, <1>2 DEF GenerateReconfiguration

(* The answers about bearers, with the cell group of d.                     *)
LEMMA AnswerIsSound ==
    ASSUME CtxInv, NEW c, Live(c), NEW d
    PROVE  /\ Sound([ctx[c] EXCEPT !.cg = d], dus)
           /\ Sound([ctx[c] EXCEPT !.cg = d, !.f1 = TRUE], dus)
<1>1. Sound(ctx[c], dus)
  BY DEF Live, CtxInv
<1> DEFINE r == [ctx[c] EXCEPT !.cg = d]
           s == [r EXCEPT !.f1 = TRUE]
<1>2. Sound(r, dus)
  BY <1>1, FieldKeeps
<1>3. Sound(s, dus)
  BY <1>2, FieldKeeps
<1>4. QED BY <1>2, <1>3

LEMMA SetupResponseKeeps ==
    ASSUME CtxInv, NEW d, SetupResponse(d)
    PROVE  CtxInv'
<1> DEFINE c == Head(to_cu[d]).cu
           i == Head(to_cu[d]).id
<1>0. dus' = dus
  BY DEF SetupResponse, cuVars
<1>1. CASE ctx' = ctx
  BY <1>0, <1>1 DEF CtxInv
<1>2. CASE Live(c) /\ GenerateReconfiguration(c, [ctx[c] EXCEPT !.cg = d, !.f1 = TRUE])
  <2>1. Sound([ctx[c] EXCEPT !.cg = d, !.f1 = TRUE], dus)
    BY <1>2, AnswerIsSound
  <2>2. QED BY <1>0, <1>2, <2>1, GenerateKeeps
<1>3. CASE Live(c) /\ HandingOver(c)
           /\ ctx' = [ctx EXCEPT ![c].cg = d, ![c].f1 = TRUE, ![c].ho.tgt_id = i,
                                 ![c].xids = @ \cup {"dedicated"}]
  <2>1. Sound(ctx[c], dus) /\ ctx[c].ho # NoHo
    BY <1>3 DEF Live, CtxInv, HandingOver
  <2> DEFINE h == [ctx[c].ho EXCEPT !.tgt_id = i]
             g == [ctx[c] EXCEPT !.cg = d, !.f1 = TRUE]
             r == [g EXCEPT !.ho = h]
             s == [r EXCEPT !.xids = r.xids \cup {"dedicated"}]
  <2>2. IsHo(h) /\ h.src \in dus /\ h.tgt \in dus
    <3>1. PICK o : o = ctx[c].ho
      OBVIOUS
    <3>2. IsHo(o) /\ o.src \in dus /\ o.tgt \in dus
      BY <2>1, <3>1 DEF Sound
    <3>3. PICK k : k = [o EXCEPT !.tgt_id = i]
      OBVIOUS
    <3>4. IsHo(k) /\ k.src = o.src /\ k.tgt = o.tgt
      BY ONLY <3>2, <3>3 DEF IsHo
    <3>5. QED BY <3>1, <3>2, <3>3, <3>4
  <2>3. Sound(r, dus)
    <3>1. Sound(g, dus)
      BY <1>3, AnswerIsSound
    <3> HIDE DEF g, h
    <3>2. QED BY <2>2, <3>1, HandoverKeeps
  <2>4. Sound(s, dus)
    BY <2>3, FieldKeeps
  <2>5. ctx' = [ctx EXCEPT ![c] = s]
    BY <1>3, ZenonT(60) DEF Live, CtxInv
  <2>6. QED BY <1>0, <2>4, <2>5, OneContext
<1>4. QED BY <1>1, <1>2, <1>3 DEF SetupResponse, cuVars

LEMMA BearersResponseKeeps ==
    ASSUME CtxInv, NEW d, BearersResponse(d)
    PROVE  CtxInv'
<1> DEFINE c == Head(to_cu[d]).cu
<1>0. dus' = dus
  BY DEF BearersResponse
<1>1. CASE ctx' = ctx
  BY <1>0, <1>1 DEF CtxInv
<1>2. CASE Live(c) /\ GenerateReconfiguration(c, [ctx[c] EXCEPT !.cg = d, !.f1 = TRUE])
  <2>1. Sound([ctx[c] EXCEPT !.cg = d, !.f1 = TRUE], dus)
    BY <1>2, AnswerIsSound
  <2>2. QED BY <1>0, <1>2, <2>1, GenerateKeeps
<1>3. QED BY <1>1, <1>2 DEF BearersResponse

LEMMA MoreBearersResponseKeeps ==
    ASSUME CtxInv, NEW d, MoreBearersResponse(d)
    PROVE  CtxInv'
<1> DEFINE c == Head(to_cu[d]).cu
<1>0. dus' = dus
  BY DEF MoreBearersResponse
<1>1. CASE ctx' = ctx
  BY <1>0, <1>1 DEF CtxInv
<1>2. CASE Live(c) /\ GenerateReconfiguration(c, [ctx[c] EXCEPT !.cg = d])
  <2>1. Sound([ctx[c] EXCEPT !.cg = d], dus)
    BY <1>2, AnswerIsSound
  <2>2. QED BY <1>0, <1>2, <2>1, GenerateKeeps
<1>3. CASE Live(c) /\ HandingOver(c)
           /\ ctx' = [ctx EXCEPT ![c].cg = d, ![c].xids = @ \cup {"session"},
                                 ![c].du = ctx[c].ho.tgt, ![c].id = ctx[c].ho.tgt_id]
  <2>1. Sound(ctx[c], dus) /\ ctx[c].ho.tgt \in dus
    BY <1>3 DEF Live, CtxInv, HandingOver, Sound
  <2> DEFINE g == [ctx[c] EXCEPT !.cg = d]
             h == [g EXCEPT !.xids = g.xids \cup {"session"}]
             r == [h EXCEPT !.du = ctx[c].ho.tgt]
             s == [r EXCEPT !.id = ctx[c].ho.tgt_id]
  <2>2. Sound(h, dus)
    BY <2>1, FieldKeeps
  <2>3. Sound(r, dus)
    BY <2>1, <2>2, FieldKeeps
  <2>4. Sound(s, dus)
    BY <2>3, FieldKeeps
  <2>5. ctx' = [ctx EXCEPT ![c] = s]
    BY <1>3, ZenonT(60) DEF Live, CtxInv
  <2>6. QED BY <1>0, <2>4, <2>5, OneContext
<1>4. QED BY <1>1, <1>2, <1>3 DEF MoreBearersResponse

LEMMA ModificationRequiredKeeps ==
    ASSUME CtxInv, NEW d, ModificationRequired(d)
    PROVE  CtxInv'
<1> DEFINE c == Head(to_cu[d]).cu
<1>0. dus' = dus
  BY DEF ModificationRequired
<1>1. CASE ctx' = ctx
  BY <1>0, <1>1 DEF CtxInv
<1>2. CASE Live(c) /\ ctx' = [ctx EXCEPT ![c].cg = d, ![c].xids = @ \cup {"required"}]
  <2>1. Sound([ctx[c] EXCEPT !.cg = d], dus)
    BY <1>2, AnswerIsSound
  <2> DEFINE r == [ctx[c] EXCEPT !.cg = d]
             s == [r EXCEPT !.xids = r.xids \cup {"required"}]
  <2>2. Sound(s, dus)
    BY <2>1, FieldKeeps
  <2>3. ctx' = [ctx EXCEPT ![c] = s]
    BY <1>2 DEF Live, CtxInv
  <2>4. QED BY <1>0, <2>2, <2>3, OneContext
<1>3. QED BY <1>1, <1>2 DEF ModificationRequired

LEMMA ModificationResponseKeeps ==
    ASSUME CtxInv, NEW d, ModificationResponse(d)
    PROVE  CtxInv'
<1> DEFINE c == Head(to_cu[d]).cu
<1>0. dus' = dus
  BY DEF ModificationResponse
<1>1. CASE ctx' = ctx
  BY <1>0, <1>1 DEF CtxInv
<1>2. CASE Live(c) /\ HandingOver(c)
           /\ ctx' = [ctx EXCEPT ![c].du = ctx[c].ho.tgt, ![c].id = ctx[c].ho.tgt_id]
  <2>1. Sound(ctx[c], dus) /\ ctx[c].ho.tgt \in dus
    BY <1>2 DEF Live, CtxInv, HandingOver, Sound
  <2> DEFINE r == [ctx[c] EXCEPT !.du = ctx[c].ho.tgt]
             s == [r EXCEPT !.id = ctx[c].ho.tgt_id]
  <2>2. Sound(r, dus)
    BY <2>1, FieldKeeps
  <2>3. Sound(s, dus)
    BY <2>2, FieldKeeps
  <2>4. ctx' = [ctx EXCEPT ![c] = s]
    BY <1>2 DEF Live, CtxInv
  <2>5. QED BY <1>0, <2>3, <2>4, OneContext
<1>3. QED BY <1>1, <1>2 DEF ModificationResponse

LEMMA ReconfigurationCompleteKeeps ==
    ASSUME CtxInv, NEW d, ReconfigurationComplete(d)
    PROVE  CtxInv'
<1> DEFINE m == Head(to_cu[d])
           c == m.cu
<1>0. dus' = dus
  BY DEF ReconfigurationComplete
<1>1. CASE ctx' = ctx
  BY <1>0, <1>1 DEF CtxInv
<1>2. CASE Live(c) /\ ctx' = [ctx EXCEPT ![c].xids = @ \ {m.what}, ![c].ho = NoHo]
  <2>1. Sound(ctx[c], dus)
    BY <1>2 DEF Live, CtxInv
  <2> DEFINE r == [ctx[c] EXCEPT !.xids = ctx[c].xids \ {m.what}]
             s == [r EXCEPT !.ho = NoHo]
  <2>2. Sound(r, dus)
    BY <2>1, FieldKeeps
  <2>3. Sound(s, dus)
    BY <2>2, FieldKeeps
  <2>4. ctx' = [ctx EXCEPT ![c] = s]
    BY <1>2 DEF Live, CtxInv
  <2>5. QED BY <1>0, <2>3, <2>4, OneContext
<1>3. QED BY <1>1, <1>2 DEF ReconfigurationComplete

(* The relay of a reestablishment request is a DU of the registry.          *)
LEMMA ReestablishmentRequestKeeps ==
    ASSUME CtxInv, NEW d, d \in dus, ReestablishmentRequest(d)
    PROVE  CtxInv'
<1> DEFINE m == Head(to_cu[d])
           found == Sought(d, m.pci, m.rnti)
           c == CHOOSE k \in found : TRUE
           back == IF OnSource(c, m.pci) THEN RolledBack(c) ELSE ctx[c]
<1>0. dus' = dus
  BY DEF ReestablishmentRequest
<1>1. ASSUME NEW old, FallBack(d, m.id, old) PROVE CtxInv'
  <2>1. Sound(NewCtx(d, m.id), dus)
    BY NewIsSound
  <2>2. ctx' = [ctx EXCEPT ![NewCuId] = NewCtx(d, m.id)]
    BY <1>1 DEF FallBack
  <2>3. QED BY <1>0, <2>1, <2>2, OneContext
<1>2. CASE found # {}
           /\ ctx' = [ctx EXCEPT ![c] =
                       [back EXCEPT !.id = m.id, !.xids = @ \cup {"reestab"}]]
  <2>1. c \in CuIds
    BY <1>2 DEF Sought, ByRnti, BySourceCell
  <2>2. Sound(ctx[c], dus)
    BY <2>1 DEF CtxInv
  <2>3. Sound(back, dus)
    <3>1. CASE ~OnSource(c, m.pci)
      BY <2>2, <3>1
    <3>2. CASE OnSource(c, m.pci)
      <4>1. ctx[c].ho.src \in dus
        BY <2>2, <3>2 DEF OnSource, HandingOver, Sound
      <4> DEFINE r == [ctx[c] EXCEPT !.xids = ctx[c].xids \ {"dedicated", "required"}]
                 s == [r EXCEPT !.cg = ctx[c].ho.old_cg]
                 t == [s EXCEPT !.du = ctx[c].ho.src]
                 u == [t EXCEPT !.ho = NoHo]
      <4>2. Sound(r, dus)
        BY <2>2, FieldKeeps
      <4>3. Sound(s, dus)
        BY <4>2, FieldKeeps
      <4>4. Sound(t, dus)
        BY <4>1, <4>3, FieldKeeps
      <4>5. Sound(u, dus)
        BY <4>4, FieldKeeps
      <4>6. back = u
        BY <3>2 DEF RolledBack
      <4>7. QED BY <4>5, <4>6
    <3>3. QED BY <3>1, <3>2
  <2> DEFINE v == [back EXCEPT !.id = m.id]
             w == [v EXCEPT !.xids = v.xids \cup {"reestab"}]
  <2>4. Sound(v, dus)
    BY <2>3, FieldKeeps
  <2>5. Sound(w, dus)
    BY <2>4, FieldKeeps
  <2>6. ctx' = [ctx EXCEPT ![c] = w]
    <3> HIDE DEF back, c, m
    <3>1. [back EXCEPT !.id = m.id, !.xids = @ \cup {"reestab"}] = w
      OBVIOUS
    <3>2. QED BY <1>2, <3>1
  <2>7. QED BY <1>0, <2>5, <2>6, OneContext
<1>3. QED BY <1>1, <1>2 DEF ReestablishmentRequest

LEMMA ReleaseRequestKeeps ==
    ASSUME CtxInv, NEW d, ReleaseRequest(d)
    PROVE  CtxInv'
<1> DEFINE c == Head(to_cu[d]).cu
<1>0. dus' = dus
  BY DEF ReleaseRequest
<1>1. CASE ctx' = ctx
  BY <1>0, <1>1 DEF CtxInv
<1>2. CASE Live(c) /\ ctx' = [ctx EXCEPT ![c].ho = NoHo]
  <2>1. Sound(ctx[c], dus)
    BY <1>2 DEF Live, CtxInv
  <2>2. Sound([ctx[c] EXCEPT !.ho = NoHo], dus)
    BY <2>1, FieldKeeps
  <2>3. ctx' = [ctx EXCEPT ![c] = [ctx[c] EXCEPT !.ho = NoHo]]
    BY <1>2
  <2>4. QED BY <1>0, <2>2, <2>3, OneContext
<1>3. QED BY <1>1, <1>2 DEF ReleaseRequest

LEMMA LostConnectionKeeps ==
    ASSUME CtxInv, NEW d, LostConnection(d)
    PROVE  CtxInv'
<1>1. dus' = dus \ {d}
      /\ ctx' = [c \in CuIds |->
                   [ctx[c] EXCEPT !.ho = NoHo, !.du = IF @ = d THEN NoDu ELSE @]]
  BY DEF LostConnection
<1>2. ASSUME NEW c \in CuIds PROVE Sound(ctx'[c], dus')
  <2>1. Sound(ctx[c], dus)
    BY DEF CtxInv
  <2> DEFINE r == [ctx[c] EXCEPT !.ho = NoHo]
             v == IF r.du = d THEN NoDu ELSE r.du
             s == [r EXCEPT !.du = v]
  <2>2. Sound(r, dus) /\ r.ho = NoHo
    BY <2>1, FieldKeeps DEF Sound, IsCtx
  <2>3. v \in dus' \cup {NoDu}
    <3> HIDE DEF r
    <3>1. r.du \in dus \cup {NoDu} /\ dus' = dus \ {d}
      BY <1>1, <2>2 DEF Sound
    <3>2. QED BY <3>1, Zenon
  <2>4. Sound(s, dus')
    <3> HIDE DEF r
    <3>1. s.ho = NoHo /\ IsHo(NoHo) /\ s.du = v /\ IsCtx(s)
      BY <2>2 DEF Sound, IsCtx, IsHo, NoHo
    <3>2. QED BY <2>3, <3>1 DEF Sound
  <2>5. ctx'[c] = s
    BY <1>1
  <2>6. QED BY <2>4, <2>5
<1>3. QED BY <1>1, <1>2 DEF CtxInv

(* The handlers that write nothing but a flag or a transaction.             *)
LEMMA FlagsKeep ==
    ASSUME CtxInv, dus' = dus, NEW c \in CuIds, NEW v,
           \/ ctx' = [ctx EXCEPT ![c].xids = v]
           \/ ctx' = [ctx EXCEPT ![c].sec = v]
           \/ ctx' = [ctx EXCEPT ![c].an_release = v]
    PROVE  CtxInv'
<1>1. Sound(ctx[c], dus)
  BY DEF CtxInv
<1>2. CASE ctx' = [ctx EXCEPT ![c].xids = v]
  <2>1. ctx' = [ctx EXCEPT ![c] = [ctx[c] EXCEPT !.xids = v]]
    BY <1>2
  <2>2. QED BY <1>1, <2>1, FieldKeeps, OneContext
<1>3. CASE ctx' = [ctx EXCEPT ![c].sec = v]
  <2>1. ctx' = [ctx EXCEPT ![c] = [ctx[c] EXCEPT !.sec = v]]
    BY <1>3
  <2>2. QED BY <1>1, <2>1, FieldKeeps, OneContext
<1>4. CASE ctx' = [ctx EXCEPT ![c].an_release = v]
  <2>1. ctx' = [ctx EXCEPT ![c] = [ctx[c] EXCEPT !.an_release = v]]
    BY <1>4
  <2>2. QED BY <1>1, <2>1, FieldKeeps, OneContext
<1>5. QED BY <1>2, <1>3, <1>4

LEMMA OtherCuKeeps ==
    ASSUME CtxInv, dus' = dus,
           \/ \E d \in Dus : ReestablishmentComplete(d) \/ ReleaseComplete(d)
           \/ \E c \in CuIds : ReleaseCommand(c) \/ ModifySession(c) \/ Register(c)
    PROVE  CtxInv'
<1>0. ctx' = ctx => CtxInv'
  BY DEF CtxInv
<1>1. ASSUME NEW d \in Dus, ReestablishmentComplete(d) PROVE CtxInv'
  <2> DEFINE c == Head(to_cu[d]).cu
  <2>1. \/ ctx' = ctx
        \/ Live(c) /\ ctx' = [ctx EXCEPT ![c].xids = (@ \ {"reestab"}) \cup {"reestab_done"}]
    BY <1>1 DEF ReestablishmentComplete
  <2>2. CASE Live(c) /\ ctx' = [ctx EXCEPT ![c].xids = (@ \ {"reestab"}) \cup {"reestab_done"}]
    <3>1. c \in CuIds
      BY <2>2 DEF Live
    <3>2. ctx' = [ctx EXCEPT ![c].xids = (ctx[c].xids \ {"reestab"}) \cup {"reestab_done"}]
      BY <2>2
    <3> HIDE DEF c
    <3>3. QED BY <3>1, <3>2, FlagsKeep
  <2>3. QED BY <1>0, <2>1, <2>2
<1>2. ASSUME NEW d \in Dus, ReleaseComplete(d) PROVE CtxInv'
  BY <1>0, <1>2, RemovedKeeps DEF ReleaseComplete
<1>3. ASSUME NEW c \in CuIds, ReleaseCommand(c) PROVE CtxInv'
  BY <1>3, RemovedKeeps, FlagsKeep DEF ReleaseCommand
<1>4. ASSUME NEW c \in CuIds, ModifySession(c) PROVE CtxInv'
  <2>1. ctx' = [ctx EXCEPT ![c].xids = ctx[c].xids \cup {"session"}]
    BY <1>4 DEF ModifySession
  <2>2. QED BY <2>1, FlagsKeep
<1>5. ASSUME NEW c \in CuIds, Register(c) PROVE CtxInv'
  BY <1>5, FlagsKeep DEF Register
<1>6. QED BY <1>1, <1>2, <1>3, <1>4, <1>5

-----------------------------------------------------------------------------
(* The contexts of the DUs.                                                 *)

LEMMA OneMac ==
    ASSUME MacInv, up' = up, NEW i, NEW r, mac' = [mac EXCEPT ![i] = r],
           i \in Ids => MacSound(r)
    PROVE  MacInv'
<1>1. mac' = [j \in Ids |-> mac'[j]]
  BY DEF MacInv
<1>2. ASSUME NEW j \in Ids PROVE MacSound(mac'[j])
  BY <1>2 DEF MacInv
<1>3. QED BY <1>1, <1>2 DEF MacInv, MacSound

LEMMA NewMac ==
    ASSUME MacInv, up' = up, NEW d \in up, NEW c,
           mac' = [mac EXCEPT ![NewId] = [du |-> d, cu |-> c, st |-> "active"]]
    PROVE  MacInv'
<1> DEFINE r == [du |-> d, cu |-> c, st |-> "active"]
<1>1. MacSound(r)
  BY DEF MacSound, IsMac
<1>2. QED BY <1>1, OneMac

(* A context that the DU has changes its state; one that it has not, only   *)
(* to "gone".                                                               *)
LEMMA StateKeeps ==
    ASSUME MacInv, up' = up, NEW i \in Ids, NEW s, mac' = [mac EXCEPT ![i].st = s],
           mac[i].st \notin {"none", "gone"} \/ s = "gone"
    PROVE  MacInv'
<1>1. MacSound(mac[i])
  BY DEF MacInv
<1> DEFINE r == [mac[i] EXCEPT !.st = s]
<1>2. MacSound(r)
  BY <1>1 DEF MacSound, IsMac
<1>3. mac' = [mac EXCEPT ![i] = r]
  OBVIOUS
<1>4. QED BY <1>2, <1>3, OneMac

-----------------------------------------------------------------------------
(* The steps.                                                               *)

LEMMA NothingHere ==
    /\ CtxInv /\ ctx' = ctx /\ dus' = dus => CtxInv'
    /\ NetInv /\ to_cu' = to_cu /\ up' = up /\ dus' = dus => NetInv'
    /\ MacInv /\ mac' = mac /\ up' = up => MacInv'
BY DEF CtxInv, NetInv, MacInv, MacSound

LEMMA CuStep ==
    ASSUME IInv, NEW d \in Dus, CuReceives(d)
    PROVE  IInv'
<1>1. to_cu[d] # <<>> /\ CuTakes(d) /\ up' = up /\ mac' = mac
  BY DEF CuReceives, SetupResponse, BearersResponse, ModificationResponse,
         MoreBearersResponse, ModificationRequired, ReconfigurationComplete,
         ReestablishmentRequest, ReestablishmentComplete, ReleaseRequest,
         ReleaseComplete, LostConnection, Took, duVars
<1>2. \/ LostConnection(d) /\ Head(to_cu[d]).t = "lost" /\ dus' = dus \ {d}
      \/ ~LostConnection(d) /\ dus' = dus
  BY DEF CuReceives, SetupResponse, BearersResponse, ModificationResponse,
         MoreBearersResponse, ModificationRequired, ReconfigurationComplete,
         ReestablishmentRequest, ReestablishmentComplete, ReleaseRequest,
         ReleaseComplete, LostConnection, Took, cuVars
<1>3. NetInv' /\ d \in dus
  BY <1>1, <1>2, TakeKeeps DEF IInv
<1>4. MacInv'
  BY <1>1, NothingHere DEF IInv
<1>5. CtxInv'
  BY <1>2, <1>3, SetupResponseKeeps, BearersResponseKeeps,
     ModificationResponseKeeps, MoreBearersResponseKeeps, ModificationRequiredKeeps,
     OtherCuKeeps,
     ReconfigurationCompleteKeeps, ReestablishmentRequestKeeps, ReleaseRequestKeeps,
     LostConnectionKeeps
     DEF IInv, CuReceives
<1>6. QED BY <1>3, <1>4, <1>5 DEF IInv

LEMMA CuAlone ==
    ASSUME IInv, NEW c \in CuIds,
           \/ \E t \in Dus : TriggerF1Ho(c, t)
           \/ ReleaseCommand(c) \/ AmfReleases(c) \/ SetupSession(c)
           \/ ModifySession(c) \/ Register(c)
    PROVE  IInv'
<1>1. to_cu' = to_cu /\ up' = up /\ mac' = mac /\ dus' = dus
  BY DEF TriggerF1Ho, ReleaseCommand, AmfReleases, SetupSession, ModifySession, Register,
         cuVars, duVars, netVars
<1>2. NetInv' /\ MacInv'
  BY <1>1, NothingHere DEF IInv
<1>3. AmfReleases(c) \/ SetupSession(c) => ctx' = ctx
  BY DEF AmfReleases, SetupSession, cuVars
<1>4. CtxInv'
  BY <1>1, <1>3, NothingHere, TriggerKeeps, OtherCuKeeps DEF IInv
<1>5. QED BY <1>2, <1>4 DEF IInv

(* dl_rrc_message_transfer.                                                 *)
LEMMA DlRrcStep ==
    ASSUME IInv, NEW d \in Dus, DuDlRrc(d)
    PROVE  IInv'
<1> DEFINE m == Head(to_du[d])
           has_old == m.old = 0 \/ Known(d, m.old)
<1>1. d \in up /\ dus' = dus /\ ctx' = ctx
  BY DEF DuDlRrc, TookCmd, cuVars
<1>2. CtxInv'
  BY <1>1, NothingHere DEF IInv
<1>3. CASE UNCHANGED <<to_cu, duVars>>
  BY <1>1, <1>2, <1>3, NothingHere DEF IInv, duVars
<1>4. CASE Dies(d)
  BY <1>1, <1>2, <1>4, DieKeeps DEF IInv
<1>5. CASE /\ up' = up
           /\ mac' = [i \in Ids |->
                  IF i = m.id /\ mac[i].cu = 0 THEN [mac[i] EXCEPT !.cu = m.cu]
                  ELSE IF i = m.old THEN [mac[i] EXCEPT !.st = "gone"]
                  ELSE mac[i]]
           /\ UeAnswers(d, m) \/ UNCHANGED <<ue, to_cu>>
  <2>1. MacInv'
    <3>1. ASSUME NEW i \in Ids PROVE MacSound(mac'[i])
      <4>1. MacSound(mac[i])
        BY DEF IInv, MacInv
      <4>2. mac'[i] \in {[mac[i] EXCEPT !.cu = m.cu], [mac[i] EXCEPT !.st = "gone"], mac[i]}
        BY <1>5
      <4> HIDE DEF m
      <4>3. MacSound([mac[i] EXCEPT !.cu = m.cu]) /\ MacSound([mac[i] EXCEPT !.st = "gone"])
        BY <4>1 DEF MacSound, IsMac
      <4>4. QED BY <4>1, <4>2, <4>3
    <3>2. QED BY <1>5, <3>1 DEF MacInv, MacSound
  <2>2. NetInv'
    <3>1. CASE to_cu' = to_cu
      BY <1>1, <1>5, <3>1, NothingHere DEF IInv
    <3>2. CASE to_cu' # to_cu
      <4> DEFINE n == [t |-> IF m.what = "reestab" THEN "reest_compl" ELSE "complete",
                       cu |-> m.cu, what |-> m.what]
      <4>1. Sent(d, n)
        BY <1>5, <3>2 DEF UeAnswers
      <4>2. n.t # "lost"
        OBVIOUS
      <4> HIDE DEF n
      <4>3. QED BY <1>1, <1>5, <4>1, <4>2, SendKeeps DEF IInv
    <3>3. QED BY <3>1, <3>2
  <2>3. QED BY <1>2, <2>1, <2>2 DEF IInv
<1>6. QED BY <1>3, <1>4, <1>5 DEF DuDlRrc

LEMMA ReleaseCommandStep ==
    ASSUME IInv, NEW d \in Dus, DuReleaseCommand(d)
    PROVE  IInv'
<1> DEFINE m == Head(to_du[d])
<1>1. d \in up /\ dus' = dus /\ ctx' = ctx /\ up' = up
  BY DEF DuReleaseCommand, TookCmd, cuVars
<1>2. CtxInv'
  BY <1>1, NothingHere DEF IInv
<1>3. MacInv'
  <2>1. CASE mac' = mac
    BY <1>1, <2>1, NothingHere DEF IInv
  <2>2. ASSUME Known(d, m.id), NEW s, mac' = [mac EXCEPT ![m.id].st = s] PROVE MacInv'
    <3>1. m.id \in Ids /\ mac[m.id].st \notin {"none", "gone"}
      BY <2>2 DEF Known
    <3> HIDE DEF m
    <3>2. QED BY <1>1, <2>2, <3>1, StateKeeps DEF IInv
  <2>3. \/ mac' = mac
        \/ Known(d, m.id) /\ mac' = [mac EXCEPT ![m.id].st = "releasing"]
        \/ Known(d, m.id) /\ mac' = [mac EXCEPT ![m.id].st = "gone"]
    BY DEF DuReleaseCommand
  <2>4. QED BY <2>1, <2>2, <2>3
<1>4. NetInv'
  <2>1. CASE to_cu' = to_cu
    BY <1>1, <2>1, NothingHere DEF IInv
  <2>2. CASE to_cu' # to_cu
    <3> DEFINE n == [t |-> "rel_compl", cu |-> IF Known(d, m.id) THEN mac[m.id].cu ELSE m.cu]
    <3>1. Sent(d, n)
      BY <2>2 DEF DuReleaseCommand
    <3>2. n.t # "lost"
      OBVIOUS
    <3> HIDE DEF n
    <3>3. QED BY <1>1, <3>1, <3>2, SendKeeps DEF IInv
  <2>3. QED BY <2>1, <2>2
<1>5. QED BY <1>2, <1>3, <1>4 DEF IInv

(* nr_mac_check_release and nr_mac_check_ul_failure.                        *)
LEMMA TimerStep ==
    ASSUME IInv, NEW i \in Ids, UlFailure(i) \/ ReleaseTimerExpires(i)
    PROVE  IInv'
<1>1. dus' = dus /\ ctx' = ctx /\ up' = up
  BY DEF UlFailure, ReleaseTimerExpires, cuVars
<1>2. mac[i].st \notin {"none", "gone"}
  BY DEF UlFailure, ReleaseTimerExpires
<1>3. mac[i].du \in up
  BY <1>2 DEF IInv, MacInv, MacSound
<1>4. MacInv'
  <2>1. \E s \in {"gone", "failed"} : mac' = [mac EXCEPT ![i].st = s]
    BY DEF UlFailure, ReleaseTimerExpires
  <2>2. QED BY <1>1, <1>2, <2>1, StateKeeps DEF IInv
<1>5. NetInv'
  <2>1. CASE to_cu' = to_cu
    BY <1>1, <2>1, NothingHere DEF IInv
  <2>2. CASE to_cu' # to_cu
    <3>1. PICK t \in {"rel_req", "rel_compl"} :
             Sent(mac[i].du, [t |-> t, cu |-> mac[i].cu])
      BY <2>2 DEF UlFailure, ReleaseTimerExpires
    <3> DEFINE n == [t |-> t, cu |-> mac[i].cu]
    <3>2. n.t # "lost" /\ Sent(mac[i].du, n)
      BY <3>1
    <3> HIDE DEF n
    <3>3. QED BY <1>1, <1>3, <3>2, SendKeeps DEF IInv
  <2>3. QED BY <2>1, <2>2
<1>6. QED BY <1>1, <1>4, <1>5, NothingHere DEF IInv

(* The handlers of the DU that only answer, or die.                         *)
LEMMA AnswerStep ==
    ASSUME IInv, NEW d \in Dus,
           DuBearersRequest(d) \/ DuMoreBearersRequest(d) \/ DuModificationRefuse(d)
    PROVE  IInv'
<1>1. d \in up /\ dus' = dus /\ ctx' = ctx
  BY DEF DuBearersRequest, DuMoreBearersRequest, DuModificationRefuse, TookCmd, cuVars
<1>2. CtxInv'
  BY <1>1, NothingHere DEF IInv
<1>3. CASE Dies(d)
  BY <1>1, <1>2, <1>3, DieKeeps DEF IInv
<1>4. CASE up' = up /\ mac' = mac /\ to_cu' = to_cu
  BY <1>1, <1>2, <1>4, NothingHere DEF IInv
<1>5. ASSUME NEW t \in {"bearers_resp", "more_bearers_resp", "rel_req"},
             up' = up, mac' = mac, Sent(d, [t |-> t, cu |-> Head(to_du[d]).cu])
      PROVE  IInv'
  <2> DEFINE n == [t |-> t, cu |-> Head(to_du[d]).cu]
  <2>1. Sent(d, n) /\ n.t # "lost"
    BY <1>5
  <2> HIDE DEF n
  <2>2. NetInv'
    BY <1>1, <1>5, <2>1, SendKeeps DEF IInv
  <2>3. QED BY <1>2, <1>5, <2>2, NothingHere DEF IInv
<1>6. QED BY <1>3, <1>4, <1>5
          DEF DuBearersRequest, DuMoreBearersRequest, DuModificationRefuse, duVars

LEMMA DuStep ==
    ASSUME IInv, NEW d \in Dus,
           DuSetupRequest(d) \/ DuModificationRequest(d) \/ DuLost(d) \/ UeReestablishes(d)
    PROVE  IInv'
<1>1. d \in up /\ dus' = dus /\ ctx' = ctx
  BY DEF DuSetupRequest, DuModificationRequest, DuLost, UeReestablishes, TookCmd, cuVars
<1>2. CtxInv'
  BY <1>1, NothingHere DEF IInv
<1>3. CASE DuSetupRequest(d)
  <2> DEFINE c == Head(to_du[d]).cu
             n == [t |-> "setup_resp", cu |-> c, id |-> NewId]
  <2>1. Sent(d, n) /\ n.t # "lost" /\ up' = up
    BY <1>3 DEF DuSetupRequest
  <2>2. MacInv'
    BY <1>1, <1>3, NewMac DEF DuSetupRequest, IInv
  <2>3. NetInv'
    <3> HIDE DEF n
    <3>1. QED BY <1>1, <2>1, SendKeeps DEF IInv
  <2>4. QED BY <1>2, <2>2, <2>3 DEF IInv
<1>4. CASE DuModificationRequest(d)
  <2>1. up' = up /\ mac' = mac
    BY <1>4 DEF DuModificationRequest, duVars
  <2>2. CASE to_cu' = to_cu
    BY <1>1, <1>2, <2>1, <2>2, NothingHere DEF IInv
  <2>3. CASE to_cu' # to_cu
    <3> DEFINE n == [t |-> "modif_resp", cu |-> Head(to_du[d]).cu]
    <3>1. Sent(d, n) /\ n.t # "lost"
      BY <1>4, <2>3 DEF DuModificationRequest
    <3> HIDE DEF n
    <3>2. NetInv'
      BY <1>1, <2>1, <3>1, SendKeeps DEF IInv
    <3>3. QED BY <1>2, <2>1, <3>2, NothingHere DEF IInv
  <2>4. QED BY <2>2, <2>3
<1>5. CASE DuLost(d)
  BY <1>1, <1>2, <1>5, DieKeeps DEF DuLost, IInv
<1>6. CASE UeReestablishes(d)
  <2> DEFINE n == [t |-> "reest_req", pci |-> ue.du, rnti |-> ue.id, id |-> NewId]
  <2>1. Sent(d, n) /\ n.t # "lost" /\ up' = up
    BY <1>6 DEF UeReestablishes
  <2>2. MacInv'
    BY <1>1, <1>6, NewMac DEF UeReestablishes, IInv
  <2>3. NetInv'
    <3> HIDE DEF n
    <3>1. QED BY <1>1, <2>1, SendKeeps DEF IInv
  <2>4. QED BY <1>2, <2>2, <2>3 DEF IInv
<1>7. QED BY <1>3, <1>4, <1>5, <1>6

LEMMA UeStep ==
    ASSUME IInv, UeArrives \/ UeLosesRadio \/ UeGivesUp
    PROVE  IInv'
<1>1. dus' = dus /\ ctx' = ctx /\ up' = up /\ mac' = mac
  BY DEF UeArrives, UeLosesRadio, UeGivesUp, cuVars, duVars
<1>2. CtxInv' /\ MacInv'
  BY <1>1, NothingHere DEF IInv
<1>3. CASE to_cu' = to_cu
  BY <1>1, <1>2, <1>3, NothingHere DEF IInv
<1>4. CASE to_cu' # to_cu
  <2>1. UeArrives
    BY <1>4 DEF UeLosesRadio, UeGivesUp, netVars
  <2>2. ue.next.du \in up
    BY <2>1 DEF UeArrives, Known, IInv, MacInv, MacSound
  <2> DEFINE n == [t |-> "complete", cu |-> mac[ue.next.id].cu, what |-> "dedicated"]
  <2>3. Sent(ue.next.du, n) /\ n.t # "lost"
    BY <2>1 DEF UeArrives
  <2> HIDE DEF n
  <2>4. NetInv'
    BY <1>1, <2>2, <2>3, SendKeeps DEF IInv
  <2>5. QED BY <1>2, <2>4 DEF IInv
<1>5. QED BY <1>3, <1>4

LEMMA ReturnStep ==
    ASSUME IInv, UeReturns
    PROVE  IInv'
<1>1. dus' = dus /\ ctx' = ctx /\ up' = up /\ Known(ue.du, ue.id)
  BY DEF UeReturns, cuVars
<1>2. CtxInv'
  BY <1>1, NothingHere DEF IInv
<1>3. ue.id \in Ids /\ mac[ue.id].st \notin {"none", "gone"} /\ ue.du \in up
  BY <1>1 DEF Known, IInv, MacInv, MacSound
<1>4. MacInv'
  <2>1. \E v : mac' = [mac EXCEPT ![ue.id].st = v]
    BY DEF UeReturns
  <2>2. QED BY <1>1, <1>3, <2>1, StateKeeps DEF IInv
<1>5. NetInv'
  <2>1. CASE to_cu' = to_cu
    BY <1>1, <2>1, NothingHere DEF IInv
  <2>2. CASE to_cu' # to_cu
    <3> DEFINE n == [t |-> "required", cu |-> mac[ue.id].cu, id |-> ue.id]
    <3>1. Sent(ue.du, n) /\ n.t # "lost"
      BY <2>2 DEF UeReturns
    <3> HIDE DEF n
    <3>2. QED BY <1>1, <1>3, <3>1, SendKeeps DEF IInv
  <2>3. QED BY <2>1, <2>2
<1>6. QED BY <1>2, <1>4, <1>5 DEF IInv

LEMMA InitIInv == Init => IInv
<1> SUFFICES ASSUME Init PROVE IInv
  OBVIOUS
<1>1. Home \in Dus
  BY DusAssumption
<1>2. CtxInv
  <2>1. Sound(NoCtx, Dus) /\ Sound(NewCtx(Home, 1), Dus)
    BY <1>1, NewIsSound
  <2> DEFINE r(f1) == [NewCtx(Home, 1) EXCEPT !.sec = TRUE, !.cg = Home, !.f1 = f1]
  <2>2. ASSUME NEW f1 \in BOOLEAN PROVE Sound(r(f1), Dus)
    <3> DEFINE g == [NewCtx(Home, 1) EXCEPT !.sec = TRUE]
               h == [g EXCEPT !.cg = Home]
               k == [h EXCEPT !.f1 = f1]
    <3>1. Sound(g, Dus)
      BY <2>1, FieldKeeps
    <3>2. Sound(h, Dus)
      BY <3>1, FieldKeeps
    <3>3. Sound(k, Dus)
      BY <3>2, FieldKeeps
    <3>4. r(f1) = k
      OBVIOUS
    <3>5. QED BY <3>3, <3>4
  <2>3. dus = Dus
    BY DEF Init
  <2>4. ASSUME NEW c \in CuIds
        PROVE  ctx[c] = NoCtx \/ \E f1 \in BOOLEAN : ctx[c] = r(f1)
    BY DEF Init
  <2>5. ctx = [c \in CuIds |-> ctx[c]]
    BY DEF Init
  <2>6. QED BY <2>1, <2>2, <2>3, <2>4, <2>5 DEF CtxInv
<1>3. NetInv
  <2>1. <<>> \in Seq({}) /\ Len(<<>>) = 0
    OBVIOUS
  <2>2. \A d \in Dus : to_cu[d] = <<>>
    BY DEF Init
  <2>3. ASSUME NEW d \in Dus PROVE Channel(to_cu[d], d, up, dus)
    <3>1. \E S : to_cu[d] \in Seq(S)
      BY <2>1, <2>2, Zenon
    <3>2. 1..Len(to_cu[d]) = {}
      BY <2>1, <2>2
    <3>3. QED BY <2>2, <3>1, <3>2, Zenon DEF Channel
  <2>4. QED BY <2>3 DEF Init, NetInv
<1>4. MacInv
  <2>1. mac = [i \in Ids |-> mac[i]] /\ up = Dus
    BY DEF Init
  <2> DEFINE r == [du |-> Home, cu |-> 1, st |-> "active"]
  <2>2. MacSound(NoMac) /\ MacSound(r)
    BY <1>1, <2>1 DEF MacSound, IsMac, NoMac
  <2>3. \A i \in Ids : mac[i] = NoMac \/ mac[i] = r
    BY DEF Init
  <2>4. QED BY <2>1, <2>2, <2>3 DEF MacInv
<1>5. QED BY <1>2, <1>3, <1>4 DEF IInv

LEMMA NextKeepsIInv == IInv /\ [Next]_vars => IInv'
<1> SUFFICES ASSUME IInv, [Next]_vars PROVE IInv'
  OBVIOUS
<1>1. ASSUME NEW d \in Dus,
             CuReceives(d) \/ DuReceives(d) \/ DuLost(d) \/ UeReestablishes(d)
      PROVE  IInv'
  BY <1>1, CuStep, DuStep, DlRrcStep, AnswerStep, ReleaseCommandStep DEF DuReceives
<1>2. ASSUME NEW c \in CuIds,
             \/ \E t \in Dus : TriggerF1Ho(c, t)
             \/ ReleaseCommand(c) \/ AmfReleases(c) \/ SetupSession(c)
             \/ ModifySession(c) \/ Register(c)
      PROVE  IInv'
  BY <1>2, CuAlone
<1>3. ASSUME NEW i \in Ids, UlFailure(i) \/ ReleaseTimerExpires(i) PROVE IInv'
  BY <1>3, TimerStep
<1>4. CASE UeArrives \/ UeLosesRadio \/ UeGivesUp \/ UeReturns
  BY <1>4, UeStep, ReturnStep
<1>5. CASE UNCHANGED vars
  BY <1>5, NothingHere DEF IInv, vars, cuVars, netVars, duVars
<1>6. QED BY <1>1, <1>2, <1>3, <1>4, <1>5 DEF Next, Step

LEMMA Invariance == Spec => []IInv
BY InitIInv, NextKeepsIInv, PTL DEF Spec

-----------------------------------------------------------------------------
(* What is under way on an association.  Is(m, t, x): message m is of kind  *)
(* t and about x.  A request and its answer are of one kind, so that an     *)
(* association (p to the CU, q to the DU) reads as one sequence, p before q,*)
(* in which the DU's handlers only turn requests into answers.              *)

Again(m) == m.t = "dl" /\ m.what = "reestab"
Is(m, t, x) ==
    \/ t = "setup"  /\ m.t \in {"setup", "setup_resp"} /\ m.cu = x
    \/ t = "modif"  /\ m.t \in {"modif", "modif_resp"} /\ m.cu = x
    \/ t = "reest"  /\ (Again(m) \/ m.t = "reest_compl") /\ m.cu = x
    \/ t = "turn"   /\ (Again(m) \/ m.t = "reest_req")
    \/ t = "answer" /\ m.t = "reest_compl"
    \/ t = "again"  /\ Again(m) /\ m.id = x
    \/ t = "other"  /\ m.t = "dl" /\ m.what # "reestab" /\ m.id = x
    \/ t = "made"   /\ m.t = "setup_resp" /\ m.id = x
    \/ t = "asked"  /\ m.t = "reest_req" /\ m.id = x
    \/ t = "names"  /\ m.t = "reest_req" /\ m.rnti = x
    \/ t = "sends"  /\ m.t = "modif" /\ m.to_id = x
    \/ t = "complete" /\ m.t = "complete" /\ m.cu = x

IsSeq(q) == \E S : q \in Seq(S)
Elems(q) == {q[k] : k \in 1..Len(q)}
In(q, t, x) == \E k \in 1..Len(q) : Is(q[k], t, x)
One(q, t, x) == \A k, l \in 1..Len(q) : Is(q[k], t, x) /\ Is(q[l], t, x) => k = l
Before(q, t, u, x) == \A k, l \in 1..Len(q) : Is(q[k], t, x) /\ Is(q[l], u, x) => k < l

Has(p, q, t, x)  == In(p, t, x) \/ In(q, t, x)
Once(p, q, t, x) == One(p, t, x) /\ One(q, t, x) /\ ~(In(p, t, x) /\ In(q, t, x))
Ahead(p, q, t, u, x) ==
    Before(p, t, u, x) /\ Before(q, t, u, x) /\ ~(In(q, t, x) /\ In(p, u, x))

(* A request that names context i comes after the completion of UE c.       *)
Led(p, i, c) ==
    \A k \in 1..Len(p) : Is(p[k], "names", i) => \E l \in 1..(k - 1) : Is(p[l], "complete", c)

LEMMA SeqEmpty == IsSeq(<<>>) /\ Elems(<<>>) = {}
<1>1. <<>> \in Seq({})
  OBVIOUS
<1>2. Len(<<>>) = 0
  OBVIOUS
<1>3. QED BY <1>1, <1>2 DEF IsSeq, Elems

LEMMA SeqAppend ==
    ASSUME NEW q, IsSeq(q), NEW m
    PROVE  /\ Len(q) \in Nat /\ Len(Append(q, m)) = Len(q) + 1
           /\ \A n \in 1..Len(q) : Append(q, m)[n] = q[n]
           /\ Append(q, m)[Len(q) + 1] = m
           /\ IsSeq(Append(q, m)) /\ Elems(Append(q, m)) = Elems(q) \cup {m}
<1>1. PICK S : q \in Seq(S)
  BY DEF IsSeq
<1>2. /\ Append(q, m) \in Seq(S \cup {m})
      /\ Len(q) \in Nat /\ Len(Append(q, m)) = Len(q) + 1
      /\ \A n \in 1..Len(q) : Append(q, m)[n] = q[n]
      /\ Append(q, m)[Len(q) + 1] = m
  BY <1>1, Appended
<1>3. IsSeq(Append(q, m))
  BY <1>2 DEF IsSeq
<1>4. ASSUME NEW e PROVE e \in Elems(Append(q, m)) <=> e \in Elems(q) \cup {m}
  <2>. DEFINE a == Append(q, m)
              n == Len(q)
  <2>1. n \in Nat /\ Len(a) = n + 1 /\ (\A k \in 1..n : a[k] = q[k]) /\ a[n + 1] = m
    BY <1>2
  <2>2. e \in {a[k] : k \in 1..(n + 1)} <=> e \in {q[k] : k \in 1..n} \cup {m}
    <3>. HIDE DEF a, n
    <3>1. 1..(n + 1) = (1..n) \cup {n + 1}
      BY <2>1
    <3>2. QED BY <2>1, <3>1
  <2>3. QED BY <2>1, <2>2 DEF Elems
<1>5. Elems(Append(q, m)) = Elems(q) \cup {m}
  BY <1>4
<1>6. QED BY <1>2, <1>3, <1>5

LEMMA SeqTail ==
    ASSUME NEW q, IsSeq(q), q # <<>>
    PROVE  /\ Len(q) \in Nat \ {0} /\ Len(Tail(q)) = Len(q) - 1
           /\ \A n \in 1..Len(Tail(q)) : Tail(q)[n] = q[n + 1] /\ n + 1 \in 1..Len(q)
           /\ Head(q) = q[1] /\ 1 \in 1..Len(q)
           /\ IsSeq(Tail(q)) /\ Elems(Tail(q)) \subseteq Elems(q) /\ Head(q) \in Elems(q)
<1>1. PICK S : q \in Seq(S)
  BY DEF IsSeq
<1>2. /\ Len(q) \in Nat \ {0} /\ Len(Tail(q)) = Len(q) - 1 /\ Tail(q) \in Seq(S)
      /\ \A n \in 1..Len(Tail(q)) : Tail(q)[n] = q[n + 1]
      /\ Head(q) = q[1]
  BY <1>1
<1>3. 1 \in 1..Len(q) /\ \A n \in 1..Len(Tail(q)) : n + 1 \in 1..Len(q)
  BY <1>2
<1>4. IsSeq(Tail(q))
  BY <1>2 DEF IsSeq
<1>5. Elems(Tail(q)) \subseteq Elems(q) /\ Head(q) \in Elems(q)
  BY <1>2, <1>3 DEF Elems
<1>6. QED BY <1>2, <1>3, <1>4, <1>5

LEMMA InElems ==
    ASSUME NEW q, NEW t, NEW x
    PROVE  In(q, t, x) <=> \E m \in Elems(q) : Is(m, t, x)
BY DEF In, Elems

LEMMA NoneInEmpty ==
    ASSUME NEW t, NEW u, NEW x
    PROVE  ~In(<<>>, t, x) /\ One(<<>>, t, x) /\ Before(<<>>, t, u, x)
<1>1. 1..Len(<<>>) = {}
  OBVIOUS
<1>2. QED BY <1>1 DEF In, One, Before

LEMMA AppendKinds ==
    ASSUME NEW q, IsSeq(q), NEW m, NEW t, NEW u, NEW x
    PROVE  /\ In(Append(q, m), t, x) <=> In(q, t, x) \/ Is(m, t, x)
           /\ One(q, t, x) /\ ~(Is(m, t, x) /\ In(q, t, x)) => One(Append(q, m), t, x)
           /\ Before(q, t, u, x) /\ ~(Is(m, t, x) /\ (In(q, u, x) \/ Is(m, u, x)))
                 => Before(Append(q, m), t, u, x)
<1>. DEFINE a == Append(q, m)
            n == Len(q)
<1>1. n \in Nat /\ Len(a) = n + 1 /\ (\A k \in 1..n : a[k] = q[k]) /\ a[n + 1] = m
  BY SeqAppend
<1>2. 1..Len(a) = (1..n) \cup {n + 1}
  <2>. HIDE DEF a, n
  <2>. QED BY <1>1
<1>3. In(a, t, x) <=> In(q, t, x) \/ Is(m, t, x)
  <2>1. (\E k \in 1..Len(a) : Is(a[k], t, x)) <=> (\E k \in 1..n : Is(q[k], t, x)) \/ Is(m, t, x)
    <3>. HIDE DEF a, n
    <3>. QED BY <1>1, <1>2
  <2>. QED BY <2>1 DEF In
<1>4. ASSUME One(q, t, x), ~(Is(m, t, x) /\ In(q, t, x)) PROVE One(a, t, x)
  <2>1. \A k, l \in 1..n : Is(q[k], t, x) /\ Is(q[l], t, x) => k = l
    BY <1>4 DEF One
  <2>2. Is(m, t, x) => \A k \in 1..n : ~Is(q[k], t, x)
    BY <1>4 DEF In
  <2>3. \A k, l \in 1..Len(a) : Is(a[k], t, x) /\ Is(a[l], t, x) => k = l
    <3>. HIDE DEF a, n
    <3>. QED BY <1>1, <1>2, <2>1, <2>2
  <2>. QED BY <2>3 DEF One
<1>5. ASSUME Before(q, t, u, x), ~(Is(m, t, x) /\ (In(q, u, x) \/ Is(m, u, x)))
      PROVE  Before(a, t, u, x)
  <2>1. \A k, l \in 1..n : Is(q[k], t, x) /\ Is(q[l], u, x) => k < l
    BY <1>5 DEF Before
  <2>2. Is(m, t, x) => ~Is(m, u, x) /\ \A k \in 1..n : ~Is(q[k], u, x)
    BY <1>5 DEF In
  <2>3. \A k, l \in 1..Len(a) : Is(a[k], t, x) /\ Is(a[l], u, x) => k < l
    <3>. HIDE DEF a, n
    <3>1. \A k \in 1..n : k < n + 1
      BY <1>1
    <3>. QED BY <1>1, <1>2, <2>1, <2>2, <3>1
  <2>. QED BY <2>3 DEF Before
<1>. QED BY <1>3, <1>4, <1>5

LEMMA TailKinds ==
    ASSUME NEW q, IsSeq(q), q # <<>>, NEW t, NEW u, NEW x
    PROVE  /\ In(Tail(q), t, x) => In(q, t, x)
           /\ In(q, t, x) => In(Tail(q), t, x) \/ Is(Head(q), t, x)
           /\ Is(Head(q), t, x) => In(q, t, x)
           /\ One(q, t, x) => One(Tail(q), t, x) /\ (Is(Head(q), t, x) => ~In(Tail(q), t, x))
           /\ Before(q, t, u, x) => /\ Before(Tail(q), t, u, x)
                                    /\ Is(Head(q), u, x) => ~In(q, t, x)
<1>. DEFINE a == Tail(q)
            n == Len(q)
<1>1. /\ n \in Nat \ {0} /\ Len(a) = n - 1 /\ Head(q) = q[1] /\ 1 \in 1..n
      /\ \A k \in 1..Len(a) : a[k] = q[k + 1] /\ k + 1 \in 1..n
  BY SeqTail
<1>2. In(a, t, x) => In(q, t, x)
  BY <1>1 DEF In
<1>3. In(q, t, x) => In(a, t, x) \/ Is(Head(q), t, x)
  <2>. SUFFICES ASSUME NEW k \in 1..n, Is(q[k], t, x), k # 1 PROVE In(a, t, x)
    BY <1>1 DEF In
  <2>1. k - 1 \in 1..Len(a) /\ (k - 1) + 1 = k
    <3>. HIDE DEF a, n
    <3>. QED BY <1>1
  <2>2. Is(a[k - 1], t, x)
    BY <1>1, <2>1
  <2>. QED BY <2>1, <2>2 DEF In
<1>4. Is(Head(q), t, x) => In(q, t, x)
  BY <1>1 DEF In
<1>5. ASSUME One(q, t, x) PROVE One(a, t, x) /\ (Is(Head(q), t, x) => ~In(a, t, x))
  <2>1. \A k, l \in 1..n : Is(q[k], t, x) /\ Is(q[l], t, x) => k = l
    BY <1>5 DEF One
  <2>2. \A k, l \in 1..Len(a) : Is(a[k], t, x) /\ Is(a[l], t, x) => k = l
    <3>. HIDE DEF a, n
    <3>. QED BY <1>1, <2>1
  <2>3. Is(q[1], t, x) => \A k \in 1..Len(a) : ~Is(a[k], t, x)
    <3>. HIDE DEF a, n
    <3>. QED BY <1>1, <2>1
  <2>. QED BY <1>1, <2>2, <2>3 DEF One, In
<1>6. ASSUME Before(q, t, u, x)
      PROVE  Before(a, t, u, x) /\ (Is(Head(q), u, x) => ~In(q, t, x))
  <2>1. \A k, l \in 1..n : Is(q[k], t, x) /\ Is(q[l], u, x) => k < l
    BY <1>6 DEF Before
  <2>2. \A k, l \in 1..Len(a) : Is(a[k], t, x) /\ Is(a[l], u, x) => k < l
    <3>. HIDE DEF a, n
    <3>. QED BY <1>1, <2>1
  <2>3. Is(q[1], u, x) => \A k \in 1..n : ~Is(q[k], t, x)
    <3>. HIDE DEF a, n
    <3>. QED BY <1>1, <2>1
  <2>. QED BY <1>1, <2>2, <2>3 DEF Before, In
<1>. QED BY <1>2, <1>3, <1>4, <1>5, <1>6

(* From p and q to p2 and q2 messages only go, or turn into answers, and    *)
(* keep their order, as far as the kinds K can tell.                        *)
Kinds == {"setup", "modif", "reest", "turn", "answer", "again", "other",
          "made", "asked", "names", "sends"}
Calm(K, p, q, p2, q2) ==
    \A t \in K : \A x :
        /\ Has(p2, q2, t, x) => Has(p, q, t, x)
        /\ Once(p, q, t, x) => Once(p2, q2, t, x)
        /\ \A u \in K : Ahead(p, q, t, u, x) => Ahead(p2, q2, t, u, x)
Neutral(m) == \A t \in Kinds : \A x : ~Is(m, t, x)

LEMMA CalmSame == ASSUME NEW K, NEW p, NEW q PROVE Calm(K, p, q, p, q)
BY DEF Calm

LEMMA CalmTrans ==
    ASSUME NEW K, NEW p, NEW q, NEW p1, NEW q1, NEW p2, NEW q2,
           Calm(K, p, q, p1, q1), Calm(K, p1, q1, p2, q2)
    PROVE  Calm(K, p, q, p2, q2)
BY DEF Calm

LEMMA CalmSubset ==
    ASSUME NEW K, NEW L, L \subseteq K, NEW p, NEW q, NEW p2, NEW q2, Calm(K, p, q, p2, q2)
    PROVE  Calm(L, p, q, p2, q2)
BY DEF Calm

(* The CU takes a message.                                                  *)
LEMMA CuTakeCalm ==
    ASSUME NEW K, NEW p, IsSeq(p), p # <<>>, NEW q
    PROVE  Calm(K, p, q, Tail(p), q)
BY TailKinds DEF Calm, Has, Once, Ahead

(* The DU takes a message and does not answer.                              *)
LEMMA DuTakeCalm ==
    ASSUME NEW K, NEW p, NEW q, IsSeq(q), q # <<>>
    PROVE  Calm(K, p, q, p, Tail(q))
BY TailKinds DEF Calm, Has, Once, Ahead

(* The association to the DU is cut.                                        *)
LEMMA CutCalm ==
    ASSUME NEW K, NEW p, NEW q
    PROVE  Calm(K, p, q, p, <<>>)
BY NoneInEmpty DEF Calm, Has, Once, Ahead

(* Somebody sends what the kinds K do not tell.                             *)
LEMMA DuSayCalm ==
    ASSUME NEW K, NEW p, IsSeq(p), NEW q, NEW m, \A t \in K : \A x : ~Is(m, t, x)
    PROVE  Calm(K, p, q, Append(p, m), q)
BY AppendKinds DEF Calm, Has, Once, Ahead

LEMMA CuSayCalm ==
    ASSUME NEW K, NEW p, NEW q, IsSeq(q), NEW m, \A t \in K : \A x : ~Is(m, t, x)
    PROVE  Calm(K, p, q, p, Append(q, m))
BY AppendKinds DEF Calm, Has, Once, Ahead

(* The DU takes a message and answers it with m.                            *)
LEMMA MoveCalm ==
    ASSUME NEW K, NEW p, IsSeq(p), NEW q, IsSeq(q), q # <<>>, NEW m,
           \A t \in K : \A x : Is(m, t, x) => Is(Head(q), t, x)
    PROVE  Calm(K, p, q, Append(p, m), Tail(q))
<1>. SUFFICES ASSUME NEW t \in K, NEW x, NEW u \in K
              PROVE  /\ Has(Append(p, m), Tail(q), t, x) => Has(p, q, t, x)
                     /\ Once(p, q, t, x) => Once(Append(p, m), Tail(q), t, x)
                     /\ Ahead(p, q, t, u, x) => Ahead(Append(p, m), Tail(q), t, u, x)
  BY DEF Calm
<1>1. (Is(m, t, x) => Is(Head(q), t, x)) /\ (Is(m, u, x) => Is(Head(q), u, x))
  OBVIOUS
<1>2. /\ In(Append(p, m), t, x) <=> In(p, t, x) \/ Is(m, t, x)
      /\ In(Append(p, m), u, x) <=> In(p, u, x) \/ Is(m, u, x)
      /\ One(p, t, x) /\ ~(Is(m, t, x) /\ In(p, t, x)) => One(Append(p, m), t, x)
      /\ Before(p, t, u, x) /\ ~(Is(m, t, x) /\ (In(p, u, x) \/ Is(m, u, x)))
            => Before(Append(p, m), t, u, x)
  BY AppendKinds
<1>3. /\ In(Tail(q), t, x) => In(q, t, x)
      /\ Is(Head(q), t, x) => In(q, t, x)
      /\ One(q, t, x) => One(Tail(q), t, x) /\ (Is(Head(q), t, x) => ~In(Tail(q), t, x))
      /\ Before(q, t, u, x) => /\ Before(Tail(q), t, u, x)
                               /\ Is(Head(q), u, x) => ~In(q, t, x)
  BY TailKinds
<1>4. Has(Append(p, m), Tail(q), t, x) => Has(p, q, t, x)
  BY <1>1, <1>2, <1>3 DEF Has
<1>5. Once(p, q, t, x) => Once(Append(p, m), Tail(q), t, x)
  BY <1>1, <1>2, <1>3 DEF Once
<1>6. Ahead(p, q, t, u, x) => Ahead(Append(p, m), Tail(q), t, u, x)
  BY <1>1, <1>2, <1>3 DEF Ahead
<1>. QED BY <1>4, <1>5, <1>6

(* A kind is added at the end of what goes to the DU.                       *)
LEMMA CuSayKind ==
    ASSUME NEW p, NEW q, IsSeq(q), NEW m, NEW t, NEW u, NEW x
    PROVE  /\ Has(p, Append(q, m), t, x) <=> Has(p, q, t, x) \/ Is(m, t, x)
           /\ Once(p, q, t, x) /\ ~(Is(m, t, x) /\ Has(p, q, t, x)) => Once(p, Append(q, m), t, x)
           /\ Ahead(p, q, t, u, x) /\ ~(Is(m, t, x) /\ (Has(p, q, u, x) \/ Is(m, u, x)))
                 => Ahead(p, Append(q, m), t, u, x)
BY AppendKinds DEF Has, Once, Ahead

(* What a message at the head of p means for the rest.                      *)
LEMMA CuTakeKind ==
    ASSUME NEW p, IsSeq(p), p # <<>>, NEW q, NEW t, NEW u, NEW x
    PROVE  /\ Is(Head(p), t, x) => Has(p, q, t, x)
           /\ Is(Head(p), t, x) /\ Once(p, q, t, x) => ~Has(Tail(p), q, t, x)
           /\ Is(Head(p), u, x) /\ Ahead(p, q, t, u, x) => ~Has(p, q, t, x)
BY TailKinds DEF Has, Once, Ahead

-----------------------------------------------------------------------------
(* Where messages of type t wait in the associations Q.                     *)
Places(Q, t) == {w \in Dus \X Nat : w[2] \in 1..Len(Q[w[1]]) /\ Q[w[1]][w[2]].t = t}
Few(Q, t, n) == IsFiniteSet(Places(Q, t)) /\ Cardinality(Places(Q, t)) <= n

LEMMA FewLess ==
    ASSUME NEW Q, NEW t, NEW n \in Int, NEW k \in Int, n <= k, Few(Q, t, n)
    PROVE  Few(Q, t, k)
<1>1. Cardinality(Places(Q, t)) \in Nat
  BY FS_CardinalityType DEF Few
<1>. QED BY <1>1 DEF Few

LEMMA FewAppend ==
    ASSUME NEW Q, \A e \in Dus : IsSeq(Q[e]), NEW Q2, NEW d \in Dus, NEW m, NEW t, NEW n \in Int,
           Q2[d] = Append(Q[d], m), \A e \in Dus \ {d} : Q2[e] = Q[e], Few(Q, t, n)
    PROVE  Few(Q2, t, IF m.t = t THEN n + 1 ELSE n)
<1>. DEFINE A == Places(Q, t)
            B == Places(Q2, t)
            z == <<d, Len(Q[d]) + 1>>
<1>1. /\ Len(Q[d]) \in Nat /\ Len(Q2[d]) = Len(Q[d]) + 1
      /\ \A k \in 1..Len(Q[d]) : Q2[d][k] = Q[d][k]
      /\ Q2[d][Len(Q[d]) + 1] = m
  BY SeqAppend
<1>2. ASSUME NEW w \in B PROVE w \in A \/ (w = z /\ m.t = t)
  <2>1. PICK e \in Dus, k \in Nat : w = <<e, k>> /\ k \in 1..Len(Q2[e]) /\ Q2[e][k].t = t
    BY DEF Places
  <2>2. CASE e # d
    BY <2>1, <2>2 DEF Places
  <2>3. CASE e = d /\ k \in 1..Len(Q[d])
    BY <1>1, <2>1, <2>3 DEF Places
  <2>4. CASE e = d /\ k = Len(Q[d]) + 1
    BY <1>1, <2>1, <2>4
  <2>. QED BY <1>1, <2>1, <2>2, <2>3, <2>4
<1>3. IsFiniteSet(A) /\ Cardinality(A) \in Nat /\ Cardinality(A) <= n
  BY FS_CardinalityType DEF Few
<1>4. IsFiniteSet(A \cup {z}) /\ Cardinality(A \cup {z}) \in Nat /\ Cardinality(A \cup {z}) <= n + 1
  <2>. HIDE DEF A, z
  <2>1. IsFiniteSet(A \cup {z}) /\ Cardinality(A \cup {z}) = IF z \in A THEN Cardinality(A) ELSE Cardinality(A) + 1
    BY <1>3, FS_AddElement
  <2>. QED BY <1>3, <2>1
<1>5. CASE m.t = t
  <2>1. B \in SUBSET (A \cup {z})
    BY <1>2
  <2>2. IsFiniteSet(B) /\ Cardinality(B) <= Cardinality(A \cup {z})
    <3>. HIDE DEF A, B, z
    <3>. QED BY <1>4, <2>1, FS_Subset
  <2>3. Cardinality(B) \in Nat
    BY <2>2, FS_CardinalityType
  <2>4. Cardinality(B) <= n + 1
    <3>. HIDE DEF A, B, z
    <3>. QED BY <1>4, <2>2, <2>3
  <2>. QED BY <1>5, <2>2, <2>4 DEF Few
<1>6. CASE m.t # t
  <2>1. B \in SUBSET A
    BY <1>2, <1>6
  <2>2. IsFiniteSet(B) /\ Cardinality(B) <= Cardinality(A)
    <3>. HIDE DEF A, B, z
    <3>. QED BY <1>3, <2>1, FS_Subset
  <2>3. Cardinality(B) \in Nat
    BY <2>2, FS_CardinalityType
  <2>4. Cardinality(B) <= n
    <3>. HIDE DEF A, B, z
    <3>. QED BY <1>3, <2>2, <2>3
  <2>. QED BY <1>6, <2>2, <2>4 DEF Few
<1>. QED BY <1>5, <1>6

LEMMA FewTail ==
    ASSUME NEW Q, \A e \in Dus : IsSeq(Q[e]), NEW Q2, NEW d \in Dus, NEW t, NEW n \in Int,
           Q[d] # <<>>, Q2[d] = Tail(Q[d]), \A e \in Dus \ {d} : Q2[e] = Q[e], Few(Q, t, n)
    PROVE  Few(Q2, t, IF Head(Q[d]).t = t THEN n - 1 ELSE n)
<1>. DEFINE A == Places(Q, t)
            B == Places(Q2, t)
            z == <<d, 1>>
            f == [w \in B |-> IF w[1] = d THEN <<d, w[2] + 1>> ELSE w]
<1>1. /\ Len(Q[d]) \in Nat \ {0} /\ Len(Q2[d]) = Len(Q[d]) - 1
      /\ \A k \in 1..Len(Q2[d]) : Q2[d][k] = Q[d][k + 1] /\ k + 1 \in 1..Len(Q[d])
      /\ Head(Q[d]) = Q[d][1] /\ 1 \in 1..Len(Q[d])
  BY SeqTail
<1>2. ASSUME NEW w \in B PROVE f[w] \in A \ {z}
  <2>1. PICK e \in Dus, k \in Nat : w = <<e, k>> /\ k \in 1..Len(Q2[e]) /\ Q2[e][k].t = t
    BY DEF Places
  <2>2. w[1] = e /\ w[2] = k
    BY <2>1
  <2>3. CASE e # d
    <3>1. f[w] = <<e, k>>
      BY <2>1, <2>2, <2>3
    <3>2. <<e, k>> \in A
      BY <2>1, <2>3 DEF Places
    <3>3. <<e, k>> # z
      BY <2>3
    <3>. QED BY <3>1, <3>2, <3>3
  <2>4. CASE e = d
    <3>1. f[w] = <<d, k + 1>>
      BY <2>1, <2>2, <2>4
    <3>2. k \in 1..Len(Q2[d]) /\ Q2[d][k].t = t
      BY <2>1, <2>4
    <3>5. k + 1 \in 1..Len(Q[d]) /\ Q[d][k + 1].t = t
      BY <1>1, <3>2
    <3>6. k + 1 \in Nat /\ k + 1 # 1
      BY <1>1, <3>2
    <3>3. <<d, k + 1>> \in A
      BY <3>5, <3>6 DEF Places
    <3>4. <<d, k + 1>> # z
      BY <3>6
    <3>. QED BY <3>1, <3>3, <3>4
  <2>. QED BY <2>3, <2>4
<1>3. ASSUME NEW v \in B, NEW w \in B, f[v] = f[w] PROVE v = w
  <2>1. PICK e \in Dus, k \in Nat : v = <<e, k>>
    BY DEF Places
  <2>2. PICK g \in Dus, l \in Nat : w = <<g, l>>
    BY DEF Places
  <2>3. f[v] = (IF e = d THEN <<d, k + 1>> ELSE <<e, k>>)
    BY <2>1
  <2>4. f[w] = (IF g = d THEN <<d, l + 1>> ELSE <<g, l>>)
    BY <2>2
  <2>5. (IF e = d THEN <<d, k + 1>> ELSE <<e, k>>) = (IF g = d THEN <<d, l + 1>> ELSE <<g, l>>)
    BY <1>3, <2>3, <2>4
  <2>6. e = g /\ k = l
    <3>1. CASE e = d /\ g = d
      <4>1. <<d, k + 1>> = <<d, l + 1>>
        BY <2>5, <3>1
      <4>. QED BY <3>1, <4>1
    <3>2. CASE e # d /\ g # d
      BY <2>5, <3>2
    <3>3. CASE e = d /\ g # d
      <4>1. <<d, k + 1>> = <<g, l>>
        BY <2>5, <3>3
      <4>. QED BY <3>3, <4>1
    <3>4. CASE e # d /\ g = d
      <4>1. <<e, k>> = <<d, l + 1>>
        BY <2>5, <3>4
      <4>. QED BY <3>4, <4>1
    <3>. QED BY <3>1, <3>2, <3>3, <3>4
  <2>. QED BY <2>1, <2>2, <2>6
<1>4. f \in Injection(B, A \ {z})
  <2>1. f \in [B -> A \ {z}]
    <3>1. f = [w \in B |-> f[w]]
      OBVIOUS
    <3>. HIDE DEF f, A, B, z
    <3>. QED BY <1>2, <3>1
  <2>. HIDE DEF f, A, B, z
  <2>. QED BY <1>3, <2>1 DEF Injection, IsInjective
<1>5. IsFiniteSet(A) /\ Cardinality(A) \in Nat /\ Cardinality(A) <= n
  BY FS_CardinalityType DEF Few
<1>6. /\ IsFiniteSet(A \ {z})
      /\ Cardinality(A \ {z}) = IF z \in A THEN Cardinality(A) - 1 ELSE Cardinality(A)
  <2>. HIDE DEF A, z
  <2>. QED BY <1>5, FS_RemoveElement
<1>7. Head(Q[d]).t = t => z \in A
  BY <1>1 DEF Places
<1>8. IsFiniteSet(B) /\ Cardinality(B) <= Cardinality(A \ {z})
  <2>. HIDE DEF f, A, B, z
  <2>. QED BY <1>4, <1>6, FS_Injection
<1>9. Cardinality(B) \in Nat /\ Cardinality(A \ {z}) \in Nat
  BY <1>6, <1>8, FS_CardinalityType
<1>10. Cardinality(B) <= IF Head(Q[d]).t = t THEN n - 1 ELSE n
  <2>. HIDE DEF f, A, B, z
  <2>. QED BY <1>5, <1>6, <1>7, <1>8, <1>9
<1>. QED BY <1>8, <1>10 DEF Few

LEMMA FewCut ==
    ASSUME NEW Q, NEW Q2, NEW d \in Dus, NEW t, NEW n \in Int,
           Q2[d] = <<>>, \A e \in Dus \ {d} : Q2[e] = Q[e], Few(Q, t, n)
    PROVE  Few(Q2, t, n)
<1>1. Places(Q2, t) \in SUBSET Places(Q, t)
  <2>1. ASSUME NEW w \in Places(Q2, t) PROVE w \in Places(Q, t)
    <3>1. PICK e \in Dus, k \in Nat : w = <<e, k>> /\ k \in 1..Len(Q2[e]) /\ Q2[e][k].t = t
      BY DEF Places
    <3>2. e # d
      <4>1. 1..Len(<<>>) = {}
        OBVIOUS
      <4>. QED BY <3>1, <4>1
    <3>. QED BY <3>1, <3>2 DEF Places
  <2>. QED BY <2>1
<1>2. IsFiniteSet(Places(Q2, t)) /\ Cardinality(Places(Q2, t)) <= Cardinality(Places(Q, t))
  BY <1>1, FS_Subset DEF Few
<1>3. Cardinality(Places(Q2, t)) \in Nat /\ Cardinality(Places(Q, t)) \in Nat
  BY <1>2, FS_CardinalityType DEF Few
<1>. QED BY <1>2, <1>3 DEF Few

-----------------------------------------------------------------------------
(* What holds however things cross: types, and that IDs and contexts do not *)
(* run out.                                                                 *)

On(r) == r.ho # NoHo
MadeIn(M, d, i) == i \in Ids /\ M[i].du = d
Used(M, i) == i \in Ids /\ M[i].du # NoDu
Mentioned(M, i) == i = 0 \/ Used(M, i)
UsedIds(M) == {i \in Ids : M[i].du # NoDu}
LiveIds(C) == {c \in CuIds : C[c].live}

HoSet == [src : AnyDu, src_id : AnyId, old_cg : AnyDu, tgt : AnyDu, tgt_id : AnyId]
Xids == {"dedicated", "required", "session", "reestab", "reestab_done"}
CtxSet == [live : BOOLEAN, du : AnyDu, id : AnyId, cg : AnyDu, ho : HoSet,
           f1 : BOOLEAN, an_release : BOOLEAN, sec : BOOLEAN, xids : SUBSET Xids]
MacSet == [du : AnyDu, cu : 0..MaxEvents + 1,
           st : {"none", "active", "failed", "releasing", "gone"}]
IsUe(u) == u = [du |-> u.du, id |-> u.id, here |-> u.here, next |-> u.next]

CtxBase(C, M) ==
    /\ C \in [CuIds -> CtxSet]
    /\ \A c \in CuIds : /\ On(C[c]) => C[c].live
                        /\ Mentioned(M, C[c].id) /\ Mentioned(M, C[c].ho.tgt_id)
MacBase(M) == M \in [Ids -> MacSet] /\ \A i \in Ids : M[i].du = NoDu => M[i] = NoMac
UeBase(u, M) == IsUe(u) /\ Mentioned(M, u.id) /\ Mentioned(M, u.next.id)

CuMsgOK(m, d, M) ==
    /\ m.t \in {"setup_resp", "modif_resp", "complete", "reest_req", "reest_compl",
                "bearers_resp", "more_bearers_resp", "required",
                "rel_req", "rel_compl", "lost"}
    /\ m.t = "required" => m.cu \in CuIds
    /\ m.t = "setup_resp" => MadeIn(M, d, m.id) /\ M[m.id].cu = m.cu /\ m.cu \in CuIds
    /\ m.t = "reest_req" => MadeIn(M, d, m.id) /\ Used(M, m.rnti)
    /\ m.t = "complete" => m.what # "reestab"
DuMsgOK(m, M) ==
    /\ m.t \in {"setup", "modif", "release", "dl", "bearers", "more_bearers", "refuse"}
    /\ m.cu \in CuIds
    /\ m.t = "dl" => Mentioned(M, m.id)
    /\ m.t = "modif" => Used(M, m.to_id)
CuQ(P, M) ==
    /\ P = [d \in Dus |-> P[d]]
    /\ \A d \in Dus : IsSeq(P[d]) /\ \A m \in Elems(P[d]) : CuMsgOK(m, d, M)
DuQ(Q, U, M) ==
    /\ Q = [d \in Dus |-> Q[d]]
    /\ \A d \in Dus : /\ IsSeq(Q[d]) /\ \A m \in Elems(Q[d]) : DuMsgOK(m, M)
                      /\ d \notin U => Q[d] = <<>>

(* A setup under way will take a DU UE ID, a reestablishment request a CU   *)
(* UE ID; there is one of each for every event, and the first.              *)
RoomAtDus(Q, M, n) == Few(Q, "setup", n + 1 - Cardinality(UsedIds(M)))
RoomAtCu(P, C, n) == Few(P, "reest_req", n + 1 - Cardinality(LiveIds(C)))

Base ==
    /\ CtxBase(ctx, mac) /\ MacBase(mac) /\ UeBase(ue, mac)
    /\ CuQ(to_cu, mac) /\ DuQ(to_du, up, mac)
    /\ amf \subseteq CuIds /\ events \in 0..MaxEvents
    /\ RoomAtDus(to_du, mac, events) /\ RoomAtCu(to_cu, ctx, events)

(* A context of a DU keeps its DU, and its UE once it has one.              *)
MacKeeps(M, M2) ==
    \A i \in Ids : M[i].du # NoDu =>
        M2[i].du = M[i].du /\ (M[i].cu # 0 => M2[i].cu = M[i].cu)

LEMMA MacStable ==
    ASSUME NEW M, NEW M2, MacKeeps(M, M2)
    PROVE  /\ \A i : Used(M, i) => Used(M2, i)
           /\ \A i : Mentioned(M, i) => Mentioned(M2, i)
           /\ \A d \in Dus : \A i : MadeIn(M, d, i) => MadeIn(M2, d, i)
           /\ \A d \in Dus : \A m : CuMsgOK(m, d, M) => CuMsgOK(m, d, M2)
           /\ \A m : DuMsgOK(m, M) => DuMsgOK(m, M2)
<1>0. NoDu \notin Dus /\ \A c \in CuIds : c # 0
  BY DusAssumption, BoundAssumption DEF CuIds, Ids
<1>1. \A i : Used(M, i) => Used(M2, i)
  BY DEF MacKeeps, Used
<1>2. \A i : Mentioned(M, i) => Mentioned(M2, i)
  BY <1>1 DEF Mentioned
<1>3. \A d \in Dus : \A i : MadeIn(M, d, i) => MadeIn(M2, d, i)
  BY <1>0 DEF MacKeeps, MadeIn
<1>4. \A d \in Dus : \A i : MadeIn(M, d, i) => (M[i].cu # 0 => M2[i].cu = M[i].cu)
  BY <1>0 DEF MacKeeps, MadeIn
<1>5. ASSUME NEW d \in Dus, NEW m, CuMsgOK(m, d, M) PROVE CuMsgOK(m, d, M2)
  BY <1>0, <1>1, <1>3, <1>4, <1>5 DEF CuMsgOK
<1>6. \A m : DuMsgOK(m, M) => DuMsgOK(m, M2)
  BY <1>1, <1>2 DEF DuMsgOK
<1>. QED BY <1>1, <1>2, <1>3, <1>5, <1>6

LEMMA BaseStable ==
    ASSUME NEW M, NEW M2, MacKeeps(M, M2), NEW C, NEW u, NEW P, NEW Q, NEW U
    PROVE  /\ CtxBase(C, M) => CtxBase(C, M2)
           /\ UeBase(u, M) => UeBase(u, M2)
           /\ CuQ(P, M) => CuQ(P, M2)
           /\ DuQ(Q, U, M) => DuQ(Q, U, M2)
<1>1. CtxBase(C, M) => CtxBase(C, M2)
  BY MacStable DEF CtxBase
<1>2. UeBase(u, M) => UeBase(u, M2)
  BY MacStable DEF UeBase
<1>3. CuQ(P, M) => CuQ(P, M2)
  BY MacStable DEF CuQ
<1>4. DuQ(Q, U, M) => DuQ(Q, U, M2)
  BY MacStable DEF DuQ
<1>. QED BY <1>1, <1>2, <1>3, <1>4

(* What the CU sends.                                                       *)
LEMMA QueuedOK ==
    ASSUME NEW Q, NEW M, DuQ(Q, up, M), NEW d, NEW m, DuMsgOK(m, M), up \subseteq Dus
    PROVE  /\ DuQ(Queued(Q, d, m), up, M)
           /\ d \in up => Queued(Q, d, m)[d] = Append(Q[d], m)
           /\ d \notin up => Queued(Q, d, m) = Q
           /\ \A e \in Dus \ {d} : Queued(Q, d, m)[e] = Q[e]
           /\ \A n \in Int : Few(Q, "setup", n) =>
                 Few(Queued(Q, d, m), "setup", IF m.t = "setup" THEN n + 1 ELSE n)
<1>1. CASE d \notin up
  <2>1. Queued(Q, d, m) = Q
    BY <1>1 DEF Queued
  <2>2. ASSUME NEW n \in Int, Few(Q, "setup", n) PROVE Few(Q, "setup", n + 1)
    BY <2>2, FewLess
  <2>. QED BY <1>1, <2>1, <2>2
<1>2. CASE d \in up
  <2>. DEFINE Q2 == [Q EXCEPT ![d] = Append(@, m)]
  <2>1. Queued(Q, d, m) = Q2
    BY <1>2 DEF Queued
  <2>2. /\ d \in Dus /\ Q2 = [e \in Dus |-> Q2[e]] /\ Q2[d] = Append(Q[d], m)
        /\ \A e \in Dus \ {d} : Q2[e] = Q[e]
    BY <1>2 DEF DuQ
  <2>3. IsSeq(Append(Q[d], m)) /\ Elems(Append(Q[d], m)) = Elems(Q[d]) \cup {m}
    BY <2>2, SeqAppend DEF DuQ
  <2>. HIDE DEF Q2
  <2>4. DuQ(Q2, up, M)
    BY <1>2, <2>2, <2>3 DEF DuQ
  <2>5. ASSUME NEW n \in Int, Few(Q, "setup", n)
        PROVE  Few(Q2, "setup", IF m.t = "setup" THEN n + 1 ELSE n)
    BY <2>2, <2>5, FewAppend DEF DuQ
  <2>. QED BY <1>2, <2>1, <2>2, <2>4, <2>5
<1>. QED BY <1>1, <1>2

(* What the CU takes.                                                       *)
LEMMA CuTakesOK ==
    ASSUME NEW M, CuQ(to_cu, M), NEW d \in Dus, to_cu[d] # <<>>, CuTakes(d)
    PROVE  /\ CuQ(to_cu', M)
           /\ to_cu'[d] = Tail(to_cu[d]) /\ \A e \in Dus \ {d} : to_cu'[e] = to_cu[e]
           /\ CuMsgOK(Head(to_cu[d]), d, M)
           /\ \A n \in Int : Few(to_cu, "reest_req", n) =>
                 Few(to_cu', "reest_req", IF Head(to_cu[d]).t = "reest_req" THEN n - 1 ELSE n)
<1>1. /\ to_cu' = [e \in Dus |-> to_cu'[e]] /\ to_cu'[d] = Tail(to_cu[d])
      /\ \A e \in Dus \ {d} : to_cu'[e] = to_cu[e]
  BY DEF CuTakes, CuQ
<1>2. /\ IsSeq(Tail(to_cu[d])) /\ Elems(Tail(to_cu[d])) \subseteq Elems(to_cu[d])
      /\ Head(to_cu[d]) \in Elems(to_cu[d])
  BY SeqTail DEF CuQ
<1>3. CuMsgOK(Head(to_cu[d]), d, M)
  BY <1>2 DEF CuQ
<1>4. CuQ(to_cu', M)
  BY <1>1, <1>2 DEF CuQ
<1>5. ASSUME NEW n \in Int, Few(to_cu, "reest_req", n)
      PROVE  Few(to_cu', "reest_req", IF Head(to_cu[d]).t = "reest_req" THEN n - 1 ELSE n)
  BY <1>1, <1>5, FewTail DEF CuQ
<1>. QED BY <1>1, <1>3, <1>4, <1>5

(* What a DU takes.                                                         *)
LEMMA DuTakesOK ==
    ASSUME NEW M, DuQ(to_du, up, M), NEW d \in Dus, to_du[d] # <<>>, DuTakes(d)
    PROVE  /\ DuQ(to_du', up, M)
           /\ to_du'[d] = Tail(to_du[d]) /\ \A e \in Dus \ {d} : to_du'[e] = to_du[e]
           /\ DuMsgOK(Head(to_du[d]), M)
           /\ \A n \in Int : Few(to_du, "setup", n) =>
                 Few(to_du', "setup", IF Head(to_du[d]).t = "setup" THEN n - 1 ELSE n)
<1>1. /\ to_du' = [e \in Dus |-> to_du'[e]] /\ to_du'[d] = Tail(to_du[d])
      /\ \A e \in Dus \ {d} : to_du'[e] = to_du[e]
  BY DEF DuTakes, DuQ
<1>2. /\ IsSeq(Tail(to_du[d])) /\ Elems(Tail(to_du[d])) \subseteq Elems(to_du[d])
      /\ Head(to_du[d]) \in Elems(to_du[d])
  BY SeqTail DEF DuQ
<1>3. DuMsgOK(Head(to_du[d]), M)
  BY <1>2 DEF DuQ
<1>4. DuQ(to_du', up, M)
  BY <1>1, <1>2 DEF DuQ
<1>5. ASSUME NEW n \in Int, Few(to_du, "setup", n)
      PROVE  Few(to_du', "setup", IF Head(to_du[d]).t = "setup" THEN n - 1 ELSE n)
  BY <1>1, <1>5, FewTail DEF DuQ
<1>. QED BY <1>1, <1>3, <1>4, <1>5

(* What a DU sends.                                                         *)
LEMMA SentOK ==
    ASSUME NEW M, CuQ(to_cu, M), NEW d \in Dus, NEW m, CuMsgOK(m, d, M), Sent(d, m)
    PROVE  /\ CuQ(to_cu', M)
           /\ to_cu'[d] = Append(to_cu[d], m) /\ \A e \in Dus \ {d} : to_cu'[e] = to_cu[e]
           /\ \A n \in Int : Few(to_cu, "reest_req", n) =>
                 Few(to_cu', "reest_req", IF m.t = "reest_req" THEN n + 1 ELSE n)
<1>1. /\ to_cu' = [e \in Dus |-> to_cu'[e]] /\ to_cu'[d] = Append(to_cu[d], m)
      /\ \A e \in Dus \ {d} : to_cu'[e] = to_cu[e]
  BY DEF Sent, CuQ
<1>2. IsSeq(Append(to_cu[d], m)) /\ Elems(Append(to_cu[d], m)) = Elems(to_cu[d]) \cup {m}
  BY SeqAppend DEF CuQ
<1>3. CuQ(to_cu', M)
  BY <1>1, <1>2 DEF CuQ
<1>4. ASSUME NEW n \in Int, Few(to_cu, "reest_req", n)
      PROVE  Few(to_cu', "reest_req", IF m.t = "reest_req" THEN n + 1 ELSE n)
  BY <1>1, <1>4, FewAppend DEF CuQ
<1>. QED BY <1>1, <1>3, <1>4

LEMMA IdsFinite ==
    /\ IsFiniteSet(Ids) /\ Cardinality(Ids) = MaxEvents + 1 /\ Ids \subseteq Nat
    /\ 0 \notin Ids /\ CuIds = Ids
    /\ \A S : S \subseteq Ids => IsFiniteSet(S) /\ Cardinality(S) \in Nat
<1>1. IsFiniteSet(Ids) /\ Cardinality(Ids) = MaxEvents + 1
  <2>1. MaxEvents + 1 \in Int /\ 1 \in Int /\ ~(1 > MaxEvents + 1) /\ (MaxEvents + 1) - 1 + 1 = MaxEvents + 1
    BY BoundAssumption
  <2>. QED BY <2>1, FS_Interval DEF Ids
<1>2. Ids \subseteq Nat /\ 0 \notin Ids /\ CuIds = Ids
  BY BoundAssumption DEF Ids, CuIds
<1>3. \A S : S \subseteq Ids => IsFiniteSet(S) /\ Cardinality(S) \in Nat
  BY <1>1, FS_Subset, FS_CardinalityType
<1>. QED BY <1>1, <1>2, <1>3

(* While a setup or a reestablishment is due, there is an ID for it.        *)
LEMMA FreeId ==
    ASSUME NEW T, T \subseteq Ids, Cardinality(T) <= MaxEvents
    PROVE  \E i \in Ids \ T : \A j \in Ids \ T : i <= j
<1>1. Ids \ T # {}
  <2>. SUFFICES ASSUME T = Ids PROVE FALSE
    OBVIOUS
  <2>1. MaxEvents + 1 <= MaxEvents
    BY IdsFinite
  <2>. QED BY <2>1, BoundAssumption
<1>2. Ids \ T \subseteq Nat
  BY IdsFinite
<1>3. \E i \in Ids \ T : \A j \in Ids \ T : ~(<<j, i>> \in OpToRel(<, Nat))
  BY <1>1, <1>2, NatLessThanWellFounded, WFMin, Zenon
<1>4. \A i, j \in Nat : j < i => <<j, i>> \in OpToRel(<, Nat)
  BY Zenon DEF OpToRel
<1>5. \E i \in Ids \ T : \A j \in Ids \ T : ~(j < i)
  BY <1>2, <1>3, <1>4, Zenon
<1>. QED BY <1>2, <1>5

LEMMA NewIdOK ==
    ASSUME MacBase(mac), Cardinality(UsedIds(mac)) <= MaxEvents
    PROVE  NewId \in Ids /\ mac[NewId] = NoMac /\ NewId # 0 /\ ~Used(mac, NewId)
<1>1. PICK i \in Ids \ UsedIds(mac) : \A j \in Ids \ UsedIds(mac) : i <= j
  BY FreeId DEF UsedIds
<1>2. \A j \in Ids : mac[j] = NoMac <=> j \notin UsedIds(mac)
  BY DEF MacBase, UsedIds, NoMac
<1>3. \E k \in Ids : mac[k] = NoMac /\ \A j \in Ids : mac[j] = NoMac => k <= j
  BY <1>1, <1>2
<1>4. NewId \in Ids /\ mac[NewId] = NoMac
  BY <1>3 DEF NewId
<1>. QED BY <1>4, IdsFinite DEF Used, NoMac

LEMMA NewCuIdOK ==
    ASSUME Cardinality(LiveIds(ctx)) <= MaxEvents
    PROVE  NewCuId \in CuIds /\ ~ctx[NewCuId].live
<1>0. LiveIds(ctx) \subseteq Ids /\ Free = Ids \ LiveIds(ctx)
  BY IdsFinite DEF LiveIds, Free
<1>1. \E i \in Free : \A j \in Free : i <= j
  BY <1>0, FreeId
<1>2. NewCuId \in Free
  BY <1>1 DEF NewCuId
<1>. QED BY <1>2 DEF Free

(* An ID is taken.                                                          *)
LEMMA OneMore ==
    ASSUME NEW S, NEW T, NEW i, S \subseteq Ids, T \subseteq Ids, T \subseteq S \cup {i}
    PROVE  Cardinality(T) <= Cardinality(S) + 1 /\ Cardinality(T) \in Nat /\ Cardinality(S) \in Nat
<1>1. IsFiniteSet(S) /\ Cardinality(S) \in Nat /\ Cardinality(T) \in Nat
  BY IdsFinite
<1>2. /\ IsFiniteSet(S \cup {i})
      /\ Cardinality(S \cup {i}) = IF i \in S THEN Cardinality(S) ELSE Cardinality(S) + 1
  BY <1>1, FS_AddElement
<1>3. Cardinality(T) <= Cardinality(S \cup {i})
  BY <1>2, FS_Subset
<1>. QED BY <1>1, <1>2, <1>3

LEMMA NoMore ==
    ASSUME NEW S, NEW T, S \subseteq Ids, T \subseteq S
    PROVE  Cardinality(T) <= Cardinality(S) /\ Cardinality(T) \in Nat /\ Cardinality(S) \in Nat
BY IdsFinite, FS_Subset

-----------------------------------------------------------------------------
(* Every step keeps Base.                                                   *)

LEMMA NoHoOK == NoHo \in HoSet /\ NoHo.tgt_id = 0 /\ NoCtx \in CtxSet
                /\ ~On(NoCtx) /\ NoCtx.id = 0 /\ NoCtx.ho = NoHo /\ ~NoCtx.live
BY DEF NoHo, HoSet, NoCtx, CtxSet, AnyDu, AnyId, On, Xids

LEMMA RoomQueued ==
    ASSUME NEW Q, NEW M, DuQ(Q, up, M), NEW d, NEW m, DuMsgOK(m, M), up \subseteq Dus,
           NEW n \in Int, RoomAtDus(Q, M, n), m.t # "setup"
    PROVE  DuQ(Queued(Q, d, m), up, M) /\ RoomAtDus(Queued(Q, d, m), M, n)
<1>1. n + 1 - Cardinality(UsedIds(M)) \in Int
  BY IdsFinite DEF UsedIds
<1>. QED BY <1>1, QueuedOK DEF RoomAtDus

LEMMA ReleaseOK ==
    ASSUME NEW c \in CuIds, NEW i, NEW a, NEW M
    PROVE  DuMsgOK(Release(c, i, a), M) /\ Release(c, i, a).t = "release"
BY DEF DuMsgOK, Release

LEMMA TransferOK ==
    ASSUME NEW Q, NEW M, DuQ(Q, up, M), NEW c \in CuIds, NEW old, NEW what, up \subseteq Dus,
           NEW n \in Int, RoomAtDus(Q, M, n), CtxBase(ctx', M)
    PROVE  DuQ(Transfer(Q, c, old, what), up, M) /\ RoomAtDus(Transfer(Q, c, old, what), M, n)
<1>. DEFINE m == DlRrc(c, ctx'[c].id, old, what, ctx'[c].cg)
<1>1. DuMsgOK(m, M) /\ m.t # "setup"
  BY DEF DuMsgOK, DlRrc, CtxBase
<1>. HIDE DEF m
<1>2. CASE ctx'[c].du = NoDu
  BY <1>2 DEF Transfer
<1>3. CASE ctx'[c].du # NoDu
  <2>1. Transfer(Q, c, old, what) = Queued(Q, ctx'[c].du, m)
    BY <1>3 DEF Transfer, m
  <2>. QED BY <1>1, <2>1, RoomQueued
<1>. QED BY <1>2, <1>3

(* The CU handles a message.                                                *)
LEMMA CuTookBase ==
    ASSUME Base, NEW d \in Dus, to_cu[d] # <<>>, CuTakes(d),
           up' = up, mac' = mac, ue' = ue, events' = events,
           CtxBase(ctx', mac), amf' \subseteq CuIds,
           DuQ(to_du', up, mac), RoomAtDus(to_du', mac, events),
           NEW k, LiveIds(ctx') \subseteq LiveIds(ctx) \cup {k},
           Head(to_cu[d]).t # "reest_req" => LiveIds(ctx') \subseteq LiveIds(ctx)
    PROVE  Base'
<1>. DEFINE n == events + 1 - Cardinality(LiveIds(ctx))
            l == events + 1 - Cardinality(LiveIds(ctx'))
            h == Head(to_cu[d]).t = "reest_req"
<1>1. LiveIds(ctx) \subseteq Ids /\ LiveIds(ctx') \subseteq Ids /\ events \in Nat
  BY IdsFinite DEF LiveIds, Base
<1>2. n \in Int /\ l \in Int /\ n - 1 <= l /\ (~h => n <= l)
  <2>1. /\ Cardinality(LiveIds(ctx)) \in Nat /\ Cardinality(LiveIds(ctx')) \in Nat
        /\ Cardinality(LiveIds(ctx')) <= Cardinality(LiveIds(ctx)) + 1
    BY <1>1, OneMore
  <2>2. ~h => Cardinality(LiveIds(ctx')) <= Cardinality(LiveIds(ctx))
    BY <1>1, NoMore
  <2>. QED BY <1>1, <2>1, <2>2
<1>3. CuQ(to_cu', mac) /\ Few(to_cu', "reest_req", IF h THEN n - 1 ELSE n)
  <2>1. Few(to_cu, "reest_req", n) /\ CuQ(to_cu, mac)
    BY DEF Base, RoomAtCu
  <2>. QED BY <1>2, <2>1, CuTakesOK
<1>4. Few(to_cu', "reest_req", l)
  <2>. HIDE DEF n, l, h
  <2>1. CASE h
    BY <1>2, <1>3, <2>1, FewLess
  <2>2. CASE ~h
    BY <1>2, <1>3, <2>2, FewLess
  <2>. QED BY <2>1, <2>2
<1>. QED BY <1>3, <1>4 DEF Base, RoomAtDus, RoomAtCu

(* The CU acts by itself.                                                   *)
LEMMA CuActsBase ==
    ASSUME Base, up' = up, mac' = mac, ue' = ue, to_cu' = to_cu,
           events' = events \/ Event,
           CtxBase(ctx', mac), amf' \subseteq CuIds,
           DuQ(to_du', up, mac), RoomAtDus(to_du', mac, events'),
           LiveIds(ctx') \subseteq LiveIds(ctx)
    PROVE  Base'
<1>. DEFINE n == events + 1 - Cardinality(LiveIds(ctx))
            l == events' + 1 - Cardinality(LiveIds(ctx'))
<1>1. LiveIds(ctx) \subseteq Ids /\ LiveIds(ctx') \subseteq Ids /\ events \in Nat
  BY IdsFinite DEF LiveIds, Base
<1>2. events' \in 0..MaxEvents /\ events <= events'
  BY BoundAssumption DEF Base, Event
<1>3. n \in Int /\ l \in Int /\ n <= l
  BY <1>1, <1>2, NoMore
<1>4. Few(to_cu', "reest_req", l)
  <2>1. Few(to_cu, "reest_req", n)
    BY DEF Base, RoomAtCu
  <2>. QED BY <1>3, <2>1, FewLess
<1>. QED BY <1>2, <1>4 DEF Base, RoomAtDus, RoomAtCu

Only(c) == ctx' = [k \in CuIds |-> ctx'[k]] /\ \A k \in CuIds \ {c} : ctx'[k] = ctx[k]

LEMMA BaseParts ==
    ASSUME Base, IInv
    PROVE  /\ up \subseteq Dus /\ dus \subseteq Dus /\ NoDu \notin Dus
           /\ events \in Nat /\ events \in Int /\ events <= MaxEvents
           /\ ctx = [k \in CuIds |-> ctx[k]] /\ \A c \in CuIds : ctx[c] \in CtxSet
           /\ \A i \in Ids : mac[i].st \notin {"none", "gone"} => mac[i].du \in up
           /\ DuQ(to_du, up, mac) /\ RoomAtDus(to_du, mac, events)
           /\ CuQ(to_cu, mac) /\ CtxBase(ctx, mac)
BY DusAssumption, BoundAssumption DEF Base, CtxBase, IInv, NetInv, MacInv, MacSound

(* A context is changed by the CU in one field or another.                  *)
LEMMA RecordOK ==
    ASSUME NEW r \in CtxSet
    PROVE  /\ r.live \in BOOLEAN /\ r.du \in AnyDu /\ r.id \in AnyId /\ r.cg \in AnyDu
           /\ r.ho \in HoSet /\ r.f1 \in BOOLEAN /\ r.xids \subseteq Xids
           /\ r.ho.src \in AnyDu /\ r.ho.tgt \in AnyDu /\ r.ho.old_cg \in AnyDu
           /\ r.ho.tgt_id \in AnyId /\ r.ho.src_id \in AnyId
BY DEF CtxSet, HoSet

LEMMA CtxStep ==
    ASSUME Base, NEW c \in CuIds, Only(c), ctx'[c] \in CtxSet, On(ctx'[c]) => ctx'[c].live,
           Mentioned(mac, ctx'[c].id), Mentioned(mac, ctx'[c].ho.tgt_id)
    PROVE  CtxBase(ctx', mac) /\ LiveIds(ctx') \subseteq LiveIds(ctx) \cup {c}
           /\ ((ctx'[c].live => ctx[c].live) => LiveIds(ctx') \subseteq LiveIds(ctx))
<1>1. CtxBase(ctx, mac) /\ ctx' = [k \in CuIds |-> ctx'[k]]
      /\ \A k \in CuIds \ {c} : ctx'[k] = ctx[k]
  BY DEF Base, Only
<1>2. \A k \in CuIds : ctx'[k] \in CtxSet
  BY <1>1 DEF CtxBase
<1>3. ctx' \in [CuIds -> CtxSet]
  BY <1>1, <1>2
<1>4. CtxBase(ctx', mac)
  BY <1>1, <1>3 DEF CtxBase
<1>. QED BY <1>1, <1>4 DEF LiveIds

LEMMA TriggerBase ==
    ASSUME Base, IInv, NEW c \in CuIds, NEW t \in Dus, TriggerF1Ho(c, t)
    PROVE  Base'
<1>. DEFINE h == [src |-> ctx[c].du, src_id |-> ctx[c].id, old_cg |-> ctx[c].cg,
                  tgt |-> t, tgt_id |-> 0]
            m == [t |-> "setup", cu |-> c]
            n == events + 1 - Cardinality(UsedIds(mac))
<1>1. ctx[c] \in CtxSet /\ ctx[c].live
  BY BaseParts DEF TriggerF1Ho, Live
<1>2. h \in HoSet /\ h.tgt_id = 0
  BY <1>1, RecordOK DEF HoSet, AnyDu, AnyId
<1>3. Only(c) /\ ctx'[c] = [ctx[c] EXCEPT !.ho = h]
  BY BaseParts DEF TriggerF1Ho, Only
<1>4. ctx'[c] \in CtxSet /\ ctx'[c].live /\ ctx'[c].id = ctx[c].id /\ ctx'[c].ho = h
  <2>. HIDE DEF h
  <2>. QED BY <1>1, <1>2, <1>3 DEF CtxSet
<1>5. CtxBase(ctx', mac) /\ LiveIds(ctx') \subseteq LiveIds(ctx)
  <2>1. Mentioned(mac, ctx'[c].id) /\ Mentioned(mac, ctx'[c].ho.tgt_id)
    BY <1>2, <1>4 DEF Base, CtxBase, Mentioned
  <2>. QED BY <1>1, <1>3, <1>4, <2>1, CtxStep
<1>6. DuMsgOK(m, mac) /\ m.t = "setup"
  BY DEF DuMsgOK
<1>7. /\ DuQ(to_du', up, mac) /\ Few(to_du', "setup", n + 1) /\ n \in Int
  <2>1. to_du' = Queued(to_du, t, m)
    BY DEF TriggerF1Ho
  <2>2. n \in Int
    BY BaseParts, IdsFinite DEF UsedIds
  <2>. HIDE DEF m, n
  <2>3. Few(to_du, "setup", n)
    BY DEF Base, RoomAtDus, n
  <2>. QED BY <1>6, <2>1, <2>2, <2>3, QueuedOK, BaseParts
<1>8. events' = events + 1 /\ Event
  BY DEF TriggerF1Ho, Event
<1>9. RoomAtDus(to_du', mac, events')
  <2>1. events' + 1 - Cardinality(UsedIds(mac)) = n + 1
    BY <1>8, BaseParts, IdsFinite DEF UsedIds
  <2>. HIDE DEF n
  <2>. QED BY <1>7, <2>1 DEF RoomAtDus
<1>10. up' = up /\ mac' = mac /\ ue' = ue /\ to_cu' = to_cu /\ amf' \subseteq CuIds
  BY DEF TriggerF1Ho, duVars, Base
<1>. QED BY <1>5, <1>7, <1>8, <1>9, <1>10, CuActsBase

(* A reconfiguration is made of context r.                                  *)
LEMMA GenerateBase ==
    ASSUME Base, IInv, NEW c \in CuIds, ctx[c].live, NEW r \in CtxSet,
           r.live = ctx[c].live, r.id = ctx[c].id, r.ho = ctx[c].ho,
           GenerateReconfiguration(c, r)
    PROVE  /\ CtxBase(ctx', mac) /\ LiveIds(ctx') \subseteq LiveIds(ctx)
           /\ DuQ(to_du', up, mac) /\ RoomAtDus(to_du', mac, events)
<1>1. CASE r.du = NoDu
  <2>1. ctx' = ctx /\ to_du' = to_du
    BY <1>1 DEF GenerateReconfiguration
  <2>. QED BY <2>1, BaseParts
<1>2. CASE r.du # NoDu
  <2>1. /\ ctx' = [ctx EXCEPT ![c] = [r EXCEPT !.xids = @ \cup {"session"}]]
        /\ to_du' = Transfer(to_du, c, 0, "session")
    BY <1>2 DEF GenerateReconfiguration
  <2>2. Only(c) /\ ctx'[c] = [r EXCEPT !.xids = @ \cup {"session"}]
    BY <2>1, BaseParts DEF Only
  <2>3. /\ ctx'[c] \in CtxSet /\ ctx'[c].live = r.live /\ ctx'[c].id = r.id /\ ctx'[c].ho = r.ho
    BY <2>2 DEF CtxSet, Xids
  <2>4. CtxBase(ctx', mac) /\ LiveIds(ctx') \subseteq LiveIds(ctx)
    <3>1. Mentioned(mac, ctx'[c].id) /\ Mentioned(mac, ctx'[c].ho.tgt_id)
      BY <2>3 DEF Base, CtxBase
    <3>. QED BY <2>2, <2>3, <3>1, CtxStep
  <2>. QED BY <2>1, <2>4, TransferOK, BaseParts
<1>. QED BY <1>1, <1>2

LEMMA SetupResponseBase ==
    ASSUME Base, IInv, NEW d \in Dus, SetupResponse(d)
    PROVE  Base'
<1>. DEFINE m == Head(to_cu[d])
            c == m.cu
            i == m.id
<1>1. to_cu[d] # <<>> /\ CuTakes(d) /\ m.t = "setup_resp"
      /\ up' = up /\ mac' = mac /\ ue' = ue /\ events' = events
  BY DEF SetupResponse, Took, duVars
<1>2. MadeIn(mac, d, i) /\ Used(mac, i) /\ c \in CuIds /\ i \in AnyId
  <2>1. CuMsgOK(m, d, mac)
    BY <1>1, BaseParts, CuTakesOK
  <2>. QED BY <1>1, <2>1, BaseParts DEF CuMsgOK, MadeIn, Used, AnyId
<1>3. d \in AnyDu
  BY DEF AnyDu
<1>4. CASE ~Live(c)
  <2>1. ctx' = ctx /\ amf' = amf /\ to_du' = to_du
    BY <1>4 DEF SetupResponse, cuVars
  <2>. QED BY <1>1, <2>1, CuTookBase DEF Base
<1>5. CASE Live(c) /\ ~HandingOver(c)
  <2>. DEFINE r == [ctx[c] EXCEPT !.cg = d, !.f1 = TRUE]
  <2>1. GenerateReconfiguration(c, r) /\ amf' = amf /\ ctx[c].live
    BY <1>5 DEF SetupResponse, Live
  <2>2. r \in CtxSet /\ r.live = ctx[c].live /\ r.id = ctx[c].id /\ r.ho = ctx[c].ho
    <3>1. ctx[c] \in CtxSet
      BY <1>2, BaseParts
    <3>. HIDE DEF c
    <3>. QED BY <1>3, <3>1 DEF CtxSet
  <2>. HIDE DEF r
  <2>3. /\ CtxBase(ctx', mac) /\ LiveIds(ctx') \subseteq LiveIds(ctx)
        /\ DuQ(to_du', up, mac) /\ RoomAtDus(to_du', mac, events)
    BY <1>2, <2>1, <2>2, GenerateBase
  <2>. QED BY <1>1, <2>1, <2>3, CuTookBase DEF Base
<1>6. CASE Live(c) /\ HandingOver(c)
  <2>. DEFINE n == [t |-> "modif", cu |-> c, id |-> ctx[c].id, to |-> d, to_id |-> i]
  <2>1. /\ ctx' = [ctx EXCEPT ![c].cg = d, ![c].f1 = TRUE, ![c].ho.tgt_id = i,
                               ![c].xids = @ \cup {"dedicated"}]
        /\ to_du' = IF ctx[c].du = NoDu THEN to_du ELSE Queued(to_du, ctx[c].du, n)
        /\ amf' = amf
    BY <1>6 DEF SetupResponse
  <2>2. Only(c) /\ ctx'[c] = [ctx[c] EXCEPT !.cg = d, !.f1 = TRUE, !.ho.tgt_id = i,
                                         !.xids = @ \cup {"dedicated"}]
    BY <1>2, <2>1, BaseParts DEF Only
  <2>3. /\ ctx'[c] \in CtxSet /\ ctx'[c].live = ctx[c].live
        /\ ctx'[c].id = ctx[c].id /\ ctx'[c].ho.tgt_id = i
    <3>1. ctx[c] \in CtxSet /\ i \in AnyId
      BY <1>2, BaseParts
    <3>. DEFINE g == [ctx[c].ho EXCEPT !.tgt_id = i]
    <3>. HIDE DEF c, i
    <3>2. g \in HoSet /\ g.tgt_id = i
      BY <3>1, RecordOK DEF HoSet
    <3>3. ctx'[c] = [ctx[c] EXCEPT !.cg = d, !.f1 = TRUE, !.ho = g, !.xids = @ \cup {"dedicated"}]
      BY <2>2, <3>1 DEF CtxSet
    <3>. HIDE DEF g
    <3>. QED BY <1>3, <3>1, <3>2, <3>3 DEF CtxSet, Xids
  <2>4. CtxBase(ctx', mac) /\ LiveIds(ctx') \subseteq LiveIds(ctx)
    <3>1. ctx[c].live /\ Mentioned(mac, ctx'[c].id) /\ Mentioned(mac, ctx'[c].ho.tgt_id)
      BY <1>2, <1>6, <2>3 DEF Live, Base, CtxBase, Mentioned
    <3>. QED BY <1>2, <2>2, <2>3, <3>1, CtxStep
  <2>5. DuMsgOK(n, mac) /\ n.t # "setup"
    BY <1>2 DEF DuMsgOK
  <2>6. DuQ(to_du', up, mac) /\ RoomAtDus(to_du', mac, events)
    <3>. HIDE DEF n
    <3>. QED BY <2>1, <2>5, RoomQueued, BaseParts
  <2>. QED BY <1>1, <2>1, <2>4, <2>6, CuTookBase DEF Base
<1>. QED BY <1>4, <1>5, <1>6

LEMMA BearersResponseBase ==
    ASSUME Base, IInv, NEW d \in Dus, BearersResponse(d) \/ MoreBearersResponse(d)
    PROVE  Base'
<1>. DEFINE c == Head(to_cu[d]).cu
<1>1. to_cu[d] # <<>> /\ CuTakes(d) /\ Head(to_cu[d]).t # "reest_req"
      /\ up' = up /\ mac' = mac /\ ue' = ue /\ events' = events /\ amf' = amf
  BY DEF BearersResponse, MoreBearersResponse, Took, duVars
<1>2. CASE ctx' = ctx /\ to_du' = to_du
  BY <1>1, <1>2, CuTookBase DEF Base
<1>3. ASSUME Live(c), NEW r, GenerateReconfiguration(c, r),
             r = [ctx[c] EXCEPT !.cg = d] \/ r = [ctx[c] EXCEPT !.cg = d, !.f1 = TRUE]
      PROVE  Base'
  <2>1. c \in CuIds /\ ctx[c].live
    BY <1>3 DEF Live
  <2>2. r \in CtxSet /\ r.live = ctx[c].live /\ r.id = ctx[c].id /\ r.ho = ctx[c].ho
    <3>1. ctx[c] \in CtxSet /\ d \in AnyDu
      BY <2>1, BaseParts DEF AnyDu
    <3>. HIDE DEF c
    <3>. QED BY <1>3, <3>1 DEF CtxSet
  <2>3. /\ CtxBase(ctx', mac) /\ LiveIds(ctx') \subseteq LiveIds(ctx)
        /\ DuQ(to_du', up, mac) /\ RoomAtDus(to_du', mac, events)
    BY <1>3, <2>1, <2>2, GenerateBase
  <2>. QED BY <1>1, <2>3, CuTookBase DEF Base
<1>4. CASE /\ Live(c) /\ HandingOver(c)
           /\ ctx' = [ctx EXCEPT ![c].cg = d, ![c].xids = @ \cup {"session"},
                                 ![c].du = ctx[c].ho.tgt, ![c].id = ctx[c].ho.tgt_id]
           /\ to_du' = Queued(to_du, ctx[c].du, DlRrc(c, ctx[c].id, 0, "session", d))
  <2>. DEFINE n == DlRrc(c, ctx[c].id, 0, "session", d)
  <2>1. c \in CuIds /\ ctx[c].live /\ ctx[c] \in CtxSet /\ d \in AnyDu
    BY <1>4, BaseParts DEF Live, AnyDu
  <2>2. Only(c) /\ ctx'[c] = [ctx[c] EXCEPT !.cg = d, !.xids = @ \cup {"session"},
                                !.du = ctx[c].ho.tgt, !.id = ctx[c].ho.tgt_id]
    BY <1>4, <2>1, BaseParts DEF Only
  <2>3. /\ ctx'[c] \in CtxSet /\ ctx'[c].live = ctx[c].live
        /\ ctx'[c].id = ctx[c].ho.tgt_id /\ ctx'[c].ho = ctx[c].ho
    <3>1. PICK x : x = ctx[c]
      OBVIOUS
    <3>2. PICK y : y = ctx'[c]
      OBVIOUS
    <3>3. /\ x \in CtxSet /\ x.ho.tgt \in AnyDu /\ x.ho.tgt_id \in AnyId
          /\ y = [x EXCEPT !.cg = d, !.xids = @ \cup {"session"}, !.du = x.ho.tgt, !.id = x.ho.tgt_id]
      BY <2>1, <2>2, <3>1, <3>2, RecordOK
    <3>4. y \in CtxSet /\ y.live = x.live /\ y.id = x.ho.tgt_id /\ y.ho = x.ho
      BY ONLY <2>1, <3>3 DEF CtxSet, Xids
    <3>. QED BY <3>1, <3>2, <3>4
  <2>4. CtxBase(ctx', mac) /\ LiveIds(ctx') \subseteq LiveIds(ctx)
    <3>1. Mentioned(mac, ctx'[c].id) /\ Mentioned(mac, ctx'[c].ho.tgt_id)
      BY <2>1, <2>3 DEF Base, CtxBase
    <3>. QED BY <2>1, <2>2, <2>3, <3>1, CtxStep
  <2>5. DuMsgOK(n, mac) /\ n.t # "setup"
    BY <2>1 DEF DuMsgOK, DlRrc, Base, CtxBase
  <2>6. DuQ(to_du', up, mac) /\ RoomAtDus(to_du', mac, events)
    <3>1. to_du' = Queued(to_du, ctx[c].du, n)
      BY <1>4
    <3>. HIDE DEF n
    <3>. QED BY <2>5, <3>1, RoomQueued, BaseParts
  <2>. QED BY <1>1, <2>4, <2>6, CuTookBase DEF Base
<1>5. CASE BearersResponse(d)
  BY <1>2, <1>3, <1>5 DEF BearersResponse
<1>6. CASE MoreBearersResponse(d)
  BY <1>2, <1>3, <1>4, <1>6 DEF MoreBearersResponse
<1>. QED BY <1>5, <1>6

LEMMA ModificationRequiredBase ==
    ASSUME Base, IInv, NEW d \in Dus, ModificationRequired(d)
    PROVE  Base'
<1>. DEFINE m == Head(to_cu[d])
            c == m.cu
            n == [t |-> "refuse", cu |-> c, id |-> m.id]
<1>1. to_cu[d] # <<>> /\ CuTakes(d) /\ m.t = "required"
      /\ up' = up /\ mac' = mac /\ ue' = ue /\ events' = events /\ amf' = amf
  BY DEF ModificationRequired, Took, duVars
<1>2. c \in CuIds /\ d \in AnyDu
  <2>1. CuMsgOK(m, d, mac)
    BY <1>1, BaseParts, CuTakesOK
  <2>. QED BY <1>1, <2>1 DEF CuMsgOK, AnyDu
<1>3. CASE ctx' = ctx /\ to_du' = to_du
  BY <1>1, <1>3, CuTookBase DEF Base
<1>4. CASE ctx' = ctx /\ to_du' = Queued(to_du, d, n)
  <2>1. DuMsgOK(n, mac) /\ n.t # "setup"
    BY <1>2 DEF DuMsgOK
  <2>2. DuQ(to_du', up, mac) /\ RoomAtDus(to_du', mac, events)
    <3>. HIDE DEF n
    <3>. QED BY <1>4, <2>1, RoomQueued, BaseParts
  <2>. QED BY <1>1, <1>4, <2>2, CuTookBase DEF Base
<1>5. CASE /\ Live(c) /\ ctx' = [ctx EXCEPT ![c].cg = d, ![c].xids = @ \cup {"required"}]
           /\ to_du' = Transfer(to_du, c, 0, "required")
  <2>1. Only(c) /\ ctx'[c] = [ctx[c] EXCEPT !.cg = d, !.xids = @ \cup {"required"}]
    BY <1>2, <1>5, BaseParts DEF Only
  <2>2. /\ ctx'[c] \in CtxSet /\ ctx'[c].live = ctx[c].live
        /\ ctx'[c].id = ctx[c].id /\ ctx'[c].ho = ctx[c].ho
    <3>1. ctx[c] \in CtxSet
      BY <1>2, BaseParts
    <3>. HIDE DEF c
    <3>. QED BY <1>2, <2>1, <3>1 DEF CtxSet, Xids
  <2>3. CtxBase(ctx', mac) /\ LiveIds(ctx') \subseteq LiveIds(ctx)
    <3>1. ctx[c].live /\ Mentioned(mac, ctx'[c].id) /\ Mentioned(mac, ctx'[c].ho.tgt_id)
      BY <1>2, <1>5, <2>2 DEF Live, Base, CtxBase
    <3>. QED BY <1>2, <2>1, <2>2, <3>1, CtxStep
  <2>4. DuQ(to_du', up, mac) /\ RoomAtDus(to_du', mac, events)
    BY <1>2, <1>5, <2>3, TransferOK, BaseParts
  <2>. QED BY <1>1, <2>3, <2>4, CuTookBase DEF Base
<1>. QED BY <1>3, <1>4, <1>5 DEF ModificationRequired

LEMMA ModificationResponseBase ==
    ASSUME Base, IInv, NEW d \in Dus, ModificationResponse(d)
    PROVE  Base'
<1>. DEFINE c == Head(to_cu[d]).cu
<1>1. to_cu[d] # <<>> /\ CuTakes(d) /\ Head(to_cu[d]).t = "modif_resp"
      /\ up' = up /\ mac' = mac /\ ue' = ue /\ events' = events /\ amf' = amf /\ to_du' = to_du
  BY DEF ModificationResponse, Took, duVars
<1>2. CASE ~(Live(c) /\ HandingOver(c))
  <2>1. ctx' = ctx
    BY <1>2 DEF ModificationResponse
  <2>. QED BY <1>1, <2>1, CuTookBase DEF Base
<1>3. CASE Live(c) /\ HandingOver(c)
  <2>1. ctx' = [ctx EXCEPT ![c].du = ctx[c].ho.tgt, ![c].id = ctx[c].ho.tgt_id] /\ c \in CuIds
    BY <1>3 DEF ModificationResponse, Live
  <2>2. Only(c) /\ ctx'[c] = [ctx[c] EXCEPT !.du = ctx[c].ho.tgt, !.id = ctx[c].ho.tgt_id]
    BY <2>1, BaseParts DEF Only
  <2>3. /\ ctx'[c] \in CtxSet /\ ctx'[c].live = ctx[c].live
        /\ ctx'[c].id = ctx[c].ho.tgt_id /\ ctx'[c].ho = ctx[c].ho
    BY <2>1, <2>2, BaseParts, RecordOK, ZenonT(60) DEF CtxSet
  <2>4. CtxBase(ctx', mac) /\ LiveIds(ctx') \subseteq LiveIds(ctx)
    <3>1. ctx[c].live /\ Mentioned(mac, ctx'[c].id) /\ Mentioned(mac, ctx'[c].ho.tgt_id)
      BY <1>3, <2>1, <2>3 DEF Live, Base, CtxBase
    <3>. QED BY <2>1, <2>2, <2>3, <3>1, CtxStep
  <2>. QED BY <1>1, <2>4, CuTookBase DEF Base
<1>. QED BY <1>2, <1>3

LEMMA ReconfigurationCompleteBase ==
    ASSUME Base, IInv, NEW d \in Dus, ReconfigurationComplete(d)
    PROVE  Base'
<1>. DEFINE m == Head(to_cu[d])
            c == m.cu
<1>1. to_cu[d] # <<>> /\ CuTakes(d) /\ Head(to_cu[d]).t = "complete"
      /\ up' = up /\ mac' = mac /\ ue' = ue /\ events' = events /\ amf' = amf
  BY DEF ReconfigurationComplete, Took, duVars
<1>2. CASE ~Live(c)
  <2>1. ctx' = ctx /\ to_du' = to_du
    BY <1>2 DEF ReconfigurationComplete
  <2>. QED BY <1>1, <2>1, CuTookBase DEF Base
<1>3. CASE Live(c)
  <2>1. /\ ctx' = [ctx EXCEPT ![c].xids = @ \ {m.what}, ![c].ho = NoHo] /\ c \in CuIds
        /\ to_du' = to_du \/ to_du' = Queued(to_du, ctx[c].ho.src, Release(c, ctx[c].ho.src_id, FALSE))
    BY <1>3 DEF ReconfigurationComplete, Live
  <2>2. Only(c) /\ ctx'[c] = [ctx[c] EXCEPT !.xids = @ \ {m.what}, !.ho = NoHo]
    BY <2>1, BaseParts DEF Only
  <2>3. /\ ctx'[c] \in CtxSet /\ ctx'[c].live = ctx[c].live
        /\ ctx'[c].id = ctx[c].id /\ ctx'[c].ho = NoHo
    BY <2>1, <2>2, BaseParts, NoHoOK DEF CtxSet
  <2>4. CtxBase(ctx', mac) /\ LiveIds(ctx') \subseteq LiveIds(ctx)
    <3>1. ctx[c].live /\ Mentioned(mac, ctx'[c].id) /\ Mentioned(mac, ctx'[c].ho.tgt_id)
      BY <1>3, <2>1, <2>3, NoHoOK DEF Live, Base, CtxBase, Mentioned
    <3>. QED BY <2>1, <2>2, <2>3, <3>1, CtxStep
  <2>5. DuQ(to_du', up, mac) /\ RoomAtDus(to_du', mac, events)
    BY <2>1, RoomQueued, ReleaseOK, BaseParts
  <2>. QED BY <1>1, <2>4, <2>5, CuTookBase DEF Base
<1>. QED BY <1>2, <1>3

LEMMA CuIdForRequest ==
    ASSUME Base, NEW d \in Dus, Took(d, "reest_req"), CuTakes(d)
    PROVE  NewCuId \in CuIds /\ ~ctx[NewCuId].live
<1>. DEFINE n == events + 1 - Cardinality(LiveIds(ctx))
<1>1. Cardinality(LiveIds(ctx)) \in Nat /\ n \in Int /\ events \in Nat /\ events <= MaxEvents
  <2>1. LiveIds(ctx) \subseteq Ids /\ events \in 0..MaxEvents
    BY IdsFinite DEF LiveIds, Base
  <2>. QED BY <2>1, IdsFinite, BoundAssumption
<1>2. Few(to_cu', "reest_req", n - 1)
  <2>1. Few(to_cu, "reest_req", n) /\ CuQ(to_cu, mac)
    BY DEF Base, RoomAtCu
  <2>. HIDE DEF n
  <2>. QED BY <1>1, <2>1, CuTakesOK DEF Took
<1>3. 0 <= n - 1
  <2>. HIDE DEF n
  <2>. QED BY <1>1, <1>2, FS_CardinalityType DEF Few
<1>4. Cardinality(LiveIds(ctx)) <= MaxEvents
  BY <1>1, <1>3, BoundAssumption
<1>. QED BY <1>4, NewCuIdOK

LEMMA FallBackBase ==
    ASSUME Base, IInv, NEW d \in Dus, NEW i, MadeIn(mac, d, i), NEW old, old \subseteq CuIds,
           FallBack(d, i, old), NewCuId \in CuIds, ~ctx[NewCuId].live
    PROVE  /\ CtxBase(ctx', mac) /\ amf' \subseteq CuIds
           /\ LiveIds(ctx') \subseteq LiveIds(ctx) \cup {NewCuId}
           /\ DuQ(to_du', up, mac) /\ RoomAtDus(to_du', mac, events)
           /\ Only(NewCuId) /\ ctx'[NewCuId] = NewCtx(d, i)
<1>1. Only(NewCuId) /\ ctx'[NewCuId] = NewCtx(d, i) /\ amf' \subseteq CuIds
  BY BaseParts DEF FallBack, Only, Base
<1>2. d \in AnyDu /\ i \in AnyId /\ Mentioned(mac, i)
  BY BaseParts DEF AnyDu, AnyId, MadeIn, Mentioned, Used
<1>3. /\ NewCtx(d, i) \in CtxSet /\ NewCtx(d, i).live /\ NewCtx(d, i).id = i
      /\ NewCtx(d, i).ho = NoHo
  BY <1>2, NoHoOK DEF NewCtx, NoCtx, CtxSet, Xids
<1>4. CtxBase(ctx', mac) /\ LiveIds(ctx') \subseteq LiveIds(ctx) \cup {NewCuId}
  <2>1. Mentioned(mac, ctx'[NewCuId].ho.tgt_id)
    BY <1>1, <1>3, NoHoOK DEF Mentioned
  <2>. QED BY <1>1, <1>2, <1>3, <2>1, CtxStep
<1>5. to_du' = Transfer(to_du, NewCuId, 0, "setup")
  BY DEF FallBack
<1>. QED BY <1>1, <1>4, <1>5, TransferOK, BaseParts

LEMMA SoughtOK ==
    ASSUME Base, NEW d, NEW pci, NEW rnti, Sought(d, pci, rnti) # {},
           NEW c, c = CHOOSE k \in Sought(d, pci, rnti) : TRUE
    PROVE  /\ c \in CuIds /\ ctx[c].live
           /\ \/ ctx[c].du = d /\ ctx[c].id = rnti
              \/ HandingOver(c) /\ ctx[c].ho.src = pci /\ ctx[c].ho.src_id = rnti
<1>1. c \in Sought(d, pci, rnti)
  OBVIOUS
<1>. QED BY <1>1 DEF Sought, ByRnti, BySourceCell, Live, Base, CtxBase, HandingOver, On

LEMMA ReestablishmentRequestBase ==
    ASSUME Base, IInv, NEW d \in Dus, ReestablishmentRequest(d)
    PROVE  Base'
<1>. DEFINE m == Head(to_cu[d])
            found == Sought(d, m.pci, m.rnti)
            c == CHOOSE k \in found : TRUE
            back == IF OnSource(c, m.pci) THEN RolledBack(c) ELSE ctx[c]
            q == IF OnSource(c, m.pci) THEN Cancelled(c) ELSE to_du
            FB(old) == FallBack(d, m.id, old)
            again == /\ ctx' = [ctx EXCEPT ![c] =
                           [back EXCEPT !.id = m.id, !.xids = @ \cup {"reestab"}]]
                     /\ to_du' = Transfer(q, c, m.rnti, "reestab")
                     /\ amf' = amf
<1>1. Took(d, "reest_req") /\ to_cu[d] # <<>> /\ CuTakes(d) /\ m.t = "reest_req"
      /\ up' = up /\ mac' = mac /\ ue' = ue /\ events' = events
  BY DEF ReestablishmentRequest, Took, duVars
<1>2. \/ FB({})
      \/ found # {} /\ FB({c})
      \/ found # {} /\ again
  BY DEF ReestablishmentRequest
<1>3. MadeIn(mac, d, m.id) /\ m.id \in AnyId /\ Mentioned(mac, m.id)
  <2>1. CuMsgOK(m, d, mac)
    BY <1>1, BaseParts, CuTakesOK
  <2>. QED BY <1>1, <2>1, BaseParts DEF CuMsgOK, MadeIn, Used, AnyId, Mentioned
<1>4. NewCuId \in CuIds /\ ~ctx[NewCuId].live
  BY <1>1, CuIdForRequest
<1>5. found # {} => c \in CuIds /\ ctx[c].live
  BY SoughtOK
<1>6. CASE FB({}) \/ (found # {} /\ FB({c}))
  <2>1. PICK old : old \subseteq CuIds /\ FB(old)
    BY <1>5, <1>6
  <2>2. /\ CtxBase(ctx', mac) /\ amf' \subseteq CuIds
        /\ LiveIds(ctx') \subseteq LiveIds(ctx) \cup {NewCuId}
        /\ DuQ(to_du', up, mac) /\ RoomAtDus(to_du', mac, events)
    BY <1>3, <1>4, <2>1, FallBackBase
  <2>. QED BY <1>1, <2>2, CuTookBase
<1>7. CASE found # {} /\ again
  <2>1. c \in CuIds /\ ctx[c].live /\ ctx[c] \in CtxSet
    BY <1>5, <1>7, BaseParts
  <2>2. back \in CtxSet /\ back.live = ctx[c].live /\ (back.ho = NoHo \/ back.ho = ctx[c].ho)
    <3>. HIDE DEF c
    <3>1. CASE OnSource(c, m.pci)
      <4>1. back = [ctx[c] EXCEPT !.xids = @ \ {"dedicated", "required"}, !.cg = ctx[c].ho.old_cg,
                                  !.du = ctx[c].ho.src, !.ho = NoHo]
        BY <3>1 DEF RolledBack
      <4>. QED BY <2>1, <4>1, RecordOK, NoHoOK DEF CtxSet
    <3>. QED BY <2>1, <3>1
  <2>3. Only(c) /\ ctx'[c] = [back EXCEPT !.id = m.id, !.xids = @ \cup {"reestab"}]
    BY <1>7, <2>1, BaseParts DEF Only
  <2>4. /\ ctx'[c] \in CtxSet /\ ctx'[c].live = ctx[c].live /\ ctx'[c].id = m.id
        /\ (ctx'[c].ho = NoHo \/ ctx'[c].ho = ctx[c].ho)
    <3>. HIDE DEF c, back, m
    <3>. QED BY <1>3, <2>2, <2>3 DEF CtxSet, Xids
  <2>5. CtxBase(ctx', mac) /\ LiveIds(ctx') \subseteq LiveIds(ctx)
    <3>1. Mentioned(mac, ctx'[c].ho.tgt_id)
      BY <2>1, <2>4, NoHoOK DEF Mentioned, Base, CtxBase
    <3>. HIDE DEF c
    <3>. QED BY <1>3, <2>1, <2>3, <2>4, <3>1, CtxStep
  <2>6. DuQ(q, up, mac) /\ RoomAtDus(q, mac, events)
    <3>1. CASE OnSource(c, m.pci)
      <4>1. q = Queued(to_du, ctx[c].ho.tgt, Release(c, ctx[c].ho.tgt_id, FALSE))
        BY <3>1 DEF Cancelled
      <4>. HIDE DEF c, q
      <4>. QED BY <2>1, <4>1, RoomQueued, ReleaseOK, BaseParts
    <3>. QED BY <3>1, BaseParts
  <2>7. DuQ(to_du', up, mac) /\ RoomAtDus(to_du', mac, events)
    <3>1. to_du' = Transfer(q, c, m.rnti, "reestab")
      BY <1>7
    <3>. HIDE DEF c, q
    <3>. QED BY <2>1, <2>5, <2>6, <3>1, TransferOK, BaseParts
  <2>8. amf' \subseteq CuIds
    BY <1>7 DEF Base
  <2>. HIDE DEF c, m
  <2>. QED BY <1>1, <2>5, <2>7, <2>8, CuTookBase DEF m
<1>. QED BY <1>2, <1>6, <1>7

LEMMA ReestablishmentCompleteBase ==
    ASSUME Base, IInv, NEW d \in Dus, ReestablishmentComplete(d)
    PROVE  Base'
<1>. DEFINE c == Head(to_cu[d]).cu
<1>1. to_cu[d] # <<>> /\ CuTakes(d) /\ Head(to_cu[d]).t = "reest_compl"
      /\ up' = up /\ mac' = mac /\ ue' = ue /\ events' = events /\ amf' = amf
  BY DEF ReestablishmentComplete, Took, duVars
<1>2. CASE ~(Live(c) /\ ctx[c].cg # NoDu)
  <2>1. ctx' = ctx /\ to_du' = to_du
    BY <1>2 DEF ReestablishmentComplete
  <2>. QED BY <1>1, <2>1, CuTookBase DEF Base
<1>3. CASE Live(c) /\ ctx[c].cg # NoDu
  <2>1. /\ ctx' = [ctx EXCEPT ![c].xids = (@ \ {"reestab"}) \cup {"reestab_done"}] /\ c \in CuIds
        /\ to_du' = Transfer(to_du, c, 0, "reestab_done")
    BY <1>3 DEF ReestablishmentComplete, Live
  <2>2. Only(c) /\ ctx'[c] = [ctx[c] EXCEPT !.xids = (@ \ {"reestab"}) \cup {"reestab_done"}]
    BY <2>1, BaseParts DEF Only
  <2>3. /\ ctx'[c] \in CtxSet /\ ctx'[c].live = ctx[c].live
        /\ ctx'[c].id = ctx[c].id /\ ctx'[c].ho = ctx[c].ho
    BY <2>1, <2>2, BaseParts DEF CtxSet, Xids
  <2>4. CtxBase(ctx', mac) /\ LiveIds(ctx') \subseteq LiveIds(ctx)
    <3>1. ctx[c].live /\ Mentioned(mac, ctx'[c].id) /\ Mentioned(mac, ctx'[c].ho.tgt_id)
      BY <1>3, <2>1, <2>3 DEF Live, Base, CtxBase
    <3>. QED BY <2>1, <2>2, <2>3, <3>1, CtxStep
  <2>5. DuQ(to_du', up, mac) /\ RoomAtDus(to_du', mac, events)
    BY <2>1, <2>4, TransferOK, BaseParts
  <2>. QED BY <1>1, <2>4, <2>5, CuTookBase DEF Base
<1>. QED BY <1>2, <1>3

(* A context is removed, or ends its handover.                              *)
LEMMA EndedBase ==
    ASSUME Base, NEW c \in CuIds,
           \/ ctx' = [ctx EXCEPT ![c].ho = NoHo]
           \/ ctx' = [ctx EXCEPT ![c] = NoCtx]
           \/ ctx' = [ctx EXCEPT ![c].an_release = TRUE]
           \/ ctx' = [ctx EXCEPT ![c].sec = TRUE]
           \/ ctx' = [ctx EXCEPT ![c].xids = @ \cup {"session"}]
    PROVE  CtxBase(ctx', mac) /\ LiveIds(ctx') \subseteq LiveIds(ctx)
<1>1. ctx = [k \in CuIds |-> ctx[k]] /\ ctx[c] \in CtxSet
      /\ (On(ctx[c]) => ctx[c].live) /\ Mentioned(mac, ctx[c].id) /\ Mentioned(mac, ctx[c].ho.tgt_id)
  BY DEF Base, CtxBase
<1>2. /\ Only(c)
      /\ \/ ctx'[c] = [ctx[c] EXCEPT !.ho = NoHo]
         \/ ctx'[c] = NoCtx
         \/ ctx'[c] = [ctx[c] EXCEPT !.an_release = TRUE]
         \/ ctx'[c] = [ctx[c] EXCEPT !.sec = TRUE]
         \/ ctx'[c] = [ctx[c] EXCEPT !.xids = @ \cup {"session"}]
  BY <1>1 DEF Only
<1>3. /\ ctx'[c] \in CtxSet /\ (ctx'[c].live => ctx[c].live)
      /\ (ctx'[c].id = ctx[c].id \/ ctx'[c].id = 0)
      /\ (ctx'[c].ho = NoHo \/ (ctx'[c].ho = ctx[c].ho /\ ctx'[c].live = ctx[c].live))
  BY <1>1, <1>2, NoHoOK, ZenonT(60) DEF CtxSet, Xids
<1>4. Mentioned(mac, ctx'[c].id) /\ Mentioned(mac, ctx'[c].ho.tgt_id)
      /\ (On(ctx'[c]) => ctx'[c].live)
  BY <1>1, <1>3, NoHoOK DEF Mentioned, On
<1>. QED BY <1>2, <1>3, <1>4, CtxStep

LEMMA ReleaseQueued ==
    ASSUME Base, IInv, NEW c \in CuIds, NEW d, NEW i, NEW a,
           to_du' = to_du \/ to_du' = Queued(to_du, d, Release(c, i, a))
    PROVE  DuQ(to_du', up, mac) /\ RoomAtDus(to_du', mac, events)
<1>1. CASE to_du' = to_du
  BY <1>1, BaseParts
<1>2. CASE to_du' = Queued(to_du, d, Release(c, i, a))
  <2>. DEFINE m == Release(c, i, a)
  <2>1. DuMsgOK(m, mac) /\ m.t # "setup"
    BY ReleaseOK
  <2>2. to_du' = Queued(to_du, d, m)
    BY <1>2
  <2>. HIDE DEF m
  <2>. QED BY <2>1, <2>2, RoomQueued, BaseParts
<1>. QED BY <1>1, <1>2

LEMMA ReleaseRequestBase ==
    ASSUME Base, IInv, NEW d \in Dus, ReleaseRequest(d)
    PROVE  Base'
<1>. DEFINE c == Head(to_cu[d]).cu
<1>1. to_cu[d] # <<>> /\ CuTakes(d) /\ Head(to_cu[d]).t = "rel_req"
      /\ up' = up /\ mac' = mac /\ ue' = ue /\ events' = events
  BY DEF ReleaseRequest, Took, duVars
<1>2. CASE ~Live(c)
  <2>1. ctx' = ctx /\ to_du' = to_du /\ amf' = amf
    BY <1>2 DEF ReleaseRequest
  <2>. QED BY <1>1, <2>1, CuTookBase DEF Base
<1>3. CASE Live(c)
  <2>1. /\ c \in CuIds /\ ctx' = [ctx EXCEPT ![c].ho = NoHo]
        /\ amf' = amf \/ amf' = amf \cup {c}
        /\ to_du' = to_du \/ to_du' = Queued(to_du, d, Release(c, ctx[c].ho.src_id, FALSE))
    BY <1>3 DEF ReleaseRequest, Live
  <2>2. CtxBase(ctx', mac) /\ LiveIds(ctx') \subseteq LiveIds(ctx)
    BY <2>1, EndedBase
  <2>3. DuQ(to_du', up, mac) /\ RoomAtDus(to_du', mac, events)
    BY <2>1, ReleaseQueued
  <2>4. amf' \subseteq CuIds
    BY <2>1 DEF Base
  <2>. QED BY <1>1, <2>2, <2>3, <2>4, CuTookBase
<1>. QED BY <1>2, <1>3

LEMMA ReleaseCompleteBase ==
    ASSUME Base, IInv, NEW d \in Dus, ReleaseComplete(d)
    PROVE  Base'
<1>. DEFINE c == Head(to_cu[d]).cu
<1>1. to_cu[d] # <<>> /\ CuTakes(d) /\ Head(to_cu[d]).t = "rel_compl"
      /\ up' = up /\ mac' = mac /\ ue' = ue /\ events' = events /\ to_du' = to_du
  BY DEF ReleaseComplete, Took, duVars
<1>2. CASE ctx' = ctx /\ amf' = amf
  BY <1>1, <1>2, CuTookBase DEF Base
<1>3. CASE Live(c) /\ Removed(c)
  <2>1. c \in CuIds /\ ctx' = [ctx EXCEPT ![c] = NoCtx] /\ amf' \subseteq CuIds
    BY <1>3 DEF Live, Removed, Base
  <2>2. CtxBase(ctx', mac) /\ LiveIds(ctx') \subseteq LiveIds(ctx)
    BY <2>1, EndedBase
  <2>. QED BY <1>1, <2>1, <2>2, CuTookBase DEF Base
<1>. QED BY <1>2, <1>3 DEF ReleaseComplete

LEMMA LostConnectionBase ==
    ASSUME Base, IInv, NEW d \in Dus, LostConnection(d)
    PROVE  Base'
<1>1. to_cu[d] # <<>> /\ CuTakes(d) /\ Head(to_cu[d]).t = "lost"
      /\ up' = up /\ mac' = mac /\ ue' = ue /\ events' = events /\ to_du' = to_du
      /\ amf' \subseteq CuIds
      /\ ctx' = [c \in CuIds |-> [ctx[c] EXCEPT !.ho = NoHo, !.du = IF @ = d THEN NoDu ELSE @]]
  BY DEF LostConnection, Took, duVars, Base
<1>2. \A c \in CuIds : /\ ctx'[c] \in CtxSet /\ ctx'[c].live = ctx[c].live
                       /\ ctx'[c].id = ctx[c].id /\ ctx'[c].ho = NoHo
  <2>. SUFFICES ASSUME NEW c \in CuIds
                PROVE  /\ ctx'[c] \in CtxSet /\ ctx'[c].live = ctx[c].live
                       /\ ctx'[c].id = ctx[c].id /\ ctx'[c].ho = NoHo
    OBVIOUS
  <2>1. ctx[c] \in CtxSet
    BY BaseParts
  <2>2. ctx'[c] = [ctx[c] EXCEPT !.ho = NoHo, !.du = IF ctx[c].du = d THEN NoDu ELSE ctx[c].du]
    BY <1>1, <2>1 DEF CtxSet
  <2>. QED BY <2>1, <2>2, NoHoOK DEF CtxSet, AnyDu
<1>3. ctx' \in [CuIds -> CtxSet]
  BY <1>1, <1>2
<1>4. CtxBase(ctx', mac) /\ LiveIds(ctx') \subseteq LiveIds(ctx)
  BY <1>2, <1>3, NoHoOK DEF Base, CtxBase, On, Mentioned, LiveIds
<1>. QED BY <1>1, <1>4, CuTookBase DEF Base

LEMMA RoomGrows ==
    ASSUME NEW Q, NEW M, NEW n \in Int, NEW k \in Int, n <= k, RoomAtDus(Q, M, n)
    PROVE  RoomAtDus(Q, M, k)
<1>1. Cardinality(UsedIds(M)) \in Nat
  BY IdsFinite DEF UsedIds
<1>2. /\ n + 1 - Cardinality(UsedIds(M)) \in Int /\ k + 1 - Cardinality(UsedIds(M)) \in Int
      /\ n + 1 - Cardinality(UsedIds(M)) <= k + 1 - Cardinality(UsedIds(M))
  BY <1>1
<1>. QED BY <1>2, FewLess DEF RoomAtDus

LEMMA CuActionsBase ==
    ASSUME Base, IInv, NEW c \in CuIds,
           ReleaseCommand(c) \/ AmfReleases(c) \/ SetupSession(c)
           \/ ModifySession(c) \/ Register(c)
    PROVE  Base'
<1>1. CASE ReleaseCommand(c)
  <2>1. /\ up' = up /\ mac' = mac /\ ue' = ue /\ to_cu' = to_cu /\ events' = events
        /\ amf' \subseteq CuIds
        /\ ctx' = [ctx EXCEPT ![c].an_release = TRUE] \/ ctx' = [ctx EXCEPT ![c] = NoCtx]
        /\ to_du' = to_du \/ to_du' = Queued(to_du, ctx[c].du, Release(c, ctx[c].id, TRUE))
    BY <1>1 DEF ReleaseCommand, Removed, duVars, Base
  <2>2. CtxBase(ctx', mac) /\ LiveIds(ctx') \subseteq LiveIds(ctx)
    BY <2>1, EndedBase
  <2>3. DuQ(to_du', up, mac) /\ RoomAtDus(to_du', mac, events)
    BY <2>1, ReleaseQueued
  <2>. QED BY <2>1, <2>2, <2>3, CuActsBase
<1>2. CASE AmfReleases(c)
  <2>1. /\ up' = up /\ mac' = mac /\ ue' = ue /\ to_cu' = to_cu /\ Event /\ ctx' = ctx
        /\ to_du' = to_du /\ amf' \subseteq CuIds /\ events' = events + 1
    BY <1>2 DEF AmfReleases, duVars, netVars, Base, Event
  <2>2. RoomAtDus(to_du', mac, events')
    BY <2>1, RoomGrows, BaseParts
  <2>. QED BY <2>1, <2>2, CuActsBase, BaseParts
<1>3. CASE ModifySession(c)
  <2>1. /\ up' = up /\ mac' = mac /\ ue' = ue /\ to_cu' = to_cu /\ Event
        /\ ctx' = [ctx EXCEPT ![c].xids = @ \cup {"session"}]
        /\ to_du' = Transfer(to_du, c, 0, "session") /\ amf' \subseteq CuIds /\ events' = events + 1
    BY <1>3 DEF ModifySession, duVars, Base, Event
  <2>2. CtxBase(ctx', mac) /\ LiveIds(ctx') \subseteq LiveIds(ctx)
    BY <2>1, EndedBase
  <2>3. DuQ(to_du', up, mac) /\ RoomAtDus(to_du', mac, events)
    BY <2>1, <2>2, TransferOK, BaseParts
  <2>4. RoomAtDus(to_du', mac, events')
    BY <2>1, <2>3, RoomGrows, BaseParts
  <2>. QED BY <2>1, <2>2, <2>3, <2>4, CuActsBase
<1>4. CASE Register(c)
  <2>1. /\ up' = up /\ mac' = mac /\ ue' = ue /\ to_cu' = to_cu /\ events' = events
        /\ ctx' = [ctx EXCEPT ![c].sec = TRUE]
        /\ to_du' = to_du /\ amf' \subseteq CuIds
    BY <1>4 DEF Register, duVars, netVars, Base
  <2>2. CtxBase(ctx', mac) /\ LiveIds(ctx') \subseteq LiveIds(ctx)
    BY <2>1, EndedBase
  <2>. QED BY <2>1, <2>2, CuActsBase, BaseParts
<1>5. CASE SetupSession(c)
  <2>. DEFINE m == [t |-> IF ctx[c].f1 THEN "more_bearers" ELSE "bearers", cu |-> c, id |-> ctx[c].id]
  <2>1. /\ up' = up /\ mac' = mac /\ ue' = ue /\ to_cu' = to_cu /\ Event /\ ctx' = ctx
        /\ to_du' = Queued(to_du, ctx[c].du, m) /\ amf' \subseteq CuIds /\ events' = events + 1
    BY <1>5 DEF SetupSession, cuVars, duVars, Base, Event
  <2>2. DuMsgOK(m, mac) /\ m.t # "setup"
    BY DEF DuMsgOK
  <2>. HIDE DEF m
  <2>3. DuQ(to_du', up, mac) /\ RoomAtDus(to_du', mac, events)
    BY <2>1, <2>2, RoomQueued, BaseParts
  <2>4. RoomAtDus(to_du', mac, events')
    BY <2>1, <2>3, RoomGrows, BaseParts
  <2>. QED BY <2>1, <2>3, <2>4, CuActsBase, BaseParts
<1>. QED BY <1>1, <1>2, <1>3, <1>4, <1>5

(* The DUs and the UE.                                                      *)
MacStep(i) ==
    \/ mac'[i] = mac[i]
    \/ /\ mac[i].du # NoDu /\ mac'[i] \in MacSet /\ mac'[i].du = mac[i].du
       /\ mac[i].cu # 0 => mac'[i].cu = mac[i].cu
MacSteps == mac' = [i \in Ids |-> mac'[i]] /\ \A i \in Ids : MacStep(i)

LEMMA MacStepsOK ==
    ASSUME MacBase(mac), MacSteps
    PROVE  MacBase(mac') /\ MacKeeps(mac, mac') /\ UsedIds(mac') = UsedIds(mac)
<1>1. \A i \in Ids : mac'[i] \in MacSet /\ mac'[i].du = mac[i].du
  BY DEF MacSteps, MacStep, MacBase
<1>2. mac' \in [Ids -> MacSet]
  BY <1>1 DEF MacSteps
<1>3. \A i \in Ids : mac'[i].du = NoDu => mac'[i] = NoMac
  BY <1>1 DEF MacSteps, MacStep, MacBase
<1>. QED BY <1>1, <1>2, <1>3 DEF MacBase, MacKeeps, MacSteps, MacStep, UsedIds

(* What a DU may do to what the CU has sent it.                             *)
Taken(d) == d \in Dus /\ to_du[d] # <<>> /\ DuTakes(d) /\ up' = up
Cut(d)   == d \in Dus /\ to_du' = [to_du EXCEPT ![d] = <<>>] /\ up' = up \ {d}
Says(d, m) == d \in Dus /\ Sent(d, m) /\ CuMsgOK(m, d, mac) /\ m.t # "reest_req"

LEMMA DuStepBase ==
    ASSUME Base, IInv, ctx' = ctx, amf' = amf, events' = events \/ Event, MacSteps,
           IsUe(ue'), Mentioned(mac, ue'.id), Mentioned(mac, ue'.next.id),
           (to_du' = to_du /\ up' = up) \/ (\E d : Taken(d)) \/ (\E d : Cut(d)),
           to_cu' = to_cu \/ \E d, m : Says(d, m)
    PROVE  Base'
<1>. DEFINE n == events + 1 - Cardinality(UsedIds(mac))
            l == events + 1 - Cardinality(LiveIds(ctx))
<1>1. MacBase(mac') /\ MacKeeps(mac, mac') /\ UsedIds(mac') = UsedIds(mac)
  BY MacStepsOK DEF Base
<1>2. events' \in 0..MaxEvents /\ events <= events' /\ events \in Int /\ events' \in Int
  BY BoundAssumption DEF Base, Event
<1>3. n \in Int /\ l \in Int
  BY <1>2, IdsFinite DEF UsedIds, LiveIds
<1>4. Few(to_du, "setup", n) /\ Few(to_cu, "reest_req", l) /\ CuQ(to_cu, mac) /\ DuQ(to_du, up, mac)
  BY DEF Base, RoomAtDus, RoomAtCu
<1>5. DuQ(to_du', up', mac) /\ Few(to_du', "setup", n)
  <2>. HIDE DEF n
  <2>1. CASE to_du' = to_du /\ up' = up
    BY <1>4, <2>1
  <2>2. ASSUME NEW d, Taken(d) PROVE DuQ(to_du', up', mac) /\ Few(to_du', "setup", n)
    <3>1. d \in Dus /\ to_du[d] # <<>> /\ DuTakes(d) /\ up' = up
      BY <2>2 DEF Taken
    <3>2. DuQ(to_du', up, mac) /\ Few(to_du', "setup", IF Head(to_du[d]).t = "setup" THEN n - 1 ELSE n)
      BY <1>3, <1>4, <3>1, DuTakesOK
    <3>3. n - 1 <= n /\ n - 1 \in Int
      BY <1>3
    <3>. QED BY <1>3, <3>1, <3>2, <3>3, FewLess
  <2>3. ASSUME NEW d, Cut(d) PROVE DuQ(to_du', up', mac) /\ Few(to_du', "setup", n)
    <3>1. /\ d \in Dus /\ to_du' = [e \in Dus |-> to_du'[e]] /\ to_du'[d] = <<>>
          /\ \A e \in Dus \ {d} : to_du'[e] = to_du[e]
          /\ up' = up \ {d}
      BY <1>4, <2>3 DEF Cut, DuQ
    <3>2. Few(to_du', "setup", n)
      BY <1>3, <1>4, <3>1, FewCut
    <3>. QED BY <1>4, <3>1, <3>2, SeqEmpty DEF DuQ
  <2>. QED BY <2>1, <2>2, <2>3
<1>6. CuQ(to_cu', mac) /\ Few(to_cu', "reest_req", l)
  <2>. HIDE DEF l
  <2>1. CASE to_cu' = to_cu
    BY <1>4, <2>1
  <2>2. ASSUME NEW d, NEW m, Says(d, m) PROVE CuQ(to_cu', mac) /\ Few(to_cu', "reest_req", l)
    BY <1>3, <1>4, <2>2, SentOK DEF Says
  <2>. QED BY <2>1, <2>2
<1>7. /\ CtxBase(ctx', mac') /\ UeBase(ue', mac') /\ CuQ(to_cu', mac') /\ DuQ(to_du', up', mac')
  <2>1. CtxBase(ctx', mac) /\ UeBase(ue', mac)
    BY DEF Base, UeBase
  <2>. QED BY <1>1, <1>5, <1>6, <2>1, BaseStable
<1>8. RoomAtDus(to_du', mac', events')
  <2>1. RoomAtDus(to_du', mac', events)
    BY <1>1, <1>5 DEF RoomAtDus
  <2>. QED BY <1>2, <2>1, RoomGrows
<1>9. RoomAtCu(to_cu', ctx', events')
  <2>1. l <= events' + 1 - Cardinality(LiveIds(ctx)) /\ events' + 1 - Cardinality(LiveIds(ctx)) \in Int
    BY <1>2, IdsFinite DEF LiveIds
  <2>. HIDE DEF l
  <2>2. Few(to_cu', "reest_req", events' + 1 - Cardinality(LiveIds(ctx)))
    BY <1>3, <1>6, <2>1, FewLess
  <2>. QED BY <2>2 DEF RoomAtCu
<1>10. amf' \subseteq CuIds
  BY DEF Base
<1>. QED BY <1>1, <1>2, <1>7, <1>8, <1>9, <1>10 DEF Base

LEMMA DiesEffect ==
    ASSUME Base, IInv, NEW d \in Dus, Dies(d)
    PROVE  /\ MacSteps /\ Cut(d) /\ Says(d, [t |-> "lost"])
           /\ IsUe(ue') /\ ue' = [ue EXCEPT !.here = @ /\ ue.du # d]
           /\ ue'.id = ue.id /\ ue'.next = ue.next
<1>1. Cut(d)
  BY DEF Dies, Cut
<1>2. Says(d, [t |-> "lost"])
  BY DEF Dies, Says, CuMsgOK
<1>3. IsUe(ue) /\ NoDu # d
  BY BaseParts DEF Base, UeBase
<1>4. ue' = [ue EXCEPT !.here = @ /\ ue.du # d]
  BY DEF Dies
<1>5. IsUe(ue') /\ ue'.id = ue.id /\ ue'.next = ue.next
  BY <1>3, <1>4 DEF IsUe
<1>6. mac' = [i \in Ids |-> IF mac[i].du = d THEN [mac[i] EXCEPT !.st = "gone"] ELSE mac[i]]
  BY DEF Dies
<1>7. ASSUME NEW i \in Ids PROVE MacStep(i)
  <2>1. mac[i] \in MacSet
    BY DEF Base, MacBase
  <2>2. mac'[i] = IF mac[i].du = d THEN [mac[i] EXCEPT !.st = "gone"] ELSE mac[i]
    BY <1>6
  <2>. QED BY <1>3, <2>1, <2>2 DEF MacStep, MacSet
<1>8. MacSteps
  BY <1>6, <1>7 DEF MacSteps
<1>. QED BY <1>1, <1>2, <1>4, <1>5, <1>8

(* The state of a context that its DU has.                                  *)
LEMMA StepOfOne ==
    ASSUME Base, NEW i \in Ids, mac[i].st \notin {"none", "gone"},
           \/ mac' = [mac EXCEPT ![i].st = "gone"]
           \/ mac' = [mac EXCEPT ![i].st = "releasing"]
           \/ mac' = [mac EXCEPT ![i].st = "failed"]
           \/ mac' = [mac EXCEPT ![i].st = "active"]
    PROVE  MacSteps
<1>1. mac \in [Ids -> MacSet] /\ mac[i] \in MacSet /\ mac[i].du # NoDu
  BY DEF Base, MacBase, NoMac
<1>2. /\ mac' = [k \in Ids |-> mac'[k]] /\ \A k \in Ids \ {i} : mac'[k] = mac[k]
      /\ \/ mac'[i] = [mac[i] EXCEPT !.st = "gone"]
         \/ mac'[i] = [mac[i] EXCEPT !.st = "releasing"]
         \/ mac'[i] = [mac[i] EXCEPT !.st = "failed"]
         \/ mac'[i] = [mac[i] EXCEPT !.st = "active"]
  BY <1>1
<1>3. MacStep(i)
  BY <1>1, <1>2 DEF MacStep, MacSet
<1>. QED BY <1>2, <1>3 DEF MacSteps, MacStep

LEMMA SameMac ==
    ASSUME Base, mac' = mac
    PROVE  MacSteps
BY DEF Base, MacBase, MacSteps, MacStep

LEMMA SameUe ==
    ASSUME Base
    PROVE  IsUe(ue) /\ Mentioned(mac, ue.id) /\ Mentioned(mac, ue.next.id) /\ Mentioned(mac, 0)
           /\ Nowhere.id = 0
BY DEF Base, UeBase, Mentioned, Nowhere

LEMMA KnownOK ==
    ASSUME Base, IInv, NEW d, NEW i, Known(d, i)
    PROVE  /\ i \in Ids /\ mac[i].du = d /\ mac[i].st \notin {"none", "gone"}
           /\ d \in up /\ d \in Dus /\ d # NoDu /\ Used(mac, i)
BY BaseParts DEF Known, Used

LEMMA DuModificationRequestBase ==
    ASSUME Base, IInv, NEW d \in Dus, DuModificationRequest(d)
    PROVE  Base'
<1>. DEFINE m == Head(to_du[d])
<1>1. /\ Taken(d) /\ ctx' = ctx /\ amf' = amf /\ events' = events /\ mac' = mac /\ m.t = "modif"
  BY DEF DuModificationRequest, TookCmd, cuVars, duVars, Taken
<1>2. Used(mac, m.to_id)
  <2>1. DuMsgOK(m, mac)
    BY <1>1, DuTakesOK, BaseParts DEF Taken
  <2>. QED BY <1>1, <2>1 DEF DuMsgOK
<1>3. CASE ~Known(d, m.id)
  <2>1. to_cu' = to_cu /\ ue' = ue
    BY <1>3 DEF DuModificationRequest
  <2>. QED BY <1>1, <2>1, SameMac, SameUe, DuStepBase
<1>4. CASE Known(d, m.id)
  <2>. DEFINE s == [t |-> "modif_resp", cu |-> m.cu]
  <2>1. /\ Sent(d, s)
        /\ ue' = IF UeIn(d, m.id)
                 THEN [ue EXCEPT !.here = FALSE,
                         !.next = [du |-> m.to, id |-> m.to_id, why |-> "ho"]]
                 ELSE ue
    BY <1>4 DEF DuModificationRequest
  <2>2. Says(d, s)
    BY <2>1 DEF Says, CuMsgOK
  <2>3. IsUe(ue') /\ Mentioned(mac, ue'.id) /\ Mentioned(mac, ue'.next.id)
    <3>. HIDE DEF m
    <3>. QED BY <1>2, <2>1, SameUe DEF IsUe, Mentioned
  <2>. HIDE DEF s
  <2>. QED BY <1>1, <2>2, <2>3, SameMac, DuStepBase
<1>. QED BY <1>3, <1>4

LEMMA DuReleaseCommandEffect ==
    ASSUME Base, IInv, NEW d \in Dus, DuReleaseCommand(d)
    PROVE  /\ Taken(d) /\ MacSteps
           /\ ue' = ue \/ ue' = [ue EXCEPT !.here = FALSE, !.id = 0]
           /\ to_cu' = to_cu \/ \E c : Says(d, [t |-> "rel_compl", cu |-> c])
<1>. DEFINE m == Head(to_du[d])
<1>1. Taken(d)
  BY DEF DuReleaseCommand, TookCmd, duVars, Taken
<1>2. CASE /\ Known(d, m.id)
           /\ mac' = [mac EXCEPT ![m.id].st = "releasing"] /\ to_cu' = to_cu
           /\ ue' = IF UeIn(d, m.id) THEN [ue EXCEPT !.here = FALSE, !.id = 0] ELSE ue
  <2>1. MacSteps
    BY <1>2, KnownOK, StepOfOne
  <2>. QED BY <1>1, <1>2, <2>1
<1>3. CASE /\ mac' = (IF Known(d, m.id) THEN [mac EXCEPT ![m.id].st = "gone"] ELSE mac)
           /\ ue' = ue
           /\ to_cu' = to_cu \/ \E c : Sent(d, [t |-> "rel_compl", cu |-> c])
  <2>1. MacSteps
    BY <1>3, KnownOK, StepOfOne, SameMac
  <2>2. to_cu' = to_cu \/ \E c : Says(d, [t |-> "rel_compl", cu |-> c])
    BY <1>3 DEF Says, CuMsgOK
  <2>. QED BY <1>1, <1>3, <2>1, <2>2
<1>. QED BY <1>2, <1>3 DEF DuReleaseCommand

LEMMA DuReleaseCommandBase ==
    ASSUME Base, IInv, NEW d \in Dus, DuReleaseCommand(d)
    PROVE  Base'
<1>1. ctx' = ctx /\ amf' = amf /\ events' = events
  BY DEF DuReleaseCommand, cuVars
<1>2. /\ Taken(d) /\ MacSteps
      /\ ue' = ue \/ ue' = [ue EXCEPT !.here = FALSE, !.id = 0]
      /\ to_cu' = to_cu \/ \E e, m : Says(e, m)
  BY DuReleaseCommandEffect
<1>3. IsUe(ue') /\ Mentioned(mac, ue'.id) /\ Mentioned(mac, ue'.next.id)
  BY <1>2, SameUe DEF IsUe
<1>. QED BY <1>1, <1>2, <1>3, DuStepBase

(* The requests about bearers, and the refusal of a modification.           *)
Reply(d, t) == [t |-> t, cu |-> Head(to_du[d]).cu]
LEMMA DuAnswersEffect ==
    ASSUME Base, IInv, NEW d \in Dus,
           DuBearersRequest(d) \/ DuMoreBearersRequest(d) \/ DuModificationRefuse(d)
    PROVE  \/ DuBearersRequest(d) /\ Dies(d)
           \/ /\ Taken(d) /\ mac' = mac /\ ue' = ue
              /\ \/ to_cu' = to_cu
                 \/ /\ Says(d, Reply(d, "bearers_resp"))
                    /\ Head(to_du[d]).t = "bearers"
                 \/ /\ Says(d, Reply(d, "more_bearers_resp"))
                    /\ Head(to_du[d]).t = "more_bearers"
                 \/ Says(d, Reply(d, "rel_req"))
<1>. DEFINE m == Head(to_du[d])
<1>1. \A t \in {"bearers_resp", "more_bearers_resp", "rel_req"} :
         Sent(d, Reply(d, t)) => Says(d, Reply(d, t))
  BY DEF Says, CuMsgOK, Reply
<1>2. CASE DuBearersRequest(d)
  <2>1. TookCmd(d, "bearers") /\ ((Taken(d) /\ Sent(d, Reply(d, "bearers_resp")) /\ mac' = mac /\ ue' = ue)
                                  \/ Dies(d))
    BY <1>2 DEF DuBearersRequest, TookCmd, Taken, Reply, duVars
  <2>. QED BY <1>1, <1>2, <2>1 DEF TookCmd
<1>3. CASE DuMoreBearersRequest(d)
  <2>1. /\ TookCmd(d, "more_bearers") /\ Taken(d) /\ mac' = mac /\ ue' = ue
        /\ to_cu' = to_cu \/ Sent(d, Reply(d, "more_bearers_resp"))
    BY <1>3 DEF DuMoreBearersRequest, TookCmd, Taken, Reply, duVars
  <2>. QED BY <1>1, <2>1 DEF TookCmd
<1>4. CASE DuModificationRefuse(d)
  <2>1. /\ Taken(d) /\ mac' = mac /\ ue' = ue
        /\ to_cu' = to_cu \/ Sent(d, Reply(d, "rel_req"))
    BY <1>4 DEF DuModificationRefuse, TookCmd, Taken, Reply, duVars
  <2>. QED BY <1>1, <2>1
<1>. QED BY <1>2, <1>3, <1>4

LEMMA DuAnswersBase ==
    ASSUME Base, IInv, NEW d \in Dus,
           DuBearersRequest(d) \/ DuMoreBearersRequest(d) \/ DuModificationRefuse(d)
    PROVE  Base'
<1>1. ctx' = ctx /\ amf' = amf /\ events' = events
  BY DEF DuBearersRequest, DuMoreBearersRequest, DuModificationRefuse, cuVars
<1>2. CASE Dies(d)
  BY <1>1, <1>2, DiesEffect, SameUe, DuStepBase
<1>3. CASE Taken(d) /\ mac' = mac /\ ue' = ue /\ (to_cu' = to_cu \/ \E m : Says(d, m))
  BY <1>1, <1>3, SameMac, SameUe, DuStepBase
<1>. QED BY <1>2, <1>3, DuAnswersEffect

LEMMA NewIdStep ==
    ASSUME Base, Cardinality(UsedIds(mac)) <= MaxEvents, NEW d \in Dus, NEW c \in 0..MaxEvents + 1,
           mac' = [mac EXCEPT ![NewId] = [du |-> d, cu |-> c, st |-> "active"]]
    PROVE  /\ MacBase(mac') /\ MacKeeps(mac, mac') /\ MadeIn(mac', d, NewId) /\ mac'[NewId].cu = c
           /\ UsedIds(mac') \subseteq UsedIds(mac) \cup {NewId}
           /\ NewId \in Ids /\ ~Used(mac, NewId) /\ NewId # 0 /\ Used(mac', NewId)
<1>1. NewId \in Ids /\ mac[NewId] = NoMac /\ NewId # 0 /\ ~Used(mac, NewId)
  BY NewIdOK DEF Base
<1>2. /\ mac' = [k \in Ids |-> mac'[k]] /\ \A k \in Ids \ {NewId} : mac'[k] = mac[k]
      /\ mac'[NewId] = [du |-> d, cu |-> c, st |-> "active"]
  BY <1>1 DEF Base, MacBase
<1>3. mac'[NewId] \in MacSet /\ mac'[NewId].du = d /\ mac'[NewId].cu = c /\ d # NoDu
  BY <1>2, DusAssumption DEF MacSet, AnyDu
<1>4. mac' \in [Ids -> MacSet]
  BY <1>2, <1>3 DEF Base, MacBase
<1>5. MacBase(mac')
  BY <1>2, <1>3, <1>4 DEF Base, MacBase
<1>6. MacKeeps(mac, mac') /\ UsedIds(mac') \subseteq UsedIds(mac) \cup {NewId}
  BY <1>1, <1>2 DEF MacKeeps, UsedIds, Used
<1>. QED BY <1>1, <1>3, <1>5, <1>6 DEF MadeIn, Used

LEMMA DuSetupRequestRoom ==
    ASSUME Base, IInv, NEW d \in Dus, DuSetupRequest(d)
    PROVE  /\ Taken(d) /\ Cardinality(UsedIds(mac)) <= MaxEvents
           /\ DuMsgOK(Head(to_du[d]), mac) /\ Head(to_du[d]).t = "setup"
           /\ DuQ(to_du', up', mac)
           /\ Few(to_du', "setup", events - Cardinality(UsedIds(mac)))
           /\ Head(to_du[d]).cu \in CuIds /\ Head(to_du[d]).cu \in 0..MaxEvents + 1
<1>. DEFINE n == events + 1 - Cardinality(UsedIds(mac))
<1>1. Taken(d) /\ Head(to_du[d]).t = "setup"
  BY DEF DuSetupRequest, TookCmd, Taken
<1>2. n \in Int /\ Cardinality(UsedIds(mac)) \in Nat /\ n - 1 = events - Cardinality(UsedIds(mac))
  BY BaseParts, IdsFinite DEF UsedIds
<1>3. Few(to_du, "setup", n) /\ DuQ(to_du, up, mac)
  BY DEF Base, RoomAtDus
<1>4. DuQ(to_du', up, mac) /\ DuMsgOK(Head(to_du[d]), mac) /\ Few(to_du', "setup", n - 1)
  <2>. HIDE DEF n
  <2>. QED BY <1>1, <1>2, <1>3, DuTakesOK DEF Taken
<1>5. n - 1 >= 0
  <2>. HIDE DEF n
  <2>. QED BY <1>2, <1>4, FS_CardinalityType DEF Few
<1>6. Cardinality(UsedIds(mac)) <= MaxEvents
  BY <1>2, <1>5, BaseParts, BoundAssumption
<1>7. Head(to_du[d]).cu \in CuIds /\ Head(to_du[d]).cu \in 0..MaxEvents + 1
  BY <1>4, BoundAssumption DEF DuMsgOK, CuIds, Ids
<1>. QED BY <1>1, <1>2, <1>4, <1>6, <1>7 DEF Taken

LEMMA DuSetupRequestBase ==
    ASSUME Base, IInv, NEW d \in Dus, DuSetupRequest(d)
    PROVE  Base'
<1>. DEFINE c == Head(to_du[d]).cu
            m == [t |-> "setup_resp", cu |-> c, id |-> NewId]
            l == events + 1 - Cardinality(LiveIds(ctx))
<1>1. /\ mac' = [mac EXCEPT ![NewId] = [du |-> d, cu |-> c, st |-> "active"]] /\ Sent(d, m)
      /\ ctx' = ctx /\ amf' = amf /\ up' = up /\ ue' = ue /\ events' = events
  BY DEF DuSetupRequest, cuVars
<1>2. /\ Taken(d) /\ Cardinality(UsedIds(mac)) <= MaxEvents
      /\ DuQ(to_du', up', mac) /\ c \in CuIds /\ c \in 0..MaxEvents + 1
      /\ Few(to_du', "setup", events - Cardinality(UsedIds(mac)))
  BY DuSetupRequestRoom
<1>3. /\ MacBase(mac') /\ MacKeeps(mac, mac') /\ MadeIn(mac', d, NewId) /\ mac'[NewId].cu = c
      /\ UsedIds(mac') \subseteq UsedIds(mac) \cup {NewId}
  <2>. HIDE DEF c
  <2>. QED BY <1>1, <1>2, NewIdStep
<1>4. CtxBase(ctx', mac') /\ UeBase(ue', mac') /\ CuQ(to_cu, mac') /\ DuQ(to_du', up', mac')
  <2>1. CtxBase(ctx', mac) /\ UeBase(ue', mac) /\ CuQ(to_cu, mac)
    BY <1>1 DEF Base
  <2>. QED BY <1>2, <1>3, <2>1, BaseStable
<1>5. CuMsgOK(m, d, mac') /\ m.t # "reest_req"
  BY <1>2, <1>3 DEF CuMsgOK
<1>6. l \in Int /\ Few(to_cu, "reest_req", l)
  BY BaseParts, IdsFinite DEF LiveIds, Base, RoomAtCu
<1>7. CuQ(to_cu', mac') /\ Few(to_cu', "reest_req", l)
  <2>. HIDE DEF m, l
  <2>. QED BY <1>1, <1>4, <1>5, <1>6, SentOK
<1>8. RoomAtCu(to_cu', ctx', events')
  BY <1>1, <1>7 DEF RoomAtCu
<1>9. RoomAtDus(to_du', mac', events')
  <2>1. UsedIds(mac) \subseteq Ids /\ UsedIds(mac') \subseteq Ids
    BY DEF UsedIds
  <2>2. /\ Cardinality(UsedIds(mac')) <= Cardinality(UsedIds(mac)) + 1
        /\ Cardinality(UsedIds(mac')) \in Nat /\ Cardinality(UsedIds(mac)) \in Nat
    BY <1>3, <2>1, OneMore
  <2>. DEFINE a == events - Cardinality(UsedIds(mac))
              b == events + 1 - Cardinality(UsedIds(mac'))
  <2>3. a \in Int /\ b \in Int /\ a <= b
    BY <2>2, BaseParts
  <2>4. Few(to_du', "setup", a)
    BY <1>2
  <2>5. Few(to_du', "setup", b)
    <3>. HIDE DEF a, b
    <3>. QED BY <2>3, <2>4, FewLess
  <2>. QED BY <1>1, <2>5 DEF RoomAtDus
<1>10. amf' \subseteq CuIds /\ events' \in 0..MaxEvents
  BY <1>1 DEF Base
<1>. QED BY <1>3, <1>4, <1>7, <1>8, <1>9, <1>10 DEF Base

LEMMA ReestablishRoom ==
    ASSUME Base, IInv, NEW d \in Dus, UeReestablishes(d)
    PROVE  Cardinality(UsedIds(mac)) <= MaxEvents /\ Used(mac, ue.id)
<1>. DEFINE n == events + 1 - Cardinality(UsedIds(mac))
<1>1. n \in Int /\ Cardinality(UsedIds(mac)) \in Nat /\ Few(to_du, "setup", n)
  BY BaseParts, IdsFinite DEF UsedIds, Base, RoomAtDus
<1>2. n >= 0
  <2>. HIDE DEF n
  <2>. QED BY <1>1, FS_CardinalityType DEF Few
<1>3. events + 1 <= MaxEvents
  BY BaseParts, BoundAssumption DEF UeReestablishes, Event
<1>4. Cardinality(UsedIds(mac)) <= MaxEvents
  BY <1>1, <1>2, <1>3, BaseParts, BoundAssumption
<1>5. Used(mac, ue.id)
  BY SameUe DEF UeReestablishes, Mentioned
<1>. QED BY <1>4, <1>5

LEMMA UeReestablishesBase ==
    ASSUME Base, IInv, NEW d \in Dus, UeReestablishes(d)
    PROVE  Base'
<1>. DEFINE m == [t |-> "reest_req", pci |-> ue.du, rnti |-> ue.id, id |-> NewId]
            l == events + 1 - Cardinality(LiveIds(ctx))
<1>1. /\ mac' = [mac EXCEPT ![NewId] = [du |-> d, cu |-> 0, st |-> "active"]] /\ Sent(d, m)
      /\ ue' = [ue EXCEPT !.next = [du |-> d, id |-> NewId, why |-> "reest"]]
      /\ ctx' = ctx /\ amf' = amf /\ up' = up /\ to_du' = to_du /\ Event /\ events' = events + 1
  BY DEF UeReestablishes, cuVars, Event
<1>2. Cardinality(UsedIds(mac)) <= MaxEvents /\ Used(mac, ue.id) /\ 0 \in 0..MaxEvents + 1
  BY ReestablishRoom, BoundAssumption
<1>3. /\ MacBase(mac') /\ MacKeeps(mac, mac') /\ MadeIn(mac', d, NewId)
      /\ UsedIds(mac') \subseteq UsedIds(mac) \cup {NewId} /\ Used(mac', NewId)
  BY <1>1, <1>2, NewIdStep
<1>4. CtxBase(ctx', mac') /\ CuQ(to_cu, mac') /\ DuQ(to_du', up', mac') /\ UeBase(ue, mac')
  <2>1. CtxBase(ctx', mac) /\ CuQ(to_cu, mac) /\ DuQ(to_du', up', mac) /\ UeBase(ue, mac)
    BY <1>1 DEF Base
  <2>. QED BY <1>3, <2>1, BaseStable
<1>5. UeBase(ue', mac')
  BY <1>1, <1>3, <1>4 DEF UeBase, IsUe, Mentioned
<1>6. CuMsgOK(m, d, mac') /\ m.t = "reest_req"
  <2>1. Used(mac', ue.id)
    BY <1>2, <1>3, MacStable
  <2>. QED BY <1>3, <2>1 DEF CuMsgOK
<1>7. l \in Int /\ Few(to_cu, "reest_req", l)
  BY BaseParts, IdsFinite DEF LiveIds, Base, RoomAtCu
<1>8. CuQ(to_cu', mac') /\ Few(to_cu', "reest_req", l + 1)
  <2>. HIDE DEF m, l
  <2>. QED BY <1>1, <1>4, <1>6, <1>7, SentOK
<1>9. RoomAtCu(to_cu', ctx', events')
  <2>1. events' + 1 - Cardinality(LiveIds(ctx)) = l + 1
    BY <1>1, BaseParts, IdsFinite DEF LiveIds
  <2>. HIDE DEF l
  <2>. QED BY <1>1, <1>8, <2>1 DEF RoomAtCu
<1>10. RoomAtDus(to_du', mac', events')
  <2>1. UsedIds(mac) \subseteq Ids /\ UsedIds(mac') \subseteq Ids
    BY DEF UsedIds
  <2>2. /\ Cardinality(UsedIds(mac')) <= Cardinality(UsedIds(mac)) + 1
        /\ Cardinality(UsedIds(mac')) \in Nat /\ Cardinality(UsedIds(mac)) \in Nat
    BY <1>3, <2>1, OneMore
  <2>. DEFINE a == events + 1 - Cardinality(UsedIds(mac))
              b == events' + 1 - Cardinality(UsedIds(mac'))
  <2>3. a \in Int /\ b \in Int /\ a <= b
    BY <1>1, <2>2, BaseParts
  <2>4. Few(to_du', "setup", a)
    BY <1>1 DEF Base, RoomAtDus
  <2>5. Few(to_du', "setup", b)
    <3>. HIDE DEF a, b
    <3>. QED BY <2>3, <2>4, FewLess
  <2>. QED BY <2>5 DEF RoomAtDus
<1>11. amf' \subseteq CuIds /\ events' \in 0..MaxEvents
  BY <1>1, BoundAssumption DEF Base, Event
<1>. QED BY <1>3, <1>4, <1>5, <1>8, <1>9, <1>10, <1>11 DEF Base

Answered(d, m) == [t |-> IF m.what = "reestab" THEN "reest_compl" ELSE "complete",
                   cu |-> m.cu, what |-> m.what]

LEMMA DuDlRrcEffect ==
    ASSUME Base, IInv, NEW d \in Dus, DuDlRrc(d), NEW m, m = Head(to_du[d])
    PROVE  /\ to_du[d] # <<>> /\ m.t = "dl" /\ DuMsgOK(m, mac)
           /\ MacSteps
           /\ \/ Dies(d)
              \/ Taken(d) /\ ue' = ue /\ to_cu' = to_cu
              \/ /\ Taken(d)
                 /\ UeIn(d, m.id) \/ ue.next = [du |-> d, id |-> m.id, why |-> "reest"]
                 /\ ue' = [du |-> d, id |-> m.id, here |-> TRUE, next |-> Nowhere]
                 /\ \/ m.what = "setup" /\ to_cu' = to_cu
                    \/ m.what # "setup" /\ Says(d, Answered(d, m))
<1>1. to_du[d] # <<>> /\ m.t = "dl" /\ DuMsgOK(m, mac)
  <2>1. to_du[d] # <<>> /\ m.t = "dl"
    BY DEF DuDlRrc, TookCmd
  <2>. QED BY <2>1, SeqTail DEF Base, DuQ
<1>2. CASE ~Known(d, m.id)
  <2>1. DuTakes(d) /\ to_cu' = to_cu /\ up' = up /\ mac' = mac /\ ue' = ue
    BY <1>2 DEF DuDlRrc, duVars
  <2>. QED BY <1>1, <2>1, SameMac DEF Taken
<1>3. CASE Known(d, m.id) /\ (m.old = 0 \/ Known(d, m.old))
  <2>1. /\ DuTakes(d) /\ up' = up
        /\ mac' = [i \in Ids |->
                     IF i = m.id /\ mac[i].cu = 0 THEN [mac[i] EXCEPT !.cu = m.cu]
                     ELSE IF i = m.old THEN [mac[i] EXCEPT !.st = "gone"]
                     ELSE mac[i]]
        /\ IF UeIn(d, m.id) \/ ue.next = [du |-> d, id |-> m.id, why |-> "reest"]
           THEN UeAnswers(d, m) ELSE UNCHANGED <<ue, to_cu>>
    BY <1>3 DEF DuDlRrc
  <2>2. ASSUME NEW i \in Ids PROVE MacStep(i)
    <3>1. mac[i] \in MacSet /\ m.cu \in 0..MaxEvents + 1 /\ i # 0
      BY <1>1, IdsFinite, BoundAssumption DEF Base, MacBase, DuMsgOK, CuIds, Ids
    <3>2. i = m.id \/ i = m.old => mac[i].du # NoDu
      BY <1>3, <3>1, KnownOK
    <3>3. mac'[i] = IF i = m.id /\ mac[i].cu = 0 THEN [mac[i] EXCEPT !.cu = m.cu]
                    ELSE IF i = m.old THEN [mac[i] EXCEPT !.st = "gone"] ELSE mac[i]
      BY <2>1
    <3>. QED BY <3>1, <3>2, <3>3 DEF MacStep, MacSet
  <2>3. MacSteps
    BY <2>1, <2>2 DEF MacSteps
  <2>4. CASE UeIn(d, m.id) \/ ue.next = [du |-> d, id |-> m.id, why |-> "reest"]
    <3>1. /\ ue' = [du |-> d, id |-> m.id, here |-> TRUE, next |-> Nowhere]
          /\ IF m.what = "setup" THEN to_cu' = to_cu ELSE Sent(d, Answered(d, m))
      BY <2>1, <2>4 DEF UeAnswers, Answered
    <3>2. CuMsgOK(Answered(d, m), d, mac) /\ Answered(d, m).t # "reest_req"
      BY DEF CuMsgOK, Answered
    <3>. QED BY <1>1, <2>1, <2>3, <2>4, <3>1, <3>2 DEF Taken, Says
  <2>5. CASE ~(UeIn(d, m.id) \/ ue.next = [du |-> d, id |-> m.id, why |-> "reest"])
    BY <1>1, <2>1, <2>3, <2>5 DEF Taken
  <2>. QED BY <2>4, <2>5
<1>4. CASE Known(d, m.id) /\ ~(m.old = 0 \/ Known(d, m.old))
  <2>1. Dies(d)
    BY <1>4 DEF DuDlRrc
  <2>. QED BY <1>1, <2>1, DiesEffect
<1>. QED BY <1>2, <1>3, <1>4

LEMMA DuDlRrcBase ==
    ASSUME Base, IInv, NEW d \in Dus, DuDlRrc(d)
    PROVE  Base'
<1>. DEFINE m == Head(to_du[d])
<1>1. ctx' = ctx /\ amf' = amf /\ events' = events
  BY DEF DuDlRrc, cuVars
<1>2. /\ to_du[d] # <<>> /\ m.t = "dl" /\ DuMsgOK(m, mac)
      /\ MacSteps
      /\ \/ Dies(d)
         \/ Taken(d) /\ ue' = ue /\ to_cu' = to_cu
         \/ /\ Taken(d)
            /\ ue' = [du |-> d, id |-> m.id, here |-> TRUE, next |-> Nowhere]
            /\ to_cu' = to_cu \/ \E e, k : Says(e, k)
  BY DuDlRrcEffect
<1>3. CASE Dies(d)
  BY <1>1, <1>3, DiesEffect, SameUe, DuStepBase
<1>4. CASE Taken(d) /\ ue' = ue /\ to_cu' = to_cu
  BY <1>1, <1>2, <1>4, SameUe, DuStepBase
<1>5. CASE /\ Taken(d) /\ ue' = [du |-> d, id |-> m.id, here |-> TRUE, next |-> Nowhere]
           /\ to_cu' = to_cu \/ \E e, k : Says(e, k)
  <2>1. IsUe(ue') /\ Mentioned(mac, ue'.id) /\ Mentioned(mac, ue'.next.id)
    BY <1>2, <1>5, SameUe DEF DuMsgOK, IsUe
  <2>. QED BY <1>1, <1>2, <1>5, <2>1, DuStepBase
<1>. QED BY <1>2, <1>3, <1>4, <1>5

LEMMA TimersEffect ==
    ASSUME Base, IInv, NEW i \in Ids, UlFailure(i) \/ ReleaseTimerExpires(i)
    PROVE  /\ MacSteps /\ up' = up /\ ue' = ue /\ to_du' = to_du
           /\ \/ to_cu' = to_cu
              \/ \E d, c : Says(d, [t |-> "rel_compl", cu |-> c]) \/ Says(d, [t |-> "rel_req", cu |-> c])
<1>1. mac[i].st \notin {"none", "gone"} /\ up' = up /\ ue' = ue /\ to_du' = to_du
  BY DEF UlFailure, ReleaseTimerExpires
<1>2. mac[i].du \in Dus
  BY <1>1, BaseParts
<1>3. \/ mac' = [mac EXCEPT ![i].st = "gone"]
      \/ mac' = [mac EXCEPT ![i].st = "failed"]
  BY DEF UlFailure, ReleaseTimerExpires
<1>4. \/ to_cu' = to_cu
      \/ Sent(mac[i].du, [t |-> "rel_compl", cu |-> mac[i].cu])
      \/ Sent(mac[i].du, [t |-> "rel_req", cu |-> mac[i].cu])
  BY DEF UlFailure, ReleaseTimerExpires
<1>5. MacSteps
  BY <1>1, <1>3, StepOfOne
<1>6. \/ to_cu' = to_cu
      \/ Says(mac[i].du, [t |-> "rel_compl", cu |-> mac[i].cu])
      \/ Says(mac[i].du, [t |-> "rel_req", cu |-> mac[i].cu])
  BY <1>2, <1>4 DEF Says, CuMsgOK
<1>. QED BY <1>1, <1>5, <1>6

LEMMA TimersBase ==
    ASSUME Base, IInv, NEW i \in Ids, UlFailure(i) \/ ReleaseTimerExpires(i)
    PROVE  Base'
<1>1. ctx' = ctx /\ amf' = amf /\ events' = events
  BY DEF UlFailure, ReleaseTimerExpires, cuVars
<1>2. /\ MacSteps /\ up' = up /\ ue' = ue /\ to_du' = to_du
      /\ to_cu' = to_cu \/ \E d, m : Says(d, m)
  BY TimersEffect
<1>. QED BY <1>1, <1>2, SameUe, DuStepBase

LEMMA DuLostBase ==
    ASSUME Base, IInv, NEW d \in Dus, DuLost(d)
    PROVE  Base'
<1>1. ctx' = ctx /\ amf' = amf /\ Event /\ Dies(d)
  BY DEF DuLost, cuVars
<1>. QED BY <1>1, DiesEffect, SameUe, DuStepBase

UeMessage == [t |-> "complete", cu |-> mac[ue.next.id].cu, what |-> "dedicated"]

LEMMA UeStepsEffect ==
    ASSUME Base, IInv, UeArrives \/ UeLosesRadio \/ UeGivesUp
    PROVE  /\ mac' = mac /\ up' = up /\ to_du' = to_du /\ ctx' = ctx /\ amf' = amf /\ events' = events
           /\ IsUe(ue') /\ Mentioned(mac, ue'.id) /\ Mentioned(mac, ue'.next.id)
           /\ to_cu' = to_cu \/ (UeArrives /\ Says(ue.next.du, UeMessage))
<1>1. /\ mac' = mac /\ up' = up /\ to_du' = to_du /\ ctx' = ctx /\ amf' = amf /\ events' = events
  BY DEF UeArrives, UeLosesRadio, UeGivesUp, duVars, netVars, cuVars
<1>2. CASE UeArrives
  <2>1. /\ Known(ue.next.du, ue.next.id)
        /\ ue' = [du |-> ue.next.du, id |-> ue.next.id, here |-> TRUE, next |-> Nowhere]
        /\ Sent(ue.next.du, UeMessage)
    BY <1>2 DEF UeArrives, UeMessage
  <2>2. ue.next.du \in Dus
    BY <2>1, KnownOK
  <2>3. Says(ue.next.du, UeMessage)
    BY <2>1, <2>2 DEF Says, CuMsgOK, UeMessage
  <2>4. IsUe(ue') /\ Mentioned(mac, ue'.id) /\ Mentioned(mac, ue'.next.id)
    BY <2>1, SameUe DEF IsUe
  <2>. QED BY <1>1, <1>2, <2>3, <2>4
<1>3. CASE UeLosesRadio \/ UeGivesUp
  <2>1. to_cu' = to_cu
    BY <1>3 DEF UeLosesRadio, UeGivesUp, netVars
  <2>2. IsUe(ue') /\ (ue'.id = ue.id \/ ue'.id = 0) /\ (ue'.next = ue.next \/ ue'.next = Nowhere)
    BY <1>3, SameUe DEF UeLosesRadio, UeGivesUp, IsUe
  <2>. QED BY <1>1, <2>1, <2>2, SameUe
<1>. QED BY <1>2, <1>3

LEMMA UeStepsBase ==
    ASSUME Base, IInv, UeArrives \/ UeLosesRadio \/ UeGivesUp
    PROVE  Base'
<1>1. /\ mac' = mac /\ up' = up /\ to_du' = to_du /\ ctx' = ctx /\ amf' = amf /\ events' = events
      /\ IsUe(ue') /\ Mentioned(mac, ue'.id) /\ Mentioned(mac, ue'.next.id)
      /\ to_cu' = to_cu \/ \E d, m : Says(d, m)
  BY UeStepsEffect
<1>. QED BY <1>1, SameMac, DuStepBase

(* The UE is heard again.                                                   *)
RequiredMessage == [t |-> "required", cu |-> mac[ue.id].cu, id |-> ue.id]

LEMMA UeReturnsEffect ==
    ASSUME Base, IInv, UeReturns
    PROVE  /\ up' = up /\ to_du' = to_du /\ ctx' = ctx /\ amf' = amf /\ Event /\ MacSteps
           /\ ue.id \in Ids /\ mac[ue.id].du = ue.du /\ ue.du \in Dus /\ ue.next = Nowhere
           /\ IsUe(ue') /\ ue'.du = ue.du /\ ue'.id = ue.id /\ ue'.next = ue.next
           /\ mac' = mac \/ (mac[ue.id].st = "failed" /\ mac' = [mac EXCEPT ![ue.id].st = "active"])
           /\ to_cu' = to_cu \/ Says(ue.du, RequiredMessage)
<1>1. /\ up' = up /\ to_du' = to_du /\ ctx' = ctx /\ amf' = amf /\ Event
      /\ Known(ue.du, ue.id) /\ mac[ue.id].cu # 0 /\ ue.next = Nowhere
      /\ ue' = [ue EXCEPT !.here = TRUE]
      /\ mac' = [mac EXCEPT ![ue.id].st = IF @ = "failed" THEN "active" ELSE @]
      /\ Sent(ue.du, RequiredMessage) \/ to_cu' = to_cu
  BY DEF UeReturns, cuVars, RequiredMessage
<1>2. ue.id \in Ids /\ mac[ue.id].du = ue.du /\ ue.du \in Dus /\ mac[ue.id].st \notin {"none", "gone"}
  BY <1>1, KnownOK
<1>3. IsUe(ue') /\ ue'.du = ue.du /\ ue'.id = ue.id /\ ue'.next = ue.next
  BY <1>1, SameUe DEF IsUe
<1>4. mac' = mac \/ (mac[ue.id].st = "failed" /\ mac' = [mac EXCEPT ![ue.id].st = "active"])
  <2>1. CASE mac[ue.id].st = "failed"
    BY <1>1, <2>1
  <2>2. CASE mac[ue.id].st # "failed"
    <3>1. mac \in [Ids -> MacSet] /\ mac[ue.id] \in MacSet
      BY <1>2 DEF Base, MacBase
    <3>2. PICK x : x = mac[ue.id]
      OBVIOUS
    <3>3. [x EXCEPT !.st = x.st] = x
      BY <3>1, <3>2 DEF MacSet
    <3>4. mac' = [mac EXCEPT ![ue.id] = [x EXCEPT !.st = x.st]]
      BY <1>1, <2>2, <3>2
    <3>. QED BY <1>2, <3>1, <3>2, <3>3, <3>4
  <2>. QED BY <2>1, <2>2
<1>5. MacSteps
  BY <1>2, <1>4, SameMac, StepOfOne
<1>6. mac[ue.id].cu \in CuIds
  <2>1. mac[ue.id].cu \in 0..MaxEvents + 1
    BY <1>2 DEF Base, MacBase, MacSet
  <2>. QED BY <1>1, <2>1, BoundAssumption DEF CuIds, Ids
<1>7. to_cu' = to_cu \/ Says(ue.du, RequiredMessage)
  BY <1>1, <1>2, <1>6 DEF Says, CuMsgOK, RequiredMessage
<1>. QED BY <1>1, <1>2, <1>3, <1>4, <1>5, <1>7

LEMMA UeReturnsBase ==
    ASSUME Base, IInv, UeReturns
    PROVE  Base'
<1>1. /\ up' = up /\ to_du' = to_du /\ ctx' = ctx /\ amf' = amf /\ Event /\ MacSteps
      /\ IsUe(ue') /\ ue'.id = ue.id /\ ue'.next = ue.next
      /\ to_cu' = to_cu \/ \E d, m : Says(d, m)
  BY UeReturnsEffect
<1>2. Mentioned(mac, ue'.id) /\ Mentioned(mac, ue'.next.id)
  BY <1>1, SameUe
<1>. QED BY <1>1, <1>2, DuStepBase

-----------------------------------------------------------------------------
LEMMA InitBase == Init => Base
<1> SUFFICES ASSUME Init PROVE Base
  OBVIOUS
<1>1. Home \in Dus /\ NoDu \notin Dus /\ Home # NoDu /\ MaxEvents \in Nat
  BY DusAssumption, BoundAssumption
<1>2. 1 \in Ids /\ 1 \in CuIds /\ 1 \in AnyId /\ 0 \in AnyId /\ Home \in AnyDu /\ NoDu \in AnyDu
      /\ 1 \in 0..MaxEvents + 1 /\ 0 \in 0..MaxEvents + 1 /\ 0 \in 0..MaxEvents
  BY <1>1 DEF Ids, CuIds, AnyId, AnyDu
<1>0. PICK f1 \in BOOLEAN :
         ctx = [c \in CuIds |->
                  IF c = 1 THEN [NewCtx(Home, 1) EXCEPT !.sec = TRUE, !.cg = Home, !.f1 = f1]
                  ELSE NoCtx]
  BY DEF Init
<1> DEFINE r == [NewCtx(Home, 1) EXCEPT !.sec = TRUE, !.cg = Home, !.f1 = f1]
           s == [du |-> Home, cu |-> 1, st |-> "active"]
<1>3. /\ \A c \in CuIds : ctx[c] = (IF c = 1 THEN r ELSE NoCtx)
      /\ ctx = [c \in CuIds |-> ctx[c]]
      /\ \A i \in Ids : mac[i] = (IF i = 1 THEN s ELSE NoMac)
      /\ mac = [i \in Ids |-> mac[i]]
      /\ ue = [du |-> Home, id |-> 1, here |-> TRUE, next |-> Nowhere]
      /\ \A d \in Dus : to_du[d] = <<>> /\ to_cu[d] = <<>>
      /\ to_du = [d \in Dus |-> to_du[d]] /\ to_cu = [d \in Dus |-> to_cu[d]]
      /\ amf = {} /\ events = 0
  BY <1>0 DEF Init
<1>4. NewCtx(Home, 1) \in CtxSet /\ NewCtx(Home, 1).id = 1 /\ NewCtx(Home, 1).live
      /\ NewCtx(Home, 1).ho = NoHo
  BY <1>2, NoHoOK DEF NewCtx, NoCtx, CtxSet, Xids
<1>5. r \in CtxSet /\ ~On(r) /\ r.id = 1 /\ r.ho = NoHo /\ r.live
  BY <1>2, <1>4 DEF CtxSet, On
<1>6. s \in MacSet /\ s.du = Home /\ NoMac \in MacSet /\ NoMac.du = NoDu
  BY <1>2 DEF MacSet, NoMac
<1> HIDE DEF r, s
<1>7. Used(mac, 1)
  BY <1>1, <1>2, <1>3, <1>6 DEF Used
<1>8. CtxBase(ctx, mac)
  <2>1. \A c \in CuIds : ctx[c] \in CtxSet
    BY <1>3, <1>5, NoHoOK
  <2>2. ASSUME NEW c \in CuIds
        PROVE  /\ On(ctx[c]) => ctx[c].live
               /\ Mentioned(mac, ctx[c].id) /\ Mentioned(mac, ctx[c].ho.tgt_id)
    <3>1. CASE ctx[c] = r
      BY <1>5, <1>7, <3>1, NoHoOK DEF Mentioned
    <3>2. CASE ctx[c] = NoCtx
      BY <3>2, NoHoOK DEF Mentioned
    <3>3. QED BY <1>3, <3>1, <3>2
  <2>3. QED BY <1>3, <2>1, <2>2 DEF CtxBase
<1>9. MacBase(mac)
  BY <1>1, <1>3, <1>6 DEF MacBase
<1>10. UeBase(ue, mac)
  BY <1>3, <1>7 DEF UeBase, IsUe, Mentioned, Nowhere
<1>11. CuQ(to_cu, mac)
  BY <1>3, SeqEmpty DEF CuQ
<1>12. DuQ(to_du, up, mac)
  BY <1>3, SeqEmpty DEF DuQ
<1>13. /\ UsedIds(mac) = {1}
       /\ LiveIds(ctx) = {1}
  BY <1>1, <1>2, <1>3, <1>5, <1>6, NoHoOK DEF UsedIds, LiveIds
<1>14. Cardinality({1}) = 1 /\ Cardinality({}) = 0 /\ IsFiniteSet({})
  BY FS_Singleton, FS_EmptySet
<1>15. /\ \A t : Places(to_du, t) = {}
       /\ \A t : Places(to_cu, t) = {}
  <2>1. 1..Len(<<>>) = {}
    OBVIOUS
  <2>2. ASSUME NEW Q, \A d \in Dus : Q[d] = <<>>, NEW t, NEW w \in Places(Q, t)
        PROVE  FALSE
    <3>1. w \in Dus \X Nat /\ w[2] \in 1..Len(Q[w[1]])
      BY DEF Places
    <3>2. w[1] \in Dus
      BY <3>1
    <3>3. Q[w[1]] = <<>>
      BY <2>2, <3>2
    <3>4. QED BY <2>1, <3>1, <3>3
  <2>3. \A Q, t : (\A d \in Dus : Q[d] = <<>>) => Places(Q, t) = {}
    BY <2>2, Zenon
  <2>4. (\A d \in Dus : to_du[d] = <<>>) /\ (\A d \in Dus : to_cu[d] = <<>>)
    BY <1>3, Zenon
  <2>5. QED BY <2>3, <2>4
<1>16. RoomAtDus(to_du, mac, events) /\ RoomAtCu(to_cu, ctx, events)
  <2>1. Places(to_du, "setup") = {} /\ Places(to_cu, "reest_req") = {}
    BY <1>15
  <2>2. events + 1 - Cardinality(UsedIds(mac)) = 0 /\ events + 1 - Cardinality(LiveIds(ctx)) = 0
    <3>1. events = 0 /\ Cardinality(UsedIds(mac)) = 1 /\ Cardinality(LiveIds(ctx)) = 1
      BY <1>3, <1>13, <1>14, Zenon
    <3>2. QED BY <3>1
  <2>3. Few(to_du, "setup", 0) /\ Few(to_cu, "reest_req", 0)
    <3>1. 0 <= 0
      OBVIOUS
    <3>2. QED BY <1>14, <2>1, <3>1, Zenon DEF Few
  <2>4. QED BY <2>2, <2>3, Zenon DEF RoomAtDus, RoomAtCu
<1>17. amf \subseteq CuIds /\ events \in 0..MaxEvents
  BY <1>2, <1>3
<1>18. QED BY <1>8, <1>9, <1>10, <1>11, <1>12, <1>16, <1>17 DEF Base

LEMMA NextKeepsBase == Base /\ IInv /\ [Next]_vars => Base'
<1> SUFFICES ASSUME Base, IInv, [Next]_vars PROVE Base'
  OBVIOUS
<1>1. ASSUME NEW d \in Dus, CuReceives(d) PROVE Base'
  BY <1>1, SetupResponseBase, BearersResponseBase, ModificationResponseBase,
     ModificationRequiredBase, ReconfigurationCompleteBase,
     ReestablishmentRequestBase, ReestablishmentCompleteBase, ReleaseRequestBase,
     ReleaseCompleteBase, LostConnectionBase DEF CuReceives
<1>2. ASSUME NEW d \in Dus, DuReceives(d) \/ DuLost(d) \/ UeReestablishes(d) PROVE Base'
  BY <1>2, DuSetupRequestBase, DuModificationRequestBase, DuReleaseCommandBase,
     DuDlRrcBase, DuAnswersBase, DuLostBase, UeReestablishesBase DEF DuReceives
<1>3. ASSUME NEW c \in CuIds,
             \/ \E t \in Dus : TriggerF1Ho(c, t)
             \/ ReleaseCommand(c) \/ AmfReleases(c) \/ SetupSession(c)
             \/ ModifySession(c) \/ Register(c)
      PROVE  Base'
  BY <1>3, TriggerBase, CuActionsBase
<1>4. ASSUME NEW i \in Ids, UlFailure(i) \/ ReleaseTimerExpires(i) PROVE Base'
  BY <1>4, TimersBase
<1>5. CASE UeArrives \/ UeLosesRadio \/ UeGivesUp \/ UeReturns
  BY <1>5, UeStepsBase, UeReturnsBase
<1>6. CASE UNCHANGED vars
  BY <1>6 DEF Base, vars, cuVars, netVars, duVars
<1>7. QED BY <1>1, <1>2, <1>3, <1>4, <1>5, <1>6 DEF Next, Step

LEMMA BaseHolds == Spec => [](Base /\ IInv)
<1>1. Init => Base /\ IInv
  BY InitBase, InitIInv
<1>2. (Base /\ IInv) /\ [Next]_vars => (Base /\ IInv)'
  BY NextKeepsBase, NextKeepsIInv
<1>3. QED BY <1>1, <1>2, PTL DEF Spec

(* What the CU dies of.                                                     *)
ExitOK == exit \in {"no", "no_du", "no_crnti", "no_cg"}
Answer(d) == SetupResponse(d) \/ BearersResponse(d) \/ MoreBearersResponse(d)

LEMMA Exits ==
    ASSUME [Next]_vars
    PROVE  exit' \in {exit, "no_cg"} \/ \E d \in Dus : Answer(d)
<1>1. ASSUME NEW d \in Dus, CuReceives(d) PROVE exit' \in {exit, "no_cg"} \/ Answer(d)
  <2>1. CASE ReestablishmentComplete(d)
    BY <2>1 DEF ReestablishmentComplete
  <2>2. CASE ReestablishmentRequest(d)
    BY <2>2 DEF ReestablishmentRequest, FallBack
  <2>3. CASE \/ ModificationResponse(d) \/ ModificationRequired(d) \/ ReconfigurationComplete(d)
             \/ ReleaseRequest(d) \/ ReleaseComplete(d) \/ LostConnection(d)
    BY <2>3 DEF ModificationResponse, ModificationRequired, ReconfigurationComplete,
       ReleaseRequest, ReleaseComplete, LostConnection, history
  <2>. QED BY <1>1, <2>1, <2>2, <2>3 DEF CuReceives, Answer
<1>2. ASSUME NEW d \in Dus, DuReceives(d) \/ DuLost(d) \/ UeReestablishes(d) PROVE exit' = exit
  BY <1>2 DEF DuReceives, DuSetupRequest, DuModificationRequest, DuReleaseCommand, DuDlRrc,
     DuBearersRequest, DuMoreBearersRequest, DuModificationRefuse, DuLost, UeReestablishes, history
<1>3. ASSUME NEW c \in CuIds,
             \/ \E t \in Dus : TriggerF1Ho(c, t)
             \/ ReleaseCommand(c) \/ AmfReleases(c) \/ SetupSession(c)
             \/ ModifySession(c) \/ Register(c)
      PROVE  exit' = exit
  BY <1>3 DEF TriggerF1Ho, ReleaseCommand, AmfReleases, SetupSession, ModifySession,
     Register, history
<1>4. ASSUME NEW i \in Ids, UlFailure(i) \/ ReleaseTimerExpires(i) PROVE exit' = exit
  BY <1>4 DEF UlFailure, ReleaseTimerExpires, history
<1>5. CASE UeArrives \/ UeLosesRadio \/ UeGivesUp \/ UeReturns
  BY <1>5 DEF UeArrives, UeLosesRadio, UeGivesUp, UeReturns, history
<1>6. CASE UNCHANGED vars
  BY <1>6 DEF vars, history
<1>. QED BY <1>1, <1>2, <1>3, <1>4, <1>5, <1>6 DEF Next, Step

LEMMA NextKeepsExit == ExitOK /\ [Next]_vars => ExitOK'
<1> SUFFICES ASSUME ExitOK, [Next]_vars PROVE ExitOK'
  OBVIOUS
<1>1. exit' \in {exit, "no_cg"} => ExitOK'
  BY DEF ExitOK
<1>2. ASSUME NEW c, NEW r, GenerateReconfiguration(c, r) PROVE ExitOK'
  BY <1>1, <1>2 DEF GenerateReconfiguration, ExitOK
<1>3. ASSUME NEW d \in Dus, Answer(d) PROVE ExitOK'
  <2>1. CASE SetupResponse(d)
    BY <1>1, <1>2, <2>1 DEF SetupResponse, history
  <2>2. CASE BearersResponse(d)
    BY <1>1, <1>2, <2>2 DEF BearersResponse, ExitOK
  <2>3. CASE MoreBearersResponse(d)
    BY <1>1, <1>2, <2>3 DEF MoreBearersResponse
  <2>. QED BY <1>3, <2>1, <2>2, <2>3 DEF Answer
<1>. QED BY <1>1, <1>3, Exits

(* What the CU, the DUs, the AMF and the F1 associations hold keeps its     *)
(* type; in particular neither DU UE IDs nor CU UE IDs run out, because a   *)
(* setup or a reestablishment request under way has one kept for it.        *)
THEOREM TypeCorrect == Spec => []TypeOK
<1>1. Base /\ IInv /\ ExitOK => TypeOK
  <2> SUFFICES ASSUME Base, IInv, ExitOK PROVE TypeOK
    OBVIOUS
  <2>1. dus \subseteq Dus /\ up \subseteq Dus
    BY BaseParts
  <2>2. amf \subseteq CuIds /\ events \in 0..MaxEvents
    BY DEF Base
  <2>3. ctx \in [CuIds -> CtxSet]
    BY DEF Base, CtxBase
  <2>4. mac \in [Ids -> MacSet]
    BY DEF Base, MacBase
  <2>5. QED BY <2>1, <2>2, <2>3, <2>4 DEF TypeOK, CtxSet, MacSet, HoSet, Xids, ExitOK
<1>2. Init => ExitOK
  BY DEF Init, ExitOK
<1>3. Spec => []ExitOK
  BY <1>2, NextKeepsExit, PTL DEF Spec
<1>4. QED BY <1>1, <1>3, BaseHolds, PTL
=============================================================================
