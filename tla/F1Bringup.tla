------------------------------ MODULE F1Bringup ------------------------------
(***************************************************************************)
(* How DUs come up on the F1-C interface of Q-RAN: SCTP association, DTLS   *)
(* handshake, F1 Setup, loss and retry.                                    *)
(*                                                                         *)
(*   openair3/SCTP/sctp_eNB_task.c    TASK_SCTP of either side             *)
(*   pqc/dtls/dtls.c                  the handshake on the SCTP socket     *)
(*   openair2/F1AP/f1ap_du_task.c     TASK_DU_F1                           *)
(*   openair2/F1AP/f1ap_cu_task.c     TASK_CU_F1                           *)
(*   openair2/RRC/NR/rrc_gNB_du.c     TASK_RRC_GNB, the registry of DUs     *)
(*                                                                         *)
(* Each task is a thread with an ITTI queue (FIFO).  TASK_SCTP takes at     *)
(* most one ITTI message, then one message of every socket that has one.   *)
(* A handshake is a loop INSIDE the handler of one ITTI message: while it   *)
(* lasts, that TASK_SCTP does nothing else, for any peer.                  *)
(* SCTP is reliable and ordered; an association ends with a "lost" that    *)
(* stands for SHUTDOWN_EVENT, or for ENOTCONN and its likes on a read.      *)
(* Association ids are numbered in the order the kernel gives them.        *)
(***************************************************************************)
EXTENDS Naturals, Sequences, SequencesExt

CONSTANTS
    Dus,         \* gNB-DU processes; a DU is also its gNB-DU ID
    MaxAssoc,    \* bound: associations set up in a behaviour
    Faults,      \* subset of FaultKinds that may happen
    MaxFaults,   \* bound: faults in a behaviour
    Settled,     \* TRUE: processes only die while no DU is coming up
    Timely       \* TRUE: a CU that is not blocked gets its work done within
                 \* the second for which a DU sleeps before its handshake

FaultKinds == {"cu", "du", "power", "bind", "accept", "tls"}

ASSUME F1Assumption ==
    /\ MaxAssoc \in Nat /\ MaxFaults \in Nat
    /\ Faults \subseteq FaultKinds
    /\ Settled \in BOOLEAN /\ Timely \in BOOLEAN

Assoc == 1..MaxAssoc
None == 0

VARIABLES
    du,        \* per DU: its two tasks, their queues, its connection
    cu,        \* the CU's TASK_SCTP and TASK_CU_F1
    rrc,       \* the CU's TASK_RRC_GNB: queue and registry of DUs
    owner,     \* owner[a]: the DU that opened association a
    toCu, toDu,\* per association: what waits in the CU's, in the DU's socket
    faults     \* faults so far

vars == <<du, cu, rrc, owner, toCu, toDu, faults>>

(* What travels.  On the wire: the two DTLS flights of the client, the one *)
(* of the server, the alert of an end that refuses the handshake, F1AP     *)
(* PDUs, and the notifications SCTP puts in a socket.                       *)
F1aps == {"setupReq", "setupResp", "setupFail"}
Wire == [t : {"commUp", "lost", "hello", "flight", "finished", "alert"} \cup F1aps,
         enc : BOOLEAN]
Msg == [t : {"init", "assocReq", "handshake", "ind", "established", "lost",
             "data", "send"}, a : Assoc \cup {None},
        p : {"none", "junk", "hello", "flight", "finished"} \cup F1aps]
M(t, a) == [t |-> t, a |-> a, p |-> "none"]
Plain(t) == [t |-> t, enc |-> FALSE]

-----------------------------------------------------------------------------
(* State of a process just started: the DU got F1AP_DU_REGISTER_REQ, the CU *)
(* sent SCTP_INIT_MSG.                                                     *)
DuStarted == [f1 |-> "idle", assoc |-> None, f1q |-> <<>>,
              q |-> <<M("assocReq", None)>>, task |-> "loop",
              cnx |-> None, hs |-> FALSE, acked |-> None]
DuOff == [DuStarted EXCEPT !.task = "off", !.q = <<>>]
CuStarted == [task |-> "loop", at |-> None, listening |-> FALSE,
              backlog |-> <<>>, cnx |-> {}, hs |-> {},
              events |-> {}, polled |-> TRUE,
              q |-> <<M("init", None)>>, f1q |-> <<>>]
CuOff == [CuStarted EXCEPT !.task = "off", !.q = <<>>]

Init ==
    /\ du = [d \in Dus |-> DuStarted]
    /\ cu = CuStarted
    /\ rrc = [q |-> <<>>, dus |-> {}]
    /\ owner = <<>>
    /\ toCu = [a \in Assoc |-> <<>>]
    /\ toDu = [a \in Assoc |-> <<>>]
    /\ faults = 0

-----------------------------------------------------------------------------
(* The wire.  What is sent to an end that is gone is dropped.              *)
CuEnd(a) == a \in cu.cnx \/ a \in Range(cu.backlog)
DuEnd(a) == du[owner[a]].cnx = a

ToCu(a, m) == IF CuEnd(a) THEN [toCu EXCEPT ![a] = Append(@, m)] ELSE toCu
ToDu(a, m) == IF DuEnd(a) THEN [toDu EXCEPT ![a] = Append(@, m)] ELSE toDu

(* An end that takes part: it is there and has not refused the handshake.  *)
CuUp(a) == CuEnd(a) /\ ~(cu.task = "refused" /\ cu.at = a)
DuUp(a) == DuEnd(a) /\ du[owner[a]].task # "refused"

(* What reaches the F1 task from a socket: decrypted once handshake_done,  *)
(* as it is before that.  An alert has no data in it.                      *)
Received(m, hs) == IF hs = m.enc /\ m.t # "alert" THEN m.t ELSE "junk"

(* Whether a task of the CU has something it can do at once.               *)
CuReady ==
    \/ cu.f1q # <<>> \/ rrc.q # <<>>
    \/ cu.task = "loop" /\ (cu.q # <<>> \/ cu.backlog # <<>>)
    \/ cu.task = "loop" /\ \E a \in cu.cnx : toCu[a] # <<>>
    \/ cu.task \in {"hello", "finished"} /\ toCu[cu.at] # <<>>

-----------------------------------------------------------------------------
(* The DU's TASK_SCTP: ITTI messages.                                      *)

DuTake(d, t) == du[d].task = "loop" /\ du[d].q # <<>> /\ Head(du[d].q).t = t

(* sctp_handle_new_association_req: sctp_connectx blocks.                  *)
DuNewAssociationReq(d) ==
    /\ DuTake(d, "assocReq")
    /\ IF cu.listening
       THEN LET a == Len(owner) + 1 IN
            /\ a \in Assoc
            /\ owner' = Append(owner, d)
            /\ du' = [du EXCEPT ![d].q = Tail(@), ![d].cnx = a, ![d].hs = FALSE]
            /\ cu' = [cu EXCEPT !.backlog = Append(@, a)]
            /\ toCu' = [toCu EXCEPT ![a] = <<Plain("commUp")>>]
            /\ toDu' = [toDu EXCEPT ![a] = <<Plain("commUp")>>]
       ELSE /\ du' = [du EXCEPT ![d].q = Tail(@),
                                ![d].f1q = Append(@, M("lost", None))]
            /\ UNCHANGED <<owner, cu, toCu, toDu>>
    /\ UNCHANGED <<rrc, faults>>

(* Its early returns: no socket, or no SSL object.  Nobody is told.        *)
DuNewAssociationReqFails(d) ==
    /\ "bind" \in Faults /\ faults < MaxFaults
    /\ DuTake(d, "assocReq")
    /\ du' = [du EXCEPT ![d].q = Tail(@)]
    /\ faults' = faults + 1
    /\ UNCHANGED <<cu, rrc, owner, toCu, toDu>>

(* Mutant: the handler tries the handshake once instead of until it is done. *)
DuSslDoHandshakeOnce(d) ==
    /\ DuTake(d, "handshake")
    /\ du' = [du EXCEPT ![d].q = Tail(@)]
    /\ toCu' = ToCu(Head(du[d].q).a, Plain("hello"))
    /\ UNCHANGED <<cu, rrc, owner, toDu, faults>>

(* SCTP_SSL_DO_HANDSHAKE, client side.  sctp_get_cnx is not tested: without *)
(* a connection the handler follows a null pointer.                        *)
DuSslDoHandshake(d) ==
    /\ DuTake(d, "handshake")
    /\ LET a == Head(du[d].q).a IN
       IF a # None /\ du[d].cnx = a
       THEN /\ du' = [du EXCEPT ![d].q = Tail(@), ![d].task = "flight"]
            /\ toCu' = ToCu(a, Plain("hello"))
       ELSE /\ du' = [du EXCEPT ![d].q = Tail(@), ![d].task = "undefined"]
            /\ UNCHANGED toCu
    /\ UNCHANGED <<cu, rrc, owner, toDu, faults>>

(* The client's loop: a read that blocks.  A connection that goes away is   *)
(* SSL_ERROR_SYSCALL or _ZERO_RETURN, an alert of the server SSL_ERROR_SSL:  *)
(* SSL_free, SSLSTATUS_FAIL, and the loop goes on with the freed object.    *)
DuHandshakeReads(d) ==
    /\ du[d].task = "flight" /\ toDu[du[d].cnx] # <<>>
    /\ LET a == du[d].cnx
           m == Head(toDu[a])
       IN /\ toDu' = [toDu EXCEPT ![a] = Tail(@)]
          /\ \/ /\ m.t = "flight"
                /\ toCu' = ToCu(a, Plain("finished"))
                /\ du' = [du EXCEPT ![d].hs = TRUE, ![d].task = "loop"]
             \/ /\ m.t \in {"lost", "alert"}
                /\ du' = [du EXCEPT ![d].task = "undefined"]
                /\ UNCHANGED toCu
    /\ UNCHANGED <<cu, rrc, owner, faults>>

(* The client refuses what it reads.  The library does, most often for the *)
(* server's certificate: SSL_ERROR_SSL, and an alert if it gets that far.   *)
(* Or the handshake is complete and the code refuses it: verify_result is   *)
(* not X509_V_OK (nothing is freed), or there is no memory for the BIOs.    *)
(* Whichever it is, the loop calls again, on the freed object if it was     *)
(* freed, and the task gets no further: SSLSTATUS_OK never comes.           *)
DuHandshakeFails(d) ==
    /\ "tls" \in Faults /\ faults < MaxFaults
    /\ du[d].task = "flight" /\ toDu[du[d].cnx] # <<>>
    /\ LET a == du[d].cnx IN
       /\ Head(toDu[a]).t = "flight"
       /\ toDu' = [toDu EXCEPT ![a] = Tail(@)]
       /\ toCu' \in {toCu, ToCu(a, Plain("alert")), ToCu(a, Plain("finished"))}
    /\ du' = [du EXCEPT ![d].task = "refused"]
    /\ faults' = faults + 1
    /\ UNCHANGED <<cu, rrc, owner>>

(* sctp_send_data.                                                         *)
DuSendData(d) ==
    /\ DuTake(d, "send")
    /\ LET m == Head(du[d].q) IN
       toCu' = IF du[d].cnx = m.a
               THEN ToCu(m.a, [t |-> m.p, enc |-> du[d].hs]) ELSE toCu
    /\ du' = [du EXCEPT ![d].q = Tail(@)]
    /\ UNCHANGED <<cu, rrc, owner, toDu, faults>>

(* sctp_eNB_read_from_socket.                                              *)
DuReadFromSocket(d) ==
    /\ du[d].task = "loop" /\ du[d].cnx # None /\ toDu[du[d].cnx] # <<>>
    /\ LET a == du[d].cnx
           m == Head(toDu[a])
           Tell(x) == [du EXCEPT ![d].f1q = Append(@, x)]
       IN /\ toDu' = [toDu EXCEPT ![a] = Tail(@)]
          /\ du' = CASE m.t = "commUp" -> Tell(M("established", a))
                     [] m.t = "lost" ->
                          [Tell(M("lost", a)) EXCEPT ![d].cnx = None, ![d].hs = FALSE]
                     [] OTHER -> Tell([t |-> "data", a |-> a,
                                       p |-> Received(m, du[d].hs)])
    /\ UNCHANGED <<cu, rrc, owner, toCu, faults>>

-----------------------------------------------------------------------------
(* The DU's TASK_DU_F1.  Its handler of SCTP_NEW_ASSOCIATION_RESP sleeps    *)
(* before each request it sends: three steps of one handler.               *)

Sctp(d, m, pc) == [du EXCEPT ![d].q = Append(@, m), ![d].f1 = pc]

(* Mutants: no retry; the association id is not saved.                     *)
DuF1ReceivesNoRetry(d) ==
    /\ du[d].task # "off" /\ du[d].f1 = "idle" /\ du[d].f1q # <<>>
    /\ LET m == Head(du[d].f1q) IN
       du' = [du EXCEPT ![d].f1q = Tail(@),
                        ![d].assoc = IF m.t = "established" THEN m.a ELSE @,
                        ![d].f1 = IF m.t = "established" THEN "sleep1" ELSE "idle",
                        ![d].acked = IF m.t = "data" THEN m.a ELSE @]
    /\ UNCHANGED <<cu, rrc, owner, toCu, toDu, faults>>
DuF1ReceivesUnsaved(d) ==
    /\ du[d].task # "off" /\ du[d].f1 = "idle" /\ du[d].f1q # <<>>
    /\ du' = [du EXCEPT ![d].f1q = Tail(@),
                        ![d].f1 = IF Head(du[d].f1q).t = "established" THEN "sleep1" ELSE "idle"]
    /\ UNCHANGED <<cu, rrc, owner, toCu, toDu, faults>>

DuF1Receives(d) ==
    /\ du[d].task # "off" /\ du[d].f1 = "idle" /\ du[d].f1q # <<>>
    /\ Head(du[d].f1q).t # "data" \/ Head(du[d].f1q).p # "setupFail"
    /\ LET m == Head(du[d].f1q)
           Rest == [du EXCEPT ![d].f1q = Tail(@)]
       IN du' = CASE m.t = "established" ->
                       [Rest EXCEPT ![d].assoc = m.a, ![d].f1 = "sleep1"]
                  [] m.t = "lost" -> [Rest EXCEPT ![d].f1 = "sleep3"]
                  [] m.t = "data" /\ m.p = "setupResp" ->
                       [Rest EXCEPT ![d].acked = m.a]
                  [] OTHER -> Rest
    /\ UNCHANGED <<cu, rrc, owner, toCu, toDu, faults>>

DuF1AsksHandshake(d) ==
    /\ du[d].f1 = "sleep1" /\ du[d].task # "off"
    /\ Timely => ~CuReady
    /\ du' = Sctp(d, M("handshake", du[d].assoc), "sleep2")
    /\ UNCHANGED <<cu, rrc, owner, toCu, toDu, faults>>

DuF1SendsSetupRequest(d) ==
    /\ du[d].f1 = "sleep2" /\ du[d].task # "off"
    /\ du' = Sctp(d, [t |-> "send", a |-> du[d].assoc, p |-> "setupReq"], "idle")
    /\ UNCHANGED <<cu, rrc, owner, toCu, toDu, faults>>

DuF1Retries(d) ==
    /\ du[d].f1 = "sleep3" /\ du[d].task # "off"
    /\ du' = Sctp(d, M("assocReq", None), "idle")
    /\ UNCHANGED <<cu, rrc, owner, toCu, toDu, faults>>

-----------------------------------------------------------------------------
(* The CU's TASK_SCTP, sctp_eNB_process_itti_msg: one ITTI message if there *)
(* is one, then itti_get_events, then one message of each socket it named.  *)
(* The listening socket is named None.                                     *)

Readable == {a \in cu.cnx : toCu[a] # <<>>}
                \cup {a \in {None} : cu.backlog # <<>>}

CuTake(t) == /\ cu.task = "loop" /\ cu.events = {}
             /\ cu.polled \/ Readable = {}
             /\ cu.q # <<>> /\ Head(cu.q).t = t
Took == [cu EXCEPT !.q = Tail(@), !.polled = FALSE]

(* itti_get_events.                                                        *)
CuPoll ==
    /\ cu.task = "loop" /\ cu.events = {} /\ Readable # {}
    /\ cu' = [cu EXCEPT !.events = Readable, !.polled = TRUE]
    /\ UNCHANGED <<du, rrc, owner, toCu, toDu, faults>>

(* sctp_create_new_listener.                                               *)
CuCreateNewListener ==
    /\ CuTake("init")
    /\ cu' = [Took EXCEPT !.listening = TRUE]
    /\ UNCHANGED <<du, rrc, owner, toCu, toDu, faults>>

(* sctp_eNB_accept_associations.                                           *)
CuAccept ==
    /\ cu.task = "loop" /\ None \in cu.events
    /\ LET a == Head(cu.backlog) IN
       cu' = [cu EXCEPT !.events = @ \ {None},
                        !.backlog = Tail(@), !.cnx = @ \cup {a},
                        !.f1q = Append(@, M("ind", a))]
    /\ UNCHANGED <<du, rrc, owner, toCu, toDu, faults>>

(* Its early returns close the socket it accepted.                         *)
CuAcceptFails ==
    /\ "accept" \in Faults /\ faults < MaxFaults
    /\ cu.task = "loop" /\ None \in cu.events
    /\ LET a == Head(cu.backlog) IN
       /\ cu' = [cu EXCEPT !.events = @ \ {None}, !.backlog = Tail(@)]
       /\ toCu' = [toCu EXCEPT ![a] = <<>>]
       /\ toDu' = ToDu(a, Plain("lost"))
    /\ faults' = faults + 1
    /\ UNCHANGED <<du, rrc, owner>>

(* Mutant: the DTLS state outlives the connection.                         *)
CuReadFromSocketKeepsSsl ==
    \E a \in cu.events \ {None} :
      /\ cu.task = "loop"
      /\ LET m == Head(toCu[a])
             Tell(x) == [cu EXCEPT !.events = @ \ {a}, !.f1q = Append(@, x)]
         IN cu' = CASE m.t = "commUp" -> Tell(M("established", a))
                    [] m.t = "lost" -> [Tell(M("lost", a)) EXCEPT !.cnx = @ \ {a}]
                    [] OTHER -> Tell([t |-> "data", a |-> a,
                                      p |-> Received(m, a \in cu.hs)])
      /\ toCu' = [toCu EXCEPT ![a] = Tail(@)]
      /\ UNCHANGED <<du, rrc, owner, toDu, faults>>

(* sctp_eNB_read_from_socket.                                              *)
CuReadFromSocket ==
    \E a \in cu.events \ {None} :
      /\ cu.task = "loop"
      /\ LET m == Head(toCu[a])
             Tell(x) == [cu EXCEPT !.events = @ \ {a}, !.f1q = Append(@, x)]
         IN cu' = CASE m.t = "commUp" -> Tell(M("established", a))
                    [] m.t = "lost" ->
                         [Tell(M("lost", a)) EXCEPT !.cnx = @ \ {a}, !.hs = @ \ {a}]
                    [] OTHER -> Tell([t |-> "data", a |-> a,
                                      p |-> Received(m, a \in cu.hs)])
      /\ toCu' = [toCu EXCEPT ![a] = Tail(@)]
      /\ UNCHANGED <<du, rrc, owner, toDu, faults>>

(* SCTP_SSL_DO_HANDSHAKE, server side.                                     *)
CuSslDoHandshake ==
    /\ CuTake("handshake")
    /\ LET a == Head(cu.q).a IN
       cu' = [Took EXCEPT !.at = a,
                          !.task = IF a \in cu.cnx THEN "hello" ELSE "undefined"]
    /\ UNCHANGED <<du, rrc, owner, toCu, toDu, faults>>

(* Mutant: the handler leaves its loop at SSLSTATUS_WANT_IO.                *)
CuHandshakeReadsOnce ==
    /\ cu.task \in {"hello", "finished"} /\ toCu[cu.at] # <<>>
    /\ Head(toCu[cu.at]).t = "hello"
    /\ toCu' = [toCu EXCEPT ![cu.at] = Tail(@)]
    /\ cu' = [cu EXCEPT !.task = "loop"]
    /\ toDu' = ToDu(cu.at, Plain("flight"))
    /\ UNCHANGED <<du, rrc, owner, faults>>

(* The server's loop on a non-blocking socket: SSLSTATUS_WANT_IO until a    *)
(* message is there.                                                       *)
CuHandshakeReads ==
    /\ cu.task \in {"hello", "finished"} /\ toCu[cu.at] # <<>>
    /\ LET a == cu.at
           m == Head(toCu[a])
       IN /\ toCu' = [toCu EXCEPT ![a] = Tail(@)]
          /\ \/ /\ m.t = "hello" /\ cu.task = "hello"
                /\ cu' = [cu EXCEPT !.task = "finished"]
                /\ toDu' = ToDu(a, Plain("flight"))
             \/ /\ m.t = "finished" /\ cu.task = "finished"
                /\ cu' = [cu EXCEPT !.task = "loop", !.at = None, !.hs = @ \cup {a}]
                /\ UNCHANGED toDu
             \/ /\ m.t \in {"lost", "alert"}
                /\ cu' = [cu EXCEPT !.task = "undefined"]
                /\ UNCHANGED toDu
    /\ UNCHANGED <<du, rrc, owner, faults>>

(* The server refuses what it reads, as the client may: TASK_SCTP stays in  *)
(* this handshake, and serves no other DU any more.                        *)
CuHandshakeFails ==
    /\ "tls" \in Faults /\ faults < MaxFaults
    /\ cu.task \in {"hello", "finished"} /\ toCu[cu.at] # <<>>
    /\ Head(toCu[cu.at]).t = cu.task
    /\ toCu' = [toCu EXCEPT ![cu.at] = Tail(@)]
    /\ toDu' \in {toDu, ToDu(cu.at, Plain("alert"))}
    /\ cu' = [cu EXCEPT !.task = "refused"]
    /\ faults' = faults + 1
    /\ UNCHANGED <<du, rrc, owner>>

(* sctp_send_data.                                                         *)
CuSendData ==
    /\ CuTake("send")
    /\ LET m == Head(cu.q) IN
       toDu' = IF m.a \in cu.cnx
               THEN ToDu(m.a, [t |-> m.p, enc |-> m.a \in cu.hs]) ELSE toDu
    /\ cu' = Took
    /\ UNCHANGED <<du, rrc, owner, toCu, faults>>

-----------------------------------------------------------------------------
(* The CU's TASK_CU_F1: from SCTP to RRC and back.  What does not decode as *)
(* an F1AP PDU is dropped.                                                 *)
CuF1Receives ==
    /\ cu.f1q # <<>>
    /\ LET m == Head(cu.f1q)
           Rest == [cu EXCEPT !.f1q = Tail(@)]
           Sends(x) == cu' = [Rest EXCEPT !.q = Append(@, x)] /\ UNCHANGED rrc
           Tells(x) == cu' = Rest /\ rrc' = [rrc EXCEPT !.q = Append(@, x)]
       IN CASE m.t = "established" -> Sends(M("handshake", m.a))
            [] m.t = "send" -> Sends(m)
            [] m.t = "lost" -> Tells(m)
            [] m.t = "data" /\ m.p = "setupReq" -> Tells(m)
            [] OTHER -> cu' = Rest /\ UNCHANGED rrc
    /\ UNCHANGED <<du, owner, toCu, toDu, faults>>

(* The CU's TASK_RRC_GNB: rrc_gNB_process_f1_setup_req refuses a gNB-DU ID  *)
(* that is already registered, and rrc_CU_process_f1_lost_connection.      *)
RrcSetupReq(m) ==
    LET known == \E e \in rrc.dus : e.du = owner[m.a]
        answer == IF known THEN "setupFail" ELSE "setupResp"
    IN /\ rrc' = [q |-> Tail(rrc.q),
                  dus |-> IF known THEN rrc.dus
                          ELSE rrc.dus \cup {[assoc |-> m.a, du |-> owner[m.a]]}]
       /\ cu' = [cu EXCEPT !.f1q = Append(@, [t |-> "send", a |-> m.a, p |-> answer])]

(* Mutant: a lost connection leaves the DU registered.                *)
RrcLostConnectionKeepsDu(m) ==
    /\ rrc' = [rrc EXCEPT !.q = Tail(@)]
    /\ UNCHANGED cu

RrcLostConnection(m) ==
    /\ rrc' = [q |-> Tail(rrc.q), dus |-> {e \in rrc.dus : e.assoc # m.a}]
    /\ UNCHANGED cu

RrcReceives ==
    /\ rrc.q # <<>>
    /\ \/ Head(rrc.q).t = "data" /\ RrcSetupReq(Head(rrc.q))
       \/ Head(rrc.q).t = "lost" /\ RrcLostConnection(Head(rrc.q))
    /\ UNCHANGED <<du, owner, toCu, toDu, faults>>

-----------------------------------------------------------------------------
(* Processes that die and are started again.                               *)

ComingUp(d) == du[d].cnx # du[d].acked \/ du[d].q # <<>> \/ du[d].f1q # <<>>
May(kind) == /\ kind \in Faults /\ faults < MaxFaults /\ faults' = faults + 1
             /\ Settled => ~CuReady /\ \A d \in Dus : ~ComingUp(d)

DuGone(d, noticed) ==
    /\ du' = [du EXCEPT ![d] = DuOff]
    /\ LET a == du[d].cnx IN
       IF a = None THEN UNCHANGED <<toCu, toDu>>
       ELSE /\ toCu' = IF noticed THEN ToCu(a, Plain("lost")) ELSE toCu
            /\ toDu' = [toDu EXCEPT ![a] = <<>>]
    /\ UNCHANGED <<cu, rrc, owner>>

(* The process ends: its kernel ends the association at once.              *)
DuDies(d) == du[d].task # "off" /\ May("du") /\ DuGone(d, TRUE)

(* Its host is cut off: SCTP of the CU finds out by its heartbeats, later,  *)
(* perhaps after the DU has come back on another association.              *)
DuLosesPower(d) == du[d].task # "off" /\ May("power") /\ DuGone(d, FALSE)

CuNoticesLoss ==
    /\ "power" \in Faults /\ cu.task # "undefined"
    /\ \E a \in cu.cnx \cup Range(cu.backlog) :
          /\ ~DuEnd(a) /\ Plain("lost") \notin Range(toCu[a])
          /\ toCu' = [toCu EXCEPT ![a] = Append(@, Plain("lost"))]
    /\ UNCHANGED <<du, cu, rrc, owner, toDu, faults>>

(* f1_setup_failure calls exit.                                            *)
DuSetupFailure(d) ==
    /\ du[d].task # "off" /\ du[d].f1 = "idle" /\ du[d].f1q # <<>>
    /\ Head(du[d].f1q).t = "data" /\ Head(du[d].f1q).p = "setupFail"
    /\ DuGone(d, TRUE)
    /\ UNCHANGED faults

DuStarts(d) ==
    /\ du[d].task = "off"
    /\ du' = [du EXCEPT ![d] = DuStarted]
    /\ UNCHANGED <<cu, rrc, owner, toCu, toDu, faults>>

CuDies ==
    /\ cu.task # "off" /\ May("cu")
    /\ cu' = CuOff
    /\ rrc' = [q |-> <<>>, dus |-> {}]
    /\ toCu' = [a \in Assoc |-> <<>>]
    /\ toDu' = [a \in Assoc |-> IF a <= Len(owner) /\ CuEnd(a) /\ DuEnd(a)
                                THEN Append(toDu[a], Plain("lost")) ELSE toDu[a]]
    /\ UNCHANGED <<du, owner>>

CuStarts ==
    /\ cu.task = "off"
    /\ cu' = CuStarted
    /\ UNCHANGED <<du, rrc, owner, toCu, toDu, faults>>

-----------------------------------------------------------------------------
DuSctp(d) == \/ DuNewAssociationReq(d) \/ DuSslDoHandshake(d)
             \/ DuHandshakeReads(d) \/ DuSendData(d) \/ DuReadFromSocket(d)
DuF1(d) == \/ DuF1Receives(d) \/ DuF1AsksHandshake(d)
           \/ DuF1SendsSetupRequest(d) \/ DuF1Retries(d) \/ DuSetupFailure(d)
CuSctp == \/ CuCreateNewListener \/ CuPoll \/ CuAccept \/ CuReadFromSocket
          \/ CuSslDoHandshake \/ CuHandshakeReads \/ CuSendData

Next ==
    \/ \E d \in Dus : \/ DuSctp(d) \/ DuF1(d) \/ DuStarts(d)
                      \/ DuDies(d) \/ DuLosesPower(d)
                      \/ DuNewAssociationReqFails(d) \/ DuHandshakeFails(d)
    \/ CuSctp \/ CuAcceptFails \/ CuHandshakeFails \/ CuF1Receives \/ RrcReceives
    \/ CuDies \/ CuStarts \/ CuNoticesLoss

Spec == Init /\ [][Next]_vars

(* Every task is a thread of a real-time class that runs when it can, and a *)
(* process that died is started again.                                     *)
FairSpec ==
    /\ Spec
    /\ \A d \in Dus : WF_vars(DuSctp(d)) /\ WF_vars(DuF1(d)) /\ WF_vars(DuStarts(d))
    /\ WF_vars(CuSctp) /\ WF_vars(CuF1Receives) /\ WF_vars(RrcReceives)
    /\ WF_vars(CuStarts)

-----------------------------------------------------------------------------
(* Properties.                                                             *)

(* Type invariant: the queues, sockets and tasks hold what they may hold.  *)
TypeOK ==
    /\ du \in [Dus -> [f1 : {"idle", "sleep1", "sleep2", "sleep3"},
                       assoc : Assoc \cup {None}, f1q : Seq(Msg), q : Seq(Msg),
                       task : {"loop", "flight", "refused", "undefined", "off"},
                       cnx : Assoc \cup {None}, hs : BOOLEAN,
                       acked : Assoc \cup {None}]]
    /\ cu \in [task : {"loop", "hello", "finished", "refused", "undefined", "off"},
               at : Assoc \cup {None}, listening : BOOLEAN,
               backlog : Seq(Assoc), cnx : SUBSET Assoc, hs : SUBSET cu.cnx,
               events : SUBSET (Assoc \cup {None}), polled : BOOLEAN,
               q : Seq(Msg), f1q : Seq(Msg)]
    /\ rrc \in [q : Seq(Msg), dus : SUBSET [assoc : Assoc, du : Dus]]
    /\ owner \in Seq(Dus) /\ Len(owner) <= MaxAssoc
    /\ toCu \in [Assoc -> Seq(Wire)] /\ toDu \in [Assoc -> Seq(Wire)]
    /\ faults \in 0..MaxFaults

(* No F1AP PDU is ever on the wire in clear, whichever side sends it and    *)
(* however associations were lost before.  sctp_send_data sends in clear    *)
(* while handshake_done is 0; what protects F1AP is that the handshake      *)
(* request is ahead of F1 Setup in TASK_SCTP's queue and is not left undone. *)
F1apProtected ==
    \A a \in Assoc : \A m \in Range(toCu[a]) \cup Range(toDu[a]) :
        m.t \in F1aps => m.enc

(* What TASK_CU_F1 gets from SCTP is F1AP, the first being F1 Setup Request *)
(* (cu_task_handle_sctp_association_ind says so), never a flight of the     *)
(* handshake that TASK_SCTP read as data.                                  *)
FirstDataIsSetupRequest ==
    \A m \in Range(cu.f1q) : m.t = "data" => m.p = "setupReq"

(* The registry of DUs follows the associations: a DU that is registered on *)
(* an association that is gone is about to be removed, so that the next F1  *)
(* Setup of this DU is not refused for ever as a duplicate ID.             *)
NoGhostDu ==
    \A e \in rrc.dus :
        e.assoc \notin cu.cnx => M("lost", e.assoc) \in Range(cu.f1q) \cup Range(rrc.q)

(* Whatever dies, whenever, and whoever refuses a handshake: TASK_SCTP uses *)
(* a freed SSL object, or a connection that is not there, only in a         *)
(* handshake that has failed.  Either it has refused the handshake itself   *)
(* ("refused"), or the other end is gone or has refused it ("undefined").   *)
UndefinedOnlyIfPeerFails ==
    /\ cu.task = "undefined" => ~DuUp(cu.at)
    /\ \A d \in Dus : du[d].task = "undefined" =>
            du[d].cnx = None \/ ~CuUp(du[d].cnx)

(* Liveness: a DU gets, and after the restart of either side gets again, an *)
(* association that both sides hold and on which it is registered.         *)
Connected(d) ==
    /\ du[d].cnx # None /\ du[d].acked = du[d].cnx
    /\ [assoc |-> du[d].cnx, du |-> d] \in rrc.dus
F1ComesUp == \A d \in Dus : []<>Connected(d)
=============================================================================
