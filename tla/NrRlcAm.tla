------------------------------- MODULE NrRlcAm -------------------------------
(***************************************************************************)
(* An RLC AM bearer (openair2/LAYER2/nr_rlc/nr_rlc_entity_am.c): the        *)
(* transmitting half of one entity, the receiving half of its peer, and    *)
(* MAC between them, which loses and reorders PDUs.                        *)
(*                                                                         *)
(* Every call into an entity holds the RLC lock and sets its clock first   *)
(* (nr_rlc_oai_api.c), so each call is one action, and an expired timer is *)
(* an action of its own.  A timer is a Boolean: running or not.            *)
(*                                                                         *)
(* SDUs are numbered in the order they are first sent, so SDU i has the    *)
(* SN i % SnModulus.  tx_list is the remainder of                          *)
(* the SDU being sent, if any, and then `queued' whole SDUs.  wait_list    *)
(* and retransmit_list are sets of segments: the code keeps both ordered   *)
(* by SN and SO, and only looks at the order for their heads.  rx_list is  *)
(* the set of bytes it covers.                                             *)
(***************************************************************************)
EXTENDS Integers, Sequences, FiniteSets

CONSTANTS
    SduSizes,     \* the sizes of the SDUs, by number, that a behaviour may have
    WindowSize,   \* window_size, half the SN space
    TxMax,        \* tx_maxsize, in SDUs
    Grants,       \* the bytes of data MAC may leave room for
    PollEarly,    \* values of "poll_pdu or poll_byte is reached" to try
    Truncates,    \* TRUE: MAC may offer too little room for all the NACKs
    Prompt,       \* TRUE: MAC serves all of retransmit_list before the timer
                  \* t_poll_retransmit expires
    MaxSdus,      \* bound: SDUs sent
    MaxData,      \* bound: data PDUs under way at a time
    MaxStatus,    \* bound: STATUS PDUs under way at a time
    MaxUnderWay   \* bound: PDUs under way at a time

SnModulus == 2 * WindowSize
Sdu == 0..(MaxSdus - 1)

ASSUME SizeAssumption ==
    /\ SduSizes \subseteq [Sdu -> Nat \ {0}] /\ WindowSize \in Nat \ {0, 1}
    /\ MaxSdus # 0 /\ {TxMax, MaxSdus, MaxData, MaxStatus, MaxUnderWay} \subseteq Nat
ASSUME ChoiceAssumption ==
    /\ Grants \subseteq Nat \ {0} /\ PollEarly \subseteq BOOLEAN /\ {Truncates, Prompt} \subseteq BOOLEAN

VARIABLES
    sdu_size,         \* of each SDU; fixed
    sent,             \* SDUs that were given an SN: tx_next is sent % SnModulus
    tx_next_ack, poll_sn, force_poll,
    t_poll_retransmit,
    queued,           \* whole SDUs in tx_list
    rest,             \* SO of the remainder at the head of tx_list, 0: none
    wait_list, retransmit_list,
    passed,           \* SNs rx_next has gone past: it is passed % SnModulus
    rx_next_highest, rx_highest_status, rx_next_status_trigger,
    rx_list,          \* bytes received, of SDUs from rx_next on
    processed,        \* SDUs of rx_list that were delivered (data is NULL)
    status_triggered, t_reassembly, t_status_prohibit,
    data, status,     \* under way, to the receiver and back
    log,              \* history: the SDUs each delivery was put together from
    undefined,        \* a NULL pointer was followed
    overtaken,        \* history: tx_next_ack passed an SDU not fully sent
    bypassed          \* history: new data was sent, without a poll, past what
                      \* is to be retransmitted, and no poll was sent since

tx == <<sent, tx_next_ack, poll_sn, force_poll, t_poll_retransmit, queued, rest,
        wait_list, retransmit_list>>
rx == <<passed, rx_next_highest, rx_highest_status, rx_next_status_trigger,
        rx_list, processed, status_triggered, t_reassembly, t_status_prohibit, log>>
history == <<overtaken, bypassed>>
vars == <<sdu_size, tx, rx, data, status, undefined, history>>

Sn(i) == i % SnModulus
tx_next == Sn(sent)
rx_next == Sn(passed)
Byte == UNION {[sdu : {i}, so : 0..(sdu_size[i] - 1)] : i \in Sdu}
Segment ==
    UNION {{s \in [sdu : {i}, so : 0..(sdu_size[i] - 1), size : 1..sdu_size[i]] :
                s.so + s.size <= sdu_size[i]} : i \in Sdu}
BytesOf(seg) == {[sdu |-> seg.sdu, so |-> o] : o \in seg.so..(seg.so + seg.size - 1)}

RoomUnderWay == Cardinality(data) + Cardinality(status) < MaxUnderWay

Init ==
    /\ sdu_size \in SduSizes
    /\ sent = 0 /\ tx_next_ack = 0 /\ poll_sn = 0
    /\ force_poll = FALSE /\ t_poll_retransmit = FALSE
    /\ queued = 0 /\ rest = 0
    /\ wait_list = {} /\ retransmit_list = {}
    /\ passed = 0 /\ rx_next_highest = 0
    /\ rx_highest_status = 0 /\ rx_next_status_trigger = 0
    /\ rx_list = {} /\ processed = {}
    /\ status_triggered = FALSE /\ t_reassembly = FALSE /\ t_status_prohibit = FALSE
    /\ data = {} /\ status = {} /\ log = <<>>
    /\ undefined = FALSE /\ overtaken = FALSE /\ bypassed = FALSE
-----------------------------------------------------------------------------
(* modulus_tx, modulus_rx: SNs are compared from the base of each window.  *)
modulus_tx(sn) == (sn - tx_next_ack) % SnModulus

(* The head of a list that is ordered by sn_compare_tx, then by so.        *)
HeadOf(list) ==
    CHOOSE s \in list : \A t \in list :
        \/ modulus_tx(Sn(s.sdu)) < modulus_tx(Sn(t.sdu))
        \/ Sn(s.sdu) = Sn(t.sdu) /\ s.so <= t.so

(* SDUs that are neither acknowledged nor discarded: tx_size counts them.  *)
Held(i) ==
    \/ \E s \in wait_list \cup retransmit_list : s.sdu = i
    \/ rest # 0 /\ i = sent - 1
Confirmed == {i \in 0..(sent - 1) : ~Held(i)}

(* nr_rlc_entity_am_recv_sdu                                               *)
RecvSdu ==
    /\ queued + sent - Cardinality(Confirmed) < TxMax
    /\ sent + queued < MaxSdus
    /\ queued' = queued + 1
    /\ UNCHANGED <<rx, data, status, undefined, history, sent, tx_next_ack, poll_sn, force_poll,
                   t_poll_retransmit, rest, wait_list, retransmit_list>>

(* is_window_stalling, check_poll_after_pdu_assembly                       *)
Stalling(next) == modulus_tx(Sn(next)) >= WindowSize
PollIsDueIfStalling(next, untransmitted, retx) == Stalling(next)
PollIsDue(next, untransmitted, retx) ==
    (~untransmitted /\ retx = {}) \/ Stalling(next)

(* serialize_sdu with include_poll, and the PDU goes to MAC.               *)
Send(seg, p, next) ==
    /\ Cardinality(data) < MaxData /\ RoomUnderWay
    /\ data' = data \cup {[seg |-> seg, p |-> p]}
    /\ force_poll' = FALSE
    /\ poll_sn' = IF p THEN Sn(next - 1) ELSE poll_sn
    /\ t_poll_retransmit' = (p \/ t_poll_retransmit)

Smaller(m, n) == IF m < n THEN m ELSE n

(* resegment: the first n bytes of a segment, and what is left of it.      *)
First(seg, n) == [seg EXCEPT !.size = n]
Remainder(seg, n) ==
    IF n = seg.size THEN {}
    ELSE {[sdu |-> seg.sdu, so |-> seg.so + n, size |-> seg.size - n]}

(* generate_retx_pdu                                                       *)
GenerateRetxPdu(room) ==
    LET seg == HeadOf(retransmit_list)
        n == Smaller(room, seg.size)
        retx == (retransmit_list \ {seg}) \cup Remainder(seg, n)
        p == force_poll \/ PollIsDue(sent, queued > 0 \/ rest # 0, retx)
    IN  /\ retransmit_list # {}
        /\ retransmit_list' = retx
        /\ wait_list' = wait_list \cup {First(seg, n)}
        /\ Send(First(seg, n), p, sent)
        /\ bypassed' = (bypassed /\ ~p)
        /\ UNCHANGED <<rx, status, undefined, overtaken, sent, tx_next_ack, queued, rest>>

(* What is left in tx_list of SDU i when its first n bytes were sent.      *)
RestAfterKept(i, n) == n
RestAfter(i, n) == IF n = sdu_size[i] THEN 0 ELSE n

(* generate_tx_pdu.  nr_rlc_entity_am_generate_pdu comes here when there   *)
(* is nothing to retransmit, or no room for its header, which is longer    *)
(* when the segment has an SO.                                             *)
GenerateTxPdu(room, early) ==
    LET next == IF rest = 0 THEN sent + 1 ELSE sent
        n == Smaller(room, sdu_size[next - 1] - rest)
        end == rest + n
        seg == [sdu |-> next - 1, so |-> rest, size |-> n]
        left == RestAfter(next - 1, end)
        after == IF rest = 0 THEN queued - 1 ELSE queued
        p == \/ early \/ force_poll
             \/ PollIsDue(next, after > 0 \/ left # 0, retransmit_list)
    IN  /\ ~Stalling(sent)
        /\ queued > 0 \/ rest # 0
        /\ retransmit_list # {} => rest = 0 /\ HeadOf(retransmit_list).so # 0
        /\ sent' = next /\ queued' = after /\ rest' = left
        /\ wait_list' = wait_list \cup {seg}
        /\ Send(seg, p, next)
        /\ bypassed' = ((bypassed \/ retransmit_list # {}) /\ ~p)
        /\ UNCHANGED <<rx, status, undefined, overtaken, tx_next_ack, retransmit_list>>

(* check_t_poll_retransmit, expired.                                       *)
TPollRetransmitExpires ==
    LET due == PollIsDue(sent, queued > 0 \/ rest # 0, retransmit_list)
        again == IF due /\ wait_list # {}
                 THEN {s \in wait_list : Sn(s.sdu) = Sn(HeadOf(wait_list).sdu)} ELSE {}
    IN  /\ Prompt => retransmit_list = {}
        /\ t_poll_retransmit /\ t_poll_retransmit' = FALSE
        /\ force_poll' = TRUE
        /\ wait_list' = wait_list \ again
        /\ retransmit_list' = retransmit_list \cup again
        /\ undefined' = (due /\ wait_list = {})
        /\ UNCHANGED <<rx, data, status, history, sent, tx_next_ack, poll_sn, queued, rest>>

(* process_control_pdu: a STATUS PDU is taken as a whole or not at all.    *)
Valid(st) ==
    /\ modulus_tx(Sn(st.ack)) <= modulus_tx(tx_next)
    /\ \A b \in st.nacks : modulus_tx(Sn(b.sdu)) <= modulus_tx(Sn(st.ack))

Nacked(seg, st) == \E b \in BytesOf(seg), c \in st.nacks : Sn(b.sdu) = Sn(c.sdu) /\ b.so = c.so
AckedBySn(seg, st) == modulus_tx(Sn(seg.sdu)) < modulus_tx(Sn(st.ack))
Acked(seg, st) == ~Nacked(seg, st) /\ AckedBySn(seg, st)
StaysUnlessAcked(seg, st) == ~Acked(seg, st)
StaysInWaitList(seg, st) == ~Nacked(seg, st) /\ ~Acked(seg, st)

(* The STATUS PDU is about the last poll: t_poll_retransmit stops.         *)
AnswersLate(st) == modulus_tx(Sn(poll_sn + 1)) < modulus_tx(Sn(st.ack))
Answers(st) ==
    \/ modulus_tx(poll_sn) < modulus_tx(Sn(st.ack))
    \/ \E b \in st.nacks : Sn(b.sdu) = poll_sn

(* tx_next_ack starts from tx_next and goes down to the heads of the two   *)
(* lists and to the ACK.                                                   *)
NextAck(wait, retx, ack) ==
    LET heads == {tx_next, ack} \cup {Sn(s.sdu) : s \in wait \cup retx}
    IN  CHOOSE n \in heads : \A m \in heads : modulus_tx(n) <= modulus_tx(m)

(* MAC does not keep a PDU for as long as it takes to send a window of     *)
(* SDUs after it.  An SDU that the sender has not freed may just have been *)
(* sent again.                                                             *)
InTime(i) == sent <= i + WindowSize \/ Held(i)

RecvStatus(st) ==
    LET again == {s \in wait_list : Nacked(s, st)}
        wait == {s \in wait_list : StaysInWaitList(s, st)}
        retx == {s \in retransmit_list : ~Acked(s, st)} \cup again
    IN  /\ st \in status /\ status' = status \ {st}
        /\ InTime(st.ack) /\ \A b \in st.nacks : InTime(b.sdu)
        /\ IF ~Valid(st)
           THEN UNCHANGED <<tx, overtaken>>
           ELSE /\ wait_list' = wait /\ retransmit_list' = retx
                /\ tx_next_ack' = NextAck(wait, retx, Sn(st.ack))
                /\ t_poll_retransmit' = (t_poll_retransmit /\ ~Answers(st))
                /\ overtaken' = (overtaken \/ (rest # 0 /\ tx_next_ack' = tx_next))
                /\ UNCHANGED <<sent, poll_sn, force_poll, queued, rest>>
        /\ UNCHANGED <<rx, data, undefined, bypassed>>
-----------------------------------------------------------------------------
modulus_rx(base, sn) == (sn - base) % SnModulus

(* The bytes of SN sn that were received, by offset; sdu_full.             *)
Offsets(bytes, sn) == {b.so : b \in {c \in bytes : Sn(c.sdu) = sn}}
Full(bytes, sn) ==
    \E b \in bytes : /\ Sn(b.sdu) = sn /\ b.so = sdu_size[b.sdu] - 1
                     /\ 0..b.so \subseteq Offsets(bytes, sn)

(* sdu_has_missing_bytes: before the last one that was received.           *)
HasMissingBytes(bytes, sn) ==
    \E o \in Offsets(bytes, sn) : ~(0..o \subseteq Offsets(bytes, sn))

(* The first SN from sn on whose SDU was not delivered (sdu_delivered).    *)
FirstUndelivered(done, sn) ==
    LET free == {n \in 0..(SnModulus - 1) : ~\E i \in done : Sn(i) = n}
    IN  CHOOSE n \in free : \A m \in free : modulus_rx(sn, n) <= modulus_rx(sn, m)

(* Whether t_reassembly is to be started, for SNs from base on.            *)
GapFrom(bytes, next, highest, base) ==
    \/ modulus_rx(next, highest) > modulus_rx(next, Sn(base + 1))
    \/ highest = Sn(base + 1) /\ HasMissingBytes(bytes, base)

(* reception_actions starts t_reassembly.                                  *)
StartsAboveNext(bytes, next, highest) ==
    modulus_rx(next, highest) > modulus_rx(next, Sn(next + 1))
Starts(bytes, next, highest) == GapFrom(bytes, next, highest, next)

(* rx_highest_status after the SDU with SN sn, or no SDU, was completed.   *)
HighestStatus(full, sn, done) ==
    IF full /\ sn = rx_highest_status THEN FirstUndelivered(done, sn) ELSE rx_highest_status

(* reception_actions                                                       *)
Receive(seg) ==
    LET sn == Sn(seg.sdu)
        bytes == rx_list \cup BytesOf(seg)
        highest == IF modulus_rx(rx_next, sn) >= modulus_rx(rx_next, rx_next_highest)
                   THEN Sn(sn + 1) ELSE rx_next_highest
        full == Full(bytes, sn) /\ \A i \in processed : Sn(i) # sn
        done == IF full THEN processed \cup {seg.sdu} ELSE processed
        next == IF full /\ sn = rx_next THEN FirstUndelivered(done, sn) ELSE rx_next
        Freed(i) == modulus_rx(rx_next, Sn(i)) < modulus_rx(rx_next, next)
        trigger == rx_next_status_trigger
        left == {b \in bytes : ~Freed(b.sdu)}
        stop == \/ trigger = next
                \/ trigger = Sn(next + 1) /\ ~HasMissingBytes(left, next)
                \/ modulus_rx(next, trigger) >= WindowSize /\ trigger # Sn(next + WindowSize)
        running == t_reassembly /\ ~stop
        start == ~running /\ Starts(left, next, highest)
    IN  /\ rx_list' = left
        /\ processed' = {i \in done : ~Freed(i)}
        /\ log' = IF full THEN Append(log, {b.sdu : b \in {c \in bytes : Sn(c.sdu) = sn}}) ELSE log
        /\ passed' = passed + modulus_rx(rx_next, next) /\ rx_next_highest' = highest
        /\ rx_highest_status' = HighestStatus(full, sn, done)
        /\ t_reassembly' = (running \/ start)
        /\ rx_next_status_trigger' = IF start THEN highest ELSE trigger

(* sn_in_recv_window                                                       *)
InRecvWindowLoose(sn) == modulus_rx(rx_next, sn) <= WindowSize
InRecvWindow(sn) == modulus_rx(rx_next, sn) < WindowSize

TriggersIfNew(pdu, useless) == pdu.p /\ ~useless
TriggersStatus(pdu, useless) == pdu.p

(* nr_rlc_entity_am_recv_pdu: a PDU out of the window or without a new     *)
(* byte is discarded; its poll counts all the same.                        *)
RecvPdu(pdu) ==
    LET seg == pdu.seg
        useless == \/ ~InRecvWindow(Sn(seg.sdu))
                   \/ {b.so : b \in BytesOf(seg)} \subseteq Offsets(rx_list, Sn(seg.sdu))
    IN  /\ pdu \in data /\ data' = data \ {pdu}
        /\ InTime(seg.sdu)
        /\ IF useless
           THEN UNCHANGED <<passed, rx_next_highest, rx_highest_status,
                            rx_next_status_trigger, rx_list, processed, t_reassembly, log>>
           ELSE Receive(seg)
        /\ status_triggered' = (status_triggered \/ TriggersStatus(pdu, useless))
        /\ UNCHANGED <<tx, status, undefined, history, t_status_prohibit>>

(* The same, when there is no room for the PDU (rx_maxsize), which may be    *)
(* whenever one arrives: sizes are not modelled.                           *)
DiscardPdu(pdu) ==
    /\ pdu \in data /\ data' = data \ {pdu}
    /\ status_triggered' = (status_triggered \/ pdu.p)
    /\ UNCHANGED <<tx, status, undefined, history, passed, rx_next_highest,
                   rx_highest_status, rx_next_status_trigger, rx_list, processed,
                   t_reassembly, t_status_prohibit, log>>

(* check_t_reassembly, expired.                                            *)
TReassemblyExpires ==
    LET highest == FirstUndelivered(processed, rx_next_status_trigger)
        start == GapFrom(rx_list, rx_next, rx_next_highest, highest)
    IN  /\ t_reassembly /\ t_reassembly' = start
        /\ rx_highest_status' = highest
        /\ status_triggered' = TRUE
        /\ rx_next_status_trigger' = IF start THEN rx_next_highest ELSE rx_next_status_trigger
        /\ UNCHANGED <<tx, data, status, undefined, history, passed, rx_next_highest,
                       rx_list, processed, t_status_prohibit, log>>

TStatusProhibitExpires ==
    /\ t_status_prohibit /\ t_status_prohibit' = FALSE
    /\ UNCHANGED <<tx, data, status, undefined, history, passed, rx_next_highest,
                   rx_highest_status, rx_next_status_trigger, rx_list, processed,
                   status_triggered, t_reassembly, log>>

(* next_missing: the bytes that are missing from rx_next on and before     *)
(* rx_highest_status.                                                      *)
Missing ==
    IF rx_list = {} THEN {}
    ELSE {b \in Byte : /\ b.sdu >= passed
                       /\ b.sdu < passed + modulus_rx(rx_next, rx_highest_status)
                       /\ b.so \notin Offsets(rx_list, Sn(b.sdu))}

Before(b, c) == b.sdu < c.sdu \/ (b.sdu = c.sdu /\ b.so < c.so)
NextByte(b) ==
    IF b.so + 1 < sdu_size[b.sdu] THEN [b EXCEPT !.so = b.so + 1]
    ELSE [sdu |-> b.sdu + 1, so |-> 0]

(* The last byte of a NACK that MAC may leave room for (NoByte: no NACK).  *)
NoByte == [sdu |-> -1, so |-> 0]
Cuts ==
    LET missing == Missing
        ends == {b \in missing : NextByte(b) \notin missing}
        last == {b \in ends \cup {NoByte} : \A e \in ends : ~Before(b, e)}
    IN  IF Truncates THEN ends \cup {NoByte} ELSE last

(* The NACKs up to byte c.  When some are left out, the last one is        *)
(* extended to the end of its SDU.                                         *)
NacksNotExtended(c) == {b \in Missing : ~Before(c, b)}
NacksUpTo(c) ==
    LET missing == Missing
        kept == {b \in missing : ~Before(c, b)}
    IN  IF kept = {} \/ kept = missing THEN kept
        ELSE kept \cup {b \in Byte : b.sdu = c.sdu /\ b.so >= c.so}

(* generate_status, with room for the NACKs up to byte c.                  *)
GenerateStatus(c) ==
    LET nacks == NacksUpTo(c)
        ack == IF nacks = {} THEN passed ELSE c.sdu + 1
    IN  /\ status_triggered /\ ~t_status_prohibit
        /\ Cardinality(status) < MaxStatus /\ RoomUnderWay
        /\ status' = status \cup {[ack |-> ack, nacks |-> nacks]}
        /\ status_triggered' = FALSE
        /\ t_status_prohibit' = TRUE
        /\ UNCHANGED <<tx, data, undefined, history, passed, rx_next_highest,
                       rx_highest_status, rx_next_status_trigger, rx_list, processed,
                       t_reassembly, log>>
-----------------------------------------------------------------------------
(* MAC: a transport block that could not be decoded.                       *)
Lose ==
    /\ \/ \E pdu \in data : data' = data \ {pdu} /\ UNCHANGED status
       \/ \E st \in status : status' = status \ {st} /\ UNCHANGED data
    /\ UNCHANGED <<tx, rx, undefined, history>>

Sender ==
    \/ RecvSdu
    \/ \E room \in Grants :
          GenerateRetxPdu(room) \/ \E early \in PollEarly : GenerateTxPdu(room, early)
    \/ TPollRetransmitExpires
    \/ \E st \in status : RecvStatus(st)

Receiver ==
    \/ \E pdu \in data : RecvPdu(pdu) \/ DiscardPdu(pdu)
    \/ TReassemblyExpires \/ TStatusProhibitExpires
    \/ \E c \in Cuts : GenerateStatus(c)

(* nr_rlc_entity_am_reestablishment at both ends (clear_entity); the reset *)
(* of MAC that comes with it leaves nothing under way.                     *)
Reestablishment ==
    /\ sent' = 0 /\ tx_next_ack' = 0 /\ poll_sn' = 0
    /\ force_poll' = FALSE /\ t_poll_retransmit' = FALSE
    /\ queued' = 0 /\ rest' = 0
    /\ wait_list' = {} /\ retransmit_list' = {}
    /\ passed' = 0 /\ rx_next_highest' = 0
    /\ rx_highest_status' = 0 /\ rx_next_status_trigger' = 0
    /\ rx_list' = {} /\ processed' = {}
    /\ status_triggered' = FALSE /\ t_reassembly' = FALSE /\ t_status_prohibit' = FALSE
    /\ data' = {} /\ status' = {} /\ log' = <<>>
    /\ overtaken' = FALSE /\ bypassed' = FALSE /\ UNCHANGED undefined

Running(step) == ~undefined /\ step /\ UNCHANGED sdu_size

Next ==
    /\ ~undefined
    /\ Sender \/ Receiver \/ Lose \/ Reestablishment
    /\ UNCHANGED sdu_size

Spec == Init /\ [][Next]_vars

AllOffsets == UNION {0..(f[i] - 1) : f \in SduSizes, i \in Sdu}

(* MAC keeps giving grants (generate_pdu), the clock keeps going, and no   *)
(* byte, poll or STATUS PDU that is sent again and again is lost each time.*)
FairSpec ==
    /\ Spec
    /\ WF_vars(Running(\E room \in Grants :
           GenerateRetxPdu(room) \/ \E early \in PollEarly : GenerateTxPdu(room, early)))
    /\ WF_vars(Running(TPollRetransmitExpires))
    /\ WF_vars(Running(TReassemblyExpires))
    /\ WF_vars(Running(TStatusProhibitExpires))
    /\ WF_vars(Running(\E c \in Cuts : GenerateStatus(c)))
    /\ WF_vars(Running(Lose))
    /\ SF_vars(Running(\E st \in status : RecvStatus(st)))
    /\ SF_vars(Running(\E pdu \in data : pdu.p /\ RecvPdu(pdu)))
    /\ \A i \in Sdu, o \in AllOffsets :
          SF_vars(Running(\E pdu \in data :
              [sdu |-> i, so |-> o] \in BytesOf(pdu.seg) /\ RecvPdu(pdu)))
-----------------------------------------------------------------------------
(* Type invariant.                                                         *)
TypeOK ==
    /\ sdu_size \in SduSizes
    /\ sent \in 0..MaxSdus /\ queued \in 0..TxMax /\ rest \in Nat /\ (rest # 0 => rest < sdu_size[sent - 1])
    /\ passed \in Nat
    /\ {tx_next_ack, poll_sn, rx_next_highest, rx_highest_status,
        rx_next_status_trigger} \subseteq 0..(SnModulus - 1)
    /\ {force_poll, t_poll_retransmit, status_triggered, t_reassembly,
        t_status_prohibit, undefined, overtaken, bypassed} \subseteq BOOLEAN
    /\ wait_list \subseteq Segment /\ retransmit_list \subseteq Segment
    /\ rx_list \subseteq Byte
    /\ processed \subseteq Sdu /\ log \in Seq(SUBSET Sdu)
    /\ data \subseteq [seg : Segment, p : BOOLEAN]
    /\ status \subseteq [ack : Nat, nacks : SUBSET Byte]

(* Refinement: through losses, reordering, segmentation, retransmission    *)
(* and re-establishment, the bearer does what RlcAmDelivery promises: each *)
(* SDU is delivered at most once, never put together from two SDUs whose   *)
(* SNs are equal (reassemble_and_deliver), and sdu_successful_delivery     *)
(* comes after its delivery and is never taken back.  Once tx_next_ack has *)
(* passed an SDU, the comparison of SNs goes astray.                       *)
Service == INSTANCE RlcAmDelivery WITH confirmed <- Confirmed, astray <- overtaken
DeliversOnce == Service!ASpec

(* What a STATUS PDU does not NACK below its ACK_SN was received, whatever *)
(* generate_status left out for lack of room and however late it arrives.  *)
Delivered == UNION {log[k] : k \in DOMAIN log}
StatusIsTrue ==
    ~overtaken => \A st \in status : \A b \in Byte :
        b.sdu < st.ack => b \in rx_list \cup st.nacks \/ b.sdu \in Delivered

(* process_control_pdu frees, and reports with sdu_successful_delivery,    *)
(* only SDUs that the peer has delivered: what the sender forgets is never *)
(* still needed, though STATUS PDUs arrive late, twice or cut short.       *)
ConfirmedIsDelivered == ~overtaken => Confirmed \subseteq Delivered

(* wait_list and retransmit_list share no byte, though segments are split, *)
(* NACKed and moved between them in any order: no byte is sent twice for   *)
(* one NACK, and no reference to an SDU is released twice.                 *)
ListsDisjoint ==
    \A s, t \in wait_list \cup retransmit_list :
        BytesOf(s) \cap BytesOf(t) # {} => s = t /\ ~(s \in wait_list /\ s \in retransmit_list)

(* A gap that no STATUS PDU may report yet is timed: reception_actions and *)
(* check_t_reassembly never leave one with t_reassembly stopped.           *)
GapIsTimed ==
    GapFrom(rx_list, rx_next, rx_next_highest, rx_highest_status) => t_reassembly

(* When all that can be sent was sent and something waits for its ACK, the *)
(* sender has a poll out or will send one: it does not wait for a STATUS   *)
(* PDU nobody will trigger (check_poll_after_pdu_assembly).  Data that was *)
(* sent past retransmit_list is the exception: what was to be retransmitted*)
(* may be acknowledged after all, and nothing is left to carry the poll.   *)
PollIsOut ==
    (/\ ~undefined /\ ~overtaken /\ ~bypassed /\ wait_list # {} /\ retransmit_list = {}
     /\ (queued = 0 /\ rest = 0) \/ Stalling(sent))
    => t_poll_retransmit \/ force_poll

(* check_t_poll_retransmit takes the head of wait_list without a test.     *)
(* The list is empty there only when the window stalls while all that is   *)
(* known to be missing still waits in retransmit_list for a grant.         *)
NullOnlyIfStalled == undefined => Stalling(sent) /\ retransmit_list # {}

(* Liveness: every SDU of which a byte was sent is delivered, unless the   *)
(* bearer is re-established, or one of the four states is met in which     *)
(* the sender stops: a NULL wait_list, an SDU left behind by tx_next_ack,  *)
(* a poll that check_t_poll_retransmit asks for when a late ACK has left   *)
(* nothing to carry it, and data without a poll (see PollIsOut).           *)
Silent == force_poll /\ retransmit_list = {} /\ queued = 0 /\ rest = 0
SentIsDelivered ==
    \A i \in Sdu :
        i < sent ~> i \in Delivered \/ sent <= i \/ overtaken \/ undefined \/ Silent \/ bypassed

(* process_control_pdu quotes 38.322: TX_Next_Ack is the SN of the oldest  *)
(* SDU that was not acknowledged yet, so it never passes an SDU of which a *)
(* part was not even sent.  The code looks at wait_list and at             *)
(* retransmit_list, and not at the remainder in tx_list.                   *)
NotOvertaken == ~overtaken
=============================================================================
