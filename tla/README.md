# TLA+ models of Q-RAN

Q-RAN is a 5G RAN, derived from OpenAirInterface, split into a CU
(`aria_l3_app`) and a DU (`aria_l2_app`). Its own addition is the F1-C transport:
SCTP associations on which a DTLS handshake with post-quantum algorithms is made
before F1AP is spoken. This directory holds TLA+ models of the parts whose
correctness depends on ordering, concurrency, timers or failures, the TLC
instances that check them, and TLAPS proofs of their main invariants.

## 1. Inventory

| Part | Source | State it keeps | Operations | What makes it correct |
|---|---|---|---|---|
| PDCP entity | `openair2/LAYER2/nr_pdcp/nr_pdcp_entity.c` | `tx_next`, `rx_next`, `rx_deliv`, `rx_reord`, `rx_list`, t-Reordering, keys, suspended flag | process an SDU, receive a PDU, tick, set security, suspend, re-establish (AM, UM, SRB), release, delete | in-order delivery without repetition; the COUNT is inferred exactly; no stored SDU waits for ever; none survives a reset of COUNT |
| RLC/PDCP queues | `nr_pdcp_oai_api.c` 88-390 | two rings of 10000 slots, a mutex and one condition variable each | enqueue, take, handle outside the mutex, give back | FIFO, no slot overwritten in use, no lost wake-up |
| L2 threads and locks | `nr_pdcp_oai_api.c`, `nr_pdcp_ue_manager.c`, `nr_pdcp_timer_thread.c`, `nr_rlc_oai_api.c`, `nr_sdap_entity.c` | the RLC lock, the PDCP lock (recursive), queue lengths | MAC indications, PDCP worker, RLC worker, timer thread, data requests | no circular wait; the MAC thread returns |
| F1-C bring-up | `sctp_eNB_task.c`, `pqc/dtls/dtls.c`, `f1ap_du_task.c`, `f1ap_cu_task.c`, `rrc_gNB_du.c` | associations, DTLS state, queues of four tasks, registry of DUs | associate, accept, handshake, F1 Setup, loss, retry, restart | F1AP never in clear; handshakes complete; F1 comes up and comes up again; the registry follows the associations |
| ITTI | `common/utils/ocp_itti/intertask_interface.cpp` | per task: queue, eventfd semaphore, timers, watched sockets | send, receive, get events, timers, subscribe | a task never sleeps on a message or through a timer |
| RLC AM | `openair2/LAYER2/nr_rlc/nr_rlc_entity_am.c` | send and receive windows, `tx_list`, `wait_list`, `retransmit_list`, `rx_list`, three timers | take an SDU, generate a data or STATUS PDU, receive one, expire, re-establish | at-most-once delivery in spite of loss and reordering; what the sender forgets was delivered; no wait without a timer |
| RRC UE contexts and F1 handover | `rrc_gNB.c`, `rrc_gNB_UE_context.c`, `rrc_gNB_mobility.c`, `f1ap_ids.c`; at the DU `mac_rrc_dl_handler.c`, `gNB_scheduler_primitives.c` | contexts, F1 ids, transactions, handover contexts; MAC contexts | hand over, cancel, re-establish, fall back to setup, modify, release, lose a DU | the CU addresses a UE as its DU knows it; handovers and releases end; no context names a lost DU |
| DU registry and cells | `rrc_gNB_du.c` | tree of DUs, their cells, MIB and SIB1 | setup, configuration update, loss | IDs, cells and PCIs unique (of these only the ID is modelled); the loss reaches every UE |
| PDCP UE manager | `nr_pdcp_ue_manager.c`, `nr_pdcp_oai_api.c` | UEs and their bearers | add, reconfigure, release, remove | no UE comes back from late data |
| RLC UM and TM | `openair2/LAYER2/nr_rlc/` | reassembly window, queues | recv/generate PDU, timer | not modelled (section 8) |
| SDAP, GTP-U, E1AP, NGAP, thread pool | `openair2/SDAP`, `openair3/ocp-gtpu`, `openair2/E1AP`, `openair3/NGAP`, `common/utils/threadPool` | tunnels, sessions, AMF and CU-UP links, job queues | see PROJECT.json | not modelled (section 8) |
| MAC, PHY, radio, LTE stack, NAS, codecs, tools | see PROJECT.json | | | not modelled (section 8) |

How they interact. Every task of a CU or DU is a thread with an ITTI queue;
TASK_SCTP owns all sockets and speaks with TASK_CU_F1 or TASK_DU_F1, which speak
with TASK_RRC_GNB. Below RRC there are no tasks: MAC calls RLC under the RLC
lock, RLC hands SDUs to PDCP through a queue and a worker, PDCP calls SDAP or RRC
under the PDCP lock, and hands PDUs to RLC through a second queue and worker.
Timers are ITTI messages above, and a thread that ticks every entity below.

What is hard to test: two bounded queues between two big locks; one condition
variable for two kinds of waiting thread; a counter (`t_current`) whose value 0
also means "stopped"; SN wrap-around and window edges; a handshake loop *inside*
a message handler, so that one peer blocks all; losses, restarts and stale
messages in any of four queues; an ARQ whose STATUS PDUs are late, lost or cut short
while segments are split and moved between three lists; a handover whose three
parties answer on different associations, with a release, a reestablishment or a
lost DU in between; a semaphore that is deliberately not equal to the
length of its queue. PROJECT.json lists each of them with its line.

## 2. Modules

    PdcpDelivery <--refined by-- NrPdcpEntity --- NrPdcpEntityProofs
    NrPdcpQueue --- NrPdcpQueueProofs      (a queue, in detail)
    NrL2Threads --- NrL2ThreadsProofs      (both queues as lengths, both locks)
    F1Bringup ----- F1BringupProofs        (DU and CU, four tasks, the wire)
    IttiTask ------ IttiTaskProofs         (what a "task" and a "queue" is above)
    RlcAmDelivery <--refined by-- NrRlcAm --- NrRlcAmProofs
                                           (a bearer: sender, MAC, receiver)
    RrcHandover --- RrcHandoverBase --- RrcHandoverProofs
                                           (CU RRC, DUs, a UE, the AMF)

An `MC` module extends each of them for TLC.

**NrPdcpEntity.** One entity. Every entity operation runs under the PDCP lock, so
each is one action, named after its function. `rx_list` is a set of records,
because the C list is sorted by COUNT and consumed from its head. The clock enters
the code only as "is `t_current` still 0" (`t_known`) and as
`t_current - t_reordering_start` (`t_age`, `Stopped` when the start is 0). A PDU
carries an SN, and the COUNT and keys its sender used: integrity verifies when
keys and COUNT agree; deciphering gives `Garbage` when they do not. `epoch` and
`log` are history: what reached the upper layer between two resets of COUNT.
`rx_at_zero` records that t-Reordering was started at `t_current = 0`: the code
then reads it as stopped. The timed properties exclude that case by name; at 1 ms
resolution, a bearer that meets a gap within its first millisecond is in it until
the next PDU arrives. The bearer (type and t-Reordering) is chosen in the initial
state. The re-establishment actions model the entity's `reestablish_entity`, which
nothing calls at this commit (section 7).

**PdcpDelivery.** What the layer above may rely on: within an epoch every burst
lies above all bursts before it.

**NrPdcpQueue.** The ring, written twice in the code. A critical section is one
action, since it blocks nowhere but in `pthread_cond_wait`. The worker reads its
slot between two critical sections (`Handle`). Signals wake any one waiter, and
waits may return spuriously.

**NrL2Threads.** Five threads with their program counter, the owners of the two
locks, the lengths of the two queues. The deployment, chosen at the start, tells whether `deliver_sdu_drb` may
come back into `nr_pdcp_data_req_drb` through SDAP's reflective mapping.

**F1Bringup.** Per DU its TASK_SCTP and TASK_DU_F1; for the CU its TASK_SCTP,
TASK_CU_F1 and TASK_RRC_GNB; per association what waits in each end's socket. The
CU's TASK_SCTP handles at most one ITTI message, polls, then reads one message
from every socket the poll named (`CuTake`, `CuPoll`, `CuAccept`,
`CuReadFromSocket`); inside a handshake it does nothing else. The DU's handler of
the association response sleeps twice, so it is three actions of one thread that
takes no other message in between. DTLS is three flights. Either end may refuse the
handshake (`DuHandshakeFails`, `CuHandshakeFails`, fault "tls"): the library rejects what
it reads, a certificate above all (`SSL_ERROR_SSL` or the default case), with or without an
alert to the peer, or the code rejects a handshake that is complete. Its TASK_SCTP is then
`"refused"`. `"undefined"` is the state of a TASK_SCTP that has followed a null pointer, or
whose handshake failed because of the other end. In both the loop at `sctp_eNB_task.c:1381`
calls again with a freed SSL object, and the task takes no further step; that the process
may also die of it is the fault "cu" or "du".

**IttiTask.** One task and everyone who may touch it. `sem` is the eventfd,
`sent - taken` the queue. `next` is `next_timer` relative to now, which may be
stale after a removal; a late periodic timer leaves it in the past, and then
epoll_wait gets a negative timeout.

**NrRlcAm.** One direction of an AM bearer: the transmitting half of one entity,
the receiving half of its peer, and MAC in between. Every call into an entity holds
the RLC lock, so it is one action. SDUs are numbered in the order they are first
sent, and the SN of SDU i is i modulo twice the window, so that wrap-around and the
confusion of two SDUs with one SN are possible outcomes. Segments are SN, offset and
size; the receiver keeps the set of bytes its list covers. A NACK is a set of bytes;
`Cuts` are the places at which a STATUS PDU may run out of room. `poll_pdu` and
`poll_byte` are the free choice `PollEarly`. `undefined` is the NULL head of
`wait_list` that `check_t_poll_retransmit` would follow. `sent` and `passed` count the
SDUs that `tx_next` and `rx_next` have gone past, so that properties can tell apart two
SDUs with one SN; no guard of the code's own looks at them except modulo the SN space.
Two history variables: `overtaken` records that `tx_next_ack` has passed an SDU not fully
sent, `bypassed` that new data was sent, without a poll, past what is to be retransmitted.

**RlcAmDelivery.** What the layers above may rely on: an SDU is delivered at most
once, whole and unmixed, only after it was sent, and confirmed only after it was
delivered. It promises this until the bearer goes `astray`, which in NrRlcAm is `overtaken`.

**RrcHandover.** TASK_RRC_GNB with its UE contexts and registry, one MAC per DU, one
UE that moves between them, and the AMF as far as it commands releases. Each F1
association is a FIFO in both directions, and its loss is the last message of it. A
handler of an F1AP or NGAP message is one action (`SetupResponse`,
`ReconfigurationComplete`, `LostConnection`, `DuReleaseCommand`...). The F1 data of a UE
(`du`, `id`), `f1_ue_context_active` (`f1`) and its `masterCellGroup` (named by the DU that
made it, `cg`; NULL in a context that a fall-back to RRC setup has made) are fields of the
context. Four things write `masterCellGroup`: the setup response of a handover's target,
the rollback, the answers about bearers that a PDU session wants (`SetupSession`, by UE
Context Setup the first time and by Modification after that: `DuBearersRequest`,
`BearersResponse`, `DuMoreBearersRequest`, `MoreBearersResponse`), and a modification that a DU requires after
the UE was heard again by random access (`UeReturns`, `ModificationRequired`, and
`DuModificationRefuse` where the CU does not know the UE). `GenerateReconfiguration` is
`rrc_gNB_generate_dedicatedRRCReconfiguration` with its `DevAssert(du != NULL)`.

`misfit` and `no_old` record that the UE was sent a foreign cell group and that a DU was
told of an old context it does not have. `exit` is what the CU has died of: the failed
assertion (`no_du`), a C-RNTI that is not in the answer (`no_crnti`), a NULL cell group
(`no_cg`); no step follows. `untimely` records one of the races of section 7 in which the
code ends a handover or answers a message out of turn; the id, cell group and
release properties, and that the CU does not die of the first two, are claimed up to the
first of them.

A definition next to a mapped one, named after it with what it changes
(`AckedBySn`, `RolledBackWithoutCellGroup`), is a variant with one plausible bug,
used to see that a property notices it.

## 3. Runs

| Run | Instance | What it shows |
|---|---|---|
| `pdcp` | UM and AM DRBs and an SRB without t-Reordering, fair ticks | all safety of the entity, that it implements PdcpDelivery, and that every stored SDU leaves the list |
| `pdcp_queue` | 2 slots, 3 callers | FIFO, ownership of the slot, no lost wake-up, every item handled |
| `l2_threads` | gNB and UE, fair | gNB: no circular wait, MAC and data requests return; UE: a circle of waiting threads needs both queues full |
| `l2_threads_ue` | UE | **violation**: such a circle exists (section 7) |
| `f1_restart` | 1 DU, up to two restarts of either side, CU timely | F1 comes up again, handshakes complete, nothing but F1AP reaches F1 |
| `f1_faults` | 2 DUs at any speed, one fault of any kind, at any moment | F1AP is never in clear, no ghost DU, TASK_SCTP only goes wrong in a handshake that it refused or whose other end is gone or refused it |
| `f1_two` | 2 DUs, no fault | **violation**: a ClientHello reaches TASK_CU_F1 (section 7) |
| `itti_task` | 4 messages, 2 posts | never asleep on a message or through a timer; every message taken |
| `rlc_am` | window 2, 4 SDUs of 1 to 3 bytes, two PDUs under way | at-most-once, unmixed delivery (refines RlcAmDelivery); STATUS PDUs never lie, even cut short; nothing forgotten that was not delivered; every gap is timed |
| `rlc_am_live` | window 3, 2 SDUs, fair | a sender that waits for an ACK has a poll out; every SDU of which a byte was sent is delivered |
| `rlc_am_next_ack` | as `rlc_am`, smaller | **violation**: TX_Next_Ack passes an SDU whose rest was not sent (section 7) |
| `rrc_handover` | 3 DUs, 2 events, fair | no context names a lost DU, and no assertion about it fails in turn; ids and cell groups fit the DU; handovers, releases and failed contexts end |

Deadlock is checked where the system has no reason to stop. It is not in
`f1_*`, `itti_task`, `rlc_am*` and `rrc_handover`, where the bounds on associations,
faults, messages, SDUs and events end a behaviour, and in `l2_threads`, one of whose
subjects is what a stuck UE looks like.

## 4. Bounds, and why they are enough

* PDCP: `WindowSize` 2 makes the SN modulus 4, `MaxCount` 5 exceeds it, so the SN
  wraps and both window edges are reached in both HFNs; two epochs make every
  reset-with-leftovers possible; t-Reordering 1 or 2 with jumps up to one more
  covers expiry exactly on, before and after a tick.
* Queue: two slots are the smallest ring in which a wake-up can go to the wrong
  thread, three callers the most that `callers < 2 * Size` allows.
* L2 threads: queue sizes 2; a full queue is what matters, and the proofs cover
  every size.
* F1: three associations allow one DU two restarts, or two DUs one restart; a
  behaviour that would need a fourth stops there. `f1_restart` takes two faults,
  `f1_faults` one. DUs are symmetric in `f1_faults` (safety only).
* ITTI: four messages and two posts let the semaphore run ahead of, and lag
  behind, the queue; the proofs cover every number.
* RLC AM: window 2 makes the SN modulus 4, and four SDUs use it up, so that a late
  PDU of the first may meet the window of the fifth SN. SDUs <<2,2,1,1>> give a gap
  that the next SDU overtakes, <<1,1,1,3>> one SDU with two gaps (a NACK is cut
  inside it). Grants of 1 and 3 bytes send an SDU in pieces or whole. Two PDUs under
  way are enough for every reordering of neighbours. `rlc_am_live` has a window of three:
  with two the window stalls as soon as new data is sent past a retransmission, and a
  stalled window polls, which hides that such data may be left without a poll. It keeps
  two SDUs of one and two bytes: the temporal check is what limits it. The proofs cover
  every window, size and number.
* RRC: an event is a handover, release or session change that someone asks for, a
  reestablishment, a return of the UE by random access or a DU lost; the messages they
  cause are not bounded. Two events on three DUs let any two of them cross, with an
  unrelated DU to spare: enough for every value of `exit` and for each of the races of
  section 7. The proofs cover any number of events.

## 5. Fairness and environment assumptions

* `pdcp`: the timer thread keeps ticking (`nr_pdcp_timer_thread.c` loops for
  the life of the process). No fairness is assumed of traffic.
* `pdcp_queue`: a thread that is not waiting gets the mutex. Callers are not
  obliged to call.
* `l2_threads`: strong fairness on acquiring the mutexes (a mutex that is free
  again and again is got in the end) and on the MAC thread leaving its lock (one
  PDU completes finitely many SDUs), weak fairness on everything else.
* `f1_restart`: every task runs when it can, and dead processes are started again
  (the deployment does that, not the code). `Timely` says that a CU which is not
  blocked gets through its queues in the second for which a DU sleeps before its
  handshake; `Settled` that processes die only while no DU is coming up. Both are
  needed: without either the code does not recover, which hazards in PROJECT.json
  describe. `f1_faults` drops both and claims no liveness. Nor is any claimed where a handshake is
  refused: one DU with a bad certificate stops the CU's TASK_SCTP for all DUs.
* `itti_task`: the task's thread runs when it can.
* `rlc_am_live`: MAC keeps giving grants and the clock keeps going (weak fairness);
  strong fairness on the reception of each byte, of polls and of STATUS PDUs says that
  HARQ does not lose the same thing every time. `Prompt` says that MAC serves all of
  `retransmit_list` before `t_poll_retransmit` ends, which is what the timer's
  configuration is for. `InTime`, in all RLC runs, says that MAC keeps no PDU for as long
  as it takes to send a window of SDUs after it, unless the sender still holds the SDU and
  may just have sent it again: 38.322 needs that of MAC. The fair
  behaviours that still stop are the four that `SentIsDelivered` names.
* `rrc_handover`: every association and task makes progress, the AMF answers every
  release request of a UE that has registered, a UE gives up (T304, T301), and the two
  MAC timers end. `Quiet` says that uplink failure is declared (30 s) after F1 has
  delivered what was sent. UEs need not arrive or come back. All of it is asked of a CU
  that runs (`Running`), and nothing is promised of one that has died.
* PDUs arrive in any order, repeated or not at all, but within the window
  (`InWindow`): TS 38.323 makes that the sender's duty.

## 6. What is proved

All proofs are checked by TLAPS; `PROJECT.json` names the theorems.

* **NrPdcpEntityProofs**, for every window, bearer type, t-Reordering, key set and
  bound. Inductive invariant: `TypeOK /\ RxDelivSeparates /\ GapHasTimer /\
  NoStaleSdu /\ AbsentIsZero`, with the bearer constant. `RxDelivSeparates` alone is not inductive: after a
  reset it needs the list to be empty, which needs `GapHasTimer` (the flush happens
  only while t-Reordering runs) and `NoStaleSdu`; `AbsentIsZero` says that an entity
  not yet allocated is blank. From it: HFN inference is exact within the window
  (`HfnIsExact`, integer division handled by `Division` and `Multiples`), and the entity
  implements `PdcpDelivery` (`ImplementsDelivery`), with the identity on `log` and
  `epoch` as refinement mapping. Assumptions: `WindowSize > 0`,
  `MaxCount < CountModulus`, i.e. COUNT itself does not wrap (at COUNT wrap TS 38.323
  requires the keys to be changed, which the code leaves to RRC).
* **NrPdcpQueueProofs**, for every size and number of callers below twice the size.
  Inductive invariant: `TypeOK /\ RingInOrder /\ SlotIsWorkers /\ WakeupsCounted`.
  `WakeupsCounted` is the counting argument why signals suffice: every waiting
  caller beyond the excess is matched by a slot in use. The bound on callers is
  needed, and the code's 10000 slots give it.
* **NrL2ThreadsProofs**, for every queue size. Inductive invariant: `TypeOK /\
  LockOwners /\ SlotsInUse /\ NobodyAnswersInside`. In a gNB no circular wait
  exists; in a UE it needs both queues full.
* **IttiTaskProofs**, for any number of messages and posts. Inductive invariant:
  `TypeOK /\ SemCoversQueue /\ NextTimerIsNearest /\ NeverSleepsThroughTimer`: the
  semaphore lags behind the queue by one at most, and only between epoll_wait and
  the receive that follows.

* **F1BringupProofs**, for any number of DUs, associations and faults, `Timely` or not.
  Inductive invariant `DuInv /\ EndsInv /\ CuInv /\ PendingInv /\ WireInv /\ RegistryInv`
  and the three safety properties. None of these is inductive. `F1apProtected` rests on two
  orders: at a DU the request for the handshake is ahead of every request to send in the
  FIFO of TASK_SCTP until the handshake is done (`HandshakeFirst`), which in turn needs
  that a DU has one attempt at an association under way at a time (`OneAttempt`: request,
  connection, its loss, the sleep before the next); at the CU whatever leads to a PDU being
  sent is about an association whose handshake is done or which is gone (`PendingOK`).
  `NoGhostDu` rests on `RegistryInv`: nothing that was received on an association comes
  after its loss in the queues of TASK_CU_F1 and TASK_RRC_GNB. `UndefinedOnlyIfPeerFails` rests
  on `EndsInv`: an association is in the CU's backlog, once, or a connection of the CU's,
  or neither, and a handshake is only asked for where the CU has the connection or the DU
  does not; and on `WireInv`: an alert lies in a socket only when the end that sent it has
  refused the handshake or is gone.
  `SetupRequestIsFirst` is about `FirstDataIsSetupRequest` for one DU under `Timely`
  (`OneTimelyDu`), with any number of associations and faults. Neither hypothesis can be left
  out: two DUs violate the property (finding `f1_two`), and nothing but the second that
  TASK_DU_F1 sleeps puts the CU's handshake before the DU's hello. `FirstInv` follows one
  connection through both ends. `HelloInv`: COMM_UP, the answer to TASK_DU_F1, the sleep, the
  request for the handshake and the hello follow one another, each once. `StepInv`: when
  the DU is asked for the handshake the CU already waits in its own, unless it is `Stuck`
  in one that failed, and gets further only after the DU's hello. `SocketInv`:
  flights lie in a socket of the CU only for a handshake that reads them, F1AP only where the
  handshake is done or about to be. `DueInv`: the CU has not forgotten a connection's handshake,
  without which `Timely` would not put it before the end of the DU's sleep.

* **RrcHandoverBase** and **RrcHandoverProofs**, for any number of DUs, contexts and events;
  the first module holds the layers that always hold, the second those that hold as long as
  nothing was out of turn.
  `ContextsNameLiveDus` has the inductive invariant `IInv == CtxInv /\ NetInv /\ MacInv`
  for its first half. That contexts name no lost DU is not inductive by itself: a setup
  response or a reestablishment request could bring a lost DU back. `NetInv` says that a loss is the last message of its association and
  that a DU the registry has dropped has nothing under way; `MacInv` that a context a DU
  still has is one of a DU that is alive, so that nobody sends in its name.
  `TypeCorrect` has `Base`: besides types, that a setup under way has a DU UE ID kept for
  it and a reestablishment request a CU UE ID (the IDs given out plus those owed never
  exceed the events so far), and that every ID that a context or a message mentions
  was given out by the DU in question.
  `IdsBelongTogether` and `CellGroupsFit` have `Timely`: as long as nothing was out of turn,
  the F1 data of each UE fit the stage of its handover (`CtxOK`), and five statements hold
  about what is under way. The messages to and from a DU are read as one sequence in which
  the DU's handlers turn requests into answers. `LinkOK`: at most one
  setup, one modification and one reestablishment about a UE are on an association, each
  only at the stage that it belongs to, the reestablishment behind the modification.
  `Turns`: one reestablishment is asked for at a time, and its reply is the first message
  that the UE gets in its new context. `Fresh`: an ID that has just been made is known only
  to its DU and to the message that announces it. `Arrived`: a UE that uses the target's
  context has said so at the target, ahead of any request that names this context. One lemma
  per action shows that the action keeps them or sets `untimely`. `Asked` stands beside it:
  a UE about whose bearers something is under way is not handing over and has a DU, the one that was
  asked. It is what keeps the answers about bearers from a handover they do not
  belong to, so it gives the cell group of those answers, and with `Exits` (which steps
  end the CU, and how) the second half of `ContextsNameLiveDus`: neither the assertion nor
  the C-RNTI fails in turn.
  `OldContextsThere` adds `OldInv`, with the same proviso. `OwnIds`: every DU UE ID is that of
  one UE context or still on its way to the CU, and during a handover source and target have
  one each. `Spared`: nothing under way ends a context (a release, or a reestablishment that
  takes it over) that such an ID stands for, unless the core commanded the release of its UE.
  `Served`: the contexts that the UE and its requests name are ones in which it was served,
  which a DU does not drop by itself, as it does one that no message came for (UlFailure
  without a CU UE ID). `OldsThere` follows for each message at the moment it is sent, and
  stays true because the messages ahead of it end other contexts.

* **NrRlcAmProofs**, for every window of at least two, all sizes of SDUs and grants and any
  number of PDUs under way, in four layers.
  `Inv == SenderInv /\ RxInv` is about each end alone and always holds: types, nothing listed
  that was not sent (`SenderParts`), `ListsDisjoint`; the SNs of the receiver within its
  window (`ReceiverWindow`), without which `GapIsTimed` is not inductive.
  `Aligned` is about the two ends together and holds until `overtaken` (`Exact`). `Base` is the
  number that `tx_next_ack` is the SN of. What the sender keeps lies in its window
  (`SenderWindow`), what the receiver keeps was sent, and below its window all was delivered
  (`InStep`), each byte sent was received or is still listed (`NoByteLost`), and STATUS PDUs
  are true of what was sent (`StatusInOrder`, `StatusTrue`). They are only inductive together:
  the windows keep in step because STATUS PDUs are true, these are true because SNs compare
  like the numbers they stand for, and that needs the windows to be in step. From it follow
  `StatusIsTrue`, `ConfirmedIsDelivered` and, action by action, that the bearer implements
  `RlcAmDelivery` with `Confirmed` for `confirmed` and `overtaken` for `astray`.
  `Polled` is about polling, and rests on both: once all that can be sent was sent, the last
  poll was about the last SDU (`PollIsLast`), and what waits with no poll out comes before
  something to retransmit, which will carry one (`WaitIsCovered`). `PollIsOut` is the case of an
  empty `retransmit_list`.
  `Awaited` is what `NullOnlyThen` needs: that `wait_list` and `retransmit_list` do not become
  empty while a poll is out. STATUS PDUs may arrive in any order, so it is about all of those
  under way at once (`StatusesOrdered`): whichever of them arrive, a byte stays listed
  that none of them acknowledges, unless one of them acknowledges everything that was wholly
  sent, or all of that was freed and `tx_next_ack` has followed. This is the order in which STATUS PDUs
  were generated, said without a clock: a later one never NACKs what an earlier one reported as
  received, unless its last NACK was extended for lack of room, and then that byte is not
  the only one missing. It needs that the peer has no byte that was not sent (`NotYetThere`)
  and forgets none that it delivered within its window (`ProcessedKept`); `PollAhead` (while
  t_poll_retransmit runs, `tx_next_ack` has not passed the poll) then rules out the case that all was freed.
  Assumptions: `SizeAssumption` and `ChoiceAssumption` (sizes and grants are not zero), and
  `InTime` of section 5, which is a guard of the reception actions.

Every safety property that a passing run checks is stated by a theorem. Two of them are
proved under a hypothesis. `NullOnlyIfStalled` is only model-checked after `overtaken`,
where SNs no longer compare like the numbers they stand for and a STATUS PDU may acknowledge
an SDU that has the SN of another. `FirstDataIsSetupRequest` needs `OneTimelyDu`, as said
above, and is false without it. The auxiliary parts of the inductive invariants (type
correctness of the queue, the threads and ITTI, `RxDelivSeparates`, `WakeupsCounted`,
`SemCoversQueue`, `NextTimerIsNearest`) are theorems too. Liveness under fairness is left to
TLC throughout (TLAPS has no ENABLED).

## 7. Findings

* `l2_threads_ue`: `nr_pdcp_oai_api.c:98-99` says that the queues are there so that
  "a call to lock(pdcp) will never be followed by a call to lock(rlc)", against
  deadlock. In a UE, SDAP's reflective mapping calls `nr_pdcp_data_req_drb` under
  the PDCP lock; with both queues full, the PDCP worker waits for room in the RLC
  queue, its worker for the RLC lock, the lock's owner for room in the PDCP queue.
  It takes both 10000-slot queues full at the same time; `l2_threads` and
  the theorem `StuckOnlyWhenFull` say that nothing less does it.
* `f1_two`: `f1ap_cu_task.c:60-61` takes the first message of an association to be
  F1 Setup Request. When two DUs start together, the CU's TASK_SCTP reads the second
  ClientHello as data while it has not yet been asked for the second handshake.
* `rlc_am_next_ack`: `nr_rlc_entity_am.c:750-753` quotes 38.322 5.2.3.1.1, TX_Next_Ack is
  "the SN of the RLC SDU with the smallest SN ... for which a positive acknowledgment
  has not been received yet". The code looks at `wait_list`, `retransmit_list` and the
  ACK. SDU 0 and the first byte of SDU 1 are sent and acknowledged while the rest of SDU 1
  is still in `tx_list`: TX_Next_Ack becomes 2. From then on the comparison of SNs, which
  starts at TX_Next_Ack, puts SDU 1 behind all others.

Observations that no run is about, because no text of the repository contradicts them:

* RLC AM: `check_t_poll_retransmit` (line 1883) follows the head of `wait_list`, and its
  comment is "not sure" that the list is not empty. `NullOnlyIfStalled` says when it is: the window stalls and
  everything that waits for its ACK is in `retransmit_list`. `prev_nack_sn` is never
  updated, so the check that NACKs come in order has no effect. The rest of an SDU cannot
  be sent while the window stalls, though its SN is inside.
* RLC AM: `nr_rlc_entity_am_generate_pdu` (1779-1786) goes on to new data when the head of
  `retransmit_list` does not fit with its longer header. That PDU carries no poll, because
  `check_poll_after_pdu_assembly` (938-957) sees a non-empty `retransmit_list`. If a late
  STATUS PDU then acknowledges what was to be retransmitted, and stops
  `t_poll_retransmit`, nothing is left to carry a poll and no timer runs until the next
  SDU comes. `bypassed` marks these states; `PollIsOut` and `SentIsDelivered` exclude them.
* RLC AM: once TX_Next_Ack has passed an SDU (`rlc_am_next_ack`), the window no longer
  holds it back. It may be retransmitted when its SN already stands for an SDU one SN space
  later, be taken for that one and be delivered again. `DeliversOnce`, `StatusIsTrue` and
  `ConfirmedIsDelivered` are claimed up to that point.
* PDCP: the body of `nr_pdcp_reestablishment` (`nr_pdcp_oai_api.c:1208-1229`) is commented
  out, so no entity is re-established, while `rrc_gNB.c:855` calls it to "Re-establish PDCP
  for SRB1". `nr_pdcp_reconfigure_drb` is called by the UE's RRC only.
* RRC, the races that set `untimely`: a reestablishment that names the source cell of a
  handover is taken for a return to it, whichever DU relays it (`rrc_gNB.c:1159`); a
  cancellation before the target's setup response releases DU UE ID 0, and the late
  response is then taken for an ordinary one; a reconfiguration complete of any
  transaction concludes a handover (`rrc_gNB.c:1648`), and one that overtakes the source's
  modification response leaves the F1 data at the source; the loss of any DU ends
  every handover (`rrc_gNB_du.c:412`); a release or a reestablishment that crosses the
  other names an old context the DU has removed (`mac_rrc_dl_handler.c:987`); a CU UE ID,
  the lowest free one first, is given to a new UE while messages about its former holder
  are still under way, so that a late modification response is taken for one about the new UE
  (the attempt at the proof of `IdIsItsDus` showed this one); bearers are asked for during a
  handover, or a handover is triggered while they are, neither of which the code prevents;
  a DU that does not serve the UE, and is not the source of its handover, requires a
  modification, and `masterCellGroup` becomes that DU's (`rrc_gNB.c:2190`).
* RRC, what the CU dies of in these races: when the source DU is lost during a handover, the
  handover is finalized and the UE is without a DU; the target's setup response then reaches
  `DevAssert(du != NULL)` (`rrc_gNB.c:488`, called from 1972). When bearers are answered
  during a handover, `*resp->crnti` is read (1979), which that answer does not have.
* RRC, with nothing out of turn: a context that a fall-back has made has no cell group
  until its bearers are set up, and `rrc_gNB_process_RRCReestablishmentComplete` reads it
  untested (893). A UE that falls back, registers, and reestablishes before its
  first PDU session is set up gets there (`exit = "no_cg"`). No property claims otherwise.
* RRC at the DU: UE Context Setup with a DU UE ID that the MAC does not know, because the
  UE has left since, follows a NULL pointer (`ue_context_setup_request`); in the model the
  DU dies.
* RRC: a release request for a UE the CU does not know is dropped
  (`rrc_gNB.c:2001`), and a UE that never registered has nobody to command its release.

## 8. Abstractions and what is not modelled

* F1Bringup: DUs have distinct cells and valid configurations, so F1 Setup is
  refused for a duplicate gNB-DU ID only. SCTP is reliable and ordered; a loss is
  noticed at once or late. The order in which a DU's TASK_SCTP serves ITTI and its
  one socket is left open (an over-approximation). Decryption of an F1AP PDU gives
  its content when both sides have finished the handshake, `junk` otherwise.
  `SCTP_CLOSE_ASSOCIATION`, the MULTI variants and connections of other
  applications (NGAP, E1AP, X2AP) through the same task are left out.
* IttiTask: one timer at a time, `shortcut_func` and `itti_poll_msg` left out.
* NrPdcpEntity: statistics, header formats and the ciphers themselves left out;
  `nr_pdcp_reconfigure_drb`, which only the UE calls, is not an action.
* NrRlcAm: the size of the reception buffer (a PDU may find it full at any time,
  `DiscardPdu`), the maximum number of retransmissions (RRC is told, the entity goes on),
  `discard_sdu`, buffer status and statistics are left out; `poll_pdu` and `poll_byte` are a
  choice; re-establishment clears both ends at once, with the reset of MAC.
* RrcHandover: a DU has one cell; PCI, cell and DU are one name. What a reconfiguration
  contains is its transaction and its cell group. Setup, registration and security of a
  context are one step. That MIB, SIB1 or measurement timing of a cell are missing, or the
  C-RNTI of a reestablishment request is out of range, is a free choice, which makes the CU
  fall back without looking for the context. Whether uplink failure was noticed before a
  release command is a choice too, where the UE is not heard. A UE that failed to reach a
  handover's target may also return to the source by random access. E1 is left out: a PDU
  session is asked of the DU in one step, and the answer of the CU-UP for a context that has
  gone, whose NULL pointer the code follows (`rrc_gNB.c:2288`), does not occur. A
  cell group that does not decode does not occur either. Whether a DU's modification
  response has a cell group depends on what was asked: it has one for bearers, none for a handover. DU UE IDs (C-RNTIs) are not reused, CU UE IDs are. A DU that was
  lost does not come back (F1Bringup has that). Only F1 handover is in the code: the N2
  variant is commented out.
* RLC UM and TM, SDAP, the PDCP UE manager, GTP-U, E1AP, NGAP and the thread pool: smaller
  state under one lock each, or a mirror of what is modelled; PROJECT.json gives the
  reason for each.
* MAC, PHY, radio and nFAPI (numeric, real-time or I/O), the LTE stack (not run by
  CU or DU), NAS and the UE side of RRC, ASN.1 codecs, telnet/web/T tools: not
  modelled, see `components` in PROJECT.json for each reason.

## 9. Plan

1. Proofs: `NullOnlyIfStalled` of NrRlcAm after `overtaken`, which needs an account of SNs that
   no longer compare like numbers.
2. The PDCP UE manager: late data after removal, adding and reconfiguring bearers
   through the API against what RRC expects.
3. The registry with cells and PCIs: configuration update against setup.
4. RLC UM against the same delivery service without confirmation; GTP-U tunnels, E1AP.
