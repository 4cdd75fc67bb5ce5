------------------------------- MODULE IttiTask -------------------------------
(***************************************************************************)
(* One task of ITTI, the message passing between the threads of a CU or a   *)
(* DU (common/utils/ocp_itti/intertask_interface.cpp): its queue, the       *)
(* eventfd semaphore that wakes it, its timers and the sockets it watches.  *)
(*                                                                         *)
(* The queue and the semaphore are not kept equal: itti_receive_msg takes a *)
(* message without touching the semaphore when there is one, epoll_wait     *)
(* takes from the semaphore without touching the queue, and subscribing to  *)
(* a socket or setting a timer posts the semaphore without any message.     *)
(* What matters is that the task never sleeps on a message.                *)
(*                                                                         *)
(* Parts under queue_cond_lock are one action each.  Messages are numbered  *)
(* as they are sent; the queue holds those after taken up to sent.          *)
(***************************************************************************)
EXTENDS Integers

CONSTANTS
    MaxSent,   \* bound: messages sent
    MaxPosts   \* bound: timers set and sockets subscribed

ASSUME IttiAssumption ==
    MaxSent \in Nat /\ MaxPosts \in Nat

VARIABLES
    pc,          \* where the task's thread is
    sent, taken, \* messages sent to it, messages it took
    sem,         \* value of sem_fd (EFD_SEMAPHORE)
    fds,         \* sockets subscribed (nb_fd_epoll - 1)
    ready,       \* one of them is readable
    timer,       \* timer_map: "none", "oneshot" or "periodic"
    due,         \* its timeout has passed
    next,        \* next_timer: "never", "ahead" or "passed"
    timed,       \* epoll_wait was called with a timeout
    posts        \* timers set and sockets subscribed so far

vars == <<pc, sent, taken, sem, fds, ready, timer, due, next, timed, posts>>
timers == <<timer, due, next, timed>>
socks == <<fds, ready>>

Empty == sent = taken

(* itti_create_queue subscribes sem_fd itself, which posts it once.        *)
Init ==
    /\ pc = "receive" /\ sent = 0 /\ taken = 0 /\ sem = 1
    /\ fds = 0 /\ ready = FALSE
    /\ timer = "none" /\ due = FALSE /\ next = "never" /\ timed = FALSE
    /\ posts = 0

-----------------------------------------------------------------------------
(* Other threads.                                                          *)

(* itti_send_msg_to_task.  (Below the bound, with room for a due timer.)   *)
SendMsgToTask ==
    /\ sent + (IF due THEN 1 ELSE 0) < MaxSent
    /\ sent' = sent + 1 /\ sem' = sem + 1
    /\ UNCHANGED <<pc, taken, posts, timers, socks>>

(* Mutant: a timer is set without waking the task.                         *)
TimerSetupSilent ==
    /\ timer = "none" /\ posts < MaxPosts
    /\ timer' \in {"oneshot", "periodic"} /\ due' = FALSE
    /\ next' = IF next = "never" THEN "ahead" ELSE next
    /\ posts' = posts + 1
    /\ UNCHANGED <<pc, sent, taken, sem, timed, socks>>

(* timer_setup posts the semaphore, so that a sleeper computes its timeout  *)
(* anew.  next_timer only ever moves closer here.  (One timer at a time;    *)
(* the task itself may be the caller.)                                     *)
TimerSetup ==
    /\ timer = "none" /\ posts < MaxPosts
    /\ timer' \in {"oneshot", "periodic"} /\ due' = FALSE
    /\ next' = IF next = "never" THEN "ahead" ELSE next
    /\ sem' = sem + 1 /\ posts' = posts + 1
    /\ UNCHANGED <<pc, sent, taken, timed, socks>>

(* timer_remove leaves next_timer as it is.                                *)
TimerRemove ==
    /\ timer # "none"
    /\ timer' = "none" /\ due' = FALSE
    /\ UNCHANGED <<pc, sent, taken, sem, next, timed, posts, socks>>

(* next_timer, then perhaps later the timer itself, is in the past.        *)
TimePasses ==
    /\ next # "never" /\ next' = "passed"
    /\ due' \in BOOLEAN /\ (due => due')
    /\ due' => due \/ (timer # "none" /\ sent < MaxSent)
    /\ UNCHANGED <<pc, sent, taken, sem, timer, timed, posts, socks>>

SocketReadable ==
    /\ fds > 0 /\ ~ready
    /\ ready' = TRUE
    /\ UNCHANGED <<pc, sent, taken, sem, fds, timers, posts>>

-----------------------------------------------------------------------------
(* itti_get_events_locked, when next_timer has passed: an expired timer     *)
(* becomes a message of the task to itself and next_timer is computed anew. *)
(* A periodic timer moves on by one period, so it may be in the past again. *)
ExpireTimers ==
    \/ /\ next # "passed"
       /\ UNCHANGED <<sent, sem, timer, due, next>>
    \/ /\ next = "passed" /\ ~due
       /\ next' = IF timer = "none" THEN "never" ELSE "ahead"
       /\ UNCHANGED <<sent, sem, timer, due>>
    \/ /\ next = "passed" /\ due
       /\ sent' = sent + 1 /\ sem' = sem + 1
       /\ \/ /\ timer = "periodic" /\ timer' = timer
             /\ due' \in BOOLEAN /\ (due' => sent + 1 < MaxSent)
             /\ next' = IF due' THEN "passed" ELSE "ahead"
          \/ /\ timer = "oneshot" /\ timer' = "none"
             /\ due' = FALSE /\ next' = "never"

(* Up to epoll_wait.  A next_timer that has passed gives a negative         *)
(* timeout, which epoll_wait takes for none.                               *)
GetEvents(waiting) ==
    /\ pc' = waiting
    /\ ExpireTimers
    /\ timed' = (next' = "ahead")
    /\ UNCHANGED <<taken, posts, socks>>

(* Mutant: an eventfd without EFD_SEMAPHORE, which a read sets to zero.     *)
SemReadAll == 0

(* epoll_wait and the loop after it: reading sem_fd takes ONE from it.      *)
SemRead == sem - 1

EpollReturns(waiting, woken) ==
    /\ pc = waiting /\ pc' = woken
    /\ \/ sem > 0 /\ sem' = SemRead
       \/ sem = 0 /\ (ready \/ (timed /\ next = "passed")) /\ UNCHANGED sem
    /\ UNCHANGED <<sent, taken, timers, posts, socks>>

(* EINTR: around the loop of itti_get_events_locked.                       *)
EpollInterrupted == pc \in {"wait", "polling"} /\ GetEvents(pc)

(* The end of itti_receive_msg: the oldest message, or NULL.               *)
Take ==
    /\ pc' = "handle"
    /\ taken' = IF Empty THEN taken ELSE taken + 1
    /\ UNCHANGED <<sent, sem, timers, posts, socks>>

(* itti_receive_msg.                                                       *)
ReceiveMsg ==
    /\ pc = "receive"
    /\ IF Empty THEN GetEvents("wait") ELSE Take

ReceiveMsgWoken ==
    /\ pc = "woken"
    /\ IF Empty /\ fds = 0 THEN GetEvents("wait") ELSE Take

(* The task handles what it got.  TASK_SCTP and TASK_GTPV1_U then call      *)
(* itti_get_events, the others receive again: both are behaviours here.    *)
Handle ==
    /\ pc = "handle" /\ pc' \in {"poll", "receive"}
    /\ UNCHANGED <<sent, taken, sem, timers, posts, socks>>

(* itti_subscribe_event_fd: a new socket, and a post.  TASK_SCTP calls it   *)
(* in its handlers; gtpv1Init calls it for TASK_GTPV1_U from other threads. *)
SubscribeEventFd ==
    /\ posts < MaxPosts
    /\ fds' = fds + 1 /\ sem' = sem + 1 /\ posts' = posts + 1
    /\ UNCHANGED <<pc, sent, taken, ready, timers>>

(* itti_get_events.                                                        *)
Poll == pc = "poll" /\ GetEvents("polling")

(* The caller reads its sockets; it may unsubscribe one that is closed.    *)
Flush ==
    /\ pc = "flush" /\ pc' = "receive"
    /\ UNCHANGED fds \/ (fds > 0 /\ fds' = fds - 1)
    /\ ready' \in {r \in BOOLEAN : r => ready /\ fds' > 0}
    /\ UNCHANGED <<sent, taken, sem, timers, posts>>

Task ==
    \/ ReceiveMsg \/ EpollReturns("wait", "woken") \/ ReceiveMsgWoken
    \/ Handle \/ Poll \/ EpollReturns("polling", "flush") \/ Flush

Next ==
    \/ Task \/ EpollInterrupted \/ SubscribeEventFd
    \/ SendMsgToTask \/ TimerSetup \/ TimerRemove
    \/ TimePasses \/ SocketReadable

Spec == Init /\ [][Next]_vars

(* The task's thread runs when it can.                                     *)
FairSpec == Spec /\ WF_vars(Task)

-----------------------------------------------------------------------------
(* Properties.                                                             *)

(* Type invariant: the counters and the flags.                             *)
CountersOK ==
    /\ sent \in Nat /\ taken \in Nat /\ taken <= sent
    /\ sem \in Nat /\ posts \in Nat /\ fds \in Nat
FlagsOK ==
    /\ pc \in {"receive", "wait", "woken", "handle", "poll", "polling", "flush"}
    /\ timer \in {"none", "oneshot", "periodic"}
    /\ next \in {"never", "ahead", "passed"}
    /\ ready \in BOOLEAN /\ due \in BOOLEAN /\ timed \in BOOLEAN
TypeOK == CountersOK /\ FlagsOK

(* next_timer is never later than a timer of the map.                      *)
NextTimerIsNearest ==
    /\ timer # "none" => next # "never"
    /\ due => timer # "none" /\ next = "passed"

(* The task never sleeps in epoll_wait on a message: while one is queued,   *)
(* its semaphore is up, whatever was taken without it or from it before.   *)
NeverSleepsOnMessage == pc \in {"wait", "polling"} /\ ~Empty => sem > 0

(* It never sleeps through a timer either: the wait has a timeout, or the   *)
(* semaphore is up to end it, with the post of timer_setup or with the      *)
(* expiry of a periodic timer that was already a period late.              *)
NeverSleepsThroughTimer ==
    pc \in {"wait", "polling"} /\ timer # "none" => timed \/ sem > 0

(* Every message sent is taken.                                            *)
EveryMessageTaken == \A k \in 1..MaxSent : (sent >= k) ~> (taken >= k)

(* The semaphore lags behind the queue by one at most, and only between     *)
(* epoll_wait and the itti_receive_msg that follows: what makes the two     *)
(* properties above inductive.                                             *)
Lag == IF pc \in {"receive", "woken", "flush"} THEN 1 ELSE 0
SemCoversQueue == sent - taken <= sem + Lag
=============================================================================
