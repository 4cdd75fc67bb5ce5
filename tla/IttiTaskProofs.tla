---------------------------- MODULE IttiTaskProofs ----------------------------
(***************************************************************************)
(* Proofs about IttiTask, for any number of messages, timers and posts: a  *)
(* task never sleeps on a message or through a timer.  The inductive       *)
(* invariant counts: the semaphore lags behind the queue by one at most,   *)
(* between epoll_wait and the receive that follows it.                     *)
(***************************************************************************)
EXTENDS IttiTask, TLAPS

(* A wait sees the timer there is: part of the invariant.                  *)
TimersSeen == NextTimerIsNearest /\ NeverSleepsThroughTimer

IInv == TypeOK /\ SemCoversQueue /\ TimersSeen

(* The part of itti_get_events_locked before epoll_wait keeps the invariant *)
(* when it is entered with the semaphore covering the queue.               *)
LEMMA GetEventsKeeps ==
    ASSUME NEW w \in {"wait", "polling"}, TypeOK, NextTimerIsNearest,
           sent - taken <= sem, GetEvents(w)
    PROVE  IInv'
<1>1. CountersOK' /\ SemCoversQueue'
  <2>1. \/ sent' = sent /\ sem' = sem
        \/ sent' = sent + 1 /\ sem' = sem + 1
    BY Zenon DEF GetEvents, ExpireTimers
  <2>2. taken' = taken /\ posts' = posts /\ fds' = fds
    BY Zenon DEF GetEvents, socks
  <2>3. QED BY <2>1, <2>2 DEF TypeOK, CountersOK, SemCoversQueue, Lag
<1>2. FlagsOK'
  <2>1. timer' \in {"none", "oneshot", "periodic"}
    BY Zenon DEF TypeOK, FlagsOK, GetEvents, ExpireTimers
  <2>2. next' \in {"never", "ahead", "passed"}
    BY Zenon DEF TypeOK, FlagsOK, GetEvents, ExpireTimers
  <2>3. due' \in BOOLEAN
    BY Zenon DEF TypeOK, FlagsOK, GetEvents, ExpireTimers
  <2>4. timed' \in BOOLEAN /\ ready' = ready
    BY Zenon DEF GetEvents, socks
  <2>5. QED BY <2>1, <2>2, <2>3, <2>4, Zenon DEF TypeOK, FlagsOK, GetEvents
<1>3. NextTimerIsNearest'
  <2>1. CASE next # "passed"
    <3>1. timer' = timer /\ due' = due /\ next' = next
      BY <2>1, Zenon DEF GetEvents, ExpireTimers
    <3>2. QED BY <3>1, Zenon DEF NextTimerIsNearest
  <2>2. CASE next = "passed" /\ ~due
    <3>1. timer' = timer /\ due' = due
      BY <2>2, Zenon DEF GetEvents, ExpireTimers
    <3>2. timer # "none" => next' = "ahead"
      BY <2>2, Zenon DEF GetEvents, ExpireTimers
    <3>3. QED BY <2>2, <3>1, <3>2, Zenon DEF NextTimerIsNearest
  <2>3. CASE next = "passed" /\ due
    BY <2>3, Zenon DEF GetEvents, ExpireTimers, NextTimerIsNearest
  <2>4. QED BY <2>1, <2>2, <2>3
<1>4. NeverSleepsThroughTimer'
  <2>1. CASE next = "passed" /\ due
    <3>1. sem' = sem + 1
      BY <2>1, Zenon DEF GetEvents, ExpireTimers
    <3>2. sem' > 0
      BY <3>1 DEF TypeOK, CountersOK
    <3>3. QED BY <3>2, Zenon DEF NeverSleepsThroughTimer
  <2>2. CASE next # "passed" \/ ~due
    <3>1. timer' # "none" => next' = "ahead"
      BY <2>2, Zenon DEF TypeOK, FlagsOK, NextTimerIsNearest, GetEvents, ExpireTimers
    <3>2. QED BY <3>1, Zenon DEF NeverSleepsThroughTimer, GetEvents
  <2>3. QED BY <2>1, <2>2
<1>5. QED BY <1>1, <1>2, <1>3, <1>4 DEF IInv, TypeOK, TimersSeen

(* epoll_wait takes at most one from the semaphore: the lag grows to one.  *)
LEMMA EpollKeeps ==
    ASSUME NEW w \in {"wait", "polling"}, NEW v \in {"woken", "flush"},
           IInv, EpollReturns(w, v)
    PROVE  IInv'
<1>1. TypeOK'
  <2>1. CountersOK'
    BY DEF IInv, TypeOK, CountersOK, FlagsOK, EpollReturns, SemRead, socks, timers
  <2>2. FlagsOK'
    BY Zenon DEF IInv, TypeOK, CountersOK, FlagsOK, EpollReturns, SemRead, socks, timers
  <2>3. QED BY <2>1, <2>2 DEF TypeOK
<1>2. SemCoversQueue' /\ TimersSeen'
  BY DEF IInv, TypeOK, CountersOK, FlagsOK, EpollReturns, SemRead, SemCoversQueue,
         TimersSeen, NextTimerIsNearest, NeverSleepsThroughTimer, Lag, socks, timers
<1>3. QED BY <1>1, <1>2 DEF IInv

(* Taking a message makes up for the lag.                                  *)
LEMMA TakeKeeps ==
    ASSUME IInv, Take
    PROVE  IInv'
<1>1. TypeOK'
  <2>1. CountersOK'
    BY DEF IInv, TypeOK, CountersOK, FlagsOK, Take, Empty, socks, timers
  <2>2. FlagsOK'
    BY Zenon DEF IInv, TypeOK, CountersOK, FlagsOK, Take, Empty, socks, timers
  <2>3. QED BY <2>1, <2>2 DEF TypeOK
<1>2. SemCoversQueue' /\ TimersSeen'
  BY DEF IInv, TypeOK, CountersOK, FlagsOK, Take, Empty, SemCoversQueue, TimersSeen, NextTimerIsNearest,
         NeverSleepsThroughTimer,
         Lag, socks, timers
<1>3. QED BY <1>1, <1>2 DEF IInv

LEMMA Initially == Init => IInv
<1> SUFFICES ASSUME Init PROVE IInv
  OBVIOUS
<1>1. CountersOK /\ SemCoversQueue
  BY DEF Init, CountersOK, SemCoversQueue, Lag
<1>2. FlagsOK /\ TimersSeen
  BY Zenon DEF Init, FlagsOK, TimersSeen, NextTimerIsNearest, NeverSleepsThroughTimer
<1>3. QED BY <1>1, <1>2 DEF IInv, TypeOK

LEMMA Inductive == IInv /\ [Next]_vars => IInv'
<1> SUFFICES ASSUME IInv, [Next]_vars PROVE IInv'
  OBVIOUS
<1>1. CASE ReceiveMsg
  <2>1. CASE Empty
    BY <1>1, <2>1, GetEventsKeeps DEF ReceiveMsg, IInv, TimersSeen, TypeOK, CountersOK, Empty
  <2>2. CASE ~Empty
    BY <1>1, <2>2, TakeKeeps DEF ReceiveMsg
  <2>3. QED BY <2>1, <2>2
<1>2. CASE ReceiveMsgWoken
  <2>1. CASE Empty /\ fds = 0
    BY <1>2, <2>1, GetEventsKeeps DEF ReceiveMsgWoken, IInv, TimersSeen, TypeOK, CountersOK, Empty
  <2>2. CASE ~(Empty /\ fds = 0)
    BY <1>2, <2>2, TakeKeeps DEF ReceiveMsgWoken
  <2>3. QED BY <2>1, <2>2
<1>3. CASE EpollReturns("wait", "woken") \/ EpollReturns("polling", "flush")
  BY <1>3, EpollKeeps
<1>4. CASE Handle
  <2>1. TypeOK'
    <3>1. CountersOK'
      BY <1>4 DEF IInv, TypeOK, CountersOK, FlagsOK, Handle, socks, timers
    <3>2. FlagsOK'
      BY <1>4, Zenon DEF IInv, TypeOK, CountersOK, FlagsOK, Handle, socks, timers
    <3>3. QED BY <3>1, <3>2 DEF TypeOK
  <2>2. SemCoversQueue' /\ TimersSeen'
    BY <1>4 DEF IInv, TypeOK, CountersOK, FlagsOK, Handle, SemCoversQueue, TimersSeen, NextTimerIsNearest,
         NeverSleepsThroughTimer,
                Lag, socks, timers
  <2>3. QED BY <2>1, <2>2 DEF IInv
<1>5. CASE Poll
  BY <1>5, GetEventsKeeps DEF Poll, IInv, TimersSeen, TypeOK, CountersOK, FlagsOK, SemCoversQueue, Lag
<1>6. CASE Flush
  <2>1. TypeOK'
    <3>1. CountersOK'
      BY <1>6 DEF IInv, TypeOK, CountersOK, FlagsOK, Flush, timers
    <3>2. FlagsOK'
      BY <1>6, Zenon DEF IInv, TypeOK, CountersOK, FlagsOK, Flush, timers
    <3>3. QED BY <3>1, <3>2 DEF TypeOK
  <2>2. SemCoversQueue' /\ TimersSeen'
    BY <1>6 DEF IInv, TypeOK, CountersOK, FlagsOK, Flush, SemCoversQueue, TimersSeen, NextTimerIsNearest,
         NeverSleepsThroughTimer,
                Lag, timers
  <2>3. QED BY <2>1, <2>2 DEF IInv
<1>7. CASE SubscribeEventFd
  <2>1. TypeOK'
    <3>1. CountersOK'
      BY <1>7 DEF IInv, TypeOK, CountersOK, FlagsOK, SubscribeEventFd, timers
    <3>2. FlagsOK'
      BY <1>7, Zenon DEF IInv, TypeOK, CountersOK, FlagsOK, SubscribeEventFd, timers
    <3>3. QED BY <3>1, <3>2 DEF TypeOK
  <2>2. SemCoversQueue' /\ TimersSeen'
    BY <1>7 DEF IInv, TypeOK, CountersOK, FlagsOK, SubscribeEventFd, SemCoversQueue,
                TimersSeen, NextTimerIsNearest, NeverSleepsThroughTimer, Lag, timers
  <2>3. QED BY <2>1, <2>2 DEF IInv
<1>8. CASE SendMsgToTask \/ TimerSetup \/ TimerRemove
  <2>1. TypeOK'
    <3>1. CountersOK'
      BY <1>8 DEF IInv, TypeOK, CountersOK, FlagsOK, SendMsgToTask, TimerSetup, TimerRemove, timers, socks
    <3>2. FlagsOK'
      BY <1>8, Zenon DEF IInv, TypeOK, CountersOK, FlagsOK, SendMsgToTask, TimerSetup, TimerRemove, timers, socks
    <3>3. QED BY <3>1, <3>2 DEF TypeOK
  <2>2. SemCoversQueue' /\ TimersSeen'
    BY <1>8 DEF IInv, TypeOK, CountersOK, FlagsOK, SendMsgToTask, TimerSetup, TimerRemove,
                SemCoversQueue, TimersSeen, NextTimerIsNearest,
                NeverSleepsThroughTimer, Lag, timers, socks
  <2>3. QED BY <2>1, <2>2 DEF IInv
<1>9. CASE TimePasses \/ SocketReadable \/ UNCHANGED vars
  <2>1. TypeOK'
    <3>1. CountersOK'
      BY <1>9 DEF IInv, TypeOK, CountersOK, FlagsOK, TimePasses, SocketReadable, timers, socks, vars
    <3>2. FlagsOK'
      BY <1>9, Zenon DEF IInv, TypeOK, CountersOK, FlagsOK, TimePasses, SocketReadable, timers, socks, vars
    <3>3. QED BY <3>1, <3>2 DEF TypeOK
  <2>2. SemCoversQueue' /\ TimersSeen'
    BY <1>9 DEF IInv, TypeOK, CountersOK, FlagsOK, TimePasses, SocketReadable, SemCoversQueue,
                TimersSeen, NextTimerIsNearest, NeverSleepsThroughTimer, Lag, timers, socks, vars
  <2>3. QED BY <2>1, <2>2 DEF IInv
<1>10. CASE EpollInterrupted
  BY <1>10, GetEventsKeeps
    DEF EpollInterrupted, IInv, TimersSeen, TypeOK, CountersOK, SemCoversQueue, Lag
<1>11. QED
  BY <1>1, <1>2, <1>3, <1>4, <1>5, <1>6, <1>7, <1>8, <1>9, <1>10 DEF Next, Task

LEMMA Always == Spec => []IInv
<1>1. QED BY Initially, Inductive, PTL DEF Spec

(* Type correctness of a task's queue, semaphore, timer and sockets.        *)
THEOREM TypeCorrect == Spec => []TypeOK
<1>1. IInv => TypeOK
  BY DEF IInv
<1>2. QED BY <1>1, Always, PTL

(* The eventfd semaphore and the queue, counted apart by the sender, by      *)
(* itti_receive_msg and by epoll_wait, never drift by more than one.        *)
THEOREM SemaphoreCoversQueue == Spec => []SemCoversQueue
<1>1. IInv => SemCoversQueue
  BY DEF IInv
<1>2. QED BY <1>1, Always, PTL

(* next_timer is never later than a timer of the map, whatever timer_setup  *)
(* and timer_remove did while the task waited.                             *)
THEOREM NextTimerNearest == Spec => []NextTimerIsNearest
<1>1. IInv => NextTimerIsNearest
  BY DEF IInv, TimersSeen
<1>2. QED BY <1>1, Always, PTL

(* A task blocked in epoll_wait, in itti_receive_msg or in itti_get_events, *)
(* has no queued message that its semaphore would not wake it for.         *)
THEOREM NoMessageSleptOn == Spec => []NeverSleepsOnMessage
<1>1. IInv => NeverSleepsOnMessage
  BY DEF IInv, TypeOK, CountersOK, FlagsOK, SemCoversQueue, NeverSleepsOnMessage, Lag, Empty
<1>2. QED BY <1>1, Always, PTL

(* A task blocked in epoll_wait while a timer is set either waits with a    *)
(* timeout or is about to be woken by its semaphore.                       *)
THEOREM NoTimerSleptThrough == Spec => []NeverSleepsThroughTimer
<1>1. IInv => NeverSleepsThroughTimer
  BY DEF IInv, TimersSeen
<1>2. QED BY <1>1, Always, PTL
=============================================================================
