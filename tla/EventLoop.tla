------------------------------ MODULE EventLoop ------------------------------
(***************************************************************************)
(* The task queue of one EventLoop: queueInLoop() called from other        *)
(* threads, the eventfd that wakes epoll_wait(), handlewakeup() draining   *)
(* the queue on the loop's own thread, and stop().                         *)
(*                                                                         *)
(* Handlers of the loop's other channels (timer, acceptor, connections)    *)
(* are visible here only as the time they take: what they do is the        *)
(* subject of TcpServer.                                                   *)
(***************************************************************************)
EXTENDS Naturals, Sequences, FiniteSets

CONSTANTS
  Caller,        \* threads that call queueInLoop(), none of them the loop's
  Task,          \* callbacks handed over, each of them once
  OtherChannel,  \* the loop's channels besides wakeChannel_
  MaxEvents      \* events one epoll_wait() returns at the most

ASSUME EventLoopAssumption == "wake" \notin OtherChannel /\ MaxEvents \in Nat \ {0}

VARIABLES
  taskQueue,     \* taskQueue_
  taskmutex,     \* taskmutex_: "free", or "loop" while handlewakeup() holds it
  wakefd,        \* the counter behind wakeupfd_
  stop,          \* stop_
  pc,            \* where the loop's thread is in run() and handlewakeup()
  channels,      \* what Epoller::loop() returned and run() has not handled yet
  callerPc,      \* where each caller is in queueInLoop()
  stopPc,        \* where the thread that calls stop() is
  executed       \* history: the tasks run so far, in order

vars == <<taskQueue, taskmutex, wakefd, stop, pc, channels, callerPc, stopPc,
          executed>>

LoopPc == {"start", "check", "wait", "dispatch", "lock", "drain", "exited"}

\* The tasks that went through queueInLoop().
HandedOver ==
  {taskQueue[i] : i \in DOMAIN taskQueue} \cup {executed[i] : i \in DOMAIN executed}

TypeOK ==
  /\ taskQueue \in Seq(Task) /\ taskmutex \in {"free", "loop"} /\ wakefd \in Nat
  /\ stop \in BOOLEAN /\ pc \in LoopPc
  /\ channels \subseteq (OtherChannel \cup {"wake"})
  /\ callerPc \in [Caller -> {"idle", "wakeup"}]
  /\ stopPc \in {"idle", "wakeup", "done"} /\ executed \in Seq(Task)

Init ==
  /\ taskQueue = << >> /\ taskmutex = "free" /\ wakefd = 0 /\ stop = FALSE
  /\ pc = "start" /\ channels = {} /\ callerPc = [c \in Caller |-> "idle"]
  /\ stopPc = "idle" /\ executed = << >>

\* What epoll_wait() may return, in the order the channels became ready.
\* wakeChannel_ is level triggered: it is ready while the counter is not zero,
\* and is left for a later round only when the array is full.
Batches ==
  {ready \in SUBSET (OtherChannel \cup {"wake"}) :
     /\ ready # {} /\ Cardinality(ready) <= MaxEvents
     /\ IF wakefd = 0 THEN "wake" \notin ready
        ELSE "wake" \in ready \/ Cardinality(ready) = MaxEvents}

-----------------------------------------------------------------------------
\* Slips a maintainer could make, each used once to show that a property
\* below would notice.

\* "for (i = 0; i <= infds; ...)": one zeroed epoll_event too many.
EpollReady_OneTooMany ==
  /\ pc = "wait"
  /\ \E ready \in Batches : channels' = ready \cup {"null"}
  /\ pc' = "dispatch"
  /\ UNCHANGED <<taskQueue, taskmutex, wakefd, stop, callerPc, stopPc, executed>>

\* "if (!taskQueue_.empty())" where the code says "while".
UnlockTasks_AfterOne ==
  /\ pc = "drain" /\ taskmutex' = "free" /\ pc' = "dispatch"
  /\ UNCHANGED <<taskQueue, wakefd, stop, channels, callerPc, stopPc, executed>>

\* front() without pop().
RunTask_NoPop ==
  /\ pc = "drain" /\ taskQueue # << >>
  /\ executed' = Append(executed, Head(taskQueue))
  /\ UNCHANGED <<taskQueue, taskmutex, wakefd, stop, pc, channels, callerPc, stopPc>>

\* stop() without its wakeup().
Stop_NoWakeup ==
  /\ stopPc = "idle" /\ stop' = TRUE /\ stopPc' = "done"
  /\ UNCHANGED <<taskQueue, taskmutex, wakefd, pc, channels, callerPc, executed>>

-----------------------------------------------------------------------------
\* The loop's thread

\* run() stores the thread id, then enters its loop.
Start ==
  /\ pc = "start" /\ pc' = "check"
  /\ UNCHANGED <<taskQueue, taskmutex, wakefd, stop, channels, callerPc, stopPc, executed>>

\* while (!stop_)
CheckStop ==
  /\ pc = "check"
  /\ pc' = IF stop THEN "exited" ELSE "wait"
  /\ UNCHANGED <<taskQueue, taskmutex, wakefd, stop, channels, callerPc, stopPc, executed>>

EpollReady ==
  /\ pc = "wait" /\ channels' \in Batches /\ pc' = "dispatch"
  /\ UNCHANGED <<taskQueue, taskmutex, wakefd, stop, callerPc, stopPc, executed>>

\* Ten seconds without an event: epollTimeoutCallback_ runs, and the loop
\* looks at stop_ again.
EpollTimeout ==
  /\ pc = "wait" /\ wakefd = 0 /\ pc' = "check"
  /\ UNCHANGED <<taskQueue, taskmutex, wakefd, stop, channels, callerPc, stopPc, executed>>

HandleOther ==
  /\ pc = "dispatch"
  /\ \E ch \in channels \ {"wake"} : channels' = channels \ {ch}
  /\ UNCHANGED <<taskQueue, taskmutex, wakefd, stop, pc, callerPc, stopPc, executed>>

\* handlewakeup(): read() resets the counter before the queue is looked at.
ReadWakeup ==
  /\ pc = "dispatch" /\ "wake" \in channels /\ channels' = channels \ {"wake"}
  /\ wakefd' = 0 /\ pc' = "lock"
  /\ UNCHANGED <<taskQueue, taskmutex, stop, callerPc, stopPc, executed>>

LockTasks ==
  /\ pc = "lock" /\ taskmutex = "free" /\ taskmutex' = "loop" /\ pc' = "drain"
  /\ UNCHANGED <<taskQueue, wakefd, stop, channels, callerPc, stopPc, executed>>

\* Pop the front and call it, the mutex still held.
RunTask ==
  /\ pc = "drain" /\ taskQueue # << >> /\ taskQueue' = Tail(taskQueue)
  /\ executed' = Append(executed, Head(taskQueue))
  /\ UNCHANGED <<taskmutex, wakefd, stop, pc, channels, callerPc, stopPc>>

UnlockTasks ==
  /\ pc = "drain" /\ taskQueue = << >> /\ taskmutex' = "free" /\ pc' = "dispatch"
  /\ UNCHANGED <<taskQueue, wakefd, stop, channels, callerPc, stopPc, executed>>

EndBatch ==
  /\ pc = "dispatch" /\ channels = {} /\ pc' = "check"
  /\ UNCHANGED <<taskQueue, taskmutex, wakefd, stop, channels, callerPc, stopPc, executed>>

-----------------------------------------------------------------------------
\* Other threads

\* queueInLoop(): the push, under the mutex ...
QueueInLoop(c, t) ==
  /\ callerPc[c] = "idle" /\ t \notin HandedOver /\ taskmutex = "free"
  /\ taskQueue' = Append(taskQueue, t)
  /\ callerPc' = [callerPc EXCEPT ![c] = "wakeup"]
  /\ UNCHANGED <<taskmutex, wakefd, stop, pc, channels, stopPc, executed>>

\* ... and, the mutex released, wakeup().
Wakeup(c) ==
  /\ callerPc[c] = "wakeup" /\ wakefd' = wakefd + 1
  /\ callerPc' = [callerPc EXCEPT ![c] = "idle"]
  /\ UNCHANGED <<taskQueue, taskmutex, stop, pc, channels, stopPc, executed>>

\* stop(): stop_ first, then wakeup().
Stop ==
  /\ stopPc = "idle" /\ stop' = TRUE /\ stopPc' = "wakeup"
  /\ UNCHANGED <<taskQueue, taskmutex, wakefd, pc, channels, callerPc, executed>>

StopWakeup ==
  /\ stopPc = "wakeup" /\ wakefd' = wakefd + 1 /\ stopPc' = "done"
  /\ UNCHANGED <<taskQueue, taskmutex, stop, pc, channels, callerPc, executed>>

-----------------------------------------------------------------------------
LoopStep ==
  \/ Start \/ CheckStop \/ EpollReady \/ HandleOther \/ ReadWakeup
  \/ LockTasks \/ RunTask \/ UnlockTasks \/ EndBatch

CallerStep == \E c \in Caller : Wakeup(c) \/ \E t \in Task : QueueInLoop(c, t)

Next == LoopStep \/ EpollTimeout \/ CallerStep \/ Stop \/ StopWakeup

\* The loop's thread keeps running and a thread inside queueInLoop() or
\* stop() finishes the call.  The ten-second timeout is not relied upon:
\* epoll_wait() is owed a return only while wakeupfd_ is readable.  The kernel's
\* list of ready descriptors is first in, first out, so that wakeupfd_ gets its
\* turn however many others are ready.
Fairness ==
  /\ WF_vars(LoopStep /\ (pc = "wait" => wakefd > 0))
  /\ SF_vars(EpollReady /\ "wake" \in channels')
  /\ \A c \in Caller : WF_vars(Wakeup(c))
  /\ WF_vars(StopWakeup)

Spec == Init /\ [][Next]_vars /\ Fairness

-----------------------------------------------------------------------------
(***************************************************************************)
(* A task that waits is never forgotten: the eventfd is readable, or the   *)
(* thread that pushed it has yet to write to it, or handlewakeup() is      *)
(* between its read() and the end of its drain.  This is why              *)
(* handlewakeup() may read first and why it must drain the queue.          *)
(***************************************************************************)
NoLostWakeup ==
  taskQueue # << >> =>
    \/ wakefd > 0
    \/ \E c \in Caller : callerPc[c] = "wakeup"
    \/ pc \in {"lock", "drain"}

(***************************************************************************)
(* The loop never goes to sleep on a stop request: whenever its thread is  *)
(* in epoll_wait() with stop_ set, the eventfd is readable or stop() is    *)
(* about to write to it (the comment in EventLoop::stop()).                *)
(***************************************************************************)
NoLostStop ==
  (stop /\ pc = "wait") => (wakefd > 0 \/ stopPc = "wakeup")

\* run() returns after stop() without the help of timers or of the
\* ten-second epoll timeout.
StopReturns == stop ~> (pc = "exited")

\* What queueInLoop() promises its callers.
TQ == INSTANCE TaskQueue WITH pending <- taskQueue, taken <- executed, closed <- stop

\* Tasks run one at a time, in the order queueInLoop() took them, each once,
\* and every one of them in the end unless the loop is stopped.
ImplementsTaskQueue == TQ!Spec
=============================================================================
