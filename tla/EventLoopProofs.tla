--------------------------- MODULE EventLoopProofs ---------------------------
(***************************************************************************)
(* Proofs about EventLoop for any set of callers, tasks and channels.      *)
(***************************************************************************)
EXTENDS EventLoop, TLAPS

(***************************************************************************)
(* The inductive invariant.  NoLostWakeup and NoLostStop are inductive     *)
(* relative to the types; nothing has to be known about the mutex, because *)
(* handlewakeup() empties the queue after its read() of the eventfd.       *)
(***************************************************************************)
IInv == TypeOK /\ NoLostWakeup /\ NoLostStop

LEMMA InitIInv == Init => IInv
<1> SUFFICES ASSUME Init PROVE IInv
  OBVIOUS
<1>1. TypeOK
  <2>1. taskQueue \in Seq(Task) /\ executed \in Seq(Task)
    BY DEF Init
  <2>2. callerPc \in [Caller -> {"idle", "wakeup"}]
    BY DEF Init
  <2>3. /\ taskmutex \in {"free", "loop"} /\ wakefd \in Nat /\ stop \in BOOLEAN
        /\ pc \in LoopPc /\ channels = {} /\ stopPc \in {"idle", "wakeup", "done"}
    BY DEF Init, LoopPc
  <2> QED
    BY <2>1, <2>2, <2>3 DEF TypeOK
<1>2. NoLostWakeup /\ NoLostStop
  BY DEF Init, NoLostWakeup, NoLostStop
<1> QED
  BY <1>1, <1>2 DEF IInv

\* Every step keeps the variables in their types.
LEMMA NextTypeOK == TypeOK /\ [Next]_vars => TypeOK'
<1> SUFFICES ASSUME TypeOK, [Next]_vars PROVE TypeOK'
  OBVIOUS
<1> USE DEF TypeOK, LoopPc
<1>1. CASE Start
  BY <1>1 DEF Start
<1>2. CASE CheckStop
  BY <1>2 DEF CheckStop
<1>3. CASE EpollReady
  BY <1>3 DEF EpollReady, Batches
<1>4. CASE HandleOther
  BY <1>4 DEF HandleOther
<1>5. CASE ReadWakeup
  BY <1>5 DEF ReadWakeup
<1>6. CASE LockTasks
  BY <1>6 DEF LockTasks
<1>7. CASE RunTask
  BY <1>7 DEF RunTask
<1>8. CASE UnlockTasks
  BY <1>8 DEF UnlockTasks
<1>9. CASE EndBatch
  BY <1>9 DEF EndBatch
<1>10. CASE EpollTimeout
  BY <1>10 DEF EpollTimeout
<1>11. ASSUME NEW c \in Caller, NEW t \in Task, QueueInLoop(c, t)
       PROVE  TypeOK'
  BY <1>11 DEF QueueInLoop
<1>12. ASSUME NEW c \in Caller, Wakeup(c)
       PROVE  TypeOK'
  BY <1>12 DEF Wakeup
<1>13. CASE Stop
  BY <1>13 DEF Stop
<1>14. CASE StopWakeup
  BY <1>14 DEF StopWakeup
<1>15. CASE UNCHANGED vars
  BY <1>15 DEF vars
<1> QED
  BY <1>1, <1>2, <1>3, <1>4, <1>5, <1>6, <1>7, <1>8, <1>9, <1>10, <1>11, <1>12,
     <1>13, <1>14, <1>15 DEF Next, LoopStep, CallerStep

\* No step loses a wakeup.  The interesting ones are the read of the eventfd,
\* which happens before the drain, and the unlock, which needs an empty queue.
LEMMA NextNoLostWakeup == TypeOK /\ NoLostWakeup /\ [Next]_vars => NoLostWakeup'
<1> SUFFICES ASSUME TypeOK, NoLostWakeup, [Next]_vars PROVE NoLostWakeup'
  OBVIOUS
<1> USE DEF NoLostWakeup
<1>1. CASE Start \/ CheckStop \/ EpollReady \/ HandleOther \/ EndBatch \/ EpollTimeout
  BY <1>1 DEF Start, CheckStop, EpollReady, HandleOther, EndBatch, EpollTimeout
<1>2. CASE ReadWakeup \/ LockTasks \/ RunTask
  BY <1>2 DEF ReadWakeup, LockTasks, RunTask
<1>3. CASE UnlockTasks
  BY <1>3 DEF UnlockTasks
<1>4. ASSUME NEW c \in Caller, NEW t \in Task, QueueInLoop(c, t)
      PROVE  NoLostWakeup'
  <2>1. callerPc'[c] = "wakeup"
    BY <1>4 DEF QueueInLoop, TypeOK
  <2> QED
    BY <2>1
<1>5. ASSUME NEW c \in Caller, Wakeup(c)
      PROVE  NoLostWakeup'
  <2>1. wakefd' > 0
    BY <1>5 DEF Wakeup, TypeOK
  <2> QED
    BY <2>1
<1>6. CASE Stop
  BY <1>6 DEF Stop
<1>7. CASE StopWakeup
  BY <1>7 DEF StopWakeup, TypeOK
<1>8. CASE UNCHANGED vars
  BY <1>8 DEF vars
<1> QED
  BY <1>1, <1>2, <1>3, <1>4, <1>5, <1>6, <1>7, <1>8 DEF Next, LoopStep, CallerStep

\* No step sends the loop to sleep on a stop request.
LEMMA NextNoLostStop == TypeOK /\ NoLostStop /\ [Next]_vars => NoLostStop'
<1> SUFFICES ASSUME TypeOK, NoLostStop, [Next]_vars PROVE NoLostStop'
  OBVIOUS
<1> USE DEF NoLostStop
<1>1. CASE CheckStop
  BY <1>1 DEF CheckStop
<1>2. CASE \/ Start \/ EpollReady \/ HandleOther \/ ReadWakeup \/ LockTasks
           \/ RunTask \/ UnlockTasks \/ EndBatch \/ EpollTimeout
  BY <1>2 DEF Start, EpollReady, HandleOther, ReadWakeup, LockTasks, RunTask,
              UnlockTasks, EndBatch, EpollTimeout
<1>3. ASSUME NEW c \in Caller, NEW t \in Task, QueueInLoop(c, t)
      PROVE  NoLostStop'
  BY <1>3 DEF QueueInLoop
<1>4. ASSUME NEW c \in Caller, Wakeup(c)
      PROVE  NoLostStop'
  BY <1>4 DEF Wakeup, TypeOK
<1>5. CASE Stop
  BY <1>5 DEF Stop
<1>6. CASE StopWakeup
  BY <1>6 DEF StopWakeup, TypeOK
<1>7. CASE UNCHANGED vars
  BY <1>7 DEF vars
<1> QED
  BY <1>1, <1>2, <1>3, <1>4, <1>5, <1>6, <1>7 DEF Next, LoopStep, CallerStep

LEMMA Invariance == Spec => []IInv
<1>1. IInv /\ [Next]_vars => IInv'
  BY NextTypeOK, NextNoLostWakeup, NextNoLostStop DEF IInv
<1> QED
  BY InitIInv, <1>1, PTL DEF Spec

(***************************************************************************)
(* Type correctness of the event loop.                                     *)
(***************************************************************************)
THEOREM TypeCorrect == Spec => []TypeOK
  BY Invariance, PTL DEF IInv

(***************************************************************************)
(* queueInLoop() from any number of threads: no task is left in taskQueue_ *)
(* without a wakeup on its way.                                            *)
(***************************************************************************)
THEOREM WakeupNeverLost == Spec => []NoLostWakeup
  BY Invariance, PTL DEF IInv

(***************************************************************************)
(* stop() from another thread: run() never sleeps in epoll_wait() on a     *)
(* stop_ it has not seen.                                                  *)
(***************************************************************************)
THEOREM StopNeverLost == Spec => []NoLostStop
  BY Invariance, PTL DEF IInv

-----------------------------------------------------------------------------
\* A step of the loop takes the oldest task, a push adds one, stop() closes;
\* every other step leaves the abstract queue alone.
LEMMA StepRefines == TypeOK /\ [Next]_vars => [TQ!Next]_(TQ!vars)
<1> SUFFICES ASSUME TypeOK, [Next]_vars PROVE [TQ!Next]_(TQ!vars)
  OBVIOUS
<1> USE DEF TQ!vars
<1>1. CASE RunTask
  BY <1>1 DEF RunTask, TQ!Next, TQ!Take
<1>2. ASSUME NEW c \in Caller, NEW t \in Task, QueueInLoop(c, t)
      PROVE  [TQ!Next]_(TQ!vars)
  BY <1>2 DEF QueueInLoop, TQ!Next, TQ!Submit
<1>3. CASE Stop
  BY <1>3 DEF Stop, TQ!Next, TQ!Close
<1>4. CASE \/ Start \/ CheckStop \/ EpollReady \/ HandleOther \/ ReadWakeup
           \/ LockTasks \/ UnlockTasks \/ EndBatch \/ EpollTimeout \/ StopWakeup
  BY <1>4 DEF Start, CheckStop, EpollReady, HandleOther, ReadWakeup, LockTasks,
              UnlockTasks, EndBatch, EpollTimeout, StopWakeup
<1>5. ASSUME NEW c \in Caller, Wakeup(c)
      PROVE  [TQ!Next]_(TQ!vars)
  BY <1>5 DEF Wakeup
<1>6. CASE UNCHANGED vars
  BY <1>6 DEF vars
<1> QED
  BY <1>1, <1>2, <1>3, <1>4, <1>5, <1>6 DEF Next, LoopStep, CallerStep

(***************************************************************************)
(* The event loop's queue implements the safety part of TaskQueue: tasks   *)
(* run in the order they were handed over, each at most once.              *)
(***************************************************************************)
THEOREM RefinesTaskQueue == Spec => TQ!SafeSpec
<1>1. Init => TQ!Init
  BY DEF Init, TQ!Init
<1> QED
  BY <1>1, StepRefines, TypeCorrect, PTL DEF Spec, TQ!SafeSpec
=============================================================================
