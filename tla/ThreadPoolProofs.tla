-------------------------- MODULE ThreadPoolProofs --------------------------
(***************************************************************************)
(* Proofs about ThreadPool for any finite set of workers and submitters.   *)
(***************************************************************************)
EXTENDS ThreadPool, FiniteSetTheorems, TLAPS

(***************************************************************************)
(* What the properties rest on: a worker between its predicate and its     *)
(* sleep is alone there, for it holds the mutex, and the queue is empty.   *)
(***************************************************************************)
MutexInv ==
  /\ \A v, w \in Worker : pc[v] = "block" /\ pc[w] = "block" => v = w
  /\ \A w \in Worker : pc[w] = "block" => taskqueue = << >>

IInv == TypeOK /\ MutexInv /\ AtMostOneLeftAsleep

LEMMA InitIInv == Init => IInv
<1> SUFFICES ASSUME Init PROVE IInv
  OBVIOUS
<1>1. TypeOK
  <2>1. taskqueue \in Seq(Task) /\ started \in Seq(Task)
    BY DEF Init
  <2>2. pc \in [Worker -> WorkerPc] /\ submitterPc \in [Submitter -> {"idle", "notify"}]
    BY DEF Init, WorkerPc
  <2> QED
    BY <2>1, <2>2 DEF Init, TypeOK
<1>2. MutexInv /\ AtMostOneLeftAsleep
  BY DEF Init, MutexInv, AtMostOneLeftAsleep
<1> QED
  BY <1>1, <1>2 DEF IInv

\* Every step keeps the variables in their types.
LEMMA NextTypeOK == TypeOK /\ [Next]_vars => TypeOK'
<1> SUFFICES ASSUME TypeOK, [Next]_vars PROVE TypeOK'
  OBVIOUS
<1> USE DEF TypeOK, WorkerPc, Goto
<1>1. ASSUME NEW w \in Worker, TakeTask(w) PROVE TypeOK'
  BY <1>1 DEF TakeTask
<1>2. ASSUME NEW w \in Worker, CheckStop(w) PROVE TypeOK'
  BY <1>2 DEF CheckStop
<1>3. ASSUME NEW w \in Worker, ReturnOnStop(w) \/ Block(w) \/ Sleep(w)
                               \/ FinishTask(w) \/ SpuriousWakeup(w)
      PROVE  TypeOK'
  BY <1>3 DEF ReturnOnStop, Block, Sleep, FinishTask, SpuriousWakeup
<1>4. ASSUME NEW s \in Submitter, NEW t \in Task, AddTask(s, t) PROVE TypeOK'
  BY <1>4 DEF AddTask
<1>5. ASSUME NEW s \in Submitter, NotifyOne(s) PROVE TypeOK'
  <2>1. pc' \in [Worker -> WorkerPc]
    BY <1>5 DEF NotifyOne
  <2> QED
    BY <1>5, <2>1 DEF NotifyOne
<1>6. CASE Stop
  BY <1>6 DEF Stop
<1>7. CASE NotifyAll
  BY <1>7 DEF NotifyAll
<1>8. CASE Join
  BY <1>8 DEF Join
<1>9. CASE UNCHANGED vars
  BY <1>9 DEF vars
<1> QED
  BY <1>1, <1>2, <1>3, <1>4, <1>5, <1>6, <1>7, <1>8, <1>9
     DEF Next, WorkerStep, SubmitterStep, StopStep

\* The workers between their predicate and their sleep, and those asleep.
\* Only Block() adds one, and it needs a free mutex and no stop_.
LEMMA NextAsleep == IInv /\ [Next]_vars => MutexInv' /\ AtMostOneLeftAsleep'
<1> SUFFICES ASSUME IInv, [Next]_vars
             PROVE  MutexInv' /\ AtMostOneLeftAsleep'
  OBVIOUS
<1> USE DEF IInv, TypeOK, MutexInv, AtMostOneLeftAsleep, At, Goto, MutexFree
<1>1. ASSUME NEW w \in Worker, TakeTask(w)
      PROVE  MutexInv' /\ AtMostOneLeftAsleep'
  BY <1>1 DEF TakeTask
<1>2. ASSUME NEW w \in Worker, CheckStop(w)
      PROVE  MutexInv' /\ AtMostOneLeftAsleep'
  BY <1>2 DEF CheckStop
<1>3. ASSUME NEW w \in Worker, ReturnOnStop(w) \/ FinishTask(w) \/ SpuriousWakeup(w)
      PROVE  MutexInv' /\ AtMostOneLeftAsleep'
  BY <1>3 DEF ReturnOnStop, FinishTask, SpuriousWakeup
<1>4. ASSUME NEW w \in Worker, Block(w)
      PROVE  MutexInv' /\ AtMostOneLeftAsleep'
  BY <1>4 DEF Block
<1>5. ASSUME NEW w \in Worker, Sleep(w)
      PROVE  MutexInv' /\ AtMostOneLeftAsleep'
  BY <1>5 DEF Sleep
<1>6. ASSUME NEW s \in Submitter, NEW t \in Task, AddTask(s, t)
      PROVE  MutexInv' /\ AtMostOneLeftAsleep'
  BY <1>6 DEF AddTask
<1>7. ASSUME NEW s \in Submitter, NotifyOne(s)
      PROVE  MutexInv' /\ AtMostOneLeftAsleep'
  BY <1>7 DEF NotifyOne
<1>8. CASE Stop
  BY <1>8 DEF Stop
<1>9. CASE NotifyAll
  BY <1>9 DEF NotifyAll
<1>10. CASE Join \/ UNCHANGED vars
  BY <1>10 DEF Join, vars
<1> QED
  BY <1>1, <1>2, <1>3, <1>4, <1>5, <1>6, <1>7, <1>8, <1>9, <1>10
     DEF Next, WorkerStep, SubmitterStep, StopStep

LEMMA Invariance == Spec => []IInv
<1>1. IInv /\ [Next]_vars => IInv'
  BY NextTypeOK, NextAsleep DEF IInv
<1> QED
  BY InitIInv, <1>1, PTL DEF Spec

(***************************************************************************)
(* Type correctness of the thread pool.                                    *)
(***************************************************************************)
THEOREM TypeCorrect == Spec => []TypeOK
  BY Invariance, PTL DEF IInv

(***************************************************************************)
(* stop(): notify_all() misses one worker at the most, however many there  *)
(* are and wherever they are when stop_ changes.                           *)
(***************************************************************************)
THEOREM AtMostOneMissed == Spec => []AtMostOneLeftAsleep
  BY Invariance, PTL DEF IInv

-----------------------------------------------------------------------------
\* Workers that are about to look at the queue.
Ready == At({"test", "lock"})

LEMMA FiniteCounts ==
  /\ IsFiniteSet(Ready) /\ Cardinality(Ready) \in Nat
  /\ IsFiniteSet(Notifying) /\ Cardinality(Notifying) \in Nat
<1>1. Ready \subseteq Worker /\ Notifying \subseteq Submitter
  BY DEF Ready, At, Notifying
<1>2. IsFiniteSet(Ready) /\ IsFiniteSet(Notifying)
  BY <1>1, FS_Subset, ThreadPoolAssumption
<1> QED
  BY <1>2, FS_CardinalityType

\* A worker that leaves a state outside Ready for one inside adds one to it.
LEMMA OneMoreReady ==
  ASSUME TypeOK, NEW w \in Worker, NEW to \in {"test", "lock"},
         pc[w] \notin {"test", "lock"}, pc' = [pc EXCEPT ![w] = to]
  PROVE  Cardinality(Ready') = Cardinality(Ready) + 1
<1>1. Ready' = Ready \cup {w} /\ w \notin Ready
  BY DEF Ready, At, TypeOK
<1> QED
  BY <1>1, FiniteCounts, FS_AddElement

LEMMA OneLessReady ==
  ASSUME TypeOK, NEW w \in Worker, NEW to \in WorkerPc \ {"test", "lock"},
         pc[w] \in {"test", "lock"}, pc' = [pc EXCEPT ![w] = to]
  PROVE  Cardinality(Ready') = Cardinality(Ready) - 1
<1>1. Ready' = Ready \ {w} /\ w \in Ready
  BY DEF Ready, At, TypeOK
<1> QED
  BY <1>1, FiniteCounts, FS_RemoveElement

\* Steps that leave the queue and the notifiers alone and move one worker,
\* from sleep or from its task, back to looking at the queue.
LEMMA WorkerBecomesReady ==
  ASSUME TypeOK, EnoughAwake, NEW w \in Worker, NEW from \in {"waiting", "run"},
         NEW to \in {"test", "lock"}, Goto(w, from, to),
         UNCHANGED <<taskqueue, stop, submitterPc>>
  PROVE  EnoughAwake'
<1>1. Cardinality(Ready') = Cardinality(Ready) + 1
  BY OneMoreReady DEF Goto
<1>2. At({"waiting"})' \subseteq At({"waiting"}) /\ Notifying' = Notifying
  BY DEF At, Goto, TypeOK, Notifying
<1>3. Len(taskqueue) \in Nat
  BY DEF TypeOK
<1> QED
  BY <1>1, <1>2, <1>3, FiniteCounts DEF EnoughAwake, Ready

\* No step leaves a worker asleep beside a task nobody is coming for.
LEMMA NextEnoughAwake == IInv /\ EnoughAwake /\ [Next]_vars => EnoughAwake'
<1> SUFFICES ASSUME IInv, EnoughAwake, [Next]_vars PROVE EnoughAwake'
  OBVIOUS
<1>t. TypeOK /\ MutexInv /\ Len(taskqueue) \in Nat
  BY DEF IInv, TypeOK
<1>0. ASSUME UNCHANGED <<taskqueue, stop, submitterPc>>, At({"waiting"})' = At({"waiting"}),
             Ready' = Ready
      PROVE  EnoughAwake'
  BY <1>0 DEF EnoughAwake, Notifying, Ready
<1>1. ASSUME NEW w \in Worker, TakeTask(w) PROVE EnoughAwake'
  <2>1. Cardinality(Ready') = Cardinality(Ready) - 1
    BY <1>t, <1>1, OneLessReady DEF TakeTask, Goto, WorkerPc
  <2>2. At({"waiting"})' = At({"waiting"}) /\ Notifying' = Notifying
    BY <1>t, <1>1 DEF TakeTask, At, Goto, TypeOK, Notifying
  <2>3. Len(taskqueue') = Len(taskqueue) - 1 /\ stop' = stop
    BY <1>t, <1>1 DEF TakeTask, TypeOK
  <2> QED
    BY <2>1, <2>2, <2>3, <1>t, FiniteCounts DEF EnoughAwake, Ready
<1>2. ASSUME NEW w \in Worker, CheckStop(w) PROVE EnoughAwake'
  <2>1. CASE stop
    BY <1>2, <2>1 DEF CheckStop, EnoughAwake
  <2>2. CASE ~stop
    BY <1>t, <1>2, <2>2, <1>0 DEF CheckStop, At, Ready, Goto, TypeOK
  <2> QED
    BY <2>1, <2>2
<1>3. ASSUME NEW w \in Worker, ReturnOnStop(w) PROVE EnoughAwake'
  BY <1>3 DEF ReturnOnStop, EnoughAwake
<1>4. ASSUME NEW w \in Worker, Block(w) \/ Sleep(w) PROVE EnoughAwake'
  <2>1. taskqueue' = << >>
    BY <1>t, <1>4 DEF Block, Sleep, MutexInv, Goto
  <2>2. Cardinality(Ready') \in Nat /\ Cardinality(Notifying') \in Nat
    <3>1. Ready' \subseteq Worker /\ Notifying' \subseteq Submitter
      BY DEF Ready, At, Notifying
    <3>2. IsFiniteSet(Ready') /\ IsFiniteSet(Notifying')
      BY <3>1, FS_Subset, ThreadPoolAssumption
    <3> QED
      BY <3>2, FS_CardinalityType
  <2> QED
    BY <2>1, <2>2 DEF EnoughAwake, Ready
<1>5. ASSUME NEW w \in Worker, FinishTask(w) PROVE EnoughAwake'
  BY <1>t, <1>5, WorkerBecomesReady DEF FinishTask
<1>6. ASSUME NEW w \in Worker, SpuriousWakeup(w) PROVE EnoughAwake'
  BY <1>t, <1>6, WorkerBecomesReady DEF SpuriousWakeup
<1>7. ASSUME NEW s \in Submitter, NEW t \in Task, AddTask(s, t) PROVE EnoughAwake'
  <2>1. Notifying' = Notifying \cup {s} /\ s \notin Notifying
    BY <1>t, <1>7 DEF AddTask, Notifying, TypeOK
  <2>2. Cardinality(Notifying') = Cardinality(Notifying) + 1
    BY <2>1, FiniteCounts, FS_AddElement
  <2>3. Len(taskqueue') = Len(taskqueue) + 1 /\ stop' = stop /\ pc' = pc
    BY <1>t, <1>7 DEF AddTask, TypeOK
  <2> QED
    BY <2>2, <2>3, <1>t, FiniteCounts DEF EnoughAwake, Ready, At
<1>8. ASSUME NEW s \in Submitter, NotifyOne(s) PROVE EnoughAwake'
  <2>1. Notifying' = Notifying \ {s} /\ s \in Notifying
    BY <1>t, <1>8 DEF NotifyOne, Notifying, TypeOK
  <2>2. Cardinality(Notifying') = Cardinality(Notifying) - 1
    BY <2>1, FiniteCounts, FS_RemoveElement
  <2>3. CASE At({"waiting"}) = {}
    BY <1>8, <2>3 DEF NotifyOne, EnoughAwake, At
  <2>4. CASE At({"waiting"}) # {}
    <3>1. PICK w \in Worker : Goto(w, "waiting", "lock")
      BY <1>8, <2>4 DEF NotifyOne
    <3>2. Cardinality(Ready') = Cardinality(Ready) + 1
      BY <1>t, <3>1, OneMoreReady DEF Goto
    <3> QED
      BY <1>t, <1>8, <2>2, <2>4, <3>2, FiniteCounts DEF NotifyOne, EnoughAwake, Ready
  <2> QED
    BY <2>3, <2>4
<1>9. CASE Stop
  BY <1>9 DEF Stop, EnoughAwake
<1>10. CASE NotifyAll
  BY <1>t, <1>10 DEF NotifyAll, TypeOK, EnoughAwake
<1>11. CASE Join
  BY <1>0, <1>11 DEF Join, At, Ready
<1>12. CASE UNCHANGED vars
  BY <1>0, <1>12 DEF vars, At, Ready
<1> QED
  BY <1>1, <1>2, <1>3, <1>4, <1>5, <1>6, <1>7, <1>8, <1>9, <1>10, <1>11, <1>12
     DEF Next, WorkerStep, SubmitterStep, StopStep

(***************************************************************************)
(* addtask() against wait(): until stop(), no worker sleeps while a queued *)
(* task has neither a notify on its way nor a worker coming for it.        *)
(***************************************************************************)
THEOREM NobodySleepsBesideWork == Spec => []EnoughAwake
<1>1. Init => EnoughAwake
  BY DEF Init, EnoughAwake, At
<1> QED
  BY <1>1, NextEnoughAwake, Invariance, PTL DEF Spec

-----------------------------------------------------------------------------
\* A pop takes the oldest task, a push adds one, stop() closes; every other
\* step leaves the abstract queue alone.
LEMMA StepRefines == TypeOK /\ [Next]_vars => [TQ!Next]_(TQ!vars)
<1> SUFFICES ASSUME TypeOK, [Next]_vars PROVE [TQ!Next]_(TQ!vars)
  OBVIOUS
<1> USE DEF TQ!vars
<1>1. ASSUME NEW w \in Worker, TakeTask(w) PROVE [TQ!Next]_(TQ!vars)
  BY <1>1 DEF TakeTask, TQ!Next, TQ!Take
<1>2. ASSUME NEW s \in Submitter, NEW t \in Task, AddTask(s, t)
      PROVE  [TQ!Next]_(TQ!vars)
  BY <1>2 DEF AddTask, TQ!Next, TQ!Submit
<1>3. CASE Stop
  BY <1>3 DEF Stop, TQ!Next, TQ!Close
<1>4. ASSUME NEW w \in Worker, \/ CheckStop(w) \/ ReturnOnStop(w) \/ Block(w)
                               \/ Sleep(w) \/ FinishTask(w) \/ SpuriousWakeup(w)
      PROVE  [TQ!Next]_(TQ!vars)
  BY <1>4 DEF CheckStop, ReturnOnStop, Block, Sleep, FinishTask, SpuriousWakeup
<1>5. ASSUME NEW s \in Submitter, NotifyOne(s) PROVE [TQ!Next]_(TQ!vars)
  BY <1>5 DEF NotifyOne
<1>6. CASE NotifyAll \/ Join \/ UNCHANGED vars
  BY <1>6 DEF NotifyAll, Join, vars
<1> QED
  BY <1>1, <1>2, <1>3, <1>4, <1>5, <1>6 DEF Next, WorkerStep, SubmitterStep, StopStep

(***************************************************************************)
(* The pool's queue implements the safety part of TaskQueue: whatever the  *)
(* number of workers, tasks start in the order of addtask(), each at most  *)
(* once.                                                                   *)
(***************************************************************************)
THEOREM RefinesTaskQueue == Spec => TQ!SafeSpec
<1>1. Init => TQ!Init
  BY DEF Init, TQ!Init
<1> QED
  BY <1>1, StepRefines, TypeCorrect, PTL DEF Spec, TQ!SafeSpec
=============================================================================
