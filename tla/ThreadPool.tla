----------------------------- MODULE ThreadPool -----------------------------
(***************************************************************************)
(* ThreadPool: worker threads that share one queue of tasks, a mutex and a *)
(* condition variable.  stop() sets the atomic stop_ without the mutex,    *)
(* so a worker may be anywhere when it changes.                            *)
(***************************************************************************)
EXTENDS Naturals, Sequences, FiniteSets

CONSTANTS
  Worker,        \* threads_
  Submitter,     \* threads that call addtask()
  Task           \* the callbacks, each handed over once

ASSUME ThreadPoolAssumption == IsFiniteSet(Worker) /\ IsFiniteSet(Submitter)

VARIABLES
  taskqueue,     \* taskqueue_
  stop,          \* stop_
  pc,            \* where each worker is in the lambda of the constructor
  submitterPc,   \* where each submitter is in addtask()
  stopPc,        \* where the one caller of stop() is
  started        \* history: the tasks popped so far, in order

vars == <<taskqueue, stop, pc, submitterPc, stopPc, started>>

\* "test": while (stop_ == false).  "lock": acquires mutex_, from above or from
\* inside wait().  "block": the predicate was false and mutex_ is still held.
\* "waiting": asleep in wait(), mutex_ released.  "run": inside task().
WorkerPc == {"test", "lock", "block", "waiting", "run", "exited"}

MutexFree == \A w \in Worker : pc[w] # "block"
At(labels) == {w \in Worker : pc[w] \in labels}
Notifying == {s \in Submitter : submitterPc[s] = "notify"}
Handed == {taskqueue[i] : i \in DOMAIN taskqueue} \cup {started[i] : i \in DOMAIN started}

TypeOK ==
  /\ taskqueue \in Seq(Task) /\ started \in Seq(Task)
  /\ stop \in BOOLEAN /\ stop = (stopPc # "idle")
  /\ pc \in [Worker -> WorkerPc]
  /\ submitterPc \in [Submitter -> {"idle", "notify"}]
  /\ stopPc \in {"idle", "notify", "join", "done"}

Init ==
  /\ taskqueue = << >> /\ started = << >>
  /\ stop = FALSE
  /\ pc = [w \in Worker |-> "test"]
  /\ submitterPc = [s \in Submitter |-> "idle"]
  /\ stopPc = "idle"

-----------------------------------------------------------------------------
\* A worker

Goto(w, from, to) == pc[w] = from /\ pc' = [pc EXCEPT ![w] = to]

CheckStop(w) ==
  /\ Goto(w, "test", IF stop THEN "exited" ELSE "lock")
  /\ UNCHANGED <<taskqueue, stop, submitterPc, stopPc, started>>

\* pop() forgotten.
TakeTask_NoPop(w) ==
  /\ MutexFree /\ taskqueue # << >>
  /\ Goto(w, "lock", "run")
  /\ started' = Append(started, Head(taskqueue))
  /\ UNCHANGED <<taskqueue, stop, submitterPc, stopPc>>

\* The predicate of wait() holds because of the queue, whatever stop_ is.
TakeTask(w) ==
  /\ MutexFree /\ taskqueue # << >>
  /\ Goto(w, "lock", "run")
  /\ taskqueue' = Tail(taskqueue)
  /\ started' = Append(started, Head(taskqueue))
  /\ UNCHANGED <<stop, submitterPc, stopPc>>

\* The predicate holds because of stop_ alone.
ReturnOnStop(w) ==
  /\ MutexFree /\ taskqueue = << >> /\ stop
  /\ Goto(w, "lock", "exited")
  /\ UNCHANGED <<taskqueue, stop, submitterPc, stopPc, started>>

\* A predicate that looks at the queue only.
Block_IgnoresStop(w) ==
  /\ MutexFree /\ taskqueue = << >>
  /\ Goto(w, "lock", "block")
  /\ UNCHANGED <<taskqueue, stop, submitterPc, stopPc, started>>

\* The predicate is false: nothing to do and no stop_ seen ...
Block(w) ==
  /\ MutexFree /\ taskqueue = << >> /\ ~stop
  /\ Goto(w, "lock", "block")
  /\ UNCHANGED <<taskqueue, stop, submitterPc, stopPc, started>>

\* ... and wait() releases the mutex and sleeps, in one step.
Sleep(w) ==
  /\ Goto(w, "block", "waiting")
  /\ UNCHANGED <<taskqueue, stop, submitterPc, stopPc, started>>

SpuriousWakeup(w) ==
  /\ Goto(w, "waiting", "lock")
  /\ UNCHANGED <<taskqueue, stop, submitterPc, stopPc, started>>

FinishTask(w) ==
  /\ Goto(w, "run", "test")
  /\ UNCHANGED <<taskqueue, stop, submitterPc, stopPc, started>>

-----------------------------------------------------------------------------
\* addtask(): the push under the mutex, then notify_one() without it.

\* addtask() that notifies only when the queue was empty before its push.
AddTask_NotifyWhenEmpty(s, t) ==
  /\ submitterPc[s] = "idle" /\ MutexFree /\ t \notin Handed
  /\ taskqueue' = Append(taskqueue, t)
  /\ submitterPc' = [submitterPc EXCEPT
                       ![s] = IF taskqueue = << >> THEN "notify" ELSE "idle"]
  /\ UNCHANGED <<stop, pc, stopPc, started>>

AddTask(s, t) ==
  /\ submitterPc[s] = "idle" /\ MutexFree /\ t \notin Handed
  /\ taskqueue' = Append(taskqueue, t)
  /\ submitterPc' = [submitterPc EXCEPT ![s] = "notify"]
  /\ UNCHANGED <<stop, pc, stopPc, started>>

\* Any one of the sleeping workers is woken; with none asleep the call is lost.
NotifyOne(s) ==
  /\ submitterPc[s] = "notify"
  /\ IF At({"waiting"}) = {} THEN pc' = pc
     ELSE \E w \in Worker : Goto(w, "waiting", "lock")
  /\ submitterPc' = [submitterPc EXCEPT ![s] = "idle"]
  /\ UNCHANGED <<taskqueue, stop, stopPc, started>>

-----------------------------------------------------------------------------
\* stop(): stop_ = true, notify_all(), join() of every thread.  A second call
\* returns at once and changes nothing.

\* stop_ = true forgotten.
Stop_NotSet ==
  /\ stopPc = "idle"
  /\ stopPc' = "notify"
  /\ UNCHANGED <<taskqueue, stop, pc, submitterPc, started>>

Stop ==
  /\ stopPc = "idle"
  /\ stop' = TRUE /\ stopPc' = "notify"
  /\ UNCHANGED <<taskqueue, pc, submitterPc, started>>

\* notify_one() in place of notify_all().
NotifyAll_One ==
  /\ stopPc = "notify"
  /\ IF At({"waiting"}) = {} THEN pc' = pc
     ELSE \E w \in Worker : Goto(w, "waiting", "lock")
  /\ stopPc' = "join"
  /\ UNCHANGED <<taskqueue, stop, submitterPc, started>>

NotifyAll ==
  /\ stopPc = "notify"
  /\ pc' = [w \in Worker |-> IF pc[w] = "waiting" THEN "lock" ELSE pc[w]]
  /\ stopPc' = "join"
  /\ UNCHANGED <<taskqueue, stop, submitterPc, started>>

Join ==
  /\ stopPc = "join" /\ At({"exited"}) = Worker
  /\ stopPc' = "done"
  /\ UNCHANGED <<taskqueue, stop, pc, submitterPc, started>>

-----------------------------------------------------------------------------
WorkerStep(w) ==
  \/ CheckStop(w) \/ TakeTask(w) \/ ReturnOnStop(w) \/ Block(w) \/ Sleep(w)
  \/ FinishTask(w)

SubmitterStep(s) == NotifyOne(s) \/ \E t \in Task : AddTask(s, t)

StopStep == Stop \/ NotifyAll \/ Join

Next ==
  \/ \E w \in Worker : WorkerStep(w) \/ SpuriousWakeup(w)
  \/ \E s \in Submitter : SubmitterStep(s)
  \/ StopStep

\* Threads keep running and tasks return.  Nothing is assumed of spurious
\* wakeups, of new submissions, or that anyone calls stop().
Fairness ==
  /\ \A w \in Worker : WF_vars(WorkerStep(w))
  /\ \A s \in Submitter : WF_vars(NotifyOne(s))
  /\ WF_vars(NotifyAll) /\ WF_vars(Join)

Spec == Init /\ [][Next]_vars /\ Fairness

-----------------------------------------------------------------------------
(***************************************************************************)
(* addtask() notifies after it unlocked, and notify_one() is lost when     *)
(* nobody sleeps yet.  Even so no worker sleeps beside work: until stop(), *)
(* each queued task has a notify on its way or a worker of its own that is *)
(* about to look at the queue.                                             *)
(***************************************************************************)
EnoughAwake ==
  (~stop /\ At({"waiting"}) # {}) =>
    Len(taskqueue) <= Cardinality(Notifying) + Cardinality(At({"test", "lock"}))

(***************************************************************************)
(* stop_ is set without the mutex, so notify_all() can miss a worker that  *)
(* has evaluated the predicate and not gone to sleep yet.  It misses at    *)
(* most one: that worker holds mutex_, and no other can follow it.         *)
(***************************************************************************)
AtMostOneLeftAsleep ==
  stopPc \in {"join", "done"} =>
    \A v, w \in At({"block", "waiting"}) : v = w

\* When notify_all() missed nobody, stop() joins every worker and returns.
StopReturnsUnlessMissed ==
  (stopPc = "join" /\ At({"block", "waiting"}) = {}) ~> (stopPc = "done")

TQ == INSTANCE TaskQueue WITH pending <- taskqueue, taken <- started, closed <- stop

\* addtask(): tasks start in the order they were queued, each once, and until
\* stop() is called every one of them is started.
ImplementsTaskQueue == TQ!Spec

-----------------------------------------------------------------------------
(***************************************************************************)
(* "stop() sets stop_ and all the threads exit" (ThreadPool.h), "wait for  *)
(* all the threads to exit" (stop()): a call of stop() returns.            *)
(***************************************************************************)
StopTerminates == stop ~> (stopPc = "done")
=============================================================================
