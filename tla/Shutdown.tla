------------------------------ MODULE Shutdown ------------------------------
(***************************************************************************)
(* Stopping an EchoServer: SIGINT or SIGTERM interrupts a thread wherever  *)
(* it is, and the handler stops the worker pool, the loops and the IO pool *)
(* from there, destroys the server and ends the process.                   *)
(*                                                                         *)
(* Both pools are instances of ThreadPool.  The tasks of the IO pool are   *)
(* the run()s of the subloops, and a subloop is named after the thread     *)
(* that runs it.  A loop whose stop() was called leaves epoll_wait()       *)
(* (EventLoop, StopReturns).                                               *)
(***************************************************************************)
EXTENDS Naturals, Sequences, FiniteSets

CONSTANTS
  Io,            \* threads of the pool "IO", as many as subloops
  Worker,        \* threads of the pool "WORKS"
  Main,          \* the main thread
  Request,       \* requests that arrive while this goes on
  MaxSignal      \* bound: signals sent to the process

ASSUME ShutdownAssumption ==
  /\ IsFiniteSet(Io) /\ IsFiniteSet(Worker) /\ MaxSignal \in Nat
  /\ Main \notin Io \cup Worker /\ Io \cap Worker = {}

VARIABLES
  worksQueue, worksStop, worksPc, worksCaller, worksStopPc, worksStarted,
  ioQueue, ioStop, ioPc, ioCaller, ioStopPc, ioStarted,
  loopPc,        \* where each IO thread is in run()
  loopStop,      \* stop_ of the loops
  need,          \* locks the code a thread is in takes, one after the other
  held,          \* the lock the main thread holds, Main for none
  server,        \* the object behind the pointer Server
  frame,         \* where each thread is in the signal handler
  nested,        \* handlers on the main thread's stack, each masks its signal
  signals,       \* signals delivered
  ended          \* "no", "exit", or the undefined step that was taken

worksVars == <<worksQueue, worksStop, worksPc, worksCaller, worksStopPc, worksStarted>>
ioVars == <<ioQueue, ioStop, ioPc, ioCaller, ioStopPc, ioStarted>>
threadVars == <<loopPc, need, held>>
signalVars == <<nested, signals>>
vars == <<worksVars, ioVars, threadVars, signalVars, loopStop, server, frame, ended>>

Works == INSTANCE ThreadPool WITH Worker <- Worker, Submitter <- Io, Task <- Request,
           taskqueue <- worksQueue, stop <- worksStop, pc <- worksPc,
           submitterPc <- worksCaller, stopPc <- worksStopPc, started <- worksStarted
IO == INSTANCE ThreadPool WITH Worker <- Io, Submitter <- {Main}, Task <- Io,
           taskqueue <- ioQueue, stop <- ioStop, pc <- ioPc,
           submitterPc <- ioCaller, stopPc <- ioStopPc, started <- ioStarted

Pooled == Io \cup Worker
Thread == Pooled \cup {Main}
Signal == {"SIGINT", "SIGTERM"}   \* the two that have a handler

\* stdout's, TcpServer::connmutex_, and the connmutex_ of each subloop.
Lock == {"stdout", "server"} \cup Io

\* What the IO thread's handlers take: nothing, HandleClose() and
\* closeconnection(), or handletimer() with removeconn().
IoNeeds(t) == {{}, {"stdout", "server"}, {t, "server"}}

\* OnMessage() prints when the client has left.
WorkerNeeds == {{}, {"stdout"}}

FramePc == {"none", "works", "worksSet", "worksStop", "loops", "io", "ioSet", "ioStop",
            "delete", "exit"}
Ends == {"exit", "no server", "freed server", "joined twice", "joins itself",
         "joinable thread"}

TypeOK ==
  /\ Works!TypeOK /\ IO!TypeOK
  /\ loopPc \in [Io -> {"check", "wait", "handle", "notify", "exited"}]
  /\ need \in [Pooled -> SUBSET Lock] /\ held \in Lock \cup {Main}
  /\ loopStop \in BOOLEAN /\ server \in {"none", "ready", "freed"}
  /\ frame \in [Thread -> FramePc] /\ nested \in 0..Cardinality(Signal)
  /\ signals \in 0..MaxSignal /\ ended \in Ends \cup {"no"}

\* The constructor has started both pools and queued the run()s.
Init ==
  /\ Works!Init
  /\ ioQueue \in {q \in [1..Cardinality(Io) -> Io] : \A i, j \in DOMAIN q : q[i] = q[j] => i = j}
  /\ ioStarted = << >> /\ ioStop = FALSE /\ ioStopPc = "idle"
  /\ ioPc = [t \in Io |-> "test"] /\ ioCaller = [m \in {Main} |-> "idle"]
  /\ loopPc = [t \in Io |-> "check"] /\ loopStop = FALSE
  /\ need = [t \in Pooled |-> {}] /\ held = Main
  /\ server = "none" /\ frame = [t \in Thread |-> "none"]
  /\ nested = 0 /\ signals = 0 /\ ended = "no"

Running(t) == ended = "no" /\ frame[t] = "none"
Free(t) == held \notin need[t]
Needs(t, locks) == need' = [need EXCEPT ![t] = locks]

-----------------------------------------------------------------------------
\* The main thread: main() and then the main loop

\* Server = new EchoServer(...), after signal().
Construct ==
  /\ Running(Main) /\ server = "none"
  /\ server' = "ready"
  /\ UNCHANGED <<worksVars, ioVars, threadVars, signalVars, loopStop, frame, ended>>

\* A new connection: both connmutex_ in turn, and a printf().
Hold(x) ==
  /\ Running(Main) /\ server = "ready" /\ held = Main
  /\ held' = x
  /\ UNCHANGED <<worksVars, ioVars, loopPc, need, signalVars, loopStop, server, frame, ended>>

Unhold ==
  /\ Running(Main) /\ held # Main
  /\ held' = Main
  /\ UNCHANGED <<worksVars, ioVars, loopPc, need, signalVars, loopStop, server, frame, ended>>

-----------------------------------------------------------------------------
\* A worker

Work(w) ==
  /\ Running(w)
  /\ \/ Works!TakeTask(w) /\ \E locks \in WorkerNeeds : Needs(w, locks)
     \/ Works!FinishTask(w) /\ Free(w) /\ Needs(w, {})
     \/ /\ Works!CheckStop(w) \/ Works!ReturnOnStop(w) \/ Works!Block(w) \/ Works!Sleep(w)
        /\ UNCHANGED need
  /\ UNCHANGED <<ioVars, loopPc, held, signalVars, loopStop, server, frame, ended>>

WorkerWakes(w) ==
  /\ Running(w) /\ Works!SpuriousWakeup(w)
  /\ UNCHANGED <<ioVars, threadVars, signalVars, loopStop, server, frame, ended>>

-----------------------------------------------------------------------------
\* An IO thread: in its pool, and in run()

RunsLoop(t) == Running(t) /\ ioPc[t] = "run"
Loop(t, from, to) == loopPc[t] = from /\ loopPc' = [loopPc EXCEPT ![t] = to]

Pool(t) ==
  /\ Running(t)
  /\ \/ IO!CheckStop(t) \/ IO!TakeTask(t) \/ IO!ReturnOnStop(t) \/ IO!Block(t) \/ IO!Sleep(t)
     \/ IO!FinishTask(t) /\ loopPc[t] = "exited"
  /\ UNCHANGED <<worksVars, threadVars, signalVars, loopStop, server, frame, ended>>

IoWakes(t) ==
  /\ Running(t) /\ IO!SpuriousWakeup(t)
  /\ UNCHANGED <<worksVars, threadVars, signalVars, loopStop, server, frame, ended>>

TestStop(t) ==
  /\ RunsLoop(t) /\ Loop(t, "check", IF loopStop THEN "exited" ELSE "wait")
  /\ UNCHANGED <<worksVars, ioVars, need, held, signalVars, loopStop, server, frame, ended>>

EpollReady(t) ==
  /\ RunsLoop(t) /\ Loop(t, "wait", "handle") /\ \E locks \in IoNeeds(t) : Needs(t, locks)
  /\ UNCHANGED <<worksVars, ioVars, held, signalVars, loopStop, server, frame, ended>>

Handle(t) ==
  /\ RunsLoop(t) /\ Loop(t, "handle", "check") /\ Free(t) /\ Needs(t, {})
  /\ UNCHANGED <<worksVars, ioVars, held, signalVars, loopStop, server, frame, ended>>

\* HandleMessage(): a request for the workers, stopped or not.
HandleRequest(t) ==
  /\ RunsLoop(t) /\ Loop(t, "handle", "notify") /\ need[t] = {}
  /\ \E r \in Request : Works!AddTask(t, r)
  /\ UNCHANGED <<ioVars, need, held, signalVars, loopStop, server, frame, ended>>

Notify(t) ==
  /\ RunsLoop(t) /\ Loop(t, "notify", "check") /\ Works!NotifyOne(t)
  /\ UNCHANGED <<ioVars, need, held, signalVars, loopStop, server, frame, ended>>

-----------------------------------------------------------------------------
\* Delivery: on the main thread unless it is in that signal's handler, and on
\* another thread then.  A second handler on the main thread suspends the
\* first, which it never returns to.

Interrupt(t) ==
  /\ ended = "no" /\ signals < MaxSignal
  /\ signals' = signals + 1
  /\ frame' = [frame EXCEPT ![t] = "works"]
  /\ UNCHANGED <<worksVars, ioVars, threadVars, loopStop, server, ended>>

DeliverToMain == nested < Cardinality(Signal) /\ nested' = nested + 1 /\ Interrupt(Main)

DeliverTo(t) ==
  /\ nested > 0 /\ nested' = nested /\ frame[t] = "none"
  /\ t \notin Works!At({"exited"}) \cup IO!At({"exited"})
  /\ Interrupt(t)

-----------------------------------------------------------------------------
\* The handler, on thread t

Goto(t, from, to) == frame[t] = from /\ frame' = [frame EXCEPT ![t] = to]

End(how) ==
  /\ ended' = how
  /\ UNCHANGED <<worksVars, ioVars, threadVars, signalVars, loopStop, server, frame>>

\* EchoServer::Stop() without threadpool_.stop().
TestWorks_Skipped(t) ==
  /\ server = "ready" /\ Goto(t, "works", "loops")
  /\ UNCHANGED <<worksVars, ioVars, threadVars, signalVars, loopStop, server, ended>>

\* Server->Stop() begins with threadpool_.stop(): if (stop_) return ...
TestWorks(t) ==
  \/ /\ server = "ready" /\ Goto(t, "works", IF worksStop THEN "loops" ELSE "worksSet")
     /\ UNCHANGED <<worksVars, ioVars, threadVars, signalVars, loopStop, server, ended>>
  \/ /\ frame[t] = "works" /\ server # "ready"
     /\ End(IF server = "none" THEN "no server" ELSE "freed server")

\* ... stop_ = true; two calls that saw it false both join ...
SetWorks(t) ==
  \/ /\ Goto(t, "worksSet", "worksStop") /\ Works!Stop
     /\ UNCHANGED <<ioVars, threadVars, signalVars, loopStop, server, ended>>
  \/ frame[t] = "worksSet" /\ worksStop /\ End("joined twice")

\* ... notify_all() and join(), which throws on the thread's own.
StopWorks(t) ==
  \/ /\ frame[t] = "worksStop" /\ Works!NotifyAll
     /\ UNCHANGED <<ioVars, threadVars, signalVars, loopStop, server, frame, ended>>
  \/ /\ Goto(t, "worksStop", "loops") /\ Works!Join
     /\ UNCHANGED <<ioVars, threadVars, signalVars, loopStop, server, ended>>
  \/ frame[t] = "worksStop" /\ worksStopPc = "join" /\ t \in Worker /\ End("joins itself")

\* TcpServer::stop() that forgets the subloops.
StopLoops_MainOnly(t) ==
  /\ Goto(t, "loops", "io")
  /\ UNCHANGED <<worksVars, ioVars, threadVars, signalVars, loopStop, server, ended>>

\* TcpServer::stop(): the main loop, every subloop, then the IO pool.
StopLoops(t) ==
  /\ Goto(t, "loops", "io")
  /\ loopStop' = TRUE
  /\ UNCHANGED <<worksVars, ioVars, threadVars, signalVars, server, ended>>

TestIo(t) ==
  /\ Goto(t, "io", IF ioStop THEN "delete" ELSE "ioSet")
  /\ UNCHANGED <<worksVars, ioVars, threadVars, signalVars, loopStop, server, ended>>

\* stop_ = true forgotten.
SetIo_Forgets(t) ==
  /\ Goto(t, "ioSet", "ioStop") /\ ioStopPc' = "notify"
  /\ UNCHANGED <<worksVars, ioQueue, ioStop, ioPc, ioCaller, ioStarted, threadVars,
                 signalVars, loopStop, server, ended>>

SetIo(t) ==
  \/ /\ Goto(t, "ioSet", "ioStop") /\ IO!Stop
     /\ UNCHANGED <<worksVars, threadVars, signalVars, loopStop, server, ended>>
  \/ frame[t] = "ioSet" /\ ioStop /\ End("joined twice")

\* detach() in place of join().
StopIo_Detach(t) ==
  \/ /\ frame[t] = "ioStop" /\ IO!NotifyAll
     /\ UNCHANGED <<worksVars, threadVars, signalVars, loopStop, server, frame, ended>>
  \/ /\ Goto(t, "ioStop", "delete") /\ ioStopPc = "join" /\ ioStopPc' = "done"
     /\ UNCHANGED <<worksVars, ioQueue, ioStop, ioPc, ioCaller, ioStarted, threadVars,
                    signalVars, loopStop, server, ended>>

\* stop() that returns after notify_all().
StopIo_NoJoin(t) ==
  /\ Goto(t, "ioStop", "delete") /\ IO!NotifyAll
  /\ UNCHANGED <<worksVars, threadVars, signalVars, loopStop, server, ended>>

StopIo(t) ==
  \/ /\ frame[t] = "ioStop" /\ IO!NotifyAll
     /\ UNCHANGED <<worksVars, threadVars, signalVars, loopStop, server, frame, ended>>
  \/ /\ Goto(t, "ioStop", "delete") /\ IO!Join
     /\ UNCHANGED <<worksVars, threadVars, signalVars, loopStop, server, ended>>
  \/ frame[t] = "ioStop" /\ ioStopPc = "join" /\ t \in Io /\ End("joins itself")

\* delete Server.  Both pools are stopped, so their destructors return from
\* stop() at once, and a std::thread nobody joined terminates the process.
Delete(t) ==
  \/ /\ Goto(t, "delete", "exit") /\ worksStopPc = "done" /\ ioStopPc = "done"
     /\ server' = "freed"
     /\ UNCHANGED <<worksVars, ioVars, threadVars, signalVars, loopStop, ended>>
  \/ /\ frame[t] = "delete" /\ (worksStopPc # "done" \/ ioStopPc # "done")
     /\ End("joinable thread")

\* exit(0)
Exit(t) == frame[t] = "exit" /\ End("exit")

-----------------------------------------------------------------------------
IoStep(t) ==
  Pool(t) \/ TestStop(t) \/ EpollReady(t) \/ Handle(t) \/ HandleRequest(t) \/ Notify(t)

\* The handler prints: on another thread than the main one it waits for stdout.
Handler(t) ==
  /\ ended = "no" /\ (t = Main \/ held # "stdout")
  /\ \/ TestWorks(t) \/ SetWorks(t) \/ StopWorks(t) \/ StopLoops(t)
     \/ TestIo(t) \/ SetIo(t) \/ StopIo(t) \/ Delete(t) \/ Exit(t)

Next ==
  \/ Construct \/ Unhold \/ \E x \in Lock : Hold(x)
  \/ \E w \in Worker : Work(w) \/ WorkerWakes(w)
  \/ \E t \in Io : IoStep(t) \/ IoWakes(t)
  \/ DeliverToMain \/ \E t \in Pooled : DeliverTo(t)
  \/ \E t \in Thread : Handler(t)

\* Threads keep running, handlers included; a loop is owed an event only once
\* it was stopped, by its own wakeup().
Fairness ==
  /\ \A w \in Worker : WF_vars(Work(w))
  /\ \A t \in Io : WF_vars(IoStep(t) /\ (loopPc[t] = "wait" => loopStop))
  /\ \A t \in Thread : WF_vars(Handler(t))

Spec == Init /\ [][Next]_vars /\ Fairness

-----------------------------------------------------------------------------
(***************************************************************************)
(* The server is destroyed only after every thread of both pools has left  *)
(* its lambda, whatever signals arrive and whichever threads run their     *)
(* handlers: no thread uses a pool, a loop or a connection that is gone.   *)
(***************************************************************************)
NoThreadOutlivesServer ==
  server = "freed" =>
    (\A w \in Worker : worksPc[w] = "exited") /\ \A t \in Io : ioPc[t] = "exited"

(***************************************************************************)
(* EchoServer::Stop() stops the workers before the loops: when the loops   *)
(* are told to stop no worker is left that could queue a reply to a loop   *)
(* that will not run it.  A second signal's handler can break the order.   *)
(***************************************************************************)
WorkersLeaveFirst ==
  (signals <= 1 /\ loopStop) => \A w \in Worker : worksPc[w] = "exited"

(***************************************************************************)
(* One signal never ends in a double join, a join of the own thread, a     *)
(* joinable thread destroyed or a second delete.  It is fatal only while   *)
(* main() is still constructing the server.                                *)
(***************************************************************************)
OneSignalIsOrderly == signals <= 1 => ended \in {"no", "exit", "no server"}

(***************************************************************************)
(* Whatever threads run the handlers and however they nest, a stop() that  *)
(* has called notify_all() leaves at most one thread of its pool asleep or *)
(* about to sleep: only a single thread per pool can keep join() waiting   *)
(* this way.                                                               *)
(***************************************************************************)
MissesOneAtMost == Works!AtMostOneLeftAsleep /\ IO!AtMostOneLeftAsleep

\* The ways the handler can wait for ever: a thread it joins needs the lock
\* that the interrupted main thread holds, or was missed by notify_all().
Missed(pc, stopPc) == stopPc = "join" /\ \E t \in DOMAIN pc : pc[t] = "waiting"
Stuck ==
  \/ \E t \in Pooled : ~Free(t)
  \/ Missed(worksPc, worksStopPc) \/ Missed(ioPc, ioStopPc)

\* One signal ends the process, unless its handler is stuck for ever in one
\* of those ways: no other order of events keeps the server from stopping.
StopsUnlessStuck == (signals = 1) ~> (ended # "no" \/ signals > 1 \/ []Stuck)
=============================================================================
