--------------------------- MODULE ShutdownProofs ---------------------------
(***************************************************************************)
(* Proofs about Shutdown for any number of threads, requests and signals.  *)
(***************************************************************************)
EXTENDS Shutdown, FiniteSetTheorems, TLAPS

(***************************************************************************)
(* What destroying the server rests on: stop() of a pool that has returned *)
(* has joined every thread, and ~EchoServer() ends only after both have.   *)
(***************************************************************************)
Joined ==
  /\ worksPc \in [Worker -> Works!WorkerPc] /\ ioPc \in [Io -> IO!WorkerPc]
  /\ worksStopPc = "done" => \A w \in Worker : worksPc[w] = "exited"
  /\ ioStopPc = "done" => \A t \in Io : ioPc[t] = "exited"
  /\ server = "freed" => worksStopPc = "done" /\ ioStopPc = "done"

LEMMA InitJoined == Init => Joined
  BY DEF Init, Joined, Works!Init, Works!WorkerPc, IO!WorkerPc

\* A thread that has left its lambda does not come back, and stop() does not
\* start over.
LEMMA NextJoined == Joined /\ [Next]_vars => Joined'
<1> SUFFICES ASSUME Joined, [Next]_vars PROVE Joined'
  OBVIOUS
<1> USE DEF Joined, worksVars, ioVars, Works!WorkerPc, IO!WorkerPc
<1>1. CASE Construct \/ Unhold \/ \E x \in Lock : Hold(x)
  BY <1>1 DEF Construct, Unhold, Hold
<1>2. ASSUME NEW w \in Worker, Work(w) \/ WorkerWakes(w) PROVE Joined'
  BY <1>2 DEF Work, WorkerWakes, Works!TakeTask, Works!FinishTask, Works!CheckStop,
     Works!ReturnOnStop, Works!Block, Works!Sleep, Works!SpuriousWakeup, Works!Goto
<1>3. ASSUME NEW t \in Io, IoStep(t) \/ IoWakes(t) PROVE Joined'
  <2>1. CASE Pool(t) \/ IoWakes(t)
    BY <2>1 DEF Pool, IoWakes, IO!TakeTask, IO!FinishTask, IO!CheckStop, IO!ReturnOnStop,
       IO!Block, IO!Sleep, IO!SpuriousWakeup, IO!Goto
  <2>2. CASE TestStop(t) \/ EpollReady(t) \/ Handle(t)
    BY <2>2 DEF TestStop, EpollReady, Handle
  <2>3. CASE HandleRequest(t)
    BY <2>3 DEF HandleRequest, Works!AddTask
  <2>4. CASE Notify(t)
    BY <2>4 DEF Notify, Works!NotifyOne, Works!Goto, Works!At
  <2> QED
    BY <1>3, <2>1, <2>2, <2>3, <2>4 DEF IoStep
<1>4. CASE DeliverToMain \/ \E t \in Pooled : DeliverTo(t)
  BY <1>4 DEF DeliverToMain, DeliverTo, Interrupt
<1>5. ASSUME NEW t \in Thread, Handler(t) PROVE Joined'
  <2>1. CASE TestWorks(t) \/ StopLoops(t) \/ TestIo(t) \/ Exit(t)
    BY <2>1 DEF TestWorks, StopLoops, TestIo, Exit, End
  <2>2. CASE SetWorks(t)
    BY <2>2 DEF SetWorks, End, Works!Stop
  <2>3. CASE StopWorks(t)
    BY <2>3 DEF StopWorks, End, Works!NotifyAll, Works!Join, Works!At
  <2>4. CASE SetIo(t)
    BY <2>4 DEF SetIo, End, IO!Stop
  <2>5. CASE StopIo(t)
    BY <2>5 DEF StopIo, End, IO!NotifyAll, IO!Join, IO!At
  <2>6. CASE Delete(t)
    BY <2>6 DEF Delete, End
  <2> QED
    BY <1>5, <2>1, <2>2, <2>3, <2>4, <2>5, <2>6 DEF Handler
<1>6. CASE UNCHANGED vars
  BY <1>6 DEF vars
<1> QED
  BY <1>1, <1>2, <1>3, <1>4, <1>5, <1>6 DEF Next

(***************************************************************************)
(* delete Server: whatever signals come and whichever threads run their    *)
(* handlers, no thread of either pool is left when the server is gone.     *)
(***************************************************************************)
THEOREM ThreadsLeaveFirst == Spec => []NoThreadOutlivesServer
<1>1. Joined => NoThreadOutlivesServer
  BY DEF Joined, NoThreadOutlivesServer
<1> QED
  BY InitJoined, NextJoined, <1>1, PTL DEF Spec

-----------------------------------------------------------------------------
(***************************************************************************)
(* Up to the first signal's handler there is one handler at the most, on   *)
(* the main thread, and where it is tells how far either stop() has got.   *)
(***************************************************************************)
After(f) == frame[Main] \in f
Typed ==
  /\ loopStop \in BOOLEAN /\ server \in {"none", "ready", "freed"}
  /\ signals \in Nat /\ nested \in Nat /\ frame \in [Thread -> FramePc]
  /\ worksStop = (worksStopPc # "idle") /\ ioStop = (ioStopPc # "idle")

Alone ==
  /\ \A t \in Pooled : frame[t] = "none"
  /\ nested = signals /\ (signals = 0 => After({"none"}))

Phases ==
  /\ ended \in {"no", "exit", "no server"}
  /\ loopStop => worksStopPc = "done"
  /\ server = "freed" => After({"exit"})
  /\ After({"none", "works", "worksSet"}) => worksStopPc = "idle"
  /\ After({"loops", "io", "ioSet", "ioStop", "delete", "exit"}) => worksStopPc = "done"
  /\ After({"none", "works", "worksSet", "worksStop", "loops", "io", "ioSet"})
       => ioStopPc = "idle"
  /\ After({"delete", "exit"}) => ioStopPc = "done"

OneHandler == Alone /\ Phases
Orderly == Typed /\ (signals <= 1 => OneHandler)

LEMMA MainIsNotPooled == Main \in Thread /\ Main \notin Pooled /\ Thread = Pooled \cup {Main}
  BY ShutdownAssumption DEF Thread, Pooled

LEMMA InitOrderly == Init => Orderly
<1> SUFFICES ASSUME Init PROVE Orderly
  OBVIOUS
<1>1. Typed
  BY DEF Init, Typed, Works!Init, FramePc
<1>2. OneHandler
  BY MainIsNotPooled DEF Init, OneHandler, Alone, Phases, After, Works!Init
<1> QED
  BY <1>1, <1>2 DEF Orderly

\* What a step outside the handler and its delivery leaves alone.
HandlerVars == <<worksStop, worksStopPc, ioStop, ioStopPc, signalVars, loopStop, frame, ended>>
Quiet == UNCHANGED HandlerVars /\ server' \in {server, "ready"}

LEMMA QuietSteps ==
  /\ Construct \/ Unhold \/ (\E x \in Lock : Hold(x)) \/ UNCHANGED vars => Quiet
  /\ \A w \in Worker : Work(w) \/ WorkerWakes(w) => Quiet
  /\ \A t \in Io : IoStep(t) \/ IoWakes(t) => Quiet
<1> USE DEF Quiet, HandlerVars, worksVars, ioVars, signalVars
<1>1. Construct \/ Unhold \/ (\E x \in Lock : Hold(x)) \/ UNCHANGED vars => Quiet
  <2>1. Construct => Quiet
    BY DEF Construct
  <2>2. Unhold \/ (\E x \in Lock : Hold(x)) => Quiet
    BY DEF Unhold, Hold
  <2>3. UNCHANGED vars => Quiet
    BY DEF vars
  <2> QED
    BY <2>1, <2>2, <2>3
<1>2. ASSUME NEW w \in Worker, Work(w) \/ WorkerWakes(w) PROVE Quiet
  BY <1>2 DEF Work, WorkerWakes, Works!TakeTask, Works!FinishTask, Works!CheckStop,
     Works!ReturnOnStop, Works!Block, Works!Sleep, Works!SpuriousWakeup
<1>3. ASSUME NEW t \in Io, IoStep(t) \/ IoWakes(t) PROVE Quiet
  <2>1. CASE Pool(t) \/ IoWakes(t)
    BY <2>1 DEF Pool, IoWakes, IO!TakeTask, IO!FinishTask, IO!CheckStop, IO!ReturnOnStop,
       IO!Block, IO!Sleep, IO!SpuriousWakeup
  <2>2. CASE TestStop(t) \/ EpollReady(t) \/ Handle(t) \/ HandleRequest(t) \/ Notify(t)
    BY <2>2 DEF TestStop, EpollReady, Handle, HandleRequest, Notify, Works!AddTask,
       Works!NotifyOne
  <2> QED
    BY <1>3, <2>1, <2>2 DEF IoStep
<1> QED
  BY <1>1, <1>2, <1>3

LEMMA QuietOrderly == Orderly /\ Quiet => Orderly'
<1> SUFFICES ASSUME Orderly, Quiet PROVE Orderly'
  OBVIOUS
<1> USE DEF Orderly, Quiet, HandlerVars, signalVars
<1>1. Typed'
  BY DEF Typed
<1>2. ASSUME OneHandler PROVE OneHandler'
  BY <1>2 DEF OneHandler, Alone, Phases, After
<1> QED
  BY <1>1, <1>2

\* The first signal finds no handler, and goes to the main thread.
LEMMA DeliveryOrderly ==
  Orderly /\ (DeliverToMain \/ \E t \in Pooled : DeliverTo(t)) => Orderly'
<1> USE MainIsNotPooled DEF Orderly, Typed, DeliverToMain, DeliverTo, Interrupt, worksVars, ioVars
<1>1. ASSUME Orderly, DeliverToMain PROVE Orderly'
  <2>1. Typed'
    BY <1>1 DEF FramePc, Signal
  <2>2. ASSUME signals' <= 1 PROVE OneHandler'
    BY <1>1, <2>2 DEF OneHandler, Alone, Phases, After
  <2> QED
    BY <2>1, <2>2
<1>2. ASSUME Orderly, NEW t \in Pooled, DeliverTo(t) PROVE Orderly'
  <2>1. Typed'
    BY <1>2 DEF FramePc
  <2>2. ~(signals' <= 1)
    BY <1>2 DEF OneHandler, Alone
  <2> QED
    BY <2>1, <2>2
<1> QED
  BY <1>1, <1>2

LEMMA HandlerTyped == ASSUME Typed, NEW t \in Thread, Handler(t) PROVE Typed'
<1> USE DEF Typed, FramePc, End, Goto, worksVars, ioVars, signalVars
<1>1. CASE TestWorks(t) \/ TestIo(t)
  BY <1>1 DEF TestWorks, TestIo
<1>4. CASE StopLoops(t) \/ Delete(t) \/ Exit(t)
  BY <1>4 DEF StopLoops, Delete, Exit
<1>2. CASE SetWorks(t) \/ StopWorks(t)
  BY <1>2 DEF SetWorks, StopWorks, Works!Stop, Works!NotifyAll, Works!Join
<1>3. CASE SetIo(t) \/ StopIo(t)
  BY <1>3 DEF SetIo, StopIo, IO!Stop, IO!NotifyAll, IO!Join
<1> QED
  BY <1>1, <1>2, <1>3, <1>4 DEF Handler

\* The handler on the main thread, when no other was started.
LEMMA HandlerOrderly == ASSUME Orderly, NEW t \in Thread, Handler(t) PROVE Orderly'
<1> USE MainIsNotPooled DEF Orderly, OneHandler, Typed, Alone, After, End, Goto
<1>1. Typed'
  BY HandlerTyped
<1>2. signals' = signals /\ nested' = nested
  BY DEF Handler, TestWorks, SetWorks, StopWorks, StopLoops, TestIo, SetIo, StopIo, Delete,
     Exit, signalVars
<1>3. ASSUME signals <= 1 PROVE OneHandler'
  <2>1. t = Main /\ frame[Main] # "none"
    BY <1>3 DEF Handler, TestWorks, SetWorks, StopWorks, StopLoops, TestIo, SetIo, StopIo,
       Delete, Exit
  <2>2. \A u \in Thread : u # Main => frame'[u] = frame[u]
    BY <2>1 DEF Handler, TestWorks, SetWorks, StopWorks, StopLoops, TestIo, SetIo, StopIo,
       Delete, Exit
  <2>3. Alone'
    BY <1>2, <1>3, <2>1, <2>2
  <2> HIDE DEF Alone
  <2> USE <1>3, <2>1 DEF Phases, worksVars, ioVars
  <2>4. ASSUME TestWorks(t) PROVE Phases'
    <3>1. /\ UNCHANGED <<worksStopPc, ioStopPc, loopStop, server>> /\ frame[Main] = "works"
          /\ \/ frame'[Main] = "worksSet" /\ ended' = ended
             \/ frame'[Main] = "works" /\ ended' = "no server"
      BY <2>4 DEF TestWorks
    <3> QED
      BY <3>1
  <2>5. ASSUME SetWorks(t) PROVE Phases'
    <3>1. /\ frame[Main] = "worksSet" /\ frame'[Main] = "worksStop" /\ worksStopPc = "idle"
          /\ UNCHANGED <<ended, ioStopPc, loopStop, server>>
      BY <2>5 DEF SetWorks, Works!Stop
    <3> QED
      BY <3>1
  <2>6. ASSUME StopWorks(t) PROVE Phases'
    <3>1. /\ frame[Main] = "worksStop" /\ worksStopPc # "done"
          /\ UNCHANGED <<ended, ioStopPc, loopStop, server>>
          /\ \/ frame'[Main] = "worksStop"
             \/ frame'[Main] = "loops" /\ worksStopPc' = "done"
      BY <2>6, ShutdownAssumption DEF StopWorks, Works!NotifyAll, Works!Join
    <3> QED
      BY <3>1
  <2>7. ASSUME StopLoops(t) \/ TestIo(t) PROVE Phases'
    BY <2>7 DEF StopLoops, TestIo
  <2>8. ASSUME SetIo(t) PROVE Phases'
    BY <2>8 DEF SetIo, IO!Stop
  <2>9. ASSUME StopIo(t) PROVE Phases'
    BY <2>9, ShutdownAssumption DEF StopIo, IO!NotifyAll, IO!Join
  <2>10. ASSUME Delete(t) \/ Exit(t) PROVE Phases'
    BY <2>10 DEF Delete, Exit
  <2>11. Phases'
    BY <2>4, <2>5, <2>6, <2>7, <2>8, <2>9, <2>10 DEF Handler
  <2> QED
    BY <2>3, <2>11
<1> QED
  BY <1>1, <1>2, <1>3

LEMMA NextOrderly == Orderly /\ [Next]_vars => Orderly'
  BY QuietSteps, QuietOrderly, DeliveryOrderly, HandlerOrderly DEF Next

(***************************************************************************)
(* EchoServer::Stop(): with one signal, no worker is left when the loops   *)
(* are told to stop, so no reply is queued to a loop that will not run it. *)
(***************************************************************************)
THEOREM WorkersLeaveBeforeLoops == Spec => []WorkersLeaveFirst
<1>1. Joined /\ Orderly => WorkersLeaveFirst
  BY DEF Joined, Orderly, OneHandler, Phases, WorkersLeaveFirst
<1> QED
  BY InitJoined, NextJoined, InitOrderly, NextOrderly, <1>1, PTL DEF Spec

(***************************************************************************)
(* One signal joins no thread twice, not its own and not too few, and      *)
(* deletes the server once.                                                *)
(***************************************************************************)
THEOREM OneSignalEndsInOrder == Spec => []OneSignalIsOrderly
<1>1. Orderly => OneSignalIsOrderly
  BY DEF Orderly, OneHandler, Phases, OneSignalIsOrderly
<1> QED
  BY InitOrderly, NextOrderly, <1>1, PTL DEF Spec

-----------------------------------------------------------------------------
(***************************************************************************)
(* The types: the handlers use both pools only as ThreadPool allows.       *)
(***************************************************************************)
OwnTypes ==
  /\ loopPc \in [Io -> {"check", "wait", "handle", "notify", "exited"}]
  /\ need \in [Pooled -> SUBSET Lock] /\ held \in Lock \cup {Main}
  /\ loopStop \in BOOLEAN /\ server \in {"none", "ready", "freed"}
  /\ frame \in [Thread -> FramePc] /\ nested \in 0..Cardinality(Signal)
  /\ signals \in 0..MaxSignal /\ ended \in Ends \cup {"no"}

LEMMA TypesAre ==
  /\ TypeOK <=> (Works!TypeOK /\ IO!TypeOK /\ OwnTypes)
  /\ TypeOK' <=> (Works!TypeOK' /\ IO!TypeOK' /\ OwnTypes')
  BY DEF TypeOK, OwnTypes

LEMMA SignalCount == Cardinality(Signal) \in Nat
<1>1. IsFiniteSet({"SIGINT"}) /\ Signal = {"SIGINT"} \cup {"SIGTERM"}
  BY FS_Singleton DEF Signal
<1> QED
  BY <1>1, FS_AddElement, FS_CardinalityType

LEMMA InitTypeOK == Init => TypeOK
<1> SUFFICES ASSUME Init PROVE TypeOK
  OBVIOUS
<1>1. Works!TypeOK
  <2>1. worksQueue \in Seq(Request) /\ worksStarted \in Seq(Request)
    BY DEF Init, Works!Init
  <2> QED
    BY <2>1 DEF Init, Works!Init, Works!TypeOK, Works!WorkerPc
<1>2. IO!TypeOK
  <2>1. ioQueue \in Seq(Io)
    <3>1. Cardinality(Io) \in Nat /\ ioQueue \in [1..Cardinality(Io) -> Io]
      BY ShutdownAssumption, FS_CardinalityType DEF Init
    <3> QED
      BY <3>1
  <2>2. ioStarted \in Seq(Io)
    BY DEF Init
  <2> QED
    BY <2>1, <2>2 DEF Init, IO!TypeOK, IO!WorkerPc
<1>3. OwnTypes
  <2>1. nested \in 0..Cardinality(Signal) /\ signals \in 0..MaxSignal
    BY SignalCount, ShutdownAssumption DEF Init
  <2> QED
    BY <2>1 DEF Init, OwnTypes, FramePc
<1> QED
  BY <1>1, <1>2, <1>3, TypesAre

LEMMA WorksKept == Works!TypeOK /\ UNCHANGED worksVars => Works!TypeOK'
  BY DEF Works!TypeOK, worksVars

LEMMA IoKept == IO!TypeOK /\ UNCHANGED ioVars => IO!TypeOK'
  BY DEF IO!TypeOK, ioVars

\* Outside the handler each step is one of a pool's own.
LEMMA WorksTyped ==
  ASSUME Works!TypeOK,
         \/ \E w \in Worker : Work(w) \/ WorkerWakes(w)
         \/ \E t \in Io : HandleRequest(t) \/ Notify(t)
  PROVE  Works!TypeOK'
<1> USE DEF Works!TypeOK, Works!WorkerPc, Works!Goto
<1>1. ASSUME NEW w \in Worker, Work(w) \/ WorkerWakes(w) PROVE Works!TypeOK'
  <2>1. CASE Works!TakeTask(w)
    <3>1. worksQueue' \in Seq(Request) /\ worksStarted' \in Seq(Request)
      BY <2>1 DEF Works!TakeTask
    <3> QED
      BY <2>1, <3>1 DEF Works!TakeTask
  <2>2. CASE Works!FinishTask(w) \/ Works!CheckStop(w) \/ Works!ReturnOnStop(w) \/ Works!Block(w)
             \/ Works!Sleep(w) \/ Works!SpuriousWakeup(w)
    BY <2>2 DEF Works!FinishTask, Works!CheckStop, Works!ReturnOnStop, Works!Block, Works!Sleep,
       Works!SpuriousWakeup
  <2> QED
    BY <1>1, <2>1, <2>2 DEF Work, WorkerWakes
<1>2. ASSUME NEW t \in Io, HandleRequest(t) PROVE Works!TypeOK'
  <2>1. PICK r \in Request : Works!AddTask(t, r)
    BY <1>2 DEF HandleRequest
  <2>2. worksQueue' \in Seq(Request)
    BY <2>1 DEF Works!AddTask
  <2> QED
    BY <2>1, <2>2 DEF Works!AddTask
<1>3. ASSUME NEW t \in Io, Notify(t) PROVE Works!TypeOK'
  <2>1. worksPc' \in [Worker -> Works!WorkerPc]
    BY <1>3 DEF Notify, Works!NotifyOne
  <2> QED
    BY <1>3, <2>1 DEF Notify, Works!NotifyOne
<1> QED
  BY <1>1, <1>2, <1>3

LEMMA IoTyped ==
  ASSUME IO!TypeOK, NEW t \in Io, Pool(t) \/ IoWakes(t)
  PROVE  IO!TypeOK'
<1> USE DEF IO!TypeOK, IO!WorkerPc, IO!Goto
<1>1. CASE IO!TakeTask(t)
  <2>1. ioQueue' \in Seq(Io) /\ ioStarted' \in Seq(Io)
    BY <1>1 DEF IO!TakeTask
  <2> QED
    BY <1>1, <2>1 DEF IO!TakeTask
<1>2. CASE IO!FinishTask(t) \/ IO!CheckStop(t) \/ IO!ReturnOnStop(t) \/ IO!Block(t)
           \/ IO!Sleep(t) \/ IO!SpuriousWakeup(t)
  BY <1>2 DEF IO!FinishTask, IO!CheckStop, IO!ReturnOnStop, IO!Block, IO!Sleep, IO!SpuriousWakeup
<1> QED
  BY <1>1, <1>2 DEF Pool, IoWakes

LEMMA OwnTyped ==
  ASSUME TypeOK,
         \/ Construct \/ Unhold \/ \E x \in Lock : Hold(x)
         \/ \E w \in Worker : Work(w) \/ WorkerWakes(w)
         \/ \E t \in Io : IoStep(t) \/ IoWakes(t)
         \/ DeliverToMain \/ \E t \in Pooled : DeliverTo(t)
  PROVE  OwnTypes'
<1> USE TypesAre DEF OwnTypes, threadVars, signalVars
<1>1. CASE Construct \/ Unhold \/ \E x \in Lock : Hold(x)
  BY <1>1 DEF Construct, Unhold, Hold
<1>2. ASSUME NEW w \in Worker, Work(w) \/ WorkerWakes(w) PROVE OwnTypes'
  <2>1. need' \in [Pooled -> SUBSET Lock]
    BY <1>2 DEF Work, WorkerWakes, Needs, WorkerNeeds, Lock, Pooled
  <2> QED
    BY <1>2, <2>1 DEF Work, WorkerWakes
<1>3. ASSUME NEW t \in Io, IoStep(t) \/ IoWakes(t) PROVE OwnTypes'
  <2>1. CASE Pool(t) \/ IoWakes(t)
    BY <2>1 DEF Pool, IoWakes
  <2>2. CASE TestStop(t) \/ EpollReady(t) \/ Handle(t) \/ HandleRequest(t) \/ Notify(t)
    <3>1. need' \in [Pooled -> SUBSET Lock]
      BY <2>2 DEF TestStop, EpollReady, Handle, HandleRequest, Notify, Needs, IoNeeds, Lock, Pooled
    <3>2. loopPc' \in [Io -> {"check", "wait", "handle", "notify", "exited"}]
      BY <2>2 DEF TestStop, EpollReady, Handle, HandleRequest, Notify, Loop
    <3> QED
      BY <2>2, <3>1, <3>2 DEF TestStop, EpollReady, Handle, HandleRequest, Notify
  <2> QED
    BY <1>3, <2>1, <2>2 DEF IoStep
<1>4. CASE DeliverToMain \/ \E t \in Pooled : DeliverTo(t)
  <2>1. signals' \in 0..MaxSignal /\ nested' \in 0..Cardinality(Signal)
    BY <1>4, SignalCount, ShutdownAssumption DEF DeliverToMain, DeliverTo, Interrupt
  <2>2. frame' \in [Thread -> FramePc]
    BY <1>4, MainIsNotPooled DEF DeliverToMain, DeliverTo, Interrupt, FramePc
  <2> QED
    BY <1>4, <2>1, <2>2 DEF DeliverToMain, DeliverTo, Interrupt
<1> QED
  BY <1>1, <1>2, <1>3, <1>4

LEMMA HandlerTypeOK == ASSUME TypeOK, NEW t \in Thread, Handler(t) PROVE TypeOK'
<1> USE TypesAre
<1>1. Works!TypeOK'
  <2>1. CASE SetWorks(t) \/ StopWorks(t)
    BY <2>1, WorksKept DEF SetWorks, StopWorks, End, Works!Stop, Works!NotifyAll, Works!Join,
       Works!TypeOK, Works!WorkerPc
  <2>2. CASE ~(SetWorks(t) \/ StopWorks(t))
    BY <2>2, WorksKept DEF Handler, TestWorks, StopLoops, TestIo, SetIo, StopIo, Delete, Exit, End
  <2> QED
    BY <2>1, <2>2
<1>2. IO!TypeOK'
  <2>1. CASE SetIo(t) \/ StopIo(t)
    BY <2>1, IoKept DEF SetIo, StopIo, End, IO!Stop, IO!NotifyAll, IO!Join, IO!TypeOK, IO!WorkerPc
  <2>2. CASE ~(SetIo(t) \/ StopIo(t))
    BY <2>2, IoKept DEF Handler, TestWorks, SetWorks, StopWorks, StopLoops, TestIo, Delete, Exit, End
  <2> QED
    BY <2>1, <2>2
<1>3. OwnTypes'
  <2>1. UNCHANGED <<loopPc, need, held, nested, signals>>
    BY DEF Handler, TestWorks, SetWorks, StopWorks, StopLoops, TestIo, SetIo, StopIo, Delete, Exit,
       End, threadVars, signalVars
  <2>2. frame' = frame \/ \E to \in FramePc : frame' = [frame EXCEPT ![t] = to]
    BY DEF Handler, TestWorks, SetWorks, StopWorks, StopLoops, TestIo, SetIo, StopIo, Delete, Exit,
       End, Goto, FramePc
  <2>3. frame' \in [Thread -> FramePc]
    BY <2>2 DEF OwnTypes
  <2>4. ended' \in Ends \cup {"no"} /\ loopStop' \in BOOLEAN /\ server' \in {"none", "ready", "freed"}
    BY DEF Handler, TestWorks, SetWorks, StopWorks, StopLoops, TestIo, SetIo, StopIo, Delete, Exit,
       End, OwnTypes, Ends
  <2> QED
    BY <2>1, <2>3, <2>4 DEF OwnTypes
<1> QED
  BY <1>1, <1>2, <1>3

LEMMA NextTypeOK == TypeOK /\ [Next]_vars => TypeOK'
<1> SUFFICES ASSUME TypeOK, [Next]_vars PROVE TypeOK'
  OBVIOUS
<1> USE TypesAre
<1>1. CASE Construct \/ Unhold \/ (\E x \in Lock : Hold(x))
           \/ DeliverToMain \/ \E t \in Pooled : DeliverTo(t)
  BY <1>1, WorksKept, IoKept, OwnTyped
     DEF Construct, Unhold, Hold, DeliverToMain, DeliverTo, Interrupt
<1>2. ASSUME NEW w \in Worker, Work(w) \/ WorkerWakes(w) PROVE TypeOK'
  BY <1>2, WorksTyped, IoKept, OwnTyped DEF Work, WorkerWakes
<1>3. ASSUME NEW t \in Io, IoStep(t) \/ IoWakes(t) PROVE TypeOK'
  <2>1. OwnTypes'
    BY <1>3, OwnTyped
  <2>2. CASE Pool(t) \/ IoWakes(t)
    BY <2>1, <2>2, IoTyped, WorksKept DEF Pool, IoWakes
  <2>3. CASE HandleRequest(t) \/ Notify(t)
    BY <2>1, <2>3, WorksTyped, IoKept DEF HandleRequest, Notify
  <2>4. CASE TestStop(t) \/ EpollReady(t) \/ Handle(t)
    BY <2>1, <2>4, WorksKept, IoKept DEF TestStop, EpollReady, Handle
  <2> QED
    BY <1>3, <2>2, <2>3, <2>4 DEF IoStep
<1>4. ASSUME NEW t \in Thread, Handler(t) PROVE TypeOK'
  BY <1>4, HandlerTypeOK
<1>5. CASE UNCHANGED vars
  BY <1>5, WorksKept, IoKept DEF vars, OwnTypes, threadVars, signalVars
<1> QED
  BY <1>1, <1>2, <1>3, <1>4, <1>5 DEF Next

\* Every variable keeps to its type, those of both pools included.
THEOREM TypeCorrect == Spec => []TypeOK
  BY InitTypeOK, NextTypeOK, PTL DEF Spec

-----------------------------------------------------------------------------
(***************************************************************************)
(* Each step of the server, its handlers included, is one of either        *)
(* ThreadPool, or leaves that pool alone.                                  *)
(***************************************************************************)
LEMMA WorksSteps == [Next]_vars => [Works!Next]_(Works!vars)
<1> SUFFICES ASSUME [Next]_vars PROVE [Works!Next]_(Works!vars)
  OBVIOUS
<1> USE DEF Works!Next
<1>1. ASSUME UNCHANGED worksVars PROVE [Works!Next]_(Works!vars)
  BY <1>1 DEF worksVars, Works!vars
<1>2. ASSUME NEW w \in Worker, Work(w) \/ WorkerWakes(w) PROVE [Works!Next]_(Works!vars)
  BY <1>2 DEF Work, WorkerWakes, Works!WorkerStep
<1>3. ASSUME NEW t \in Io, IoStep(t) \/ IoWakes(t) PROVE [Works!Next]_(Works!vars)
  <2>1. CASE HandleRequest(t) \/ Notify(t)
    BY <2>1 DEF HandleRequest, Notify, Works!SubmitterStep
  <2>2. CASE Pool(t) \/ TestStop(t) \/ EpollReady(t) \/ Handle(t) \/ IoWakes(t)
    BY <1>1, <2>2 DEF Pool, TestStop, EpollReady, Handle, IoWakes
  <2> QED
    BY <1>3, <2>1, <2>2 DEF IoStep
<1>4. ASSUME NEW t \in Thread, Handler(t) PROVE [Works!Next]_(Works!vars)
  <2>1. CASE SetWorks(t) \/ StopWorks(t)
    BY <1>1, <2>1 DEF SetWorks, StopWorks, End, Works!StopStep
  <2>2. CASE ~(SetWorks(t) \/ StopWorks(t))
    BY <1>1, <1>4, <2>2 DEF Handler, TestWorks, StopLoops, TestIo, SetIo, StopIo, Delete, Exit, End
  <2> QED
    BY <2>1, <2>2
<1>5. CASE \/ Construct \/ Unhold \/ (\E x \in Lock : Hold(x))
           \/ DeliverToMain \/ \E t \in Pooled : DeliverTo(t)
  BY <1>1, <1>5 DEF Construct, Unhold, Hold, DeliverToMain, DeliverTo, Interrupt
<1>6. CASE UNCHANGED vars
  BY <1>1, <1>6 DEF vars
<1> HIDE DEF Works!Next
<1> QED
  BY <1>2, <1>3, <1>4, <1>5, <1>6 DEF Next

LEMMA IoSteps == [Next]_vars => [IO!Next]_(IO!vars)
<1> SUFFICES ASSUME [Next]_vars PROVE [IO!Next]_(IO!vars)
  OBVIOUS
<1> USE DEF IO!Next
<1>1. ASSUME UNCHANGED ioVars PROVE [IO!Next]_(IO!vars)
  BY <1>1 DEF ioVars, IO!vars
<1>2. ASSUME NEW w \in Worker, Work(w) \/ WorkerWakes(w) PROVE [IO!Next]_(IO!vars)
  BY <1>1, <1>2 DEF Work, WorkerWakes
<1>3. ASSUME NEW t \in Io, IoStep(t) \/ IoWakes(t) PROVE [IO!Next]_(IO!vars)
  <2>1. CASE Pool(t) \/ IoWakes(t)
    BY <2>1 DEF Pool, IoWakes, IO!WorkerStep
  <2>2. CASE TestStop(t) \/ EpollReady(t) \/ Handle(t) \/ HandleRequest(t) \/ Notify(t)
    BY <1>1, <2>2 DEF TestStop, EpollReady, Handle, HandleRequest, Notify
  <2> QED
    BY <1>3, <2>1, <2>2 DEF IoStep
<1>4. ASSUME NEW t \in Thread, Handler(t) PROVE [IO!Next]_(IO!vars)
  <2>1. CASE SetIo(t) \/ StopIo(t)
    BY <1>1, <2>1 DEF SetIo, StopIo, End, IO!StopStep
  <2>2. CASE ~(SetIo(t) \/ StopIo(t))
    BY <1>1, <1>4, <2>2
       DEF Handler, TestWorks, SetWorks, StopWorks, StopLoops, TestIo, Delete, Exit, End
  <2> QED
    BY <2>1, <2>2
<1>5. CASE \/ Construct \/ Unhold \/ (\E x \in Lock : Hold(x))
           \/ DeliverToMain \/ \E t \in Pooled : DeliverTo(t)
  BY <1>1, <1>5 DEF Construct, Unhold, Hold, DeliverToMain, DeliverTo, Interrupt
<1>6. CASE UNCHANGED vars
  BY <1>1, <1>6 DEF vars
<1> HIDE DEF IO!Next
<1> QED
  BY <1>2, <1>3, <1>4, <1>5, <1>6 DEF Next

(***************************************************************************)
(* The workers and the IO threads are ThreadPools as far as the server     *)
(* uses them: it submits, notifies and stops only as ThreadPool says.  The *)
(* IO pool starts with the run()s queued, the workers' with nothing.       *)
(***************************************************************************)
THEOREM PoolsAreThreadPools ==
  Spec => Works!Init /\ [][Works!Next]_(Works!vars) /\ [][IO!Next]_(IO!vars)
<1>1. Init => Works!Init
  BY DEF Init
<1> QED
  BY <1>1, WorksSteps, IoSteps, PTL DEF Spec

\* A thread between its predicate and its sleep holds the pool's mutex.
WorksMutex == \A v, w \in Worker : worksPc[v] = "block" /\ worksPc[w] = "block" => v = w
IoMutex == \A v, w \in Io : ioPc[v] = "block" /\ ioPc[w] = "block" => v = w

LEMMA WorksAsleep ==
  Works!TypeOK /\ WorksMutex /\ Works!AtMostOneLeftAsleep /\ [Works!Next]_(Works!vars)
    => WorksMutex' /\ Works!AtMostOneLeftAsleep'
<1> SUFFICES ASSUME Works!TypeOK, WorksMutex, Works!AtMostOneLeftAsleep, [Works!Next]_(Works!vars)
             PROVE  WorksMutex' /\ Works!AtMostOneLeftAsleep'
  OBVIOUS
<1> USE DEF Works!TypeOK, Works!AtMostOneLeftAsleep, Works!At, Works!Goto, Works!MutexFree, WorksMutex
<1>1. ASSUME NEW w \in Worker, Works!WorkerStep(w) \/ Works!SpuriousWakeup(w)
      PROVE  WorksMutex' /\ Works!AtMostOneLeftAsleep'
  <2>1. CASE Works!Block(w)
    BY <2>1 DEF Works!Block
  <2>2. CASE Works!Sleep(w)
    BY <2>2 DEF Works!Sleep
  <2>3. CASE Works!TakeTask(w) \/ Works!CheckStop(w)
    BY <2>3 DEF Works!TakeTask, Works!CheckStop
  <2>4. CASE Works!ReturnOnStop(w) \/ Works!FinishTask(w) \/ Works!SpuriousWakeup(w)
    BY <2>4 DEF Works!ReturnOnStop, Works!FinishTask, Works!SpuriousWakeup
  <2> QED
    BY <1>1, <2>1, <2>2, <2>3, <2>4 DEF Works!WorkerStep
<1>2. ASSUME NEW s \in Io, Works!SubmitterStep(s) PROVE WorksMutex' /\ Works!AtMostOneLeftAsleep'
  BY <1>2 DEF Works!SubmitterStep, Works!AddTask, Works!NotifyOne
<1>3. CASE Works!StopStep
  BY <1>3 DEF Works!StopStep, Works!Stop, Works!NotifyAll, Works!Join
<1>4. CASE UNCHANGED Works!vars
  BY <1>4 DEF Works!vars
<1> QED
  BY <1>1, <1>2, <1>3, <1>4 DEF Works!Next

LEMMA IoAsleep ==
  IO!TypeOK /\ IoMutex /\ IO!AtMostOneLeftAsleep /\ [IO!Next]_(IO!vars)
    => IoMutex' /\ IO!AtMostOneLeftAsleep'
<1> SUFFICES ASSUME IO!TypeOK, IoMutex, IO!AtMostOneLeftAsleep, [IO!Next]_(IO!vars)
             PROVE  IoMutex' /\ IO!AtMostOneLeftAsleep'
  OBVIOUS
<1> USE DEF IO!TypeOK, IO!AtMostOneLeftAsleep, IO!At, IO!Goto, IO!MutexFree, IoMutex
<1>1. ASSUME NEW w \in Io, IO!WorkerStep(w) \/ IO!SpuriousWakeup(w)
      PROVE  IoMutex' /\ IO!AtMostOneLeftAsleep'
  <2>1. CASE IO!Block(w)
    BY <2>1 DEF IO!Block
  <2>2. CASE IO!Sleep(w)
    BY <2>2 DEF IO!Sleep
  <2>3. CASE IO!TakeTask(w) \/ IO!CheckStop(w)
    BY <2>3 DEF IO!TakeTask, IO!CheckStop
  <2>4. CASE IO!ReturnOnStop(w) \/ IO!FinishTask(w) \/ IO!SpuriousWakeup(w)
    BY <2>4 DEF IO!ReturnOnStop, IO!FinishTask, IO!SpuriousWakeup
  <2> QED
    BY <1>1, <2>1, <2>2, <2>3, <2>4 DEF IO!WorkerStep
<1>2. ASSUME NEW s \in {Main}, IO!SubmitterStep(s) PROVE IoMutex' /\ IO!AtMostOneLeftAsleep'
  BY <1>2 DEF IO!SubmitterStep, IO!AddTask, IO!NotifyOne
<1>3. CASE IO!StopStep
  BY <1>3 DEF IO!StopStep, IO!Stop, IO!NotifyAll, IO!Join
<1>4. CASE UNCHANGED IO!vars
  BY <1>4 DEF IO!vars
<1> QED
  BY <1>1, <1>2, <1>3, <1>4 DEF IO!Next

(***************************************************************************)
(* For any pools and signals: notify_all() of a stop() misses one thread   *)
(* of its pool at the most.                                                *)
(***************************************************************************)
THEOREM OneMissedAtMost == Spec => []MissesOneAtMost
<1>1. Init => WorksMutex /\ IoMutex /\ MissesOneAtMost
  BY DEF Init, Works!Init, WorksMutex, IoMutex, MissesOneAtMost, Works!AtMostOneLeftAsleep,
     IO!AtMostOneLeftAsleep
<1>2. TypeOK /\ WorksMutex /\ IoMutex /\ MissesOneAtMost /\ [Next]_vars
        => WorksMutex' /\ IoMutex' /\ MissesOneAtMost'
  BY TypesAre, WorksSteps, IoSteps, WorksAsleep, IoAsleep DEF MissesOneAtMost
<1> QED
  BY <1>1, <1>2, TypeCorrect, PTL DEF Spec
=============================================================================
