# Verification of net-module

TLA+ models of the reactor library in `src/src`, `src/include` and of the echo
server in `src/example/EchoServer.cpp` that uses it, checked with TLC, and
theorems about them checked with TLAPS.

## The system

| part | state it keeps | operations | interacts with |
|---|---|---|---|
| `EventLoop` | `taskQueue_` under `taskmutex_`, `conns_` under `connmutex_`, `wakeupfd_`, `timerfd_`, `stop_` | `run`, `queueInLoop`, `wakeup`/`handlewakeup`, `newconnection`, `handletimer`, `stop` | its `Epoller`; called by the main thread, workers and the thread that stops the server |
| `Epoller`, `Channel` | the epoll set, `events_`, `revents_`, `inepoll_` | `updateChannel`, `removeChannel`, `loop`, `handleEvent` | raw `Channel*` in the kernel and in the batch `run()` walks |
| `ThreadPool` | `taskqueue_` under `mutex_`, `condition_`, atomic `stop_` | worker lambda, `addtask`, `stop` | runs the subloops ("IO") and the echo server's tasks ("WORKS") |
| `Acceptor`, `Socket` | the listening fd; an fd closed by its destructor | `newConnection`, `accept` | hands a `unique_ptr<Socket>` to `TcpServer` |
| `TcpServer` | `conns_` (fd to `shared_ptr<Connection>`) under `connmutex_` | `newconnection`, `closeconnection`, `errorconnection`, `removeconn`, `start`, `stop` | callbacks of `Acceptor`, `Connection`, `EventLoop`'s timer, on different threads |
| `Connection` | input and output buffers, `disConnect_`, its channel, `lastTime_` | `onmessageCallback`, `closeCallback`, `errorCallback`, `writeCallback`, `send`, `sendInloop` | `this` goes into epoll and into queued tasks; `shared_ptr`s into both maps and the pool |
| `Buffer` | `buf_`, `sep_` | `append`, `appendSep`, `pickMessage`, `erase` | one of each pair per `Connection` |
| `EchoServer` | a `TcpServer` (3 subloops) and a `ThreadPool` (5 workers) | `HandleMessage`, `OnMessage`, `Stop` and its signal handler | moves each request to a worker, each reply back to the IO thread |
| `Timestamp` | a reading of the wall clock | `now`, `toInt` | `lastTime_` of a `Connection`, compared with `time(0)` by the idle timer |
| `InetAddress`, socket options, `main.cpp` with the vendored JSON header | – | – | not modelled, see below |

Threads: the main thread (accepts), one IO thread per subloop, the workers, and
whichever thread a signal handler interrupts. What is hard: handing tasks to a
sleeping loop or pool without losing a wakeup; stopping while others run; a
connection known under an fd in two maps, in epoll and in queued tasks, with
three kinds of threads adding and removing references while fds are reused;
edge-triggered events that are announced once; frames cut anywhere; a signal
handler that joins threads from inside whatever it interrupted; an idle test
that compares two readings of a clock that may be set.

What makes each part correct:

* `EventLoop`, `ThreadPool`: each task runs once, in order, and does run unless
  a stop is asked for; nobody sleeps on work or on a stop.
* `TcpServer`: both maps know a live connection under its own fd and no other;
  a closed connection is destroyed and its fd returned; what is registered in
  epoll or queued does not outlive what it points to.
* `Connection`: every whole request is handled, every reply is sent, once, in
  the order of the requests.
* `EchoServer`, `TcpServer::stop()`: a stop joins every thread before it
  destroys what they use, in an order that leaves no reply without a loop, and
  ends.
* The idle timer: nobody is removed before its time, nobody stays for ever.
* `Buffer`: messages come out as they went in, however the stream is cut.

## Modules

| module | models | state and actions |
|---|---|---|
| `TaskQueue` | the promise of `queueInLoop()` and `addtask()` to their callers | abstract: tasks leave in order, each once, each in the end unless a stop is asked for |
| `EventLoop` | `run`, `queueInLoop`, `handlewakeup`, `stop`, the eventfd | one action per statement another thread can be seen between: push under the mutex and `write()` are two, so are `read()` and the drain; `pc` is the place in `run()` |
| `ThreadPool` | worker lambda, `addtask`, `stop` | `wait()` is split where the mutex is held with the predicate known false (`Block`) and asleep (`Sleep`); lost notifies and spurious wakeups are steps |
| `TcpServer` | `newconnection` step by step, the close, the idle timer, workers, the `shared_ptr` counts | who holds a reference is computed (`Held`); a step that drops one destroys what nobody holds (`Reap`) and frees its fd for the next `accept()` |
| `ConnectionLife` | the promise of `TcpServer` for each connection | abstract: new, open, leaving, gone; a descriptor has one owner; a connection that leaves is destroyed |
| `Connection` | the data path from the client's bytes to the reply | edge-triggered readiness (`edge`), `EPOLL_CTL_*` and what they arm, `handleEvent`, read loop, splitting, worker, queued `sendInloop`, `send()` that takes a part, fails, or raises SIGPIPE |
| `Buffer` | `appendSep`, `append`, `pickMessage` byte by byte, and what `PressureTestClient` sends | the four header bytes, signed and unsigned comparison, the bytes `memcpy` finds behind `buf_` |
| `Shutdown` | `main()`, the signal handler, `EchoServer::Stop`, `TcpServer::stop`, both `ThreadPool::stop` and the destructors | two instances of `ThreadPool`, whose IO tasks are the `run()`s; `frame` is where each thread is in the handler, `need` and `held` the locks behind which it may get stuck |
| `IdleTimer` | `handletimer`, `timeout`, `timerfd_`, `Timestamp` | monotonic time in ticks, the wall clock beside it at an `offset`, cut to seconds (`ToInt`) |
| `EventLoopProofs`, `ThreadPoolProofs`, `ShutdownProofs`, `TcpServerProofs`, `ConnectionProofs`, `BufferProofs`, `IdleTimerProofs` | theorems about the module each is named after | the inductive invariant `IInv` (in `ShutdownProofs` `Joined` and `Orderly`) and what single theorems need beside it, one lemma per action, the theorems at the end |
| `MC*` | instances for TLC | |

`Shutdown` composes `ThreadPool` with itself: its actions are those of the two
instances, each allowed only while its thread is not in the handler and the
process has not ended. Each loop is reduced to where it is in `run()`; that a
stopped one leaves `epoll_wait()` is `EventLoop`'s `StopReturns`. `IdleTimer`
refines the step `Age` of `TcpServer`, which lets a connection be found idle at
any time, by the clocks.

`TcpServer` and `Connection` use the queues of `EventLoop` and `ThreadPool` as
`TaskQueue` describes them, which the refinements justify: an append by the
sender, a removal from the head by the owner. The readiness of `wakeChannel_`
is therefore "the queue is not empty" there. Requests are numbered in
`Connection`; that bytes become the right requests is `Buffer`'s business.

Undefined behaviour is a step like others. A step of `TcpServer` that C++ leaves
undefined, and one that throws out of the loop, ends the behaviour with its
name in `crash`, beside the outcome in which it goes well where there is one:
the erased iterator may fault or go on with any rest of the walk, an insertion
during the walk of `handletimer()` may go well or be a race.

## Checks

Passing runs (`PROJECT.json` has one mutant per property: a slip in the code
that makes the property fail under the same configuration).

| run | instance | shows |
|---|---|---|
| `event_loop` | 2 callers, 3 tasks, 2 other channels, 2 events at a time | `NoLostWakeup`, `NoLostStop`, `run()` returns after `stop()` (`StopReturns`), and the loop implements `TaskQueue` with its liveness (`ImplementsTaskQueue`) |
| `thread_pool` | 3 workers, 2 submitters, 3 tasks | no worker sleeps beside work (`EnoughAwake`), `stop()` misses one worker at the most (`AtMostOneLeftAsleep`) and returns when it misses none (`StopReturnsUnlessMissed`), `ImplementsTaskQueue` |
| `server_maps` | 2 clients, 2 fds, 1 worker or none, 1 request each | `MapsOwnTheirKeys`, `NobodyForgotten`; only the timer's handler destroys a connection, its own or another of the batch (`HandlersDestroyNothing`), after it timed out (`GoneWasTimedOut`); where the IO thread answers, `ClosedLeavesEpoll` |
| `server_freed` | 2 clients, 1 fd | `ImplementsConnectionLife`, liveness included; the second client connects only on the fd the first one returned |
| `conn` | 3 requests of 2 cells, 2 workers, one or none, a socket that takes 2 replies | `NothingUnnoticed`, `EveryRequestHandled`, `EveryReplySent`, a request is in one place at a time (`NoneTwice`) and in some place while its client is there (`NoneLost`), a reply has an event to come (`NoReplyUnannounced`); replies are queued in the order of the requests up to one worker (`RepliesInOrder`); `ResetIsSurvived` |
| `buffer` | 3 messages out of 4 payloads, bytes of 4 values, either client | `MessagesIntact`, `NothingStuck` |
| `shutdown` | 2 workers, 1 subloop, 1 request, 2 signals | `NoThreadOutlivesServer`, and one thread per pool missed at the most (`MissesOneAtMost`), whatever the signals; with one signal `WorkersLeaveFirst`, `OneSignalIsOrderly`, and the process ends unless the handler is stuck in one of the ways `Stuck` names (`StopsUnlessStuck`) |
| `idle_timer` | 2 connections, `timeout_` 10 and `timetvl_` 5 as in the code, 2 ticks to a second, a clock set by a second either way | `NeverEarly`, `GoneInTime` |

`TypeOK` is checked in every module with a type invariant; in `ThreadPool` it
also says that `stop_` is set exactly from the start of `stop()` on, in
`TcpServer` that only live connections are registered, in `Connection` that no
more requests are picked than have arrived whole, in `Buffer` that no byte from
`PressureTestClient` is zero, in `Shutdown` that each pool
has its own `TypeOK`, in `IdleTimer` that `timerfd_` is never armed for longer
than the longer of its two periods.

Why the bounds are enough. Callers, submitters, workers and tasks are
interchangeable, and each property is broken by two of them meeting a third
thing: a push merged into another's wakeup, a notify that finds several, one or no
worker asleep, a worker inside `wait()`'s window beside one asleep. Two
connections meet in the maps through an fd one of them returned, or in one walk
of the timer; the subloops share nothing but `TcpServer::conns_`, whose accesses
are atomic under its mutex, so one subloop is modelled. Three requests are one
being answered, one with a worker and one arriving; halves are where a request
can be cut. With four byte values or more, the headers of -4 to -1 differ in
the lowest byte only, as with 256, and the terminating zero of `buf_` keeps a
partial header from being one of them; payloads include some that look like
headers. Two signals are enough for a second handler on top of the first, on the main
thread or on one that is to be joined; two workers for one that is busy or needs
a lock while the other is missed by `notify_all()`. In `IdleTimer` the longest
wait is `timeout_`, the rest of a second and one round for each connection whose
removal cut a walk short: `MaxTime` covers it for two, with the clock set back.
`MaxEvents` is 2 where the code has 100: less than there are channels.
`MaxMessage` bounds what senders send; a task is handed over once,
which bounds the histories and `wakefd`.

Deadlock is not checked: a stopped loop or pool, a finished sender, a client
that owes nothing, a behaviour ended by `crash`, a process that ended or whose
handler is stuck, and the end of the time looked at are all real ends.

Fairness. Threads that can step do (weak fairness per thread: the loop, each
worker, the rest of a call once begun). Nothing is assumed of clients, of who
calls `addtask`, `queueInLoop` or `stop`, of spurious wakeups, or of the
ten-second timeout of `epoll_wait()`: `EventLoop` is owed a return from
`epoll_wait()` only while the eventfd is readable. `server_freed` also assumes
that `timerfd_` expires again (the handler rearms it) and that a connection
without requests grows old. `shutdown` owes a loop a return from `epoll_wait()` only once
it was stopped, and the handler its next step wherever it can step; a lock that
the interrupted main thread holds is never released. In `event_loop` the ready
list is served in turn: when `epoll_wait()` returns again and again while the
eventfd is readable, it reports it in the end (strong fairness), though the array
may be full of other channels each time. `idle_timer` has no fairness: that
time stops until the loop gets to an expired `timerfd_`, within `Delay`, is in
the guard of `Tick`.

### Where code and comments differ

Four runs check one claim each and end in a counterexample.

| run | claim | what the code does |
|---|---|---|
| `pool_stop` | `StopTerminates`: all threads exit on `stop()` (`ThreadPool.h:34`, `ThreadPool.cpp:59`) | `stop_` changes without the mutex; a worker between predicate and sleep misses `notify_all()` and `join()` waits for ever. In `TcpServer::stop()` this meets an IO thread on its way from `run()` back to `wait()` |
| `server_unbound` | `CallbacksSetFirst`: create, set callbacks, hand over (`README.md:245`) | the constructor already registers the channel; the first event may come before the object has an owner and callbacks |
| `server_late_send` | `SendFromAnyThread`: call `send()` from any thread (`Connection.h:44`) | the queued call holds a raw `this` that may be gone: a connection that was idle too long is destroyed while a worker's reply is queued |
| `conn_data` | `DataOutlivesSend`: "send the data" (`EchoServer.cpp:101`) | the queued pointer is into a string the worker's task destroys |

The models contain more such behaviours, which no run is given to:

* `ThreadPool.cpp:28` says queued tasks are run before the pool stops; the
  `while` of line 17 lets a worker that returns from a task leave first, and when
  all have left what is queued is never run (`CheckStop`).
* `EchoServer.cpp:105` and `Connection.h:64`: the callback comes when the data has
  been sent. After a `send()` that took everything the buffer is not empty, so
  `EPOLLOUT` stays set and `Connection.cpp:97` does not call it (`WriteSome`).
* `TcpServer.cpp:122`: the order of `clientsock->getfd()` and
  `std::move(clientsock)` is the compiler's; one order dereferences null
  (`CreateMoved`).
* `TcpServer.cpp:116` "removing it is all there is to do": a close handled before
  line 130 erases nothing and the closed connection is inserted; and
  `EventLoop::conns_` keeps every closed connection until the idle timer.
* `EchoServer.cpp:100` checks the state on the worker; the send runs later on
  the IO thread and, after a close, adds the channel to epoll again, which is
  why `ClosedLeavesEpoll` is stated for a server without workers.
* `EventLoop.cpp:110` erases the node its range-for stands on; line 106 walks
  the map without the mutex `newconnection()` takes.
* `EventLoop.cpp:87` may dispatch a channel that an earlier handler of the same
  batch destroyed, through the timer (`HandleFreed`) and through no other handler
  (`HandlersDestroyNothing`).
* `Connection.cpp:74`: a request and the FIN behind it read by one event are
  dropped together, so `EveryRequestHandled` exempts a client that closes.
* `Channel.cpp:79`: `EPOLLIN` and `EPOLLOUT` of one edge run the read callback
  alone; and an output buffer that is never shortened outgrows what one
  `send()` takes. Both are the exceptions (`Unanswerable`) of `EveryReplySent`.
* `EchoServer.cpp:101` "send the data": `Connection.cpp:94` erases the buffer when
  `send()` failed, not when it succeeded, so what was sent is sent again with
  the next reply (`WriteSome`).
* `EchoServer.cpp:124`: the handler joins from inside whatever it interrupted. A
  thread that needs the lock the main thread holds is never joined (`Stuck`); a
  second signal can join a thread twice or its own, or meet a freed server, all
  of which end the process (`Ends`); a signal during line 142 finds a null
  pointer.
* `ThreadPool.cpp:46`: `addtask()` after `stop()` queues a request that no worker
  runs; the subloops still do that between the two stops of
  `EchoServer::Stop()` (`HandleRequest`).
* `Connection.cpp:93`: `send()` without `MSG_NOSIGNAL`. A client's FIN, and the RST
  to an earlier reply, both between `epoll_wait()` and `send()`, raise SIGPIPE
  and end the server (`WriteKilled`); no other reset does (`ResetIsSurvived`).
* `EchoServer.cpp:88`: with two workers or more the replies of one connection may
  be queued in another order than its requests came.
* `EventLoop.cpp:105` reads the wall clock: setting it forwards removes a
  connection early by as much (`NeverEarly`).
* `PressureTestClient.cpp:99` sends `strlen()` of a frame, one byte of it for its
  message, so that the server never has a request from it and it never has a
  reply to read.

## Proofs

Every invariant, every action property and the safety half of every refinement
that a passing run checks is a theorem: for any set of callers, tasks,
connections, descriptors, channels and workers (finite where the table of
assumptions says so), any number of requests and signals, any size of requests, of
a socket's room, of `MaxEvents`, any timeouts and clocks.

| theorem | statement | argument |
|---|---|---|
| `EventLoopProofs!TypeCorrect`, `WakeupNeverLost`, `StopNeverLost` | `Spec => []TypeOK`, `[]NoLostWakeup`, `[]NoLostStop` | `IInv` adds what the drain relies on: who holds `taskmutex_`, and that `stop_` is set before its wakeup is written |
| `EventLoopProofs!RefinesTaskQueue` | `Spec => TQ!SafeSpec` | a push is `Submit`, `RunTask` is `Take`, `Stop` is `Close`, all else stutters |
| `ThreadPoolProofs!TypeCorrect`, `AtMostOneMissed` | `[]TypeOK`, `[]AtMostOneLeftAsleep` | `MutexInv`: a worker between predicate and sleep holds the mutex alone and the queue is empty; after `notify_all()` only that one can be asleep, and no other can follow it since the predicate is true by then |
| `ThreadPoolProofs!NobodySleepsBesideWork` | `[]EnoughAwake` | counting: a push adds a notifier, a notify turns a notifier into an awake worker, and a worker goes to sleep only on an empty queue |
| `ThreadPoolProofs!RefinesTaskQueue` | `Spec => TQ!SafeSpec` | as above |
| `ShutdownProofs!TypeCorrect` | `[]TypeOK` | a step of either pool is one of `ThreadPool`'s own, and the other pool's variables stay |
| `ShutdownProofs!ThreadsLeaveFirst` | `[]NoThreadOutlivesServer` | `Joined`: a pool whose `stop()` returned has joined every thread, a thread that left its lambda does not return, and only `Delete` with both stops done frees the server |
| `ShutdownProofs!WorkersLeaveBeforeLoops`, `OneSignalEndsInOrder` | `[]WorkersLeaveFirst`, `[]OneSignalIsOrderly` | `Orderly`: up to the first signal's handler it is the only one and on the main thread (`Alone`), and where it is tells how far each `stop()` has got (`Phases`); every other step leaves all of that alone (`Quiet`) |
| `ShutdownProofs!PoolsAreThreadPools` | `Spec => Works!Init /\ [][Works!Next]_vars /\ [][IO!Next]_vars` (each over the pool's variables) | step by step: what the server, its IO threads and the handlers do to a pool is a step of `ThreadPool` or none. `IO!Init` is not there because the subloops' `run()`s are queued before the first state |
| `ShutdownProofs!OneMissedAtMost` | `[]MissesOneAtMost` | `ThreadPool`'s argument, carried over by the above: one thread of a pool at a time is between predicate and sleep (`WorksMutex`, `IoMutex`) |
| `TcpServerProofs!TypeCorrect`, `NoForeignEntry`, `NoneForgotten`, `ClosedStaysOut` | `[]TypeOK`, `[]MapsOwnTheirKeys`, `[]NobodyForgotten`, `[]ClosedLeavesEpoll` | the `shared_ptr` count, `LiveIsHeld`: an object exists exactly as long as a map, a queue or a local holds it. So no entry outlives its object, what is inserted still has the fd it is inserted under, and no fd returns before the last entry is gone. `ServerKnows` covers the steps of `newconnection()` between its two insertions; `Inline` says that without a pool nothing is queued and a handled channel is registered, so that no late `send()` can re-register one |
| `TcpServerProofs!HandlersKeepAlive` | `HandlersDestroyNothing`, an action property | a close drops the reference of `TcpServer::conns_`, and that is not the last: who is in that map has not timed out, but for the one `handletimer()` has in hand (`TimedOutIsOut`), and who has not timed out is in `EventLoop::conns_` or still `newconnection()`'s own (`NobodyForgotten`) |
| `TcpServerProofs!TimedOutFirst` | `[]GoneWasTimedOut` | from `IInv`: an object that does not exist is held by nobody, so `NobodyForgotten` leaves only that it timed out |
| `TcpServerProofs!RefinesConnectionLife` | `Spec => Life!SafeSpec` | `accept()` is `Open`; a close, an error and the erasing timer are `Leave`; the step that drops the last reference is `Destroy`, and it drops only one connection's; a step C++ leaves undefined is `Break`. `LeftFirst`: who is gone had left before |
| `ConnectionProofs!TypeCorrect`, `NoLostEdge`, `ResetSurvived` | `[]TypeOK`, `[]NothingUnnoticed`, `[]ResetIsSurvived` | `Channel`: the channel stays registered until the close, and an `EPOLLOUT` of a socket that was reset with its error taken comes with an `EPOLLIN`; `Workers` and `Inline`: who may have a request where |
| `ConnectionProofs!OrderKept` | `[]RepliesInOrder` | `InOrder`: output buffer, `taskQueue_`, the one worker that still has to send, the pool's queue and what is not picked yet are one increasing sequence, in which every step moves a request one place on. It holds where `OneAtMost` worker is in the pool, and with two it does not. It is about what is queued: the client reads the first replies again with every later one |
| `ConnectionProofs!HandledOnce`, `NothingDropped` | `[]NoneTwice`, `[]NoneLost` | `PlaceInv`: what is in any place was picked, so the next request is new to all of them, and each step moves one request one place on (`OneMoves`); `KeptInv`: `disConnect_`, on which a worker drops its reply, is not set while the client is there |
| `ConnectionProofs!ReplyAnnounced` | `[]NoReplyUnannounced` | `Announced`: a buffer with replies keeps `EPOLLOUT` set; `EPOLLIN`, which hides an `EPOLLOUT`, means bytes to read, and the loop leaves `recv()` with a whole request or with nothing it could go on with. So each way to lose the event leads to another one or to half a request |
| `BufferProofs!TypeCorrect` | `[]TypeOK`, with headers or none | whatever the header reads, `substr()` and `erase()` stay within `buf_`; a partial header never passes line 59, because a byte behind it is zero and only -4 to -1 would pass (`PartialHeader`); what `PressureTestClient` sends ends before the first zero, and cutting brings none in (`PartNoZero`) |
| `BufferProofs!PicksWhatWasSent`, `NoMessageLeftBehind` | `[]MessagesIntact`, `[]NothingStuck`, given `HeadersFit` | `Framing`: there are places to cut so that what has arrived and what is on its way are the frames of the messages not picked yet. `HeaderGivesLength`: the four bytes written decode to the length; `FrameTaken`: taking the first frame leaves a framing of the rest; `RestOfConcat`: taking it from `buf_` is taking it from the stream |
| `IdleTimerProofs!TypeCorrect`, `LeavesInTime` | `[]TypeOK`, `[]GoneInTime` | `NextRound` bounds when `timerfd_` expires next by a connection's deadline and one round for each that is out already; `OnTime`: the loop is not later than `Delay`; a walk that leaves a timed-out connection in has put out another one, and there are only so many (`RoundsAdd`) |
| `IdleTimerProofs!StaysItsTime` | `NeverEarly`, an action property | `ClockRead`: the clock was not set between a request and its `lastTime_`, or once since; a difference of two readings cut to seconds exceeds `timeout_` only if the times do |

Assumptions:

* the modules' `ASSUME`s. Names are distinct: `"wake"`, `"timer"` and `NoConn` are no
  channel or connection, 0 is no descriptor of a client (it is `stdin`), the main thread is in no
  pool, and no thread in two. `Worker`, `Submitter` and `Io` are finite, and so is `Conn` in
  `IdleTimer`, whose bound counts them. Bounds are naturals; periods, sizes and room are not zero;
  a byte has four values or more.
* `HeadersFit`, the hypothesis of two theorems of `BufferProofs`: `sep_` is 1 and
  `len + 4` of every message fits the `int` of `pickMessage()`. Without headers no
  message boundaries are promised, and a longer message is not framed by four
  bytes (`Buffer.cpp:58`).

The powers of `Base` in `Buffer` are the four entries of `Weight`: the provers
multiply, and know nothing of exponentiation.

Out of the prover's reach, and checked by TLC only: everything under fairness
(`StopReturns`, `StopReturnsUnlessMissed`, `StopsUnlessStuck`, the liveness halves
of `ImplementsTaskQueue` and `ImplementsConnectionLife`, `EveryRequestHandled`,
`EveryReplySent`), and `ENABLED`. No property here needs induction over data: the sum
of the frames' sizes, which would, is replaced in `BufferProofs` by a cut function
that is said to exist, and is extended by one message at a time.

## Not modelled

* `InetAddress`, socket options, `bind`/`listen`, `Timestamp::toString`: formatting
  and one-time set-up.
* Failures of `epoll_ctl()` and `epoll_wait()`, which exit the process.
* `disableReading()`, `disableAll()`, `Buffer::clear()`: never called.
* The main loop's own timer, whose handler only rearms it, and timeouts of
  `epoll_wait()`, whose callback is not set by `EchoServer`.
* `main.cpp` and `third-party/`: an unrelated demo. The receiving sides
  of the example clients: clients are environments that send and close as they
  like, and never read a reply wrongly.
* `errorCallback()` as a step of `Connection`: `handleEvent()` reaches it only for
  an event without `EPOLLIN`, and an error or a hang-up of a socket comes with
  `EPOLLIN`. It does what `closeCallback()` does.
* In `Connection`, a client that stops reading: the socket gets room again after
  each `send()` that took a part.
* In `IdleTimer`, a wall clock that is set more than once.
* In `Shutdown`, the `printf()` with which each thread of a pool starts, and the
  locks inside `malloc()`, which a handler that calls `printf()`
  and `delete` can also meet, and tasks that take for ever.
* `SIGSTOP` and `SIGCONT`, which let `epoll_wait()` return `EINTR`: `Epoller::loop()`
  then ends the process.
* A task that calls `queueInLoop()` of its own loop, which would lock `taskmutex_`
  twice: none does.

## Plan

1. Done: all modules model-checked; every invariant, every action property and the
   safety half of every refinement proved; `ThreadPool`'s steps and its result on
   `stop()` carried over to both pools of the server.
2. Open: a composition of `Connection` with `TcpServer`, in which a queued
   `sendInloop()` has both its data and its object. Its state space is out of TLC's
   reach at the bounds the two need alone, so each models the other by what it may do.
3. Left to TLC: what is under fairness, as listed above.
4. Not planned: the hazards without a property that end the process at once
   (`epoll_wait()` with `EINTR`, `accept4()` without a descriptor left).
