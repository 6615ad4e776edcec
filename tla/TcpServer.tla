----------------------------- MODULE TcpServer -----------------------------
(***************************************************************************)
(* The life of a connection in TcpServer: the main loop accepts it and     *)
(* enters it in two maps keyed by fd, the IO thread of its EventLoop       *)
(* handles its events, its idle timer and the sends queued for it, workers *)
(* answer its requests, and shared_ptr counts decide when it is destroyed  *)
(* and its fd becomes free for the next accept().                          *)
(*                                                                         *)
(* One subloop is modelled: fd % threadNum_ picks it and subloops share    *)
(* nothing else.  The task queues are those EventLoop and ThreadPool       *)
(* implement (TaskQueue).  A step that is undefined in C++ ends the        *)
(* behaviour with its name in crash.                                       *)
(***************************************************************************)
EXTENDS Naturals, Sequences, FiniteSets

CONSTANTS
  Conn,          \* connections, one per client that ever connects
  Fd,            \* file descriptors accept() may return
  Worker,        \* threads of EchoServer's pool, if it has any
  NoConn,        \* what a map holds for a key it does not have
  MaxMessage     \* bound: requests a client sends

ASSUME TcpServerAssumption ==
  /\ NoConn \notin Conn /\ 0 \notin Fd /\ MaxMessage \in Nat
  /\ Conn \cap {"timer", "wake"} = {}   \* the other channels of a batch

VARIABLES
  pool,          \* threads_ of that pool: Worker, or none and the IO thread answers
  fdOf,          \* clientSock_'s fd, kept after destruction; 0 before accept()
  live,          \* the Connection objects that exist
  serverConns,   \* TcpServer::conns_
  loopConns,     \* EventLoop::conns_
  mainPc,        \* where the main thread is in TcpServer::newconnection()
  mainConn,      \* its local conn
  registered,    \* channels in the epoll set (inepoll_)
  edge,          \* channels epoll_wait() has yet to report (EPOLLET)
  disConnect,    \* disConnect_
  loopPc,        \* the IO thread: in epoll_wait(), in the batch, in handletimer()
  batch,         \* channels of this round that are not handled yet
  visiting,      \* handletimer(): the fds its iterator has still to reach
  timerConn,     \* handletimer(): the loop's copy of the map entry
  timerfd,       \* timerfd_ has expired
  quiet,         \* connections idle for longer than timeout_
  expired,       \* history: connections handletimer() removed
  unread,        \* clients with a request in the socket
  requests,      \* requests sent so far, per client
  eof,           \* clients that closed their side
  taskQueue,     \* EventLoop::taskQueue_: sendInloop() with its raw this
  poolQueue,     \* ThreadPool::taskqueue_: OnMessage() with its spConnection
  task,          \* the connection each worker is busy with
  workerPc,      \* where each worker is in OnMessage()
  crash          \* "no", or the undefined step that was taken

mainVars == <<fdOf, mainPc, mainConn>>
mapVars == <<serverConns, loopConns>>
epollVars == <<registered, edge>>
timerVars == <<visiting, timerConn, timerfd, quiet, expired>>
peerVars == <<unread, requests, eof>>
poolVars == <<taskQueue, poolQueue, task, workerPc>>
vars == <<pool, mainVars, mapVars, epollVars, timerVars, peerVars, poolVars,
          live, disConnect, loopPc, batch, crash>>

Crashes == {"moved socket", "accept failed", "unbound callback", "freed channel",
            "freed connection", "erased iterator", "map race"}

TypeOK ==
  /\ pool \in {{}, Worker}
  /\ fdOf \in [Conn -> Fd \cup {0}]
  /\ serverConns \in [Fd -> Conn \cup {NoConn}] /\ loopConns \in [Fd -> Conn \cup {NoConn}]
  /\ live \subseteq Conn /\ registered \subseteq live /\ edge \subseteq registered
  /\ mainPc \in {"idle", "created", "bound", "inserted", "added"}
  /\ mainConn \in Conn \cup {NoConn} /\ timerConn \in Conn \cup {NoConn}
  /\ disConnect \subseteq Conn /\ expired \subseteq Conn /\ quiet \subseteq live
  /\ loopPc \in {"wait", "dispatch", "timer", "removeconn"}
  /\ batch \subseteq Conn \cup {"timer", "wake"}
  /\ visiting \subseteq Fd /\ timerfd \in BOOLEAN
  /\ unread \subseteq Conn /\ eof \subseteq Conn /\ requests \in [Conn -> 0..MaxMessage]
  /\ taskQueue \in Seq(Conn) /\ poolQueue \in Seq(Conn)
  /\ task \in [Worker -> Conn \cup {NoConn}]
  /\ workerPc \in [Worker -> {"idle", "check", "send", "end"}]
  /\ crash \in Crashes \cup {"no"}

Init ==
  /\ pool \in {{}, Worker}
  /\ fdOf = [c \in Conn |-> 0] /\ live = {}
  /\ serverConns = [f \in Fd |-> NoConn] /\ loopConns = [f \in Fd |-> NoConn]
  /\ mainPc = "idle" /\ mainConn = NoConn
  /\ registered = {} /\ edge = {} /\ disConnect = {}
  /\ loopPc = "wait" /\ batch = {}
  /\ visiting = {} /\ timerConn = NoConn /\ timerfd = FALSE
  /\ quiet = {} /\ expired = {}
  /\ unread = {} /\ requests = [c \in Conn |-> 0] /\ eof = {}
  /\ taskQueue = << >> /\ poolQueue = << >>
  /\ task = [w \in Worker |-> NoConn] /\ workerPc = [w \in Worker |-> "idle"]
  /\ crash = "no"

Elements(s) == {s[i] : i \in DOMAIN s}
Values(map) == {map[f] : f \in Fd}

-----------------------------------------------------------------------------
\* EventLoop::conns_ holding weak_ptrs.
Held_LoopWeak ==
  {mainConn, timerConn} \cup Values(serverConns)
    \cup Elements(poolQueue) \cup {task[w] : w \in Worker}

\* for (auto &conn : conns_) in handletimer().
Held_TimerByReference ==
  {mainConn} \cup Values(serverConns) \cup Values(loopConns)
    \cup Elements(poolQueue) \cup {task[w] : w \in Worker}

\* shared_ptr<Connection>: who holds one.  Channels in epoll and queued
\* sendInloop() calls hold a raw pointer and are not among them.
Held ==
  {mainConn, timerConn} \cup Values(serverConns) \cup Values(loopConns)
    \cup Elements(poolQueue) \cup {task[w] : w \in Worker}

\* A Socket that is not closed with its Connection.
Reap_FdLeft(channels, events) ==
  /\ live' = live \cap Held' /\ quiet' = quiet \cap Held'
  /\ registered' = channels /\ edge' = events

\* A step that drops references destroys what nobody holds; closing the fd
\* takes it out of the epoll set.
Reap(channels, events) ==
  /\ live' = live \cap Held' /\ quiet' = quiet \cap Held'
  /\ registered' = channels \cap Held' /\ edge' = events \cap Held'

\* Part of every step.
Running == crash = "no" /\ UNCHANGED pool

Crash(kind) ==
  /\ crash' = kind
  /\ UNCHANGED <<mainVars, mapVars, epollVars, timerVars, peerVars, poolVars,
                 live, disConnect, loopPc, batch>>

-----------------------------------------------------------------------------
\* The clients, and time

PeerSend(c) ==
  /\ Running /\ c \notin unread \cup eof /\ requests[c] < MaxMessage
  /\ requests' = [requests EXCEPT ![c] = @ + 1]
  /\ unread' = unread \cup {c}
  /\ edge' = edge \cup ({c} \cap registered)
  /\ UNCHANGED <<mainVars, mapVars, registered, timerVars, eof, poolVars,
                 live, disConnect, loopPc, batch, crash>>

PeerClose(c) ==
  /\ Running /\ c \notin eof
  /\ eof' = eof \cup {c}
  /\ edge' = edge \cup ({c} \cap registered)
  /\ UNCHANGED <<mainVars, mapVars, registered, timerVars, unread, requests, poolVars,
                 live, disConnect, loopPc, batch, crash>>

\* More than timeout_ seconds since lastTime_.
Age(c) ==
  /\ Running /\ c \in live \ quiet
  /\ quiet' = quiet \cup {c}
  /\ UNCHANGED <<mainVars, mapVars, epollVars, visiting, timerConn, timerfd, expired,
                 peerVars, poolVars, live, disConnect, loopPc, batch, crash>>

TimerExpires ==
  /\ Running /\ ~timerfd
  /\ timerfd' = TRUE
  /\ UNCHANGED <<mainVars, mapVars, epollVars, visiting, timerConn, quiet, expired,
                 peerVars, poolVars, live, disConnect, loopPc, batch, crash>>

-----------------------------------------------------------------------------
\* The main thread

\* Acceptor::newConnection() and the constructor of Connection, whose last
\* line puts the channel into the subloop's epoll set.
Create(c, f) ==
  /\ Running /\ mainPc = "idle" /\ fdOf[c] = 0
  /\ f \notin {fdOf[d] : d \in live}
  /\ fdOf' = [fdOf EXCEPT ![c] = f]
  /\ live' = live \cup {c}
  /\ registered' = registered \cup {c}
  /\ edge' = edge \cup ({c} \cap (unread \cup eof))
  /\ mainPc' = "created" /\ mainConn' = c
  /\ UNCHANGED <<mapVars, timerVars, peerVars, poolVars, disConnect, loopPc,
                 batch, crash>>

\* The arguments of the constructor are evaluated in an order the compiler
\* picks: std::move(clientsock) may come before clientsock->getfd().
CreateMoved ==
  /\ Running /\ mainPc = "idle" /\ \E c \in Conn : fdOf[c] = 0
  /\ Crash("moved socket")

\* accept() returns -1 when there is no descriptor left, and the result is
\* used: subloops_[-1 % threadNum_], epoll_ctl() on fd -1.
AcceptFails ==
  /\ Running /\ mainPc = "idle" /\ \E c \in Conn : fdOf[c] = 0
  /\ \A f \in Fd : \E d \in live : fdOf[d] = f
  /\ Crash("accept failed")

\* The shared_ptr owns the object and the four callbacks are set.
Bind ==
  /\ Running /\ mainPc = "created"
  /\ mainPc' = "bound"
  /\ UNCHANGED <<fdOf, mainConn, mapVars, epollVars, timerVars, peerVars, poolVars,
                 live, disConnect, loopPc, batch, crash>>

\* conns_[fd] = conn
InsertServer ==
  /\ Running /\ mainPc = "bound"
  /\ serverConns' = [serverConns EXCEPT ![fdOf[mainConn]] = mainConn]
  /\ mainPc' = "inserted"
  /\ UNCHANGED <<fdOf, mainConn, loopConns, epollVars, timerVars, peerVars, poolVars,
                 live, disConnect, loopPc, batch, crash>>

\* EventLoop::newconnection().  handletimer() walks the same map without its
\* mutex.
InsertLoop ==
  /\ Running /\ mainPc = "inserted"
  /\ \/ /\ loopConns' = [loopConns EXCEPT ![fdOf[mainConn]] = mainConn]
        /\ mainPc' = "added"
        /\ UNCHANGED <<fdOf, mainConn, serverConns, epollVars, timerVars, peerVars,
                       poolVars, live, disConnect, loopPc, batch, crash>>
     \/ /\ loopPc \in {"timer", "removeconn"}
        /\ Crash("map race")

\* After HandleNewConnection() the local conn goes.
Release ==
  /\ Running /\ mainPc = "added"
  /\ mainPc' = "idle" /\ mainConn' = NoConn
  /\ UNCHANGED <<fdOf, mapVars, visiting, timerConn, timerfd, expired, peerVars,
                 poolVars, disConnect, loopPc, batch, crash>>
  /\ Reap(registered, edge)

-----------------------------------------------------------------------------
\* The IO thread

EpollReady ==
  /\ Running /\ loopPc = "wait"
  /\ batch' = edge \cup (IF timerfd THEN {"timer"} ELSE {})
                   \cup (IF taskQueue # << >> THEN {"wake"} ELSE {})
  /\ batch' # {}
  /\ edge' = {} /\ loopPc' = "dispatch"
  /\ UNCHANGED <<mainVars, mapVars, registered, timerVars, peerVars, poolVars,
                 live, disConnect, crash>>

EndBatch ==
  /\ Running /\ loopPc = "dispatch" /\ batch = {}
  /\ loopPc' = "wait"
  /\ UNCHANGED <<mainVars, mapVars, epollVars, timerVars, peerVars, poolVars,
                 live, disConnect, batch, crash>>

\* run() holds raw Channel pointers for the length of the batch.
HandleFreed(c) ==
  /\ Running /\ loopPc = "dispatch" /\ c \in batch \ live
  /\ Crash("freed channel")

Unbound(c) == mainPc = "created" /\ mainConn = c

HandleUnbound(c) ==
  /\ Running /\ loopPc = "dispatch" /\ c \in batch \cap live /\ Unbound(c)
  /\ c \in unread \cup eof
  /\ Crash("unbound callback")

\* The answer is queued even on the IO thread.
Answer_Queued(c) ==
  /\ taskQueue' = IF pool = {} THEN Append(taskQueue, c) ELSE taskQueue
  /\ poolQueue' = IF pool = {} THEN poolQueue ELSE Append(poolQueue, c)
  /\ UNCHANGED epollVars

\* HandleMessage(): the IO thread answers, sendInloop() enabling EPOLLOUT and
\* so arming the channel again, or the pool gets a task with the spConnection.
Answer(c) ==
  IF pool = {}
  THEN edge' = edge \cup {c} /\ UNCHANGED <<registered, taskQueue, poolQueue>>
  ELSE poolQueue' = Append(poolQueue, c) /\ UNCHANGED <<epollVars, taskQueue>>

\* onmessageCallback() up to EAGAIN.
HandleMessage(c) ==
  /\ Running /\ loopPc = "dispatch" /\ c \in batch \cap live /\ ~Unbound(c)
  /\ c \in unread \ eof
  /\ batch' = batch \ {c} /\ unread' = unread \ {c} /\ quiet' = quiet \ {c}
  /\ Answer(c)
  /\ UNCHANGED <<mainVars, mapVars, visiting, timerConn, timerfd, expired, requests,
                 eof, task, workerPc, live, disConnect, loopPc, crash>>

\* closeconnection() that erases the entry of EventLoop::conns_ as well.
HandleClose_BothMaps(c) ==
  /\ Running /\ loopPc = "dispatch" /\ c \in batch \cap live /\ ~Unbound(c)
  /\ c \in eof
  /\ batch' = batch \ {c} /\ unread' = unread \ {c}
  /\ disConnect' = disConnect \cup {c}
  /\ serverConns' = [serverConns EXCEPT ![fdOf[c]] = NoConn]
  /\ loopConns' = [loopConns EXCEPT ![fdOf[c]] = NoConn]
  /\ UNCHANGED <<mainVars, visiting, timerConn, timerfd, expired,
                 requests, eof, poolVars, loopPc, crash>>
  /\ Reap(registered \ {c}, edge \ {c})

\* read() returns 0: closeCallback(), and what was read before it is dropped.
\* errorCallback() does the same.
HandleClose(c) ==
  /\ Running /\ loopPc = "dispatch" /\ c \in batch \cap live /\ ~Unbound(c)
  /\ c \in eof
  /\ batch' = batch \ {c} /\ unread' = unread \ {c}
  /\ disConnect' = disConnect \cup {c}
  /\ serverConns' = [serverConns EXCEPT ![fdOf[c]] = NoConn]
  /\ UNCHANGED <<mainVars, loopConns, visiting, timerConn, timerfd, expired,
                 requests, eof, poolVars, loopPc, crash>>
  /\ Reap(registered \ {c}, edge \ {c})

\* Nothing to read: EPOLLOUT, or a request taken by an earlier read.
HandleWrite(c) ==
  /\ Running /\ loopPc = "dispatch" /\ c \in batch \cap live /\ c \notin unread \cup eof
  /\ batch' = batch \ {c}
  /\ UNCHANGED <<mainVars, mapVars, epollVars, timerVars, peerVars, poolVars,
                 live, disConnect, loopPc, crash>>

\* handlewakeup(): sendInloop() for every queued call.  enableWriting() on a
\* channel that is not in the epoll set adds it.
HandleWakeup ==
  /\ Running /\ loopPc = "dispatch" /\ "wake" \in batch
  /\ IF Elements(taskQueue) \subseteq live
     THEN /\ taskQueue' = << >> /\ batch' = batch \ {"wake"}
          /\ registered' = registered \cup Elements(taskQueue)
          /\ edge' = edge \cup Elements(taskQueue)
          /\ UNCHANGED <<mainVars, mapVars, timerVars, peerVars, poolQueue, task,
                         workerPc, live, disConnect, loopPc, crash>>
     ELSE Crash("freed connection")

\* handletimer() rearms timerfd_ and starts over the map.
HandleTimer ==
  /\ Running /\ loopPc = "dispatch" /\ "timer" \in batch
  /\ batch' = batch \ {"timer"} /\ timerfd' = FALSE
  /\ visiting' = {f \in Fd : loopConns[f] # NoConn}
  /\ loopPc' = "timer"
  /\ UNCHANGED <<mainVars, mapVars, epollVars, timerConn, quiet, expired, peerVars,
                 poolVars, live, disConnect, crash>>

TimerKeeps(f) ==
  /\ Running /\ loopPc = "timer" /\ f \in visiting /\ loopConns[f] \notin quiet
  /\ visiting' = visiting \ {f}
  /\ UNCHANGED <<mainVars, mapVars, epollVars, timerConn, timerfd, quiet, expired,
                 peerVars, poolVars, live, disConnect, loopPc, batch, crash>>

\* timeout(): the entry leaves EventLoop::conns_, the copy still holds it.
TimerErases(f) ==
  /\ Running /\ loopPc = "timer" /\ f \in visiting /\ loopConns[f] \in quiet
  /\ visiting' = visiting \ {f}
  /\ timerConn' = loopConns[f] /\ expired' = expired \cup {loopConns[f]}
  /\ loopConns' = [loopConns EXCEPT ![f] = NoConn]
  /\ loopPc' = "removeconn"
  /\ UNCHANGED <<mainVars, serverConns, timerfd, peerVars, poolVars,
                 disConnect, batch, crash>>
  /\ Reap(registered, edge)

\* timerCallback_ not called.
TimerRemoves_LoopOnly ==
  /\ Running /\ loopPc = "removeconn"
  /\ \/ /\ timerConn' = NoConn
        /\ visiting' \in SUBSET visiting
        /\ loopPc' = "timer"
        /\ UNCHANGED <<mainVars, mapVars, timerfd, expired, peerVars, poolVars,
                       disConnect, batch, crash>>
        /\ Reap(registered, edge)
     \/ Crash("erased iterator")

\* TcpServer::removeconn(fd); the copy goes; then the iterator is advanced
\* from the node just erased: it skips any of the rest, or faults.
TimerRemoves ==
  /\ Running /\ loopPc = "removeconn"
  /\ \/ /\ serverConns' = [serverConns EXCEPT ![fdOf[timerConn]] = NoConn]
        /\ timerConn' = NoConn
        /\ visiting' \in SUBSET visiting
        /\ loopPc' = "timer"
        /\ UNCHANGED <<mainVars, loopConns, timerfd, expired, peerVars, poolVars,
                       disConnect, batch, crash>>
        /\ Reap(registered, edge)
     \/ Crash("erased iterator")

TimerDone ==
  /\ Running /\ loopPc = "timer" /\ visiting = {}
  /\ loopPc' = "dispatch"
  /\ UNCHANGED <<mainVars, mapVars, epollVars, timerVars, peerVars, poolVars,
                 live, disConnect, batch, crash>>

-----------------------------------------------------------------------------
\* A worker in EchoServer::OnMessage()

TakeTask(w) ==
  /\ Running /\ workerPc[w] = "idle" /\ poolQueue # << >>
  /\ task' = [task EXCEPT ![w] = Head(poolQueue)]
  /\ poolQueue' = Tail(poolQueue)
  /\ workerPc' = [workerPc EXCEPT ![w] = "check"]
  /\ UNCHANGED <<mainVars, mapVars, epollVars, timerVars, peerVars, taskQueue, live,
                 disConnect, loopPc, batch, crash>>

\* getConStatue() in OnMessage() and disConnect_ again in send().
CheckStatus(w) ==
  /\ Running /\ workerPc[w] = "check"
  /\ workerPc' = [workerPc EXCEPT ![w] = IF task[w] \in disConnect THEN "end" ELSE "send"]
  /\ UNCHANGED <<mainVars, mapVars, epollVars, timerVars, peerVars, taskQueue, poolQueue,
                 task, live, disConnect, loopPc, batch, crash>>

\* queueInLoop(bind(&Connection::sendInloop, this, data, size))
QueueSend(w) ==
  /\ Running /\ workerPc[w] = "send"
  /\ taskQueue' = Append(taskQueue, task[w])
  /\ workerPc' = [workerPc EXCEPT ![w] = "end"]
  /\ UNCHANGED <<mainVars, mapVars, epollVars, timerVars, peerVars, poolQueue,
                 task, live, disConnect, loopPc, batch, crash>>

\* The task and its spConnection are destroyed.
EndTask(w) ==
  /\ Running /\ workerPc[w] = "end"
  /\ task' = [task EXCEPT ![w] = NoConn]
  /\ workerPc' = [workerPc EXCEPT ![w] = "idle"]
  /\ UNCHANGED <<mainVars, mapVars, visiting, timerConn, timerfd, expired, peerVars,
                 taskQueue, poolQueue, disConnect, loopPc, batch, crash>>
  /\ Reap(registered, edge)

-----------------------------------------------------------------------------
Peer == \E c \in Conn : PeerSend(c) \/ PeerClose(c)
Accept == (\E c \in Conn, f \in Fd : Create(c, f)) \/ CreateMoved \/ AcceptFails
NewConnection == Bind \/ InsertServer \/ InsertLoop \/ Release
Dispatch == \E c \in Conn : \/ HandleFreed(c) \/ HandleUnbound(c) \/ HandleMessage(c)
                            \/ HandleClose(c) \/ HandleWrite(c)
Timer == HandleTimer \/ TimerRemoves \/ TimerDone
         \/ \E f \in Fd : TimerKeeps(f) \/ TimerErases(f)
Loop == EpollReady \/ EndBatch \/ Dispatch \/ HandleWakeup \/ Timer
Work(w) == TakeTask(w) \/ CheckStatus(w) \/ QueueSend(w) \/ EndTask(w)

Next ==
  \/ Peer \/ (\E c \in Conn : Age(c)) \/ TimerExpires
  \/ Accept \/ NewConnection \/ Loop
  \/ \E w \in Worker : Work(w)

\* Threads keep running, timerfd_ expires again and again, and a connection
\* that gets no request grows old.  Clients owe nothing.
Fairness ==
  /\ WF_vars(NewConnection) /\ WF_vars(Loop) /\ WF_vars(TimerExpires)
  /\ \A c \in Conn : WF_vars(Age(c))
  /\ \A w \in Worker : WF_vars(Work(w))

Spec == Init /\ [][Next]_vars /\ Fairness

-----------------------------------------------------------------------------
\* newconnection() has entered c in both maps.
Established(c) == fdOf[c] # 0 /\ (mainConn = c => mainPc = "added")

(***************************************************************************)
(* Both maps are keyed by fd, and fds are reused.  An entry is always the  *)
(* connection that owns its key now, so neither conns_[fd] = conn nor      *)
(* conns_.erase(fd) ever touches somebody else's entry, and insertion      *)
(* never replaces one.                                                     *)
(***************************************************************************)
MapsOwnTheirKeys ==
  /\ \A f \in Fd : \A c \in {serverConns[f], loopConns[f]} \ {NoConn} :
       c \in live /\ fdOf[c] = f
  /\ \A c, d \in live : fdOf[c] = fdOf[d] => c = d

(***************************************************************************)
(* No connection drops out of a map except by its own close or its own     *)
(* timeout, whatever close, timeout, accept and fd reuse race.  One that   *)
(* did would never be timed out, or be destroyed under its client.         *)
(***************************************************************************)
NobodyForgotten ==
  \A c \in Conn : (Established(c) /\ c \notin expired) =>
    /\ loopConns[fdOf[c]] = c
    /\ c \notin disConnect => serverConns[fdOf[c]] = c

(***************************************************************************)
(* closeCallback() removes the channel.  Where the IO thread answers, a    *)
(* closed channel is never put back into the epoll set, whatever fd it     *)
(* had: sendInloop() runs at once, behind the check of disConnect_.        *)
(***************************************************************************)
ClosedLeavesEpoll == pool = {} => registered \cap disConnect = {}

(***************************************************************************)
(* closeCallback() drops TcpServer's reference in the middle of a handler  *)
(* of that very Connection, and run() still holds the raw channels of the  *)
(* batch.  No handler of a batch but handletimer() destroys a connection,  *)
(* its own or another: EventLoop::conns_ keeps it for the timer.           *)
(***************************************************************************)
HandlersDestroyNothing ==
  [][loopPc = "dispatch" /\ loopPc' = "dispatch" /\ batch' # batch => live \subseteq live']_vars

StatusOf(c) ==
  IF fdOf[c] = 0 THEN "new" ELSE IF c \notin live THEN "gone"
  ELSE IF c \in disConnect \cup expired THEN "leaving" ELSE "open"

(***************************************************************************)
(* A closed connection keeps its object, and so its descriptor, until the  *)
(* idle timer has removed it, however long its client has been away.       *)
(***************************************************************************)
GoneWasTimedOut == \A c \in Conn : StatusOf(c) = "gone" => c \in expired

Life == INSTANCE ConnectionLife WITH
          status <- [c \in Conn |-> StatusOf(c)], fd <- fdOf, broken <- crash # "no"

(***************************************************************************)
(* The maps, counts and queues amount to a simple life: no connection is   *)
(* destroyed under a client that has neither left nor timed out, a         *)
(* descriptor has one owner, and a connection that left is destroyed in    *)
(* the end, by the idle timer, since closeconnection() leaves it in        *)
(* EventLoop::conns_.                                                      *)
(***************************************************************************)
ImplementsConnectionLife == Life!Spec

-----------------------------------------------------------------------------
(***************************************************************************)
(* README: a Connection is created, its callbacks are set, then it is      *)
(* handed to a subloop.  No event of a connection reaches it before its    *)
(* callbacks are set.                                                      *)
(***************************************************************************)
CallbacksSetFirst == crash # "unbound callback"

(***************************************************************************)
(* Connection.h: to send data, from whatever thread, call send().  A       *)
(* worker's send does not end in a Connection that was destroyed.          *)
(***************************************************************************)
SendFromAnyThread == crash # "freed connection"
=============================================================================
