-------------------------- MODULE TcpServerProofs --------------------------
(***************************************************************************)
(* Proofs about TcpServer for any set of connections, descriptors and      *)
(* workers and any number of requests.                                     *)
(***************************************************************************)
EXTENDS TcpServer, SequenceTheorems, TLAPS

(***************************************************************************)
(* The inductive invariant.  The heart of it is the shared_ptr count: an   *)
(* object exists exactly as long as somebody holds it, so that an entry of *)
(* a map is never left behind by its object, and an object that is entered *)
(* in a map cannot lose its fd.  The rest says who holds what where.       *)
(***************************************************************************)
LiveIsHeld == live = Held \ {NoConn}

\* Whoever was ever live has had an fd.
HadFd == \A c \in live \cup disConnect \cup expired : fdOf[c] # 0

\* The locals of newconnection(), handletimer() and of the workers' tasks.
Locals ==
  /\ mainPc = "idle" <=> mainConn = NoConn
  /\ loopPc = "removeconn" <=> timerConn # NoConn
  /\ loopPc = "removeconn" => timerConn \in expired
  /\ \A w \in Worker : workerPc[w] = "idle" <=> task[w] = NoConn

\* TcpServer::conns_ has c from conns_[fd] = conn on until c is closed or
\* timed out, the step before EventLoop::conns_ has it included.
InServer(c) == fdOf[c] # 0 /\ (mainConn = c => mainPc \in {"inserted", "added"})
ServerKnows ==
  \A c \in Conn : InServer(c) /\ c \notin disConnect \cup expired => serverConns[fdOf[c]] = c

\* Without a pool nothing is queued, and a channel that is handled is registered.
Inline ==
  pool = {} =>
    /\ taskQueue = << >> /\ poolQueue = << >> /\ \A w \in Worker : workerPc[w] = "idle"
    /\ batch \cap live \subseteq registered

Own == MapsOwnTheirKeys /\ NobodyForgotten /\ LiveIsHeld /\ HadFd /\ Locals /\ ServerKnows
IInv == TypeOK /\ Own /\ Inline /\ ClosedLeavesEpoll

-----------------------------------------------------------------------------
\* Who holds a connection.
HoldsIt(c) ==
  \/ c = mainConn \/ c = timerConn \/ c \in Elements(poolQueue)
  \/ \E f \in Fd : c \in {serverConns[f], loopConns[f]}
  \/ \E w \in Worker : c = task[w]

LEMMA HeldMeans == \A c : (c \in Held <=> HoldsIt(c)) /\ (c \in Held' <=> HoldsIt(c)')
  BY DEF Held, HoldsIt, Values

LEMMA ElementsOfQueue ==
  ASSUME NEW q \in Seq(Conn)
  PROVE  /\ Elements(q) \subseteq Conn /\ (q = << >> => Elements(q) = {})
         /\ \A c \in Conn : Elements(Append(q, c)) = Elements(q) \cup {c}
         /\ q # << >> => Head(q) \in Conn /\ Elements(q) = Elements(Tail(q)) \cup {Head(q)}
<1> USE DEF Elements
<1>1. Elements(q) \subseteq Conn /\ (q = << >> => Elements(q) = {})
  OBVIOUS
<1>2. ASSUME NEW c \in Conn PROVE Elements(Append(q, c)) = Elements(q) \cup {c}
  <2> DEFINE a == Append(q, c)
  <2>1. DOMAIN a = 1..(Len(q) + 1) /\ DOMAIN q = 1..Len(q) /\ Len(q) \in Nat
    OBVIOUS
  <2>2. a[Len(q) + 1] = c /\ \A i \in 1..Len(q) : a[i] = q[i]
    OBVIOUS
  <2> HIDE DEF a
  <2>3. {a[i] : i \in DOMAIN a} = {q[i] : i \in DOMAIN q} \cup {c}
    BY <2>1, <2>2
  <2> QED
    BY <2>3 DEF a
<1>3. ASSUME q # << >>
      PROVE  Head(q) \in Conn /\ Elements(q) = Elements(Tail(q)) \cup {Head(q)}
  <2> DEFINE t == Tail(q)
  <2>1. DOMAIN t = 1..(Len(q) - 1) /\ DOMAIN q = 1..Len(q) /\ Len(q) \in Nat \ {0}
    BY <1>3
  <2>2. q[1] = Head(q) /\ \A i \in 1..(Len(q) - 1) : t[i] = q[i + 1]
    BY <1>3
  <2>3. Head(q) \in Conn
    BY <1>3
  <2> HIDE DEF t
  <2>4. \A i \in DOMAIN q : q[i] = Head(q) \/ \E j \in DOMAIN t : q[i] = t[j]
    <3> TAKE i \in DOMAIN q
    <3>1. CASE i = 1
      BY <3>1, <2>2
    <3>2. CASE i # 1
      <4>1. i - 1 \in DOMAIN t /\ t[i - 1] = q[i]
        BY <3>2, <2>1, <2>2
      <4> QED
        BY <4>1
    <3> QED
      BY <3>1, <3>2
  <2>5. \A j \in DOMAIN t : \E i \in DOMAIN q : t[j] = q[i]
    BY <2>1, <2>2
  <2>6. {q[i] : i \in DOMAIN q} = {t[i] : i \in DOMAIN t} \cup {Head(q)}
    BY <2>1, <2>2, <2>4, <2>5
  <2> QED
    BY <2>3, <2>6 DEF t
<1> QED
  BY <1>1, <1>2, <1>3

LEMMA InitIInv == Init => IInv
<1> SUFFICES ASSUME Init PROVE IInv
  OBVIOUS
<1> USE DEF Init
<1>1. TypeOK
  <2>1. taskQueue \in Seq(Conn) /\ poolQueue \in Seq(Conn)
    OBVIOUS
  <2>2. requests \in [Conn -> 0..MaxMessage]
    BY TcpServerAssumption
  <2>3. workerPc \in [Worker -> {"idle", "check", "send", "end"}]
    OBVIOUS
  <2>4. crash \in Crashes \cup {"no"}
    OBVIOUS
  <2> HIDE DEF Init
  <2> QED
    BY <2>1, <2>2, <2>3, <2>4 DEF TypeOK, Init
<1>2. MapsOwnTheirKeys /\ NobodyForgotten /\ ClosedLeavesEpoll
  BY DEF MapsOwnTheirKeys, NobodyForgotten, ClosedLeavesEpoll, Established
<1>3. LiveIsHeld
  <2>1. Held = {NoConn}
    BY DEF Held, Values, Elements
  <2> QED
    BY <2>1 DEF LiveIsHeld
<1>4. HadFd /\ Locals /\ ServerKnows /\ Inline
  BY DEF HadFd, Locals, ServerKnows, InServer, Inline
<1> QED
  BY <1>1, <1>2, <1>3, <1>4 DEF IInv, Own

-----------------------------------------------------------------------------
\* Steps that leave alone who holds what.
ownVars == <<fdOf, mainPc, mainConn, serverConns, loopConns, live, timerConn, poolQueue,
             task, workerPc, disConnect, expired>>

LEMMA OwnKept ==
  ASSUME Own, UNCHANGED ownVars, loopPc' = "removeconn" <=> loopPc = "removeconn"
  PROVE  Own'
<1> USE DEF Own, ownVars
<1>1. MapsOwnTheirKeys' /\ NobodyForgotten' /\ HadFd' /\ Locals' /\ ServerKnows'
  BY DEF MapsOwnTheirKeys, NobodyForgotten, Established, HadFd, Locals, ServerKnows, InServer
<1>2. LiveIsHeld'
  BY DEF LiveIsHeld, Held, Values
<1> QED
  BY <1>1, <1>2

LEMMA PeerStep == IInv /\ (Peer \/ (\E c \in Conn : Age(c)) \/ TimerExpires) => IInv'
<1> SUFFICES ASSUME IInv, Peer \/ (\E c \in Conn : Age(c)) \/ TimerExpires PROVE IInv'
  OBVIOUS
<1> USE DEF IInv, Peer, PeerSend, PeerClose, Age, TimerExpires, Running, mainVars, mapVars,
            epollVars, timerVars, peerVars, poolVars
<1>1. Own'
  <2>1. UNCHANGED ownVars /\ loopPc' = loopPc
    BY DEF ownVars
  <2> QED
    BY <2>1, OwnKept
<1>2. TypeOK'
  <2>1. requests' \in [Conn -> 0..MaxMessage]
    BY TcpServerAssumption DEF TypeOK
  <2>2. live' = live /\ registered' = registered /\ edge' \subseteq registered
    BY DEF TypeOK
  <2>3. quiet' \subseteq live
    BY DEF TypeOK
  <2>4. unread' \subseteq Conn /\ eof' \subseteq Conn
    BY DEF TypeOK
  <2>5. timerfd' \in BOOLEAN
    BY DEF TypeOK
  <2> QED
    BY <2>1, <2>2, <2>3, <2>4, <2>5 DEF TypeOK
<1>3. Inline' /\ ClosedLeavesEpoll'
  BY DEF Inline, ClosedLeavesEpoll
<1> QED
  BY <1>1, <1>2, <1>3

LEMMA CrashStep == IInv /\ (\E k \in Crashes : Running /\ Crash(k)) => IInv'
<1> SUFFICES ASSUME IInv, NEW k \in Crashes, Running, Crash(k) PROVE IInv'
  OBVIOUS
<1> USE DEF IInv, Running, Crash, mainVars, mapVars, epollVars, timerVars, peerVars, poolVars
<1>1. Own'
  <2>1. UNCHANGED ownVars /\ loopPc' = loopPc
    BY DEF ownVars
  <2> QED
    BY <2>1, OwnKept
<1>2. TypeOK'
  BY DEF TypeOK
<1>3. Inline' /\ ClosedLeavesEpoll'
  BY DEF Inline, ClosedLeavesEpoll
<1> QED
  BY <1>1, <1>2, <1>3

\* The IO thread between epoll_wait() and the handlers that drop nothing.
LEMMA QuietLoopStep ==
  IInv /\ (EpollReady \/ EndBatch \/ HandleTimer \/ TimerDone
           \/ (\E c \in Conn : HandleWrite(c)) \/ \E f \in Fd : TimerKeeps(f)) => IInv'
<1> SUFFICES ASSUME IInv,
                    EpollReady \/ EndBatch \/ HandleTimer \/ TimerDone
                    \/ (\E c \in Conn : HandleWrite(c)) \/ \E f \in Fd : TimerKeeps(f)
             PROVE  IInv'
  OBVIOUS
<1> USE DEF IInv, EpollReady, EndBatch, HandleTimer, TimerDone, HandleWrite, TimerKeeps,
            Running, mainVars, mapVars, epollVars, timerVars, peerVars, poolVars
<1>1. Own'
  <2>1. UNCHANGED ownVars /\ (loopPc' = "removeconn" <=> loopPc = "removeconn")
    BY DEF ownVars
  <2> QED
    BY <2>1, OwnKept
<1>2. TypeOK'
  <2>1. batch' \subseteq Conn \cup {"timer", "wake"} /\ edge' \subseteq registered'
    BY DEF TypeOK
  <2>2. loopPc' \in {"wait", "dispatch", "timer", "removeconn"}
        /\ visiting' \subseteq Fd /\ timerfd' \in BOOLEAN
    BY DEF TypeOK
  <2>3. UNCHANGED <<mainVars, mapVars, registered, timerConn, quiet, expired, peerVars, poolVars,
                    live, disConnect, crash, pool>>
    OBVIOUS
  <2> HIDE DEF EpollReady, EndBatch, HandleTimer, TimerDone, HandleWrite, TimerKeeps
  <2> QED
    BY <2>1, <2>2, <2>3 DEF TypeOK
<1>3. Inline' /\ ClosedLeavesEpoll'
  BY TcpServerAssumption DEF Inline, ClosedLeavesEpoll, TypeOK
<1> QED
  BY <1>1, <1>2, <1>3

LEMMA HandleWakeupStep == IInv /\ Elements(taskQueue) \subseteq live /\ HandleWakeup => IInv'
<1> SUFFICES ASSUME IInv, Elements(taskQueue) \subseteq live, HandleWakeup PROVE IInv'
  OBVIOUS
<1> USE DEF IInv, HandleWakeup, Running, mainVars, mapVars, epollVars, timerVars, peerVars
<1>1. Own'
  <2>1. UNCHANGED ownVars /\ loopPc' = loopPc
    BY DEF ownVars
  <2> QED
    BY <2>1, OwnKept
<1>2. TypeOK'
  BY DEF TypeOK
<1>3. pool = {} => Elements(taskQueue) = {}
  BY DEF Inline, Elements
<1>4. Inline' /\ ClosedLeavesEpoll'
  BY <1>3 DEF Inline, ClosedLeavesEpoll
<1> QED
  BY <1>1, <1>2, <1>4

-----------------------------------------------------------------------------
LEMMA CreateStep == ASSUME IInv, NEW c \in Conn, NEW f \in Fd, Create(c, f) PROVE IInv'
<1> USE DEF IInv, Own, Create, Running, mapVars, timerVars, peerVars, poolVars
<1>1. TypeOK'
  BY DEF TypeOK
<1>2. c \notin live \cup disConnect \cup expired /\ f # 0 /\ c # NoConn
  BY TcpServerAssumption DEF HadFd
<1>3. MapsOwnTheirKeys'
  BY <1>2 DEF MapsOwnTheirKeys, TypeOK
<1>4. NobodyForgotten' /\ ServerKnows'
  <2>1. mainConn = NoConn /\ \A d \in Conn : mainConn # d
    BY TcpServerAssumption DEF Locals
  <2>2. \A d \in Conn : d # c => fdOf'[d] = fdOf[d]
    BY DEF TypeOK
  <2>3. NobodyForgotten'
    BY <2>1, <2>2 DEF NobodyForgotten, Established
  <2>4. ServerKnows'
    BY <2>1, <2>2 DEF ServerKnows, InServer
  <2> QED
    BY <2>3, <2>4
<1>5. LiveIsHeld'
  <2>1. \A d : HoldsIt(d)' <=> ((HoldsIt(d) /\ d # NoConn) \/ d = c \/ (d = NoConn /\ HoldsIt(d)'))
    BY <1>2 DEF HoldsIt, Locals
  <2> QED
    BY <1>2, <2>1, HeldMeans DEF LiveIsHeld
<1>6. HadFd' /\ Locals'
  BY <1>2 DEF HadFd, Locals, TypeOK
<1>7. Inline' /\ ClosedLeavesEpoll'
  BY <1>2 DEF Inline, ClosedLeavesEpoll
<1> QED
  BY <1>1, <1>3, <1>4, <1>5, <1>6, <1>7

\* Between the constructor and the end of newconnection().
LEMMA MainHasConn ==
  ASSUME IInv, mainPc # "idle"
  PROVE  /\ mainConn \in Conn /\ mainConn \in live /\ fdOf[mainConn] \in Fd
         /\ \A d \in live : fdOf[d] = fdOf[mainConn] => d = mainConn
<1> USE DEF IInv, Own
<1>1. mainConn \in Conn /\ mainConn # NoConn
  BY DEF Locals, TypeOK
<1>2. mainConn \in live
  BY <1>1, HeldMeans DEF HoldsIt, LiveIsHeld
<1> QED
  BY <1>1, <1>2 DEF HadFd, TypeOK, MapsOwnTheirKeys

LEMMA BindStep == IInv /\ Bind => IInv'
<1> SUFFICES ASSUME IInv, Bind PROVE IInv'
  OBVIOUS
<1> USE DEF IInv, Own, Bind, Running, mapVars, epollVars, timerVars, peerVars, poolVars
<1>1. TypeOK'
  BY DEF TypeOK
<1>2. MapsOwnTheirKeys' /\ NobodyForgotten' /\ ServerKnows' /\ HadFd' /\ Locals'
  BY DEF MapsOwnTheirKeys, NobodyForgotten, ServerKnows, Established, InServer, HadFd, Locals
<1>3. LiveIsHeld'
  BY DEF LiveIsHeld, Held, Values
<1>4. Inline' /\ ClosedLeavesEpoll'
  BY DEF Inline, ClosedLeavesEpoll
<1> QED
  BY <1>1, <1>2, <1>3, <1>4

\* conns_[fd] = conn replaces nobody's entry: whoever has the key is conn itself.
LEMMA InsertServerStep == IInv /\ InsertServer => IInv'
<1> SUFFICES ASSUME IInv, InsertServer PROVE IInv'
  OBVIOUS
<1> USE DEF IInv, Own, InsertServer, Running, epollVars, timerVars, peerVars, poolVars
<1> DEFINE c == mainConn
           f == fdOf[mainConn]
<1>1. c \in Conn /\ c \in live /\ f \in Fd /\ \A d \in live : fdOf[d] = f => d = c
  BY MainHasConn
<1>2. serverConns[f] \in {c, NoConn}
  BY <1>1 DEF MapsOwnTheirKeys
<1>3. serverConns' = [serverConns EXCEPT ![f] = c] /\ serverConns \in [Fd -> Conn \cup {NoConn}]
  BY DEF TypeOK
<1> HIDE DEF c, f
<1>4. TypeOK'
  BY <1>1, <1>3 DEF TypeOK
<1>5. MapsOwnTheirKeys'
  BY <1>1, <1>3 DEF MapsOwnTheirKeys, f, c
<1>6. NobodyForgotten' /\ ServerKnows'
  <2>1. ASSUME NEW d \in Conn, fdOf[d] # 0, serverConns[fdOf[d]] = d, d # c
        PROVE  serverConns'[fdOf[d]] = d
    <3>1. fdOf[d] \in Fd /\ d # NoConn
      BY <2>1, TcpServerAssumption DEF TypeOK
    <3>2. d \in live
      BY <2>1, <3>1 DEF MapsOwnTheirKeys
    <3> QED
      BY <1>1, <1>3, <2>1, <3>1, <3>2
  <2>2. NobodyForgotten'
    BY <2>1 DEF NobodyForgotten, Established, c
  <2>3. serverConns'[f] = c
    BY <1>1, <1>3
  <2>4. ServerKnows'
    BY <2>1, <2>3 DEF ServerKnows, InServer, c, f
  <2> QED
    BY <2>2, <2>4
<1>7. LiveIsHeld'
  <2>1. \A d : d # NoConn => (HoldsIt(d)' <=> HoldsIt(d))
    BY <1>1, <1>2, <1>3 DEF HoldsIt, c
  <2> QED
    BY <2>1, HeldMeans DEF LiveIsHeld
<1>8. HadFd' /\ Locals' /\ Inline' /\ ClosedLeavesEpoll'
  BY DEF HadFd, Locals, Inline, ClosedLeavesEpoll
<1> QED
  BY <1>4, <1>5, <1>6, <1>7, <1>8

\* The same of EventLoop::conns_; the race with the timer's walk is a crash.
LEMMA InsertLoopStep == IInv /\ InsertLoop /\ crash' = "no" => IInv'
<1> SUFFICES ASSUME IInv, InsertLoop, crash' = "no" PROVE IInv'
  OBVIOUS
<1> USE DEF IInv, Own, epollVars, timerVars, peerVars, poolVars
<1> DEFINE c == mainConn
           f == fdOf[mainConn]
<1>1. /\ mainPc = "inserted" /\ mainPc' = "added" /\ loopConns' = [loopConns EXCEPT ![f] = c]
      /\ UNCHANGED <<pool, fdOf, mainConn, serverConns, epollVars, timerVars, peerVars,
                     poolVars, live, disConnect, loopPc, batch>>
  BY DEF InsertLoop, Running, Crash
<1>2. c \in Conn /\ c \in live /\ f \in Fd /\ \A d \in live : fdOf[d] = f => d = c
  BY <1>1, MainHasConn
<1>3. loopConns[f] \in {c, NoConn}
  BY <1>2 DEF MapsOwnTheirKeys
<1>4. loopConns' = [loopConns EXCEPT ![f] = c] /\ loopConns \in [Fd -> Conn \cup {NoConn}]
  BY <1>1 DEF TypeOK
<1> HIDE DEF c, f
<1>5. TypeOK'
  BY <1>1, <1>2, <1>4 DEF TypeOK
<1>6. MapsOwnTheirKeys'
  BY <1>1, <1>2, <1>4 DEF MapsOwnTheirKeys, f, c
<1>7. NobodyForgotten' /\ ServerKnows'
  <2>1. ASSUME NEW d \in Conn, fdOf[d] # 0, loopConns[fdOf[d]] = d, d # c
        PROVE  loopConns'[fdOf[d]] = d
    <3>1. fdOf[d] \in Fd /\ d # NoConn
      BY <2>1, TcpServerAssumption DEF TypeOK
    <3>2. d \in live
      BY <2>1, <3>1 DEF MapsOwnTheirKeys
    <3> QED
      BY <1>2, <1>4, <2>1, <3>1, <3>2
  <2>2. loopConns'[f] = c
    BY <1>2, <1>4
  <2>3. c \notin expired \cup disConnect => serverConns[f] = c
    BY <1>1, <1>2 DEF ServerKnows, InServer, HadFd, c, f
  <2>4. NobodyForgotten'
    BY <1>1, <2>1, <2>2, <2>3 DEF NobodyForgotten, Established, c, f
  <2>5. ServerKnows'
    BY <1>1 DEF ServerKnows, InServer
  <2> QED
    BY <2>4, <2>5
<1>8. LiveIsHeld'
  <2>1. \A d : d # NoConn => (HoldsIt(d)' <=> HoldsIt(d))
    BY <1>1, <1>2, <1>3, <1>4 DEF HoldsIt, c
  <2> QED
    BY <1>1, <2>1, HeldMeans DEF LiveIsHeld
<1>9. HadFd' /\ Locals' /\ Inline' /\ ClosedLeavesEpoll'
  BY <1>1 DEF HadFd, Locals, Inline, ClosedLeavesEpoll
<1> QED
  BY <1>5, <1>6, <1>7, <1>8, <1>9

\* Objects die in these steps: what keeps the types and the counts right.
LEMMA Reaped ==
  ASSUME IInv, NEW channels, NEW events, Reap(channels, events), channels \subseteq live,
         events \subseteq channels, \A d : d # NoConn /\ HoldsIt(d)' => HoldsIt(d)
  PROVE  /\ LiveIsHeld' /\ live' \subseteq live
         /\ registered' = channels \cap live' /\ edge' = events \cap live'
         /\ quiet' = quiet \cap live' /\ \A d \in live : d \in live' <=> HoldsIt(d)'
<1> USE DEF IInv, Own
<1>1. live' = live \cap Held' /\ registered' = channels \cap Held'
      /\ edge' = events \cap Held' /\ quiet' = quiet \cap Held'
  BY DEF Reap
<1>2. live' = Held' \ {NoConn}
  BY <1>1, HeldMeans DEF LiveIsHeld
<1> QED
  BY <1>1, <1>2, HeldMeans DEF LiveIsHeld, TypeOK

LEMMA ReleaseStep == IInv /\ Release => IInv'
<1> SUFFICES ASSUME IInv, Release PROVE IInv'
  OBVIOUS
<1> USE DEF IInv, Own, Release, Running, mapVars, peerVars, poolVars
<1>1. \A d : d # NoConn /\ HoldsIt(d)' => HoldsIt(d)
  BY DEF HoldsIt
<1>2. /\ LiveIsHeld' /\ live' \subseteq live
      /\ registered' = registered \cap live' /\ edge' = edge \cap live'
      /\ quiet' = quiet \cap live' /\ \A d \in live : d \in live' <=> HoldsIt(d)'
  BY <1>1, Reaped DEF TypeOK
<1>3. TypeOK'
  BY <1>2 DEF TypeOK
<1>4. MapsOwnTheirKeys'
  <2>1. \A f \in Fd : \A d \in {serverConns[f], loopConns[f]} : HoldsIt(d)'
    BY DEF HoldsIt
  <2> QED
    BY <1>2, <2>1 DEF MapsOwnTheirKeys
<1>5. NobodyForgotten' /\ ServerKnows' /\ HadFd'
  BY <1>2 DEF NobodyForgotten, ServerKnows, Established, InServer, HadFd
<1>6. Locals' /\ Inline' /\ ClosedLeavesEpoll'
  BY <1>2 DEF Locals, Inline, ClosedLeavesEpoll
<1> QED
  BY <1>2, <1>3, <1>4, <1>5, <1>6

-----------------------------------------------------------------------------
LEMMA HandleMessageStep == ASSUME IInv, NEW c \in Conn, HandleMessage(c) PROVE IInv'
<1> USE DEF IInv, Own, HandleMessage, Running, mainVars, mapVars, epollVars
<1>1. CASE pool = {}
  <2>1. edge' = edge \cup {c} /\ UNCHANGED <<registered, taskQueue, poolQueue>> /\ c \in registered
    BY <1>1 DEF Answer, Inline
  <2>2. TypeOK'
    BY <2>1 DEF TypeOK
  <2>3. Own'
    BY <2>1, OwnKept DEF ownVars
  <2>4. Inline' /\ ClosedLeavesEpoll'
    BY <2>1 DEF Inline, ClosedLeavesEpoll
  <2> QED
    BY <2>2, <2>3, <2>4
<1>2. CASE pool # {}
  <2>1. poolQueue' = Append(poolQueue, c) /\ UNCHANGED <<registered, edge, taskQueue>>
    BY <1>2 DEF Answer
  <2>2. /\ poolQueue' \in Seq(Conn)
        /\ Elements(poolQueue') = Elements(poolQueue) \cup {c}
    BY <2>1, ElementsOfQueue DEF TypeOK
  <2>3. TypeOK'
    BY <2>1, <2>2 DEF TypeOK
  <2>4. MapsOwnTheirKeys' /\ NobodyForgotten' /\ ServerKnows' /\ HadFd' /\ Locals'
    BY DEF MapsOwnTheirKeys, NobodyForgotten, ServerKnows, Established, InServer, HadFd, Locals
  <2>5. LiveIsHeld'
    <3>1. \A d : HoldsIt(d)' <=> HoldsIt(d) \/ d = c
      BY <2>2 DEF HoldsIt
    <3> QED
      BY <3>1, HeldMeans, TcpServerAssumption DEF LiveIsHeld
  <2>6. Inline' /\ ClosedLeavesEpoll'
    BY <1>2, <2>1 DEF Inline, ClosedLeavesEpoll
  <2> QED
    BY <2>3, <2>4, <2>5, <2>6
<1> QED
  BY <1>1, <1>2

\* conns_.erase(fd) takes nobody else's entry, and the loop's map keeps c.
LEMMA HandleCloseStep == ASSUME IInv, NEW c \in Conn, HandleClose(c) PROVE IInv'
<1> USE DEF IInv, Own, HandleClose, Running, mainVars, poolVars
<1>1. /\ c \in live /\ fdOf[c] \in Fd /\ \A d \in live : fdOf[d] = fdOf[c] => d = c
      /\ serverConns' = [serverConns EXCEPT ![fdOf[c]] = NoConn]
      /\ serverConns \in [Fd -> Conn \cup {NoConn}]
  BY DEF HadFd, TypeOK, MapsOwnTheirKeys
<1>2. \A d : d # NoConn /\ HoldsIt(d)' => HoldsIt(d)
  BY <1>1 DEF HoldsIt
<1>3. /\ LiveIsHeld' /\ live' \subseteq live
      /\ registered' = (registered \ {c}) \cap live' /\ edge' = (edge \ {c}) \cap live'
      /\ quiet' = quiet \cap live' /\ \A d \in live : d \in live' <=> HoldsIt(d)'
  <2>1. registered \ {c} \subseteq live /\ edge \ {c} \subseteq registered \ {c}
    BY DEF TypeOK
  <2>2. Reap(registered \ {c}, edge \ {c})
    OBVIOUS
  <2> QED
    BY <1>2, <2>1, <2>2, Reaped
<1>4. TypeOK'
  BY <1>1, <1>3 DEF TypeOK
<1>5. MapsOwnTheirKeys'
  <2>1. \A f \in Fd : \A d \in {serverConns'[f], loopConns[f]} \ {NoConn} :
          HoldsIt(d)' /\ d \in {serverConns[f], loopConns[f]}
    BY <1>1 DEF HoldsIt
  <2> QED
    BY <1>3, <2>1 DEF MapsOwnTheirKeys
<1>6. NobodyForgotten' /\ ServerKnows'
  <2>1. ASSUME NEW d \in Conn, fdOf[d] # 0, serverConns[fdOf[d]] = d, d # c
        PROVE  serverConns'[fdOf[d]] = d
    <3>1. fdOf[d] \in Fd /\ d # NoConn
      BY <2>1, TcpServerAssumption DEF TypeOK
    <3>2. d \in live
      BY <2>1, <3>1 DEF MapsOwnTheirKeys
    <3> QED
      BY <1>1, <2>1, <3>1, <3>2
  <2>2. NobodyForgotten'
    BY <2>1 DEF NobodyForgotten, Established
  <2>3. ServerKnows'
    BY <2>1 DEF ServerKnows, InServer
  <2> QED
    BY <2>2, <2>3
<1>7. HadFd' /\ Locals' /\ Inline' /\ ClosedLeavesEpoll'
  <2>1. pool = {} => batch' \cap live' \subseteq registered'
    BY <1>3 DEF Inline
  <2> QED
    BY <1>1, <1>3, <2>1 DEF HadFd, Locals, Inline, ClosedLeavesEpoll
<1> QED
  BY <1>3, <1>4, <1>5, <1>6, <1>7

\* The copy of the timer holds what leaves the loop's map.
LEMMA TimerErasesStep == ASSUME IInv, NEW f \in Fd, TimerErases(f) PROVE IInv'
<1> USE DEF IInv, Own, TimerErases, Running, mainVars, peerVars, poolVars
<1> DEFINE c == loopConns[f]
<1>1. /\ c \in Conn /\ c \in live /\ c # NoConn /\ fdOf[c] = f
      /\ loopConns' = [loopConns EXCEPT ![f] = NoConn] /\ timerConn' = c
      /\ loopConns \in [Fd -> Conn \cup {NoConn}] /\ timerConn = NoConn
      /\ expired' = expired \cup {c}
  BY TcpServerAssumption DEF TypeOK, MapsOwnTheirKeys, Locals
<1> HIDE DEF c
<1>2. \A d : d # NoConn /\ HoldsIt(d)' => HoldsIt(d)
  BY <1>1 DEF HoldsIt, c
<1>3. /\ LiveIsHeld' /\ live' \subseteq live
      /\ registered' = registered \cap live' /\ edge' = edge \cap live'
      /\ quiet' = quiet \cap live' /\ \A d \in live : d \in live' <=> HoldsIt(d)'
  BY <1>2, Reaped DEF TypeOK
<1>4. TypeOK'
  BY <1>1, <1>3 DEF TypeOK
<1>5. MapsOwnTheirKeys'
  <2>1. \A g \in Fd : \A d \in {serverConns[g], loopConns'[g]} \ {NoConn} :
          HoldsIt(d)' /\ d \in {serverConns[g], loopConns[g]}
    BY <1>1 DEF HoldsIt
  <2> QED
    BY <1>3, <2>1 DEF MapsOwnTheirKeys
<1>6. NobodyForgotten' /\ ServerKnows'
  <2>1. ASSUME NEW d \in Conn, fdOf[d] # 0, loopConns[fdOf[d]] = d, d # c
        PROVE  loopConns'[fdOf[d]] = d
    <3>1. fdOf[d] \in Fd /\ fdOf[d] # f
      BY <2>1, TcpServerAssumption DEF TypeOK, c
    <3> QED
      BY <1>1, <2>1, <3>1
  <2>2. NobodyForgotten'
    BY <1>1, <2>1 DEF NobodyForgotten, Established
  <2>3. ServerKnows'
    BY <1>1 DEF ServerKnows, InServer
  <2> QED
    BY <2>2, <2>3
<1>7. HadFd' /\ Locals' /\ Inline' /\ ClosedLeavesEpoll'
  BY <1>1, <1>3, TcpServerAssumption DEF HadFd, Locals, Inline, ClosedLeavesEpoll
<1> QED
  BY <1>3, <1>4, <1>5, <1>6, <1>7

\* removeconn() takes the entry of the connection that timed out, or nobody's.
LEMMA TimerRemovesStep == ASSUME IInv, TimerRemoves, crash' = "no" PROVE IInv'
<1> USE DEF IInv, Own, mainVars, peerVars, poolVars
<1> DEFINE c == timerConn
           f == fdOf[timerConn]
<1>1. /\ loopPc = "removeconn" /\ loopPc' = "timer" /\ timerConn' = NoConn
      /\ serverConns' = [serverConns EXCEPT ![f] = NoConn]
      /\ visiting' \subseteq visiting /\ Reap(registered, edge)
      /\ UNCHANGED <<pool, mainVars, loopConns, timerfd, expired, peerVars, poolVars,
                     disConnect, batch>>
  BY DEF TimerRemoves, Running, Crash
<1>2. /\ c \in Conn /\ c \in live /\ c \in expired /\ f \in Fd
      /\ \A d \in live : fdOf[d] = f => d = c
  <2>1. c \in Conn /\ c \in expired /\ c # NoConn
    BY <1>1 DEF Locals, TypeOK
  <2>2. c \in live
    BY <2>1, HeldMeans DEF HoldsIt, LiveIsHeld
  <2> QED
    BY <2>1, <2>2 DEF HadFd, TypeOK, MapsOwnTheirKeys
<1>3. serverConns' = [serverConns EXCEPT ![f] = NoConn] /\ serverConns \in [Fd -> Conn \cup {NoConn}]
  BY <1>1 DEF TypeOK
<1> HIDE DEF c, f
<1>4. \A d : d # NoConn /\ HoldsIt(d)' => HoldsIt(d)
  BY <1>1, <1>2, <1>3 DEF HoldsIt
<1>5. /\ LiveIsHeld' /\ live' \subseteq live
      /\ registered' = registered \cap live' /\ edge' = edge \cap live'
      /\ quiet' = quiet \cap live' /\ \A d \in live : d \in live' <=> HoldsIt(d)'
  BY <1>1, <1>4, Reaped DEF TypeOK
<1>6. TypeOK'
  <2>1. crash' \in Crashes \cup {"no"} /\ timerConn' \in Conn \cup {NoConn}
    BY <1>1 DEF TypeOK, TimerRemoves, Running
  <2> QED
    BY <1>1, <1>2, <1>3, <1>5, <2>1 DEF TypeOK
<1>7. MapsOwnTheirKeys'
  <2>1. \A g \in Fd : \A d \in {serverConns'[g], loopConns'[g]} \ {NoConn} :
          HoldsIt(d)' /\ d \in {serverConns[g], loopConns[g]}
    BY <1>1, <1>2, <1>3 DEF HoldsIt
  <2> QED
    BY <1>1, <1>5, <2>1 DEF MapsOwnTheirKeys
<1>8. NobodyForgotten' /\ ServerKnows'
  <2>1. ASSUME NEW d \in Conn, fdOf[d] # 0, serverConns[fdOf[d]] = d, d \notin expired
        PROVE  serverConns'[fdOf[d]] = d
    <3>1. fdOf[d] \in Fd /\ d # NoConn
      BY <2>1, TcpServerAssumption DEF TypeOK
    <3>2. d \in live
      BY <2>1, <3>1 DEF MapsOwnTheirKeys
    <3> QED
      BY <1>2, <1>3, <2>1, <3>1, <3>2
  <2>2. NobodyForgotten'
    BY <1>1, <2>1 DEF NobodyForgotten, Established
  <2>3. ServerKnows'
    BY <1>1, <2>1 DEF ServerKnows, InServer
  <2> QED
    BY <2>2, <2>3
<1>9. HadFd' /\ Locals' /\ Inline' /\ ClosedLeavesEpoll'
  BY <1>1, <1>5 DEF HadFd, Locals, Inline, ClosedLeavesEpoll
<1> QED
  BY <1>5, <1>6, <1>7, <1>8, <1>9

-----------------------------------------------------------------------------
\* The task moves from the queue to the worker with its spConnection.
LEMMA TakeTaskStep == ASSUME IInv, NEW w \in Worker, TakeTask(w) PROVE IInv'
<1> USE DEF IInv, Own, TakeTask, Running, mainVars, mapVars, epollVars, timerVars, peerVars
<1> DEFINE c == Head(poolQueue)
<1>1. /\ poolQueue # << >> /\ c \in Conn /\ c # NoConn /\ poolQueue' \in Seq(Conn)
      /\ Elements(poolQueue) = Elements(poolQueue') \cup {c}
  BY ElementsOfQueue, TcpServerAssumption DEF TypeOK
<1>2. /\ task' = [task EXCEPT ![w] = c] /\ workerPc' = [workerPc EXCEPT ![w] = "check"]
      /\ task[w] = NoConn /\ task \in [Worker -> Conn \cup {NoConn}]
      /\ workerPc \in [Worker -> {"idle", "check", "send", "end"}]
  BY DEF TypeOK, Locals
<1> HIDE DEF c
<1>3. TypeOK'
  BY <1>1, <1>2 DEF TypeOK
<1>4. MapsOwnTheirKeys' /\ NobodyForgotten' /\ ServerKnows' /\ HadFd'
  BY DEF MapsOwnTheirKeys, NobodyForgotten, ServerKnows, Established, InServer, HadFd
<1>5. Locals'
  BY <1>1, <1>2 DEF Locals
<1>6. LiveIsHeld'
  <2>1. \A d : d # NoConn => (HoldsIt(d)' <=> HoldsIt(d))
    BY <1>1, <1>2 DEF HoldsIt
  <2> QED
    BY <2>1, HeldMeans DEF LiveIsHeld
<1>7. Inline' /\ ClosedLeavesEpoll'
  BY <1>1 DEF Inline, ClosedLeavesEpoll
<1> QED
  BY <1>3, <1>4, <1>5, <1>6, <1>7

LEMMA CheckOrQueueStep ==
  ASSUME IInv, NEW w \in Worker, CheckStatus(w) \/ QueueSend(w) PROVE IInv'
<1> USE DEF IInv, Own, CheckStatus, QueueSend, Running, mainVars, mapVars, epollVars, timerVars,
            peerVars
<1>1. /\ task[w] \in Conn /\ workerPc[w] # "idle"
      /\ workerPc \in [Worker -> {"idle", "check", "send", "end"}]
      /\ \E to \in {"send", "end"} : workerPc' = [workerPc EXCEPT ![w] = to]
      /\ taskQueue' \in {taskQueue, Append(taskQueue, task[w])}
      /\ UNCHANGED <<pool, mainVars, mapVars, epollVars, timerVars, peerVars, poolQueue,
                     task, live, disConnect, loopPc, batch, crash>>
  BY DEF Locals, TypeOK
<1> HIDE DEF CheckStatus, QueueSend
<1>2. TypeOK'
  <2>1. taskQueue \in Seq(Conn) /\ Append(taskQueue, task[w]) \in Seq(Conn)
    BY <1>1, AppendProperties DEF TypeOK
  <2>2. workerPc' \in [Worker -> {"idle", "check", "send", "end"}]
    BY <1>1
  <2>3. taskQueue' \in Seq(Conn)
    BY <1>1, <2>1
  <2>4. TypeOK
    OBVIOUS
  <2> HIDE DEF IInv, Own
  <2> QED
    BY <1>1, <2>2, <2>3, <2>4 DEF TypeOK
<1>3. MapsOwnTheirKeys' /\ NobodyForgotten' /\ ServerKnows' /\ HadFd'
  BY <1>1 DEF MapsOwnTheirKeys, NobodyForgotten, ServerKnows, Established, InServer, HadFd
<1>4. Locals'
  BY <1>1 DEF Locals
<1>5. LiveIsHeld'
  BY <1>1 DEF LiveIsHeld, Held, Values
<1>6. Inline' /\ ClosedLeavesEpoll'
  BY <1>1 DEF Inline, ClosedLeavesEpoll
<1> QED
  BY <1>2, <1>3, <1>4, <1>5, <1>6

LEMMA EndTaskStep == ASSUME IInv, NEW w \in Worker, EndTask(w) PROVE IInv'
<1> USE DEF IInv, Own, EndTask, Running, mainVars, mapVars, peerVars
<1>1. /\ task' = [task EXCEPT ![w] = NoConn] /\ workerPc' = [workerPc EXCEPT ![w] = "idle"]
      /\ task \in [Worker -> Conn \cup {NoConn}]
      /\ workerPc \in [Worker -> {"idle", "check", "send", "end"}]
  BY DEF TypeOK
<1>2. \A d : d # NoConn /\ HoldsIt(d)' => HoldsIt(d)
  BY <1>1 DEF HoldsIt
<1>3. /\ LiveIsHeld' /\ live' \subseteq live
      /\ registered' = registered \cap live' /\ edge' = edge \cap live'
      /\ quiet' = quiet \cap live' /\ \A d \in live : d \in live' <=> HoldsIt(d)'
  BY <1>2, Reaped DEF TypeOK
<1>4. TypeOK'
  BY <1>1, <1>3 DEF TypeOK
<1>5. MapsOwnTheirKeys'
  <2>1. \A f \in Fd : \A d \in {serverConns[f], loopConns[f]} : HoldsIt(d)'
    BY DEF HoldsIt
  <2> QED
    BY <1>3, <2>1 DEF MapsOwnTheirKeys
<1>6. NobodyForgotten' /\ ServerKnows' /\ HadFd'
  BY <1>3 DEF NobodyForgotten, ServerKnows, Established, InServer, HadFd
<1>7. Locals' /\ Inline' /\ ClosedLeavesEpoll'
  BY <1>1, <1>3 DEF Locals, Inline, ClosedLeavesEpoll
<1> QED
  BY <1>3, <1>4, <1>5, <1>6, <1>7

-----------------------------------------------------------------------------
\* The undefined steps, and those that go well.
LEMMA StepsOrCrashes ==
  Next => \/ \E k \in Crashes : Running /\ Crash(k)
          \/ Peer \/ (\E c \in Conn : Age(c)) \/ TimerExpires
          \/ EpollReady \/ EndBatch \/ HandleTimer \/ TimerDone
          \/ (\E c \in Conn : HandleWrite(c)) \/ (\E f \in Fd : TimerKeeps(f))
          \/ (HandleWakeup /\ Elements(taskQueue) \subseteq live)
          \/ (\E c \in Conn, f \in Fd : Create(c, f)) \/ Bind \/ InsertServer
          \/ (InsertLoop /\ crash' = "no") \/ Release
          \/ (\E c \in Conn : HandleMessage(c) \/ HandleClose(c))
          \/ (\E f \in Fd : TimerErases(f)) \/ (TimerRemoves /\ crash' = "no")
          \/ \E w \in Worker : Work(w)
<1> DEFINE Broken == \E k \in Crashes : Running /\ Crash(k)
<1>1. CreateMoved \/ AcceptFails \/ (\E c \in Conn : HandleFreed(c) \/ HandleUnbound(c)) => Broken
  BY DEF CreateMoved, AcceptFails, HandleFreed, HandleUnbound, Crashes
<1>2. InsertLoop => Broken \/ crash' = "no"
  BY DEF InsertLoop, Crashes, Running
<1>3. TimerRemoves => Broken \/ crash' = "no"
  BY DEF TimerRemoves, Crashes, Running
<1>4. HandleWakeup => Broken \/ Elements(taskQueue) \subseteq live
  BY DEF HandleWakeup, Crashes
<1>5. Next =>
        \/ Broken \/ Peer \/ (\E c \in Conn : Age(c)) \/ TimerExpires
        \/ (\E c \in Conn, f \in Fd : Create(c, f)) \/ NewConnection
        \/ EpollReady \/ EndBatch \/ (\E c \in Conn : HandleMessage(c) \/ HandleClose(c))
        \/ (\E c \in Conn : HandleWrite(c)) \/ HandleWakeup \/ Timer
        \/ \E w \in Worker : Work(w)
  <2> HIDE DEF Broken
  <2> QED
    BY <1>1 DEF Next, Accept, Loop, Dispatch
<1> HIDE DEF Broken
<1>6. NewConnection => Broken \/ Bind \/ InsertServer \/ (InsertLoop /\ crash' = "no") \/ Release
  BY <1>2 DEF NewConnection
<1>7. Timer => \/ Broken \/ HandleTimer \/ TimerDone \/ (\E f \in Fd : TimerKeeps(f))
               \/ (\E f \in Fd : TimerErases(f)) \/ (TimerRemoves /\ crash' = "no")
  BY <1>3 DEF Timer
<1> QED
  BY <1>4, <1>5, <1>6, <1>7 DEF Broken

LEMMA NextIInv == IInv /\ [Next]_vars => IInv'
<1> SUFFICES ASSUME IInv, [Next]_vars PROVE IInv'
  OBVIOUS
<1>1. CASE UNCHANGED vars
  <2> USE DEF vars, mainVars, mapVars, epollVars, timerVars, peerVars, poolVars
  <2>1. Own'
    BY <1>1, OwnKept DEF IInv, ownVars
  <2>2. TypeOK' /\ Inline' /\ ClosedLeavesEpoll'
    BY <1>1 DEF IInv, TypeOK, Inline, ClosedLeavesEpoll
  <2> QED
    BY <2>1, <2>2 DEF IInv
<1>2. ASSUME NEW w \in Worker, Work(w) PROVE IInv'
  BY <1>2, TakeTaskStep, CheckOrQueueStep, EndTaskStep DEF Work
<1>3. CASE Next
  BY <1>2, <1>3, StepsOrCrashes, CrashStep, PeerStep, QuietLoopStep, HandleWakeupStep, CreateStep,
     BindStep, InsertServerStep, InsertLoopStep, ReleaseStep, HandleMessageStep,
     HandleCloseStep, TimerErasesStep, TimerRemovesStep
<1> QED
  BY <1>1, <1>3

THEOREM Invariance == Spec => []IInv
  BY InitIInv, NextIInv, PTL DEF Spec

(***************************************************************************)
(* Only live connections are registered in epoll or found idle, whatever   *)
(* closes, times out and is accepted meanwhile.                            *)
(***************************************************************************)
THEOREM TypeCorrect == Spec => []TypeOK
<1>1. IInv => TypeOK
  BY DEF IInv
<1> QED
  BY Invariance, <1>1, PTL

(***************************************************************************)
(* conns_[fd] = conn and conns_.erase(fd): for any clients, descriptors,   *)
(* workers and races an entry of either map is the live connection that    *)
(* has its fd.                                                             *)
(***************************************************************************)
THEOREM NoForeignEntry == Spec => []MapsOwnTheirKeys
<1>1. IInv => MapsOwnTheirKeys
  BY DEF IInv, Own
<1> QED
  BY Invariance, <1>1, PTL

(***************************************************************************)
(* A connection that was handed over stays in both maps up to its own      *)
(* close or timeout.                                                       *)
(***************************************************************************)
THEOREM NoneForgotten == Spec => []NobodyForgotten
<1>1. IInv => NobodyForgotten
  BY DEF IInv, Own
<1> QED
  BY Invariance, <1>1, PTL

(***************************************************************************)
(* Where the IO thread answers, a channel that closeCallback() removed is  *)
(* never put back into the epoll set.                                      *)
(***************************************************************************)
THEOREM ClosedStaysOut == Spec => []ClosedLeavesEpoll
<1>1. IInv => ClosedLeavesEpoll
  BY DEF IInv
<1> QED
  BY Invariance, <1>1, PTL

-----------------------------------------------------------------------------
(***************************************************************************)
(* Who destroys a connection.  Its entry leaves EventLoop::conns_ only by  *)
(* its timeout, and TcpServer::conns_ never has one that timed out outside *)
(* of handletimer(): newconnection() enters a connection there before the  *)
(* timer can see it.                                                       *)
(***************************************************************************)
TimedOutIsOut ==
  /\ \A f \in Fd : serverConns[f] \in expired => serverConns[f] = timerConn
  /\ mainPc \in {"created", "bound", "inserted"} =>
       mainConn \notin expired /\ \A f \in Fd : loopConns[f] # mainConn

LEMMA TimedOutKept ==
  ASSUME TimedOutIsOut,
         \A f \in Fd : serverConns'[f] \in expired => serverConns'[f] = serverConns[f],
         \A f \in Fd : loopConns'[f] = loopConns[f],
         mainPc' \in {"created", "bound", "inserted"} =>
           mainPc \in {"created", "bound", "inserted"} /\ mainConn' = mainConn,
         UNCHANGED <<timerConn, expired>>
  PROVE  TimedOutIsOut'
  BY DEF TimedOutIsOut

LEMMA NextTimedOut == IInv /\ TimedOutIsOut /\ [Next]_vars => TimedOutIsOut'
<1> SUFFICES ASSUME IInv, TimedOutIsOut, [Next]_vars PROVE TimedOutIsOut'
  OBVIOUS
<1> USE DEF IInv, Own
<1>1. ASSUME UNCHANGED <<serverConns, loopConns, mainPc, mainConn, timerConn, expired>>
      PROVE  TimedOutIsOut'
  BY <1>1, TimedOutKept
<1>2. ASSUME NEW k \in Crashes, Running, Crash(k) PROVE TimedOutIsOut'
  BY <1>1, <1>2 DEF Crash, mainVars, mapVars, timerVars
<1>3. ASSUME NEW c \in Conn, NEW f \in Fd, Create(c, f) PROVE TimedOutIsOut'
  <2>1. mainConn' = c /\ c \notin live \cup expired
        /\ UNCHANGED <<serverConns, loopConns, timerConn, expired>>
    BY <1>3, TcpServerAssumption DEF Create, HadFd, mapVars, timerVars
  <2>2. \A g \in Fd : loopConns[g] # c
    BY <2>1, TcpServerAssumption DEF MapsOwnTheirKeys
  <2> QED
    BY <2>1, <2>2 DEF TimedOutIsOut
<1>4. CASE InsertServer
  <2>1. /\ mainConn \in Conn /\ fdOf[mainConn] \in Fd /\ mainConn \notin expired
        /\ serverConns' = [serverConns EXCEPT ![fdOf[mainConn]] = mainConn]
        /\ UNCHANGED <<mainConn, loopConns, timerConn, expired>>
        /\ mainPc = "bound"
    BY <1>4, MainHasConn DEF InsertServer, TimedOutIsOut, timerVars
  <2>2. \A g \in Fd : serverConns'[g] \in expired => serverConns'[g] = serverConns[g]
    BY <2>1 DEF TypeOK
  <2> QED
    BY <2>1, <2>2, TimedOutKept
<1>5. CASE Bind
  BY <1>5, TimedOutKept DEF Bind, mapVars, timerVars
<1>6. CASE Release \/ (InsertLoop /\ crash' = "no")
  <2>1. mainPc' \notin {"created", "bound", "inserted"} /\ UNCHANGED <<serverConns, timerConn, expired>>
    BY <1>6 DEF Release, InsertLoop, Crash, Running, mapVars, timerVars
  <2> QED
    BY <2>1 DEF TimedOutIsOut
<1>7. ASSUME NEW c \in Conn, HandleClose(c) PROVE TimedOutIsOut'
  <2>1. /\ serverConns' = [serverConns EXCEPT ![fdOf[c]] = NoConn]
        /\ UNCHANGED <<mainPc, mainConn, loopConns, timerConn, expired>>
    BY <1>7 DEF HandleClose, mainVars
  <2>2. \A g \in Fd : serverConns'[g] \in expired => serverConns'[g] = serverConns[g]
    BY <2>1, TcpServerAssumption DEF TypeOK
  <2> QED
    BY <2>1, <2>2, TimedOutKept
<1>8. ASSUME NEW f \in Fd, TimerErases(f) PROVE TimedOutIsOut'
  <2>1. /\ timerConn = NoConn /\ timerConn' = loopConns[f] /\ expired' = expired \cup {loopConns[f]}
        /\ loopConns' = [loopConns EXCEPT ![f] = NoConn]
        /\ UNCHANGED <<mainPc, mainConn, serverConns>>
    BY <1>8 DEF TimerErases, Locals, mainVars
  <2>2. \A g \in Fd : serverConns[g] \notin expired
    BY <2>1, TcpServerAssumption DEF TimedOutIsOut, TypeOK
  <2>3. mainPc \in {"created", "bound", "inserted"} =>
          mainConn \notin expired' /\ \A g \in Fd : loopConns'[g] # mainConn
    <3>1. mainPc \in {"created", "bound", "inserted"} => mainConn # NoConn
      BY DEF Locals
    <3> QED
      BY <2>1, <3>1 DEF TimedOutIsOut, TypeOK
  <2> QED
    BY <2>1, <2>2, <2>3 DEF TimedOutIsOut
<1>9. CASE TimerRemoves /\ crash' = "no"
  <2>1. /\ timerConn \in Conn /\ timerConn' = NoConn /\ fdOf[timerConn] \in Fd
        /\ serverConns' = [serverConns EXCEPT ![fdOf[timerConn]] = NoConn]
        /\ UNCHANGED <<mainPc, mainConn, loopConns, expired>>
    BY <1>9 DEF TimerRemoves, Crash, Running, Locals, TypeOK, HadFd, mainVars
  <2>2. \A g \in Fd : serverConns'[g] \notin expired
    <3> SUFFICES ASSUME NEW g \in Fd, serverConns'[g] \in expired PROVE FALSE
      OBVIOUS
    <3>1. serverConns'[g] # NoConn
      BY TcpServerAssumption DEF TypeOK
    <3>2. g # fdOf[timerConn] /\ serverConns[g] \in expired
      BY <2>1, <3>1 DEF TypeOK
    <3>3. serverConns[g] = timerConn
      BY <3>2 DEF TimedOutIsOut
    <3> QED
      BY <2>1, <3>2, <3>3, TcpServerAssumption DEF MapsOwnTheirKeys
  <2> QED
    BY <2>1, <2>2 DEF TimedOutIsOut
<1>10. CASE \/ Peer \/ (\E c \in Conn : Age(c)) \/ TimerExpires
            \/ EpollReady \/ EndBatch \/ HandleTimer \/ TimerDone
            \/ (\E c \in Conn : HandleWrite(c)) \/ (\E f \in Fd : TimerKeeps(f))
            \/ (\E c \in Conn : HandleMessage(c))
  BY <1>1, <1>10 DEF Peer, PeerSend, PeerClose, Age, TimerExpires, EpollReady, EndBatch,
     HandleTimer, TimerDone, HandleWrite, TimerKeeps, HandleMessage, mainVars, mapVars, timerVars
<1>11. CASE HandleWakeup /\ Elements(taskQueue) \subseteq live
  BY <1>1, <1>11 DEF HandleWakeup, mainVars, mapVars, timerVars
<1>12. ASSUME NEW w \in Worker, Work(w) PROVE TimedOutIsOut'
  BY <1>1, <1>12 DEF Work, TakeTask, CheckStatus, QueueSend, EndTask, mainVars, mapVars, timerVars
<1>13. CASE UNCHANGED vars
  BY <1>1, <1>13 DEF vars, mainVars, mapVars, timerVars
<1>14. CASE Next
  BY <1>2, <1>3, <1>4, <1>5, <1>6, <1>7, <1>8, <1>9, <1>10, <1>11, <1>12, <1>14, StepsOrCrashes
<1> QED
  BY <1>13, <1>14

LEMMA TimedOut == Spec => []TimedOutIsOut
<1>1. Init => TimedOutIsOut
  BY TcpServerAssumption DEF Init, TimedOutIsOut
<1> QED
  BY <1>1, Invariance, NextTimedOut, PTL DEF Spec

\* The entry of TcpServer::conns_ is not the last reference.
LEMMA CloseDestroysNothing ==
  ASSUME IInv, TimedOutIsOut, NEW c \in Conn, HandleClose(c) PROVE live \subseteq live'
<1> USE DEF IInv, Own
<1>1. /\ live' = live \cap Held' /\ serverConns' = [serverConns EXCEPT ![fdOf[c]] = NoConn]
      /\ UNCHANGED <<mainConn, loopConns, timerConn, poolQueue, task>>
      /\ loopPc = "dispatch"
  BY DEF HandleClose, Reap, mainVars, poolVars
<1> SUFFICES ASSUME NEW d \in Conn, d \in live PROVE HoldsIt(d)'
  BY <1>1, HeldMeans DEF TypeOK
<1>2. HoldsIt(d) /\ d # NoConn /\ fdOf[d] \in Fd /\ timerConn = NoConn
  BY <1>1, HeldMeans, TcpServerAssumption DEF LiveIsHeld, HadFd, TypeOK, Locals
<1>3. CASE \E f \in Fd : serverConns[f] = d
  <2>1. d \notin expired
    BY <1>2, <1>3 DEF TimedOutIsOut
  <2>2. mainConn = d \/ loopConns[fdOf[d]] = d
    BY <1>2, <2>1, TcpServerAssumption DEF NobodyForgotten, Established
  <2> QED
    BY <1>1, <1>2, <2>2 DEF HoldsIt
<1>4. CASE ~\E f \in Fd : serverConns[f] = d
  BY <1>1, <1>2, <1>4 DEF HoldsIt
<1> QED
  BY <1>3, <1>4

(***************************************************************************)
(* No handler of a batch but the timer's destroys a Connection: neither a  *)
(* close, which erases TcpServer's reference while it runs on the object,  *)
(* nor a message, a write or the queued sends.                             *)
(***************************************************************************)
THEOREM HandlersKeepAlive == Spec => HandlersDestroyNothing
<1> DEFINE Handler == loopPc = "dispatch" /\ loopPc' = "dispatch" /\ batch' # batch
<1>1. IInv /\ TimedOutIsOut /\ [Next]_vars => [Handler => live \subseteq live']_vars
  <2> SUFFICES ASSUME IInv, TimedOutIsOut, Next, Handler PROVE live \subseteq live'
    BY DEF vars
  <2>1. CASE \E k \in Crashes : Running /\ Crash(k)
    BY <2>1 DEF Crash
  <2>2. CASE Peer \/ (\E c \in Conn : Age(c)) \/ TimerExpires
    BY <2>2 DEF Peer, PeerSend, PeerClose, Age, TimerExpires
  <2>3. CASE EpollReady \/ EndBatch \/ HandleTimer \/ TimerDone
             \/ (\E c \in Conn : HandleWrite(c)) \/ (\E f \in Fd : TimerKeeps(f))
             \/ (HandleWakeup /\ Elements(taskQueue) \subseteq live)
             \/ (\E c \in Conn : HandleMessage(c))
    BY <2>3 DEF EpollReady, EndBatch, HandleTimer, TimerDone, HandleWrite, TimerKeeps, HandleWakeup,
       HandleMessage
  <2>4. CASE (\E c \in Conn, f \in Fd : Create(c, f)) \/ Bind \/ InsertServer
             \/ (InsertLoop /\ crash' = "no") \/ Release
    BY <2>4 DEF Create, Bind, InsertServer, InsertLoop, Crash, Release
  <2>5. CASE \E c \in Conn : HandleClose(c)
    BY <2>5, CloseDestroysNothing
  <2>6. CASE (\E f \in Fd : TimerErases(f)) \/ (TimerRemoves /\ crash' = "no")
    BY <2>6 DEF TimerErases, TimerRemoves, Crash
  <2>7. CASE \E w \in Worker : Work(w)
    BY <2>7 DEF Work, TakeTask, CheckStatus, QueueSend, EndTask
  <2> HIDE DEF Handler
  <2> QED
    BY <2>1, <2>2, <2>3, <2>4, <2>5, <2>6, <2>7, StepsOrCrashes
<1> QED
  BY <1>1, Invariance, TimedOut, PTL DEF Spec, HandlersDestroyNothing

(***************************************************************************)
(* A descriptor is free again only after the idle timer: whatever closed,  *)
(* a connection that was destroyed had timed out before.                   *)
(***************************************************************************)
THEOREM TimedOutFirst == Spec => []GoneWasTimedOut
<1>1. IInv => GoneWasTimedOut
  <2> SUFFICES ASSUME IInv, NEW c \in Conn, StatusOf(c) = "gone", c \notin expired PROVE FALSE
    BY DEF GoneWasTimedOut
  <2> USE DEF IInv, Own
  <2>1. fdOf[c] \in Fd /\ c \notin live
    BY DEF StatusOf, TypeOK
  <2>2. HoldsIt(c) => c \in live
    BY HeldMeans, TcpServerAssumption DEF LiveIsHeld
  <2>3. mainConn # c
    BY <2>1, <2>2 DEF HoldsIt
  <2>4. loopConns[fdOf[c]] = c
    BY <2>1, <2>3, TcpServerAssumption DEF NobodyForgotten, Established
  <2> QED
    BY <2>1, <2>2, <2>4 DEF HoldsIt
<1> QED
  BY <1>1, Invariance, PTL

-----------------------------------------------------------------------------
(***************************************************************************)
(* TcpServer implements ConnectionLife.  Create is Open, a close or a      *)
(* timeout is Leave, the step that drops the last reference is Destroy and *)
(* an undefined step is Break; all others stutter.                         *)
(***************************************************************************)
lifeVars == <<fdOf, live, disConnect, expired, crash>>

LEMMA LifeStutters == UNCHANGED lifeVars => UNCHANGED Life!vars
  BY DEF lifeVars, Life!vars, StatusOf

\* A step that moves one connection on, or none.
LEMMA OneMoves ==
  ASSUME Running, crash' = "no", fdOf' = fdOf, NEW c \in Conn,
         \A d \in Conn : d # c => StatusOf(d)' = StatusOf(d),
         \/ StatusOf(c)' = StatusOf(c)
         \/ StatusOf(c) = "open" /\ StatusOf(c)' = "leaving"
         \/ StatusOf(c) = "leaving" /\ StatusOf(c)' = "gone"
  PROVE  [Life!Next]_Life!vars
<1> DEFINE status == [d \in Conn |-> StatusOf(d)]
<1>1. status' = [status EXCEPT ![c] = StatusOf(c)'] /\ status[c] = StatusOf(c)
  OBVIOUS
<1>2. ~(crash # "no") /\ (crash' # "no") = FALSE /\ UNCHANGED (crash # "no")
  BY DEF Running
<1> HIDE DEF status
<1>3. CASE StatusOf(c)' = StatusOf(c)
  <2>1. status' = status
    BY <1>1, <1>3 DEF status
  <2> QED
    BY <1>2, <2>1 DEF Life!vars, status
<1>4. CASE StatusOf(c) = "open" /\ StatusOf(c)' = "leaving"
  <2>1. Life!Leave(c)
    BY <1>1, <1>2, <1>4 DEF Life!Leave, Life!Become, status
  <2> QED
    BY <2>1 DEF Life!Next
<1>5. CASE StatusOf(c) = "leaving" /\ StatusOf(c)' = "gone"
  <2>1. Life!Destroy(c)
    BY <1>1, <1>2, <1>5 DEF Life!Destroy, Life!Become, status
  <2> QED
    BY <2>1 DEF Life!Next
<1> QED
  BY <1>3, <1>4, <1>5

\* No object is destroyed before its client left or timed out.
LeftFirst == \A c \in Conn : StatusOf(c) = "gone" => c \in disConnect \cup expired

LEMMA GoneHadLeft == IInv => LeftFirst
<1> SUFFICES ASSUME IInv PROVE LeftFirst
  OBVIOUS
<1> USE DEF IInv, Own
<1>1. ASSUME NEW c \in Conn, HoldsIt(c) PROVE c \in live
  BY <1>1, HeldMeans, TcpServerAssumption DEF LiveIsHeld
<1>2. ASSUME NEW c \in Conn, StatusOf(c) = "gone", c \notin disConnect \cup expired PROVE FALSE
  <2>1. fdOf[c] \in Fd /\ c \notin live
    BY <1>2 DEF StatusOf, TypeOK
  <2>2. mainConn # c
    BY <2>1, <1>1 DEF HoldsIt
  <2>3. loopConns[fdOf[c]] = c
    BY <1>2, <2>1, <2>2, TcpServerAssumption DEF NobodyForgotten, Established
  <2> QED
    BY <2>1, <2>3, <1>1 DEF HoldsIt
<1> QED
  BY <1>2 DEF LeftFirst

\* Steps that only drop a reference of c.
LEMMA DropIsDestroy ==
  ASSUME IInv, IInv', Running, UNCHANGED <<fdOf, disConnect, expired, crash>>, NEW c \in Conn,
         live' \subseteq live, \A d \in Conn : d # c /\ HoldsIt(d) => HoldsIt(d)'
  PROVE  [Life!Next]_Life!vars
<1>1. \A d \in Conn : d # c => (d \in live' <=> d \in live)
  <2>1. \A d \in Conn : d \in live => HoldsIt(d)
    BY HeldMeans DEF IInv, Own, LiveIsHeld
  <2>2. \A d \in Conn : HoldsIt(d)' => d \in live'
    BY HeldMeans, TcpServerAssumption DEF IInv, Own, LiveIsHeld
  <2> QED
    BY <2>1, <2>2
<1>2. \A d \in Conn : d # c => StatusOf(d)' = StatusOf(d)
  BY <1>1 DEF StatusOf
<1>3. LeftFirst'
  BY GoneHadLeft, PTL
<1>4. StatusOf(c)' = StatusOf(c) \/ (StatusOf(c) = "leaving" /\ StatusOf(c)' = "gone")
  BY <1>3 DEF StatusOf, LeftFirst
<1> QED
  BY <1>2, <1>4, OneMoves DEF Running

\* A new connection takes a descriptor that no other has.
LEMMA CreateOpens ==
  ASSUME IInv, NEW c \in Conn, NEW f \in Fd, Create(c, f) PROVE Life!Open(c, f)
<1> USE DEF IInv, Own, Create, Running
<1> DEFINE status == [d \in Conn |-> StatusOf(d)]
<1>1. StatusOf(c) = "new" /\ Life!Owners(f) = {}
  <2>1. \A d \in Conn : StatusOf(d) \in {"open", "leaving"} => d \in live /\ fdOf[d] # f
    BY DEF StatusOf
  <2> QED
    BY <2>1 DEF Life!Owners, StatusOf
<1>2. fdOf' = [fdOf EXCEPT ![c] = f] /\ fdOf'[c] = f /\ f # 0 /\ c \in live'
      /\ UNCHANGED <<disConnect, expired>>
  BY TcpServerAssumption DEF TypeOK, timerVars
<1>3. StatusOf(c)' = "open"
  <2>1. c \notin disConnect \cup expired
    BY DEF HadFd
  <2> QED
    BY <1>2, <2>1 DEF StatusOf
<1>4. \A d \in Conn : d # c => StatusOf(d)' = StatusOf(d)
  BY <1>2 DEF StatusOf, TypeOK
<1>5. status' = [status EXCEPT ![c] = "open"] /\ status[c] = "new"
  BY <1>1, <1>3, <1>4
<1> QED
  BY <1>1, <1>2, <1>5 DEF Life!Open, Life!Become

\* Whom the close or the timeout of c moves on.
LEMMA CloseLeaves ==
  ASSUME IInv, IInv', NEW c \in Conn, HandleClose(c) PROVE [Life!Next]_Life!vars
<1> USE DEF IInv, Own
<1>1. /\ c \in live /\ fdOf[c] \in Fd /\ live' = live \cap Held'
      /\ serverConns' = [serverConns EXCEPT ![fdOf[c]] = NoConn] /\ disConnect' = disConnect \cup {c}
      /\ Running /\ crash' = "no"
      /\ UNCHANGED <<fdOf, mainPc, mainConn, loopConns, timerConn, expired, poolQueue, task>>
  BY DEF HandleClose, Reap, HadFd, TypeOK, Running, mainVars, poolVars
<1>2. \A d \in Conn : d # c /\ HoldsIt(d) => HoldsIt(d)'
  <2>1. ASSUME NEW d \in Conn, d # c, NEW f \in Fd, serverConns[f] = d PROVE serverConns'[f] = d
    <3>1. fdOf[d] = f /\ d \in live
      BY <2>1, TcpServerAssumption DEF MapsOwnTheirKeys
    <3>2. f # fdOf[c]
      BY <1>1, <2>1, <3>1 DEF MapsOwnTheirKeys
    <3> QED
      BY <1>1, <2>1, <3>2 DEF TypeOK
  <2> QED
    BY <1>1, <2>1 DEF HoldsIt
<1>3. \A d \in Conn : (d \in live <=> HoldsIt(d)) /\ (d \in live' <=> HoldsIt(d)')
  BY HeldMeans, TcpServerAssumption DEF LiveIsHeld
<1>4. \A d \in Conn : d # c => StatusOf(d)' = StatusOf(d)
  BY <1>1, <1>2, <1>3 DEF StatusOf
<1>5. StatusOf(c) = "open" => c \in live'
  <2>1. CASE mainConn = c
    BY <1>1, <1>3, <2>1 DEF HoldsIt
  <2>2. CASE mainConn # c /\ c \notin expired
    <3>1. loopConns'[fdOf[c]] = c
      BY <1>1, <2>2, TcpServerAssumption DEF NobodyForgotten, Established
    <3> QED
      BY <1>1, <1>3, <3>1 DEF HoldsIt
  <2> QED
    BY <2>1, <2>2 DEF StatusOf
<1>6. \/ StatusOf(c)' = StatusOf(c)
      \/ StatusOf(c) = "open" /\ StatusOf(c)' = "leaving"
      \/ StatusOf(c) = "leaving" /\ StatusOf(c)' = "gone"
  BY <1>1, <1>5, TcpServerAssumption DEF StatusOf
<1> QED
  BY <1>1, <1>4, <1>6, OneMoves

LEMMA TimeoutLeaves ==
  ASSUME IInv, IInv', NEW f \in Fd, TimerErases(f) PROVE [Life!Next]_Life!vars
<1> USE DEF IInv, Own
<1>1. PICK c \in Conn : c = loopConns[f] /\ c \in live
  BY TcpServerAssumption DEF TimerErases, TypeOK
<1>2. /\ fdOf[c] = f /\ timerConn = NoConn /\ timerConn' = c
      /\ loopConns' = [loopConns EXCEPT ![f] = NoConn] /\ expired' = expired \cup {c}
      /\ live' = live \cap Held' /\ Running /\ crash' = "no"
      /\ UNCHANGED <<fdOf, mainPc, mainConn, serverConns, disConnect, poolQueue, task>>
  BY <1>1, TcpServerAssumption DEF TimerErases, Reap, MapsOwnTheirKeys, Locals, Running, mainVars,
     poolVars
<1>3. \A d \in Conn : HoldsIt(d) => HoldsIt(d)'
  BY <1>1, <1>2, TcpServerAssumption DEF HoldsIt, TypeOK
<1>4. \A d \in Conn : d \in live' <=> d \in live
  BY <1>2, <1>3, HeldMeans DEF LiveIsHeld
<1>5. \A d \in Conn : d # c => StatusOf(d)' = StatusOf(d)
  BY <1>2, <1>4 DEF StatusOf
<1>6. \/ StatusOf(c)' = StatusOf(c)
      \/ StatusOf(c) = "open" /\ StatusOf(c)' = "leaving"
      \/ StatusOf(c) = "leaving" /\ StatusOf(c)' = "gone"
  <2>1. fdOf[c] # 0 /\ fdOf'[c] # 0 /\ c \in live' /\ c \in expired'
    BY <1>1, <1>2, <1>4, TcpServerAssumption
  <2> QED
    BY <1>1, <2>1 DEF StatusOf
<1> QED
  BY <1>2, <1>5, <1>6, OneMoves

\* Ends of newconnection(), of the timer's removal and of a task.
LEMMA ReferenceDropped ==
  ASSUME IInv, IInv', Release \/ (TimerRemoves /\ crash' = "no") \/ \E w \in Worker : EndTask(w)
  PROVE  [Life!Next]_Life!vars
<1> USE DEF IInv, Own
<1>1. CASE Release
  <2>1. mainConn \in Conn
    BY <1>1, MainHasConn DEF Release
  <2>2. \A d \in Conn : d # mainConn /\ HoldsIt(d) => HoldsIt(d)'
    BY <1>1 DEF Release, mapVars, poolVars, HoldsIt
  <2>3. Running /\ UNCHANGED <<fdOf, disConnect, expired, crash>> /\ live' \subseteq live
    BY <1>1 DEF Release, Reap
  <2> QED
    BY <2>1, <2>2, <2>3, DropIsDestroy
<1>2. CASE TimerRemoves /\ crash' = "no"
  <2>1. /\ timerConn \in Conn /\ fdOf[timerConn] \in Fd
        /\ serverConns' = [serverConns EXCEPT ![fdOf[timerConn]] = NoConn]
        /\ UNCHANGED <<mainConn, loopConns, poolQueue, task>>
    BY <1>2 DEF TimerRemoves, Crash, Locals, TypeOK, HadFd, mainVars, poolVars, Running
  <2>2. \A d \in Conn : d # timerConn /\ HoldsIt(d) => HoldsIt(d)'
    <3>1. ASSUME NEW d \in Conn, d # timerConn, NEW f \in Fd, serverConns[f] = d
          PROVE  serverConns'[f] = d
      <4>1. fdOf[d] = f /\ d \in live /\ timerConn \in live
        BY <2>1, <3>1, HeldMeans, TcpServerAssumption DEF MapsOwnTheirKeys, LiveIsHeld, HoldsIt
      <4>2. f # fdOf[timerConn]
        BY <3>1, <4>1 DEF MapsOwnTheirKeys
      <4> QED
        BY <2>1, <3>1, <4>2 DEF TypeOK
    <3> QED
      BY <2>1, <3>1 DEF HoldsIt
  <2>3. Running /\ UNCHANGED <<fdOf, disConnect, expired, crash>> /\ live' \subseteq live
    BY <1>2 DEF TimerRemoves, Crash, Reap, Running, mainVars
  <2> QED
    BY <2>1, <2>2, <2>3, DropIsDestroy
<1>3. ASSUME NEW w \in Worker, EndTask(w) PROVE [Life!Next]_Life!vars
  <2>1. task[w] \in Conn /\ task' = [task EXCEPT ![w] = NoConn]
    BY <1>3 DEF EndTask, Locals, TypeOK
  <2>2. \A d \in Conn : d # task[w] /\ HoldsIt(d) => HoldsIt(d)'
    BY <1>3, <2>1 DEF EndTask, mainVars, mapVars, HoldsIt, TypeOK
  <2>3. Running /\ UNCHANGED <<fdOf, disConnect, expired, crash>> /\ live' \subseteq live
    BY <1>3 DEF EndTask, Reap, mainVars
  <2> QED
    BY <2>1, <2>2, <2>3, DropIsDestroy
<1> QED
  BY <1>1, <1>2, <1>3

LEMMA NextImplementsLife == IInv /\ IInv' /\ [Next]_vars => [Life!Next]_Life!vars
<1> SUFFICES ASSUME IInv, IInv', [Next]_vars PROVE [Life!Next]_Life!vars
  OBVIOUS
<1>1. ASSUME UNCHANGED lifeVars PROVE [Life!Next]_Life!vars
  BY <1>1, LifeStutters
<1>2. ASSUME NEW k \in Crashes, Running, Crash(k) PROVE [Life!Next]_Life!vars
  <2>1. UNCHANGED <<fdOf, live, disConnect, expired>> /\ crash = "no" /\ crash' # "no"
    BY <1>2 DEF Crash, Running, mainVars, timerVars, Crashes
  <2>2. UNCHANGED <<[c \in Conn |-> StatusOf(c)], fdOf>>
    BY <2>1 DEF StatusOf
  <2>3. ~(crash # "no") /\ (crash' # "no") = TRUE
    BY <2>1
  <2>4. Life!Break
    BY <2>2, <2>3 DEF Life!Break
  <2> QED
    BY <2>4 DEF Life!Next
<1>3. ASSUME \/ Peer \/ (\E c \in Conn : Age(c)) \/ TimerExpires
             \/ EpollReady \/ EndBatch \/ HandleTimer \/ TimerDone
             \/ (\E c \in Conn : HandleWrite(c)) \/ (\E f \in Fd : TimerKeeps(f))
      PROVE  UNCHANGED lifeVars
  BY <1>3 DEF Peer, PeerSend, PeerClose, Age, TimerExpires, EpollReady, EndBatch, HandleTimer,
     TimerDone, HandleWrite, TimerKeeps, lifeVars, mainVars, timerVars
<1>4. ASSUME \/ HandleWakeup /\ Elements(taskQueue) \subseteq live
             \/ Bind \/ InsertServer \/ (InsertLoop /\ crash' = "no")
             \/ \E c \in Conn : HandleMessage(c)
      PROVE  UNCHANGED lifeVars
  BY <1>4 DEF HandleWakeup, Bind, InsertServer, InsertLoop, Crash, Running, HandleMessage, lifeVars,
     mainVars, timerVars
<1>5. ASSUME NEW w \in Worker, TakeTask(w) \/ CheckStatus(w) \/ QueueSend(w)
      PROVE  UNCHANGED lifeVars
  BY <1>5 DEF TakeTask, CheckStatus, QueueSend, lifeVars, mainVars, timerVars
<1>6. ASSUME NEW c \in Conn, NEW f \in Fd, Create(c, f) PROVE [Life!Next]_Life!vars
  BY <1>6, CreateOpens DEF Life!Next
<1>7. CASE UNCHANGED vars
  BY <1>1, <1>7 DEF vars, lifeVars, mainVars, timerVars
<1>8. CASE Next
  BY <1>1, <1>2, <1>3, <1>4, <1>5, <1>6, <1>8, StepsOrCrashes, CloseLeaves, TimeoutLeaves,
     ReferenceDropped DEF Work
<1> QED
  BY <1>7, <1>8

(***************************************************************************)
(* For any clients, descriptors and workers: a descriptor has one owner,   *)
(* and no connection is destroyed under a client that has neither left nor *)
(* timed out.                                                              *)
(***************************************************************************)
THEOREM RefinesConnectionLife == Spec => Life!SafeSpec
<1>1. Init => Life!Init
  <2>1. Init => [c \in Conn |-> StatusOf(c)] = [c \in Conn |-> "new"]
    BY DEF Init, StatusOf
  <2>2. Init => (crash # "no") = FALSE /\ fdOf \in [Conn -> Fd \cup {0}]
    BY DEF Init
  <2> QED
    BY <2>1, <2>2 DEF Life!Init
<1> QED
  BY Invariance, NextImplementsLife, <1>1, PTL DEF Spec, Life!SafeSpec
=============================================================================
