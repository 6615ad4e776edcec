-------------------------- MODULE ConnectionProofs --------------------------
(***************************************************************************)
(* Proofs about Connection for any pool of workers, any number of requests *)
(* of any size, and any room in the socket.                                *)
(***************************************************************************)
EXTENDS Connection, SequenceTheorems, FiniteSetTheorems, TLAPS

(***************************************************************************)
(* The channel.  Until the connection is closed it stays in the epoll set, *)
(* events are dispatched only between epoll_wait() and the end of their    *)
(* handlers, and a socket that was reset with its error taken reports      *)
(* EPOLLIN with every EPOLLOUT.                                            *)
(***************************************************************************)
Channel ==
  /\ disConnect \/ registered
  /\ loopPc \in {"wait", "read", "pick", "killed"} => rev = {}
  /\ sockErr # "none" => client = "reset"
  /\ client = "reset" /\ sockErr = "none" /\ "out" \in rev => "in" \in rev

\* A worker has a request from TakeTask to EndTask, and only workers of the pool do.
Workers ==
  \A w \in Worker :
    /\ workerPc[w] # "idle" => w \in pool /\ working[w] \in Message
    /\ pool = {} => workerPc[w] = "idle"

\* Without a pool nothing is ever queued.
Inline == pool = {} => poolQueue = << >> /\ taskQueue = << >>

IInv ==
  /\ TypeOK /\ NothingUnnoticed /\ Channel /\ Workers
  /\ Inline /\ ResetIsSurvived

(***************************************************************************)
(* Requests on their way to the client, oldest first: the output buffer,   *)
(* the loop's queue, the worker that still has to send, the pool's queue,  *)
(* what is not picked yet.  With one worker at the most each is in order   *)
(* and older than all that comes after it.                                 *)
(***************************************************************************)
Increasing(s) == \A i, j \in DOMAIN s : i < j => s[i] < s[j]
Older(S, T) == \A m \in S, n \in T : m < n

InOrder ==
  /\ Increasing(outputBuffer) /\ Increasing(taskQueue) /\ Increasing(poolQueue)
  /\ Older(Elements(outputBuffer), Elements(taskQueue) \cup Sending \cup Elements(poolQueue))
  /\ Older(Elements(taskQueue), Sending \cup Elements(poolQueue))
  /\ Older(Sending, Elements(poolQueue))
  /\ Older(Elements(outputBuffer) \cup Elements(taskQueue) \cup Sending \cup Elements(poolQueue),
           {picked + 1})

OneAtMost == \A v, w \in pool : v = w
OrderInv == OneAtMost => InOrder

(***************************************************************************)
(* The places of the requests that were picked.  A request is new to all   *)
(* of them when it is picked, and disConnect_ is set after the client has  *)
(* ended its stream.                                                       *)
(***************************************************************************)
PlaceInv ==
  /\ NoneTwice
  /\ Elements(poolQueue) \cup Handling \cup Elements(taskQueue) \cup Elements(outputBuffer)
       \subseteq 1..picked

KeptInv == NoneLost /\ (disConnect => client # "open")

(***************************************************************************)
(* EPOLLOUT.  A buffer with replies keeps EPOLLOUT set, and EPOLLIN means  *)
(* bytes to read, which are a request or part of one when they are read.   *)
(***************************************************************************)
Announced ==
  /\ NoReplyUnannounced
  /\ outputBuffer # << >> => writing
  /\ client = "open" =>
       /\ "in" \in rev => nread < sent
       /\ loopPc = "read" => nread < sent \/ picked * MessageCells < nread

-----------------------------------------------------------------------------
\* A request that has arrived whole is one the client may have sent.
LEMMA PickedFits ==
  ASSUME TypeOK, (picked + 1) * MessageCells <= nread
  PROVE  picked + 1 \in Message /\ picked + 1 \in 0..(nread \div MessageCells)
<1> DEFINE d == MessageCells
           q == nread \div d
<1>1. d \in Nat \ {0} /\ nread \in Nat /\ sent \in Nat /\ nread <= sent /\ sent <= MaxMessage * d
      /\ MaxMessage \in Nat
  BY ConnectionAssumption DEF TypeOK
<1>2. q \in Nat /\ nread < (q + 1) * d
  BY <1>1
<1>3. picked \in Nat
  BY <1>1, <1>2 DEF TypeOK
<1> DEFINE p == picked + 1
<1>4. p \in Nat \ {0} /\ p * d <= nread
  BY <1>3
<1> HIDE DEF d, q, p
<1>5. p <= q
  <2>1. p * d < (q + 1) * d
    BY <1>1, <1>2, <1>4
  <2> QED
    BY <1>1, <1>2, <1>4, <2>1
<1>6. p <= MaxMessage
  <2>1. p * d <= MaxMessage * d
    BY <1>1, <1>4
  <2> QED
    BY <1>1, <1>4, <2>1
<1> QED
  BY <1>2, <1>4, <1>5, <1>6 DEF p, q, d, Message

LEMMA ReadKeepsPicked ==
  ASSUME TypeOK, NEW n \in nread..sent
  PROVE  picked \in 0..(n \div MessageCells)
<1> DEFINE d == MessageCells
           q == nread \div d
           r == n \div d
<1>1. d \in Nat \ {0} /\ nread \in Nat /\ n \in Nat /\ nread <= n
  BY ConnectionAssumption DEF TypeOK
<1>2. q \in Nat /\ q * d <= nread /\ r \in Nat /\ n < (r + 1) * d
  BY <1>1
<1> HIDE DEF d, q, r
<1>3. q <= r
  <2>1. q * d < (r + 1) * d
    BY <1>1, <1>2
  <2> QED
    BY <1>1, <1>2, <2>1
<1> QED
  BY <1>2, <1>3 DEF TypeOK, q, r, d

LEMMA InitIInv == Init => IInv
<1> SUFFICES ASSUME Init PROVE IInv
  OBVIOUS
<1> USE DEF Init
<1>1. TypeOK
  <2>1. poolQueue \in Seq(Message) /\ taskQueue \in Seq(Message) /\ outputBuffer \in Seq(Message)
    OBVIOUS
  <2>2. sent \in 0..(MaxMessage * MessageCells) /\ nread \in 0..sent
    BY ConnectionAssumption
  <2>3. picked \in 0..(nread \div MessageCells)
    <3>1. 0 \div MessageCells \in Nat
      BY ConnectionAssumption
    <3> QED
      BY <3>1
  <2>4. working \in [Worker -> Message \cup {0}] /\ workerPc \in [Worker -> {"idle", "check", "send", "end"}]
    OBVIOUS
  <2> QED
    BY <2>1, <2>2, <2>3, <2>4 DEF TypeOK
<1>2. NothingUnnoticed /\ Channel /\ Workers /\ Inline /\ ResetIsSurvived
  BY DEF NothingUnnoticed, Channel, Workers, Inline, ResetIsSurvived
<1> QED
  BY <1>1, <1>2 DEF IInv

LEMMA InitOrder == Init => OrderInv
<1> SUFFICES ASSUME Init PROVE OrderInv
  OBVIOUS
<1>1. outputBuffer = << >> /\ taskQueue = << >> /\ poolQueue = << >> /\ Elements(<< >>) = {}
      /\ DOMAIN << >> = {}
  BY DEF Init, Elements
<1>2. Sending = {}
  BY DEF Init, Sending
<1> QED
  BY <1>1, <1>2 DEF OrderInv, InOrder, Older, Increasing

-----------------------------------------------------------------------------
(***************************************************************************)
(* The inductive step, one lemma per group of actions.                     *)
(***************************************************************************)
Rest == Workers /\ Inline

LEMMA ClientStep == IInv /\ (ClientSend \/ ClientClose) => IInv'
<1> SUFFICES ASSUME IInv, ClientSend \/ ClientClose PROVE IInv'
  OBVIOUS
<1> USE DEF IInv, ClientSend, ClientClose, inVars, poolVars, outVars
<1>1. TypeOK'
  <2>1. sent' \in 0..(MaxMessage * MessageCells) /\ nread' \in 0..sent'
    <3>1. MaxMessage * MessageCells \in Nat
      BY ConnectionAssumption
    <3> QED
      BY <3>1 DEF TypeOK
  <2>2. picked' \in 0..(nread' \div MessageCells)
    BY DEF TypeOK
  <2>3. client' \in {"open", "closed", "reset"} /\ sockErr' \in {"none", "reset", "pipe"}
        /\ edge' \in BOOLEAN
    BY DEF TypeOK
  <2> QED
    BY <2>1, <2>2, <2>3 DEF TypeOK
<1>2. NothingUnnoticed' /\ Channel' /\ ResetIsSurvived'
  BY DEF NothingUnnoticed, Channel, ResetIsSurvived, TypeOK
<1>3. Rest'
  BY DEF Rest, Workers, Inline
<1> QED
  BY <1>1, <1>2, <1>3 DEF Rest

\* epoll_wait() and the branches of the handlers that touch no reply.
LEMMA LoopStep ==
  IInv /\ (EpollReady \/ EndBatch \/ BeginRead \/ ReadError \/ ReadEof \/ ReadAgain
           \/ PickNone \/ WriteKilled) => IInv'
<1> SUFFICES ASSUME IInv,
                    EpollReady \/ EndBatch \/ BeginRead \/ ReadError \/ ReadEof \/ ReadAgain
                    \/ PickNone \/ WriteKilled
             PROVE  IInv'
  OBVIOUS
<1> USE DEF IInv, EpollReady, EndBatch, BeginRead, ReadError, ReadEof, ReadAgain, PickNone,
            WriteKilled, HandleEvent, RemoveChannel, envVars, inVars, poolVars, outVars
<1>1. Events \subseteq {"in", "out"}
  BY DEF Events
<1>2. TypeOK'
  <2>1. UNCHANGED <<pool, client, sent, nread, picked, writing, poolQueue, working, workerPc,
                    taskQueue, outputBuffer, reached>>
    OBVIOUS
  <2>2. loopPc' \in {"wait", "dispatch", "read", "pick", "killed"} /\ rev' \subseteq {"in", "out"}
    BY <1>1 DEF TypeOK
  <2>3. sockErr' \in {"none", "reset", "pipe"} /\ registered' \in BOOLEAN /\ edge' \in BOOLEAN
        /\ disConnect' \in BOOLEAN /\ wake' \in BOOLEAN
    BY DEF TypeOK
  <2> HIDE DEF EpollReady, EndBatch, BeginRead, ReadError, ReadEof, ReadAgain, PickNone, WriteKilled
  <2> QED
    BY <2>1, <2>2, <2>3 DEF TypeOK
<1>3. NothingUnnoticed'
  <2>1. CASE EpollReady
    <3>1. edge /\ registered /\ nread < sent => "in" \in Events
      BY DEF Events, Readable
    <3>2. nread < sent /\ ~disConnect => edge /\ registered
      BY <2>1 DEF NothingUnnoticed, Channel
    <3> QED
      BY <2>1, <3>1, <3>2 DEF NothingUnnoticed
  <2>2. CASE ~EpollReady
    <3>1. UNCHANGED sent /\ (nread' < sent' => nread' = nread) /\ (disConnect => disConnect')
      BY <2>2
    <3>2. CASE EndBatch \/ ReadError \/ PickNone
      BY <2>2, <3>2 DEF NothingUnnoticed, Channel
    <3>3. CASE BeginRead \/ ReadEof \/ ReadAgain
      BY <2>2, <3>3, ConnectionAssumption DEF NothingUnnoticed, TypeOK
    <3>4. CASE WriteKilled
      BY <2>2, <3>4 DEF NothingUnnoticed
    <3> QED
      BY <2>2, <3>2, <3>3, <3>4
  <2> QED
    BY <2>1, <2>2
<1>4. Channel' /\ ResetIsSurvived'
  BY DEF Channel, ResetIsSurvived, Events, Readable, TypeOK
<1>5. Rest'
  BY DEF Rest, Workers, Inline
<1> QED
  BY <1>2, <1>3, <1>4, <1>5 DEF Rest

LEMMA ReadStep == IInv /\ Read => IInv'
<1> SUFFICES ASSUME IInv, Read PROVE IInv'
  OBVIOUS
<1> USE DEF IInv, Read, envVars, poolVars, outVars
<1>1. TypeOK'
  <2>1. nread' \in nread..sent /\ nread' \in 0..sent
    BY ConnectionAssumption DEF TypeOK
  <2>2. picked \in 0..(nread' \div MessageCells)
    BY <2>1, ReadKeepsPicked
  <2> QED
    BY <2>1, <2>2 DEF TypeOK
<1>2. NothingUnnoticed' /\ Channel' /\ ResetIsSurvived'
  BY DEF NothingUnnoticed, Channel, ResetIsSurvived
<1>3. Rest'
  BY DEF Rest, Workers, Inline
<1> QED
  BY <1>1, <1>2, <1>3 DEF Rest

LEMMA OneMore ==
  ASSUME NEW q \in Seq(Message), NEW m \in Message
  PROVE  /\ q \o <<m>> = Append(q, m) /\ Append(q, m) \in Seq(Message)
         /\ Elements(Append(q, m)) = Elements(q) \cup {m}
<1> DEFINE a == Append(q, m)
<1>1. q \o <<m>> = a /\ a \in Seq(Message)
  OBVIOUS
<1>2. DOMAIN a = 1..(Len(q) + 1) /\ DOMAIN q = 1..Len(q) /\ Len(q) \in Nat
  OBVIOUS
<1>3. a[Len(q) + 1] = m /\ \A i \in 1..Len(q) : a[i] = q[i]
  OBVIOUS
<1> HIDE DEF a
<1>4. {a[i] : i \in DOMAIN a} = {q[i] : i \in DOMAIN q} \cup {m}
  BY <1>2, <1>3
<1> QED
  BY <1>1, <1>4 DEF a, Elements

LEMMA PickStep == IInv /\ Pick => IInv'
<1> SUFFICES ASSUME IInv, Pick PROVE IInv'
  OBVIOUS
<1> USE DEF IInv, Pick, HandleMessage, Output, EnableWriting, UpdateChannel, envVars,
            poolVars, outVars
<1>1. picked + 1 \in Message /\ picked' \in 0..(nread' \div MessageCells)
  BY PickedFits
<1>2. TypeOK'
  <2>1. outputBuffer' \in Seq(Message) /\ poolQueue' \in Seq(Message)
    <3>1. /\ outputBuffer \in Seq(Message) /\ poolQueue \in Seq(Message)
          /\ \/ outputBuffer' = outputBuffer \o <<picked + 1>> /\ poolQueue' = poolQueue
             \/ outputBuffer' = outputBuffer /\ poolQueue' = Append(poolQueue, picked + 1)
      BY DEF TypeOK
    <3> QED
      BY <1>1, <3>1, OneMore
  <2>2. registered' \in BOOLEAN /\ writing' \in BOOLEAN /\ edge' \in BOOLEAN
    BY DEF TypeOK
  <2> QED
    BY <1>1, <2>1, <2>2 DEF TypeOK
<1>3. NothingUnnoticed' /\ Channel' /\ ResetIsSurvived'
  BY DEF NothingUnnoticed, Channel, ResetIsSurvived
<1>4. Rest'
  BY DEF Rest, Workers, Inline
<1> QED
  BY <1>2, <1>3, <1>4 DEF Rest

LEMMA WriteStep == IInv /\ (WriteSome \/ WriteError \/ HandleWakeup) => IInv'
<1> SUFFICES ASSUME IInv, WriteSome \/ WriteError \/ HandleWakeup PROVE IInv'
  OBVIOUS
<1> USE DEF IInv, WriteSome, WriteError, HandleWakeup, HandleEvent, Output, EnableWriting,
            DisableWriting, UpdateChannel, envVars, inVars, poolVars
<1>1. TypeOK'
  <2>1. ASSUME WriteSome PROVE reached' \subseteq Message /\ edge' \in BOOLEAN
    <3> DEFINE n == IF Len(outputBuffer) < Room THEN Len(outputBuffer) ELSE Room
    <3>1. n \in 0..Len(outputBuffer) /\ outputBuffer \in Seq(Message)
      BY ConnectionAssumption, LenProperties DEF TypeOK
    <3>2. SubSeq(outputBuffer, 1, n) \in Seq(Message)
      BY <3>1, LenProperties
    <3>3. Elements(SubSeq(outputBuffer, 1, n)) \subseteq Message
      BY <3>2, ElementOfSeq DEF Elements
    <3>4. reached' = reached \cup Elements(SubSeq(outputBuffer, 1, n))
          /\ edge' = (edge \/ n < Len(outputBuffer))
      BY <2>1
    <3> HIDE DEF n
    <3> QED
      BY <3>3, <3>4 DEF TypeOK
  <2>2. ASSUME HandleWakeup PROVE outputBuffer' \in Seq(Message)
    BY <2>2, ConcatProperties DEF TypeOK
  <2>3. CASE WriteSome
    BY <2>1, <2>3 DEF TypeOK
  <2>4. CASE WriteError
    <3>1. outputBuffer' \in Seq(Message)
      BY <2>4
    <3> QED
      BY <2>4, <3>1 DEF TypeOK
  <2>5. CASE HandleWakeup
    <3>1. taskQueue' \in Seq(Message)
      BY <2>5
    <3> QED
      BY <2>2, <2>5, <3>1 DEF TypeOK
  <2> QED
    BY <2>3, <2>4, <2>5
<1>2. NothingUnnoticed' /\ Channel' /\ ResetIsSurvived'
  BY DEF NothingUnnoticed, Channel, ResetIsSurvived, TypeOK
<1>3. Rest'
  BY DEF Rest, Workers, Inline
<1> QED
  BY <1>1, <1>2, <1>3 DEF Rest

LEMMA WorkStep == ASSUME IInv, NEW w \in Worker, Work(w) PROVE IInv'
<1> USE DEF IInv, Work, TakeTask, CheckStatus, QueueSend, EndTask, envVars, inVars, outVars
<1>1. w \in pool
  BY DEF Workers
<1>2. TypeOK'
  <2>1. CASE TakeTask(w)
    <3>1. Head(poolQueue) \in Message /\ Tail(poolQueue) \in Seq(Message)
      BY <2>1, HeadTailProperties DEF TypeOK
    <3> QED
      BY <2>1, <3>1 DEF TypeOK
  <2>2. CASE CheckStatus(w)
    BY <2>2 DEF TypeOK
  <2>3. CASE QueueSend(w)
    <3>1. taskQueue' \in Seq(Message)
      BY <2>3, AppendProperties DEF TypeOK, Workers
    <3> QED
      BY <2>3, <3>1 DEF TypeOK
  <2>4. CASE EndTask(w)
    BY <2>4 DEF TypeOK
  <2> QED
    BY <2>1, <2>2, <2>3, <2>4
<1>3. NothingUnnoticed' /\ Channel' /\ ResetIsSurvived'
  BY DEF NothingUnnoticed, Channel, ResetIsSurvived
<1>4. Rest'
  <2>1. Workers'
    <3>1. poolQueue # << >> => Head(poolQueue) \in Message
      BY HeadTailProperties DEF TypeOK
    <3> QED
      BY <1>1, <3>1 DEF Workers, TypeOK
  <2> QED
    BY <1>1, <2>1 DEF Rest, Inline
<1> QED
  BY <1>2, <1>3, <1>4 DEF Rest

LEMMA NextIInv == IInv /\ [Next]_vars => IInv'
<1> SUFFICES ASSUME IInv, [Next]_vars PROVE IInv'
  OBVIOUS
<1>1. CASE Next
  BY <1>1, ClientStep, LoopStep, ReadStep, PickStep, WriteStep, WorkStep DEF Next, Loop
<1>2. CASE UNCHANGED vars
  BY <1>2 DEF vars, envVars, inVars, poolVars, outVars, IInv, TypeOK, NothingUnnoticed, Channel,
              Workers, Inline, ResetIsSurvived
<1> QED
  BY <1>1, <1>2

THEOREM Invariance == Spec => []IInv
  BY InitIInv, NextIInv, PTL DEF Spec

-----------------------------------------------------------------------------
(***************************************************************************)
(* Sequences of requests in order: putting one behind another, and taking  *)
(* the first.                                                              *)
(***************************************************************************)
LEMMA ConcatInOrder ==
  ASSUME NEW q \in Seq(Message), NEW r \in Seq(Message)
  PROVE  /\ Elements(q \o r) = Elements(q) \cup Elements(r)
         /\ (Increasing(q) /\ Increasing(r) /\ Older(Elements(q), Elements(r)))
              => Increasing(q \o r)
<1> DEFINE a == q \o r
<1>1. /\ DOMAIN a = 1..(Len(q) + Len(r)) /\ DOMAIN q = 1..Len(q) /\ DOMAIN r = 1..Len(r)
      /\ Len(q) \in Nat /\ Len(r) \in Nat
  OBVIOUS
<1>2. /\ \A i \in DOMAIN q : i \in DOMAIN a /\ a[i] = q[i]
      /\ \A i \in DOMAIN r : i + Len(q) \in DOMAIN a /\ a[i + Len(q)] = r[i]
  BY <1>1
<1>3. \A i \in DOMAIN a : i \in DOMAIN q \/ i - Len(q) \in DOMAIN r
  BY <1>1
<1>4. \A i \in DOMAIN a : i \notin DOMAIN q => a[i] = r[i - Len(q)]
  BY <1>1
<1> HIDE DEF a
<1>5. {a[i] : i \in DOMAIN a} = {q[i] : i \in DOMAIN q} \cup {r[i] : i \in DOMAIN r}
  BY <1>2, <1>3, <1>4
<1>6. ASSUME Increasing(q), Increasing(r), Older(Elements(q), Elements(r)) PROVE Increasing(a)
  <2> SUFFICES ASSUME NEW i \in DOMAIN a, NEW j \in DOMAIN a, i < j PROVE a[i] < a[j]
    BY DEF Increasing
  <2>1. CASE j \in DOMAIN q
    <3>1. i \in DOMAIN q
      BY <2>1, <1>1
    <3> QED
      BY <2>1, <3>1, <1>2, <1>6 DEF Increasing
  <2>2. CASE i \in DOMAIN q /\ j \notin DOMAIN q
    BY <2>2, <1>2, <1>3, <1>4, <1>6 DEF Older, Elements
  <2>3. CASE i \notin DOMAIN q
    <3>1. j \notin DOMAIN q /\ i - Len(q) < j - Len(q)
      BY <2>3, <1>1
    <3> QED
      BY <2>3, <3>1, <1>3, <1>4, <1>6 DEF Increasing
  <2> QED
    BY <2>1, <2>2, <2>3
<1> QED
  BY <1>5, <1>6 DEF a, Elements

LEMMA AppendInOrder ==
  ASSUME NEW q \in Seq(Message), NEW m \in Message, Increasing(q), Older(Elements(q), {m})
  PROVE  Increasing(Append(q, m))
<1> DEFINE r == <<m>>
<1>1. r \in Seq(Message) /\ Increasing(r) /\ Elements(r) = {m}
  BY DEF Increasing, Elements
<1>2. q \o r = Append(q, m)
  BY OneMore
<1> HIDE DEF r
<1>3. Increasing(q \o r)
  BY <1>1, ConcatInOrder
<1> QED
  BY <1>2, <1>3

LEMMA TailInOrder ==
  ASSUME NEW q \in Seq(Message), q # << >>
  PROVE  /\ Head(q) \in Elements(q) /\ Elements(Tail(q)) \subseteq Elements(q)
         /\ Increasing(q) => Increasing(Tail(q)) /\ Older({Head(q)}, Elements(Tail(q)))
<1> DEFINE t == Tail(q)
<1>1. DOMAIN t = 1..(Len(q) - 1) /\ DOMAIN q = 1..Len(q) /\ Len(q) \in Nat \ {0}
  OBVIOUS
<1>2. 1 \in DOMAIN q /\ q[1] = Head(q)
  BY <1>1
<1>3. \A i \in DOMAIN t : i + 1 \in DOMAIN q /\ t[i] = q[i + 1] /\ 1 < i + 1
  BY <1>1
<1>4. \A i, j \in DOMAIN t : i < j => i + 1 < j + 1
  BY <1>1
<1> HIDE DEF t
<1>5. Head(q) \in Elements(q) /\ Elements(t) \subseteq Elements(q)
  BY <1>2, <1>3 DEF Elements
<1>6. ASSUME Increasing(q) PROVE Increasing(t) /\ Older({Head(q)}, Elements(t))
  BY <1>2, <1>3, <1>4, <1>6 DEF Increasing, Older, Elements
<1> QED
  BY <1>5, <1>6 DEF t

LEMMA ElementsAreMessages ==
  ASSUME NEW q \in Seq(Message) PROVE Elements(q) \subseteq Message
  BY ElementOfSeq DEF Elements

\* The requests on their way are requests.
LEMMA OnTheirWay ==
  ASSUME IInv
  PROVE  /\ Sending \subseteq Message /\ Elements(outputBuffer) \subseteq Message
         /\ Elements(taskQueue) \subseteq Message /\ Elements(poolQueue) \subseteq Message
  BY ElementsAreMessages DEF IInv, TypeOK, Workers, Sending

-----------------------------------------------------------------------------
LEMMA PickInOrder == IInv /\ InOrder /\ Pick => InOrder'
<1> SUFFICES ASSUME IInv, InOrder, Pick PROVE InOrder'
  OBVIOUS
<1> DEFINE m == picked + 1
<1>1. m \in Message /\ m \in Nat
  BY PickedFits DEF IInv, Pick, Message
<1>2. picked' = m /\ Sending' = Sending /\ taskQueue' = taskQueue
  BY DEF Pick, HandleMessage, Output, EnableWriting, UpdateChannel, poolVars, Sending
<1>3. outputBuffer \in Seq(Message) /\ poolQueue \in Seq(Message) /\ taskQueue \in Seq(Message)
  BY DEF IInv, TypeOK
<1>4. \A n \in Message : n < m => n < m + 1
  BY <1>1 DEF Message
<1>5. m < m + 1
  BY <1>1
<1>6. CASE pool = {}
  <2>1. outputBuffer' = Append(outputBuffer, m) /\ poolQueue' = poolQueue
    BY <1>1, <1>3, <1>6, OneMore DEF Pick, HandleMessage, Output, poolVars
  <2>2. Elements(poolQueue) = {} /\ Elements(taskQueue) = {} /\ Sending = {}
    BY <1>6 DEF IInv, Inline, Workers, Elements, Sending
  <2>3. Elements(outputBuffer') = Elements(outputBuffer) \cup {m} /\ Increasing(outputBuffer')
    BY <1>1, <1>3, <2>1, OneMore, AppendInOrder DEF InOrder, Older
  <2> HIDE DEF m
  <2>4. Older(Elements(outputBuffer'), {m + 1})
    BY <1>4, <1>5, <2>3, OnTheirWay DEF InOrder, Older, m
  <2> QED
    BY <1>2, <2>1, <2>2, <2>3, <2>4 DEF InOrder, Older
<1>7. CASE pool # {}
  <2>1. poolQueue' = Append(poolQueue, m) /\ outputBuffer' = outputBuffer
    BY <1>7 DEF Pick, HandleMessage, outVars
  <2>2. Elements(poolQueue') = Elements(poolQueue) \cup {m} /\ Increasing(poolQueue')
    BY <1>1, <1>3, <2>1, OneMore, AppendInOrder DEF InOrder, Older
  <2>3. Older(Elements(outputBuffer) \cup Elements(taskQueue) \cup Sending \cup Elements(poolQueue), {m})
    BY DEF InOrder
  <2> HIDE DEF m
  <2>4. Older(Elements(outputBuffer) \cup Elements(taskQueue) \cup Sending \cup Elements(poolQueue'),
              {m + 1})
    BY <1>4, <1>5, <2>2, <2>3, OnTheirWay DEF Older
  <2> QED
    BY <1>2, <2>1, <2>2, <2>3, <2>4 DEF InOrder, Older
<1> QED
  BY <1>6, <1>7

LEMMA WriteInOrder == IInv /\ InOrder /\ (WriteError \/ HandleWakeup) => InOrder'
<1> SUFFICES ASSUME IInv, InOrder, WriteError \/ HandleWakeup PROVE InOrder'
  OBVIOUS
<1>1. CASE WriteError
  <2>1. outputBuffer' = << >> /\ Elements(outputBuffer') = {} /\ Increasing(outputBuffer')
    BY <1>1 DEF WriteError, Elements, Increasing
  <2>2. UNCHANGED <<taskQueue, poolQueue, picked>> /\ Sending' = Sending
    BY <1>1 DEF WriteError, inVars, poolVars, Sending
  <2> QED
    BY <2>1, <2>2 DEF InOrder, Older
<1>2. CASE HandleWakeup
  <2>1. outputBuffer' = outputBuffer \o taskQueue /\ taskQueue' = << >> /\ Increasing(taskQueue')
        /\ Elements(taskQueue') = {}
    BY <1>2 DEF HandleWakeup, Output, Elements, Increasing
  <2>2. UNCHANGED <<poolQueue, picked>> /\ Sending' = Sending
    BY <1>2 DEF HandleWakeup, inVars, poolVars, Sending
  <2>3. Older(Elements(outputBuffer), Elements(taskQueue))
    BY DEF InOrder, Older
  <2>4. Elements(outputBuffer') = Elements(outputBuffer) \cup Elements(taskQueue)
        /\ Increasing(outputBuffer')
    BY <2>1, <2>3, ConcatInOrder DEF InOrder, IInv, TypeOK
  <2> QED
    BY <2>1, <2>2, <2>4 DEF InOrder, Older
<1> QED
  BY <1>1, <1>2

\* One worker: who takes a task had none to send, and who has sent has none left.
LEMMA WorkInOrder ==
  ASSUME IInv, OneAtMost, InOrder, NEW w \in Worker, Work(w) PROVE InOrder'
<1>1. w \in pool /\ UNCHANGED <<outputBuffer, picked>>
  BY DEF IInv, Workers, Work, TakeTask, CheckStatus, QueueSend, EndTask, inVars, outVars
<1>2. \A v \in Worker : v # w => workerPc[v] = "idle"
  BY <1>1 DEF IInv, Workers, OneAtMost
<1>3. /\ workerPc[w] \in {"check", "send"} => Sending = {working[w]}
      /\ workerPc[w] \notin {"check", "send"} => Sending = {}
  BY <1>2 DEF Sending
<1>4. \A v \in Worker : v # w => workerPc'[v] = "idle"
  BY <1>2 DEF IInv, TypeOK, Work, TakeTask, CheckStatus, QueueSend, EndTask
<1>5. /\ workerPc'[w] \in {"check", "send"} => Sending' = {working'[w]}
      /\ workerPc'[w] \notin {"check", "send"} => Sending' = {}
  BY <1>4 DEF Sending
<1>6. taskQueue \in Seq(Message) /\ poolQueue \in Seq(Message)
  BY DEF IInv, TypeOK
<1>7. CASE TakeTask(w)
  <2>1. /\ poolQueue # << >> /\ poolQueue' = Tail(poolQueue) /\ taskQueue' = taskQueue
        /\ workerPc'[w] = "check" /\ working'[w] = Head(poolQueue)
    BY <1>7 DEF TakeTask, IInv, TypeOK
  <2>2. Sending' = {Head(poolQueue)}
    BY <1>5, <2>1
  <2>3. /\ Head(poolQueue) \in Elements(poolQueue) /\ Elements(poolQueue') \subseteq Elements(poolQueue)
        /\ Increasing(poolQueue') /\ Older(Sending', Elements(poolQueue'))
    BY <1>6, <2>1, <2>2, TailInOrder DEF InOrder
  <2> QED
    BY <1>1, <2>1, <2>2, <2>3 DEF InOrder, Older
<1>8. CASE QueueSend(w)
  <2>1. taskQueue' = Append(taskQueue, working[w]) /\ poolQueue' = poolQueue
        /\ workerPc[w] = "send" /\ workerPc'[w] = "end" /\ working[w] \in Message
    BY <1>8 DEF QueueSend, IInv, TypeOK, Workers
  <2>2. Sending = {working[w]} /\ Sending' = {}
    BY <1>3, <1>5, <2>1
  <2>3. Elements(taskQueue') = Elements(taskQueue) \cup Sending /\ Increasing(taskQueue')
    BY <1>6, <2>1, <2>2, OneMore, AppendInOrder DEF InOrder, Older
  <2> QED
    BY <1>1, <2>1, <2>2, <2>3 DEF InOrder, Older
<1>9. CASE CheckStatus(w) \/ EndTask(w)
  <2>1. UNCHANGED <<taskQueue, poolQueue>> /\ Sending' \subseteq Sending
    BY <1>3, <1>5, <1>9 DEF CheckStatus, EndTask, IInv, TypeOK
  <2> QED
    BY <1>1, <2>1 DEF InOrder, Older
<1> QED
  BY <1>7, <1>8, <1>9 DEF Work

LEMMA NextOrder == IInv /\ OrderInv /\ [Next]_vars => OrderInv'
<1> SUFFICES ASSUME IInv, OrderInv, [Next]_vars, OneAtMost' PROVE InOrder'
  BY DEF OrderInv
<1>1. pool' = pool
  BY DEF Next, ClientSend, ClientClose, Loop, EpollReady, EndBatch, BeginRead, Read, ReadError,
         ReadEof, ReadAgain, Pick, PickNone, WriteSome, WriteError, WriteKilled, HandleWakeup,
         Work, TakeTask, CheckStatus, QueueSend, EndTask, vars, envVars
<1>2. OneAtMost /\ InOrder
  BY <1>1 DEF OneAtMost, OrderInv
<1>3. ASSUME UNCHANGED <<outputBuffer, taskQueue, poolQueue, working, workerPc, picked>>
      PROVE  InOrder'
  <2>1. Sending' = Sending
    BY <1>3 DEF Sending
  <2> QED
    BY <1>2, <1>3, <2>1 DEF InOrder
<1>4. CASE Pick \/ WriteError \/ HandleWakeup \/ \E w \in Worker : Work(w)
  BY <1>2, <1>4, PickInOrder, WriteInOrder, WorkInOrder
<1>5. CASE ClientSend \/ ClientClose \/ EpollReady \/ EndBatch \/ BeginRead \/ Read \/ ReadError
           \/ ReadEof \/ ReadAgain \/ PickNone \/ WriteSome \/ WriteKilled \/ UNCHANGED vars
  BY <1>3, <1>5 DEF ClientSend, ClientClose, EpollReady, EndBatch, BeginRead, Read, ReadError,
         ReadEof, ReadAgain, PickNone, WriteSome, WriteKilled, vars, envVars, inVars, poolVars,
         outVars
<1> QED
  BY <1>4, <1>5 DEF Next, Loop

-----------------------------------------------------------------------------
(***************************************************************************)
(* Sequences without duplicates: putting one behind another, and taking    *)
(* the first.                                                              *)
(***************************************************************************)
LEMMA ConcatDistinct ==
  ASSUME NEW q \in Seq(Message), NEW r \in Seq(Message), Distinct(q), Distinct(r),
         Elements(q) \cap Elements(r) = {}
  PROVE  Distinct(q \o r)
<1> DEFINE a == q \o r
<1>1. /\ DOMAIN a = 1..(Len(q) + Len(r)) /\ DOMAIN q = 1..Len(q) /\ DOMAIN r = 1..Len(r)
      /\ Len(q) \in Nat /\ Len(r) \in Nat
  OBVIOUS
<1>2. \A i \in DOMAIN q : a[i] = q[i]
  BY <1>1
<1>3. \A i \in DOMAIN a : i \notin DOMAIN q => i - Len(q) \in DOMAIN r /\ a[i] = r[i - Len(q)]
  BY <1>1
<1>4. \A i, j \in DOMAIN a : i - Len(q) = j - Len(q) => i = j
  BY <1>1
<1> HIDE DEF a
<1>5. Distinct(a)
  <2> SUFFICES ASSUME NEW i \in DOMAIN a, NEW j \in DOMAIN a, a[i] = a[j] PROVE i = j
    BY DEF Distinct
  <2>1. CASE i \in DOMAIN q /\ j \in DOMAIN q
    BY <1>2, <2>1 DEF Distinct
  <2>2. CASE i \notin DOMAIN q /\ j \notin DOMAIN q
    <3> DEFINE k == i - Len(q)
               l == j - Len(q)
    <3>1. k \in DOMAIN r /\ l \in DOMAIN r /\ r[k] = r[l] /\ (k = l => i = j)
      BY <1>3, <1>4, <2>2
    <3> HIDE DEF k, l
    <3> QED
      BY <3>1 DEF Distinct
  <2>3. CASE ~(i \in DOMAIN q <=> j \in DOMAIN q)
    <3>1. \A k \in DOMAIN q, l \in DOMAIN r : q[k] # r[l]
      BY DEF Elements
    <3> QED
      BY <1>2, <1>3, <2>3, <3>1
  <2> QED
    BY <2>1, <2>2, <2>3
<1> QED
  BY <1>5 DEF a

LEMMA AppendDistinct ==
  ASSUME NEW q \in Seq(Message), NEW m \in Message, Distinct(q), m \notin Elements(q)
  PROVE  Distinct(Append(q, m))
<1> DEFINE r == <<m>>
<1>1. r \in Seq(Message) /\ Distinct(r) /\ Elements(r) = {m}
  BY DEF Distinct, Elements
<1>2. q \o r = Append(q, m)
  BY OneMore
<1> HIDE DEF r
<1>3. Distinct(q \o r)
  BY <1>1, ConcatDistinct
<1> QED
  BY <1>2, <1>3

LEMMA TailDistinct ==
  ASSUME NEW q \in Seq(Message), q # << >>
  PROVE  /\ Elements(q) = {Head(q)} \cup Elements(Tail(q))
         /\ Distinct(q) => Distinct(Tail(q)) /\ Head(q) \notin Elements(Tail(q))
<1> DEFINE t == Tail(q)
<1>1. DOMAIN t = 1..(Len(q) - 1) /\ DOMAIN q = 1..Len(q) /\ Len(q) \in Nat \ {0}
  OBVIOUS
<1>2. 1 \in DOMAIN q /\ q[1] = Head(q)
  BY <1>1
<1>3. \A i \in DOMAIN t : i + 1 \in DOMAIN q /\ t[i] = q[i + 1] /\ 1 # i + 1
  BY <1>1
<1>4. \A i \in DOMAIN q : i # 1 => i - 1 \in DOMAIN t /\ q[i] = t[i - 1]
  BY <1>1
<1>5. \A i, j \in DOMAIN t : i + 1 = j + 1 => i = j
  BY <1>1
<1> HIDE DEF t
<1>6. {q[i] : i \in DOMAIN q} = {Head(q)} \cup {t[i] : i \in DOMAIN t}
  BY <1>2, <1>3, <1>4
<1>7. ASSUME Distinct(q) PROVE Distinct(t) /\ Head(q) \notin Elements(t)
  BY <1>2, <1>3, <1>5, <1>7 DEF Distinct, Elements
<1> QED
  BY <1>6, <1>7 DEF t, Elements

-----------------------------------------------------------------------------
LEMMA InitPlaces == Init => PlaceInv /\ KeptInv
<1> SUFFICES ASSUME Init PROVE PlaceInv /\ KeptInv
  OBVIOUS
<1>1. outputBuffer = << >> /\ taskQueue = << >> /\ poolQueue = << >> /\ Elements(<< >>) = {}
      /\ Distinct(<< >>) /\ picked = 0 /\ disConnect = FALSE
  BY DEF Init, Elements, Distinct
<1>2. Sending = {} /\ Handling = {} /\ \A w \in Worker : workerPc[w] = "idle"
  BY DEF Init, Sending, Handling
<1>3. 1..0 = {}
  OBVIOUS
<1> QED
  BY <1>1, <1>2, <1>3 DEF PlaceInv, KeptInv, NoneTwice, NoneLost

\* A picked request is in no place yet, and goes to one.
LEMMA PickPlaces == IInv /\ PlaceInv /\ Pick => PlaceInv' /\ (NoneLost => NoneLost')
<1> SUFFICES ASSUME IInv, PlaceInv, Pick PROVE PlaceInv' /\ (NoneLost => NoneLost')
  OBVIOUS
<1> DEFINE m == picked + 1
<1>1. m \in Message /\ picked \in Nat /\ m \notin 1..picked
  <2>1. m \in Message
    BY PickedFits DEF IInv, Pick
  <2>2. picked \in Nat
    BY <2>1 DEF IInv, TypeOK
  <2> QED
    BY <2>1, <2>2
<1>2. picked' = m /\ client' = client /\ UNCHANGED <<working, workerPc, taskQueue, reached>>
  BY DEF Pick, HandleMessage, Output, poolVars, envVars, outVars
<1>3. Sending' = Sending /\ Handling' = Handling
  BY <1>2 DEF Sending, Handling
<1>4. 1..picked' = 1..picked \cup {m}
  BY <1>1, <1>2
<1>5. outputBuffer \in Seq(Message) /\ poolQueue \in Seq(Message)
  BY DEF IInv, TypeOK
<1>6. m \notin Elements(outputBuffer) \cup Elements(poolQueue) \cup Elements(taskQueue)
               \cup Handling \cup Sending
  <2>1. Sending \subseteq Handling
    BY DEF Sending, Handling
  <2> QED
    BY <1>1, <2>1 DEF PlaceInv
<1>7. CASE pool = {}
  <2>1. outputBuffer' = Append(outputBuffer, m) /\ poolQueue' = poolQueue
    BY <1>1, <1>5, <1>7, OneMore DEF Pick, HandleMessage, Output, poolVars
  <2>2. Elements(outputBuffer') = Elements(outputBuffer) \cup {m} /\ Distinct(outputBuffer')
    BY <1>1, <1>5, <1>6, <2>1, OneMore, AppendDistinct DEF PlaceInv, NoneTwice
  <2> HIDE DEF m
  <2>3. NoneTwice'
    BY <1>2, <1>3, <1>6, <2>1, <2>2 DEF PlaceInv, NoneTwice
  <2>4. NoneLost => NoneLost'
    BY <1>2, <1>3, <1>4, <2>1, <2>2 DEF PlaceInv, NoneLost
  <2> QED
    BY <1>2, <1>3, <1>4, <2>1, <2>2, <2>3, <2>4 DEF PlaceInv
<1>8. CASE pool # {}
  <2>1. poolQueue' = Append(poolQueue, m) /\ outputBuffer' = outputBuffer
    BY <1>8 DEF Pick, HandleMessage, outVars
  <2>2. Elements(poolQueue') = Elements(poolQueue) \cup {m} /\ Distinct(poolQueue')
    BY <1>1, <1>5, <1>6, <2>1, OneMore, AppendDistinct DEF PlaceInv, NoneTwice
  <2> HIDE DEF m
  <2>3. NoneTwice'
    BY <1>2, <1>3, <1>6, <2>1, <2>2 DEF PlaceInv, NoneTwice
  <2>4. NoneLost => NoneLost'
    BY <1>2, <1>3, <1>4, <2>1, <2>2 DEF PlaceInv, NoneLost
  <2> QED
    BY <1>2, <1>3, <1>4, <2>1, <2>2, <2>3, <2>4 DEF PlaceInv
<1> QED
  BY <1>7, <1>8

\* The output buffer is erased after a reset, or takes over all of the loop's queue.
LEMMA WritePlaces ==
  IInv /\ PlaceInv /\ (WriteError \/ HandleWakeup) => PlaceInv' /\ (NoneLost => NoneLost')
<1> SUFFICES ASSUME IInv, PlaceInv, WriteError \/ HandleWakeup
             PROVE  PlaceInv' /\ (NoneLost => NoneLost')
  OBVIOUS
<1>1. /\ UNCHANGED <<client, picked, poolQueue, working, workerPc, reached>>
      /\ Sending' = Sending /\ Handling' = Handling
  BY DEF WriteError, HandleWakeup, Output, envVars, inVars, poolVars, Sending, Handling
<1>2. CASE WriteError
  <2>1. /\ outputBuffer' = << >> /\ Elements(outputBuffer') = {} /\ Distinct(outputBuffer')
        /\ taskQueue' = taskQueue /\ client # "open"
    BY <1>2 DEF WriteError, Elements, Distinct, IInv, Channel
  <2>2. NoneTwice' /\ (NoneLost => NoneLost')
    BY <1>1, <2>1 DEF PlaceInv, NoneTwice, NoneLost
  <2> QED
    BY <1>1, <2>1, <2>2 DEF PlaceInv
<1>3. CASE HandleWakeup
  <2>1. outputBuffer' = outputBuffer \o taskQueue /\ taskQueue' = << >> /\ Distinct(taskQueue')
        /\ Elements(taskQueue') = {}
    BY <1>3 DEF HandleWakeup, Output, Elements, Distinct
  <2>2. Elements(outputBuffer') = Elements(outputBuffer) \cup Elements(taskQueue)
        /\ Distinct(outputBuffer')
    BY <2>1, ConcatInOrder, ConcatDistinct DEF PlaceInv, NoneTwice, IInv, TypeOK
  <2>3. NoneTwice' /\ (NoneLost => NoneLost')
    BY <1>1, <2>1, <2>2 DEF PlaceInv, NoneTwice, NoneLost
  <2> QED
    BY <1>1, <2>1, <2>2, <2>3 DEF PlaceInv
<1> QED
  BY <1>2, <1>3

\* What the workers have when one of them moves on.
LEMMA OneMoves ==
  ASSUME IInv, NEW w \in Worker,
         \A v \in Worker : v # w => workerPc'[v] = workerPc[v] /\ working'[v] = working[v]
  PROVE  /\ Handling' = {working[v] : v \in {u \in Worker : u # w /\ workerPc[u] # "idle"}}
                        \cup (IF workerPc'[w] # "idle" THEN {working'[w]} ELSE {})
         /\ Sending' = {working[v] : v \in {u \in Worker : u # w /\ workerPc[u] \in {"check", "send"}}}
                       \cup (IF workerPc'[w] \in {"check", "send"} THEN {working'[w]} ELSE {})
  BY DEF Handling, Sending

\* A worker moves its request from the pool's queue to the loop's, or drops it.
LEMMA WorkPlaces ==
  ASSUME IInv, PlaceInv, KeptInv, NEW w \in Worker, Work(w)
  PROVE  PlaceInv' /\ NoneLost'
<1> DEFINE others == {working[v] : v \in {u \in Worker : u # w /\ workerPc[u] # "idle"}}
           senders == {working[v] : v \in {u \in Worker : u # w /\ workerPc[u] \in {"check", "send"}}}
<1>1. /\ UNCHANGED <<outputBuffer, picked, client, reached>>
      /\ \A v \in Worker : v # w => workerPc'[v] = workerPc[v] /\ working'[v] = working[v]
  BY DEF Work, TakeTask, CheckStatus, QueueSend, EndTask, inVars, outVars, envVars, IInv, TypeOK
<1>2. /\ Handling' = others \cup (IF workerPc'[w] # "idle" THEN {working'[w]} ELSE {})
      /\ Sending' = senders \cup (IF workerPc'[w] \in {"check", "send"} THEN {working'[w]} ELSE {})
  BY <1>1, OneMoves
<1>3. /\ Handling = others \cup (IF workerPc[w] # "idle" THEN {working[w]} ELSE {})
      /\ Sending = senders \cup (IF workerPc[w] \in {"check", "send"} THEN {working[w]} ELSE {})
      /\ senders \subseteq others
  BY DEF Handling, Sending
<1>4. workerPc[w] # "idle" => working[w] \notin others
  BY DEF PlaceInv, NoneTwice
<1>5. taskQueue \in Seq(Message) /\ poolQueue \in Seq(Message)
  BY DEF IInv, TypeOK
<1>6. ASSUME workerPc'[w] # "idle" => working'[w] \notin others
      PROVE  \A u, v \in Worker :
               workerPc'[u] # "idle" /\ workerPc'[v] # "idle" /\ working'[u] = working'[v] => u = v
  BY <1>1, <1>6 DEF PlaceInv, NoneTwice
<1> HIDE DEF others, senders
<1>7. CASE TakeTask(w)
  <2>1. /\ poolQueue # << >> /\ poolQueue' = Tail(poolQueue) /\ taskQueue' = taskQueue
        /\ workerPc[w] = "idle" /\ workerPc'[w] = "check" /\ working'[w] = Head(poolQueue)
    BY <1>7 DEF TakeTask, IInv, TypeOK
  <2>2. /\ Elements(poolQueue) = {Head(poolQueue)} \cup Elements(poolQueue')
        /\ Distinct(poolQueue') /\ Head(poolQueue) \notin Elements(poolQueue')
    BY <1>5, <2>1, TailDistinct DEF PlaceInv, NoneTwice
  <2>3. /\ Handling' = Handling \cup {Head(poolQueue)} /\ Sending' = Sending \cup {Head(poolQueue)}
        /\ Handling = others
    BY <1>2, <1>3, <2>1
  <2>4. Head(poolQueue) \notin Handling
    BY <2>2 DEF PlaceInv, NoneTwice
  <2>5. NoneTwice'
    BY <1>1, <1>3, <1>6, <2>1, <2>2, <2>3, <2>4 DEF PlaceInv, NoneTwice
  <2>6. NoneLost'
    BY <1>1, <2>1, <2>2, <2>3 DEF PlaceInv, KeptInv, NoneLost
  <2> QED
    BY <1>1, <2>1, <2>2, <2>3, <2>5, <2>6 DEF PlaceInv
<1>8. CASE CheckStatus(w)
  <2>1. /\ UNCHANGED <<poolQueue, taskQueue, working>> /\ workerPc[w] = "check"
        /\ workerPc'[w] = IF disConnect THEN "end" ELSE "send"
    BY <1>8 DEF CheckStatus, IInv, TypeOK
  <2>2. Handling' = Handling /\ Sending' \subseteq Sending /\ (~disConnect => Sending' = Sending)
    BY <1>2, <1>3, <2>1
  <2>3. NoneTwice'
    BY <1>1, <1>4, <1>6, <2>1, <2>2 DEF PlaceInv, NoneTwice
  <2>4. NoneLost'
    BY <1>1, <2>1, <2>2 DEF PlaceInv, KeptInv, NoneLost
  <2> QED
    BY <1>1, <2>1, <2>2, <2>3, <2>4 DEF PlaceInv
<1>9. CASE QueueSend(w)
  <2>1. /\ taskQueue' = Append(taskQueue, working[w]) /\ UNCHANGED <<poolQueue, working>>
        /\ workerPc[w] = "send" /\ workerPc'[w] = "end" /\ working[w] \in Message
    BY <1>9 DEF QueueSend, IInv, TypeOK, Workers
  <2>2. Handling' = Handling /\ Sending' = senders /\ Sending = senders \cup {working[w]}
        /\ working[w] \in Handling
    BY <1>2, <1>3, <2>1
  <2>3. working[w] \notin senders
    BY <1>3, <1>4, <2>1
  <2>4. Elements(taskQueue') = Elements(taskQueue) \cup {working[w]} /\ Distinct(taskQueue')
    BY <1>5, <2>1, <2>2, OneMore, AppendDistinct DEF PlaceInv, NoneTwice
  <2>5. NoneTwice'
    BY <1>1, <1>4, <1>6, <2>1, <2>2, <2>3, <2>4 DEF PlaceInv, NoneTwice
  <2>6. NoneLost'
    BY <1>1, <2>1, <2>2, <2>4 DEF PlaceInv, KeptInv, NoneLost
  <2> QED
    BY <1>1, <2>1, <2>2, <2>4, <2>5, <2>6 DEF PlaceInv
<1>10. CASE EndTask(w)
  <2>1. /\ UNCHANGED <<poolQueue, taskQueue>>
        /\ workerPc[w] = "end" /\ workerPc'[w] = "idle"
    BY <1>10 DEF EndTask, IInv, TypeOK
  <2>2. Handling = Handling' \cup {working[w]} /\ Handling' = others /\ Sending' = Sending
    BY <1>2, <1>3, <2>1
  <2>3. working[w] \notin Handling' /\ working[w] \notin Elements(poolQueue)
    BY <1>4, <2>1, <2>2 DEF PlaceInv, NoneTwice
  <2>4. NoneTwice'
    BY <1>1, <1>6, <2>1, <2>2 DEF PlaceInv, NoneTwice
  <2>5. NoneLost'
    BY <1>1, <2>1, <2>2, <2>3 DEF PlaceInv, KeptInv, NoneLost
  <2> QED
    BY <1>1, <2>1, <2>2, <2>4, <2>5 DEF PlaceInv
<1> QED
  BY <1>7, <1>8, <1>9, <1>10 DEF Work

LEMMA NextPlaces == IInv /\ PlaceInv /\ KeptInv /\ [Next]_vars => PlaceInv' /\ KeptInv'
<1> SUFFICES ASSUME IInv, PlaceInv, KeptInv, [Next]_vars PROVE PlaceInv' /\ KeptInv'
  OBVIOUS
<1>1. (disConnect => client # "open")'
  <2>1. CASE ReadEof
    BY <2>1 DEF ReadEof, envVars
  <2>2. CASE ClientClose
    BY <2>2 DEF ClientClose
  <2>3. CASE Next /\ ~ReadEof /\ ~ClientClose
    <3>1. UNCHANGED <<client, disConnect>>
      BY <2>3 DEF Next, ClientSend, Loop, EpollReady, EndBatch, BeginRead, Read, ReadError,
         ReadAgain, Pick, PickNone, WriteSome, WriteError, WriteKilled, HandleWakeup,
         Work, TakeTask, CheckStatus, QueueSend, EndTask, envVars
    <3> QED
      BY <3>1 DEF KeptInv
  <2>4. CASE UNCHANGED vars
    BY <2>4 DEF vars, envVars, KeptInv
  <2> QED
    BY <2>1, <2>2, <2>3, <2>4
<1>2. ASSUME UNCHANGED <<outputBuffer, taskQueue, poolQueue, working, workerPc, picked>>,
             reached \subseteq reached', client' = "open" => client = "open"
      PROVE  PlaceInv' /\ NoneLost'
  <2>1. Sending' = Sending /\ Handling' = Handling
    BY <1>2 DEF Sending, Handling
  <2>2. NoneTwice' /\ NoneLost'
    BY <1>2, <2>1 DEF PlaceInv, KeptInv, NoneTwice, NoneLost
  <2> QED
    BY <1>2, <2>1, <2>2 DEF PlaceInv
<1>3. CASE Pick \/ WriteError \/ HandleWakeup \/ \E w \in Worker : Work(w)
  BY <1>1, <1>3, PickPlaces, WritePlaces, WorkPlaces DEF KeptInv
<1>4. CASE WriteSome
  BY <1>1, <1>2, <1>4 DEF WriteSome, envVars, inVars, poolVars, KeptInv
<1>5. CASE ClientSend \/ ClientClose \/ EpollReady \/ EndBatch \/ BeginRead \/ Read \/ ReadError
           \/ ReadEof \/ ReadAgain \/ PickNone \/ WriteKilled \/ UNCHANGED vars
  <2>1. UNCHANGED <<outputBuffer, taskQueue, poolQueue, working, workerPc, picked, reached>>
        /\ (client' = "open" => client = "open")
    BY <1>5 DEF ClientSend, ClientClose, EpollReady, EndBatch, BeginRead, Read, ReadError,
         ReadEof, ReadAgain, PickNone, WriteKilled, vars, envVars, inVars, poolVars, outVars
  <2> QED
    BY <1>1, <1>2, <2>1 DEF KeptInv
<1> QED
  BY <1>3, <1>4, <1>5 DEF Next, Loop

LEMMA Places == Spec => [](IInv /\ PlaceInv /\ KeptInv)
  BY InitIInv, NextIInv, InitPlaces, NextPlaces, PTL DEF Spec

-----------------------------------------------------------------------------
LEMMA PickedHaveArrived ==
  ASSUME TypeOK PROVE picked * MessageCells \in Nat /\ picked * MessageCells <= nread
<1> DEFINE d == MessageCells
           q == nread \div d
<1>1. d \in Nat \ {0} /\ nread \in Nat
  BY ConnectionAssumption DEF TypeOK
<1>2. q \in Nat /\ q * d <= nread
  BY <1>1
<1>3. picked \in Nat /\ picked <= q
  BY <1>2 DEF TypeOK
<1> HIDE DEF d, q
<1>4. picked * d <= q * d /\ picked * d \in Nat /\ q * d \in Nat
  BY <1>1, <1>2, <1>3
<1> QED
  BY <1>1, <1>2, <1>4 DEF d

\* send() of all there is leaves nothing that did not reach the socket.
LEMMA AllOfIt == ASSUME NEW q \in Seq(Message) PROVE SubSeq(q, 1, Len(q)) = q
  OBVIOUS

LEMMA InitAnnounced == Init => Announced
  BY DEF Init, Announced, NoReplyUnannounced, Elements

\* Steps that take nothing from what announces a reply, and queue none.
LEMMA AnnouncedKept ==
  ASSUME Announced,
         UNCHANGED <<outputBuffer, writing, picked, nread, poolQueue, taskQueue>>,
         reached \subseteq reached', Sending \subseteq Sending',
         client' = "open" =>
           /\ client = "open" /\ sent <= sent' /\ sent \in Nat /\ sent' \in Nat /\ nread \in Nat
           /\ edge => edge'
           /\ "out" \in rev => "out" \in rev'
           /\ "in" \in rev' => "in" \in rev
           /\ loopPc = "read" <=> loopPc' = "read"
  PROVE  Announced'
<1>1. sent \in Nat /\ sent' \in Nat /\ nread \in Nat /\ sent <= sent' /\ nread < sent => nread < sent'
  OBVIOUS
<1> QED
  BY <1>1 DEF Announced, NoReplyUnannounced

LEMMA ClientAnnounced ==
  IInv /\ KeptInv /\ Announced /\ (ClientSend \/ ClientClose) => Announced'
<1> SUFFICES ASSUME IInv, KeptInv, Announced, ClientSend \/ ClientClose PROVE Announced'
  OBVIOUS
<1>1. sent \in Nat /\ nread \in Nat
  BY ConnectionAssumption DEF IInv, TypeOK
<1>2. CASE ClientSend
  <2>1. client = "open" /\ edge' = TRUE /\ sent' = sent + 1
    BY <1>2 DEF ClientSend, IInv, Channel, KeptInv
  <2>2. UNCHANGED <<outputBuffer, writing, inVars, poolVars, taskQueue, reached, client, rev, loopPc>>
        /\ Sending' = Sending
    BY <1>2 DEF ClientSend, outVars, poolVars, Sending
  <2> QED
    BY <1>1, <2>1, <2>2, AnnouncedKept DEF inVars, poolVars
<1>3. CASE ClientClose
  BY <1>3 DEF ClientClose, outVars, Announced, NoReplyUnannounced
<1> QED
  BY <1>2, <1>3

\* epoll_wait() takes the edge and reports EPOLLOUT for it, and reading drops
\* EPOLLOUT for bytes that are a request, or part of one.
LEMMA ReadAnnounced ==
  IInv /\ KeptInv /\ Announced
    /\ (EpollReady \/ BeginRead \/ Read \/ ReadError \/ ReadEof \/ ReadAgain) => Announced'
<1> SUFFICES ASSUME IInv, KeptInv, Announced,
                    EpollReady \/ BeginRead \/ Read \/ ReadError \/ ReadEof \/ ReadAgain
             PROVE  Announced'
  OBVIOUS
<1> USE DEF inVars, poolVars, outVars, envVars
<1>1. PICK u \in Nat : u = picked * MessageCells /\ u <= nread
  BY PickedHaveArrived DEF IInv
<1>2. nread \in Nat /\ sent \in Nat
  BY ConnectionAssumption DEF IInv, TypeOK
<1>3. CASE EpollReady
  <2>1. UNCHANGED <<outputBuffer, reached, writing, picked, nread, sent, client, poolQueue, taskQueue>>
        /\ Sending' = Sending /\ loopPc' = "dispatch" /\ rev' = Events /\ loopPc = "wait" /\ rev = {}
    BY <1>3 DEF EpollReady, Sending, IInv, Channel
  <2>2. client = "open" /\ "in" \in Events => nread < sent
    BY DEF Events, Readable
  <2>3. client = "open" /\ edge /\ outputBuffer # << >> => "out" \in Events
    BY DEF Events, IInv, Channel, KeptInv, Announced
  <2>4. Elements(<< >>) = {}
    BY DEF Elements
  <2> QED
    BY <2>1, <2>2, <2>3, <2>4 DEF Announced, NoReplyUnannounced
<1>4. CASE BeginRead
  <2>1. UNCHANGED <<outputBuffer, writing, picked, nread, sent, client>>
        /\ loopPc' = "read" /\ rev' = {} /\ "in" \in rev
    BY <1>4 DEF BeginRead, HandleEvent
  <2> QED
    BY <2>1 DEF Announced, NoReplyUnannounced
<1>5. CASE Read
  <2>1. UNCHANGED <<outputBuffer, writing, picked, client, rev>> /\ nread' \in (nread + 1)..sent
        /\ rev = {}
    BY <1>5 DEF Read, IInv, Channel
  <2>2. picked' * MessageCells < nread'
    BY <1>1, <1>2, <2>1
  <2> QED
    BY <2>1, <2>2 DEF Announced, NoReplyUnannounced
<1>6. CASE ReadError \/ ReadEof
  <2>1. client' # "open" /\ UNCHANGED <<outputBuffer, writing>>
    BY <1>6 DEF ReadError, ReadEof, IInv, Channel
  <2> QED
    BY <2>1 DEF Announced, NoReplyUnannounced
<1>7. CASE ReadAgain
  <2>1. /\ UNCHANGED <<outputBuffer, writing, picked, nread, client, rev>> /\ rev = {}
        /\ loopPc = "read" /\ loopPc' = "pick" /\ nread = sent /\ client = "open"
    BY <1>7 DEF ReadAgain, IInv, Channel
  <2>2. picked' * MessageCells < nread'
    BY <1>2, <2>1 DEF Announced
  <2> QED
    BY <2>1, <2>2 DEF Announced, NoReplyUnannounced
<1> QED
  BY <1>3, <1>4, <1>5, <1>6, <1>7

\* A request that is picked arms the channel with its reply, or will.
LEMMA PickAnnounced ==
  IInv /\ KeptInv /\ Announced /\ (Pick \/ PickNone \/ EndBatch \/ WriteKilled) => Announced'
<1> SUFFICES ASSUME IInv, KeptInv, Announced, Pick \/ PickNone \/ EndBatch \/ WriteKilled
             PROVE  Announced'
  OBVIOUS
<1> USE DEF inVars, poolVars, outVars, envVars
<1>1. CASE Pick
  <2>1. UNCHANGED <<client, loopPc, rev>> /\ loopPc = "pick" /\ rev = {}
    BY <1>1 DEF Pick, IInv, Channel
  <2>2. \/ edge' = TRUE /\ writing' = TRUE
        \/ poolQueue' # << >> /\ UNCHANGED <<outputBuffer, writing>>
    <3>1. \A q \in Seq(Message) : \A m \in Message : Append(q, m) # << >>
      <4> SUFFICES ASSUME NEW q \in Seq(Message), NEW m \in Message
                   PROVE  Append(q, m) # << >>
        OBVIOUS
      <4>1. Len(Append(q, m)) = Len(q) + 1 /\ Len(q) \in Nat
        BY AppendProperties
      <4>2. Len(Append(q, m)) # 0
        BY <4>1
      <4> QED
        BY <4>2, EmptySeq, Zenon
    <3>2. picked + 1 \in Message /\ poolQueue \in Seq(Message)
      BY <1>1, PickedFits DEF IInv, Pick, TypeOK
    <3> QED
      BY <1>1, <3>1, <3>2 DEF Pick, HandleMessage, Output, EnableWriting, UpdateChannel
  <2> QED
    BY <2>1, <2>2 DEF Announced, NoReplyUnannounced
<1>2. CASE PickNone \/ EndBatch
  <2>1. UNCHANGED <<outputBuffer, writing, picked, nread, poolQueue, taskQueue, reached, client,
                    sent, edge, rev>> /\ Sending' = Sending
        /\ loopPc # "read" /\ loopPc' # "read"
    BY <1>2 DEF PickNone, EndBatch, Sending
  <2> QED
    BY <2>1 DEF Announced, NoReplyUnannounced
<1>3. CASE WriteKilled
  BY <1>3 DEF WriteKilled, HandleEvent, Announced, NoReplyUnannounced
<1> QED
  BY <1>1, <1>2, <1>3

LEMMA WriteAnnounced ==
  IInv /\ KeptInv /\ Announced /\ (WriteSome \/ WriteError \/ HandleWakeup) => Announced'
<1> SUFFICES ASSUME IInv, KeptInv, Announced, WriteSome \/ WriteError \/ HandleWakeup
             PROVE  Announced'
  OBVIOUS
<1> USE DEF inVars, poolVars, envVars
<1>1. CASE WriteSome
  <2>1. PICK n \in Nat :
          /\ n = IF Len(outputBuffer) < Room THEN Len(outputBuffer) ELSE Room
          /\ reached' = reached \cup Elements(SubSeq(outputBuffer, 1, n))
          /\ edge' = (edge \/ n < Len(outputBuffer))
    BY <1>1, ConnectionAssumption, LenProperties DEF WriteSome, IInv, TypeOK
  <2>2. n <= Len(outputBuffer) /\ Len(outputBuffer) \in Nat
    BY <2>1, ConnectionAssumption, LenProperties DEF IInv, TypeOK
  <2>3. /\ UNCHANGED <<outputBuffer, writing, picked, nread, sent, client, loopPc>>
        /\ loopPc = "dispatch" /\ rev' = {}
    BY <1>1 DEF WriteSome, HandleEvent
  <2>4. CASE n < Len(outputBuffer)
    BY <2>1, <2>3, <2>4 DEF Announced, NoReplyUnannounced
  <2>5. CASE n = Len(outputBuffer)
    <3>1. Elements(outputBuffer') \subseteq reached'
      BY <2>1, <2>3, <2>5, AllOfIt DEF IInv, TypeOK
    <3> QED
      BY <2>3, <3>1 DEF Announced, NoReplyUnannounced
  <2> QED
    BY <2>2, <2>4, <2>5
<1>2. CASE WriteError
  BY <1>2 DEF WriteError, IInv, Channel, Announced, NoReplyUnannounced
<1>3. CASE HandleWakeup
  <2>1. edge' = TRUE /\ writing' = TRUE
        /\ UNCHANGED <<picked, nread, sent, client, loopPc, rev>> /\ loopPc = "dispatch"
    BY <1>3 DEF HandleWakeup, Output, EnableWriting, UpdateChannel
  <2> QED
    BY <2>1 DEF Announced, NoReplyUnannounced
<1> QED
  BY <1>1, <1>2, <1>3

\* While the client is there a worker hands its request on and drops none.
LEMMA WorkAnnounced ==
  ASSUME IInv, KeptInv, Announced, NEW w \in Worker, Work(w) PROVE Announced'
<1>1. UNCHANGED <<outputBuffer, reached, writing, picked, nread, sent, client, edge, rev, loopPc>>
  BY DEF Work, TakeTask, CheckStatus, QueueSend, EndTask, envVars, inVars, outVars
<1>2. client = "open" /\ (poolQueue # << >> \/ Sending # {} \/ taskQueue # << >>)
        => poolQueue' # << >> \/ Sending' # {} \/ taskQueue' # << >>
  <2>1. \A v \in Worker : workerPc[v] \in {"check", "send"} => Sending # {}
    BY DEF Sending
  <2>2. \A v \in Worker : workerPc'[v] \in {"check", "send"} => Sending' # {}
    BY DEF Sending
  <2>3. Sending # {} => \E v \in Worker : workerPc[v] \in {"check", "send"}
    BY DEF Sending
  <2>4. CASE TakeTask(w)
    <3>1. workerPc'[w] = "check"
      BY <2>4 DEF TakeTask, IInv, TypeOK
    <3> QED
      BY <2>2, <3>1
  <2>5. CASE CheckStatus(w)
    <3>1. UNCHANGED <<poolQueue, taskQueue>>
          /\ workerPc' = [workerPc EXCEPT ![w] = IF disConnect THEN "end" ELSE "send"]
      BY <2>5 DEF CheckStatus
    <3>2. client = "open" => \A v \in Worker :
            workerPc[v] \in {"check", "send"} => workerPc'[v] \in {"check", "send"}
      BY <3>1 DEF KeptInv, IInv, TypeOK
    <3> QED
      BY <2>2, <2>3, <3>1, <3>2
  <2>6. CASE QueueSend(w)
    <3>1. taskQueue' = Append(taskQueue, working[w]) /\ taskQueue \in Seq(Message)
          /\ working[w] \in Message
      BY <2>6 DEF QueueSend, IInv, TypeOK, Workers
    <3>2. taskQueue' # << >>
      BY <3>1
    <3> QED
      BY <3>2
  <2>7. CASE EndTask(w)
    <3>1. UNCHANGED <<poolQueue, taskQueue>> /\ workerPc[w] = "end"
          /\ workerPc' = [workerPc EXCEPT ![w] = "idle"]
      BY <2>7 DEF EndTask
    <3>2. \A v \in Worker : workerPc[v] \in {"check", "send"} => workerPc'[v] \in {"check", "send"}
      BY <3>1 DEF IInv, TypeOK
    <3> QED
      BY <2>2, <2>3, <3>1, <3>2
  <2> QED
    BY <2>4, <2>5, <2>6, <2>7 DEF Work
<1> QED
  BY <1>1, <1>2 DEF Announced, NoReplyUnannounced

LEMMA NextAnnounced == IInv /\ KeptInv /\ Announced /\ [Next]_vars => Announced'
<1> SUFFICES ASSUME IInv, KeptInv, Announced, [Next]_vars PROVE Announced'
  OBVIOUS
<1>1. CASE UNCHANGED vars
  <2>1. Sending' = Sending
    BY <1>1 DEF vars, poolVars, Sending
  <2> QED
    BY <1>1, <2>1 DEF vars, envVars, inVars, poolVars, outVars, Announced, NoReplyUnannounced
<1>2. CASE Next
  BY <1>2, ClientAnnounced, ReadAnnounced, PickAnnounced, WriteAnnounced, WorkAnnounced
     DEF Next, Loop
<1> QED
  BY <1>1, <1>2

-----------------------------------------------------------------------------
(***************************************************************************)
(* Every variable keeps to its type: pickMessage() never returns more      *)
(* requests than have been read, nor read() more than was sent.            *)
(***************************************************************************)
THEOREM TypeCorrect == Spec => []TypeOK
<1>1. IInv => TypeOK
  BY DEF IInv
<1> QED
  BY <1>1, Invariance, PTL

(***************************************************************************)
(* Unread bytes never wait without an event to come: the read loop, the    *)
(* re-arming by EPOLL_CTL_MOD and the edge of epoll leave no gap, at any   *)
(* interleaving of the client, the IO thread and the workers.              *)
(***************************************************************************)
THEOREM NoLostEdge == Spec => []NothingUnnoticed
<1>1. IInv => NothingUnnoticed
  BY DEF IInv
<1> QED
  BY <1>1, Invariance, PTL

(***************************************************************************)
(* SIGPIPE meets the server only after a FIN: handleEvent() looking at     *)
(* EPOLLIN first keeps it from sending on a connection reset in one step.  *)
(***************************************************************************)
THEOREM ResetSurvived == Spec => []ResetIsSurvived
<1>1. IInv => ResetIsSurvived
  BY DEF IInv
<1> QED
  BY <1>1, Invariance, PTL

\* A pool of one at the most has no two members.
LEMMA FewWorkers == TypeOK /\ Cardinality(pool) <= 1 => OneAtMost
<1> SUFFICES ASSUME TypeOK, Cardinality(pool) <= 1, NEW v \in pool, NEW w \in pool, v # w
             PROVE  FALSE
  BY DEF OneAtMost
<1>1. IsFiniteSet(pool)
  BY ConnectionAssumption, FS_Subset DEF TypeOK
<1>2. Cardinality({v, w}) = 2
  <2>1. Cardinality({v}) = 1 /\ IsFiniteSet({v})
    BY FS_Singleton
  <2>2. {v, w} = {v} \cup {w} /\ w \notin {v}
    OBVIOUS
  <2> QED
    BY <2>1, <2>2, FS_AddElement
<1>3. Cardinality({v, w}) <= Cardinality(pool)
  BY <1>1, FS_Subset
<1> QED
  BY <1>1, <1>2, <1>3, FS_CardinalityType

(***************************************************************************)
(* Replies are queued in the order of the requests with one worker, or     *)
(* none: no queue on the way overtakes another.                            *)
(***************************************************************************)
THEOREM OrderKept == Spec => []RepliesInOrder
<1>1. IInv /\ OrderInv => RepliesInOrder
  BY FewWorkers DEF IInv, OrderInv, InOrder, Increasing, RepliesInOrder
<1> QED
  BY <1>1, Invariance, InitOrder, NextOrder, PTL DEF Spec

(***************************************************************************)
(* However many workers there are, no request is handled twice and no      *)
(* reply queued twice.                                                     *)
(***************************************************************************)
THEOREM HandledOnce == Spec => []NoneTwice
<1>1. PlaceInv => NoneTwice
  BY DEF PlaceInv
<1> QED
  BY <1>1, Places, PTL

(***************************************************************************)
(* And none is dropped on the way to the output buffer while the client is *)
(* there: disConnect_ is never set before the client has ended its stream, *)
(* and a send() fails only on a reset connection.                          *)
(***************************************************************************)
THEOREM NothingDropped == Spec => []NoneLost
<1>1. KeptInv => NoneLost
  BY DEF KeptInv
<1> QED
  BY <1>1, Places, PTL

(***************************************************************************)
(* A reply that has not been handed to the socket has an event, or another *)
(* request in hand that will arm the channel, unless half a request is all *)
(* that came with its EPOLLOUT.                                            *)
(***************************************************************************)
THEOREM ReplyAnnounced == Spec => []NoReplyUnannounced
<1>1. Announced => NoReplyUnannounced
  BY DEF Announced
<1> QED
  BY <1>1, Places, InitAnnounced, NextAnnounced, PTL DEF Spec
=============================================================================
