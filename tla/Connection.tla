----------------------------- MODULE Connection -----------------------------
(***************************************************************************)
(* The data path of one connection: the client's byte stream, the edge-    *)
(* triggered events of its socket, the read loop and the splitting of the  *)
(* stream into requests, OnMessage() on the worker threads, sendInloop()   *)
(* and the output buffer, and what reaches the client.                     *)
(*                                                                         *)
(* The stream is counted in cells, MessageCells of them to a request: a    *)
(* client may write, and read() may return, a request in pieces.  Requests *)
(* are numbered and a reply carries its request's number (Buffer's framing *)
(* of bytes is not repeated here).                                         *)
(***************************************************************************)
EXTENDS Naturals, Sequences, FiniteSets

CONSTANTS
  Worker,        \* threads of EchoServer's pool, if it has any
  MessageCells,  \* cells of a request
  MaxMessage,    \* bound: requests the client may send
  Room           \* replies the socket takes in one send()

ASSUME ConnectionAssumption ==
  /\ MessageCells \in Nat \ {0} /\ MaxMessage \in Nat /\ Room \in Nat \ {0}
  /\ IsFiniteSet(Worker)

VARIABLES
  pool,          \* threads_ of that pool; with none of them the IO thread answers
  client,        \* "open", "closed" (FIN), or "reset" (RST)
  sockErr,       \* error the socket has to report: none, ECONNRESET, or EPIPE after a FIN
  sent,          \* cells the client has written
  nread,         \* cells moved to inputBuffer_
  picked,        \* requests pickMessage() has returned
  registered,    \* the channel is in the epoll set
  writing,       \* EPOLLOUT is among events_
  edge,          \* something became ready since epoll_wait() last reported
  disConnect,    \* disConnect_
  loopPc,        \* where the IO thread is
  rev,           \* revents_ of the event being dispatched
  wake,          \* wakeChannel_ is in this batch too
  poolQueue,     \* requests waiting for a worker
  working,       \* the request each worker is busy with, 0 for none
  workerPc,      \* where each worker is in OnMessage()
  taskQueue,     \* queued sendInloop(data), by request
  outputBuffer,  \* outputBuffer_, a sequence of replies
  reached        \* history: replies handed to the socket

envVars == <<pool, client, sent>>       \* what the server never changes
inVars == <<nread, picked>>
poolVars == <<poolQueue, working, workerPc>>
outVars == <<outputBuffer, reached>>
vars == <<envVars, sockErr, inVars, registered, writing, edge, disConnect,
          loopPc, rev, wake, poolVars, taskQueue, outVars>>

Message == 1..MaxMessage
Elements(s) == {s[i] : i \in DOMAIN s}
Distinct(s) == \A i, j \in DOMAIN s : s[i] = s[j] => i = j

\* The requests the workers have, and those they have still to answer.
Handling == {working[w] : w \in {v \in Worker : workerPc[v] # "idle"}}
Sending == {working[w] : w \in {v \in Worker : workerPc[v] \in {"check", "send"}}}

TypeOK ==
  /\ pool \subseteq Worker
  /\ client \in {"open", "closed", "reset"} /\ sockErr \in {"none", "reset", "pipe"}
  /\ sent \in 0..(MaxMessage * MessageCells) /\ nread \in 0..sent
  /\ picked \in 0..(nread \div MessageCells)
  /\ registered \in BOOLEAN /\ writing \in BOOLEAN /\ edge \in BOOLEAN
  /\ disConnect \in BOOLEAN /\ wake \in BOOLEAN
  /\ loopPc \in {"wait", "dispatch", "read", "pick", "killed"} /\ rev \subseteq {"in", "out"}
  /\ poolQueue \in Seq(Message) /\ taskQueue \in Seq(Message)
  /\ working \in [Worker -> Message \cup {0}]
  /\ workerPc \in [Worker -> {"idle", "check", "send", "end"}]
  /\ outputBuffer \in Seq(Message) /\ reached \subseteq Message

Init ==
  /\ pool \in SUBSET Worker
  /\ client = "open" /\ sockErr = "none" /\ sent = 0 /\ nread = 0 /\ picked = 0
  /\ registered = TRUE /\ writing = FALSE /\ edge = FALSE /\ disConnect = FALSE
  /\ loopPc = "wait" /\ rev = {} /\ wake = FALSE
  /\ poolQueue = << >> /\ taskQueue = << >>
  /\ working = [w \in Worker |-> 0] /\ workerPc = [w \in Worker |-> "idle"]
  /\ outputBuffer = << >> /\ reached = {}

-----------------------------------------------------------------------------
\* The client

ClientSend ==
  /\ client = "open" /\ sent < MaxMessage * MessageCells
  /\ sent' = sent + 1 /\ edge' = registered
  /\ UNCHANGED <<pool, client, sockErr, inVars, registered, writing, disConnect, loopPc,
                 rev, wake, poolVars, taskQueue, outVars>>

\* A client that has closed answers a reply it gets then with RST.
ClientClose ==
  /\ \/ client = "open" /\ client' = "closed" /\ sockErr' = sockErr
     \/ client = "open" /\ client' = "reset" /\ sockErr' = "reset"
     \/ client = "closed" /\ reached # {} /\ client' = "reset" /\ sockErr' = "pipe"
  /\ edge' = registered
  /\ UNCHANGED <<pool, sent, inVars, registered, writing, disConnect, loopPc, rev, wake,
                 poolVars, taskQueue, outVars>>

-----------------------------------------------------------------------------
\* The channel

\* EPOLL_CTL_MOD arms the channel again, EPOLL_CTL_ADD adds it if it was removed.
UpdateChannel == registered' = TRUE /\ edge' = TRUE

RemoveChannel == registered' = FALSE /\ edge' = FALSE

EnableWriting == writing' = TRUE /\ UpdateChannel
DisableWriting == writing' = FALSE /\ UpdateChannel

-----------------------------------------------------------------------------
\* The IO thread

Readable == nread < sent \/ client # "open"

\* What epoll_wait() reports for the channel.  The socket has room to write.
Events == IF ~edge \/ ~registered THEN {}
          ELSE {e \in {"in", "out"} : IF e = "in" THEN Readable ELSE writing}

EpollReady ==
  /\ loopPc = "wait"
  /\ rev' = Events /\ wake' = (taskQueue # << >>)
  /\ rev' # {} \/ wake'
  /\ edge' = FALSE /\ loopPc' = "dispatch"
  /\ UNCHANGED <<envVars, sockErr, inVars, registered, writing, disConnect,
                 poolVars, taskQueue, outVars>>

EndBatch ==
  /\ loopPc = "dispatch" /\ rev = {} /\ ~wake
  /\ loopPc' = "wait"
  /\ UNCHANGED <<envVars, sockErr, inVars, registered, writing, edge, disConnect,
                 rev, wake, poolVars, taskQueue, outVars>>

\* EPOLLOUT looked at first.
HandleEvent_OutFirst(e) ==
  loopPc = "dispatch" /\ e \in rev /\ (e = "in" => "out" \notin rev)

\* handleEvent(): EPOLLIN goes first, and EPOLLOUT beside it is not looked at.
HandleEvent(e) ==
  loopPc = "dispatch" /\ e \in rev /\ (e = "out" => "in" \notin rev)

BeginRead ==
  /\ HandleEvent("in")
  /\ rev' = {} /\ loopPc' = "read"
  /\ UNCHANGED <<envVars, sockErr, inVars, registered, writing, edge, disConnect,
                 wake, poolVars, taskQueue, outVars>>

\* "if" where the code says "while (true)": one read() per event.
Read_Once ==
  /\ loopPc = "read" /\ nread < sent
  /\ nread' \in (nread + 1)..sent /\ loopPc' = "pick"
  /\ UNCHANGED <<envVars, sockErr, picked, registered, writing, edge, disConnect,
                 rev, wake, poolVars, taskQueue, outVars>>

\* read() > 0: append() and read again.
Read ==
  /\ loopPc = "read" /\ nread < sent
  /\ nread' \in (nread + 1)..sent
  /\ UNCHANGED <<envVars, sockErr, picked, registered, writing, edge, disConnect,
                 loopPc, rev, wake, poolVars, taskQueue, outVars>>

\* read() = -1, ECONNRESET: no branch of the code takes it, so it reads again.
ReadError ==
  /\ loopPc = "read" /\ nread = sent /\ sockErr = "reset"
  /\ sockErr' = "none"
  /\ UNCHANGED <<envVars, inVars, registered, writing, edge, disConnect, loopPc,
                 rev, wake, poolVars, taskQueue, outVars>>

\* read() = 0, also after FIN and RST: closeCallback().
ReadEof ==
  /\ loopPc = "read" /\ nread = sent /\ client # "open" /\ sockErr # "reset"
  /\ disConnect' = TRUE /\ RemoveChannel
  /\ loopPc' = "dispatch"
  /\ UNCHANGED <<envVars, sockErr, inVars, writing, rev, wake, poolVars,
                 taskQueue, outVars>>

\* read() = -1, EAGAIN: split what has arrived.
ReadAgain ==
  /\ loopPc = "read" /\ nread = sent /\ client = "open"
  /\ loopPc' = "pick"
  /\ UNCHANGED <<envVars, sockErr, inVars, registered, writing, edge, disConnect,
                 rev, wake, poolVars, taskQueue, outVars>>

\* enableWriting() that skips epoll_ctl() when EPOLLOUT is set already.
Output_OnlyFirst(replies) ==
  /\ outputBuffer' = outputBuffer \o replies
  /\ registered' = TRUE /\ writing' = TRUE /\ edge' = (edge \/ ~writing)
  /\ UNCHANGED reached

\* appendSep() and enableWriting()
Output(replies) ==
  /\ outputBuffer' = outputBuffer \o replies /\ EnableWriting
  /\ UNCHANGED reached

\* HandleMessage(): the IO thread answers at once, or the pool gets the task
\* with a copy of the request.
HandleMessage(m) ==
  IF pool = {}
  THEN Output(<<m>>) /\ UNCHANGED <<poolVars, taskQueue>>
  ELSE /\ poolQueue' = Append(poolQueue, m)
       /\ UNCHANGED <<working, workerPc, taskQueue, registered, writing, edge, outVars>>

\* pickMessage() that returns what there is of a request.
Pick_Partial ==
  /\ loopPc = "pick" /\ picked * MessageCells < nread
  /\ picked' = picked + 1
  /\ HandleMessage(picked + 1)
  /\ UNCHANGED <<envVars, sockErr, nread, disConnect, loopPc, rev, wake>>

\* "if (pickMessage())" where the code loops.
Pick_Once ==
  /\ loopPc = "pick" /\ (picked + 1) * MessageCells <= nread
  /\ picked' = picked + 1 /\ loopPc' = "dispatch"
  /\ HandleMessage(picked + 1)
  /\ UNCHANGED <<envVars, sockErr, nread, disConnect, rev, wake>>

\* pickMessage() has a whole request.
Pick ==
  /\ loopPc = "pick" /\ (picked + 1) * MessageCells <= nread
  /\ picked' = picked + 1
  /\ HandleMessage(picked + 1)
  /\ UNCHANGED <<envVars, sockErr, nread, disConnect, loopPc, rev, wake>>

PickNone ==
  /\ loopPc = "pick" /\ (picked + 1) * MessageCells > nread
  /\ loopPc' = "dispatch"
  /\ UNCHANGED <<envVars, sockErr, inVars, registered, writing, edge, disConnect,
                 rev, wake, poolVars, taskQueue, outVars>>

\* writeCallback() that erases all of the buffer after any send().
WriteSome_Erases ==
  /\ HandleEvent("out") /\ client # "reset" /\ outputBuffer # << >>
  /\ rev' = {} /\ outputBuffer' = << >>
  /\ LET n == IF Len(outputBuffer) < Room THEN Len(outputBuffer) ELSE Room
     IN /\ reached' = reached \cup Elements(SubSeq(outputBuffer, 1, n))
        /\ edge' = (edge \/ n < Len(outputBuffer))
  /\ UNCHANGED <<envVars, sockErr, inVars, registered, writing, disConnect, loopPc, wake,
                 poolVars, taskQueue>>

\* writeCallback(): send() takes what it has room for, and the buffer is kept.
WriteSome ==
  /\ HandleEvent("out") /\ client # "reset" /\ outputBuffer # << >>
  /\ rev' = {}
  /\ LET n == IF Len(outputBuffer) < Room THEN Len(outputBuffer) ELSE Room
     IN /\ reached' = reached \cup Elements(SubSeq(outputBuffer, 1, n))
        /\ edge' = (edge \/ n < Len(outputBuffer))   \* once there is room again
  /\ UNCHANGED <<envVars, sockErr, inVars, registered, writing, disConnect, loopPc, wake,
                 poolVars, taskQueue, outputBuffer>>

\* send() = -1, ECONNRESET: the buffer is erased, and an empty one ends writing.
WriteError ==
  /\ HandleEvent("out") /\ sockErr = "reset"
  /\ rev' = {} /\ sockErr' = "none"
  /\ outputBuffer' = << >> /\ DisableWriting
  /\ UNCHANGED <<envVars, inVars, disConnect, loopPc, wake, poolVars, taskQueue,
                 reached>>

\* send() on a reset socket whose error is EPIPE, or was reported before:
\* SIGPIPE, which the program leaves at its default, ends the process.
WriteKilled ==
  /\ HandleEvent("out") /\ client = "reset" /\ sockErr # "reset"
  /\ loopPc' = "killed" /\ rev' = {}
  /\ UNCHANGED <<envVars, sockErr, inVars, registered, writing, edge, disConnect, wake,
                 poolVars, taskQueue, outVars>>

\* handlewakeup(): sendInloop() for each queued call.
HandleWakeup ==
  /\ loopPc = "dispatch" /\ wake
  /\ wake' = FALSE /\ taskQueue' = << >>
  /\ Output(taskQueue)
  /\ UNCHANGED <<envVars, sockErr, inVars, disConnect, loopPc, rev, poolVars>>

-----------------------------------------------------------------------------
\* A worker: OnMessage(), then the end of the task and of its copy.

\* The newest task first.
TakeTask_Newest(w) ==
  /\ w \in pool /\ workerPc[w] = "idle" /\ poolQueue # << >>
  /\ working' = [working EXCEPT ![w] = poolQueue[Len(poolQueue)]]
  /\ poolQueue' = SubSeq(poolQueue, 1, Len(poolQueue) - 1)
  /\ workerPc' = [workerPc EXCEPT ![w] = "check"]
  /\ UNCHANGED <<envVars, sockErr, inVars, registered, writing, edge, disConnect,
                 loopPc, rev, wake, taskQueue, outVars>>

\* front() without pop().
TakeTask_NoPop(w) ==
  /\ w \in pool /\ workerPc[w] = "idle" /\ poolQueue # << >>
  /\ working' = [working EXCEPT ![w] = Head(poolQueue)]
  /\ workerPc' = [workerPc EXCEPT ![w] = "check"]
  /\ UNCHANGED <<envVars, sockErr, inVars, registered, writing, edge, disConnect,
                 loopPc, rev, wake, poolQueue, taskQueue, outVars>>

TakeTask(w) ==
  /\ w \in pool /\ workerPc[w] = "idle" /\ poolQueue # << >>
  /\ working' = [working EXCEPT ![w] = Head(poolQueue)]
  /\ poolQueue' = Tail(poolQueue)
  /\ workerPc' = [workerPc EXCEPT ![w] = "check"]
  /\ UNCHANGED <<envVars, sockErr, inVars, registered, writing, edge, disConnect,
                 loopPc, rev, wake, taskQueue, outVars>>

CheckStatus(w) ==
  /\ workerPc[w] = "check"
  /\ workerPc' = [workerPc EXCEPT ![w] = IF disConnect THEN "end" ELSE "send"]
  /\ UNCHANGED <<envVars, sockErr, inVars, registered, writing, edge, disConnect,
                 loopPc, rev, wake, poolQueue, working, taskQueue, outVars>>

QueueSend(w) ==
  /\ workerPc[w] = "send"
  /\ taskQueue' = Append(taskQueue, working[w])
  /\ workerPc' = [workerPc EXCEPT ![w] = "end"]
  /\ UNCHANGED <<envVars, sockErr, inVars, registered, writing, edge, disConnect,
                 loopPc, rev, wake, poolQueue, working, outVars>>

EndTask(w) ==
  /\ workerPc[w] = "end"
  /\ working' = [working EXCEPT ![w] = 0]
  /\ workerPc' = [workerPc EXCEPT ![w] = "idle"]
  /\ UNCHANGED <<envVars, sockErr, inVars, registered, writing, edge, disConnect,
                 loopPc, rev, wake, poolQueue, taskQueue, outVars>>

-----------------------------------------------------------------------------
Loop == \/ EpollReady \/ EndBatch \/ BeginRead \/ Read \/ ReadError \/ ReadEof
        \/ ReadAgain \/ Pick \/ PickNone \/ WriteSome \/ WriteError \/ WriteKilled
        \/ HandleWakeup
Work(w) == TakeTask(w) \/ CheckStatus(w) \/ QueueSend(w) \/ EndTask(w)

Next == ClientSend \/ ClientClose \/ Loop \/ \E w \in Worker : Work(w)

\* The server's threads keep running; the client owes nothing.
Spec ==
  Init /\ [][Next]_vars /\ WF_vars(Loop) /\ \A w \in Worker : WF_vars(Work(w))

-----------------------------------------------------------------------------
(***************************************************************************)
(* The socket is edge triggered: bytes the read loop left behind would     *)
(* never be announced again.  Whatever the client writes while the loop    *)
(* runs, unread bytes have an event to come, an event in this batch, or a  *)
(* read loop that has still to see EAGAIN.                                 *)
(***************************************************************************)
NothingUnnoticed ==
  (nread < sent /\ ~disConnect) => (edge \/ "in" \in rev \/ loopPc = "read")

\* However the stream is cut, each request is handled once it has arrived
\* whole, as long as the client does not disconnect.
EveryRequestHandled ==
  \A m \in Message :
    sent >= m * MessageCells ~> (picked >= m \/ client # "open")

(***************************************************************************)
(* Each request that was handled is answered, as long as the client does   *)
(* not disconnect: its reply gets to the socket, or it waits for ever in   *)
(* one of two ways the code has.  Half a request that is never completed   *)
(* arrived with its EPOLLOUT, and only the read callback ran; or the       *)
(* buffer, which is not erased by what was sent, has grown beyond what one *)
(* send() takes, and its head is sent again and again.                     *)
(***************************************************************************)
Unanswerable == sent % MessageCells # 0 \/ Len(outputBuffer) > Room

EveryReplySent ==
  \A m \in Message :
    picked >= m ~> (m \in reached \/ client # "open" \/ []Unanswerable)

(***************************************************************************)
(* EPOLLOUT is edge triggered too, and dropped when EPOLLIN comes with it. *)
(* While a reply has not been handed to the socket it has an event to      *)
(* come, one in this batch, or a request in hand whose reply will arm the  *)
(* channel again; only half a request, for all that is known of the rest   *)
(* of it, may leave the reply unannounced.                                 *)
(***************************************************************************)
NoReplyUnannounced ==
  (client = "open" /\ ~(Elements(outputBuffer) \subseteq reached)) =>
    \/ edge \/ "out" \in rev \/ loopPc = "read"
    \/ picked * MessageCells < nread
    \/ poolQueue # << >> \/ Sending # {} \/ taskQueue # << >>

(***************************************************************************)
(* With one worker, or none, replies are queued in the order of their      *)
(* requests, through the pool's queue, the loop's and the output buffer.   *)
(* Replies carry no number: with more workers a client cannot tell them    *)
(* apart.                                                                  *)
(***************************************************************************)
RepliesInOrder ==
  Cardinality(pool) <= 1 =>
    \A i, j \in DOMAIN outputBuffer : i < j => outputBuffer[i] < outputBuffer[j]

(***************************************************************************)
(* A client that resets its connection does not end the server: a second   *)
(* send() on it never comes, because EPOLLIN is dispatched before EPOLLOUT *)
(* and the read loop meets the end.  What is left is a FIN and the RST to  *)
(* an earlier reply, both between epoll_wait() and the send().             *)
(***************************************************************************)
ResetIsSurvived == loopPc = "killed" => sockErr = "pipe"

(***************************************************************************)
(* With any number of workers a request is in one place at a time, between *)
(* pickMessage() and the output buffer: no two threads handle it, and its  *)
(* reply is queued once.                                                   *)
(***************************************************************************)
NoneTwice ==
  /\ Distinct(poolQueue) /\ Distinct(taskQueue) /\ Distinct(outputBuffer)
  /\ \A v, w \in Worker :
       workerPc[v] # "idle" /\ workerPc[w] # "idle" /\ working[v] = working[w] => v = w
  /\ Elements(poolQueue) \cap (Handling \cup Elements(taskQueue) \cup Elements(outputBuffer)) = {}
  /\ Sending \cap (Elements(taskQueue) \cup Elements(outputBuffer)) = {}
  /\ Elements(taskQueue) \cap Elements(outputBuffer) = {}

(***************************************************************************)
(* And until the client disconnects it is in some place: what the checks   *)
(* of disConnect_ and the erasing of the output buffer drop, nobody waits  *)
(* for any more.                                                           *)
(***************************************************************************)
NoneLost ==
  client = "open" =>
    1..picked \subseteq Elements(poolQueue) \cup Sending \cup Elements(taskQueue)
                       \cup Elements(outputBuffer) \cup reached

-----------------------------------------------------------------------------
\* The requests of which a task in the pool, or a worker, has its copy.
Copied == Elements(poolQueue) \cup Handling

(***************************************************************************)
(* "Send the data" (OnMessage()): what sendInloop() copies to the output   *)
(* buffer is the request.  data points into the copy that the worker's     *)
(* task holds, so that copy must still be there.                           *)
(***************************************************************************)
DataOutlivesSend ==
  [][loopPc = "dispatch" /\ wake /\ ~wake' => Elements(taskQueue) \subseteq Copied]_vars
=============================================================================
