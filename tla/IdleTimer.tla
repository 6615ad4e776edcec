------------------------------ MODULE IdleTimer ------------------------------
(***************************************************************************)
(* When a subloop removes an idle connection: timerfd_ counts monotonic    *)
(* time and is rearmed by each handletimer(), lastTime_ and time(0) are    *)
(* the wall clock in whole seconds, and the clock may be set.              *)
(*                                                                         *)
(* Time is counted in ticks, PerSecond of them to a second.  A connection  *)
(* whose client has left is one that stays silent (TcpServer).             *)
(***************************************************************************)
EXTENDS Integers, FiniteSets

CONSTANTS
  Conn,          \* connections that come to the subloop, each once
  PerSecond,     \* ticks to a second
  Timeout,       \* timeout_, in seconds
  Interval,      \* timetvl_, in seconds
  Delay,         \* ticks the loop may take to get to an expired timerfd_
  Skew,          \* bound: ticks by which the wall clock is set
  MaxTime        \* bound: ticks that are looked at

ASSUME IdleTimerAssumption ==
  /\ PerSecond \in Nat \ {0} /\ Timeout \in Nat /\ Interval \in Nat \ {0}
  /\ Delay \in Nat /\ Skew \in Nat /\ MaxTime \in Nat /\ IsFiniteSet(Conn)

VARIABLES
  now,           \* monotonic time
  offset,        \* the wall clock is now + offset
  armed,         \* when timerfd_ expires
  status,        \* of each connection: not yet "in" conns_, in it, or "out" again
  lastTime,      \* lastTime_
  heard          \* history: when a whole request last came, in monotonic time

vars == <<now, offset, armed, status, lastTime, heard>>

\* Wall-clock times start late enough to be positive when the clock is set back.
Start == Skew
Wall == now + offset
ToInt(t) == t \div PerSecond
Held == {c \in Conn : status[c] = "in"}

TypeOK ==
  /\ now \in Start..(Start + MaxTime) /\ offset \in {-Skew, 0, Skew}
  /\ armed \in Nat /\ armed - now <= PerSecond * (IF Timeout < Interval THEN Interval ELSE Timeout)
  /\ status \in [Conn -> {"new", "in", "out"}]
  /\ lastTime \in [Conn -> Nat] /\ heard \in [Conn -> 0..now]

\* createtimerfd() with its default of 30 seconds.
Init_Default ==
  /\ now = Start /\ offset = 0
  /\ armed = Start + PerSecond * 30
  /\ status = [c \in Conn |-> "new"]
  /\ lastTime = [c \in Conn |-> 0] /\ heard = [c \in Conn |-> 0]

\* createtimerfd(timeout_), though each later round takes timetvl_.
Init ==
  /\ now = Start /\ offset = 0
  /\ armed = Start + PerSecond * Timeout
  /\ status = [c \in Conn |-> "new"]
  /\ lastTime = [c \in Conn |-> 0] /\ heard = [c \in Conn |-> 0]

-----------------------------------------------------------------------------
Tick ==
  /\ now < Start + MaxTime /\ now < armed + Delay
  /\ now' = now + 1
  /\ UNCHANGED <<offset, armed, status, lastTime, heard>>

\* Somebody sets the clock, once.
SetClock ==
  /\ offset = 0 /\ offset' \in {-Skew, Skew}
  /\ UNCHANGED <<now, armed, status, lastTime, heard>>

Hears(c) ==
  /\ lastTime' = [lastTime EXCEPT ![c] = Wall] /\ heard' = [heard EXCEPT ![c] = now]
  /\ UNCHANGED <<now, offset, armed>>

\* lastTime_ is the time of construction; EventLoop::newconnection().
NewConnection(c) ==
  /\ status[c] = "new" /\ status' = [status EXCEPT ![c] = "in"]
  /\ Hears(c)

\* onmessageCallback() picks a whole request.
OnMessage(c) == c \in Held /\ Hears(c) /\ UNCHANGED status

\* timeout() with ">=".
TimedOut_Early(c) == ToInt(Wall) - ToInt(lastTime[c]) >= Timeout

\* Connection::timeout(now, timeout_)
TimedOut(c) == ToInt(Wall) - ToInt(lastTime[c]) > Timeout

\* Armed for timeout_, as the constructor does, and not for timetvl_.
HandleTimer_AsAtFirst ==
  /\ now >= armed /\ armed' = now + PerSecond * Timeout
  /\ \E gone \in SUBSET {c \in Held : TimedOut(c)} :
       /\ (\E c \in Held : TimedOut(c)) => gone # {}
       /\ status' = [c \in Conn |-> IF c \in gone THEN "out" ELSE status[c]]
  /\ UNCHANGED <<now, offset, lastTime, heard>>

\* handletimer(): rearms and walks conns_.  Erasing a node under the iterator
\* may cut the walk short, so that of several only one is sure to go.
HandleTimer ==
  /\ now >= armed /\ armed' = now + PerSecond * Interval
  /\ \E gone \in SUBSET {c \in Held : TimedOut(c)} :
       /\ (\E c \in Held : TimedOut(c)) => gone # {}
       /\ status' = [c \in Conn |-> IF c \in gone THEN "out" ELSE status[c]]
  /\ UNCHANGED <<now, offset, lastTime, heard>>

Next == Tick \/ SetClock \/ HandleTimer \/ \E c \in Conn : NewConnection(c) \/ OnMessage(c)

Spec == Init /\ [][Next]_vars

-----------------------------------------------------------------------------
(***************************************************************************)
(* timeout(): no connection is removed that was heard of in the last       *)
(* timeout_ seconds, cut seconds notwithstanding; the setting of the wall  *)
(* clock can shorten that by as much as it was set, and no more.           *)
(***************************************************************************)
NeverEarly ==
  [][\A c \in Held \ Held' : now - heard[c] > PerSecond * Timeout - Skew * (IF offset > 0 THEN 1 ELSE 0)]_vars

(***************************************************************************)
(* A silent connection, and so the fd of a client that left, is gone after *)
(* timeout_, the rest of a second and one round, plus one round for each   *)
(* other connection that timed out with it and cut the walk short, plus    *)
(* what the clock was set back.                                            *)
(***************************************************************************)
Round == PerSecond * Interval + Delay
GoneInTime ==
  \A c \in Held :
    now - heard[c] < PerSecond * (Timeout + 1) + Cardinality(Conn) * Round
                       + (IF offset < 0 THEN Skew ELSE 0)
=============================================================================
