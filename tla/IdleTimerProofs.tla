-------------------------- MODULE IdleTimerProofs --------------------------
(***************************************************************************)
(* Proofs about IdleTimer for any number of connections, any timeouts, any *)
(* fineness of the ticks, any delay of the loop and any setting of the     *)
(* clock.                                                                  *)
(***************************************************************************)
EXTENDS IdleTimer, FiniteSetTheorems, TLAPS

\* The clock was not set between a request and its lastTime_, or once since.
ClockRead ==
  \A c \in Conn : status[c] # "new" => (lastTime[c] = heard[c] \/ lastTime[c] - heard[c] = offset)

\* The loop gets to timerfd_ within Delay.
OnTime == now <= armed + Delay

(***************************************************************************)
(* When the round that removes c can at the latest begin: each round that  *)
(* finds c timed out and leaves it in has put another connection out.      *)
(***************************************************************************)
SetBack == IF offset < 0 THEN Skew ELSE 0
Deadline(c) == heard[c] + PerSecond * (Timeout + 1) + SetBack
Out == {c \in Conn : status[c] = "out"}
NextRound ==
  \A c \in Held : armed < Deadline(c) + PerSecond * Interval + Cardinality(Out) * Round

IInv == TypeOK /\ ClockRead /\ OnTime /\ NextRound

-----------------------------------------------------------------------------
\* What the products of the constants are.
LEMMA Products ==
  /\ PerSecond * Interval \in Nat /\ PerSecond * Timeout \in Nat /\ Round \in Nat
  /\ PerSecond * (Timeout + 1) = PerSecond * Timeout + PerSecond
  /\ PerSecond * (IF Timeout < Interval THEN Interval ELSE Timeout)
       = IF Timeout < Interval THEN PerSecond * Interval ELSE PerSecond * Timeout
  /\ Timeout < Interval => PerSecond * Timeout < PerSecond * Interval
  /\ Interval <= Timeout => PerSecond * Interval <= PerSecond * Timeout
<1> USE IdleTimerAssumption
<1>1. PerSecond * Interval \in Nat /\ PerSecond * Timeout \in Nat
  OBVIOUS
<1>2. PerSecond * (Timeout + 1) = PerSecond * Timeout + PerSecond
  OBVIOUS
<1>3. Timeout < Interval => PerSecond * Timeout < PerSecond * Interval
  OBVIOUS
<1>4. Interval <= Timeout => PerSecond * Interval <= PerSecond * Timeout
  OBVIOUS
<1> QED
  BY <1>1, <1>2, <1>3, <1>4 DEF Round

LEMMA RoundsAdd ==
  ASSUME NEW k \in Nat, NEW n \in Nat, k < n
  PROVE  k * Round \in Nat /\ (k + 1) * Round = k * Round + Round /\ k * Round + Round <= n * Round
<1>1. Round \in Nat
  BY Products
<1> HIDE DEF Round
<1>2. k * Round \in Nat /\ (k + 1) * Round = k * Round + Round
  BY <1>1
<1>3. (k + 1) * Round <= n * Round
  BY <1>1
<1> QED
  BY <1>2, <1>3

(***************************************************************************)
(* timeout() compares times cut to seconds: what that says of the ticks.   *)
(***************************************************************************)
LEMMA CutSeconds ==
  ASSUME NEW w \in Nat, NEW t \in Nat
  PROVE  /\ ToInt(w) - ToInt(t) > Timeout => w - t > PerSecond * Timeout
         /\ ~(ToInt(w) - ToInt(t) > Timeout) => w - t < PerSecond * (Timeout + 1)
<1> DEFINE p == PerSecond
           qw == w \div p
           qt == t \div p
<1>1. p \in Nat \ {0} /\ Timeout \in Nat
  BY IdleTimerAssumption
<1>2. /\ qw \in Nat /\ p * qw <= w /\ w < p * qw + p
      /\ qt \in Nat /\ p * qt <= t /\ t < p * qt + p
  BY <1>1
<1> HIDE DEF p, qw, qt
<1>3. ASSUME qw - qt > Timeout PROVE w - t > p * Timeout
  <2>1. qw >= qt + Timeout + 1
    BY <1>1, <1>2, <1>3
  <2>2. p * qw >= p * (qt + Timeout + 1)
    BY <1>1, <1>2, <2>1
  <2>3. p * (qt + Timeout + 1) = p * qt + p * Timeout + p
    BY <1>1, <1>2
  <2>4. p * qw \in Nat /\ p * qt \in Nat /\ p * Timeout \in Nat
    BY <1>1, <1>2
  <2> QED
    BY <1>1, <1>2, <2>2, <2>3, <2>4
<1>4. ASSUME ~(qw - qt > Timeout) PROVE w - t < p * (Timeout + 1)
  <2>1. qw <= qt + Timeout
    BY <1>1, <1>2, <1>4
  <2>2. p * qw <= p * (qt + Timeout)
    BY <1>1, <1>2, <2>1
  <2>3. p * (qt + Timeout) = p * qt + p * Timeout /\ p * (Timeout + 1) = p * Timeout + p
    BY <1>1, <1>2
  <2>4. p * qw \in Nat /\ p * qt \in Nat /\ p * Timeout \in Nat
    BY <1>1, <1>2
  <2> QED
    BY <1>1, <1>2, <2>2, <2>3, <2>4
<1> QED
  BY <1>3, <1>4 DEF p, qw, qt, ToInt

LEMMA ClockFacts ==
  ASSUME TypeOK
  PROVE  /\ now \in Nat /\ offset \in Int /\ armed \in Nat /\ Wall \in Nat /\ SetBack \in Nat
         /\ Skew \in Nat /\ Delay \in Nat
         /\ \A c \in Conn : heard[c] \in Nat /\ heard[c] <= now /\ lastTime[c] \in Nat
         /\ \A c \in Conn : Deadline(c) = heard[c] + PerSecond * (Timeout + 1) + SetBack
  BY IdleTimerAssumption DEF TypeOK, Start, Wall, SetBack, Deadline

\* What handletimer() knows of a connection it finds timed out, and of one it does not.
LEMMA TimedOutMeans ==
  ASSUME IInv, NEW c \in Held
  PROVE  /\ TimedOut(c) => now - heard[c] > PerSecond * Timeout - Skew * (IF offset > 0 THEN 1 ELSE 0)
         /\ ~TimedOut(c) => now < Deadline(c)
<1>1. c \in Conn /\ (lastTime[c] = heard[c] \/ lastTime[c] - heard[c] = offset)
  BY DEF Held, IInv, ClockRead
<1>2. /\ TimedOut(c) => Wall - lastTime[c] > PerSecond * Timeout
      /\ ~TimedOut(c) => Wall - lastTime[c] < PerSecond * (Timeout + 1)
  BY <1>1, ClockFacts, CutSeconds DEF IInv, TimedOut
<1>3. offset \in {-Skew, 0, Skew} /\ Wall = now + offset
  BY DEF IInv, TypeOK, Wall
<1>4. Skew * (IF offset > 0 THEN 1 ELSE 0) = IF offset > 0 THEN Skew ELSE 0
  BY ClockFacts DEF IInv
<1>5. ASSUME TimedOut(c)
      PROVE  now - heard[c] > PerSecond * Timeout - (IF offset > 0 THEN Skew ELSE 0)
  BY <1>1, <1>2, <1>3, <1>5, ClockFacts, Products DEF IInv
<1>6. ASSUME ~TimedOut(c) PROVE now < Deadline(c)
  <2>1. Wall - lastTime[c] < PerSecond * Timeout + PerSecond
    BY <1>2, <1>6, Products
  <2>2. now - heard[c] < PerSecond * Timeout + PerSecond + SetBack
    BY <1>1, <1>3, <2>1, ClockFacts, Products, IdleTimerAssumption DEF IInv, SetBack
  <2>3. Deadline(c) = heard[c] + (PerSecond * Timeout + PerSecond) + SetBack
    BY Products DEF Deadline
  <2> QED
    BY <1>1, <2>2, <2>3, ClockFacts, Products, IdleTimerAssumption DEF IInv
<1> QED
  BY <1>4, <1>5, <1>6

LEMMA OutIsFinite == IsFiniteSet(Out) /\ Cardinality(Out) \in Nat
<1>1. Out \subseteq Conn
  BY DEF Out
<1> QED
  BY <1>1, IdleTimerAssumption, FS_Subset, FS_CardinalityType

-----------------------------------------------------------------------------
LEMMA InitIInv == Init => IInv
<1> SUFFICES ASSUME Init PROVE IInv
  OBVIOUS
<1> USE DEF Init
<1>1. TypeOK
  BY IdleTimerAssumption, Products DEF TypeOK, Start
<1>2. ClockRead /\ OnTime /\ NextRound
  BY IdleTimerAssumption, Products DEF ClockRead, OnTime, NextRound, Held, Start
<1> QED
  BY <1>1, <1>2 DEF IInv

LEMMA TickStep == IInv /\ (Tick \/ SetClock) => IInv'
<1> SUFFICES ASSUME IInv, Tick \/ SetClock PROVE IInv'
  OBVIOUS
<1>1. TypeOK'
  <2>1. now' \in Start..(Start + MaxTime) /\ now <= now' /\ UNCHANGED <<armed, status, lastTime, heard>>
        /\ offset' \in {-Skew, 0, Skew}
    BY IdleTimerAssumption DEF IInv, TypeOK, Tick, SetClock, Start
  <2>2. heard' \in [Conn -> 0..now']
    BY <2>1, ClockFacts, IdleTimerAssumption DEF IInv, TypeOK, Start
  <2>3. armed' - now' <= PerSecond * (IF Timeout < Interval THEN Interval ELSE Timeout)
    <3> DEFINE longest == PerSecond * (IF Timeout < Interval THEN Interval ELSE Timeout)
    <3>1. longest \in Nat /\ armed - now <= longest /\ armed \in Nat /\ now \in Nat /\ now' \in Nat
          /\ now <= now'
      BY <2>1, Products, ClockFacts, IdleTimerAssumption DEF IInv, TypeOK, Start
    <3> HIDE DEF longest
    <3>2. \A later \in Nat : now <= later => armed - later <= longest
      BY <3>1
    <3> QED
      BY <2>1, <3>1, <3>2 DEF longest
  <2> QED
    BY <2>1, <2>2, <2>3 DEF IInv, TypeOK
<1>2. ClockRead'
  BY ClockFacts DEF IInv, ClockRead, Tick, SetClock
<1>3. OnTime'
  BY ClockFacts DEF IInv, OnTime, Tick, SetClock
<1>4. NextRound'
  <2>1. UNCHANGED <<armed, status, heard>> /\ SetBack \in Nat /\ SetBack' \in Nat /\ SetBack <= SetBack'
    BY IdleTimerAssumption DEF Tick, SetClock, SetBack
  <2>2. \A c \in Conn : Deadline(c) \in Int /\ Deadline(c)' \in Int /\ Deadline(c) <= Deadline(c)'
    BY <2>1, ClockFacts, Products, IdleTimerAssumption DEF IInv, Deadline
  <2>3. Out' = Out /\ Held' = Held /\ Cardinality(Out) * Round \in Nat
    BY <2>1, OutIsFinite, Products DEF Out, Held
  <2> QED
    BY <2>1, <2>2, <2>3, Products, ClockFacts DEF IInv, NextRound, Held
<1> QED
  BY <1>1, <1>2, <1>3, <1>4 DEF IInv

LEMMA HearsStep ==
  ASSUME IInv, NEW c \in Conn, NewConnection(c) \/ OnMessage(c) PROVE IInv'
<1>1. /\ UNCHANGED <<now, offset, armed>>
      /\ lastTime' = [lastTime EXCEPT ![c] = Wall] /\ heard' = [heard EXCEPT ![c] = now]
      /\ status' \in [Conn -> {"new", "in", "out"}] /\ status'[c] = "in"
      /\ \A d \in Conn : d # c => status'[d] = status[d]
      /\ status[c] # "out"
  BY DEF IInv, TypeOK, NewConnection, OnMessage, Hears, Held
<1>2. TypeOK'
  BY <1>1, ClockFacts DEF IInv, TypeOK
<1>3. ClockRead'
  BY <1>1, ClockFacts DEF IInv, TypeOK, ClockRead, Wall
<1>4. OnTime'
  BY <1>1 DEF IInv, OnTime
<1>5. NextRound'
  <2>1. Out' = Out /\ SetBack' = SetBack
    BY <1>1 DEF Out, SetBack
  <2>2. SUFFICES ASSUME NEW d \in Held'
                 PROVE  armed < Deadline(d)' + PerSecond * Interval + Cardinality(Out) * Round
    BY <1>1, <2>1 DEF NextRound
  <2>3. d \in Conn /\ Cardinality(Out) * Round \in Nat
    BY OutIsFinite, Products DEF Held
  <2>4. CASE d = c
    <3>1. Deadline(d)' = now + (PerSecond * Timeout + PerSecond) + SetBack
      <4>1. heard'[d] = now
        BY <1>1, <2>4 DEF IInv, TypeOK
      <4>2. Deadline(d)' = heard'[d] + PerSecond * (Timeout + 1) + SetBack'
        BY DEF Deadline
      <4> QED
        BY <2>1, <4>1, <4>2, Products
    <3>2. armed - now <= PerSecond * Interval \/ armed - now <= PerSecond * Timeout
      BY Products DEF IInv, TypeOK
    <3> QED
      BY <2>3, <3>1, <3>2, ClockFacts, Products, IdleTimerAssumption DEF IInv
  <2>5. CASE d # c
    <3>1. Deadline(d)' = Deadline(d) /\ d \in Held
      BY <1>1, <2>1, <2>3, <2>5 DEF IInv, TypeOK, Deadline, Held
    <3> QED
      BY <3>1 DEF IInv, NextRound
  <2> QED
    BY <2>4, <2>5
<1> QED
  BY <1>2, <1>3, <1>4, <1>5 DEF IInv

(***************************************************************************)
(* A round: who stays in is not timed out, or somebody else went out.      *)
(***************************************************************************)
LEMMA HandleTimerStep == IInv /\ HandleTimer => IInv'
<1> SUFFICES ASSUME IInv, HandleTimer PROVE IInv'
  OBVIOUS
<1>1. PICK gone \in SUBSET {c \in Held : TimedOut(c)} :
        /\ (\E c \in Held : TimedOut(c)) => gone # {}
        /\ status' = [c \in Conn |-> IF c \in gone THEN "out" ELSE status[c]]
  BY DEF HandleTimer
<1>2. now >= armed /\ armed' = now + PerSecond * Interval /\ UNCHANGED <<now, offset, lastTime, heard>>
  BY DEF HandleTimer
<1>3. TypeOK'
  <2>1. armed' \in Nat /\ armed' - now' <= PerSecond * (IF Timeout < Interval THEN Interval ELSE Timeout)
    BY <1>2, ClockFacts, Products, IdleTimerAssumption DEF IInv
  <2> QED
    BY <1>1, <1>2, <2>1 DEF IInv, TypeOK
<1>4. ClockRead'
  BY <1>1, <1>2 DEF IInv, ClockRead, Held
<1>5. OnTime'
  BY <1>2, ClockFacts, Products DEF IInv, OnTime
<1>6. NextRound'
  <2>1. SetBack' = SetBack /\ \A c \in Conn : Deadline(c)' = Deadline(c)
    BY <1>2 DEF SetBack, Deadline
  <2>2. Out' = Out \cup gone /\ Held' = Held \ gone /\ gone \subseteq Held /\ Out \cap Held = {}
    BY <1>1 DEF IInv, TypeOK, Out, Held
  <2>3. IsFiniteSet(Out) /\ Cardinality(Out) \in Nat /\ IsFiniteSet(Out') /\ Cardinality(Out') \in Nat
    <3>1. Out' \subseteq Conn
      BY DEF Out
    <3> QED
      BY <3>1, OutIsFinite, IdleTimerAssumption, FS_Subset, FS_CardinalityType
  <2>4. Cardinality(Out) <= Cardinality(Out') /\ (gone # {} => Cardinality(Out) < Cardinality(Out'))
    <3>1. Out \subseteq Out' /\ (gone # {} => Out # Out')
      BY <2>2
    <3> QED
      BY <2>3, <3>1, FS_Subset
  <2>5. Cardinality(Out') * Round \in Nat /\ Cardinality(Out) * Round \in Nat
    BY <2>3, Products
  <2> SUFFICES ASSUME NEW c \in Held'
               PROVE  armed' < Deadline(c) + PerSecond * Interval + Cardinality(Out') * Round
    BY <2>1 DEF NextRound, Held
  <2>6. c \in Held /\ c \in Conn
    BY <2>2 DEF Held
  <2>7. Deadline(c) \in Int
    BY <2>6, ClockFacts, Products, IdleTimerAssumption DEF IInv
  <2>8. CASE ~TimedOut(c)
    BY <1>2, <2>5, <2>6, <2>7, <2>8, TimedOutMeans, ClockFacts, Products DEF IInv
  <2>9. CASE TimedOut(c)
    <3>1. Cardinality(Out) < Cardinality(Out')
      BY <1>1, <2>4, <2>6, <2>9
    <3>2. Cardinality(Out) * Round + Round <= Cardinality(Out') * Round
      BY <2>3, <3>1, RoundsAdd
    <3>3. now < Deadline(c) + PerSecond * Interval + Cardinality(Out) * Round + Delay
      BY <2>5, <2>6, <2>7, ClockFacts, Products DEF IInv, NextRound, OnTime
    <3> QED
      BY <1>2, <2>5, <2>7, <3>2, <3>3, ClockFacts, Products DEF IInv, Round
  <2> QED
    BY <2>8, <2>9
<1> QED
  BY <1>3, <1>4, <1>5, <1>6 DEF IInv

LEMMA NextIInv == IInv /\ [Next]_vars => IInv'
<1> SUFFICES ASSUME IInv, [Next]_vars PROVE IInv'
  OBVIOUS
<1>1. CASE Next
  BY <1>1, TickStep, HearsStep, HandleTimerStep DEF Next
<1>2. CASE UNCHANGED vars
  BY <1>2 DEF vars, IInv, TypeOK, ClockRead, OnTime, NextRound, Deadline, SetBack, Out, Held
<1> QED
  BY <1>1, <1>2

THEOREM Invariance == Spec => []IInv
  BY InitIInv, NextIInv, PTL DEF Spec

-----------------------------------------------------------------------------
\* Every variable keeps to its type; wall-clock times stay positive.
THEOREM TypeCorrect == Spec => []TypeOK
<1>1. IInv => TypeOK
  BY DEF IInv
<1> QED
  BY <1>1, Invariance, PTL

(***************************************************************************)
(* A silent connection goes within the time that GoneInTime names, for any *)
(* number of connections that cut each other's round short.                *)
(***************************************************************************)
THEOREM LeavesInTime == Spec => []GoneInTime
<1>1. ASSUME IInv PROVE GoneInTime
  <2> SUFFICES ASSUME NEW c \in Held
               PROVE  now - heard[c] < PerSecond * (Timeout + 1) + Cardinality(Conn) * Round + SetBack
    BY DEF GoneInTime, SetBack
  <2>1. Out \subseteq Conn /\ c \in Conn /\ c \notin Out
    BY DEF Out, Held
  <2>2. Cardinality(Out) \in Nat /\ Cardinality(Conn) \in Nat /\ Cardinality(Out) < Cardinality(Conn)
    BY <2>1, IdleTimerAssumption, FS_Subset, FS_CardinalityType
  <2>3. Cardinality(Out) * Round \in Nat /\ Cardinality(Out) * Round + Round <= Cardinality(Conn) * Round
        /\ Cardinality(Conn) * Round \in Nat
    BY <2>2, RoundsAdd, Products
  <2>4. now < Deadline(c) + PerSecond * Interval + Cardinality(Out) * Round + Delay
    BY <1>1, <2>1, <2>3, ClockFacts, Products, IdleTimerAssumption DEF IInv, NextRound, OnTime
  <2> QED
    BY <1>1, <2>1, <2>3, <2>4, ClockFacts, Products, IdleTimerAssumption DEF IInv, Round
<1> QED
  BY <1>1, Invariance, PTL

(***************************************************************************)
(* No round removes a connection before its time, whatever timeout() cuts  *)
(* off and however the clock is set.                                       *)
(***************************************************************************)
THEOREM StaysItsTime == Spec => NeverEarly
<1> DEFINE Step ==
      \A c \in Held \ Held' : now - heard[c] > PerSecond * Timeout - Skew * (IF offset > 0 THEN 1 ELSE 0)
<1>1. ASSUME IInv, [Next]_vars PROVE [Step]_vars
  <2>1. ASSUME NEW c \in Held \ Held' PROVE TimedOut(c)
    BY <1>1, <2>1 DEF IInv, TypeOK, Next, Tick, SetClock, NewConnection, OnMessage, HandleTimer, vars, Held
  <2> QED
    BY <1>1, <2>1, TimedOutMeans
<1> QED
  BY <1>1, Invariance, PTL DEF Spec, NeverEarly
=============================================================================
