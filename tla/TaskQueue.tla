------------------------------ MODULE TaskQueue ------------------------------
(***************************************************************************)
(* What a caller of the library may rely on when it hands a               *)
(* std::function over, whichever queue takes it: tasks leave the queue one *)
(* at a time, in the order they were handed over, none is lost or taken    *)
(* twice, and as long as nobody asks for a stop every waiting task is      *)
(* taken in the end.  EventLoop and ThreadPool both implement it.          *)
(***************************************************************************)
EXTENDS Sequences

CONSTANT Task          \* the callbacks

VARIABLES
  pending,             \* handed over, not yet taken, oldest first
  taken,               \* taken for execution, in that order
  closed               \* somebody asked for a stop

vars == <<pending, taken, closed>>

Init ==
  /\ pending = << >>
  /\ taken = << >>
  /\ closed = FALSE

Submit(t) ==
  /\ pending' = Append(pending, t)
  /\ UNCHANGED <<taken, closed>>

Take ==
  /\ pending # << >>
  /\ pending' = Tail(pending)
  /\ taken' = Append(taken, Head(pending))
  /\ UNCHANGED closed

Close ==
  /\ closed' = TRUE
  /\ UNCHANGED <<pending, taken>>

Next == (\E t \in Task : Submit(t)) \/ Take \/ Close

\* Safety alone, which is what the proofs establish.
SafeSpec == Init /\ [][Next]_vars

\* After a stop nothing more is owed.
Spec == SafeSpec /\ WF_vars(~closed /\ Take)
=============================================================================
