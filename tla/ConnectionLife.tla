--------------------------- MODULE ConnectionLife ---------------------------
(***************************************************************************)
(* What TcpServer promises of a connection, whatever threads and maps it   *)
(* takes: it owns a descriptor nobody else has, it is destroyed only after *)
(* its client has left or it timed out, and after that it is destroyed and *)
(* its descriptor given back.  Nothing is promised once the server has     *)
(* taken an undefined step.                                                *)
(***************************************************************************)
CONSTANTS Conn, Fd

VARIABLES
  status,        \* of each connection: "new", "open", "leaving" or "gone"
  fd,            \* the descriptor each connection has or had
  broken         \* an undefined step was taken

vars == <<status, fd, broken>>

\* Who has descriptor f.
Owners(f) == {c \in Conn : status[c] \in {"open", "leaving"} /\ fd[c] = f}

Init == status = [c \in Conn |-> "new"] /\ broken = FALSE /\ fd \in [Conn -> Fd \cup {0}]

Become(c, from, to) ==
  /\ ~broken /\ status[c] = from
  /\ status' = [status EXCEPT ![c] = to] /\ broken' = FALSE

Open(c, f) ==
  /\ Become(c, "new", "open") /\ Owners(f) = {}
  /\ fd' = [fd EXCEPT ![c] = f]

\* closeCallback(), errorCallback() or the idle timer.
Leave(c) == Become(c, "open", "leaving") /\ fd' = fd

Destroy(c) == Become(c, "leaving", "gone") /\ fd' = fd

Break == ~broken /\ broken' = TRUE /\ UNCHANGED <<status, fd>>

Next ==
  \/ \E c \in Conn : (\E f \in Fd : Open(c, f)) \/ Leave(c) \/ Destroy(c)
  \/ Break

SafeSpec == Init /\ [][Next]_vars

Spec == SafeSpec /\ \A c \in Conn : WF_vars(Destroy(c))
=============================================================================
