------------------------------- MODULE Buffer -------------------------------
(***************************************************************************)
(* Buffer's framing: appendSep() writes a four-byte length before each     *)
(* message, append() takes whatever read() returned, and pickMessage()     *)
(* cuts messages out of what has arrived.  Bytes have Base values.  With   *)
(* four or more of them -4 .. -1 differ in the lowest byte only, as with   *)
(* 256, and that is what keeps a partial header from being taken for one.  *)
(***************************************************************************)
EXTENDS Integers, Sequences, SequencesExt

CONSTANTS
  Base,          \* values of a byte (256 in the code)
  Sep,           \* sep_: 1 for length headers, 0 for none
  Payload,       \* messages a sender may send, sequences of bytes
  MaxMessage     \* bound: messages sent

ASSUME BufferAssumption ==
  /\ Base \in Nat /\ Base >= 4 /\ Sep \in {0, 1} /\ MaxMessage \in Nat
  /\ Payload \subseteq Seq(0..(Base - 1))

VARIABLES
  client,        \* who sends: appendSep() (Client.cpp frames alike) or PressureTestClient
  sent,          \* history: messages given to appendSep()
  stream,        \* bytes on their way from the sender's buffer to ours
  buf,           \* buf_ of the receiver
  picked,        \* history: messages pickMessage() returned
  starved        \* the last pickMessage() returned false

vars == <<client, sent, stream, buf, picked, starved>>

Byte == 0..(Base - 1)

\* What each byte of an int counts, the lowest first, and the ints there are.
Weight == <<1, Base, Base * Base, Base * Base * Base>>
Int32 == Base * Weight[4]

TypeOK ==
  /\ client \in {"framed", "pressure"}
  /\ sent \in Seq(Payload) /\ picked \in Seq(Seq(Byte))
  /\ stream \in Seq(Byte) /\ buf \in Seq(Byte) /\ starved \in BOOLEAN
  /\ client = "pressure" => stream \in Seq(Byte \ {0}) /\ buf \in Seq(Byte \ {0})

Init ==
  /\ client \in {"framed", "pressure"}
  /\ sent = << >> /\ stream = << >> /\ buf = << >> /\ picked = << >> /\ starved = TRUE

-----------------------------------------------------------------------------
\* htonl() on one side only.
Header_BigEndian(size) == [i \in 1..4 |-> (size \div Weight[5 - i]) % Base]

\* (char*)&size, 4 bytes of it, little endian.
Header(size) == [i \in 1..4 |-> (size \div Weight[i]) % Base]

Frame(data) == IF Sep = 0 THEN data ELSE Header(Len(data)) \o data

AppendSep(data) ==
  /\ client = "framed" /\ Len(sent) < MaxMessage
  /\ stream' = stream \o Frame(data)
  /\ sent' = Append(sent, data)
  /\ UNCHANGED <<client, buf, picked, starved>>

\* SendMessage(): the header.  What it puts behind it is never sent.
SendBuffer(message) == Header(Len(message))

\* strlen() + 1 bytes of it.
PressureSend_WithZero(message) ==
  /\ client = "pressure" /\ sent = << >>
  /\ \E n \in 1..4 :
       /\ SendBuffer(message)[n] = 0 /\ \A i \in 1..(n - 1) : SendBuffer(message)[i] # 0
       /\ stream' = SubSeq(SendBuffer(message), 1, n)
  /\ sent' = <<message>>
  /\ UNCHANGED <<client, buf, picked, starved>>

\* PressureTestClient sends one message, strlen() bytes of it: those before the
\* first zero, which is in the header of any short message.
PressureSend(message) ==
  /\ client = "pressure" /\ sent = << >>
  /\ \E n \in 1..4 :
       /\ SendBuffer(message)[n] = 0 /\ \A i \in 1..(n - 1) : SendBuffer(message)[i] # 0
       /\ stream' = SubSeq(SendBuffer(message), 1, n - 1)
  /\ sent' = <<message>>
  /\ UNCHANGED <<client, buf, picked, starved>>

\* append() of the n bytes a read() returned.
AppendRead(n) ==
  /\ stream' = SubSeq(stream, n + 1, Len(stream))
  /\ buf' = buf \o SubSeq(stream, 1, n)
  /\ starved' = FALSE
  /\ UNCHANGED <<client, sent, picked>>

\* memcpy(&len, buf_.data(), 4): past the end of buf_ lie its terminating zero
\* and then whatever the string's memory held before.
HeadersRead ==
  {h \in [1..4 -> Byte] : \A i \in 1..4 :
     CASE i <= Len(buf) -> h[i] = buf[i]
       [] i = Len(buf) + 1 -> h[i] = 0
       [] OTHER -> TRUE}

\* The bytes taken for a signed int.
Decode(h) ==
  LET u == h[1] + h[2] * Weight[2] + h[3] * Weight[3] + h[4] * Weight[4]
  IN IF 2 * u >= Int32 THEN u - Int32 ELSE u

\* buf_.size() < len + 4, compared as size_t: a negative sum is larger than any size.
\* The sum of an int is not wrapped here: no sender writes a length within 4 of its
\* maximum, and read from a partial header such a length is incomplete either way.
Incomplete(len) == len + 4 < 0 \/ Len(buf) < len + 4

PickNothing ==
  /\ ~starved
  /\ \/ buf = << >>
     \/ Sep = 1 /\ buf # << >> /\ \E h \in HeadersRead : Incomplete(Decode(h))
  /\ starved' = TRUE
  /\ UNCHANGED <<client, sent, stream, buf, picked>>

\* erase(0, len): the header of the message stays, and part of the message.
PickMessage_KeepsHeader ==
  /\ ~starved /\ buf # << >>
  /\ \E h \in HeadersRead :
       LET len == IF Sep = 0 THEN Len(buf) ELSE Decode(h)
           head == IF Sep = 0 THEN 0 ELSE 4
       IN /\ Sep = 1 => ~Incomplete(len)
          /\ picked' = Append(picked, SubSeq(buf, head + 1, IF len < 0 THEN Len(buf) ELSE head + len))
          /\ buf' = IF len < 0 THEN << >> ELSE SubSeq(buf, len + 1, Len(buf))
  /\ UNCHANGED <<client, sent, stream, starved>>

\* substr(head, len) and erase(0, head + len).  To substr() a len below zero is
\* a size_t beyond any size.
PickMessage ==
  /\ ~starved /\ buf # << >>
  /\ \E h \in HeadersRead :
       LET len == IF Sep = 0 THEN Len(buf) ELSE Decode(h)
           head == IF Sep = 0 THEN 0 ELSE 4
       IN /\ Sep = 1 => ~Incomplete(len)
          /\ picked' = Append(picked, SubSeq(buf, head + 1, IF len < 0 THEN Len(buf) ELSE head + len))
          /\ buf' = SubSeq(buf, head + len + 1, Len(buf))
  /\ UNCHANGED <<client, sent, stream, starved>>

Next ==
  \/ \E data \in Payload : AppendSep(data) \/ PressureSend(data)
  \/ \E n \in 1..Len(stream) : AppendRead(n)
  \/ PickMessage \/ PickNothing

Spec == Init /\ [][Next]_vars

-----------------------------------------------------------------------------
(***************************************************************************)
(* However the stream is cut, also inside a header, pickMessage() returns  *)
(* the messages that were sent, whole and in order, and never one made of  *)
(* a partial header and stale memory: nothing at all from the start of a   *)
(* header that PressureTestClient leaves.                                  *)
(***************************************************************************)
MessagesIntact == IsPrefix(picked, IF client = "framed" THEN sent ELSE << >>)

\* When pickMessage() returns false, no complete message is left behind: what
\* is in the buffer and on its way is exactly what has not been picked.
NothingStuck ==
  starved /\ client = "framed" =>
    /\ stream = << >> => picked = sent
    /\ Len(picked) < Len(sent) =>
         Len(buf) < Len(Frame(sent[Len(picked) + 1]))
=============================================================================
