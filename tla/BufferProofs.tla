---------------------------- MODULE BufferProofs ----------------------------
(***************************************************************************)
(* Proofs about Buffer for any number of values of a byte, any messages    *)
(* whose length is an int, and any number of them.                         *)
(***************************************************************************)
EXTENDS Buffer, SequenceTheorems, TLAPS

\* With length headers, and lengths whose len + 4 the signed int of pickMessage() can hold.
HeadersFit == Sep = 1 /\ \A data \in Payload : 2 * (Len(data) + 4) < Int32

-----------------------------------------------------------------------------
(***************************************************************************)
(* The arithmetic of headers.                                              *)
(***************************************************************************)
LEMMA Weights ==
  /\ Base \in Nat /\ Base >= 4 /\ Int32 \in Nat /\ Int32 = Base * Weight[4]
  /\ Weight[1] = 1 /\ Weight[2] = Base /\ Weight[3] = Base * Base /\ Weight[4] = Base * (Base * Base)
  /\ \A i \in 1..4 : Weight[i] \in Nat \ {0}
  /\ Weight[3] = Base * Weight[2] /\ Weight[4] = Base * Weight[3]
  /\ Weight[2] >= 4 /\ Weight[3] >= 4 /\ Weight[4] >= 4
<1>1. Base \in Nat /\ Base >= 4
  BY BufferAssumption
<1>2. Base * Base \in Nat /\ Base * Base >= 4
  BY <1>1
<1> DEFINE square == Base * Base
<1> HIDE DEF square
<1>3. Base * square \in Nat /\ Base * square >= 4
  BY <1>1, <1>2 DEF square
<1>4. Base * Base * Base = Base * (Base * Base)
  BY <1>1
<1>5. Base * (Base * square) \in Nat
  <2> DEFINE cube == Base * square
  <2>1. cube \in Nat
    BY <1>3
  <2> HIDE DEF cube
  <2>2. Base * cube \in Nat
    BY <1>1, <2>1
  <2> QED
    BY <2>2 DEF cube
<1>6. /\ Weight[1] = 1 /\ Weight[2] = Base /\ Weight[3] = Base * Base
      /\ Weight[4] = Base * Base * Base
  BY DEF Weight
<1>7. Weight[4] = Base * Weight[3] /\ Weight[3] = Base * Weight[2]
  BY <1>4, <1>6
<1>8. \A i \in 1..4 : Weight[i] \in Nat \ {0}
  <2>1. Weight[1] \in Nat \ {0} /\ Weight[2] \in Nat \ {0} /\ Weight[3] \in Nat \ {0}
        /\ Weight[4] \in Nat \ {0}
    BY <1>1, <1>2, <1>3, <1>4, <1>6 DEF square
  <2>2. \A i \in 1..4 : i = 1 \/ i = 2 \/ i = 3 \/ i = 4
    OBVIOUS
  <2> QED
    BY <2>1, <2>2
<1>9. Int32 \in Nat /\ Int32 = Base * Weight[4]
  BY <1>4, <1>5, <1>6 DEF Int32, square
<1> QED
  BY <1>1, <1>2, <1>3, <1>4, <1>6, <1>7, <1>8, <1>9 DEF square

\* Dividing by a and then by b.
LEMMA DivDiv ==
  ASSUME NEW n \in Nat, NEW a \in Nat \ {0}, NEW b \in Nat \ {0}
  PROVE  n \div (b * a) = (n \div a) \div b /\ b * a \in Nat \ {0}
<1> DEFINE m == n \div a
           q == m \div b
           c == b * a
<1>1. m \in Nat /\ a * m <= n /\ n < a * m + a
  OBVIOUS
<1>2. q \in Nat /\ b * q <= m /\ m < b * q + b
  BY <1>1
<1>3. c \in Nat \ {0}
  OBVIOUS
<1> HIDE DEF m, q, c
<1>4. a * (b * q) <= a * m
  <2> DEFINE x == b * q
  <2>1. x \in Nat /\ x <= m
    BY <1>1, <1>2
  <2> HIDE DEF x
  <2>2. a * x <= a * m
    BY <1>1, <2>1
  <2> QED
    BY <2>2 DEF x
<1>5. a * (m + 1) <= a * (b * q + b)
  <2> DEFINE x == b * q + b
  <2>1. x \in Nat /\ m + 1 <= x
    BY <1>1, <1>2
  <2> HIDE DEF x
  <2>2. a * (m + 1) <= a * x
    BY <1>1, <2>1
  <2> QED
    BY <2>2 DEF x
<1>6. a * (b * q) = c * q /\ a * (b * q + b) = c * q + c /\ a * (m + 1) = a * m + a
  BY <1>1, <1>2 DEF c
<1>7. c * q <= n /\ n < c * q + c
  <2>1. c * q \in Nat /\ a * m \in Nat
    BY <1>1, <1>2, <1>3
  <2> QED
    BY <1>1, <1>3, <1>4, <1>5, <1>6, <2>1
<1>8. n \div c = q
  BY <1>2, <1>3, <1>7
<1> QED
  BY <1>3, <1>8 DEF m, q, c

LEMMA HeaderIsBytes ==
  ASSUME NEW n \in Nat PROVE Header(n) \in [1..4 -> Byte]
<1>1. \A w \in Nat \ {0} : (n \div w) % Base \in Byte
  <2> TAKE w \in Nat \ {0}
  <2> DEFINE q == n \div w
  <2>1. q \in Nat
    OBVIOUS
  <2> HIDE DEF q
  <2>2. q % Base \in 0..(Base - 1)
    BY <2>1, Weights
  <2> QED
    BY <2>2 DEF q, Byte
<1> QED
  BY <1>1, Weights DEF Header

\* memcpy() of the header gives the length back.
LEMMA HeaderGivesLength ==
  ASSUME NEW n \in Nat, 2 * n < Int32 PROVE Decode(Header(n)) = n
<1> DEFINE q1 == n \div Base
           q2 == q1 \div Base
           q3 == q2 \div Base
           h == Header(n)
<1>1. Base \in Nat \ {0}
  BY Weights
<1>2. q1 \in Nat /\ q2 \in Nat /\ q3 \in Nat
  BY <1>1
<1>3. n \div Weight[1] = n /\ n \div Weight[2] = q1 /\ n \div Weight[3] = q2 /\ n \div Weight[4] = q3
  <2>1. n \div Weight[1] = n /\ n \div Weight[2] = q1
    BY Weights
  <2>2. n \div (Base * Base) = q2
    BY <1>1, DivDiv, Zenon
  <2>3. n \div (Base * (Base * Base)) = q3
    <3> DEFINE s == Base * Base
    <3>1. s \in Nat \ {0}
      BY <1>1, DivDiv
    <3>2. n \div s = q2
      BY <2>2
    <3> HIDE DEF s, q2
    <3>3. n \div (Base * s) = (n \div s) \div Base
      BY <1>1, <3>1, DivDiv
    <3> QED
      BY <3>2, <3>3 DEF s
  <2> QED
    BY <2>1, <2>2, <2>3, Weights
<1>4. h[1] = n % Base /\ h[2] = q1 % Base /\ h[3] = q2 % Base /\ h[4] = q3 % Base
  BY <1>3 DEF Header
<1>5. n = Base * q1 + h[1] /\ q1 = Base * q2 + h[2] /\ q2 = Base * q3 + h[3]
  BY <1>1, <1>2, <1>4
<1>6. h \in [1..4 -> Byte]
  BY HeaderIsBytes
<1>7. h[1] \in Nat /\ h[2] \in Nat /\ h[3] \in Nat /\ h[4] \in Nat
  BY <1>6, Weights DEF Byte
<1>8. q3 < Base
  <2>1. Weight[4] * q3 <= n
    BY <1>3, Weights
  <2>2. Base * Weight[4] = Weight[4] * Base
    BY Weights
  <2> DEFINE w == Weight[4]
  <2>3. w \in Nat \ {0} /\ w * q3 <= n /\ 2 * n < w * Base
    BY <2>1, <2>2, Weights
  <2> HIDE DEF w, q3
  <2>4. w * q3 < w * Base
    BY <1>1, <1>2, <2>3
  <2> QED
    BY <1>1, <1>2, <2>3, <2>4
<1>9. h[4] = q3
  BY <1>1, <1>2, <1>4, <1>8
<1> HIDE DEF q1, q2, q3, h
<1>10. n = h[1] + h[2] * Base + h[3] * (Base * Base) + h[4] * (Base * (Base * Base))
  <2>1. n = h[1] + Base * (h[2] + Base * (h[3] + Base * h[4]))
    BY <1>1, <1>5, <1>7, <1>9
  <2>2. \A a, b, c, d \in Nat :
          a + Base * (b + Base * (c + Base * d))
            = a + b * Base + c * (Base * Base) + d * (Base * (Base * Base))
    BY <1>1
  <2> QED
    BY <1>7, <2>1, <2>2
<1>11. n = h[1] + h[2] * Weight[2] + h[3] * Weight[3] + h[4] * Weight[4]
  BY <1>10, Weights
<1> QED
  BY <1>11, Weights DEF Decode, h

(***************************************************************************)
(* A header that has not arrived whole: the terminating zero of buf_ is    *)
(* one of its three upper bytes, and whatever follows it the length cannot *)
(* be between -4 and -1, so that the size looks too small.                 *)
(***************************************************************************)
LEMMA DecodeIsInt ==
  ASSUME NEW h \in [1..4 -> Byte] PROVE Decode(h) \in Int
<1>1. h[1] \in Nat /\ h[2] \in Nat /\ h[3] \in Nat /\ h[4] \in Nat
  BY Weights DEF Byte
<1>2. h[2] * Weight[2] \in Nat /\ h[3] * Weight[3] \in Nat /\ h[4] * Weight[4] \in Nat
  BY <1>1, Weights
<1> QED
  BY <1>1, <1>2, Weights DEF Decode

LEMMA BoundedDigit ==
  ASSUME NEW d \in Byte, NEW w \in Nat \ {0}
  PROVE  /\ d * w \in Nat /\ Base * w \in Nat /\ d * w <= Base * w - w
         /\ w >= 4 => Base * w - w >= 12
         /\ d = 0 => d * w = 0
<1>1. d \in Nat /\ Base \in Nat /\ d + 1 <= Base /\ 4 <= Base
  BY Weights DEF Byte
<1>2. (d + 1) * w <= Base * w /\ (d + 1) * w = d * w + w
  BY <1>1
<1>3. d * w \in Nat /\ Base * w \in Nat
  BY <1>1
<1>4. 4 * w <= Base * w
  BY <1>1
<1> QED
  BY <1>1, <1>2, <1>3, <1>4

LEMMA PartialHeader ==
  ASSUME NEW h \in HeadersRead, Len(buf) \in 1..3
  PROVE  Incomplete(Decode(h))
<1>1. h \in [1..4 -> Byte] /\ \A i \in 1..4 : i = Len(buf) + 1 => h[i] = 0
  BY DEF HeadersRead
<1>2. h[2] = 0 \/ h[3] = 0 \/ h[4] = 0
  <2>1. PICK k \in 1..3 : k = Len(buf)
    OBVIOUS
  <2>2. \A i \in 1..4 : i = k + 1 => h[i] = 0
    BY <1>1, <2>1
  <2>3. k = 1 \/ k = 2 \/ k = 3
    OBVIOUS
  <2> QED
    BY <2>2, <2>3
<1> DEFINE d1 == h[1]
           d2 == h[2] * Weight[2]
           d3 == h[3] * Weight[3]
           d4 == h[4] * Weight[4]
           u == d1 + d2 + d3 + d4
<1>3. /\ d1 \in Nat /\ d2 \in Nat /\ d3 \in Nat /\ d4 \in Nat /\ d1 <= Base - 1
      /\ d2 <= Weight[3] - Weight[2] /\ d3 <= Weight[4] - Weight[3] /\ d4 <= Int32 - Weight[4]
  <2>1. h[1] \in Byte /\ h[2] \in Byte /\ h[3] \in Byte /\ h[4] \in Byte
    BY <1>1
  <2>2. h[1] \in Nat /\ h[1] <= Base - 1
    BY <2>1, Weights DEF Byte
  <2>3. d2 \in Nat /\ d2 <= Weight[3] - Weight[2]
    BY <2>1, Weights, BoundedDigit
  <2>4. d3 \in Nat /\ d3 <= Weight[4] - Weight[3]
    BY <2>1, Weights, BoundedDigit
  <2>5. d4 \in Nat /\ d4 <= Int32 - Weight[4]
    BY <2>1, Weights, BoundedDigit
  <2> QED
    BY <2>2, <2>3, <2>4, <2>5
<1>4. /\ h[2] = 0 => d2 = 0 /\ 12 <= Weight[3] - Weight[2]
      /\ h[3] = 0 => d3 = 0 /\ 12 <= Weight[4] - Weight[3]
      /\ h[4] = 0 => d4 = 0 /\ 12 <= Int32 - Weight[4]
  <2>1. h[2] \in Byte /\ h[3] \in Byte /\ h[4] \in Byte
    BY <1>1
  <2>2. ASSUME h[2] = 0 PROVE d2 = 0 /\ 12 <= Weight[3] - Weight[2]
    <3>1. 12 <= Base * Weight[2] - Weight[2] /\ h[2] * Weight[2] = 0
      <4>1. PICK w \in Nat \ {0} : w = Weight[2] /\ w >= 4
        BY Weights
      <4>2. 12 <= Base * w - w /\ h[2] * w = 0
        BY <2>1, <2>2, <4>1, BoundedDigit
      <4> QED
        BY <4>1, <4>2
    <3>2. Weight[3] = Base * Weight[2]
      BY Weights
    <3> QED
      BY <3>1, <3>2
  <2>3. h[3] = 0 => d3 = 0 /\ 12 <= Weight[4] - Weight[3]
    BY <2>1, Weights, BoundedDigit
  <2>4. h[4] = 0 => d4 = 0 /\ 12 <= Int32 - Weight[4]
    BY <2>1, Weights, BoundedDigit
  <2> QED
    BY <2>2, <2>3, <2>4
<1>5. Decode(h) = IF 2 * u >= Int32 THEN u - Int32 ELSE u
  BY DEF Decode
<1> HIDE DEF d1, d2, d3, d4
<1>6. u \in Nat /\ u < Int32 - 4
  BY <1>2, <1>3, <1>4, Weights
<1> HIDE DEF u
<1>7. Decode(h) + 4 < 0 \/ Decode(h) >= 0
  BY <1>5, <1>6, Weights
<1>8. PICK len \in Int : len = Decode(h)
  BY <1>1, DecodeIsInt
<1>9. PICK k \in 1..3 : k = Len(buf)
  OBVIOUS
<1>10. len + 4 < 0 \/ k < len + 4
  BY <1>7, <1>8
<1> QED
  BY <1>8, <1>9, <1>10 DEF Incomplete

-----------------------------------------------------------------------------
(***************************************************************************)
(* Types, with or without headers.                                         *)
(***************************************************************************)
LEMMA PayloadIsBytes ==
  ASSUME NEW data \in Payload
  PROVE  data \in Seq(Byte) /\ Len(data) \in Nat
  BY BufferAssumption DEF Byte

LEMMA HeaderIsSeq ==
  ASSUME NEW n \in Nat PROVE Header(n) \in Seq(Byte) /\ Len(Header(n)) = 4
<1> DEFINE h == Header(n)
<1>1. h \in [1..4 -> Byte] /\ 4 \in Nat
  BY HeaderIsBytes
<1> HIDE DEF h
<1>2. h \in Seq(Byte)
  BY <1>1, SeqDef
<1>3. Len(h) = 4
  BY <1>1, <1>2
<1> QED
  BY <1>2, <1>3 DEF h

\* Bytes cut out of bytes.
LEMMA Part ==
  ASSUME NEW s \in Seq(Byte), NEW m \in Nat \ {0}, NEW k \in Int, k <= Len(s)
  PROVE  /\ SubSeq(s, m, k) \in Seq(Byte)
         /\ Len(SubSeq(s, m, k)) = IF m <= k THEN k - m + 1 ELSE 0
         /\ \A i \in 1..(k - m + 1) : SubSeq(s, m, k)[i] = s[m + i - 1]
<1>1. \A i \in m..k : s[i] \in Byte
  <2> TAKE i \in m..k
  <2>1. i \in 1..Len(s)
    OBVIOUS
  <2> QED
    BY <2>1
<1> QED
  BY <1>1, SubSeqProperties

\* And bytes with no zero out of bytes with no zero.
LEMMA PartNoZero ==
  ASSUME NEW s \in Seq(Byte \ {0}), NEW m \in Nat \ {0}, NEW k \in Int, k <= Len(s)
  PROVE  SubSeq(s, m, k) \in Seq(Byte \ {0})
<1>1. \A i \in m..k : s[i] \in Byte \ {0}
  <2> TAKE i \in m..k
  <2>1. i \in 1..Len(s)
    OBVIOUS
  <2> QED
    BY <2>1
<1> QED
  BY <1>1, SubSeqProperties

\* What pickMessage() takes: the bytes behind a header, and what it leaves.
LEMMA PickTakes ==
  ASSUME TypeOK, ~starved, PickMessage
  PROVE  \E len \in Int, head \in {0, 4}, last \in Int :
           /\ head + len >= 0 /\ head + len <= Len(buf)
           /\ last <= Len(buf) /\ (len >= 0 => last = head + len)
           /\ picked' = Append(picked, SubSeq(buf, head + 1, last))
           /\ buf' = SubSeq(buf, head + len + 1, Len(buf))
           /\ Sep = 1 => head = 4 /\ \E h \in HeadersRead : len = Decode(h) /\ ~Incomplete(len)
<1>1. PICK h \in HeadersRead :
        LET len == IF Sep = 0 THEN Len(buf) ELSE Decode(h)
            head == IF Sep = 0 THEN 0 ELSE 4
        IN /\ Sep = 1 => ~Incomplete(len)
           /\ picked' = Append(picked, SubSeq(buf, head + 1, IF len < 0 THEN Len(buf) ELSE head + len))
           /\ buf' = SubSeq(buf, head + len + 1, Len(buf))
  BY DEF PickMessage
<1>2. Len(buf) \in Nat /\ (Sep = 0 \/ Sep = 1)
  BY BufferAssumption DEF TypeOK
<1>3. Decode(h) \in Int
  <2>1. h \in [1..4 -> Byte]
    BY DEF HeadersRead
  <2> QED
    BY <2>1, DecodeIsInt
<1>4. CASE Sep = 0
  <2>1. /\ picked' = Append(picked, SubSeq(buf, 0 + 1, 0 + Len(buf)))
        /\ buf' = SubSeq(buf, 0 + Len(buf) + 1, Len(buf))
    BY <1>1, <1>2, <1>4
  <2>2. Len(buf) \in Int /\ 0 + Len(buf) >= 0 /\ 0 + Len(buf) <= Len(buf)
    BY <1>2
  <2> WITNESS Len(buf) \in Int, 0 \in {0, 4}, 0 + Len(buf) \in Int
  <2> QED
    BY <1>4, <2>1, <2>2
<1>5. CASE Sep = 1
  <2> DEFINE last == IF Decode(h) < 0 THEN Len(buf) ELSE 4 + Decode(h)
  <2>1. /\ picked' = Append(picked, SubSeq(buf, 4 + 1, last))
        /\ buf' = SubSeq(buf, 4 + Decode(h) + 1, Len(buf)) /\ ~Incomplete(Decode(h))
    BY <1>1, <1>5
  <2>2. 4 + Decode(h) >= 0 /\ 4 + Decode(h) <= Len(buf)
    BY <1>2, <1>3, <2>1 DEF Incomplete
  <2>3. last \in Int /\ last <= Len(buf) /\ (Decode(h) >= 0 => last = 4 + Decode(h))
    <3>1. PICK l \in Nat, d \in Int : l = Len(buf) /\ d = Decode(h) /\ 4 + d <= l
      BY <1>2, <1>3, <2>2
    <3> QED
      BY <3>1
  <2> HIDE DEF last
  <2> last \in Int
    BY <2>3
  <2> WITNESS Decode(h) \in Int, 4 \in {0, 4}, last \in Int
  <2> QED
    BY <1>1, <1>5, <2>1, <2>2, <2>3
<1> QED
  BY <1>2, <1>4, <1>5

LEMMA InitTypeOK == Init => TypeOK
  BY DEF Init, TypeOK

LEMMA NextTypeOK == TypeOK /\ [Next]_vars => TypeOK'
<1> SUFFICES ASSUME TypeOK, [Next]_vars PROVE TypeOK'
  OBVIOUS
<1>1. ASSUME NEW data \in Payload, AppendSep(data) PROVE TypeOK'
  <2>1. Frame(data) \in Seq(Byte)
    BY PayloadIsBytes, HeaderIsSeq, ConcatProperties DEF Frame
  <2>2. stream' \in Seq(Byte) /\ sent' \in Seq(Payload)
    BY <1>1, <2>1 DEF AppendSep, TypeOK
  <2> QED
    BY <1>1, <2>2 DEF AppendSep, TypeOK
<1>2. ASSUME NEW message \in Payload, PressureSend(message) PROVE TypeOK'
  <2> DEFINE b == SendBuffer(message)
  <2>1. PICK n \in 1..4 : (\A i \in 1..(n - 1) : b[i] # 0) /\ stream' = SubSeq(b, 1, n - 1)
    BY <1>2 DEF PressureSend
  <2>2. b \in Seq(Byte) /\ Len(b) = 4
    BY PayloadIsBytes, HeaderIsSeq DEF SendBuffer
  <2> HIDE DEF b
  <2>3. stream' \in Seq(Byte)
    BY <2>1, <2>2, Part
  <2>4. stream' \in Seq(Byte \ {0})
    <3>1. \A i \in 1..(n - 1) : b[i] \in Byte \ {0}
      BY <2>1, <2>2
    <3> QED
      BY <2>1, <3>1, SubSeqProperties
  <2>5. sent' \in Seq(Payload)
    BY <1>2 DEF PressureSend
  <2> QED
    BY <1>2, <2>3, <2>4, <2>5 DEF PressureSend, TypeOK
<1>3. ASSUME NEW n \in 1..Len(stream), AppendRead(n) PROVE TypeOK'
  <2>1. SubSeq(stream, 1, n) \in Seq(Byte) /\ SubSeq(stream, n + 1, Len(stream)) \in Seq(Byte)
    BY Part DEF TypeOK
  <2>2. stream' \in Seq(Byte) /\ buf' \in Seq(Byte)
    BY <1>3, <2>1, ConcatProperties DEF AppendRead, TypeOK
  <2>3. ASSUME client = "pressure" PROVE stream' \in Seq(Byte \ {0}) /\ buf' \in Seq(Byte \ {0})
    <3>1. /\ SubSeq(stream, 1, n) \in Seq(Byte \ {0})
          /\ SubSeq(stream, n + 1, Len(stream)) \in Seq(Byte \ {0})
      BY <2>3, PartNoZero DEF TypeOK
    <3> QED
      BY <1>3, <2>3, <3>1, ConcatProperties DEF AppendRead, TypeOK
  <2> QED
    BY <1>3, <2>2, <2>3 DEF AppendRead, TypeOK
<1>4. CASE PickMessage
  <2>1. PICK len \in Int, head \in {0, 4}, last \in Int :
          /\ head + len >= 0 /\ head + len <= Len(buf) /\ last <= Len(buf)
          /\ picked' = Append(picked, SubSeq(buf, head + 1, last))
          /\ buf' = SubSeq(buf, head + len + 1, Len(buf))
    BY <1>4, PickTakes DEF PickMessage
  <2>2. buf \in Seq(Byte) /\ Len(buf) \in Nat
    BY DEF TypeOK
  <2>3. SubSeq(buf, head + 1, last) \in Seq(Byte)
    BY <2>1, <2>2, Part
  <2>4. buf' \in Seq(Byte)
    BY <2>1, <2>2, Part
  <2>5. picked' \in Seq(Seq(Byte))
    BY <2>1, <2>3 DEF TypeOK
  <2>6. client = "pressure" => buf' \in Seq(Byte \ {0})
    BY <2>1, <2>2, PartNoZero DEF TypeOK
  <2> QED
    BY <1>4, <2>4, <2>5, <2>6 DEF PickMessage, TypeOK
<1>5. CASE PickNothing \/ UNCHANGED vars
  BY <1>5 DEF PickNothing, vars, TypeOK
<1> QED
  BY <1>1, <1>2, <1>3, <1>4, <1>5 DEF Next

\* Every variable keeps to its type, with or without headers.
THEOREM TypeCorrect == Spec => []TypeOK
  BY InitTypeOK, NextTypeOK, PTL DEF Spec

-----------------------------------------------------------------------------
(***************************************************************************)
(* Framing(bytes, s, p): the bytes are the frames of the messages of s     *)
(* after the p-th, one behind the other.  cut[i] is where, in all that was *)
(* ever sent, the i-th frame ends.                                         *)
(***************************************************************************)
Size(data) == 4 + Len(data)

Cuts(s, cut) ==
  /\ cut \in [0..Len(s) -> Nat]
  /\ \A i \in 1..Len(s) : cut[i] = cut[i - 1] + Size(s[i])
  /\ \A i, k \in 0..Len(s) : i <= k => cut[i] <= cut[k]

Laid(bytes, s, p, cut) ==
  /\ Len(bytes) = cut[Len(s)] - cut[p]
  /\ \A i \in (p + 1)..Len(s) : \A j \in 1..Size(s[i]) :
       bytes[cut[i - 1] - cut[p] + j] = Frame(s[i])[j]

Framing(bytes, s, p) == \E cut : Cuts(s, cut) /\ Laid(bytes, s, p, cut)

LEMMA RestOfConcat ==
  ASSUME NEW a \in Seq(Byte), NEW b \in Seq(Byte), NEW n \in Nat, n <= Len(a)
  PROVE  SubSeq(a, n + 1, Len(a)) \o b = SubSeq(a \o b, n + 1, Len(a \o b))
<1> DEFINE c == a \o b
           r == SubSeq(a, n + 1, Len(a))
           u == SubSeq(c, n + 1, Len(c))
<1>1. PICK la \in Nat, lb \in Nat : la = Len(a) /\ lb = Len(b) /\ n <= la
  OBVIOUS
<1>2. /\ c \in Seq(Byte) /\ Len(c) = la + lb
      /\ \A i \in 1..(la + lb) : c[i] = IF i <= la THEN a[i] ELSE b[i - la]
  BY <1>1, ConcatProperties
<1>3. /\ r \in Seq(Byte) /\ Len(r) = la - n /\ \A i \in 1..(la - n) : r[i] = a[n + i]
  <2>1. /\ r \in Seq(Byte) /\ Len(r) = IF n + 1 <= la THEN la - (n + 1) + 1 ELSE 0
        /\ \A i \in 1..(la - (n + 1) + 1) : r[i] = a[n + 1 + i - 1]
    BY <1>1, Part
  <2>2. la - (n + 1) + 1 = la - n /\ (~(n + 1 <= la) => la - n = 0)
        /\ \A i \in Int : n + 1 + i - 1 = n + i
    BY <1>1
  <2>3. Len(r) = la - n
    BY <2>1, <2>2
  <2>4. ASSUME NEW i \in 1..(la - n) PROVE r[i] = a[n + i]
    <3>1. i \in 1..(la - (n + 1) + 1) /\ i \in Int
      BY <1>1, <2>2
    <3> QED
      BY <2>1, <2>2, <3>1
  <2> QED
    BY <2>1, <2>3, <2>4
<1>4. /\ u \in Seq(Byte) /\ Len(u) = la + lb - n /\ \A i \in 1..(la + lb - n) : u[i] = c[n + i]
  <2> PICK lc \in Nat : lc = la + lb
    BY <1>1
  <2>1. n + 1 \in Nat \ {0} /\ lc \in Int /\ lc <= Len(c) /\ c \in Seq(Byte) /\ Len(c) = lc
    BY <1>1, <1>2
  <2> HIDE DEF c
  <2> DEFINE v == SubSeq(c, n + 1, lc)
  <2>2. /\ v \in Seq(Byte) /\ Len(v) = IF n + 1 <= lc THEN lc - (n + 1) + 1 ELSE 0
        /\ \A i \in 1..(lc - (n + 1) + 1) : v[i] = c[n + 1 + i - 1]
    BY <2>1, Part
  <2>3. u = v
    BY <2>1
  <2> HIDE DEF u, v
  <2>4. lc - (n + 1) + 1 = la + lb - n /\ (~(n + 1 <= lc) => la + lb - n = 0)
        /\ \A i \in Int : n + 1 + i - 1 = n + i
    BY <1>1
  <2>5. Len(v) = la + lb - n
    BY <2>2, <2>4
  <2>6. ASSUME NEW i \in 1..(la + lb - n) PROVE v[i] = c[n + i]
    <3>1. i \in 1..(lc - (n + 1) + 1) /\ i \in Int
      BY <2>4, <1>1
    <3> QED
      BY <2>2, <2>4, <3>1
  <2> QED
    BY <2>2, <2>3, <2>5, <2>6
<1> HIDE DEF c, r, u
<1>5. /\ r \o b \in Seq(Byte) /\ Len(r \o b) = la - n + lb
      /\ \A i \in 1..(la - n + lb) : (r \o b)[i] = IF i <= la - n THEN r[i] ELSE b[i - (la - n)]
  <2> la - n \in Nat
    BY <1>1
  <2> PICK lr \in Nat : lr = la - n
    OBVIOUS
  <2>1. /\ r \o b \in Seq(Byte) /\ Len(r \o b) = Len(r) + Len(b)
        /\ \A i \in 1..(Len(r) + Len(b)) :
             (r \o b)[i] = IF i <= Len(r) THEN r[i] ELSE b[i - Len(r)]
    BY <1>3, ConcatProperties
  <2>2. Len(r) = lr /\ Len(b) = lb
    BY <1>1, <1>3
  <2>3. /\ r \o b \in Seq(Byte) /\ Len(r \o b) = lr + lb
        /\ \A i \in 1..(lr + lb) : (r \o b)[i] = IF i <= lr THEN r[i] ELSE b[i - lr]
    BY <2>1, <2>2
  <2> QED
    BY <2>3
<1>6. Len(r \o b) = Len(u)
  BY <1>1, <1>4, <1>5
<1>7. ASSUME NEW i \in 1..(la - n + lb) PROVE (r \o b)[i] = u[i]
  <2>1. i \in 1..(la + lb - n) /\ n + i \in 1..(la + lb) /\ i - (la - n) = n + i - la
        /\ (i <= la - n <=> n + i <= la) /\ (i <= la - n => i \in 1..(la - n))
    BY <1>1
  <2>2. u[i] = IF n + i <= la THEN a[n + i] ELSE b[n + i - la]
    BY <1>2, <1>4, <2>1
  <2>3. (r \o b)[i] = IF n + i <= la THEN a[n + i] ELSE b[n + i - la]
    BY <1>3, <1>5, <2>1
  <2> QED
    BY <2>2, <2>3
<1>8. r \o b = u
  BY <1>4, <1>5, <1>6, <1>7, SeqEqual
<1> QED
  BY <1>8 DEF c, r, u

LEMMA FrameIs ==
  ASSUME Sep = 1, NEW data \in Payload
  PROVE  /\ Frame(data) \in Seq(Byte) /\ Len(Frame(data)) = Size(data) /\ Size(data) \in Nat
         /\ Size(data) >= 4
         /\ \A j \in 1..4 : Frame(data)[j] = Header(Len(data))[j]
         /\ \A j \in 1..Len(data) : Frame(data)[4 + j] = data[j]
<1> DEFINE h == Header(Len(data))
<1>1. data \in Seq(Byte) /\ h \in Seq(Byte) /\ Len(h) = 4 /\ Frame(data) = h \o data
      /\ Len(data) \in Nat
  BY PayloadIsBytes, HeaderIsSeq DEF Frame
<1> HIDE DEF h
<1>2. /\ h \o data \in Seq(Byte) /\ Len(h \o data) = 4 + Len(data)
      /\ \A j \in 1..4 : (h \o data)[j] = h[j]
      /\ \A j \in 1..Len(data) : (h \o data)[4 + j] = data[j]
  <2>1. /\ h \o data \in Seq(Byte) /\ Len(h \o data) = Len(h) + Len(data)
        /\ \A i \in 1..(Len(h) + Len(data)) :
             (h \o data)[i] = IF i <= Len(h) THEN h[i] ELSE data[i - Len(h)]
    BY <1>1, ConcatProperties
  <2>2. ASSUME NEW j \in 1..4 PROVE (h \o data)[j] = h[j]
    <3>1. j \in 1..(4 + Len(data)) /\ j <= 4
      BY <1>1
    <3> QED
      BY <1>1, <2>1, <3>1
  <2>3. ASSUME NEW j \in 1..Len(data) PROVE (h \o data)[4 + j] = data[j]
    <3>1. 4 + j \in 1..(4 + Len(data)) /\ ~(4 + j <= 4) /\ 4 + j - 4 = j
      BY <1>1
    <3> QED
      BY <1>1, <2>1, <3>1
  <2> QED
    BY <1>1, <2>1, <2>2, <2>3
<1> QED
  BY <1>1, <1>2 DEF Size, h

LEMMA NothingFramed == Framing(<< >>, << >>, 0)
<1> DEFINE cut == [i \in 0..0 |-> 0]
<1>1. Cuts(<< >>, cut)
  BY DEF Cuts
<1>2. Laid(<< >>, << >>, 0, cut)
  BY DEF Laid
<1> QED
  BY <1>1, <1>2 DEF Framing

\* appendSep() puts its frame behind the others.
LEMMA FrameAdded ==
  ASSUME Sep = 1, NEW s \in Seq(Payload), NEW p \in 0..Len(s), NEW bytes \in Seq(Byte),
         NEW data \in Payload, Framing(bytes, s, p)
  PROVE  Framing(bytes \o Frame(data), Append(s, data), p)
<1>1. PICK cut : Cuts(s, cut) /\ Laid(bytes, s, p, cut)
  BY DEF Framing
<1> DEFINE n == Len(s)
           f == Frame(data)
           all == bytes \o f
           t == Append(s, data)
           ext == [i \in 0..(n + 1) |-> IF i = n + 1 THEN cut[n] + Size(data) ELSE cut[i]]
<1>2. n \in Nat /\ p \in Nat /\ p <= n /\ Len(t) = n + 1 /\ t[n + 1] = data
      /\ \A i \in 1..n : t[i] = s[i] /\ s[i] \in Payload
  OBVIOUS
<1>3. f \in Seq(Byte) /\ Len(f) = Size(data) /\ Size(data) \in Nat
  BY FrameIs
<1>4. /\ Len(all) = Len(bytes) + Len(f) /\ Len(bytes) \in Nat
      /\ \A x \in 1..Len(bytes) : all[x] = bytes[x]
      /\ \A j \in 1..Len(f) : all[Len(bytes) + j] = f[j]
  BY <1>3
<1>5. /\ \A i \in 0..n : cut[i] \in Nat
      /\ \A i \in 1..n : cut[i] = cut[i - 1] + Size(s[i])
      /\ \A i, k \in 0..n : i <= k => cut[i] <= cut[k]
  BY <1>1 DEF Cuts
<1>6. ext[n + 1] = cut[n] + Size(data) /\ \A i \in 0..n : ext[i] = cut[i]
  BY <1>2
<1>7. Len(bytes) = cut[n] - cut[p]
      /\ \A i \in (p + 1)..n : \A j \in 1..Size(s[i]) : bytes[cut[i - 1] - cut[p] + j] = Frame(s[i])[j]
  BY <1>1 DEF Laid
<1> HIDE DEF n, f, all, t
<1>8. ext \in [0..(n + 1) -> Nat]
  BY <1>2, <1>3, <1>5
<1> HIDE DEF ext
<1>9. Cuts(t, ext)
  <2>1. ASSUME NEW i \in 1..(n + 1) PROVE ext[i] = ext[i - 1] + Size(t[i])
    <3>1. CASE i = n + 1
      BY <1>2, <1>6, <3>1
    <3>2. CASE i # n + 1
      <4>1. i \in 1..n /\ i \in 0..n /\ i - 1 \in 0..n
        BY <1>2, <3>2
      <4> QED
        BY <1>2, <1>5, <1>6, <4>1
    <3> QED
      BY <3>1, <3>2
  <2>2. ASSUME NEW i \in 0..(n + 1), NEW k \in 0..(n + 1), i <= k PROVE ext[i] <= ext[k]
    <3>1. CASE k \in 0..n
      BY <1>2, <1>5, <1>6, <2>2, <3>1
    <3>2. CASE k = n + 1 /\ i = n + 1
      BY <1>2, <1>8, <3>2
    <3>3. CASE k = n + 1 /\ i \in 0..n
      <4>1. cut[i] <= cut[n] /\ cut[i] \in Nat /\ cut[n] \in Nat
        BY <1>2, <1>5, <3>3
      <4> QED
        BY <1>3, <1>6, <3>3, <4>1
    <3> QED
      BY <1>2, <3>1, <3>2, <3>3
  <2> QED
    BY <1>2, <1>8, <2>1, <2>2 DEF Cuts
<1>10. Laid(all, t, p, ext)
  <2>1. Len(all) = ext[n + 1] - ext[p]
    <3>1. cut[p] \in Nat /\ cut[n] \in Nat /\ ext[p] = cut[p]
      BY <1>2, <1>5, <1>6
    <3> QED
      BY <1>3, <1>4, <1>6, <1>7, <3>1
  <2>2. ASSUME NEW i \in (p + 1)..(n + 1), NEW j \in 1..Size(t[i])
        PROVE  all[ext[i - 1] - ext[p] + j] = Frame(t[i])[j]
    <3>1. CASE i = n + 1
      <4>1. ext[i - 1] - ext[p] = Len(bytes) /\ t[i] = data
        BY <1>2, <1>6, <1>7, <3>1
      <4>2. j \in 1..Len(f)
        BY <1>3, <4>1
      <4> QED
        BY <1>4, <4>1, <4>2 DEF f
    <3>2. CASE i # n + 1
      <4>1. i \in (p + 1)..n /\ i \in 1..n /\ i - 1 \in 0..n /\ p \in 0..n /\ p <= i - 1 /\ n \in 0..n
            /\ i \in 0..n /\ i <= n
        BY <1>2, <3>2
      <4>2. ext[i - 1] = cut[i - 1] /\ ext[p] = cut[p] /\ t[i] = s[i]
        BY <1>2, <1>6, <4>1
      <4>3. cut[p] <= cut[i - 1] /\ cut[i] = cut[i - 1] + Size(s[i]) /\ cut[i] <= cut[n]
        BY <1>5, <4>1
      <4>4. cut[p] \in Nat /\ cut[i - 1] \in Nat /\ cut[n] \in Nat /\ Size(s[i]) \in Nat
        BY <1>2, <1>5, <4>1, FrameIs
      <4>5. j \in 1..Size(s[i])
        BY <4>2
      <4>6. cut[i - 1] - cut[p] + j \in 1..Len(bytes)
        <5>1. PICK a \in Nat, b \in Nat, d \in Nat, e \in Nat :
                a = cut[p] /\ b = cut[i - 1] /\ d = cut[n] /\ e = Size(s[i])
          BY <4>4
        <5>2. a <= b /\ b + e <= d /\ Len(bytes) = d - a /\ j \in 1..e
          BY <1>7, <4>3, <4>5, <5>1
        <5>3. b - a + j \in 1..(d - a)
          BY <5>2
        <5> QED
          BY <5>1, <5>2, <5>3
      <4> QED
        BY <1>4, <1>7, <4>1, <4>2, <4>5, <4>6
    <3> QED
      BY <3>1, <3>2
  <2> QED
    BY <1>2, <2>1, <2>2 DEF Laid
<1> QED
  BY <1>9, <1>10 DEF Framing, all, t, f

\* The first frame is whole as far as it goes, and without it the rest are frames.
LEMMA FrameTaken ==
  ASSUME Sep = 1, NEW s \in Seq(Payload), NEW p \in 0..Len(s), NEW bytes \in Seq(Byte),
         Framing(bytes, s, p), p < Len(s)
  PROVE  /\ s[p + 1] \in Payload /\ Size(s[p + 1]) <= Len(bytes)
         /\ \A j \in 1..Size(s[p + 1]) : bytes[j] = Frame(s[p + 1])[j]
         /\ Framing(SubSeq(bytes, Size(s[p + 1]) + 1, Len(bytes)), s, p + 1)
<1>1. PICK cut : Cuts(s, cut) /\ Laid(bytes, s, p, cut)
  BY DEF Framing
<1> DEFINE n == Len(s)
           size == Size(s[p + 1])
           rest == SubSeq(bytes, size + 1, Len(bytes))
<1>2. n \in Nat /\ p \in Nat /\ p < n /\ Len(bytes) \in Nat /\ \A i \in 1..n : s[i] \in Payload
  OBVIOUS
<1>3. size \in Nat /\ size >= 4 /\ s[p + 1] \in Payload
  BY <1>2, FrameIs
<1>4. /\ \A i \in 0..n : cut[i] \in Nat
      /\ \A i \in 1..n : cut[i] = cut[i - 1] + Size(s[i])
      /\ \A i, k \in 0..n : i <= k => cut[i] <= cut[k]
  BY <1>1 DEF Cuts
<1>5. Len(bytes) = cut[n] - cut[p]
      /\ \A i \in (p + 1)..n : \A j \in 1..Size(s[i]) : bytes[cut[i - 1] - cut[p] + j] = Frame(s[i])[j]
  BY <1>1 DEF Laid
<1> HIDE DEF n, size, rest
<1>6. cut[p + 1] = cut[p] + size /\ cut[p] \in Nat /\ cut[n] \in Nat /\ cut[p + 1] <= cut[n]
  <2>1. p + 1 \in 1..n /\ p \in 0..n /\ p + 1 \in 0..n /\ n \in 0..n /\ p + 1 - 1 = p
    BY <1>2
  <2> QED
    BY <1>2, <1>4, <2>1 DEF size
<1>7. size <= Len(bytes)
  BY <1>3, <1>5, <1>6
<1>8. \A j \in 1..size : bytes[j] = Frame(s[p + 1])[j]
  <2> TAKE j \in 1..size
  <2>1. p + 1 \in (p + 1)..n /\ p + 1 - 1 = p /\ cut[p] - cut[p] + j = j
    BY <1>2, <1>3, <1>6
  <2>2. bytes[cut[p + 1 - 1] - cut[p] + j] = Frame(s[p + 1])[j]
    BY <1>5, <2>1 DEF size
  <2> QED
    BY <2>1, <2>2
<1>9. /\ rest \in Seq(Byte) /\ Len(rest) = Len(bytes) - size
      /\ \A x \in 1..(Len(bytes) - size) : rest[x] = bytes[size + x]
  <2>1. /\ Len(rest) = IF size + 1 <= Len(bytes) THEN Len(bytes) - (size + 1) + 1 ELSE 0
        /\ \A x \in 1..(Len(bytes) - (size + 1) + 1) : rest[x] = bytes[(size + 1) + x - 1]
        /\ rest \in Seq(Byte)
    BY <1>2, <1>3, <1>7, Part DEF rest
  <2>2. Len(bytes) - (size + 1) + 1 = Len(bytes) - size
    BY <1>2, <1>3
  <2>3. Len(rest) = Len(bytes) - size
    BY <1>2, <1>3, <1>7, <2>1
  <2>4. ASSUME NEW x \in 1..(Len(bytes) - size) PROVE rest[x] = bytes[size + x]
    <3>1. (size + 1) + x - 1 = size + x
      BY <1>2, <1>3
    <3>2. rest[x] = bytes[(size + 1) + x - 1]
      BY <2>1, <2>2
    <3> QED
      BY <3>1, <3>2
  <2> QED
    BY <2>1, <2>3, <2>4
<1>10. Laid(rest, s, p + 1, cut)
  <2>1. Len(rest) = cut[n] - cut[p + 1]
    BY <1>2, <1>3, <1>5, <1>6, <1>9
  <2>2. ASSUME NEW i \in (p + 1 + 1)..n, NEW j \in 1..Size(s[i])
        PROVE  rest[cut[i - 1] - cut[p + 1] + j] = Frame(s[i])[j]
    <3>1. i \in (p + 1)..n /\ i \in 1..n /\ i - 1 \in 0..n /\ i \in 0..n /\ n \in 0..n
          /\ p + 1 \in 0..n /\ p + 1 <= i - 1 /\ i <= n
      BY <1>2
    <3>2. cut[p + 1] <= cut[i - 1] /\ cut[i] = cut[i - 1] + Size(s[i]) /\ cut[i] <= cut[n]
          /\ cut[i - 1] \in Nat /\ cut[p + 1] \in Nat /\ Size(s[i]) \in Nat
      BY <1>2, <1>4, <3>1, FrameIs
    <3> DEFINE x == cut[i - 1] - cut[p + 1] + j
    <3>3. x \in 1..(Len(bytes) - size) /\ size + x = cut[i - 1] - cut[p] + j
      <4>1. PICK a \in Nat, b \in Nat, c \in Nat, d \in Nat, e \in Nat, l \in Nat :
              /\ a = cut[i - 1] /\ b = cut[p + 1] /\ c = cut[p] /\ d = cut[n] /\ e = Size(s[i])
              /\ l = Len(bytes)
        BY <1>2, <1>6, <3>2
      <4>2. b = c + size /\ b <= a /\ a + e <= d /\ l = d - c /\ j \in Nat /\ 1 <= j /\ j <= e
        BY <1>5, <1>6, <3>2, <4>1
      <4>3. a - b + j \in 1..(l - size) /\ size + (a - b + j) = a - c + j
        BY <1>3, <4>2
      <4> QED
        BY <4>1, <4>3
    <3>4. bytes[cut[i - 1] - cut[p] + j] = Frame(s[i])[j]
      BY <1>5, <3>1
    <3> HIDE DEF x
    <3>5. rest[x] = Frame(s[i])[j]
      BY <1>9, <3>3, <3>4
    <3> QED
      BY <3>5 DEF x
  <2> QED
    BY <2>1, <2>2 DEF Laid, n
<1> QED
  BY <1>1, <1>3, <1>7, <1>8, <1>10 DEF Framing, size, rest

LEMMA NothingLeft ==
  ASSUME NEW s \in Seq(Payload), NEW bytes \in Seq(Byte), Framing(bytes, s, Len(s))
  PROVE  Len(bytes) = 0
<1>1. PICK cut : Cuts(s, cut) /\ Laid(bytes, s, Len(s), cut)
  BY DEF Framing
<1>2. Len(s) \in 0..Len(s)
  OBVIOUS
<1> QED
  BY <1>1, <1>2 DEF Cuts, Laid

-----------------------------------------------------------------------------
(***************************************************************************)
(* The inductive invariant.  With a sender that frames, what is in buf_    *)
(* and on its way are the frames of the messages not picked yet.  From     *)
(* PressureTestClient there is less than a header.                         *)
(***************************************************************************)
Arrived == buf \o stream

PickedSent ==
  Len(picked) <= Len(sent) /\ \A i \in 1..Len(picked) : picked[i] = sent[i]

\* The last pickMessage() found no whole message, and none came since.
NoneWhole ==
  starved /\ Len(picked) < Len(sent) => Len(buf) < Size(sent[Len(picked) + 1])

Framed == PickedSent /\ NoneWhole /\ Framing(Arrived, sent, Len(picked))

Pressed ==
  /\ picked = << >> /\ Len(Arrived) <= 3
  /\ sent = << >> => Len(Arrived) = 0

IInv == TypeOK /\ (client = "framed" => Framed) /\ (client = "pressure" => Pressed)

LEMMA Kinds ==
  ASSUME TypeOK
  PROVE  /\ sent \in Seq(Payload) /\ picked \in Seq(Seq(Byte)) /\ Len(sent) \in Nat /\ Len(picked) \in Nat
         /\ buf \in Seq(Byte) /\ stream \in Seq(Byte) /\ Arrived \in Seq(Byte)
         /\ Len(buf) \in Nat /\ Len(stream) \in Nat /\ Len(Arrived) = Len(buf) + Len(stream)
         /\ \A i \in 1..Len(buf) : Arrived[i] = buf[i]
<1>1. buf \in Seq(Byte) /\ stream \in Seq(Byte) /\ sent \in Seq(Payload) /\ picked \in Seq(Seq(Byte))
  BY DEF TypeOK
<1>2. /\ Len(buf) \in Nat /\ Len(stream) \in Nat /\ Len(sent) \in Nat /\ Len(picked) \in Nat
  BY <1>1, LenProperties
<1>3. /\ Arrived \in Seq(Byte) /\ Len(Arrived) = Len(buf) + Len(stream)
      /\ \A i \in 1..(Len(buf) + Len(stream)) :
           Arrived[i] = IF i <= Len(buf) THEN buf[i] ELSE stream[i - Len(buf)]
  BY <1>1, ConcatProperties DEF Arrived
<1>4. ASSUME NEW i \in 1..Len(buf) PROVE Arrived[i] = buf[i]
  <2>1. i \in 1..(Len(buf) + Len(stream)) /\ i <= Len(buf)
    BY <1>2
  <2> QED
    BY <1>3, <2>1
<1> QED
  BY <1>1, <1>2, <1>3, <1>4

LEMMA Associative == \A a, b, c \in Seq(Byte) : (a \o b) \o c = a \o (b \o c)
  OBVIOUS

\* read() and append() move bytes from one to the other.
LEMMA ReadMoves ==
  ASSUME TypeOK, NEW n \in 1..Len(stream), AppendRead(n) PROVE Arrived' = Arrived
<1> DEFINE a == SubSeq(stream, 1, n)
           b == SubSeq(stream, n + 1, Len(stream))
<1>1. stream \in Seq(Byte) /\ buf \in Seq(Byte) /\ Len(stream) \in Nat
  BY Kinds
<1>2. a \in Seq(Byte) /\ b \in Seq(Byte)
  BY <1>1, Part
<1>3. a \o b = stream
  <2>1. 1 \in 1..(Len(stream) + 1) /\ n \in (1 - 1)..Len(stream) /\ Len(stream) \in n..Len(stream)
    BY <1>1
  <2>2. a \o b = SubSeq(stream, 1, Len(stream))
    BY <1>1, <2>1, ConcatAdjacentSubSeq
  <2> QED
    BY <1>1, <2>2, SubSeqFull
<1>4. Arrived' = (buf \o a) \o b
  BY DEF AppendRead, Arrived
<1> HIDE DEF a, b
<1>5. (buf \o a) \o b = buf \o (a \o b)
  BY <1>1, <1>2, Associative, Zenon
<1> QED
  BY <1>3, <1>4, <1>5 DEF Arrived

(***************************************************************************)
(* pickMessage() with a sender that frames: the header is the one of the   *)
(* first message not picked, if it is there at all.                        *)
(***************************************************************************)
LEMMA HeaderRead ==
  ASSUME HeadersFit, TypeOK, Framed, NEW h \in HeadersRead, Len(buf) >= 4
  PROVE  /\ Len(picked) < Len(sent) /\ sent[Len(picked) + 1] \in Payload
         /\ Decode(h) = Len(sent[Len(picked) + 1])
<1>1. Len(picked) \in 0..Len(sent)
  BY Kinds DEF Framed, PickedSent
<1>2. Len(picked) < Len(sent)
  <2>1. SUFFICES ASSUME Len(picked) = Len(sent) PROVE FALSE
    BY <1>1
  <2>2. Len(Arrived) = 0
    BY <2>1, Kinds, NothingLeft DEF Framed
  <2>3. Len(Arrived) = Len(buf) + Len(stream) /\ Len(buf) \in Nat /\ Len(stream) \in Nat
    BY Kinds
  <2> QED
    BY <2>2, <2>3
<1> DEFINE data == sent[Len(picked) + 1]
<1>3. /\ data \in Payload /\ Size(data) <= Len(Arrived)
      /\ \A j \in 1..Size(data) : Arrived[j] = Frame(data)[j]
  BY <1>1, <1>2, Kinds, FrameTaken DEF Framed, HeadersFit
<1> HIDE DEF data
<1>4. Size(data) \in Nat /\ Size(data) >= 4 /\ \A j \in 1..4 : Frame(data)[j] = Header(Len(data))[j]
  BY <1>3, FrameIs DEF HeadersFit
<1>5. \A j \in 1..4 : buf[j] = Header(Len(data))[j]
  <2> TAKE j \in 1..4
  <2>1. j \in 1..Len(buf) /\ j \in 1..Size(data)
    BY <1>4, Kinds
  <2> QED
    BY <1>3, <1>4, <2>1, Kinds
<1>6. h \in [1..4 -> Byte] /\ \A j \in 1..4 : h[j] = buf[j]
  <2>1. \A j \in 1..4 : j <= Len(buf)
    BY Kinds
  <2> QED
    BY <2>1 DEF HeadersRead
<1>7. Len(data) \in Nat /\ Header(Len(data)) \in [1..4 -> Byte]
  BY <1>3, PayloadIsBytes, HeaderIsBytes
<1>8. h = Header(Len(data))
  BY <1>5, <1>6, <1>7
<1>9. Decode(h) = Len(data)
  <2>1. 2 * (Len(data) + 4) < Int32 /\ Int32 \in Nat
    BY <1>3, Weights DEF HeadersFit
  <2>2. 2 * Len(data) < Int32
    BY <1>7, <2>1
  <2> QED
    BY <1>7, <1>8, <2>2, HeaderGivesLength
<1> QED
  BY <1>2, <1>3, <1>9 DEF data

\* With less than a header nothing is ever picked.
LEMMA WholeHeader ==
  ASSUME Sep = 1, TypeOK, buf # << >>, NEW h \in HeadersRead, ~Incomplete(Decode(h))
  PROVE  Len(buf) >= 4
<1>1. PICK l \in Nat : l = Len(buf) /\ l # 0
  BY Kinds, EmptySeq
<1>2. l \notin 1..3
  BY <1>1, PartialHeader
<1>3. l >= 4
  BY <1>1, <1>2
<1> QED
  BY <1>1, <1>3

-----------------------------------------------------------------------------
LEMMA InitIInv == Init => IInv
<1> SUFFICES ASSUME Init PROVE IInv
  OBVIOUS
<1>1. Arrived = << >> /\ Len(Arrived) = 0 /\ Len(picked) = 0 /\ sent = << >> /\ Len(sent) = 0
      /\ picked = << >>
  BY DEF Init, Arrived
<1>2. Framed
  BY <1>1, NothingFramed DEF Framed, PickedSent, NoneWhole
<1>3. Pressed
  BY <1>1 DEF Pressed
<1> QED
  BY <1>2, <1>3, InitTypeOK DEF IInv

LEMMA AppendSepStep ==
  ASSUME HeadersFit, IInv, NEW data \in Payload, AppendSep(data) PROVE IInv'
<1>1. TypeOK /\ Framed /\ client = "framed" /\ client' = client /\ buf' = buf /\ picked' = picked
      /\ starved' = starved /\ stream' = stream \o Frame(data) /\ sent' = Append(sent, data)
  BY DEF IInv, AppendSep
<1>2. TypeOK'
  BY <1>1, NextTypeOK DEF Next
<1>3. Frame(data) \in Seq(Byte)
  BY FrameIs DEF HeadersFit
<1>4. Arrived' = Arrived \o Frame(data)
  <2>1. (buf \o stream) \o Frame(data) = buf \o (stream \o Frame(data))
    BY <1>1, <1>3, Kinds, Associative, Zenon
  <2> QED
    BY <1>1, <2>1 DEF Arrived
<1>5. Len(picked) \in 0..Len(sent) /\ Len(sent) \in Nat
  BY <1>1, Kinds DEF Framed, PickedSent
<1>6. Framing(Arrived, sent, Len(picked)) /\ Arrived \in Seq(Byte) /\ sent \in Seq(Payload)
  BY <1>1, Kinds DEF Framed
<1>7. Framing(Arrived', sent', Len(picked'))
  BY <1>1, <1>4, <1>5, <1>6, FrameAdded DEF HeadersFit
<1>8. Len(sent') = Len(sent) + 1 /\ sent'[Len(sent) + 1] = data /\ \A i \in 1..Len(sent) : sent'[i] = sent[i]
  BY <1>1, <1>6
<1>9. PickedSent'
  <2>1. \A i \in 1..Len(picked) : i \in 1..Len(sent)
    BY <1>5
  <2> QED
    BY <1>1, <1>5, <1>8, <2>1 DEF Framed, PickedSent
<1>10. NoneWhole'
  <2>1. CASE Len(picked) < Len(sent)
    <3>1. Len(picked) + 1 \in 1..Len(sent)
      BY <1>5, <2>1
    <3> QED
      BY <1>1, <1>8, <2>1, <3>1 DEF Framed, NoneWhole
  <2>2. CASE Len(picked) = Len(sent)
    <3>1. Len(Arrived) = 0
      BY <1>6, <2>2, NothingLeft
    <3>2. Len(buf) = 0
      BY <1>1, <3>1, Kinds
    <3>3. Size(data) >= 4 /\ Size(data) \in Nat
      BY FrameIs DEF HeadersFit
    <3>4. Len(buf) < Size(data)
      BY <3>2, <3>3
    <3> QED
      BY <1>1, <1>8, <2>2, <3>4 DEF NoneWhole
  <2> QED
    BY <1>5, <2>1, <2>2
<1> QED
  BY <1>1, <1>2, <1>7, <1>9, <1>10 DEF IInv, Framed

LEMMA PressureSendStep ==
  ASSUME IInv, NEW message \in Payload, PressureSend(message) PROVE IInv'
<1>1. TypeOK /\ Pressed /\ client = "pressure" /\ client' = client /\ buf' = buf /\ picked' = picked
      /\ sent = << >> /\ sent' = <<message>>
  BY DEF IInv, PressureSend
<1>2. TypeOK'
  BY <1>1, NextTypeOK DEF Next
<1>3. PICK n \in 1..4 : stream' = SubSeq(SendBuffer(message), 1, n - 1)
  BY DEF PressureSend
<1>4. SendBuffer(message) \in Seq(Byte) /\ Len(SendBuffer(message)) = 4
  BY PayloadIsBytes, HeaderIsSeq DEF SendBuffer
<1>5. Len(stream') <= 3 /\ stream' \in Seq(Byte) /\ Len(stream') \in Nat
  <2>1. PICK k \in 0..3 : k = n - 1
    OBVIOUS
  <2>2. k \in Int /\ 1 \in Nat \ {0} /\ k <= Len(SendBuffer(message))
    BY <1>4
  <2>3. /\ SubSeq(SendBuffer(message), 1, k) \in Seq(Byte)
        /\ Len(SubSeq(SendBuffer(message), 1, k)) = IF 1 <= k THEN k - 1 + 1 ELSE 0
    BY <1>4, <2>2, Part
  <2> QED
    BY <1>3, <2>1, <2>3
<1>6. Len(buf) = 0 /\ buf = << >>
  <2>1. Len(buf) = 0
    <3>1. PICK l \in Nat, k \in Nat : l = Len(buf) /\ k = Len(stream)
      BY <1>1, Kinds
    <3>2. l + k = 0
      BY <1>1, <3>1, Kinds DEF Pressed
    <3> QED
      BY <3>1, <3>2
  <2> QED
    BY <1>1, <2>1, Kinds, EmptySeq
<1>7. Arrived' = stream'
  BY <1>1, <1>5, <1>6, ConcatEmptySeq DEF Arrived
<1>8. sent' # << >>
  BY <1>1
<1> QED
  BY <1>1, <1>2, <1>5, <1>7, <1>8 DEF IInv, Pressed

LEMMA AppendReadStep ==
  ASSUME IInv, NEW n \in 1..Len(stream), AppendRead(n) PROVE IInv'
<1>1. TypeOK /\ client' = client /\ sent' = sent /\ picked' = picked /\ starved' = FALSE
  BY DEF IInv, AppendRead
<1>2. TypeOK'
  BY <1>1, NextTypeOK DEF Next
<1>3. Arrived' = Arrived
  BY <1>1, ReadMoves
<1>4. Framed => Framed'
  BY <1>1, <1>3 DEF Framed, PickedSent, NoneWhole
<1>5. Pressed => Pressed'
  BY <1>1, <1>3 DEF Pressed
<1> QED
  BY <1>1, <1>2, <1>4, <1>5 DEF IInv

LEMMA PickNothingStep == ASSUME HeadersFit, IInv, PickNothing PROVE IInv'
<1>1. TypeOK /\ UNCHANGED <<client, sent, stream, buf, picked>>
  BY DEF IInv, PickNothing
<1>2. TypeOK'
  BY <1>1, NextTypeOK DEF Next
<1>3. Arrived' = Arrived
  BY <1>1 DEF Arrived
<1>4. ASSUME Framed PROVE Framed'
  <2>1. ASSUME Len(picked) < Len(sent) PROVE Len(buf) < Size(sent[Len(picked) + 1])
    <3> DEFINE data == sent[Len(picked) + 1]
    <3>1. data \in Payload
      BY <1>1, <2>1, Kinds
    <3>2. Size(data) \in Nat /\ Size(data) >= 4 /\ Len(data) \in Nat /\ Size(data) = 4 + Len(data)
      BY <3>1, FrameIs, PayloadIsBytes DEF HeadersFit, Size
    <3> HIDE DEF data
    <3>3. CASE Len(buf) < 4
      BY <1>1, <3>2, <3>3, Kinds DEF data
    <3>4. CASE Len(buf) >= 4
      <4>1. buf # << >>
        BY <3>4, EmptySeq
      <4>2. PICK h \in HeadersRead : Incomplete(Decode(h))
        BY <4>1 DEF PickNothing
      <4>3. Decode(h) = Len(data)
        BY <1>1, <1>4, <3>4, HeaderRead DEF data
      <4>4. Len(buf) < Len(data) + 4
        BY <3>2, <4>2, <4>3 DEF Incomplete
      <4> QED
        BY <3>2, <4>4 DEF data
    <3> QED
      BY <1>1, <3>3, <3>4, Kinds
  <2>2. PickedSent' /\ NoneWhole'
    BY <1>1, <1>4, <2>1 DEF Framed, PickedSent, NoneWhole
  <2>3. Framing(Arrived', sent', Len(picked'))
    BY <1>1, <1>3, <1>4 DEF Framed
  <2> QED
    BY <2>2, <2>3 DEF Framed
<1>5. Pressed => Pressed'
  BY <1>1, <1>3 DEF Pressed
<1> QED
  BY <1>1, <1>2, <1>4, <1>5 DEF IInv

(***************************************************************************)
(* pickMessage() that returns true: the message is the first not picked,   *)
(* and what is left begins with the frame of the next.                     *)
(***************************************************************************)
LEMMA PickMessageStep == ASSUME HeadersFit, IInv, PickMessage PROVE IInv'
<1>1. TypeOK /\ UNCHANGED <<client, sent, stream, starved>> /\ ~starved /\ buf # << >> /\ Sep = 1
  BY DEF IInv, PickMessage, HeadersFit
<1>2. TypeOK'
  BY <1>1, NextTypeOK DEF Next
<1>3. PICK len \in Int, last \in Int, h \in HeadersRead :
        /\ len = Decode(h) /\ ~Incomplete(len) /\ (len >= 0 => last = 4 + len)
        /\ picked' = Append(picked, SubSeq(buf, 4 + 1, last))
        /\ buf' = SubSeq(buf, 4 + len + 1, Len(buf))
  BY <1>1, PickTakes
<1>4. Len(buf) >= 4
  BY <1>1, <1>3, WholeHeader
<1>5. CASE client = "framed"
  <2>1. Framed
    BY <1>5 DEF IInv
  <2> DEFINE p == Len(picked)
             data == sent[p + 1]
             size == Size(data)
  <2>2. p < Len(sent) /\ data \in Payload /\ len = Len(data)
    BY <1>1, <1>3, <1>4, <2>1, HeaderRead
  <2>3. p \in 0..Len(sent) /\ p \in Nat /\ Len(sent) \in Nat
    BY <1>1, <2>1, Kinds DEF Framed, PickedSent
  <2>4. /\ size <= Len(Arrived) /\ \A j \in 1..size : Arrived[j] = Frame(data)[j]
        /\ Framing(SubSeq(Arrived, size + 1, Len(Arrived)), sent, p + 1)
    BY <1>1, <2>1, <2>2, <2>3, Kinds, FrameTaken DEF Framed
  <2> HIDE DEF p, data, size
  <2>5. /\ size = 4 + len /\ size \in Nat /\ len \in Nat /\ data \in Seq(Byte)
        /\ \A j \in 1..len : Frame(data)[4 + j] = data[j]
    BY <1>1, <2>2, FrameIs, PayloadIsBytes DEF Size, size
  <2>6. size <= Len(buf)
    <3>1. PICK l \in Nat : l = Len(buf)
      BY <1>1, Kinds
    <3>2. 4 + len <= l
      BY <1>3, <2>5, <3>1 DEF Incomplete
    <3> QED
      BY <2>5, <3>1, <3>2
  <2> DEFINE message == SubSeq(buf, 4 + 1, 4 + len)
  <2>7. message = data
    <3>1. buf \in Seq(Byte) /\ 4 + 1 \in Nat \ {0} /\ 4 + len \in Int /\ 4 + len <= Len(buf)
      BY <1>1, <2>5, <2>6, Kinds
    <3>2. /\ message \in Seq(Byte)
          /\ Len(message) = IF 4 + 1 <= 4 + len THEN 4 + len - (4 + 1) + 1 ELSE 0
          /\ \A i \in 1..(4 + len - (4 + 1) + 1) : message[i] = buf[4 + 1 + i - 1]
      BY <3>1, Part
    <3> HIDE DEF message
    <3>3. 4 + len - (4 + 1) + 1 = len
      BY <2>5
    <3>4. Len(message) = Len(data)
      BY <2>2, <2>5, <3>2, <3>3
    <3>5. ASSUME NEW i \in 1..Len(data) PROVE message[i] = data[i]
      <4>1. i \in 1..len /\ 4 + 1 + i - 1 = 4 + i /\ 4 + i \in 1..size /\ 4 + i \in 1..Len(buf)
        <5>1. PICK l \in Nat : l = Len(buf) /\ size <= l
          BY <1>1, <2>6, Kinds
        <5>2. i \in 1..len /\ 4 + i \in 1..size /\ 4 + i \in 1..l
          BY <2>2, <2>5, <5>1
        <5> QED
          BY <5>1, <5>2
      <4>2. message[i] = buf[4 + i]
        BY <3>2, <3>3, <4>1
      <4>3. buf[4 + i] = Arrived[4 + i]
        BY <1>1, <4>1, Kinds
      <4> QED
        BY <2>4, <2>5, <4>1, <4>2, <4>3
    <3> QED
      BY <2>5, <3>2, <3>4, <3>5, SeqEqual
  <2>8. picked' = Append(picked, data)
    <3>1. last = 4 + len
      BY <1>3, <2>5
    <3>2. picked' = Append(picked, message)
      BY <1>3, <3>1
    <3> QED
      BY <2>7, <3>2
  <2>9. Len(picked') = p + 1 /\ picked'[p + 1] = data /\ \A i \in 1..p : picked'[i] = picked[i]
    BY <1>1, <2>2, <2>5, <2>8, Kinds DEF p
  <2>10. PickedSent'
    <3>1. \A i \in 1..(p + 1) : i \in 1..p \/ i = p + 1
      BY <2>3
    <3> QED
      BY <1>1, <2>1, <2>2, <2>3, <2>9, <3>1 DEF Framed, PickedSent, p, data
  <2>11. Framing(Arrived', sent', Len(picked'))
    <3>1. Arrived' = SubSeq(Arrived, size + 1, Len(Arrived))
      <4>1. Arrived' = SubSeq(buf, size + 1, Len(buf)) \o stream
        BY <1>1, <1>3, <2>5 DEF Arrived
      <4>2. SubSeq(buf, size + 1, Len(buf)) \o stream = SubSeq(buf \o stream, size + 1, Len(buf \o stream))
        BY <1>1, <2>5, <2>6, Kinds, RestOfConcat
      <4> QED
        BY <4>1, <4>2 DEF Arrived
    <3> QED
      BY <1>1, <2>4, <2>9, <3>1
  <2>12. NoneWhole'
    BY <1>1 DEF NoneWhole
  <2> QED
    BY <1>1, <1>2, <1>5, <2>10, <2>11, <2>12 DEF IInv, Framed
<1>6. CASE client = "pressure"
  <2>1. Len(Arrived) <= 3
    BY <1>6 DEF IInv, Pressed
  <2>2. FALSE
    BY <1>1, <1>4, <2>1, Kinds
  <2> QED
    BY <2>2
<1> QED
  BY <1>1, <1>2, <1>5, <1>6 DEF IInv

LEMMA NextIInv == ASSUME HeadersFit PROVE IInv /\ [Next]_vars => IInv'
<1> SUFFICES ASSUME IInv, [Next]_vars PROVE IInv'
  OBVIOUS
<1>1. CASE Next
  BY <1>1, AppendSepStep, PressureSendStep, AppendReadStep, PickMessageStep, PickNothingStep DEF Next
<1>2. CASE UNCHANGED vars
  <2>1. TypeOK' /\ Arrived' = Arrived
    BY <1>2, NextTypeOK DEF IInv, vars, Arrived
  <2> QED
    BY <1>2, <2>1 DEF vars, IInv, Framed, PickedSent, NoneWhole, Pressed
<1> QED
  BY <1>1, <1>2

THEOREM Invariance == ASSUME HeadersFit PROVE Spec => []IInv
  BY InitIInv, NextIInv, PTL DEF Spec

-----------------------------------------------------------------------------
(***************************************************************************)
(* pickMessage() returns the messages that were sent, whole, in order and  *)
(* none else, for any bytes and any cuts: also with a header in pieces and *)
(* stale memory behind it.                                                 *)
(***************************************************************************)
THEOREM PicksWhatWasSent == ASSUME HeadersFit PROVE Spec => []MessagesIntact
<1>1. ASSUME IInv PROVE MessagesIntact
  <2>1. CASE client = "framed"
    <3>1. Len(picked) <= Len(sent) /\ \A i \in 1..Len(picked) : picked[i] = sent[i]
      BY <1>1, <2>1 DEF IInv, Framed, PickedSent
    <3>2. SubSeq(picked, 1, Len(picked)) = SubSeq(sent, 1, Len(picked))
      <4> DEFINE a == SubSeq(picked, 1, Len(picked))
                 b == SubSeq(sent, 1, Len(picked))
      <4>1. Len(picked) \in Nat /\ Len(sent) \in Nat /\ picked \in Seq(Seq(Byte)) /\ sent \in Seq(Payload)
        BY <1>1, Kinds DEF IInv
      <4>2. \A i \in 1..Len(picked) : picked[i] \in Seq(Byte) /\ sent[i] \in Seq(Byte)
        BY <3>1, <4>1
      <4>3. /\ a \in Seq(Seq(Byte)) /\ Len(a) = (IF 1 <= Len(picked) THEN Len(picked) - 1 + 1 ELSE 0)
            /\ \A i \in 1..(Len(picked) - 1 + 1) : a[i] = picked[1 + i - 1]
        BY <4>1, <4>2, SubSeqProperties
      <4>4. /\ b \in Seq(Seq(Byte)) /\ Len(b) = (IF 1 <= Len(picked) THEN Len(picked) - 1 + 1 ELSE 0)
            /\ \A i \in 1..(Len(picked) - 1 + 1) : b[i] = sent[1 + i - 1]
        BY <4>1, <4>2, SubSeqProperties
      <4> HIDE DEF a, b
      <4>5. Len(a) = Len(b) /\ \A i \in 1..Len(a) : a[i] = b[i]
        BY <3>1, <4>1, <4>3, <4>4
      <4>6. a = b
        BY <4>3, <4>4, <4>5, SeqEqual
      <4> QED
        BY <4>6 DEF a, b
    <3> QED
      BY <2>1, <3>1, <3>2 DEF MessagesIntact, IsPrefix
  <2>2. CASE client = "pressure"
    BY <1>1, <2>2 DEF IInv, Pressed, MessagesIntact, IsPrefix
  <2> QED
    BY <1>1, <2>1, <2>2 DEF IInv, TypeOK
<1> QED
  BY <1>1, Invariance, PTL

(***************************************************************************)
(* When pickMessage() returns false, no whole message is left in buf_, and *)
(* when nothing more is on its way all that was sent has been picked.      *)
(***************************************************************************)
THEOREM NoMessageLeftBehind == ASSUME HeadersFit PROVE Spec => []NothingStuck
<1>1. ASSUME IInv PROVE NothingStuck
  <2> SUFFICES ASSUME starved, client = "framed"
               PROVE  /\ stream = << >> => picked = sent
                      /\ Len(picked) < Len(sent) => Len(buf) < Len(Frame(sent[Len(picked) + 1]))
    BY DEF NothingStuck
  <2>1. TypeOK /\ Framed
    BY <1>1 DEF IInv
  <2>2. ASSUME Len(picked) < Len(sent)
        PROVE  /\ sent[Len(picked) + 1] \in Payload
               /\ Len(buf) < Size(sent[Len(picked) + 1]) /\ Size(sent[Len(picked) + 1]) <= Len(Arrived)
    <3>1. Len(picked) \in 0..Len(sent)
      BY <2>1, Kinds DEF Framed, PickedSent
    <3> QED
      BY <2>1, <2>2, <3>1, Kinds, FrameTaken DEF Framed, NoneWhole, HeadersFit
  <2>3. ASSUME stream = << >> PROVE picked = sent
    <3>1. Len(Arrived) = Len(buf)
      BY <2>1, <2>3, Kinds, EmptySeq
    <3>2. Len(picked) = Len(sent)
      <4>1. ~(Len(picked) < Len(sent))
        <5> SUFFICES ASSUME Len(picked) < Len(sent) PROVE FALSE
          OBVIOUS
        <5>1. PICK size \in Nat : size = Size(sent[Len(picked) + 1])
          BY <2>2, FrameIs DEF HeadersFit
        <5>2. PICK l \in Nat : l = Len(buf)
          BY <2>1, Kinds
        <5>3. l < size /\ size <= l
          BY <2>2, <3>1, <5>1, <5>2
        <5> QED
          BY <5>3
      <4>2. Len(picked) <= Len(sent) /\ Len(picked) \in Nat /\ Len(sent) \in Nat
        BY <2>1, Kinds DEF Framed, PickedSent
      <4> QED
        BY <4>1, <4>2
    <3>3. sent \in Seq(Seq(Byte)) /\ picked \in Seq(Seq(Byte))
      <4>1. Payload \subseteq Seq(Byte)
        BY PayloadIsBytes
      <4> QED
        BY <2>1, <4>1, Kinds, SeqMonotonic
    <3>4. \A i \in 1..Len(picked) : picked[i] = sent[i]
      BY <2>1 DEF Framed, PickedSent
    <3> QED
      BY <3>2, <3>3, <3>4, SeqEqual
  <2>4. ASSUME Len(picked) < Len(sent) PROVE Len(buf) < Len(Frame(sent[Len(picked) + 1]))
    BY <2>2, <2>4, FrameIs DEF HeadersFit
  <2> QED
    BY <2>3, <2>4
<1> QED
  BY <1>1, Invariance, PTL
=============================================================================
