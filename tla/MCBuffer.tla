------------------------------ MODULE MCBuffer ------------------------------
\* Bytes of four values, two of them in the sign's half.  Payloads of none to
\* four bytes, among them ones that look like headers or parts of one.
EXTENDS Buffer

payloads == {<< >>, <<1>>, <<3, 3, 3>>, <<0, 1, 0, 0>>}
=============================================================================
