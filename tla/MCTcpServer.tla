---------------------------- MODULE MCTcpServer ----------------------------
\* Two clients: with two descriptors both are connected at once, and with one
\* the second connects only on the fd that the first one's destruction frees.
EXTENDS TcpServer, TLC

symmetry == Permutations(Conn)
=============================================================================
