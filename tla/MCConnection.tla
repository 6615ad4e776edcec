---------------------------- MODULE MCConnection ----------------------------
\* Three requests in halves: one being answered, one in a worker's hands, one
\* arriving.  The socket takes two replies at once, so three are too many.
EXTENDS Connection
=============================================================================
