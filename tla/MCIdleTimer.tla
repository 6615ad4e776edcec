---------------------------- MODULE MCIdleTimer ----------------------------
\* timeout_ is 10 and timetvl_ 5, as TcpServer has it; a second has two ticks, so
\* the cut seconds differ by one more or less than the true time.  The bound on
\* time leaves room for the last round of GoneInTime with the clock set back.
EXTENDS IdleTimer
=============================================================================
