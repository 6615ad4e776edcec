----------------------------- MODULE MCEventLoop -----------------------------
\* Two callers, three tasks: while one task runs another caller can push and
\* wake, so that a wakeup can be merged with an earlier one.  epoll_wait()
\* returns two of the three channels, so that the wakeup can be left out.
EXTENDS EventLoop
=============================================================================
