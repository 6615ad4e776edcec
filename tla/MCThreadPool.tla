---------------------------- MODULE MCThreadPool ----------------------------
\* Three workers: stop() can meet one inside wait()'s window and two asleep.
\* Two submitters and three tasks: a notify can find several workers asleep,
\* one or none, and more tasks can wait than notifies are on their way.
EXTENDS ThreadPool
=============================================================================
