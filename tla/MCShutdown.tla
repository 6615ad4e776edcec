----------------------------- MODULE MCShutdown -----------------------------
\* Two workers and one request: one worker can be busy, or need a lock, while
\* notify_all() misses the other.  One IO thread: the loops share nothing here.
\* Two signals: the second one's handler nests in the first's or runs on a
\* thread of a pool.
EXTENDS Shutdown
=============================================================================
