---------------------------- MODULE MCThreadPool ----------------------------
\* ThreadPool with a few workers and rooms.
EXTENDS ThreadPool, TLC

=============================================================================
