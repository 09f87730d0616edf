---------------------------- MODULE MCSendQueue ----------------------------
\* SendQueue with a few threads and packets.
EXTENDS SendQueue, TLC

=============================================================================
