------------------------------ MODULE MCSockIo ------------------------------
EXTENDS SockIo

\* No limit, and a limit that spans a change of the second
MCWaits == {0, 1}
=============================================================================
