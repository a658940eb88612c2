----------------------------- MODULE MCGroupDb -----------------------------
(* The program of GroupMain with one client and the streams it may send. *)
EXTENDS GroupMain

Sends(pieces, seconds) == [stream |-> pieces, ticks |-> seconds]
MCClients == { Sends(<<HEAD, REQ(3), REQ(2), REQ(2)>>, 0),
               Sends(<<HEAD, REQ(3), REQ(2)>>, 2),
               Sends(<<HEAD, REQ(2), HEAD>>, 3),
               Sends(<<HEAD, BAD>>, 1),
               Sends(<<REQ(2), REQ(3)>>, 0),
               Sends(<<TEXT(1), HEAD, REQ(2)>>, 0),
               Sends(<<HEAD, REQ(8), REQ(2)>>, 3),
               Sends(<<TEXT(7)>>, 3) }
=============================================================================
