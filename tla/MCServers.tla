------------------------------ MODULE MCServers ------------------------------
(***************************************************************************)
(* One TLC instance for the two programs that serve requests: the sessions *)
(* of connection_server, and the worker threads of xylx with the database  *)
(* (the program connection_server is linked with the same processor, which *)
(* it does not call).  The initial state chooses the one that runs.        *)
(***************************************************************************)
EXTENDS ConnectionServer, Processor

CONSTANTS c1, c2, c3, s1

VARIABLE which

\* The last does not fit into the ring.
MCClientCmds == {LOGIN, REQ, [REQ EXCEPT !.len = 5]}
MCServerCmds == {RSP(1), BAD, UNKNOWN}
MCPlans == { [conns |-> {c1, s1}, msgs |-> 3, ticks |-> 0],
             [conns |-> {c1, c2}, msgs |-> 1, ticks |-> 3],
             [conns |-> {c1}, msgs |-> 3, ticks |-> 4],
             [conns |-> {c1, c2, s1}, msgs |-> 2, ticks |-> 0],
             [conns |-> {c1, c2, c3}, msgs |-> 0, ticks |-> 3] }

MCInit == /\ Init /\ ProcInit
          /\ which \in {"sessions", "requests"}
          \* one initial state each of the program that does not run
          /\ which = "requests" => plan.conns = {c1}
          /\ which = "sessions" => \A w \in DBWorkers : m_mysql[w]

MCNext == \/ which = "sessions" /\ Next /\ UNCHANGED <<which, procVars>>
          \/ which = "requests" /\ ProcNext /\ UNCHANGED <<which, vars>>

MCSpec == MCInit /\ [][MCNext]_<<which, vars, procVars>>
=============================================================================
