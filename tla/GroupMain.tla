----------------------------- MODULE GroupMain -----------------------------
(***************************************************************************)
(* The program xylx around GroupDb and GroupConn: main() reads the         *)
(* configuration, runs the server itself or in child processes it forks,   *)
(* waits for the signal to stop and tears down.  A run is one process; the *)
(* processes share nothing the model has.  The steps of the network thread *)
(* and of the workers are those of GroupDb, with NetPacket taken by the    *)
(* connection.                                                             *)
(***************************************************************************)
EXTENDS GroupConn

VARIABLES role,      \* "only", "parent", "child", or "negative": a count below 0
          phase,     \* of main()
          made,      \* the work_thread objects of m_work_threads that exist
          deleted,   \* those uninit has deleted
          g_run,
          wild       \* a pointer never set was used, or a thread's object deleted

mainVars == <<role, phase, made, deleted, g_run, wild>>
allVars == <<vars, connVars, mainVars>>

MainInit ==
    /\ Init /\ ConnInit
    /\ role = "only" /\ phase = "init"
    /\ made = {} /\ deleted = {}
    /\ g_run = TRUE
    /\ wild = FALSE

SameGroup == UNCHANGED <<vars, connVars>>

\* group_db::init: a configuration that lacks a name ends the program.
InitDb ==
    /\ phase = "init"
    /\ phase' \in {"inited", "exited"}
    /\ SameGroup /\ UNCHANGED <<role, made, deleted, g_run, wild>>

\* fork(), if children are asked for; a parent only waits.  The count is what
\* atoi makes of an argument: one below 0 forks nothing and starts the threads.
Fork ==
    /\ phase = "inited"
    /\ \E r \in {"only", "parent", "child", "negative"} :
          /\ role' = r
          /\ phase' = IF r = "parent" THEN "wait" ELSE "start"
    /\ SameGroup /\ UNCHANGED <<made, deleted, g_run, wild>>

\* group_db::start_thread.  Without a net_thread no worker is made; that
\* listening, or a worker's connection to the database, fails stops nothing,
\* and main() does not look at the result.
StartThread ==
    /\ phase = "start"
    /\ made' \in {{}, Workers}
    /\ phase' = "run"
    /\ SameGroup /\ UNCHANGED <<role, deleted, g_run, wild>>

\* group_db::run: threads on whatever m_work_threads holds
RunDb ==
    /\ phase = "run"
    /\ IF made = Workers THEN Run /\ UNCHANGED <<connVars, wild>>
       ELSE wild' = TRUE /\ SameGroup
    /\ phase' = "wait"
    /\ UNCHANGED <<role, made, deleted, g_run>>

\* SIGTERM or SIGHUP, at any time: the handler clears g_run; a child also
\* leaves when its parent is gone.
Signal ==
    /\ phase # "exited" /\ g_run
    /\ g_run' = FALSE
    /\ SameGroup /\ UNCHANGED <<role, phase, made, deleted, wild>>

\* group_db::stop, of a child, or where child_count == 0
Stop ==
    /\ phase = "wait" /\ ~g_run
    /\ role \in {"only", "child"}
    /\ StopNet
    /\ UNCHANGED <<connVars, mainVars>>

\* Mutant: uninit does not wait for stop.
StoppedOrNot == mainpc # "inited"
Stopped == IF role \in {"only", "child"} THEN mainpc = "stopped" ELSE ~g_run

\* group_db::uninit; m_work_threads is never set by a parent, and nothing looks
\* whether the threads have ended.
Uninit ==
    /\ phase = "wait" /\ Stopped
    /\ deleted' = made
    /\ wild' = (wild \/ made # Workers \/ \E w \in made : wpc[w] # "ended")
    /\ phase' = "exited"
    /\ SameGroup /\ UNCHANGED <<role, made, g_run>>

-----------------------------------------------------------------------------
(* The threads                                                             *)

\* A connection that is read, or whose timer is due, comes first.
NetThread ==
    /\ UNCHANGED mainVars
    /\ \/ (NetStart \/ NetLoop \/ NetOp \/ NetGive) /\ UNCHANGED connVars
       \/ NetOpsDone /\ ~(conn.state = "open" /\ conn.due <= now) /\ UNCHANGED connVars
       \/ NetCtl /\ Idle /\ UNCHANGED connVars
       \/ ConnStep

Worker(w) == WorkerStep(w) /\ UNCHANGED <<connVars, mainVars>>
Main == \/ InitDb \/ Fork \/ StartThread \/ RunDb \/ Stop \/ Uninit
        \/ (StopStep /\ UNCHANGED <<connVars, mainVars>>)
World == Signal \/ ((ClientStep \/ Tick) /\ UNCHANGED mainVars)

MainNext == ~wild /\ (NetThread \/ (\E w \in Workers : Worker(w)) \/ Main \/ World)

MainSpec == /\ MainInit /\ [][MainNext]_allVars
            /\ WF_allVars(~wild /\ NetThread)
            /\ \A w \in Workers : WF_allVars(~wild /\ Worker(w))
            /\ WF_allVars(~wild /\ Main)

-----------------------------------------------------------------------------
(* Properties                                                              *)

\* uninit deletes the objects the workers run on, and the pushes that wake them
\* name the network thread: no worker runs on a deleted object, and none is used
\* that was never made, except by a parent, by a process whose net_thread could
\* not be made, and by one started with a count below 0, which skips stop().
NothingDeletedInUse ==
    /\ role # "negative" =>
         /\ \A w \in deleted : wpc[w] = "ended"
         /\ deleted # {} => netpc = "ended"
    /\ wild => role \in {"parent", "negative"} \/ made = {}

\* What is accepted is processed, also across the signal to stop; only a process
\* that deletes its workers while they run leaves requests behind.
RequestsProcessed ==
    \A m \in 1..MaxPackets : m \in accepted ~> (m \in processed \/ (wild /\ role = "negative"))
=============================================================================
