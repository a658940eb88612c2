----------------------------- MODULE ThreadPool -----------------------------
(***************************************************************************)
(* ep::thread_pool and ep::thread (src/ep/ep_thread_pool.cpp:201-696): the *)
(* owner runs, stops and frees the pool; permanent threads serve the queue *)
(* for ever; a master thread wakes every m_schedule_span and starts        *)
(* temporary threads when the queue has grown.                             *)
(*                                                                         *)
(* A thread OBJECT (thread, with m_status, m_run, m_create_thread and the  *)
(* handle m_thread) is not an OS thread: run() may be called on an object  *)
(* whose last OS thread has not yet announced itself, or is on its way     *)
(* out.  Temp is the ring of temporary objects; an OS thread started for   *)
(* one of them takes the next of the Slots.                                *)
(*                                                                         *)
(* The task queue is its abstract specification, StoppableQueue, which     *)
(* TaskQueue is shown to implement.                                        *)
(***************************************************************************)
EXTENDS Integers, FiniteSets

CONSTANTS Master,           \* the master thread object
          Permanent,        \* the permanent thread objects (m_threads)
          NTemp,            \* m_tmp_threads_cnt = maxthread - minthread
          Producers,        \* threads that call add_task
          BusyControl,      \* m_busy_control
          TaskQueMaxSize,   \* m_task_que_max_size
          MaxAdds           \* bound of the model: adds accepted or under way

ASSUME PoolAssumption == /\ IsFiniteSet(Permanent) /\ Permanent # {}
                         /\ NTemp \in Nat /\ TaskQueMaxSize \in Nat /\ MaxAdds \in Nat
                         /\ BusyControl \in BOOLEAN
                         /\ IsFiniteSet(Producers)
\* Thread objects are told apart: indices of Temp, and the other objects.
ASSUME ObjectsAssumption == /\ Master \notin Permanent \cup Nat
                            /\ \A o \in Permanent : o \notin Nat

Temp == 0..(NTemp - 1)
\* A start of a temporary thread answers a growth of the queue, so there are
\* no more starts than adds: the slots never run out.
Slots == 1..MaxAdds
Objects == {Master} \cup Permanent \cup Temp
OSThreads == {Master} \cup Permanent \cup Slots

VARIABLES
    m_oplists, m_total_task_cnt, m_stop, got,   \* the queue (StoppableQueue)
    m_run,               \* thread_pool::m_run
    thr,                 \* each thread object: status, run, created
    handle,              \* the OS thread m_thread names, for temporary objects
    obj,                 \* the object an OS thread of a slot runs
    tpc,                 \* where each OS thread is
    m_tmp_thread_idx, m_task_q_past_sz, m_too_busy,
    loc,                 \* the master's locals: task_q_sz, cnt, i, c
    mainpc,              \* where the owner is
    exits,               \* stop()'s exit_tasks offered so far
    cur,                 \* the permanent thread stop() is joining
    ppc                  \* each producer, and the result of its last add_task

queueVars == <<m_oplists, m_total_task_cnt, m_stop, got>>
masterVars == <<m_tmp_thread_idx, m_task_q_past_sz, m_too_busy, loc>>
objVars == <<thr, handle, obj>>
ownerVars == <<mainpc, exits, cur>>
vars == <<queueVars, m_run, objVars, tpc, masterVars, ownerVars, ppc>>

\* Ordinary tasks have priority 0, exit_task the last one.
Q == INSTANCE StoppableQueue WITH Tasks <- {"task", "exit_task"},
                                  MaxPriorityNum <- 2, Takers <- OSThreads

Size == Cardinality(m_oplists)
NoSlot == 0
NoThread == Master
ObjOf(k) == IF k \in Slots THEN obj[k] ELSE k
HandleOf(o) == IF o \in Temp THEN handle[o] ELSE o

\* init(), and the constructors of the threads.
Init ==
    /\ Q!SInit
    /\ m_run = FALSE
    /\ thr = [o \in Objects |-> [status |-> "INIT", run |-> FALSE, created |-> FALSE]]
    /\ handle = [o \in Temp |-> NoSlot]
    /\ obj = [k \in Slots |-> 0]
    /\ tpc = [k \in OSThreads |-> "unused"]
    /\ m_tmp_thread_idx = 0
    /\ m_task_q_past_sz = 0
    /\ m_too_busy = FALSE
    /\ loc = [task_q_sz |-> 0, cnt |-> 0, i |-> 0, c |-> 0]
    /\ mainpc = "inited"
    /\ exits = 0
    /\ cur = NoThread
    /\ ppc = [p \in Producers |-> "out"]

-----------------------------------------------------------------------------
(* thread::run_thread, for every OS thread *)

Goto(k, l) == tpc' = [tpc EXCEPT ![k] = l]

ThreadEnter(k) ==
    /\ tpc[k] = "created"
    /\ thr' = [thr EXCEPT ![ObjOf(k)].status = "RUNNING"]
    /\ Goto(k, "loop")
    /\ UNCHANGED <<queueVars, m_run, handle, obj, masterVars, ownerVars, ppc>>

\* while(t->m_run)
ThreadLoop(k) ==
    /\ tpc[k] = "loop"
    /\ Goto(k, IF thr[ObjOf(k)].run THEN "process" ELSE "leaving")
    /\ UNCHANGED <<queueVars, m_run, objVars, masterVars, ownerVars, ppc>>

\* After the loop: m_run = false, then STATUS_STOP, on the object whichever
\* OS thread it now stands for.
ThreadLeave(k) ==
    /\ tpc[k] = "leaving"
    /\ thr' = [thr EXCEPT ![ObjOf(k)].run = FALSE]
    /\ Goto(k, "left")
    /\ UNCHANGED <<queueVars, m_run, handle, obj, masterVars, ownerVars, ppc>>

ThreadEnd(k) ==
    /\ tpc[k] = "left"
    /\ thr' = [thr EXCEPT ![ObjOf(k)].status = "STOP"]
    /\ Goto(k, "ended")
    /\ UNCHANGED <<queueVars, m_run, handle, obj, masterVars, ownerVars, ppc>>

\* temporary_thread::run_process: no task, no thread.
TemporaryGet(k) ==
    /\ tpc[k] = "process"
    /\ \/ Q!SGet(k) /\ Goto(k, "busy")
       \/ m_oplists = {} /\ Goto(k, "leaving") /\ UNCHANGED queueVars
    /\ UNCHANGED <<m_run, objVars, masterVars, ownerVars, ppc>>

\* permanent_thread::run_process: get_task blocks while the queue is empty.
PermanentGet(k) ==
    /\ tpc[k] = "process"
    /\ Q!SGet(k) /\ Goto(k, "busy")
    /\ UNCHANGED <<m_run, objVars, masterVars, ownerVars, ppc>>

\* The task's run_process, after which it is recycled; an exit_task ends a
\* permanent thread (EP_EXIT_FOR_NULL_TASK), a temporary one just runs it.
RunTask(k) ==
    /\ tpc[k] = "busy"
    /\ Q!SDone(k)
    /\ Goto(k, IF got[k].task = "exit_task" /\ k \in Permanent THEN "leaving" ELSE "loop")
    /\ UNCHANGED <<m_run, objVars, masterVars, ownerVars, ppc>>

-----------------------------------------------------------------------------
(* The master: check_need_more_thread and start_temp_thread *)

NeedMore(sz) == /\ sz > m_task_q_past_sz
                /\ m_total_task_cnt > Cardinality(Permanent)

Least(a, b) == IF a < b THEN a ELSE b

MasterCheck ==
    /\ tpc[Master] = "process"
    /\ m_too_busy' = FALSE
    /\ \/ /\ NeedMore(Size)
          /\ loc' = [task_q_sz |-> Size, cnt |-> Least(Size - m_task_q_past_sz, NTemp),
                     i |-> 0, c |-> 0]
          /\ Goto(Master, "start")
          /\ UNCHANGED m_task_q_past_sz
       \/ /\ ~NeedMore(Size)
          /\ m_task_q_past_sz' = Size
          /\ Goto(Master, "loop")
          /\ UNCHANGED loc
    /\ UNCHANGED <<queueVars, m_run, objVars, m_tmp_thread_idx, ownerVars, ppc>>

MoreToStart == loc.i < loc.cnt /\ loc.c < NTemp

NextIdx == (m_tmp_thread_idx + 1) % NTemp

\* thread::run reads m_status: EP_THREAD_HAS_START, or on to the creation.
MasterTryStart ==
    /\ tpc[Master] = "start"
    /\ MoreToStart
    /\ \/ /\ thr[m_tmp_thread_idx].status = "RUNNING"
          /\ loc' = [loc EXCEPT !.c = @ + 1]
          /\ m_tmp_thread_idx' = NextIdx
          /\ UNCHANGED tpc
       \/ /\ thr[m_tmp_thread_idx].status # "RUNNING"
          /\ Goto(Master, "create")
          /\ UNCHANGED <<loc, m_tmp_thread_idx>>
    /\ UNCHANGED <<queueVars, m_run, objVars, m_task_q_past_sz, m_too_busy,
                   ownerVars, ppc>>

\* m_run = true, pthread_create, m_create_thread = true: the handle now names
\* the new OS thread, whatever it named before.
MasterCreate ==
    /\ tpc[Master] = "create"
    /\ \E k \in Slots :
          /\ tpc[k] = "unused"
          /\ \A j \in Slots : tpc[j] = "unused" => k <= j
          /\ tpc' = [tpc EXCEPT ![k] = "created", ![Master] = "start"]
          /\ obj' = [obj EXCEPT ![k] = m_tmp_thread_idx]
          /\ handle' = [handle EXCEPT ![m_tmp_thread_idx] = k]
    /\ thr' = [thr EXCEPT ![m_tmp_thread_idx] = [@ EXCEPT !.run = TRUE, !.created = TRUE]]
    /\ loc' = [loc EXCEPT !.i = @ + 1, !.c = @ + 1]
    /\ m_tmp_thread_idx' = NextIdx
    /\ UNCHANGED <<queueVars, m_run, m_task_q_past_sz, m_too_busy, ownerVars, ppc>>

\* The rest of check_need_more_thread; then the master sleeps and loops.
MasterStarted ==
    /\ tpc[Master] = "start"
    /\ ~MoreToStart
    /\ m_too_busy' = (loc.i <= 0 /\ BusyControl /\ loc.task_q_sz >= TaskQueMaxSize)
    /\ m_task_q_past_sz' = loc.task_q_sz
    /\ Goto(Master, "loop")
    /\ UNCHANGED <<queueVars, m_run, objVars, m_tmp_thread_idx, loc, ownerVars, ppc>>

-----------------------------------------------------------------------------
(* add_task, called by any thread *)

Adding == {p \in Producers : ppc[p] = "adding"}

AddTaskEnter(p) ==
    /\ ppc[p] # "adding"
    /\ m_total_task_cnt + Cardinality(Adding) < MaxAdds
    /\ mainpc # "freed"
    /\ ppc' = [ppc EXCEPT ![p] = IF m_run THEN "adding" ELSE "DO_NOT_START"]
    /\ UNCHANGED <<queueVars, m_run, objVars, tpc, masterVars, ownerVars>>

\* m_task_q->add_task, and what its refusal is called.
AddTaskQueue(p) ==
    /\ ppc[p] = "adding"
    /\ \/ Q!SAdd("task", 0) /\ ppc' = [ppc EXCEPT ![p] = "out"]
       \/ /\ m_stop
          /\ ppc' = [ppc EXCEPT ![p] = IF m_too_busy THEN "TOO_BUSY" ELSE "refused"]
          /\ UNCHANGED queueVars
    /\ UNCHANGED <<m_run, objVars, tpc, masterVars, ownerVars>>

-----------------------------------------------------------------------------
(* The owner: run, stop and free *)

\* thread_pool::run.  A created thread does nothing until it is scheduled, so
\* creating the master and the permanent threads in one step loses nothing.
Run ==
    /\ mainpc = "inited"
    /\ m_run' = TRUE
    /\ thr' = [o \in Objects |-> IF o \in Temp THEN thr[o]
                                 ELSE [thr[o] EXCEPT !.run = TRUE, !.created = TRUE]]
    /\ tpc' = [k \in OSThreads |-> IF k \in Slots THEN tpc[k] ELSE "created"]
    /\ mainpc' = "running"
    /\ UNCHANGED <<exits, cur, queueVars, handle, obj, masterVars, ppc>>

\* stop() (1): m_run = false.
StopBegin ==
    /\ mainpc = "running"
    /\ m_run' = FALSE
    /\ mainpc' = "stop_queue"
    /\ UNCHANGED <<exits, cur, queueVars, objVars, tpc, masterVars, ppc>>

\* stop() (2): m_task_q->stop().
StopQueue ==
    /\ mainpc = "stop_queue"
    /\ Q!SStop
    /\ mainpc' = "stop_master"
    /\ UNCHANGED <<exits, cur, m_run, objVars, tpc, masterVars, ppc>>

\* Mutant: the master is joined without being told to stop.
StopMasterJoinOnly ==
    /\ mainpc = "stop_master"
    /\ mainpc' = "join_master"
    /\ UNCHANGED <<exits, cur, queueVars, m_run, objVars, tpc, masterVars, ppc>>

\* m_master_thread->stop(): its m_run first, then the join.
StopMaster ==
    /\ mainpc = "stop_master"
    /\ thr' = [thr EXCEPT ![Master].run = FALSE]
    /\ mainpc' = "join_master"
    /\ UNCHANGED <<exits, cur, queueVars, m_run, handle, obj, tpc, masterVars, ppc>>

\* Mutant: join() does not wait.
JoinReturnsAtOnce(o) == TRUE

\* thread::join returns: nothing was created, or the OS thread that the handle
\* names has ended.
JoinReturns(o) == thr[o].created => tpc[HandleOf(o)] = "ended"

NotCreated(O) == [o \in Objects |-> IF o \in O THEN [thr[o] EXCEPT !.created = FALSE] ELSE thr[o]]

JoinMaster ==
    /\ mainpc = "join_master"
    /\ JoinReturns(Master)
    /\ thr' = NotCreated({Master})
    /\ mainpc' = "join_temp"
    /\ UNCHANGED <<exits, cur, queueVars, m_run, handle, obj, tpc, masterVars, ppc>>

\* The joins of the temporary threads, in order, return when the last does.
JoinTemp ==
    /\ mainpc = "join_temp"
    /\ \A o \in Temp : JoinReturns(o)
    /\ thr' = NotCreated(Temp)
    /\ mainpc' = "add_exit"
    /\ UNCHANGED <<exits, cur, queueVars, m_run, handle, obj, tpc, masterVars, ppc>>

\* The loop that offers an exit_task for every permanent thread: the stopped
\* queue refuses it, and add_task's result is not looked at.
AddExitTask ==
    /\ mainpc = "add_exit"
    /\ exits < Cardinality(Permanent)
    /\ exits' = exits + 1
    /\ IF m_stop THEN UNCHANGED queueVars ELSE Q!SAdd("exit_task", 1)
    /\ UNCHANGED <<m_run, objVars, tpc, masterVars, mainpc, cur, ppc>>

\* Mutant: stop() does not wait for the queue to drain.
DrainNot ==
    /\ mainpc = "add_exit"
    /\ exits = Cardinality(Permanent)
    /\ mainpc' = "stop_perm"
    /\ UNCHANGED <<queueVars, m_run, objVars, tpc, masterVars, exits, cur, ppc>>

\* while(m_task_q->size()) sleep
Drain ==
    /\ mainpc = "add_exit"
    /\ exits = Cardinality(Permanent)
    /\ Size = 0
    /\ mainpc' = "stop_perm"
    /\ UNCHANGED <<queueVars, m_run, objVars, tpc, masterVars, exits, cur, ppc>>

\* m_threads[i].stop(), one thread after the other: its m_run first, ...
StopPermanent(o) ==
    /\ mainpc = "stop_perm"
    /\ cur = NoThread
    /\ thr[o].created
    /\ cur' = o
    /\ thr' = [thr EXCEPT ![o].run = FALSE]
    /\ UNCHANGED <<queueVars, m_run, handle, obj, tpc, masterVars, mainpc, exits, ppc>>

\* ... then the join.
JoinPermanent(o) ==
    /\ mainpc = "stop_perm"
    /\ cur = o
    /\ JoinReturns(o)
    /\ cur' = NoThread
    /\ thr' = NotCreated({o})
    /\ UNCHANGED <<queueVars, m_run, handle, obj, tpc, masterVars, mainpc, exits, ppc>>

StopReturn ==
    /\ mainpc = "stop_perm"
    /\ cur = NoThread
    /\ \A o \in Permanent : ~thr[o].created
    /\ mainpc' = "stopped"
    /\ UNCHANGED <<queueVars, m_run, objVars, tpc, masterVars, exits, cur, ppc>>

\* thread_pool::free, once no call is under way: EP_HAS_NOT_BEEN_INITED when
\* there are no temporary threads, else the destructors of the threads (which
\* find nothing to join) and of the queue, which recycles what it holds.
Free ==
    /\ mainpc \in {"inited", "stopped"}
    /\ Adding = {}
    /\ NTemp > 0
    /\ mainpc' = "freed"
    /\ thr' = [o \in Objects |-> [thr[o] EXCEPT !.run = FALSE]]
    /\ m_oplists' = {}
    /\ UNCHANGED <<m_total_task_cnt, m_stop, got, m_run, handle, obj, tpc, masterVars,
                   exits, cur, ppc>>

Next == \/ \E k \in OSThreads : \/ ThreadEnter(k) \/ ThreadLoop(k)
                               \/ ThreadLeave(k) \/ ThreadEnd(k)
                               \/ RunTask(k)
        \/ \E k \in Permanent : PermanentGet(k)
        \/ \E k \in Slots : TemporaryGet(k)
        \/ MasterCheck \/ MasterTryStart \/ MasterCreate \/ MasterStarted
        \/ \E p \in Producers : AddTaskEnter(p) \/ AddTaskQueue(p)
        \/ Run \/ StopBegin \/ StopQueue \/ StopMaster \/ JoinMaster \/ JoinTemp
        \/ AddExitTask \/ Drain
        \/ \E o \in Permanent : StopPermanent(o) \/ JoinPermanent(o)
        \/ StopReturn \/ Free

Spec == Init /\ [][Next]_vars

\* Every OS thread that is not blocked is scheduled, tasks terminate, and a
\* stop() begun goes on; nobody has to add, to stop or to free.
ThreadStep(k) ==
    \/ ThreadEnter(k) \/ ThreadLoop(k) \/ ThreadLeave(k) \/ ThreadEnd(k) \/ RunTask(k)
    \/ k \in Permanent /\ PermanentGet(k)
    \/ k \in Slots /\ TemporaryGet(k)
    \/ k = Master /\ (MasterCheck \/ MasterTryStart \/ MasterCreate \/ MasterStarted)
StopStep ==
    \/ StopQueue \/ StopMaster \/ JoinMaster \/ JoinTemp \/ AddExitTask \/ Drain
    \/ \E o \in Permanent : StopPermanent(o) \/ JoinPermanent(o)
    \/ StopReturn
FairSpec == /\ Spec
            /\ \A k \in OSThreads : WF_vars(ThreadStep(k))
            /\ WF_vars(StopStep)

-----------------------------------------------------------------------------
(* Properties *)

Entry == [task : {"task", "exit_task"}, prio : {0, 1}, seq : Nat]

ThreadObject == [status : {"INIT", "RUNNING", "STOP"}, run : BOOLEAN, created : BOOLEAN]
Places == {"unused", "created", "loop", "process", "busy", "start", "create", "leaving",
           "left", "ended"}

TypeOK ==
    /\ m_oplists \subseteq Entry
    /\ m_total_task_cnt \in Nat
    /\ m_stop \in BOOLEAN
    /\ got \in [OSThreads -> Entry \cup {Q!NoEntry}]
    /\ m_run \in BOOLEAN
    /\ thr \in [Objects -> ThreadObject]
    /\ handle \in [Temp -> {NoSlot} \cup Slots]
    /\ obj \in [Slots -> {0} \cup Temp]
    /\ tpc \in [OSThreads -> Places]
    /\ m_tmp_thread_idx \in {0} \cup Temp
    /\ m_task_q_past_sz \in Nat
    /\ m_too_busy \in BOOLEAN
    /\ loc \in [task_q_sz : Nat, cnt : Nat, i : Nat, c : Nat]
    /\ mainpc \in {"inited", "running", "stop_queue", "stop_master", "join_master",
                   "join_temp", "add_exit", "stop_perm", "stopped", "freed"}
    /\ exits \in 0..Cardinality(Permanent)
    /\ cur \in {NoThread} \cup Permanent
    /\ ppc \in [Producers -> {"out", "adding", "DO_NOT_START", "refused", "TOO_BUSY"}]

\* "after (2), no new task can add" (ep_thread_pool.cpp:664): once stop() has
\* passed line 663 nothing enters the queue, not a task whose add_task had
\* found m_run set.
NoAddAfterStop ==
    [][mainpc \notin {"inited", "running", "stop_queue"}
         => m_oplists' \subseteq m_oplists]_vars

\* When stop() turns to the permanent threads there is nothing left to run,
\* and there never will be: stop() drops no accepted task.
StopDrains == mainpc \in {"stop_perm", "stopped"} => m_oplists = {}

\* free() destroys the queue, the master and the permanent threads only when
\* none of their OS threads can touch them again.
FreeAfterJoin ==
    mainpc = "freed" => \A k \in {Master} \cup Permanent : tpc[k] \in {"unused", "ended"}

\* A permanent thread leaves only because stop() turned to it: in a pool that
\* is not being stopped nothing that the temporary threads, the master or the
\* producers do costs it a permanent thread.
PermanentStays ==
    \A o \in Permanent :
        tpc[o] \in {"leaving", "left", "ended"} => mainpc \in {"stop_perm", "stopped", "freed"}

\* Every accepted task is run, also when it is accepted just before stop().
EventuallyTaken ==
    \A s \in 0..(MaxAdds - 1) :
        (\E e \in m_oplists : e.seq = s) ~> (\E k \in OSThreads : /\ got[k] # Q!NoEntry
                                                                /\ got[k].seq = s)

\* stop() gets past the master, the temporary threads and the drain.
StopReachesPermanent == mainpc = "stop_queue" ~> mainpc \in {"stop_perm", "stopped"}

\* thread_pool::add_task and stop(), :662-677: nobody waits for ever on the way to
\* the permanent threads, neither an accepted task nor the owner.
TasksAndStopGoOn == EventuallyTaken /\ StopReachesPermanent

-----------------------------------------------------------------------------
(* What comments and tests say, and the code does not do *)

\* ep_thread_pool_test.cpp:94-96 stops the pool and goes on to free it: a
\* stop() begun returns.
StopReturns == mainpc = "stop_queue" ~> mainpc = "stopped"

\* "wait tmp thread stop first" (ep_thread_pool.cpp:666): after the joins no
\* temporary thread is alive.
TempThreadsStopped ==
    mainpc \in {"add_exit", "stop_perm", "stopped", "freed"}
        => \A k \in Slots : tpc[k] \in {"unused", "ended"}
=============================================================================
