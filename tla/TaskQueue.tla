------------------------------ MODULE TaskQueue ------------------------------
(***************************************************************************)
(* ep::task_queue (src/ep/ep_thread_pool.cpp:7-199): MAX_PRIORITY_NUM      *)
(* lists guarded by the mutex m_cs, and a semaphore m_semp that counts     *)
(* permits.  A caller takes a permit OUTSIDE the lock and the element      *)
(* INSIDE it, so the two disagree in between; everything below is about    *)
(* that gap, and about the unlocked look at m_stop in add_task.            *)
(*                                                                         *)
(* Grain of atomicity: a critical section of m_cs is one action (nothing   *)
(* outside it reads m_oplists, and m_semp is only given inside it); the    *)
(* permit take and the first test of m_stop are actions of their own.      *)
(*                                                                         *)
(* The lists are the set of their entries: list p is the entries with      *)
(* prio = p in the order of seq, the value of m_total_task_cnt when each   *)
(* was pushed.  done is a history variable: how each accepted add ended.   *)
(***************************************************************************)
EXTENDS Naturals, FiniteSets

CONSTANTS Tasks,           \* the task objects (pointers)
          MaxPriorityNum,  \* MAX_PRIORITY_NUM
          Producers,       \* threads that call add_task
          Workers,         \* threads that call get_task (permanent_thread)
          TempWorkers,     \* threads that call try_get_task (temporary_thread)
          Cancellers,      \* threads that call del_task, once each
          MaxTotal         \* bound of the model: adds accepted or under way

Takers == Workers \cup TempWorkers
Threads == Producers \cup Takers \cup Cancellers

ASSUME FiniteThreads == IsFiniteSet(Threads)
ASSUME PriorityAssumption == MaxPriorityNum \in Nat \ {0}
ASSUME BoundAssumption == MaxTotal \in Nat
ASSUME RolesAssumption == /\ Producers \cap (Takers \cup Cancellers) = {}
                          /\ Takers \cap Cancellers = {}
ASSUME TasksAssumption == "none" \notin Tasks

VARIABLES m_oplists,         \* the entries of all the lists
          m_semp,            \* permits of the semaphore
          m_size,
          m_total_task_cnt,
          m_stop,
          pc,                \* where each thread is, and its last result
          arg,               \* the arguments of the call under way
          got,               \* the entry a taker was handed
          done               \* history: ranks run, deleted, recycled

vars == <<m_oplists, m_semp, m_size, m_total_task_cnt, m_stop, pc, arg, got, done>>

Priorities == 0..(MaxPriorityNum - 1)
Entry == [task : Tasks, prio : Priorities, seq : Nat]
NoEntry == [task |-> "none", prio |-> 0, seq |-> 0]
Arg == [task : Tasks \cup {"none"}, prio : 0..MaxPriorityNum]
NoArg == [task |-> "none", prio |-> 0]

Fates == {"ran", "deleted", "recycled"}
End(how, s) == [done EXCEPT ![how] = @ \cup s]

BeforeNewestFirst(e, f) == \/ e.prio < f.prio
                           \/ e.prio = f.prio /\ e.seq > f.seq

\* e is served before f: lower priority numbers first, each list in order.
Before(e, f) == \/ e.prio < f.prio
                \/ e.prio = f.prio /\ e.seq < f.seq

Init == /\ m_oplists = {}
        /\ m_semp = 0
        /\ m_size = 0
        /\ m_total_task_cnt = 0
        /\ m_stop = FALSE
        /\ pc = [t \in Threads |-> "out"]
        /\ arg = [t \in Threads |-> NoArg]
        /\ got = [w \in Takers |-> NoEntry]
        /\ done = [f \in Fates |-> {}]

-----------------------------------------------------------------------------
(* add_task *)

\* The calls that may still push: the bound counts them with m_total_task_cnt.
Adding == {t \in Producers : pc[t] = "adding"}

\* The priority test, and the first, unlocked, test of m_stop.
AddTaskEnter(t, op, p) ==
    /\ pc[t] = "out"
    /\ m_total_task_cnt + Cardinality(Adding) < MaxTotal
    /\ p < MaxPriorityNum
    /\ ~m_stop
    /\ pc' = [pc EXCEPT ![t] = "adding"]
    /\ arg' = [arg EXCEPT ![t] = [task |-> op, prio |-> p]]
    /\ UNCHANGED <<m_oplists, m_semp, m_size, m_total_task_cnt, m_stop, got, done>>

\* push_back, the two counters and be_sem_give.
Push(op, p) ==
    /\ m_oplists' = m_oplists \cup {[task |-> op, prio |-> p, seq |-> m_total_task_cnt]}
    /\ m_size' = m_size + 1
    /\ m_total_task_cnt' = m_total_task_cnt + 1
    /\ m_semp' = m_semp + 1

\* Under m_cs: m_stop again, since it may have been set since the first test.
AddTaskLocked(t) ==
    /\ pc[t] = "adding"
    /\ pc' = [pc EXCEPT ![t] = "out"]
    /\ arg' = [arg EXCEPT ![t] = NoArg]
    /\ \/ /\ m_stop
          /\ UNCHANGED <<m_oplists, m_semp, m_size, m_total_task_cnt>>
       \/ /\ ~m_stop
          /\ Push(arg[t].task, arg[t].prio)
    /\ UNCHANGED <<m_stop, got, done>>

-----------------------------------------------------------------------------
(* get_task and try_get_task *)

\* be_sem_take: a worker with no permit blocks, that is, cannot take this step.
GetTaskTake(w) ==
    /\ pc[w] = "out"
    /\ m_semp > 0
    /\ m_semp' = m_semp - 1
    /\ pc' = [pc EXCEPT ![w] = "permit"]
    /\ UNCHANGED <<m_oplists, m_size, m_total_task_cnt, m_stop, arg, got, done>>

\* be_sem_try_take: without a permit the call returns NULL at once.
TryGetTaskTake(w) ==
    /\ pc[w] \in {"out", "null"}
    /\ \/ /\ m_semp > 0
          /\ m_semp' = m_semp - 1
          /\ pc' = [pc EXCEPT ![w] = "permit"]
       \/ /\ m_semp = 0
          /\ pc' = [pc EXCEPT ![w] = "null"]
          /\ UNCHANGED m_semp
    /\ UNCHANGED <<m_oplists, m_size, m_total_task_cnt, m_stop, arg, got, done>>

\* get_task_by_priority for p = 0, 1, ...: the front of the first list that
\* has one.
IsFront(e) == \A f \in m_oplists \ {e} : Before(e, f)

\* Mutant: front() without pop_front().
PopKeeps(e) == m_size' = m_size - 1 /\ UNCHANGED m_oplists

\* pop_front or erase, and --m_size.
Pop(e) == m_oplists' = m_oplists \ {e} /\ m_size' = m_size - 1

\* Under m_cs; NULL when every list is empty, the permit being lost.
GetTaskLocked(w) ==
    /\ pc[w] = "permit"
    /\ \/ \E e \in m_oplists :
            /\ IsFront(e)
            /\ Pop(e)
            /\ got' = [got EXCEPT ![w] = e]
            /\ pc' = [pc EXCEPT ![w] = "have"]
       \/ /\ m_oplists = {}
          /\ pc' = [pc EXCEPT ![w] = "null"]
          /\ UNCHANGED <<m_oplists, m_size, got>>
    /\ UNCHANGED <<m_semp, m_total_task_cnt, m_stop, arg, done>>

\* The taker runs the task and recycles it (task::run_process), then is back
\* in its loop.
RunTask(w) ==
    /\ pc[w] = "have"
    /\ done' = End("ran", {got[w].seq})
    /\ got' = [got EXCEPT ![w] = NoEntry]
    /\ pc' = [pc EXCEPT ![w] = "out"]
    /\ UNCHANGED <<m_oplists, m_semp, m_size, m_total_task_cnt, m_stop, arg>>

-----------------------------------------------------------------------------
(* del_task *)

\* be_sem_try_take; "notqueued" is the return of EP_TASK_NOT_IN_QUEUE.
DelTaskTake(c, op, p) ==
    /\ pc[c] = "out"
    /\ arg' = [arg EXCEPT ![c] = [task |-> op, prio |-> p]]
    /\ \/ /\ m_semp > 0
          /\ m_semp' = m_semp - 1
          /\ pc' = [pc EXCEPT ![c] = "deleting"]
       \/ /\ m_semp = 0
          /\ pc' = [pc EXCEPT ![c] = "notqueued"]
          /\ UNCHANGED m_semp
    /\ UNCHANGED <<m_oplists, m_size, m_total_task_cnt, m_stop, got, done>>

\* The entries *it == op of list p, and the one the loop stops at.
Matches(op, p) == {e \in m_oplists : e.task = op /\ e.prio = p}
IsFirstMatch(e, op, p) == /\ e \in Matches(op, p)
                          /\ \A f \in Matches(op, p) : e.seq <= f.seq

\* Under m_cs: erase the first match.
DelTaskFound(c) ==
    /\ pc[c] = "deleting"
    /\ \E e \in m_oplists :
          /\ IsFirstMatch(e, arg[c].task, arg[c].prio)
          /\ Pop(e)
          /\ done' = End("deleted", {e.seq})
    /\ pc' = [pc EXCEPT ![c] = "deleted"]
    /\ UNCHANGED <<m_semp, m_total_task_cnt, m_stop, arg, got>>

\* Mutants of DelTaskNotFound: the permit is not given back; --m_size is
\* outside the if.
DelTaskNotFoundKeepsPermit(c) ==
    /\ pc[c] = "deleting"
    /\ Matches(arg[c].task, arg[c].prio) = {}
    /\ pc' = [pc EXCEPT ![c] = "notqueued"]
    /\ UNCHANGED <<m_oplists, m_semp, m_size, m_total_task_cnt, m_stop, arg, got, done>>

\* Under m_cs: it is not there any more, so the permit is given back.
DelTaskNotFound(c) ==
    /\ pc[c] = "deleting"
    /\ Matches(arg[c].task, arg[c].prio) = {}
    /\ m_semp' = m_semp + 1
    /\ pc' = [pc EXCEPT ![c] = "notqueued"]
    /\ UNCHANGED <<m_oplists, m_size, m_total_task_cnt, m_stop, arg, got, done>>

-----------------------------------------------------------------------------
(* stop, and the destructor *)

Stop == /\ ~m_stop
        /\ m_stop' = TRUE
        /\ UNCHANGED <<m_oplists, m_semp, m_size, m_total_task_cnt, pc, arg, got, done>>

\* clear_one_priority for every list: each task is recycled.
ClearLists ==
    /\ done' = End("recycled", {e.seq : e \in m_oplists})
    /\ m_oplists' = {}
    /\ m_size' = m_size - Cardinality(m_oplists)

\* ~task_queue: clear() recycles what is left and the semaphore is destroyed.
\* The owner deletes the queue after stop() and after every thread was joined.
Destroy ==
    /\ m_stop
    /\ \A t \in Threads : pc[t] \in {"out", "null", "deleted", "notqueued"}
    /\ ClearLists
    /\ m_semp' = 0
    /\ pc' = [t \in Threads |-> "gone"]
    /\ UNCHANGED <<m_total_task_cnt, m_stop, arg, got>>

Next == \/ \E t \in Producers : \/ \E op \in Tasks, p \in 0..MaxPriorityNum : AddTaskEnter(t, op, p)
                                \/ AddTaskLocked(t)
        \/ \E w \in Workers : GetTaskTake(w)
        \/ \E w \in TempWorkers : TryGetTaskTake(w)
        \/ \E w \in Takers : GetTaskLocked(w) \/ RunTask(w)
        \/ \E c \in Cancellers : \/ \E op \in Tasks, p \in Priorities : DelTaskTake(c, op, p)
                                 \/ DelTaskFound(c)
                                 \/ DelTaskNotFound(c)
        \/ Stop
        \/ Destroy

Spec == Init /\ [][Next]_vars

\* A thread that is not blocked is eventually scheduled; a worker's loop calls
\* get_task again and again; tasks terminate.  Temporary workers need not call
\* again, and nobody is obliged to add, to delete or to stop.
Fairness ==
    /\ \A w \in Workers : WF_vars(GetTaskTake(w))
    /\ \A w \in Takers : WF_vars(GetTaskLocked(w)) /\ WF_vars(RunTask(w))
    /\ \A c \in Cancellers : WF_vars(DelTaskFound(c) \/ DelTaskNotFound(c))

FairSpec == Spec /\ Fairness

-----------------------------------------------------------------------------
(* Properties *)

TypeOK ==
    /\ m_oplists \subseteq Entry
    /\ m_semp \in Nat
    /\ m_size \in Nat
    /\ m_total_task_cnt \in Nat
    /\ m_stop \in BOOLEAN
    /\ pc \in [Threads -> {"out", "adding", "permit", "have", "null",
                           "deleting", "deleted", "notqueued", "gone"}]
    /\ arg \in [Threads -> Arg]
    /\ got \in [Takers -> Entry \cup {NoEntry}]
    /\ done \in [Fates -> SUBSET Nat]

\* The threads between their permit and their critical section.
PermitHolders == {t \in Threads : pc[t] \in {"permit", "deleting"}}

\* Permits and elements never drift apart: what is queued is covered, one for
\* one, by the permits left in the semaphore and those in threads' hands, and
\* m_size counts it (lines 44-50, 62, 88, 105-109).
PermitConservation ==
    /\ Cardinality(m_oplists) = m_semp + Cardinality(PermitHolders)
    /\ m_size = Cardinality(m_oplists)

\* A thread that got a permit finds a task behind it: get_task never returns
\* NULL after be_sem_take succeeded (run_process would take NULL for a sign to
\* leave, line 348-354).
PermitFindsTask == \A w \in Takers : pc[w] = "permit" => m_oplists # {}

\* Every accepted add is in exactly one place: queued, in the hands of one
\* thread, or ended in one way; no task is run twice or lost, whatever
\* del_task and the takers do to each other.
Whereabouts(s) ==
    {"queued" : e \in {e \in m_oplists : e.seq = s}}
      \cup {w \in Takers : got[w] # NoEntry /\ got[w].seq = s}
      \cup {f \in Fates : s \in done[f]}
ExactlyOnePlace ==
    \A s \in 0..(MaxTotal - 1) :
        Cardinality(Whereabouts(s)) = IF s < m_total_task_cnt THEN 1 ELSE 0

\* "could not add when stop" (ep_thread_pool.h:32): once m_stop is set no
\* entry appears, not even by an add_task that passed the first test before.
StopIsFinal == [][m_stop => m_oplists' \subseteq m_oplists]_vars

\* A task handed out was the oldest of the most urgent priority that had one
\* ("lower is more early"), although permits are granted in any order.
HandedOutInOrder ==
    [][\A w \in Takers, e \in m_oplists :
          got'[w] # got[w] /\ got'[w] # NoEntry
             => /\ got'[w].prio <= e.prio
                /\ got'[w].prio = e.prio => got'[w].seq <= e.seq]_vars

\* What is queued is eventually taken, deleted or recycled, also after stop:
\* the queue stays drained by its workers.
EventuallyLeaves ==
    \A s \in 0..(MaxTotal - 1) :
        (\E e \in m_oplists : e.seq = s) ~> (\A e \in m_oplists : e.seq # s)

\* The queue implements StoppableQueue: hidden permits, lock and sizes.
Abstract == INSTANCE StoppableQueue
ImplementsStoppableQueue == Abstract!SSpec
=============================================================================
