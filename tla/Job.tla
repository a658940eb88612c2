-------------------------------- MODULE Job --------------------------------
(***************************************************************************)
(* ep::job, ctfcb, childtask and combiner (src/ep/ep_job.cpp): a job's     *)
(* children run on the pool's threads; each that ends is reported to the   *)
(* combiner, counted under m_cs, and pays one permit into m_semp, which    *)
(* the destructor collects before it tears the job down.                   *)
(*                                                                         *)
(* The hard part is nesting.  handle_child_task_finish calls the combiner, *)
(* which may call job::cancel (job_test_5), whose stop() withdraws queued  *)
(* children and calls handle_child_task_finish for each: every thread has  *)
(* a stack of the calls it is in.  And m_cs is re-entered: a child's ctfcb *)
(* clones and recycles the job while dispatch and clear hold m_cs, which   *)
(* only a recursive mutex (Windows' CRITICAL_SECTION, not the default      *)
(* pthread mutex be_mutex_init makes) lets through.                        *)
(*                                                                         *)
(* The pool is the FIFO of one priority; workers take from its head.       *)
(***************************************************************************)
EXTENDS Integers, Sequences, FiniteSets, SequencesExt

CONSTANTS Children,        \* the child tasks, added before the job is run
          Workers,         \* the pool's threads
          Owner,           \* the thread that runs, cancels and deletes the job
          Combiner,        \* "none", "plain", or "cancels" (job_test_5)
          Plans,           \* the jobs looked at: [children, workers |-> of the job,
                           \* retries |-> max_retry_times of every child, auto |->
                           \* m_autodestroy; the owner then never deletes]
          MayCancel,       \* the owner may call cancel() after run()
          RecursiveMutex,  \* whether the holder of m_cs may take it again
          MaxAttempts      \* bound of the model: process() calls per child

ASSUME JobAssumption ==
    /\ IsFiniteSet(Children) /\ IsFiniteSet(Workers) /\ Owner \notin Workers
    /\ Plans \subseteq [children : SUBSET Children, workers : SUBSET Workers,
                         retries : Nat, auto : BOOLEAN]
    /\ MaxAttempts \in Nat \ {0}
    /\ Combiner \in {"none", "plain", "cancels"}
    /\ MayCancel \in BOOLEAN /\ RecursiveMutex \in BOOLEAN

Threads == Workers \cup {Owner}
Free == "free"

VARIABLES
    m_status,        \* of the job: "INIT", "RUN", "CANCEL"
    status,          \* of each child
    retry_times,     \* of each child
    m_cs,            \* the thread that holds the mutex, or Free
    m_finish_num, m_semp, m_refs,
    callbacks,       \* m_chlid_task_callbasks: the children dispatched
    alive,           \* FALSE once ~job has run
    tasks,           \* the pool's queue of ctfcbs, one for each child
    stack,           \* the calls each thread is in, the innermost first
    opc,             \* where the owner is
    reported,        \* history: child_task_finish calls, for each child
    allCalls,        \* history: all_child_task_finish calls
    attempts,        \* history: process() calls, for each child
    plan             \* which of Plans this job is

jobVars == <<m_status, m_cs, m_finish_num, m_semp, m_refs, callbacks, alive>>
childVars == <<status, retry_times>>
history == <<reported, allCalls, attempts, plan>>
vars == <<jobVars, childVars, tasks, stack, opc, history>>

N == Cardinality(plan.children)
MaxRetry == plan.retries
AutoDestroy == plan.auto
NoChild == "none"

\* The frames of a stack.
Process(c) == [op |-> "process", at |-> "check", c |-> c, all |-> FALSE, ctl |-> {}]
Handle(c) == [op |-> "handle", at |-> "report", c |-> c, all |-> FALSE, ctl |-> {}]
StopCall == [op |-> "stop", at |-> "enter", c |-> NoChild, all |-> FALSE, ctl |-> {}]

In(t, op, at) == stack[t] # <<>> /\ Head(stack[t]).op = op /\ Head(stack[t]).at = at
Top(t) == Head(stack[t])
Goto(t, at) == stack' = [stack EXCEPT ![t] = <<[Top(t) EXCEPT !.at = at]>> \o Tail(@)]
Return(t) == stack' = [stack EXCEPT ![t] = Tail(@)]
Push(t, f) == stack' = [stack EXCEPT ![t] = <<f>> \o @]
\* The call on top ends by making another, which takes its place.
TailCall(t, f) == stack' = [stack EXCEPT ![t] = <<f>> \o Tail(@)]

\* The job as its owner runs it: N add_child_task calls, each with a clone.
Init ==
    /\ plan \in Plans
    /\ m_status = "INIT"
    /\ status = [c \in Children |-> "INIT"]
    /\ retry_times = [c \in Children |-> 0]
    /\ m_cs = Free
    /\ m_finish_num = 0
    /\ m_semp = 0
    /\ m_refs = 1 + N
    /\ callbacks = {}
    /\ alive = TRUE
    /\ tasks = <<>>
    /\ stack = [t \in Threads |-> <<>>]
    /\ opc = "new"
    /\ reported = [c \in Children |-> 0]
    /\ allCalls = 0
    /\ attempts = [c \in Children |-> 0]

-----------------------------------------------------------------------------
(* job::run, that is dispatch_child_task, by the owner *)

DispatchEnter ==
    /\ opc = "new"
    /\ m_cs = Free
    /\ m_cs' = Owner
    /\ m_status' = "RUN"
    /\ opc' = "dispatch"
    /\ UNCHANGED <<m_finish_num, m_semp, m_refs, callbacks, alive, childVars, tasks,
                   stack, history>>

\* new ctfcb (whose clone() takes m_cs again), add_task, push_back.
DispatchOne(c) ==
    /\ opc = "dispatch"
    /\ c \in plan.children \ callbacks
    /\ RecursiveMutex
    /\ m_refs' = m_refs + 1
    /\ tasks' = Append(tasks, c)
    /\ callbacks' = callbacks \cup {c}
    /\ UNCHANGED <<m_status, m_cs, m_finish_num, m_semp, alive, childVars, stack, opc,
                   history>>

DispatchReturn ==
    /\ opc = "dispatch"
    /\ callbacks = plan.children
    /\ m_cs' = Free
    /\ opc' = "ran"
    /\ UNCHANGED <<m_status, m_finish_num, m_semp, m_refs, callbacks, alive, childVars,
                   tasks, stack, history>>

-----------------------------------------------------------------------------
(* ctfcb::process, on a worker *)

Take(w) ==
    /\ w \in plan.workers
    /\ stack[w] = <<>>
    /\ tasks # <<>>
    /\ tasks' = Tail(tasks)
    /\ Push(w, Process(Head(tasks)))
    /\ UNCHANGED <<jobVars, childVars, opc, history>>

\* The job's status, read without m_cs, decides whether the child runs at all.
ProcessCheck(w) ==
    /\ In(w, "process", "check")
    /\ LET c == Top(w).c IN
       \/ /\ m_status # "RUN"
          /\ status' = [status EXCEPT ![c] = "CANCEL"]
          /\ TailCall(w, Handle(c))
          /\ UNCHANGED attempts
       \/ /\ m_status = "RUN"
          /\ attempts[c] < MaxAttempts
          /\ status' = [status EXCEPT ![c] = "RUN"]
          /\ attempts' = [attempts EXCEPT ![c] = @ + 1]
          /\ Goto(w, "run")
    /\ UNCHANGED <<jobVars, retry_times, tasks, opc, reported, allCalls, plan>>

\* childtask::process succeeds, or fails with or without a retry left.
ProcessDone(w) ==
    /\ In(w, "process", "run")
    /\ LET c == Top(w).c IN
       \/ status' = [status EXCEPT ![c] = "FINISH"] /\ TailCall(w, Handle(c))
       \/ /\ retry_times[c] < MaxRetry
          /\ Goto(w, "retry")
          /\ UNCHANGED status
       \/ /\ retry_times[c] >= MaxRetry
          /\ status' = [status EXCEPT ![c] = "FAIL"]
          /\ TailCall(w, Handle(c))
    /\ UNCHANGED <<jobVars, retry_times, tasks, opc, history>>

\* retry_child_task: the ctfcb is queued again before retry_times is counted;
\* a job cancelled meanwhile refuses, and nobody reports the child.
Retry(w) ==
    /\ In(w, "process", "retry")
    /\ m_cs = Free
    /\ \/ /\ m_status = "RUN"
          /\ tasks' = Append(tasks, Top(w).c)
          /\ Goto(w, "count")
       \/ /\ m_status # "RUN"
          /\ Return(w)
          /\ UNCHANGED tasks
    /\ UNCHANGED <<jobVars, childVars, opc, history>>

RetryCount(w) ==
    /\ In(w, "process", "count")
    /\ retry_times' = [retry_times EXCEPT ![Top(w).c] = @ + 1]
    /\ Return(w)
    /\ UNCHANGED <<jobVars, status, tasks, opc, history>>

-----------------------------------------------------------------------------
(* handle_child_task_finish, on any thread *)

\* combiner::child_task_finish; the cancelling one calls job::cancel from it.
Report(t) ==
    /\ In(t, "handle", "report")
    /\ reported' = [reported EXCEPT ![Top(t).c] = @ + 1]
    /\ stack' = [stack EXCEPT ![t] =
                    (IF Combiner = "cancels" THEN <<StopCall>> ELSE <<>>)
                      \o <<[Top(t) EXCEPT !.at = "count"]>> \o Tail(@)]
    /\ UNCHANGED <<jobVars, childVars, tasks, opc, allCalls, attempts, plan>>

\* Mutant: the last child is not waited for.
CountOffByOne(t) ==
    /\ In(t, "handle", "count")
    /\ m_cs = Free
    /\ m_finish_num' = m_finish_num + 1
    /\ LET all == m_finish_num' = N - 1 IN
       stack' = [stack EXCEPT ![t] =
                   <<[Top(t) EXCEPT !.at = IF all /\ Combiner # "none" THEN "all" ELSE "give",
                                    !.all = all]>> \o Tail(@)]
    /\ UNCHANGED <<m_status, m_cs, m_semp, m_refs, callbacks, alive, childVars, tasks, opc,
                   history>>

\* Under m_cs: ++m_finish_num, and was that the last?
Count(t) ==
    /\ In(t, "handle", "count")
    /\ m_cs = Free
    /\ m_finish_num' = m_finish_num + 1
    /\ LET all == m_finish_num' = N IN
       stack' = [stack EXCEPT ![t] =
                   <<[Top(t) EXCEPT !.at = IF all /\ Combiner # "none" THEN "all" ELSE "give",
                                    !.all = all]>> \o Tail(@)]
    /\ UNCHANGED <<m_status, m_cs, m_semp, m_refs, callbacks, alive, childVars, tasks, opc,
                   history>>

\* combiner::all_child_task_finish.
AllFinish(t) ==
    /\ In(t, "handle", "all")
    /\ allCalls' = allCalls + 1
    /\ Goto(t, "give")
    /\ UNCHANGED <<jobVars, childVars, tasks, opc, reported, attempts, plan>>

\* Mutant: only the last to finish gives the semaphore.
GiveLastOnly(t) ==
    /\ In(t, "handle", "give")
    /\ m_semp' = IF Top(t).all THEN m_semp + 1 ELSE m_semp
    /\ IF Top(t).all THEN Goto(t, "tail") ELSE Return(t)
    /\ UNCHANGED <<m_status, m_cs, m_finish_num, m_refs, callbacks, alive, childVars, tasks,
                   opc, history>>

\* be_sem_give(&m_semp); only the last to finish goes on to read m_autodestroy.
Give(t) ==
    /\ In(t, "handle", "give")
    /\ m_semp' = m_semp + 1
    /\ IF Top(t).all THEN Goto(t, "tail") ELSE Return(t)
    /\ UNCHANGED <<m_status, m_cs, m_finish_num, m_refs, callbacks, alive, childVars, tasks,
                   opc, history>>

\* recycle(): --m_refs under m_cs, and `delete this` at zero.
HandleTail(t) ==
    /\ In(t, "handle", "tail")
    /\ Return(t)
    /\ \/ ~AutoDestroy /\ UNCHANGED <<m_refs, alive>>
       \/ /\ AutoDestroy
          /\ m_cs = Free
          /\ m_refs' = m_refs - 1
          /\ alive' = (alive /\ m_refs' # 0)
    /\ UNCHANGED <<m_status, m_cs, m_finish_num, m_semp, callbacks, childVars, tasks, opc,
                   history>>

-----------------------------------------------------------------------------
(* job::cancel, that is stop(STATUS_CANCEL), on any thread *)

\* The children whose ctfcb del_task may find: it never finds one that is not
\* queued, and can miss one that is.
Queued == ToSet(tasks) \cap callbacks

\* The queue without the children of ctl, in its order.
Without(ctl) ==
    {s \in [1..(Len(tasks) - Cardinality(ctl)) -> ToSet(tasks) \ ctl] :
        \A i, j \in DOMAIN s : i < j =>
            \E k, l \in DOMAIN tasks : k < l /\ tasks[k] = s[i] /\ tasks[l] = s[j]}

\* Under m_cs; a job that is not running, or no longer, is left alone.
StopEnter(t) ==
    /\ In(t, "stop", "enter")
    /\ \/ /\ m_status = "RUN"
          /\ m_cs = Free
          /\ m_status' = "CANCEL"
          /\ \E ctl \in SUBSET Queued :
                /\ tasks' \in Without(ctl)
                /\ status' = [c \in Children |-> IF c \in ctl THEN "CANCEL" ELSE status[c]]
                /\ stack' = [stack EXCEPT ![t] =
                               <<[Top(t) EXCEPT !.at = "report", !.ctl = ctl]>> \o Tail(@)]
       \/ /\ m_status # "RUN"
          /\ Return(t)
          /\ UNCHANGED <<m_status, status, tasks>>
    /\ UNCHANGED <<m_cs, m_finish_num, m_semp, m_refs, callbacks, alive, retry_times, opc,
                   history>>

\* After the lock: handle_child_task_finish for each child withdrawn.
StopReport(t) ==
    /\ In(t, "stop", "report")
    /\ \/ Top(t).ctl = {} /\ Return(t)
       \/ \E c \in Top(t).ctl :
            stack' = [stack EXCEPT ![t] =
                        <<Handle(c), [Top(t) EXCEPT !.ctl = @ \ {c}]>> \o Tail(@)]
    /\ UNCHANGED <<jobVars, childVars, tasks, opc, history>>

-----------------------------------------------------------------------------
(* The owner: cancel, and delete *)

OwnerCancel ==
    /\ opc = "ran"
    /\ MayCancel
    /\ opc' = "cancelling"
    /\ Push(Owner, StopCall)
    /\ UNCHANGED <<jobVars, childVars, tasks, history>>

\* delete j.
OwnerDelete ==
    /\ \/ opc = "ran"
       \/ opc = "cancelling" /\ stack[Owner] = <<>>
    /\ ~AutoDestroy
    /\ opc' = "wait"
    /\ UNCHANGED <<jobVars, childVars, tasks, stack, history>>

\* Mutant: the destructor waits for one child only.
WaitAllOne ==
    /\ opc = "wait"
    /\ m_semp >= 1
    /\ m_semp' = m_semp - 1
    /\ opc' = "clear"
    /\ UNCHANGED <<m_status, m_cs, m_finish_num, m_refs, callbacks, alive, childVars, tasks,
                   stack, history>>

\* wait_for_all_child_task takes one permit for every callback; nobody else
\* takes any, so it returns when there are as many.
WaitAll ==
    /\ opc = "wait"
    /\ m_semp >= Cardinality(callbacks)
    /\ m_semp' = m_semp - Cardinality(callbacks)
    /\ opc' = "clear"
    /\ UNCHANGED <<m_status, m_cs, m_finish_num, m_refs, callbacks, alive, childVars, tasks,
                   stack, history>>

\* The rest of clear() under m_cs, where each ctfcb recycles the job (and takes
\* m_cs again), and the end of ~job.
Clear ==
    /\ opc = "clear"
    /\ m_cs = Free
    /\ callbacks = {} \/ RecursiveMutex
    /\ m_refs' = m_refs - Cardinality(callbacks)
    /\ callbacks' = {}
    /\ m_status' = "INIT"
    /\ alive' = FALSE
    /\ opc' = "deleted"
    /\ UNCHANGED <<m_cs, m_finish_num, m_semp, childVars, tasks, stack, history>>

WorkerStep(w) == \/ Take(w) \/ ProcessCheck(w) \/ ProcessDone(w) \/ Retry(w) \/ RetryCount(w)
CallStep(t) == \/ Report(t) \/ Count(t) \/ AllFinish(t) \/ Give(t) \/ HandleTail(t)
               \/ StopEnter(t) \/ StopReport(t)
OwnerStep == \/ DispatchEnter \/ DispatchReturn \/ OwnerDelete \/ WaitAll \/ Clear
             \/ \E c \in Children : DispatchOne(c)

Next == \/ \E w \in Workers : WorkerStep(w)
        \/ \E t \in Threads : CallStep(t)
        \/ OwnerStep
        \/ OwnerCancel

Spec == Init /\ [][Next]_vars

\* Threads that can go on do, process() returns, the owner runs the job and
\* deletes it; it need not cancel.
FairSpec == /\ Spec
            /\ \A w \in Workers : WF_vars(WorkerStep(w))
            /\ \A t \in Threads : WF_vars(CallStep(t))
            /\ WF_vars(OwnerStep)

-----------------------------------------------------------------------------
(* Properties *)

ChildStatus == {"INIT", "RUN", "FINISH", "FAIL", "CANCEL"}
Frame == [op : {"process", "handle", "stop"},
          at : {"check", "run", "retry", "count", "report", "all", "give", "tail", "enter"},
          c : Children \cup {NoChild}, all : BOOLEAN, ctl : SUBSET Children]

TypeOK ==
    /\ m_status \in {"INIT", "RUN", "CANCEL"}
    /\ status \in [Children -> ChildStatus]
    /\ retry_times \in [Children -> Nat]
    /\ m_cs \in Threads \cup {Free}
    /\ m_finish_num \in 0..N
    /\ m_semp \in 0..N
    /\ m_refs \in 1..(2 * N + 1)
    /\ callbacks \subseteq Children
    /\ alive \in BOOLEAN
    /\ tasks \in Seq(Children)
    /\ stack \in [Threads -> Seq(Frame)]
    /\ opc \in {"new", "dispatch", "ran", "cancelling", "wait", "clear", "deleted"}

\* The calls that some thread is in.
Frames == UNION {ToSet(stack[t]) : t \in Threads}

\* A child is reported to the combiner once: a worker that has it and a cancel
\* that withdraws it never both do.  And all_child_task_finish comes once, when
\* the combiner has seen every child, whatever order the nested and the
\* concurrent reports come in.
AllFinishLast == /\ \A c \in Children : reported[c] <= 1
                 /\ allCalls <= 1
                 /\ allCalls = 1 => \A c \in plan.children : reported[c] = 1

\* The calls that may outlast the destructor: the tail of a report, which reads
\* m_autodestroy, and, where children may be retried, a worker that has queued
\* one again and is still to count that: another has run and reported it since.
Outlasts(f) == \/ f.op = "handle" /\ f.at = "tail"
               \/ f.op = "process" /\ f.at = "count" /\ MaxRetry # 0

\* The destructor gets past its wait only when every child has been reported
\* and counted and the combiner, if any, told, and no call of any thread is
\* left but those: without retries, the combiner and the children it recycles
\* are not in use.  (The combiner of a job without children is never told:
\* nothing finishes.)
DeleteWaits ==
    opc \in {"clear", "deleted"} =>
        /\ \A c \in plan.children : reported[c] = 1
        /\ Combiner # "none" /\ plan.children # {} => allCalls = 1
        /\ \A f \in Frames : Outlasts(f)

\* What clear() takes for granted, and retry_child_task does not keep: a child it
\* recycles is in no worker's hands.
ChildrenUnused == opc \in {"clear", "deleted"} => \A f \in Frames : f.op # "process"

\* run(), then cancel() or not, then delete: the delete returns, when children
\* have no retries (a retry refused after a cancel is never reported: Retry).
DeleteReturns == (opc = "ran" /\ ~AutoDestroy /\ MaxRetry = 0) ~> opc = "deleted"
=============================================================================
