------------------------------- MODULE EQueue -------------------------------
(***************************************************************************)
(* eq::eq_imp (src/equeue/equeue_imp.cpp): a queue of tasks in memory with *)
(* a log on disk.  add_back writes an OP_ADD record before it queues the   *)
(* task; get_front takes a task from memory only, and del writes an OP_DEL *)
(* record once the consumer is done with it, so a task is handed out again *)
(* after a restart until its del is on disk.  dump() writes no task: only  *)
(* its file's name, <log id>_<op id>.dump, that tells the next start where *)
(* in the logs to begin.                                                   *)
(*                                                                         *)
(* The process may die between any two steps.  What it has written and     *)
(* flushed stays; a record cut short by the crash ends the last log and is *)
(* read as the end of it, so it counts as not written.  Logs are read in   *)
(* the order of their modification times, taken here as exact: that is the *)
(* order of their ids, for only the newest is ever written.                *)
(*                                                                         *)
(* The disk may also refuse a record while the process lives on: fwrite    *)
(* then fails, which is told, or fflush, which nobody looks at; and a part *)
(* of the record may have been written, in a file that is written on.      *)
(* What a start makes of records behind such a part is not modelled: that  *)
(* depends on bytes, and OpRecord shows some of what it may be.            *)
(***************************************************************************)
EXTENDS Integers, Sequences, FiniteSets, SequencesExt, FiniteSetsExt

CONSTANTS Adders,        \* threads that call add_back
          Consumers,     \* threads that call get_front and then del
          MaxCnt,        \* m_maxcnt
          MaxSize,       \* m_maxsize; every task has size 1
          BlockOps,      \* DEFAULT_BLOCK_SIZE, in records
          MaxAdds,       \* bound of the model: add_back calls
          MaxStarts,     \* bound of the model: starts of the process
          MaxDumps,      \* bound of the model: dump() calls
          MaxDiskFaults, \* bound of the model: fopen, fwrite and fflush failures
          MaxFiles       \* bound of the model: log files, enough for the above

ASSUME EQueueAssumption ==
    /\ IsFiniteSet(Adders) /\ IsFiniteSet(Consumers) /\ Adders \cap Consumers = {}
    /\ MaxCnt \in Nat /\ MaxSize \in Nat /\ BlockOps \in Nat \ {0}
    /\ {MaxAdds, MaxStarts, MaxDumps, MaxDiskFaults, MaxFiles} \subseteq Nat

VARIABLES
    up,                                  \* the process has been started and lives
    m_tasks, m_size,                     \* memory; m_cnt is the length of m_tasks
    m_current_op_id, m_current_task_id, m_current_file_id,
    m_current_file,                      \* whether the FILE* is not NULL
    m_sem,
    pc, loc,                             \* each thread: where it is, and its op
    files, logs,                         \* disk: the log files, and their records
    last_dump,                           \* disk: the name of the newest dump file
    tail,                                \* disk: "whole", or the newest file ends in a
                                         \* "part" of a record, or one is "garbled":
                                         \* something was written behind a part
    unflushed,                           \* history: payloads whose record a failed
                                         \* fflush lost,
    adds, accepted, deleted,             \* payloads given to add_back, those
                                         \* it returned success for, those deleted,
    dump_lives,                          \* and the lives that wrote a dump file
    starts, dumps, disk_faults           \* counters of the bounds

memVars == <<m_tasks, m_size, m_current_op_id, m_current_task_id, m_current_file_id,
             m_current_file, m_sem>>
threadVars == <<pc, loc>>
diskVars == <<files, logs, last_dump, tail>>
history == <<adds, accepted, deleted, dump_lives, unflushed>>
bounds == <<starts, dumps, disk_faults>>
vars == <<up, memVars, threadVars, diskVars, history, bounds>>

Threads == Adders \cup Consumers
NoOp == [cmd |-> "NONE", op_id |-> 0, file_id |-> 0, id |-> 0, cont |-> 0]
\* Payloads are numbered by the add_back call that brings them; 0 is the empty
\* content of a delete record.
NoCont == 0
NoDump == [log_id |-> 0, op_id |-> 0]
m_cnt == Len(m_tasks)

\* A new store, and a process not yet started.
Init ==
    /\ up = FALSE
    /\ m_tasks = <<>> /\ m_size = 0
    /\ m_current_op_id = 0 /\ m_current_task_id = 0 /\ m_current_file_id = 0
    /\ m_current_file = FALSE
    /\ m_sem = 0
    /\ pc = [t \in Threads |-> "out"]
    /\ loc = [t \in Threads |-> NoOp]
    /\ files = {}
    /\ logs = [f \in 1..MaxFiles |-> <<>>]
    /\ last_dump = NoDump /\ tail = "whole"
    /\ adds = 0 /\ accepted = {} /\ deleted = {} /\ dump_lives = {} /\ unflushed = {}
    /\ starts = 0 /\ dumps = 0 /\ disk_faults = 0

-----------------------------------------------------------------------------
(* init(): load_from_bin_log_files, on the members the constructor zeroed *)

Max0(S) == Max(S \cup {0})

\* The records of all logs in the order of a start's reading, each with its file.
OnDisk == FlattenSeq([f \in 1..MaxFiles |->
              [k \in DOMAIN logs[f] |-> [file |-> f, op |-> logs[f][k]]]])

\* What is read after a dump: of the files newer than the dump's, the records
\* not older than its op.
IsRead(dump, r) == r.file > dump.log_id /\ r.op.op_id >= dump.op_id

Loaded == {r \in ToSet(OnDisk) : IsRead(last_dump, r)}

\* atoi of the newest log's name, read or not.
LastFile == Max0(files)

\* Mutant: task ids start again at 1.
MaxTaskIdForgotten == 0

MaxTaskId == Max0({r.op.id : r \in Loaded})

\* The first task with the deleted one's id is erased.
DelTask(tasks, o) == RemoveFirstMatch(tasks, LAMBDA t : t.id = o.id)

Replay(tasks, o) == IF o.cmd = "ADD" THEN Append(tasks, o) ELSE DelTask(tasks, o)

ReplayOf(disk, dump) ==
    LET tasks[i \in 0..Len(disk)] ==
            IF i = 0 THEN <<>>
            ELSE IF IsRead(dump, disk[i]) THEN Replay(tasks[i - 1], disk[i].op)
            ELSE tasks[i - 1]
    IN tasks[Len(disk)]

Replayed == ReplayOf(OnDisk, last_dump)

\* del_task subtracts the size of the delete record's own content: none.
Start ==
    /\ ~up
    /\ starts < MaxStarts /\ tail # "garbled"
    /\ up' = TRUE
    /\ m_tasks' = Replayed
    /\ m_size' = Cardinality({i \in DOMAIN OnDisk : IsRead(last_dump, OnDisk[i])
                                                /\ OnDisk[i].op.cmd = "ADD"})
    /\ m_current_op_id' = Max0({r.op.op_id : r \in Loaded})
    /\ m_current_task_id' = MaxTaskId
    /\ m_current_file_id' = LastFile
    /\ m_current_file' = FALSE
    /\ m_sem' = Len(m_tasks')
    /\ starts' = starts + 1
    /\ UNCHANGED <<threadVars, diskVars, history, dumps, disk_faults>>

\* The process dies, or is taken down by uninit: memory and threads are gone.
Dies ==
    /\ up' = FALSE
    /\ m_tasks' = <<>> /\ m_size' = 0
    /\ m_current_op_id' = 0 /\ m_current_task_id' = 0 /\ m_current_file_id' = 0
    /\ m_current_file' = FALSE
    /\ m_sem' = 0
    /\ pc' = [t \in Threads |-> "out"]
    /\ loc' = [t \in Threads |-> NoOp]

Crash ==
    /\ up
    /\ Dies
    /\ UNCHANGED <<diskVars, history, bounds>>

-----------------------------------------------------------------------------
(* Steps that add_back and del share *)

At(t, l) == up /\ pc[t] = l
Goto(t, l) == pc' = [pc EXCEPT ![t] = l]

\* check_if_open_new_file, under m_cs: a file that is missing or full gives
\* way to the next one, opened "wb"; fopen may fail.
OpenNewFile(t, from, to) ==
    /\ At(t, from)
    /\ \/ /\ m_current_file
          /\ Len(logs[m_current_file_id]) < BlockOps
          /\ Goto(t, to)
          /\ UNCHANGED <<loc, m_current_file_id, m_current_file, files, logs, tail, disk_faults>>
       \/ /\ ~(m_current_file /\ Len(logs[m_current_file_id]) < BlockOps)
          /\ m_current_file_id < MaxFiles
          /\ m_current_file_id' = m_current_file_id + 1
          /\ \/ /\ m_current_file' = TRUE
                /\ files' = files \cup {m_current_file_id'}
                /\ logs' = [logs EXCEPT ![m_current_file_id'] = <<>>]
                /\ tail' = IF tail = "part" THEN "whole" ELSE tail
                /\ Goto(t, to)
                /\ UNCHANGED <<loc, disk_faults>>
             \/ /\ disk_faults < MaxDiskFaults
                /\ disk_faults' = disk_faults + 1
                /\ m_current_file' = FALSE
                /\ Goto(t, "out")
                /\ loc' = [loc EXCEPT ![t] = NoOp]
                /\ UNCHANGED <<files, logs, tail>>
    /\ UNCHANGED <<up, m_tasks, m_size, m_current_op_id, m_current_task_id, m_sem,
                   last_dump, history, starts, dumps>>

\* fwrite and fflush under m_cs: to a NULL file, which kills the process; or a
\* whole record, behind what the file has; or nothing or a part of it, when the
\* disk refuses it to fwrite (which is told) or to fflush (Unflushed).
Put(o) == /\ logs' = [logs EXCEPT ![m_current_file_id] = Append(@, o)]
          /\ tail' = IF tail = "part" THEN "garbled" ELSE tail
WriteFault == /\ m_current_file
           /\ disk_faults < MaxDiskFaults
           /\ disk_faults' = disk_faults + 1
           /\ tail' \in {tail, IF tail = "whole" THEN "part" ELSE "garbled"}
Unflushed(t) == WriteFault /\ unflushed' = unflushed \cup {loc[t].cont} /\ UNCHANGED logs
Written(t, o) == m_current_file /\ Put(o) /\ UNCHANGED <<unflushed, disk_faults>>
WriteKills(t, at) ==
    /\ At(t, at)
    /\ ~m_current_file
    /\ Dies
    /\ UNCHANGED <<diskVars, history, bounds>>
WriteFails(t, at) ==
    /\ At(t, at)
    /\ WriteFault
    /\ Goto(t, "out")
    /\ loc' = [loc EXCEPT ![t] = NoOp]
    /\ UNCHANGED <<up, memVars, files, logs, last_dump, history, starts, dumps>>

-----------------------------------------------------------------------------
(* add_back *)

\* The capacity is read without the lock; a full queue returns -1 at once.
AddEnter(t) ==
    /\ At(t, "out") /\ t \in Adders
    /\ adds < MaxAdds
    /\ m_size < MaxSize /\ m_cnt < MaxCnt
    /\ adds' = adds + 1
    /\ loc' = [loc EXCEPT ![t] = [NoOp EXCEPT !.cont = adds']]
    /\ Goto(t, "add_open")
    /\ UNCHANGED <<up, memVars, diskVars, accepted, deleted, dump_lives, unflushed, bounds>>

AddOpen(t) == OpenNewFile(t, "add_open", "add_ids")

\* The file id as it is now, and the next op id and task id.
AddIds(t) ==
    /\ At(t, "add_ids")
    /\ m_current_op_id' = m_current_op_id + 1
    /\ m_current_task_id' = m_current_task_id + 1
    /\ loc' = [loc EXCEPT ![t] = [cmd |-> "ADD", op_id |-> m_current_op_id',
                                  file_id |-> m_current_file_id,
                                  id |-> m_current_task_id', cont |-> @.cont]]
    /\ Goto(t, "add_save")
    /\ UNCHANGED <<up, m_tasks, m_size, m_current_file_id, m_current_file, m_sem, diskVars,
                   history, bounds>>

\* save_task_to_file.
AddSave(t) ==
    \/ WriteKills(t, "add_save")
    \/ WriteFails(t, "add_save")
    \/ /\ At(t, "add_save")
       /\ Written(t, loc[t]) \/ Unflushed(t)
       /\ Goto(t, "add_task")
       /\ UNCHANGED <<up, memVars, loc, files, last_dump, adds, accepted, deleted, dump_lives,
                      starts, dumps>>

\* Mutant: the semaphore is posted before the task is in m_tasks.
AddTaskPostsFirst(t) ==
    /\ At(t, "add_task")
    /\ m_sem' = m_sem + 1
    /\ Goto(t, "add_post")
    /\ UNCHANGED <<up, m_tasks, m_size, m_current_op_id, m_current_task_id,
                   m_current_file_id, m_current_file, loc, diskVars, history, bounds>>

\* add_task, under m_cs.
AddTask(t) ==
    /\ At(t, "add_task")
    /\ m_tasks' = Append(m_tasks, loc[t])
    /\ m_size' = m_size + 1
    /\ Goto(t, "add_post")
    /\ UNCHANGED <<up, m_current_op_id, m_current_task_id, m_current_file_id,
                   m_current_file, m_sem, loc, diskVars, history, bounds>>

AddPost(t) ==
    /\ At(t, "add_post")
    /\ m_sem' = m_sem + 1
    /\ accepted' = accepted \cup {loc[t].cont}
    /\ loc' = [loc EXCEPT ![t] = NoOp]
    /\ Goto(t, "out")
    /\ UNCHANGED <<up, m_tasks, m_size, m_current_op_id, m_current_task_id,
                   m_current_file_id, m_current_file, diskVars, adds, deleted, dump_lives,
                   unflushed, bounds>>

-----------------------------------------------------------------------------
(* get_front, then del of what it returned *)

GetWait(t) ==
    /\ At(t, "out") /\ t \in Consumers
    /\ m_sem > 0
    /\ m_sem' = m_sem - 1
    /\ Goto(t, "permit")
    /\ UNCHANGED <<up, m_tasks, m_size, m_current_op_id, m_current_task_id,
                   m_current_file_id, m_current_file, loc, diskVars, history, bounds>>

\* Under m_cs; assert(m_cnt) is PermitFindsTask.
GetFront(t) ==
    /\ At(t, "permit")
    /\ m_cnt > 0
    /\ loc' = [loc EXCEPT ![t] = Head(m_tasks)]
    /\ m_tasks' = Tail(m_tasks)
    /\ m_size' = m_size - 1
    /\ Goto(t, "have")
    /\ UNCHANGED <<up, m_current_op_id, m_current_task_id, m_current_file_id,
                   m_current_file, m_sem, diskVars, history, bounds>>

DelOpen(t) == OpenNewFile(t, "have", "del_ids")

\* The record that del writes: the op id is new, m_log_file_id is not set (it
\* is read by nobody, as a delete record never enters m_tasks).
DelIds(t) ==
    /\ At(t, "del_ids")
    /\ m_current_op_id' = m_current_op_id + 1
    /\ loc' = [loc EXCEPT ![t] = [cmd |-> "DEL", op_id |-> m_current_op_id', file_id |-> 0,
                                  id |-> @.id, cont |-> @.cont]]
    /\ Goto(t, "del_write")
    /\ UNCHANGED <<up, m_tasks, m_size, m_current_task_id, m_current_file_id,
                   m_current_file, m_sem, diskVars, history, bounds>>

DelWrite(t) ==
    \/ WriteKills(t, "del_write")
    \/ WriteFails(t, "del_write")
    \/ /\ At(t, "del_write")
       /\ Written(t, [loc[t] EXCEPT !.cont = NoCont]) \/ Unflushed(t)
       /\ deleted' = deleted \cup {loc[t].cont}
       /\ loc' = [loc EXCEPT ![t] = NoOp]
       /\ Goto(t, "out")
       /\ UNCHANGED <<up, memVars, files, last_dump, adds, accepted, dump_lives, starts, dumps>>

-----------------------------------------------------------------------------
(* dump *)

\* Under m_cs: the current file is closed, and a dump file is named after the
\* first task in memory, or else after the next file and op.
DumpName == IF m_tasks # <<>>
              THEN [log_id |-> Head(m_tasks).file_id, op_id |-> Head(m_tasks).op_id]
              ELSE [log_id |-> m_current_file_id + 1, op_id |-> m_current_op_id + 1]

Dump ==
    /\ up
    /\ dumps < MaxDumps
    /\ dumps' = dumps + 1
    /\ m_current_file' = FALSE
    /\ \/ /\ last_dump' = DumpName
          /\ dump_lives' = dump_lives \cup {starts}
          /\ UNCHANGED disk_faults
       \/ /\ disk_faults < MaxDiskFaults
          /\ disk_faults' = disk_faults + 1
          /\ UNCHANGED <<last_dump, dump_lives>>
    /\ UNCHANGED <<up, m_tasks, m_size, m_current_op_id, m_current_task_id,
                   m_current_file_id, m_sem, threadVars, files, logs, tail, adds, accepted, deleted,
                   unflushed, starts>>

QueueNext == \/ Start \/ Crash \/ Dump
        \/ \E t \in Threads :
              \/ AddEnter(t) \/ AddOpen(t) \/ AddIds(t) \/ AddSave(t) \/ AddTask(t)
              \/ AddPost(t)
              \/ GetWait(t) \/ GetFront(t) \/ DelOpen(t) \/ DelIds(t) \/ DelWrite(t)

QueueSpec == Init /\ [][QueueNext]_vars

-----------------------------------------------------------------------------
(* Properties *)

Op == [cmd : {"NONE", "ADD", "DEL"}, op_id : Nat, file_id : Nat, id : Nat, cont : Nat]

TypeOK ==
    /\ up \in BOOLEAN
    /\ m_tasks \in Seq(Op) /\ m_size \in Nat
    /\ m_current_op_id \in Nat /\ m_current_task_id \in Nat
    /\ m_current_file_id \in 0..MaxFiles
    /\ m_current_file \in BOOLEAN
    /\ m_sem \in Nat
    /\ pc \in [Threads -> {"out", "add_open", "add_ids", "add_save", "add_task", "add_post",
                           "permit", "have", "del_ids", "del_write"}]
    /\ loc \in [Threads -> Op]
    /\ files \subseteq 1..MaxFiles /\ logs \in [1..MaxFiles -> Seq(Op)]
    /\ last_dump \in [log_id : Nat, op_id : Nat]
    /\ tail \in {"whole", "part", "garbled"} /\ unflushed \subseteq 1..adds
    /\ accepted \subseteq 1..adds /\ deleted \subseteq 1..adds
    /\ dump_lives \subseteq 1..starts

Those(l) == {t \in Threads : pc[t] = l}
Queued == {t.cont : t \in ToSet(m_tasks)}
InHand == {t \in Threads : pc[t] \in {"have", "del_ids", "del_write"}}

\* assert(m_cnt) in get_front: a consumer that got a permit finds a task, also
\* when the permits were set by a start.
PermitFindsTask == up => m_sem + Cardinality(Those("permit")) + Cardinality(Those("add_post"))
                           = m_cnt

\* What a start would load from the disk as it is.
Recoverable == {t.cont : t \in ToSet(Replayed)}

\* At least once: a task that add_back took and whose delete is not on disk is
\* there for the next start, whenever the process dies.  A failed fflush loses
\* the record of its own task and no other.  It holds until the first dump, which
\* may lose tasks.
Survives == dump_lives = {} => (accepted \ deleted) \ unflushed \subseteq Recoverable

\* A task whose delete is on disk is never handed out again, however many starts
\* follow, unless a failed fflush lost that delete; and within one life of the
\* process a task is in one place: no start loads it twice, no delete of a task
\* with its id removes it.  It holds until a second life dumps.  A start after a
\* dump counts ids from what it reads, and a task may carry a file id lower than
\* the file it is in (AddIds comes before AddSave), so a dump named after it brings
\* back records whose ids were used again meanwhile: a delete then erases another
\* task than its own.
DumpsOfOneLife == \A l, m \in dump_lives : l = m

NotRedelivered == DumpsOfOneLife =>
    /\ (deleted \ unflushed) \cap Recoverable = {}
    /\ up => /\ (deleted \ unflushed) \cap Queued = {}
             /\ Cardinality(Queued) = m_cnt
             /\ \A t \in InHand : loc[t].cont \notin Queued
             /\ \A t, u \in InHand : t # u => loc[t].cont # loc[u].cont

\* What durability means (eq_imp::init, add_back, del): no task is lost, none
\* comes back, as long as nothing was written behind a part of a record.
Durable == tail # "garbled" => Survives /\ NotRedelivered

\* What add_back and del promise by returning success, and a failed fflush breaks.
ToldIsOnDisk == tail # "garbled" /\ unflushed = {}
=============================================================================
