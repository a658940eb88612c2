-------------------------- MODULE ThreadPoolProofs --------------------------
(***************************************************************************)
(* What ThreadPool keeps for any number of permanent and temporary thread  *)
(* objects, producers and tasks.  Three facts carry the proof: the queue   *)
(* is stopped before stop() does anything else (Stopping); no permanent    *)
(* thread has lost its m_run, and no exit_task has entered the queue,      *)
(* before stop() turns to the permanent threads (Permanents); and an       *)
(* object whose m_create_thread stop() has cleared has no OS thread left   *)
(* (Joined).                                                               *)
(***************************************************************************)
EXTENDS ThreadPool, FiniteSetTheorems, TLAPS

\* The states of the owner before, and after, stop() stops the queue, and
\* when it has turned to the permanent threads.
BeforeStop == {"inited", "running", "stop_queue"}
Late == {"stop_perm", "stopped", "freed"}

Stopping ==
    /\ IsFiniteSet(m_oplists)
    /\ mainpc \notin BeforeStop \cup {"freed"} => m_stop
    /\ mainpc \in {"stop_perm", "stopped"} => m_oplists = {}
    /\ mainpc = "freed" => \A p \in Producers : ppc[p] # "adding"

Permanents ==
    /\ \A e \in m_oplists : e.task # "exit_task"
    /\ \A k \in OSThreads : got[k].task # "exit_task"
    /\ mainpc \notin Late =>
         \A o \in Permanent : /\ tpc[o] \notin {"leaving", "left", "ended"}
                              /\ tpc[o] # "unused" => thr[o].run

Joined ==
    /\ mainpc = "inited" => \A k \in {Master} \cup Permanent : tpc[k] = "unused"
    /\ mainpc \in {"running", "stop_queue", "stop_master", "join_master"} => thr[Master].created
    /\ mainpc \in {"join_temp", "add_exit", "stop_perm", "stopped"} => tpc[Master] = "ended"
    /\ mainpc \notin {"inited", "freed"} =>
         \A o \in Permanent : ~thr[o].created => tpc[o] = "ended"
    /\ mainpc = "stopped" => \A o \in Permanent : ~thr[o].created
    /\ FreeAfterJoin

\* A master that is creating a thread has a ring to create it in.
Ring == tpc[Master] = "create" => NTemp > 0

IInv == TypeOK /\ Ring /\ Stopping /\ Permanents /\ Joined

-----------------------------------------------------------------------------
(* The queue's own actions *)

\* A finite queue stays finite, and what it does to its variables.
LEMMA SGetFacts ==
  ASSUME NEW k \in OSThreads, TypeOK, IsFiniteSet(m_oplists), Q!SGet(k)
  PROVE  /\ IsFiniteSet(m_oplists')
         /\ m_oplists' \subseteq m_oplists
         /\ \E e \in m_oplists : got' = [got EXCEPT ![k] = e]
         /\ UNCHANGED <<m_total_task_cnt, m_stop>>
<1>1. PICK e \in m_oplists : /\ m_oplists' = m_oplists \ {e}
                            /\ got' = [got EXCEPT ![k] = e]
                            /\ UNCHANGED <<m_total_task_cnt, m_stop>>
  BY DEF Q!SGet
<1>2. IsFiniteSet(m_oplists')
  BY <1>1, FS_RemoveElement
<1> QED
  BY <1>1, <1>2

LEMMA SAddFacts ==
  ASSUME TypeOK, IsFiniteSet(m_oplists), Q!SAdd("task", 0)
  PROVE  /\ ~m_stop
         /\ IsFiniteSet(m_oplists')
         /\ m_oplists' = m_oplists \cup {[task |-> "task", prio |-> 0, seq |-> m_total_task_cnt]}
         /\ m_oplists' \subseteq Entry
         /\ m_total_task_cnt' \in Nat
         /\ UNCHANGED <<m_stop, got>>
<1>1. /\ ~m_stop
      /\ m_oplists' = m_oplists \cup {[task |-> "task", prio |-> 0, seq |-> m_total_task_cnt]}
      /\ m_total_task_cnt' = m_total_task_cnt + 1
      /\ UNCHANGED <<m_stop, got>>
  BY DEF Q!SAdd
<1>2. IsFiniteSet(m_oplists')
  BY <1>1, FS_AddElement
<1> QED
  BY <1>1, <1>2 DEF TypeOK, Entry

\* The abstract queue hands out entries of this queue.
LEMMA SDoneFacts ==
  ASSUME NEW k \in OSThreads, Q!SDone(k)
  PROVE  got' = [got EXCEPT ![k] = Q!NoEntry] /\ UNCHANGED <<m_oplists, m_total_task_cnt, m_stop>>
  BY DEF Q!SDone

LEMMA SizeIsNat == ASSUME IsFiniteSet(m_oplists) PROVE Size \in Nat
  BY FS_CardinalityType DEF Size

\* A thread object stays one when its fields are written.
LEMMA FieldTypes ==
  ASSUME NEW r \in ThreadObject
  PROVE  /\ \A v \in {"INIT", "RUNNING", "STOP"} : [r EXCEPT !.status = v] \in ThreadObject
         /\ \A b \in BOOLEAN : /\ [r EXCEPT !.run = b] \in ThreadObject
                              /\ [r EXCEPT !.created = b] \in ThreadObject
         /\ [r EXCEPT !.run = TRUE, !.created = TRUE] \in ThreadObject
  BY DEF ThreadObject

LEMMA ThreadFieldWrite ==
  ASSUME NEW f \in [Objects -> ThreadObject], NEW x
  PROVE  /\ \A v \in {"INIT", "RUNNING", "STOP"} :
               [f EXCEPT ![x].status = v] \in [Objects -> ThreadObject]
         /\ \A b \in BOOLEAN : [f EXCEPT ![x].run = b] \in [Objects -> ThreadObject]
  BY FieldTypes

LEMMA InitIInv == Init => IInv
<1> SUFFICES ASSUME Init PROVE IInv
  OBVIOUS
<1> USE DEF Init, Q!SInit
<1>0. \A o \in Objects : thr[o] \in ThreadObject
  BY DEF ThreadObject
<1>01. exits \in 0..Cardinality(Permanent)
  BY PoolAssumption, FS_CardinalityType
<1>02. thr \in [Objects -> ThreadObject] /\ tpc \in [OSThreads -> Places]
  BY <1>0 DEF Places
<1>03. loc \in [task_q_sz : Nat, cnt : Nat, i : Nat, c : Nat]
  OBVIOUS
<1>04. /\ handle \in [Temp -> {NoSlot} \cup Slots]
       /\ obj \in [Slots -> {0} \cup Temp]
       /\ m_tmp_thread_idx \in {0} \cup Temp
       /\ cur \in {NoThread} \cup Permanent
       /\ ppc \in [Producers -> {"out", "adding", "DO_NOT_START", "refused", "TOO_BUSY"}]
  BY DEF NoThread, NoSlot
<1>1. TypeOK
  BY <1>01, <1>02, <1>03, <1>04 DEF TypeOK
<1>2. Ring
  BY DEF Ring, OSThreads
<1>3. Stopping
  BY FS_EmptySet DEF Stopping, BeforeStop
<1>4. Permanents
  BY DEF Permanents, Late, OSThreads, Q!NoEntry
<1>5. Joined
  BY DEF Joined, FreeAfterJoin, OSThreads
<1> QED
  BY <1>1, <1>2, <1>3, <1>4, <1>5 DEF IInv

-----------------------------------------------------------------------------
(* Types *)

\* What a step of an OS thread leaves alone.
LEMMA ThreadTypes ==
  ASSUME NEW k \in OSThreads, TypeOK, Stopping,
         \/ ThreadEnter(k) \/ ThreadLoop(k) \/ ThreadLeave(k) \/ ThreadEnd(k) \/ RunTask(k)
         \/ k \in Permanent /\ PermanentGet(k)
         \/ k \in Slots /\ TemporaryGet(k)
  PROVE  TypeOK'
<1> USE DEF queueVars, objVars, masterVars, ownerVars
<1>1. CASE ThreadEnter(k) \/ ThreadLoop(k) \/ ThreadLeave(k) \/ ThreadEnd(k)
  <2>1. thr' \in [Objects -> ThreadObject]
    <3>1. CASE ThreadEnter(k)
      BY <3>1, ThreadFieldWrite DEF ThreadEnter, TypeOK
    <3>2. CASE ThreadLeave(k)
      BY <3>2, ThreadFieldWrite DEF ThreadLeave, TypeOK
    <3>3. CASE ThreadEnd(k)
      BY <3>3, ThreadFieldWrite DEF ThreadEnd, TypeOK
    <3>4. CASE ThreadLoop(k)
      BY <3>4 DEF ThreadLoop, TypeOK
    <3> QED
      BY <1>1, <3>1, <3>2, <3>3, <3>4
  <2>2. tpc' \in [OSThreads -> Places]
    BY <1>1 DEF ThreadEnter, ThreadLoop, ThreadLeave, ThreadEnd, TypeOK, Goto, Places
  <2> QED
    BY <1>1, <2>1, <2>2 DEF ThreadEnter, ThreadLoop, ThreadLeave, ThreadEnd, TypeOK
<1>2. CASE RunTask(k)
  BY <1>2, SDoneFacts DEF RunTask, TypeOK, Goto, Places
<1>3. CASE PermanentGet(k) \/ TemporaryGet(k)
  <2>1. /\ m_oplists' \subseteq m_oplists
        /\ got' \in [OSThreads -> Entry \cup {Q!NoEntry}]
        /\ UNCHANGED <<m_total_task_cnt, m_stop>>
    BY <1>3, SGetFacts DEF PermanentGet, TemporaryGet, Stopping, TypeOK
  <2>2. tpc' \in [OSThreads -> Places]
    BY <1>3 DEF PermanentGet, TemporaryGet, TypeOK, Goto, Places
  <2> QED
    BY <1>3, <2>1, <2>2 DEF PermanentGet, TemporaryGet, TypeOK
<1> QED
  BY <1>1, <1>2, <1>3

LEMMA MasterTypes ==
  ASSUME TypeOK, Ring, Stopping,
         MasterCheck \/ MasterTryStart \/ MasterCreate \/ MasterStarted
  PROVE  TypeOK' /\ Ring'
<1> USE DEF queueVars, objVars, masterVars, ownerVars, OSThreads
<1>0. Size \in Nat
  BY SizeIsNat DEF Stopping
<1>1. CASE MasterCheck
  <2>1. NeedMore(Size) => Least(Size - m_task_q_past_sz, NTemp) \in Nat
    BY <1>0, PoolAssumption DEF NeedMore, Least, TypeOK
  <2>2. loc' \in [task_q_sz : Nat, cnt : Nat, i : Nat, c : Nat]
    BY <1>0, <1>1, <2>1 DEF MasterCheck, TypeOK
  <2>3. tpc' \in [OSThreads -> Places]
        /\ tpc'[Master] # "create"
    BY <1>1 DEF MasterCheck, TypeOK, Goto, Places
  <2>4. m_task_q_past_sz' \in Nat /\ m_too_busy' \in BOOLEAN
    BY <1>0, <1>1 DEF MasterCheck, TypeOK
  <2> QED
    BY <1>1, <2>2, <2>3, <2>4 DEF MasterCheck, TypeOK, Ring
<1>2. ASSUME NTemp > 0 PROVE NextIdx \in Temp
  BY <1>2, PoolAssumption DEF NextIdx, Temp, TypeOK
<1>3. CASE MasterTryStart
  <2>1. NTemp > 0
    BY <1>3, PoolAssumption DEF MasterTryStart, MoreToStart, TypeOK
  <2>2. NextIdx \in Temp
    BY <2>1, <1>2
  <2>3. loc' \in [task_q_sz : Nat, cnt : Nat, i : Nat, c : Nat]
    BY <1>3 DEF MasterTryStart, TypeOK
  <2>4. tpc' \in [OSThreads -> Places]
    BY <1>3 DEF MasterTryStart, TypeOK, Goto, Places
  <2> QED
    BY <1>3, <2>1, <2>2, <2>3, <2>4 DEF MasterTryStart, TypeOK, Ring
<1>4. CASE MasterCreate
  <2>1. NextIdx \in Temp
    BY <1>4, <1>2 DEF MasterCreate, Ring
  <2>2. PICK k \in Slots : /\ tpc' = [tpc EXCEPT ![k] = "created", ![Master] = "start"]
                           /\ obj' = [obj EXCEPT ![k] = m_tmp_thread_idx]
                           /\ handle' = [handle EXCEPT ![m_tmp_thread_idx] = k]
    BY <1>4 DEF MasterCreate
  <2>3. thr' \in [Objects -> ThreadObject]
    BY <1>4, FieldTypes DEF MasterCreate, TypeOK
  <2>4. loc' \in [task_q_sz : Nat, cnt : Nat, i : Nat, c : Nat]
    <3>1. loc' = [loc EXCEPT !.i = loc.i + 1, !.c = loc.c + 1]
      BY <1>4 DEF MasterCreate
    <3>2. loc.i + 1 \in Nat /\ loc.c + 1 \in Nat
      BY DEF TypeOK
    <3> QED
      BY <3>1, <3>2 DEF TypeOK
  <2>5. handle' \in [Temp -> {NoSlot} \cup Slots] /\ obj' \in [Slots -> {0} \cup Temp]
    BY <2>2 DEF TypeOK
  <2>6. tpc' \in [OSThreads -> Places]
        /\ tpc'[Master] = "start"
    BY <2>2 DEF TypeOK, Places
  <2> QED
    BY <1>4, <2>1, <2>3, <2>4, <2>5, <2>6 DEF MasterCreate, TypeOK, Ring
<1>5. CASE MasterStarted
  <2>1. tpc' \in [OSThreads -> Places]
        /\ tpc'[Master] = "loop"
    BY <1>5 DEF MasterStarted, TypeOK, Goto, Places
  <2>2. m_task_q_past_sz' \in Nat /\ m_too_busy' \in BOOLEAN
    BY <1>5 DEF MasterStarted, TypeOK
  <2> QED
    BY <1>5, <2>1, <2>2 DEF MasterStarted, TypeOK, Ring
<1> QED
  BY <1>1, <1>3, <1>4, <1>5

LEMMA ProducerTypes ==
  ASSUME NEW p \in Producers, TypeOK, Stopping, AddTaskEnter(p) \/ AddTaskQueue(p)
  PROVE  TypeOK' /\ UNCHANGED tpc
<1> USE DEF queueVars, objVars, masterVars, ownerVars
<1>1. CASE AddTaskEnter(p)
  BY <1>1 DEF AddTaskEnter, TypeOK
<1>2. CASE AddTaskQueue(p)
  <2>1. ppc' \in [Producers -> {"out", "adding", "DO_NOT_START", "refused", "TOO_BUSY"}]
    BY <1>2 DEF AddTaskQueue, TypeOK
  <2>2. /\ m_oplists' \subseteq Entry
        /\ m_total_task_cnt' \in Nat
        /\ UNCHANGED <<m_stop, got>>
    BY <1>2, SAddFacts DEF AddTaskQueue, Stopping, TypeOK
  <2> QED
    BY <1>2, <2>1, <2>2 DEF AddTaskQueue, TypeOK
<1> QED
  BY <1>1, <1>2

\* The owner's steps but Run and Free, which touch every object.
OwnerStep == \/ StopBegin \/ StopQueue \/ StopMaster \/ JoinMaster \/ JoinTemp
             \/ AddExitTask \/ Drain \/ StopReturn
             \/ \E o \in Permanent : StopPermanent(o) \/ JoinPermanent(o)

LEMMA OwnerTypes ==
  ASSUME TypeOK, Stopping, OwnerStep
  PROVE  TypeOK' /\ UNCHANGED tpc
<1> USE DEF queueVars, objVars, masterVars, ownerVars
<1>0. \A O : NotCreated(O) \in [Objects -> ThreadObject]
  BY FieldTypes DEF NotCreated, TypeOK
<1>1. CASE StopBegin \/ Drain \/ StopReturn
  BY <1>1 DEF StopBegin, Drain, StopReturn, TypeOK
<1>2. CASE StopQueue
  BY <1>2 DEF StopQueue, Q!SStop, TypeOK
<1>3. CASE StopMaster
  BY <1>3, ThreadFieldWrite DEF StopMaster, TypeOK
<1>4. CASE JoinMaster \/ JoinTemp
  BY <1>4, <1>0 DEF JoinMaster, JoinTemp, TypeOK
<1>5. CASE AddExitTask
  <2>1. UNCHANGED queueVars
    BY <1>5 DEF AddExitTask, Stopping, BeforeStop
  <2>2. exits' \in 0..Cardinality(Permanent)
    BY <1>5, PoolAssumption, FS_CardinalityType DEF AddExitTask, TypeOK
  <2> QED
    BY <1>5, <2>1, <2>2 DEF AddExitTask, TypeOK
<1>6. ASSUME NEW o \in Permanent, StopPermanent(o) PROVE TypeOK' /\ UNCHANGED tpc
  BY <1>6, ThreadFieldWrite DEF StopPermanent, TypeOK
<1>7. ASSUME NEW o \in Permanent, JoinPermanent(o) PROVE TypeOK' /\ UNCHANGED tpc
  BY <1>7, <1>0 DEF JoinPermanent, TypeOK
<1> QED
  BY <1>1, <1>2, <1>3, <1>4, <1>5, <1>6, <1>7 DEF OwnerStep

\* The objects that outlive stop(); none of them is in the ring.
Owned == {Master} \cup Permanent

LEMMA Apart ==
  /\ Owned \subseteq Objects /\ Owned \subseteq OSThreads
  /\ \A o \in Owned : o \notin Slots /\ o \notin Temp /\ o \notin Nat
  /\ Master \notin Permanent
  /\ \A o \in Owned : ObjOf(o) = o /\ HandleOf(o) = o
BY ObjectsAssumption DEF Owned, Objects, OSThreads, Slots, Temp, ObjOf, HandleOf

LEMMA RunFreeTypes ==
  ASSUME TypeOK, Ring, Run \/ Free
  PROVE  TypeOK' /\ Ring'
<1> USE DEF queueVars, objVars, masterVars, ownerVars
<1>1. CASE Run
  <2>1. thr' \in [Objects -> ThreadObject]
    BY <1>1, FieldTypes DEF Run, TypeOK
  <2>2. tpc' \in [OSThreads -> Places]
    BY <1>1 DEF Run, TypeOK, Places
  <2>3. tpc'[Master] = "created"
    BY <1>1, Apart DEF Run, Owned
  <2> QED
    BY <1>1, <2>1, <2>2, <2>3 DEF Run, TypeOK, Ring
<1>2. CASE Free
  <2>1. thr' \in [Objects -> ThreadObject]
    BY <1>2, FieldTypes DEF Free, TypeOK
  <2> QED
    BY <1>2, <2>1 DEF Free, TypeOK, Ring
<1> QED
  BY <1>1, <1>2

-----------------------------------------------------------------------------
(* What the steps of one actor leave to the others *)

\* One step of an OS thread.
ThreadStepOf(k) ==
    \/ ThreadEnter(k) \/ ThreadLoop(k) \/ ThreadLeave(k) \/ ThreadEnd(k) \/ RunTask(k)
    \/ k \in Permanent /\ PermanentGet(k)
    \/ k \in Slots /\ TemporaryGet(k)
MasterStep == MasterCheck \/ MasterTryStart \/ MasterCreate \/ MasterStarted
\* An OS thread moves only itself; of the objects of the pool it writes only
\* its own, and no m_create_thread at all.
LEMMA ThreadEffect ==
  ASSUME NEW k \in OSThreads, TypeOK, Stopping, ThreadStepOf(k)
  PROVE  /\ tpc[k] \notin {"unused", "ended"}
         /\ \A j \in OSThreads \ {k} : tpc'[j] = tpc[j]
         /\ \A o \in Owned : thr'[o].created = thr[o].created
         /\ \A o \in Owned \ {k} : thr'[o].run = thr[o].run
         /\ m_oplists' \subseteq m_oplists /\ IsFiniteSet(m_oplists')
         /\ \A j \in OSThreads : got'[j] \in {got[j], Q!NoEntry} \cup m_oplists
         /\ UNCHANGED <<m_stop, mainpc, ppc>>
<1> USE DEF queueVars, objVars, masterVars, ownerVars
<1>1. ObjOf(k) = k \/ ObjOf(k) \in Nat
  BY DEF ObjOf, TypeOK, Temp
<1>2. CASE ThreadEnter(k) \/ ThreadLoop(k) \/ ThreadLeave(k) \/ ThreadEnd(k)
  <2>1. tpc[k] \notin {"unused", "ended"} /\ \A j \in OSThreads \ {k} : tpc'[j] = tpc[j]
    BY <1>2 DEF ThreadEnter, ThreadLoop, ThreadLeave, ThreadEnd, TypeOK, Goto
  <2>2. \A o \in Owned : /\ thr'[o].created = thr[o].created
                         /\ o # k => thr'[o].run = thr[o].run
    <3>1. thr \in [Objects -> ThreadObject] /\ Owned \subseteq Objects
      BY Apart DEF TypeOK
    <3>2. \A o \in Owned : o # k => o # ObjOf(k)
      BY <1>1, Apart
    <3>3. CASE ThreadEnter(k)
      BY <3>1, <3>2, <3>3 DEF ThreadEnter, ThreadObject
    <3>4. CASE ThreadLeave(k)
      BY <3>1, <3>2, <3>4 DEF ThreadLeave, ThreadObject
    <3>5. CASE ThreadEnd(k)
      BY <3>1, <3>2, <3>5 DEF ThreadEnd, ThreadObject
    <3>6. CASE ThreadLoop(k)
      BY <3>6 DEF ThreadLoop
    <3> QED
      BY <1>2, <3>3, <3>4, <3>5, <3>6
  <2>3. UNCHANGED <<queueVars, mainpc, ppc>>
    BY <1>2 DEF ThreadEnter, ThreadLoop, ThreadLeave, ThreadEnd
  <2> QED
    BY <2>1, <2>2, <2>3 DEF Stopping
<1>3. CASE RunTask(k)
  BY <1>3, SDoneFacts DEF RunTask, TypeOK, Stopping, Goto
<1>4. CASE PermanentGet(k) \/ TemporaryGet(k)
  <2>1. /\ m_oplists' \subseteq m_oplists /\ IsFiniteSet(m_oplists')
        /\ \A j \in OSThreads : got'[j] \in {got[j], Q!NoEntry} \cup m_oplists
        /\ UNCHANGED m_stop
    BY <1>4, SGetFacts DEF PermanentGet, TemporaryGet, Stopping, TypeOK
  <2>2. tpc[k] \notin {"unused", "ended"} /\ \A j \in OSThreads \ {k} : tpc'[j] = tpc[j]
    BY <1>4 DEF PermanentGet, TemporaryGet, TypeOK, Goto
  <2> QED
    BY <1>4, <2>1, <2>2 DEF PermanentGet, TemporaryGet
<1> QED
  BY <1>2, <1>3, <1>4 DEF ThreadStepOf

\* The master moves itself and the slots, and writes temporary objects only.
LEMMA MasterEffect ==
  ASSUME TypeOK, MasterStep
  PROVE  /\ tpc[Master] \notin {"unused", "ended"}
         /\ \A o \in Permanent : tpc'[o] = tpc[o]
         /\ \A o \in Owned : thr'[o] = thr[o]
         /\ UNCHANGED <<queueVars, mainpc, ppc>>
<1> USE DEF queueVars, objVars, masterVars, ownerVars
<1>1. CASE MasterCheck
  BY <1>1, Apart DEF MasterCheck, Goto, TypeOK, Owned
<1>2. CASE MasterTryStart
  BY <1>2, Apart DEF MasterTryStart, Goto, TypeOK, Owned
<1>3. CASE MasterCreate
  <2>1. \A o \in Permanent : tpc'[o] = tpc[o]
    BY <1>3, Apart DEF MasterCreate, TypeOK, Owned
  <2>2. \A o \in Owned : thr'[o] = thr[o]
    BY <1>3, Apart DEF MasterCreate, TypeOK, Temp
  <2> QED
    BY <1>3, <2>1, <2>2 DEF MasterCreate
<1>4. CASE MasterStarted
  BY <1>4, Apart DEF MasterStarted, Goto, TypeOK, Owned
<1> QED
  BY <1>1, <1>2, <1>3, <1>4 DEF MasterStep

\* A producer adds one ordinary task, and only while the queue runs.
LEMMA ProducerEffect ==
  ASSUME NEW p \in Producers, TypeOK, Stopping, AddTaskEnter(p) \/ AddTaskQueue(p)
  PROVE  /\ IsFiniteSet(m_oplists')
         /\ \A e \in m_oplists' : e \in m_oplists \/ (~m_stop /\ e.task = "task")
         /\ mainpc # "freed"
         /\ UNCHANGED <<m_stop, got, thr, tpc, mainpc>>
<1> USE DEF queueVars, objVars, masterVars, ownerVars
<1>1. CASE AddTaskEnter(p)
  BY <1>1 DEF AddTaskEnter, Stopping
<1>2. CASE AddTaskQueue(p)
  BY <1>2, SAddFacts DEF AddTaskQueue, Stopping
<1> QED
  BY <1>1, <1>2

-----------------------------------------------------------------------------
(* The parts of the invariant, kept by the steps of each actor *)

\* A thread step.  Permanents is where the thread's own step matters: its
\* loop goes on because m_run is set and no exit_task is handed out.
LEMMA ThreadKeeps ==
  ASSUME NEW k \in OSThreads, IInv, ThreadStepOf(k)
  PROVE  Stopping' /\ Permanents' /\ Joined'
<1> USE DEF IInv
<1>0. /\ tpc[k] \notin {"unused", "ended"}
      /\ \A j \in OSThreads \ {k} : tpc'[j] = tpc[j]
      /\ \A o \in Owned : thr'[o].created = thr[o].created
      /\ \A o \in Owned \ {k} : thr'[o].run = thr[o].run
      /\ m_oplists' \subseteq m_oplists /\ IsFiniteSet(m_oplists')
      /\ \A j \in OSThreads : got'[j] \in {got[j], Q!NoEntry} \cup m_oplists
      /\ UNCHANGED <<m_stop, mainpc, ppc>>
  BY ThreadEffect
<1>1. Stopping'
  BY <1>0 DEF Stopping
<1>2. Joined'
  BY <1>0, Apart DEF Joined, FreeAfterJoin, Owned
<1>3. Permanents'
  <2>1. /\ \A e \in m_oplists' : e.task # "exit_task"
        /\ \A j \in OSThreads : got'[j].task # "exit_task"
    BY <1>0 DEF Permanents, Q!NoEntry
  <2>2. ASSUME mainpc \notin Late, NEW o \in Permanent
        PROVE  /\ tpc'[o] \notin {"leaving", "left", "ended"}
               /\ tpc'[o] # "unused" => thr'[o].run
    <3>0. o \in OSThreads /\ o \in Owned /\ o \in Objects /\ o \notin Slots /\ ObjOf(o) = o
      BY Apart DEF Owned
    <3>1. /\ tpc[o] \notin {"leaving", "left", "ended"}
          /\ tpc[o] # "unused" => thr[o].run
      BY <2>2 DEF Permanents
    <3>2. CASE o # k
      BY <1>0, <3>0, <3>1, <3>2
    <3>3. CASE o = k
      <4> USE DEF objVars, Goto, TypeOK
      <4>1. CASE ThreadEnter(k)
        BY <3>0, <3>1, <3>3, <4>1 DEF ThreadEnter, ThreadObject
      <4>2. CASE ThreadLoop(k)
        BY <3>0, <3>1, <3>3, <4>2 DEF ThreadLoop
      <4>3. CASE RunTask(k)
        <5>1. got[k].task # "exit_task"
          BY DEF Permanents
        <5> QED
          BY <3>0, <3>1, <3>3, <4>3, <5>1 DEF RunTask
      <4>4. CASE PermanentGet(k)
        BY <3>0, <3>1, <3>3, <4>4 DEF PermanentGet
      <4>5. ~ThreadLeave(k) /\ ~ThreadEnd(k) /\ k \notin Slots
        BY <3>0, <3>1, <3>3 DEF ThreadLeave, ThreadEnd
      <4> QED
        BY <4>1, <4>2, <4>3, <4>4, <4>5 DEF ThreadStepOf
    <3> QED
      BY <3>2, <3>3
  <2> QED
    BY <1>0, <2>1, <2>2 DEF Permanents
<1> QED
  BY <1>1, <1>2, <1>3

LEMMA MasterKeeps ==
  ASSUME IInv, MasterStep
  PROVE  Stopping' /\ Permanents' /\ Joined'
<1>1. /\ tpc[Master] \notin {"unused", "ended"}
      /\ \A o \in Permanent : tpc'[o] = tpc[o]
      /\ \A o \in Owned : thr'[o] = thr[o]
      /\ UNCHANGED <<m_oplists, m_total_task_cnt, m_stop, got, mainpc, ppc>>
  BY MasterEffect DEF IInv, queueVars
<1>2. Stopping'
  BY <1>1 DEF IInv, Stopping
<1>3. Permanents'
  BY <1>1 DEF IInv, Permanents, Owned
<1>4. Joined'
  <2>1. Joined /\ mainpc \notin {"inited", "join_temp", "add_exit", "stop_perm", "stopped", "freed"}
    BY <1>1 DEF IInv, Joined, FreeAfterJoin
  <2> QED
    BY <1>1, <2>1 DEF Joined, FreeAfterJoin, Owned
<1> QED
  BY <1>2, <1>3, <1>4

LEMMA ProducerKeeps ==
  ASSUME NEW p \in Producers, IInv, AddTaskEnter(p) \/ AddTaskQueue(p)
  PROVE  Stopping' /\ Permanents' /\ Joined'
<1>1. /\ IsFiniteSet(m_oplists')
      /\ \A e \in m_oplists' : e \in m_oplists \/ (~m_stop /\ e.task = "task")
      /\ mainpc # "freed"
      /\ UNCHANGED <<m_stop, got, thr, tpc, mainpc>>
  BY ProducerEffect DEF IInv
<1>2. Stopping'
  BY <1>1 DEF IInv, Stopping, BeforeStop
<1>3. Permanents'
  BY <1>1 DEF IInv, Permanents
<1>4. Joined'
  BY <1>1 DEF IInv, Joined, FreeAfterJoin
<1> QED
  BY <1>2, <1>3, <1>4

\* The owner's steps: each moves mainpc on, and establishes what the next
\* part of stop() relies on.
LEMMA OwnerKeepsStopping == ASSUME IInv, OwnerStep PROVE Stopping'
<1> USE DEF IInv, Stopping, BeforeStop, queueVars, ownerVars
<1>1. CASE StopBegin
  BY <1>1 DEF StopBegin
<1>2. CASE StopQueue
  BY <1>2 DEF StopQueue, Q!SStop
<1>3. CASE StopMaster \/ JoinMaster \/ JoinTemp
  BY <1>3 DEF StopMaster, JoinMaster, JoinTemp
<1>4. CASE AddExitTask
  BY <1>4 DEF AddExitTask
<1>5. CASE Drain
  <2>1. m_oplists = {}
    BY <1>5, FS_EmptySet DEF Drain, Size
  <2> QED
    BY <1>5, <2>1 DEF Drain
<1>6. CASE StopReturn
  BY <1>6 DEF StopReturn
<1>7. ASSUME NEW o \in Permanent, StopPermanent(o) \/ JoinPermanent(o) PROVE Stopping'
  BY <1>7 DEF StopPermanent, JoinPermanent
<1> QED
  BY <1>1, <1>2, <1>3, <1>4, <1>5, <1>6, <1>7 DEF OwnerStep

\* thread::join writes m_create_thread only.
LEMMA NotCreatedFacts ==
  ASSUME NEW O, TypeOK
  PROVE  \A o \in Objects : /\ NotCreated(O)[o].run = thr[o].run
                            /\ NotCreated(O)[o].created <=> (thr[o].created /\ o \notin O)
<1> SUFFICES ASSUME NEW o \in Objects
             PROVE  /\ NotCreated(O)[o].run = thr[o].run
                    /\ NotCreated(O)[o].created <=> (thr[o].created /\ o \notin O)
  OBVIOUS
<1>1. thr[o] \in ThreadObject
  BY DEF TypeOK
<1>2. NotCreated(O)[o] = IF o \in O THEN [thr[o] EXCEPT !.created = FALSE] ELSE thr[o]
  BY DEF NotCreated
<1> QED
  BY <1>1, <1>2 DEF ThreadObject

LEMMA OwnerKeepsPermanents == ASSUME IInv, OwnerStep PROVE Permanents'
<1> USE DEF IInv, Permanents, queueVars, objVars, ownerVars
<1>1. CASE StopBegin \/ Drain \/ StopReturn
  BY <1>1 DEF StopBegin, Drain, StopReturn, Late
<1>2. CASE StopQueue
  BY <1>2 DEF StopQueue, Q!SStop, Late
<1>3. CASE StopMaster
  <2>1. \A o \in Permanent : thr'[o] = thr[o]
    BY <1>3, Apart DEF StopMaster, TypeOK, Owned
  <2> QED
    BY <1>3, <2>1 DEF StopMaster, Late
<1>4. CASE JoinMaster \/ JoinTemp
  <2>1. \A o \in Permanent : thr'[o].run = thr[o].run
    BY <1>4, Apart, NotCreatedFacts DEF JoinMaster, JoinTemp, Owned
  <2> QED
    BY <1>4, <2>1 DEF JoinMaster, JoinTemp, Late
<1>5. CASE AddExitTask
  BY <1>5 DEF AddExitTask, Stopping, BeforeStop
<1>6. ASSUME NEW o \in Permanent, StopPermanent(o) \/ JoinPermanent(o) PROVE Permanents'
  BY <1>6 DEF StopPermanent, JoinPermanent, Late
<1> QED
  BY <1>1, <1>2, <1>3, <1>4, <1>5, <1>6 DEF OwnerStep

LEMMA OwnerKeepsJoined == ASSUME IInv, OwnerStep PROVE Joined'
<1> USE DEF IInv, Joined, FreeAfterJoin, objVars
<1>1. CASE StopBegin \/ StopQueue \/ Drain \/ StopReturn
  BY <1>1 DEF StopBegin, StopQueue, Drain, StopReturn
<1>2. CASE StopMaster
  <2>1. \A o \in Owned : thr'[o].created = thr[o].created
    BY <1>2, Apart DEF StopMaster, TypeOK, ThreadObject
  <2> QED
    BY <1>2, <2>1 DEF StopMaster, Owned
<1>3. CASE JoinMaster
  <2>1. tpc[Master] = "ended"
    BY <1>3, Apart DEF JoinMaster, JoinReturns, Owned
  <2>2. \A o \in Permanent : thr'[o].created <=> thr[o].created
    BY <1>3, Apart, NotCreatedFacts DEF JoinMaster, Owned
  <2> QED
    BY <1>3, <2>1, <2>2 DEF JoinMaster
<1>4. CASE JoinTemp
  <2>1. \A o \in Permanent : thr'[o].created <=> thr[o].created
    BY <1>4, Apart, NotCreatedFacts DEF JoinTemp, Owned
  <2> QED
    BY <1>4, <2>1 DEF JoinTemp
<1>5. CASE AddExitTask
  BY <1>5 DEF AddExitTask
<1>6. ASSUME NEW o \in Permanent, StopPermanent(o) PROVE Joined'
  <2>1. \A p \in Permanent : thr'[p].created = thr[p].created
    BY <1>6, Apart DEF StopPermanent, TypeOK, ThreadObject, Owned
  <2> QED
    BY <1>6, <2>1 DEF StopPermanent
<1>7. ASSUME NEW o \in Permanent, JoinPermanent(o) PROVE Joined'
  <2>1. thr[o].created => tpc[o] = "ended"
    BY <1>7, Apart DEF JoinPermanent, JoinReturns, Owned
  <2>2. \A p \in Permanent : thr'[p].created <=> (thr[p].created /\ p # o)
    BY <1>7, Apart, NotCreatedFacts DEF JoinPermanent, Owned
  <2> QED
    BY <1>7, <2>1, <2>2 DEF JoinPermanent
<1> QED
  BY <1>1, <1>2, <1>3, <1>4, <1>5, <1>6, <1>7 DEF OwnerStep

LEMMA RunFreeKeeps ==
  ASSUME IInv, Run \/ Free
  PROVE  Stopping' /\ Permanents' /\ Joined'
<1> USE DEF IInv, queueVars, objVars
<1>1. CASE Run
  <2>1. \A o \in Owned : /\ tpc'[o] = "created"
                         /\ thr'[o].run /\ thr'[o].created
    <3> SUFFICES ASSUME NEW o \in Owned
                 PROVE  tpc'[o] = "created" /\ thr'[o].run /\ thr'[o].created
      OBVIOUS
    <3>1. o \in Objects /\ o \in OSThreads /\ o \notin Temp /\ o \notin Slots
      BY Apart
    <3>2. thr'[o] = [thr[o] EXCEPT !.run = TRUE, !.created = TRUE]
      BY <1>1, <3>1 DEF Run
    <3>3. thr[o] \in ThreadObject
      BY <3>1 DEF TypeOK
    <3>4. [thr[o] EXCEPT !.run = TRUE, !.created = TRUE].run
          /\ [thr[o] EXCEPT !.run = TRUE, !.created = TRUE].created
      BY <3>3 DEF ThreadObject
    <3> QED
      BY <1>1, <3>1, <3>2, <3>4 DEF Run
  <2>2. mainpc' = "running" /\ UNCHANGED <<m_oplists, m_stop, got>>
    BY <1>1 DEF Run
  <2>3. Stopping'
    BY <2>2 DEF Stopping, BeforeStop
  <2>4. Permanents'
    BY <2>1, <2>2 DEF Permanents, Owned
  <2>5. Joined'
    BY <2>1, <2>2 DEF Joined, FreeAfterJoin, Owned
  <2> QED
    BY <2>3, <2>4, <2>5
<1>2. CASE Free
  <2>1. mainpc \in {"inited", "stopped"} /\ mainpc' = "freed" /\ m_oplists' = {}
        /\ UNCHANGED <<got, tpc, ppc>>
    BY <1>2 DEF Free
  <2>2. Stopping'
    BY <1>2, <2>1, FS_EmptySet DEF Stopping, BeforeStop, Free, Adding
  <2>3. Permanents'
    BY <2>1 DEF Permanents, Late
  <2>4. Joined'
    BY <2>1 DEF Joined, FreeAfterJoin
  <2> QED
    BY <2>2, <2>3, <2>4
<1> QED
  BY <1>1, <1>2

LEMMA NextByActor ==
  Next => \/ \E k \in OSThreads : ThreadStepOf(k)
          \/ MasterStep
          \/ \E p \in Producers : AddTaskEnter(p) \/ AddTaskQueue(p)
          \/ OwnerStep
          \/ Run \/ Free
BY DEF Next, ThreadStepOf, MasterStep, OwnerStep, OSThreads

LEMMA NextKeeps == IInv /\ [Next]_vars => IInv'
<1> SUFFICES ASSUME IInv, [Next]_vars PROVE IInv'
  OBVIOUS
<1>0. /\ TypeOK /\ Ring /\ Stopping /\ Permanents /\ Joined
  BY DEF IInv
<1>1. ASSUME NEW k \in OSThreads, ThreadStepOf(k) PROVE IInv'
  <2>1. TypeOK'
    BY <1>0, <1>1, ThreadTypes DEF ThreadStepOf
  <2>2. tpc'[k] # "create" /\ \A j \in OSThreads \ {k} : tpc'[j] = tpc[j]
    <3>1. \A j \in OSThreads \ {k} : tpc'[j] = tpc[j]
      BY <1>0, <1>1, ThreadEffect
    <3>2. tpc'[k] # "create"
      BY <1>0, <1>1 DEF ThreadStepOf, ThreadEnter, ThreadLoop, ThreadLeave, ThreadEnd,
                        RunTask, PermanentGet, TemporaryGet, Goto, TypeOK
    <3> QED
      BY <3>1, <3>2
  <2>3. Ring'
    BY <1>0, <2>2 DEF Ring, OSThreads
  <2> QED
    BY <1>1, <2>1, <2>3, ThreadKeeps DEF IInv
<1>2. CASE MasterStep
  BY <1>0, <1>2, MasterTypes, MasterKeeps DEF IInv, MasterStep
<1>3. ASSUME NEW p \in Producers, AddTaskEnter(p) \/ AddTaskQueue(p) PROVE IInv'
  BY <1>0, <1>3, ProducerTypes, ProducerKeeps DEF IInv, Ring
<1>4. CASE OwnerStep
  BY <1>0, <1>4, OwnerTypes, OwnerKeepsStopping, OwnerKeepsPermanents, OwnerKeepsJoined
  DEF IInv, Ring
<1>5. CASE Run \/ Free
  BY <1>0, <1>5, RunFreeTypes, RunFreeKeeps DEF IInv
<1>6. CASE UNCHANGED vars
  BY <1>0, <1>6 DEF IInv, vars, queueVars, objVars, masterVars, ownerVars, TypeOK, Ring,
                    Stopping, Permanents, Joined, FreeAfterJoin
<1> QED
  BY <1>1, <1>2, <1>3, <1>4, <1>5, <1>6, NextByActor

-----------------------------------------------------------------------------
(* The theorems *)

\* IInv holds in every reachable state of the pool.
THEOREM Invariance == Spec => []IInv
<1> QED
  BY InitIInv, NextKeeps, PTL DEF Spec

\* The variables of the pool keep their types; the ring index stays in the
\* ring (start_temp_thread, lines 611-632).
THEOREM TypeCorrect == Spec => []TypeOK
<1>1. IInv => TypeOK
  BY DEF IInv
<1> QED
  BY <1>1, Invariance, PTL

\* stop() turns to the permanent threads only when every accepted task has
\* been handed out, and nothing enters the queue afterwards (lines 658-687).
THEOREM StopLosesNothing == Spec => []StopDrains
<1>1. IInv => StopDrains
  BY DEF IInv, Stopping, StopDrains
<1> QED
  BY <1>1, Invariance, PTL

\* free() destroys the queue, the master and the permanent threads only when
\* none of their OS threads runs (lines 530-562).
THEOREM FreedAfterJoin == Spec => []FreeAfterJoin
<1>1. IInv => FreeAfterJoin
  BY DEF IInv, Joined
<1> QED
  BY <1>1, Invariance, PTL

\* A permanent thread leaves its loop only when stop() has turned to it
\* (permanent_thread::run_process, lines 324-343).
THEOREM PermanentsStay == Spec => []PermanentStays
<1>1. IInv => PermanentStays
  BY DEF IInv, Permanents, PermanentStays, Late
<1> QED
  BY <1>1, Invariance, PTL

\* Nothing enters the queue once stop() has passed m_task_q->stop(), not even
\* a task whose add_task had found m_run set (lines 663-664).
THEOREM NothingAddedAfterStop == Spec => NoAddAfterStop
<1>1. IInv /\ [Next]_vars =>
        (mainpc \notin BeforeStop => m_oplists' \subseteq m_oplists)
  <2> SUFFICES ASSUME IInv, [Next]_vars, mainpc \notin BeforeStop
               PROVE  m_oplists' \subseteq m_oplists
    OBVIOUS
  <2> USE DEF queueVars
  <2>0. TypeOK /\ Stopping
    BY DEF IInv
  <2>1. ASSUME NEW k \in OSThreads, ThreadStepOf(k) PROVE m_oplists' \subseteq m_oplists
    BY <2>0, <2>1, ThreadEffect
  <2>2. CASE MasterStep
    BY <2>0, <2>2, MasterEffect
  <2>3. ASSUME NEW p \in Producers, AddTaskEnter(p) \/ AddTaskQueue(p)
        PROVE  m_oplists' \subseteq m_oplists
    BY <2>0, <2>3, ProducerEffect DEF Stopping
  <2>4. CASE OwnerStep
    <3>1. CASE AddExitTask
      BY <2>0, <3>1 DEF AddExitTask, Stopping, BeforeStop
    <3>2. ASSUME ~AddExitTask PROVE UNCHANGED m_oplists
      BY <2>4, <3>2 DEF OwnerStep, StopBegin, StopQueue, Q!SStop, StopMaster, JoinMaster,
                        JoinTemp, Drain, StopReturn, StopPermanent, JoinPermanent
    <3> QED
      BY <3>1, <3>2
  <2>5. CASE Run \/ Free
    BY <2>5 DEF Run, Free
  <2>6. CASE UNCHANGED vars
    BY <2>6 DEF vars
  <2> QED
    BY <2>1, <2>2, <2>3, <2>4, <2>5, <2>6, NextByActor
<1>2. IInv /\ [Next]_vars =>
        [mainpc \notin {"inited", "running", "stop_queue"}
           => m_oplists' \subseteq m_oplists]_vars
  BY <1>1 DEF BeforeStop
<1> QED
  BY <1>2, Invariance, PTL DEF Spec, NoAddAfterStop
=============================================================================
