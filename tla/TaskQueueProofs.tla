--------------------------- MODULE TaskQueueProofs ---------------------------
(***************************************************************************)
(* What TaskQueue keeps for any number of threads, tasks and priorities.   *)
(* The inductive invariant IInv says where a permit can be: in the         *)
(* semaphore, or with a thread whose pc says it still owes a critical      *)
(* section; and that this, not the lock, is what counts the elements.      *)
(***************************************************************************)
EXTENDS TaskQueue, FiniteSetTheorems, TLAPS

\* A pc belongs to a role, and a taker holds an entry exactly while it runs it.
Roles ==
    /\ \A t \in Threads : pc[t] = "adding" => t \in Producers
    /\ \A t \in Threads : pc[t] \in {"permit", "have"} => t \in Takers
    /\ \A t \in Threads : pc[t] = "deleting" => t \in Cancellers
    /\ \A w \in Takers : got[w] = NoEntry <=> pc[w] # "have"
    /\ \A t \in Producers : pc[t] = "adding" => /\ arg[t].task \in Tasks
                                                /\ arg[t].prio \in Priorities

\* A rank is given once: an entry pushed is not one that is queued.
Fresh == \A e \in m_oplists : e.seq < m_total_task_cnt

Finite == IsFiniteSet(m_oplists)

IInv == TypeOK /\ Roles /\ Fresh /\ Finite /\ PermitConservation

-----------------------------------------------------------------------------
(* Lemmas about the set of permit holders *)

\* There are finitely many permit holders.
LEMMA HoldersFinite == IsFiniteSet(PermitHolders) /\ Cardinality(PermitHolders) \in Nat
<1>1. PermitHolders \subseteq Threads
  BY DEF PermitHolders
<1> QED
  BY <1>1, FiniteThreads, FS_Subset, FS_CardinalityType

\* A thread whose permit take succeeds joins the holders.
LEMMA HolderJoins ==
  ASSUME NEW t \in Threads, NEW v \in {"permit", "deleting"}, TypeOK,
         pc[t] \notin {"permit", "deleting"}, pc' = [pc EXCEPT ![t] = v]
  PROVE  Cardinality(PermitHolders') = Cardinality(PermitHolders) + 1
<1>1. PermitHolders' = PermitHolders \cup {t} /\ t \notin PermitHolders
  BY DEF PermitHolders, TypeOK
<1> QED
  BY <1>1, HoldersFinite, FS_AddElement

\* A thread that leaves its critical section leaves the holders.
LEMMA HolderLeaves ==
  ASSUME NEW t \in Threads, NEW v, v \notin {"permit", "deleting"}, TypeOK,
         pc[t] \in {"permit", "deleting"}, pc' = [pc EXCEPT ![t] = v]
  PROVE  /\ Cardinality(PermitHolders') = Cardinality(PermitHolders) - 1
         /\ Cardinality(PermitHolders) > 0
<1>1. PermitHolders' = PermitHolders \ {t} /\ t \in PermitHolders
  BY DEF PermitHolders, TypeOK
<1>2. Cardinality(PermitHolders') = Cardinality(PermitHolders) - 1
  BY <1>1, HoldersFinite, FS_RemoveElement
<1>3. PermitHolders # {}
  BY <1>1
<1>4. Cardinality(PermitHolders) # 0
  BY <1>3, HoldersFinite, FS_EmptySet
<1> QED
  BY <1>2, <1>4, HoldersFinite

\* Any other move of a thread leaves them alone.
LEMMA HoldersStay ==
  ASSUME NEW t \in Threads, NEW v, v \notin {"permit", "deleting"}, TypeOK,
         pc[t] \notin {"permit", "deleting"}, pc' = [pc EXCEPT ![t] = v]
  PROVE  PermitHolders' = PermitHolders
  BY DEF PermitHolders, TypeOK

\* Taking one element out of a finite set.
LEMMA PopCounts ==
  ASSUME NEW e \in m_oplists, Finite, Pop(e), m_size = Cardinality(m_oplists)
  PROVE  /\ Finite'
         /\ Cardinality(m_oplists') = Cardinality(m_oplists) - 1
         /\ m_size' = Cardinality(m_oplists')
         /\ Cardinality(m_oplists') \in Nat
<1>1. m_oplists' = m_oplists \ {e} /\ m_size' = m_size - 1
  BY DEF Pop
<1>2. IsFiniteSet(m_oplists \ {e}) /\ Cardinality(m_oplists \ {e}) = Cardinality(m_oplists) - 1
  BY FS_RemoveElement DEF Finite
<1>3. Cardinality(m_oplists \ {e}) \in Nat
  BY <1>2, FS_CardinalityType
<1> QED
  BY <1>1, <1>2, <1>3 DEF Finite

-----------------------------------------------------------------------------
(* The invariant is inductive *)

LEMMA InitIInv == Init => IInv
<1> SUFFICES ASSUME Init PROVE IInv
  OBVIOUS
<1>0. NoArg \in Arg
  BY PriorityAssumption DEF Arg, NoArg
<1>1. TypeOK
  BY <1>0 DEF Init, TypeOK
<1>2. Roles
  BY DEF Init, Roles, Threads, Takers
<1>3. Fresh
  BY DEF Init, Fresh
<1>4. Finite /\ Cardinality(m_oplists) = 0
  BY FS_EmptySet DEF Init, Finite
<1>5. PermitHolders = {}
  BY DEF Init, PermitHolders
<1>6. PermitConservation
  BY <1>4, <1>5, FS_EmptySet DEF Init, PermitConservation
<1> QED
  BY <1>1, <1>2, <1>3, <1>4, <1>6 DEF IInv

LEMMA AddTaskEnterKeeps ==
  ASSUME NEW t \in Producers, NEW op \in Tasks, NEW p \in 0..MaxPriorityNum,
         IInv, AddTaskEnter(t, op, p)
  PROVE  IInv'
<1> USE DEF IInv
<1>0. t \in Threads
  BY DEF Threads
<1>1. TypeOK'
  BY <1>0 DEF AddTaskEnter, TypeOK, Arg
<1>2. Roles'
  BY <1>0, PriorityAssumption, RolesAssumption
     DEF AddTaskEnter, Roles, TypeOK, Threads, Takers, Priorities
<1>3. Fresh' /\ Finite'
  BY DEF AddTaskEnter, Fresh, Finite
<1>4. PermitHolders' = PermitHolders
  BY <1>0, HoldersStay DEF AddTaskEnter
<1>5. PermitConservation'
  BY <1>4 DEF AddTaskEnter, PermitConservation
<1> QED
  BY <1>1, <1>2, <1>3, <1>5

LEMMA AddTaskLockedKeeps ==
  ASSUME NEW t \in Producers, IInv, AddTaskLocked(t)
  PROVE  IInv'
<1> USE DEF IInv
<1> DEFINE new == [task |-> arg[t].task, prio |-> arg[t].prio, seq |-> m_total_task_cnt]
<1>0. t \in Threads
  BY DEF Threads
<1>1. new \in Entry
  BY <1>0 DEF AddTaskLocked, Roles, TypeOK, Entry
<1>2. PermitHolders' = PermitHolders
  BY <1>0, HoldersStay DEF AddTaskLocked
<1>3. Roles'
  BY <1>0, RolesAssumption DEF AddTaskLocked, Roles, TypeOK, Threads, Takers, NoArg
<1>4. CASE m_stop
  <2>1. UNCHANGED <<m_oplists, m_semp, m_size, m_total_task_cnt>>
    BY <1>4 DEF AddTaskLocked
  <2>2. TypeOK'
    BY <1>0, <2>1, PriorityAssumption DEF AddTaskLocked, TypeOK, Arg, NoArg
  <2> QED
    BY <1>2, <1>3, <2>1, <2>2 DEF Fresh, Finite, PermitConservation
<1>5. CASE ~m_stop
  <2>1. /\ m_oplists' = m_oplists \cup {new}
        /\ m_size' = m_size + 1
        /\ m_total_task_cnt' = m_total_task_cnt + 1
        /\ m_semp' = m_semp + 1
    BY <1>5 DEF AddTaskLocked, Push
  <2>2. TypeOK'
    BY <1>0, <1>1, <2>1, PriorityAssumption DEF AddTaskLocked, TypeOK, Arg, NoArg
  <2>3. new \notin m_oplists
    BY DEF Fresh, TypeOK
  <2>4. Finite' /\ Cardinality(m_oplists') = Cardinality(m_oplists) + 1
    BY <2>1, <2>3, FS_AddElement DEF Finite
  <2>5. Fresh'
    BY <2>1 DEF Fresh, TypeOK, Entry
  <2>6. PermitConservation'
    BY <1>2, <2>1, <2>4, HoldersFinite DEF PermitConservation, TypeOK
  <2> QED
    BY <1>3, <2>2, <2>4, <2>5, <2>6
<1> QED
  BY <1>4, <1>5

\* The two permit takes have the same effect when they succeed.
LEMMA PermitTakeKeeps ==
  ASSUME NEW w \in Threads, NEW v, IInv, pc[w] \notin {"permit", "deleting"},
         \/ w \in Takers /\ v = "permit" /\ pc[w] # "have"
         \/ w \in Cancellers /\ v = "deleting",
         m_semp > 0, m_semp' = m_semp - 1, pc' = [pc EXCEPT ![w] = v],
         arg' \in [Threads -> Arg], w \in Takers => arg' = arg,
         \A t \in Producers : arg'[t] = arg[t],
         UNCHANGED <<m_oplists, m_size, m_total_task_cnt, m_stop, got, done>>
  PROVE  IInv'
<1> USE DEF IInv
<1>0. m_semp' \in Nat
  BY DEF TypeOK
<1>1. TypeOK'
  BY <1>0 DEF TypeOK
<1>2. Roles'
  BY RolesAssumption DEF Roles, TypeOK, Threads, Takers
<1>3. Fresh' /\ Finite'
  BY DEF Fresh, Finite
<1>4. Cardinality(PermitHolders') = Cardinality(PermitHolders) + 1
  BY HolderJoins
<1>5. PermitConservation'
  BY <1>4, HoldersFinite DEF PermitConservation, TypeOK
<1> QED
  BY <1>1, <1>2, <1>3, <1>5

LEMMA GetTaskTakeKeeps ==
  ASSUME NEW w \in Workers, IInv, GetTaskTake(w)
  PROVE  IInv'
<1>1. w \in Threads /\ w \in Takers
  BY DEF Threads, Takers
<1>2. arg' \in [Threads -> Arg]
  BY DEF IInv, TypeOK, GetTaskTake
<1> QED
  BY <1>1, <1>2, PermitTakeKeeps DEF GetTaskTake

\* A refused try_take, of either kind, moves one pc to a rest.
LEMMA RefusedKeeps ==
  ASSUME NEW w \in Threads, NEW v \in {"null", "notqueued"}, IInv,
         pc[w] \in {"out", "null"}, pc' = [pc EXCEPT ![w] = v],
         arg' \in [Threads -> Arg], \A t \in Producers : arg'[t] = arg[t],
         UNCHANGED <<m_oplists, m_semp, m_size, m_total_task_cnt, m_stop, got, done>>
  PROVE  IInv'
<1> USE DEF IInv
<1>1. TypeOK'
  BY DEF TypeOK
<1>2. Roles'
  BY DEF Roles, TypeOK, Threads, Takers
<1>3. PermitHolders' = PermitHolders
  BY HoldersStay
<1>4. Fresh' /\ Finite' /\ PermitConservation'
  BY <1>3 DEF Fresh, Finite, PermitConservation
<1> QED
  BY <1>1, <1>2, <1>4

LEMMA TryGetTaskTakeKeeps ==
  ASSUME NEW w \in TempWorkers, IInv, TryGetTaskTake(w)
  PROVE  IInv'
<1>1. w \in Threads /\ w \in Takers
  BY DEF Threads, Takers
<1>2. arg' \in [Threads -> Arg]
  BY DEF IInv, TypeOK, TryGetTaskTake
<1>3. CASE m_semp > 0
  BY <1>1, <1>2, <1>3, PermitTakeKeeps DEF TryGetTaskTake
<1>4. CASE m_semp = 0
  BY <1>1, <1>2, <1>4, RefusedKeeps DEF TryGetTaskTake
<1> QED
  BY <1>3, <1>4 DEF IInv, TypeOK

LEMMA GetTaskLockedKeeps ==
  ASSUME NEW w \in Takers, IInv, GetTaskLocked(w)
  PROVE  IInv'
<1> USE DEF IInv
<1>0. w \in Threads
  BY DEF Threads
<1>1. PICK v \in {"have", "null"} : pc' = [pc EXCEPT ![w] = v]
  BY DEF GetTaskLocked
<1>2. /\ Cardinality(PermitHolders') = Cardinality(PermitHolders) - 1
      /\ Cardinality(PermitHolders) > 0
  BY <1>0, <1>1, HolderLeaves DEF GetTaskLocked
<1>3. m_oplists # {}
  BY <1>2, HoldersFinite, FS_EmptySet DEF PermitConservation, TypeOK
<1>4. PICK e \in m_oplists : /\ Pop(e)
                            /\ got' = [got EXCEPT ![w] = e]
                            /\ pc' = [pc EXCEPT ![w] = "have"]
  BY <1>3 DEF GetTaskLocked
<1>5. /\ Finite'
      /\ Cardinality(m_oplists') = Cardinality(m_oplists) - 1
      /\ m_size' = Cardinality(m_oplists')
      /\ Cardinality(m_oplists') \in Nat
  BY <1>4, PopCounts DEF PermitConservation
<1>6. TypeOK'
  BY <1>0, <1>4, <1>5 DEF GetTaskLocked, TypeOK, Pop
<1>7. e # NoEntry
  BY TasksAssumption DEF TypeOK, Entry, NoEntry
<1>8. Roles'
  BY <1>0, <1>4, <1>7, RolesAssumption DEF GetTaskLocked, Roles, TypeOK, Threads, Takers
<1>9. Fresh'
  BY <1>4 DEF GetTaskLocked, Fresh, Pop
<1>10. PermitConservation'
  BY <1>2, <1>5, HoldersFinite DEF GetTaskLocked, PermitConservation, TypeOK
<1> QED
  BY <1>5, <1>6, <1>8, <1>9, <1>10

LEMMA RunTaskKeeps ==
  ASSUME NEW w \in Takers, IInv, RunTask(w)
  PROVE  IInv'
<1> USE DEF IInv
<1>0. w \in Threads
  BY DEF Threads
<1>1. got[w].seq \in Nat
  BY DEF TypeOK, Entry, NoEntry
<1>2. done' \in [Fates -> SUBSET Nat]
  BY <1>1 DEF RunTask, TypeOK, End
<1>3. TypeOK'
  BY <1>0, <1>2 DEF RunTask, TypeOK
<1>4. Roles'
  BY <1>0 DEF RunTask, Roles, TypeOK, Threads, Takers
<1>5. PermitHolders' = PermitHolders
  BY <1>0, HoldersStay DEF RunTask
<1>6. Fresh' /\ Finite' /\ PermitConservation'
  BY <1>5 DEF RunTask, Fresh, Finite, PermitConservation
<1> QED
  BY <1>3, <1>4, <1>6

LEMMA DelTaskTakeKeeps ==
  ASSUME NEW c \in Cancellers, NEW op \in Tasks, NEW p \in Priorities,
         IInv, DelTaskTake(c, op, p)
  PROVE  IInv'
<1>1. c \in Threads /\ c \notin Takers /\ c \notin Producers
  BY RolesAssumption DEF Threads
<1>2. /\ arg' = [arg EXCEPT ![c] = [task |-> op, prio |-> p]]
      /\ arg \in [Threads -> Arg]
  BY DEF DelTaskTake, IInv, TypeOK
<1>3. [task |-> op, prio |-> p] \in Arg
  BY PriorityAssumption DEF Arg, Priorities
<1>4. arg' \in [Threads -> Arg] /\ \A t \in Producers : arg'[t] = arg[t]
  BY <1>1, <1>2, <1>3 DEF Threads
<1>5. CASE m_semp > 0
  BY <1>1, <1>4, <1>5, PermitTakeKeeps DEF DelTaskTake
<1>6. CASE m_semp = 0
  BY <1>1, <1>4, <1>6, RefusedKeeps DEF DelTaskTake
<1> QED
  BY <1>5, <1>6 DEF IInv, TypeOK

LEMMA DelTaskFoundKeeps ==
  ASSUME NEW c \in Cancellers, IInv, DelTaskFound(c)
  PROVE  IInv'
<1> USE DEF IInv
<1>0. c \in Threads /\ pc' = [pc EXCEPT ![c] = "deleted"]
  BY DEF Threads, DelTaskFound
<1>1. PICK e \in m_oplists : Pop(e) /\ done' = End("deleted", {e.seq})
  BY DEF DelTaskFound
<1>2. Cardinality(PermitHolders') = Cardinality(PermitHolders) - 1
  BY <1>0, HolderLeaves DEF DelTaskFound
<1>3. /\ Finite'
      /\ Cardinality(m_oplists') = Cardinality(m_oplists) - 1
      /\ m_size' = Cardinality(m_oplists')
      /\ Cardinality(m_oplists') \in Nat
  BY <1>1, PopCounts DEF PermitConservation
<1>4. e.seq \in Nat
  BY DEF TypeOK, Entry
<1>5. done' \in [Fates -> SUBSET Nat]
  BY <1>1, <1>4 DEF TypeOK, End
<1>6. TypeOK'
  BY <1>0, <1>1, <1>3, <1>5 DEF DelTaskFound, TypeOK, Pop
<1>7. Roles'
  BY <1>0 DEF DelTaskFound, Roles, TypeOK, Threads, Takers
<1>8. Fresh'
  BY <1>1 DEF DelTaskFound, Fresh, Pop
<1>9. PermitConservation'
  BY <1>2, <1>3, HoldersFinite DEF DelTaskFound, PermitConservation, TypeOK
<1> QED
  BY <1>3, <1>6, <1>7, <1>8, <1>9

LEMMA DelTaskNotFoundKeeps ==
  ASSUME NEW c \in Cancellers, IInv, DelTaskNotFound(c)
  PROVE  IInv'
<1> USE DEF IInv
<1>0. c \in Threads /\ pc' = [pc EXCEPT ![c] = "notqueued"]
  BY DEF Threads, DelTaskNotFound
<1>1. Cardinality(PermitHolders') = Cardinality(PermitHolders) - 1
  BY <1>0, HolderLeaves DEF DelTaskNotFound
<1>2. TypeOK'
  BY <1>0 DEF DelTaskNotFound, TypeOK
<1>3. Roles'
  BY <1>0 DEF DelTaskNotFound, Roles, TypeOK, Threads, Takers
<1>4. Fresh' /\ Finite'
  BY DEF DelTaskNotFound, Fresh, Finite
<1>5. PermitConservation'
  BY <1>1, HoldersFinite DEF DelTaskNotFound, PermitConservation, TypeOK
<1> QED
  BY <1>2, <1>3, <1>4, <1>5

LEMMA DestroyKeeps ==
  ASSUME IInv, Destroy
  PROVE  IInv'
<1> USE DEF IInv
<1>1. m_oplists' = {} /\ m_size' = 0 /\ m_semp' = 0
  BY DEF Destroy, ClearLists, PermitConservation, TypeOK
<1>2. {e.seq : e \in m_oplists} \in SUBSET Nat
  BY DEF TypeOK, Entry
<1>3. done' \in [Fates -> SUBSET Nat]
  BY <1>2 DEF Destroy, ClearLists, TypeOK, End
<1>4. TypeOK'
  BY <1>1, <1>3 DEF Destroy, TypeOK
<1>5. Roles'
  BY DEF Destroy, Roles, Threads, Takers
<1>6. PermitHolders' = {}
  BY DEF Destroy, PermitHolders
<1>7. Finite' /\ Fresh' /\ PermitConservation'
  BY <1>1, <1>6, FS_EmptySet DEF Finite, Fresh, PermitConservation
<1> QED
  BY <1>4, <1>5, <1>7

\* Every step keeps the invariant: one step of the proof per action.
LEMMA NextKeeps == IInv /\ [Next]_vars => IInv'
<1> SUFFICES ASSUME IInv, [Next]_vars PROVE IInv'
  OBVIOUS
<1>1. ASSUME NEW t \in Producers, NEW op \in Tasks, NEW p \in 0..MaxPriorityNum,
             AddTaskEnter(t, op, p)
      PROVE  IInv'
  BY <1>1, AddTaskEnterKeeps
<1>2. ASSUME NEW t \in Producers, AddTaskLocked(t) PROVE IInv'
  BY <1>2, AddTaskLockedKeeps
<1>3. ASSUME NEW w \in Workers, GetTaskTake(w) PROVE IInv'
  BY <1>3, GetTaskTakeKeeps
<1>4. ASSUME NEW w \in TempWorkers, TryGetTaskTake(w) PROVE IInv'
  BY <1>4, TryGetTaskTakeKeeps
<1>5. ASSUME NEW w \in Takers, GetTaskLocked(w) PROVE IInv'
  BY <1>5, GetTaskLockedKeeps
<1>6. ASSUME NEW w \in Takers, RunTask(w) PROVE IInv'
  BY <1>6, RunTaskKeeps
<1>7. ASSUME NEW c \in Cancellers, NEW op \in Tasks, NEW p \in Priorities,
             DelTaskTake(c, op, p)
      PROVE  IInv'
  BY <1>7, DelTaskTakeKeeps
<1>8. ASSUME NEW c \in Cancellers, DelTaskFound(c) PROVE IInv'
  BY <1>8, DelTaskFoundKeeps
<1>9. ASSUME NEW c \in Cancellers, DelTaskNotFound(c) PROVE IInv'
  BY <1>9, DelTaskNotFoundKeeps
<1>10. CASE Stop
  BY <1>10 DEF Stop, IInv, TypeOK, Roles, Fresh, Finite, PermitConservation, PermitHolders
<1>11. CASE Destroy
  BY <1>11, DestroyKeeps
<1>12. CASE UNCHANGED vars
  BY <1>12 DEF vars, IInv, TypeOK, Roles, Fresh, Finite, PermitConservation, PermitHolders
<1> QED
  BY <1>1, <1>2, <1>3, <1>4, <1>5, <1>6, <1>7, <1>8, <1>9, <1>10, <1>11, <1>12 DEF Next

\* The inductive invariant of the queue.
THEOREM Invariance == Spec => []IInv
  BY InitIInv, NextKeeps, PTL DEF Spec

-----------------------------------------------------------------------------
(* What the invariant gives *)

\* The variables keep their types, for any number of threads.
THEOREM TypeCorrect == Spec => []TypeOK
<1>1. IInv => TypeOK
  BY DEF IInv
<1> QED
  BY <1>1, Invariance, PTL

\* Permits and elements never drift apart (add_task, get_task, try_get_task,
\* del_task and the destructor).
THEOREM PermitsConserved == Spec => []PermitConservation
<1>1. IInv => PermitConservation
  BY DEF IInv
<1> QED
  BY <1>1, Invariance, PTL

\* A thread whose be_sem_take succeeded finds a task under the lock.
THEOREM PermitNeverInVain == Spec => []PermitFindsTask
<1>1. IInv => PermitFindsTask
  <2> SUFFICES ASSUME IInv, NEW w \in Takers, pc[w] = "permit" PROVE m_oplists # {}
    BY DEF PermitFindsTask
  <2>1. w \in PermitHolders
    BY DEF PermitHolders, Threads
  <2>2. Cardinality(PermitHolders) # 0
    BY <2>1, HoldersFinite, FS_EmptySet
  <2>3. Cardinality(m_oplists) # 0
    BY <2>2, HoldersFinite DEF IInv, PermitConservation, TypeOK
  <2> QED
    BY <2>3, FS_EmptySet
<1> QED
  BY <1>1, Invariance, PTL

\* Nothing is added once stop() returned, even by an add_task that had passed
\* its first test of m_stop.
THEOREM NothingAddedAfterStop == Spec => StopIsFinal
<1>1. [Next]_vars => [m_stop => m_oplists' \subseteq m_oplists]_vars
  BY DEF Next, vars, AddTaskEnter, AddTaskLocked, GetTaskTake, TryGetTaskTake,
         GetTaskLocked, RunTask, DelTaskTake, DelTaskFound, DelTaskNotFound, Stop,
         Destroy, ClearLists, Pop
<1> QED
  BY <1>1, PTL DEF Spec, StopIsFinal

\* What is handed out is the oldest entry of the most urgent priority queued.
THEOREM ServedInOrder == Spec => HandedOutInOrder
<1> DEFINE InOrder ==
      \A w \in Takers, e \in m_oplists :
          got'[w] # got[w] /\ got'[w] # NoEntry
             => /\ got'[w].prio <= e.prio
                /\ got'[w].prio = e.prio => got'[w].seq <= e.seq
<1>1. ASSUME IInv, NEW w \in Takers, GetTaskLocked(w) PROVE InOrder
  <2> SUFFICES ASSUME NEW v \in Takers, NEW e \in m_oplists,
                      got'[v] # got[v], got'[v] # NoEntry
               PROVE  /\ got'[v].prio <= e.prio
                      /\ got'[v].prio = e.prio => got'[v].seq <= e.seq
    OBVIOUS
  <2>1. PICK f \in m_oplists : IsFront(f) /\ got' = [got EXCEPT ![w] = f]
    BY <1>1 DEF GetTaskLocked
  <2>2. got'[v] = f
    BY <2>1 DEF IInv, TypeOK
  <2>3. f = e \/ Before(f, e)
    BY <2>1 DEF IsFront
  <2>4. /\ e.prio \in Nat /\ e.seq \in Nat
        /\ f.prio \in Nat /\ f.seq \in Nat
    BY <1>1, PriorityAssumption DEF IInv, TypeOK, Entry, Priorities
  <2> QED
    BY <2>2, <2>3, <2>4 DEF Before
<1>2. ASSUME IInv, NEW w \in Takers, RunTask(w) PROVE InOrder
  BY <1>2 DEF RunTask, IInv, TypeOK
<1>3. IInv /\ [Next]_vars => [InOrder]_vars
  <2> SUFFICES ASSUME IInv, Next PROVE InOrder
    BY DEF vars
  <2>1. CASE \E w \in Takers : GetTaskLocked(w)
    BY <2>1, <1>1
  <2>2. CASE \E w \in Takers : RunTask(w)
    BY <2>2, <1>2
  <2>3. CASE UNCHANGED got
    BY <2>3
  <2> QED
    BY <2>1, <2>2, <2>3
       DEF Next, AddTaskEnter, AddTaskLocked, GetTaskTake, TryGetTaskTake, DelTaskTake,
           DelTaskFound, DelTaskNotFound, Stop, Destroy
<1>4. Spec => [][InOrder]_vars
  BY <1>3, Invariance, PTL DEF Spec
<1> QED
  BY <1>4 DEF HandedOutInOrder

-----------------------------------------------------------------------------
(* Exactly one place *)

Holds(w) == got[w] # NoEntry

\* A rank is in one entry, one hand or one fate, never in two of them, and no
\* rank that was given is nowhere.
NowhereTwice ==
    /\ \A e, f \in m_oplists : e.seq = f.seq => e = f
    /\ \A e \in m_oplists, w \in Takers : Holds(w) => got[w].seq # e.seq
    /\ \A e \in m_oplists, f \in Fates : e.seq \notin done[f]
    /\ \A v, w \in Takers : Holds(v) /\ Holds(w) /\ got[v].seq = got[w].seq => v = w
    /\ \A w \in Takers, f \in Fates : Holds(w) => got[w].seq \notin done[f]
    /\ \A f, g \in Fates : f # g => done[f] \cap done[g] = {}
Given ==
    /\ \A w \in Takers : Holds(w) => got[w].seq < m_total_task_cnt
    /\ \A f \in Fates : \A s \in done[f] : s < m_total_task_cnt
Somewhere ==
    \A s \in Nat : s < m_total_task_cnt => \/ \E e \in m_oplists : e.seq = s
                                           \/ \E w \in Takers : Holds(w) /\ got[w].seq = s
                                           \/ \E f \in Fates : s \in done[f]
Placed == NowhereTwice /\ Given /\ Somewhere

\* An accepted add gets a rank no other one has.
LEMMA PushPlaces ==
  ASSUME NEW op, NEW p, IInv, Placed, Push(op, p), UNCHANGED <<got, done>>
  PROVE  Placed'
<1> USE DEF IInv, Placed
<1> DEFINE new == [task |-> op, prio |-> p, seq |-> m_total_task_cnt]
<1>1. m_oplists' = m_oplists \cup {new} /\ new.seq = m_total_task_cnt
  BY DEF Push
<1>2. m_total_task_cnt' = m_total_task_cnt + 1 /\ m_total_task_cnt \in Nat
  BY DEF Push, TypeOK
<1>3. /\ \A e \in m_oplists : e.seq \in Nat /\ e.seq < m_total_task_cnt
      /\ \A w \in Takers : got[w].seq \in Nat
      /\ \A f \in Fates : done[f] \subseteq Nat
  BY DEF TypeOK, Entry, NoEntry, Fresh
<1>4. NowhereTwice'
  <2> HIDE DEF new
  <2> QED
    BY <1>1, <1>2, <1>3 DEF NowhereTwice, Given, Holds
<1>5. Given'
  BY <1>2, <1>3 DEF Given, Holds
<1>6. Somewhere'
  <2> HIDE DEF new
  <2> SUFFICES ASSUME NEW s \in Nat, s < m_total_task_cnt + 1
               PROVE  \/ \E e \in m_oplists' : e.seq = s
                      \/ \E w \in Takers : Holds(w) /\ got[w].seq = s
                      \/ \E f \in Fates : s \in done[f]
    BY <1>2 DEF Somewhere, Holds
  <2>1. CASE s = m_total_task_cnt
    BY <1>1, <2>1
  <2>2. CASE s < m_total_task_cnt
    BY <1>1, <2>2 DEF Somewhere
  <2> QED
    BY <1>2, <2>1, <2>2
<1> QED
  BY <1>4, <1>5, <1>6

\* get_task moves a rank from its list into one taker's hands.
LEMMA TakePlaces ==
  ASSUME NEW w \in Takers, IInv, Placed, GetTaskLocked(w)
  PROVE  Placed'
<1> USE DEF IInv, Placed
<1>1. CASE m_oplists = {}
  BY <1>1 DEF GetTaskLocked, NowhereTwice, Given, Somewhere, Holds
<1>2. CASE m_oplists # {}
  <2>1. PICK e \in m_oplists : /\ m_oplists' = m_oplists \ {e}
                              /\ got' = [got EXCEPT ![w] = e]
    BY <1>2 DEF GetTaskLocked, Pop
  <2>2. got[w] = NoEntry /\ got \in [Takers -> Entry \cup {NoEntry}]
    BY DEF GetTaskLocked, Roles, TypeOK
  <2>3. e # NoEntry
    BY TasksAssumption DEF TypeOK, Entry, NoEntry
  <2>4. got'[w] = e /\ \A v \in Takers : v # w => got'[v] = got[v]
    BY <2>1, <2>2
  <2>5. UNCHANGED <<done, m_total_task_cnt>>
    BY DEF GetTaskLocked
  <2>6. NowhereTwice'
    BY <2>1, <2>2, <2>3, <2>4, <2>5 DEF NowhereTwice, Holds
  <2>7. Given'
    BY <2>1, <2>2, <2>3, <2>4, <2>5 DEF Given, Holds, Fresh
  <2>8. Somewhere'
    BY <2>1, <2>2, <2>3, <2>4, <2>5 DEF Somewhere, Holds
  <2> QED
    BY <2>6, <2>7, <2>8
<1> QED
  BY <1>1, <1>2

\* A task run leaves its taker's hands for the fate "ran".
LEMMA RunPlaces ==
  ASSUME NEW w \in Takers, IInv, Placed, RunTask(w)
  PROVE  Placed'
<1> USE DEF IInv, Placed
<1>1. Holds(w) /\ got'[w] = NoEntry /\ \A v \in Takers : v # w => got'[v] = got[v]
  BY DEF RunTask, Roles, TypeOK, Holds
<1>2. /\ done'["ran"] = done["ran"] \cup {got[w].seq}
      /\ \A f \in Fates : f # "ran" => done'[f] = done[f]
      /\ "ran" \in Fates
  BY DEF RunTask, End, TypeOK, Fates
<1>3. UNCHANGED <<m_oplists, m_total_task_cnt>>
  BY DEF RunTask
<1>4. NowhereTwice'
  BY <1>1, <1>2, <1>3 DEF NowhereTwice, Holds
<1>5. Given'
  BY <1>1, <1>2, <1>3 DEF Given, Holds
<1>6. Somewhere'
  BY <1>1, <1>2, <1>3 DEF Somewhere, Holds
<1> QED
  BY <1>4, <1>5, <1>6

\* del_task moves a rank from its list to the fate "deleted".
LEMMA DelPlaces ==
  ASSUME NEW c \in Cancellers, IInv, Placed, DelTaskFound(c)
  PROVE  Placed'
<1> USE DEF IInv, Placed
<1>1. PICK e \in m_oplists : /\ m_oplists' = m_oplists \ {e}
                            /\ done' = End("deleted", {e.seq})
  BY DEF DelTaskFound, Pop
<1>2. /\ done'["deleted"] = done["deleted"] \cup {e.seq}
      /\ \A f \in Fates : f # "deleted" => done'[f] = done[f]
      /\ "deleted" \in Fates
  BY <1>1 DEF End, TypeOK, Fates
<1>3. UNCHANGED <<got, m_total_task_cnt>>
  BY DEF DelTaskFound
<1>4. NowhereTwice'
  <2>0. \A s, f : f \in Fates /\ s \in done'[f] => s \in done[f] \/ s = e.seq
    BY <1>2
  <2>1. \A f, g \in Fates : f # g => done'[f] \cap done'[g] = {}
    BY <1>1, <1>2 DEF NowhereTwice
  <2>2. \A w \in Takers, f \in Fates : Holds(w) => got[w].seq \notin done'[f]
    BY <2>0 DEF NowhereTwice
  <2>3. \A d \in m_oplists', f \in Fates : d.seq \notin done'[f]
    BY <1>1, <2>0 DEF NowhereTwice
  <2> QED
    BY <1>1, <1>3, <2>1, <2>2, <2>3 DEF NowhereTwice, Holds
<1>5. Given'
  BY <1>1, <1>2, <1>3 DEF Given, Holds, Fresh
<1>6. Somewhere'
  BY <1>1, <1>2, <1>3 DEF Somewhere, Holds
<1> QED
  BY <1>4, <1>5, <1>6

\* The destructor moves every rank still queued to the fate "recycled".
LEMMA ClearPlaces ==
  ASSUME IInv, Placed, Destroy
  PROVE  Placed'
<1> USE DEF IInv, Placed
<1>1. /\ done'["recycled"] = done["recycled"] \cup {e.seq : e \in m_oplists}
      /\ \A f \in Fates : f # "recycled" => done'[f] = done[f]
      /\ "recycled" \in Fates
  BY DEF Destroy, ClearLists, End, TypeOK, Fates
<1>2. m_oplists' = {} /\ UNCHANGED <<got, m_total_task_cnt>>
  BY DEF Destroy, ClearLists
<1>3. NowhereTwice'
  BY <1>1, <1>2 DEF NowhereTwice, Holds
<1>4. Given'
  BY <1>1, <1>2 DEF Given, Holds, Fresh
<1>5. Somewhere'
  BY <1>1, <1>2 DEF Somewhere, Holds
<1> QED
  BY <1>3, <1>4, <1>5

\* Every other step leaves every rank where it is.
LEMMA NextPlaces == IInv /\ Placed /\ [Next]_vars => Placed'
<1> SUFFICES ASSUME IInv, Placed, [Next]_vars PROVE Placed'
  OBVIOUS
<1>1. ASSUME NEW t \in Producers, AddTaskLocked(t), ~m_stop PROVE Placed'
  BY <1>1, PushPlaces DEF AddTaskLocked
<1>2. CASE \E w \in Takers : GetTaskLocked(w)
  BY <1>2, TakePlaces
<1>3. CASE \E w \in Takers : RunTask(w)
  BY <1>3, RunPlaces
<1>4. CASE \E c \in Cancellers : DelTaskFound(c)
  BY <1>4, DelPlaces
<1>5. CASE Destroy
  BY <1>5, ClearPlaces
<1>6. CASE UNCHANGED <<m_oplists, m_total_task_cnt, got, done>>
  BY <1>6 DEF Placed, NowhereTwice, Given, Somewhere, Holds
<1> QED
  BY <1>1, <1>2, <1>3, <1>4, <1>5, <1>6
     DEF Next, vars, AddTaskEnter, AddTaskLocked, GetTaskTake, TryGetTaskTake, DelTaskTake,
         DelTaskNotFound, Stop

\* From the places to their number.
LEMMA PlacedCounts == IInv /\ Placed => ExactlyOnePlace
<1> SUFFICES ASSUME IInv, Placed, NEW s \in 0..(MaxTotal - 1)
             PROVE  Cardinality(Whereabouts(s)) = IF s < m_total_task_cnt THEN 1 ELSE 0
  BY DEF ExactlyOnePlace
<1> USE DEF IInv, Placed
<1>0. s \in Nat
  BY BoundAssumption
<1>1. \A x, y \in Whereabouts(s) : x = y
  BY DEF Whereabouts, NowhereTwice, Holds
<1>2. CASE s < m_total_task_cnt
  <2>1. PICK x : x \in Whereabouts(s)
    BY <1>0, <1>2 DEF Whereabouts, Somewhere, Holds
  <2>2. Whereabouts(s) = {x}
    BY <1>1, <2>1
  <2> QED
    BY <1>2, <2>2, FS_Singleton
<1>3. CASE ~(s < m_total_task_cnt)
  <2>1. Whereabouts(s) = {}
    BY <1>0, <1>3 DEF Whereabouts, Given, Fresh, Holds
  <2> QED
    BY <1>3, <2>1, FS_EmptySet
<1> QED
  BY <1>2, <1>3

\* Every accepted add is queued, in one taker's hands or ended in one way, and
\* nothing else is: no task is lost, run twice, or run and deleted
\* (ep_thread_pool.cpp:31-136), for any number of adds.
THEOREM OnePlaceEach == Spec => []ExactlyOnePlace
<1>1. Init => Placed
  BY DEF Init, Placed, NowhereTwice, Given, Somewhere, Holds
<1>2. Spec => []Placed
  BY <1>1, NextPlaces, Invariance, PTL DEF Spec
<1> QED
  BY <1>2, Invariance, PlacedCounts, PTL

-----------------------------------------------------------------------------
(* Refinement *)

\* Each critical section is the abstract operation; what surrounds it stutters.
LEMMA StepRefines == IInv /\ [Next]_vars => [Abstract!SNext]_(Abstract!svars)
<1> SUFFICES ASSUME IInv, [Next]_vars PROVE Abstract!SNext \/ UNCHANGED Abstract!svars
  OBVIOUS
<1> USE DEF Abstract!SNext, Abstract!svars, IInv
<1>1. ASSUME NEW t \in Producers, AddTaskLocked(t)
      PROVE  Abstract!SNext \/ UNCHANGED Abstract!svars
  <2>1. CASE m_stop
    BY <1>1, <2>1 DEF AddTaskLocked
  <2>2. CASE ~m_stop
    <3>1. arg[t].task \in Tasks /\ arg[t].prio \in Abstract!Priorities
      BY <1>1 DEF AddTaskLocked, Roles, Priorities, Abstract!Priorities
    <3>2. Abstract!SAdd(arg[t].task, arg[t].prio)
      BY <1>1, <2>2 DEF AddTaskLocked, Push, Abstract!SAdd
    <3> QED
      BY <3>1, <3>2
  <2> QED
    BY <2>1, <2>2
<1>2. ASSUME NEW w \in Takers, GetTaskLocked(w)
      PROVE  Abstract!SNext \/ UNCHANGED Abstract!svars
  <2>1. CASE m_oplists = {}
    BY <1>2, <2>1 DEF GetTaskLocked
  <2>2. CASE m_oplists # {}
    <3>1. PICK e \in m_oplists : IsFront(e) /\ Pop(e) /\ got' = [got EXCEPT ![w] = e]
      BY <1>2, <2>2 DEF GetTaskLocked
    <3>2. got[w] = Abstract!NoEntry
      BY <1>2 DEF GetTaskLocked, Roles, NoEntry, Abstract!NoEntry
    <3>3. Abstract!IsFront(m_oplists, e)
      BY <3>1 DEF IsFront, Before, Abstract!IsFront, Abstract!Before
    <3>4. Abstract!SGet(w)
      BY <1>2, <3>1, <3>2, <3>3 DEF GetTaskLocked, Pop, Abstract!SGet
    <3> QED
      BY <3>4
  <2> QED
    BY <2>1, <2>2
<1>3. ASSUME NEW w \in Takers, RunTask(w)
      PROVE  Abstract!SNext \/ UNCHANGED Abstract!svars
  <2>1. got[w] # Abstract!NoEntry
    BY <1>3 DEF RunTask, Roles, NoEntry, Abstract!NoEntry
  <2>2. Abstract!SDone(w)
    BY <1>3, <2>1 DEF RunTask, Abstract!SDone, NoEntry, Abstract!NoEntry
  <2> QED
    BY <2>2
<1>4. ASSUME NEW c \in Cancellers, DelTaskFound(c)
      PROVE  Abstract!SNext \/ UNCHANGED Abstract!svars
  <2>1. PICK e \in m_oplists : Pop(e)
    BY <1>4 DEF DelTaskFound
  <2>2. Abstract!SDel(e)
    BY <1>4, <2>1 DEF DelTaskFound, Pop, Abstract!SDel
  <2> QED
    BY <2>2
<1>5. CASE Stop
  BY <1>5 DEF Stop, Abstract!SStop
<1>6. CASE Destroy
  <2>1. \A w \in Takers : got[w] = Abstract!NoEntry
    BY <1>6 DEF Destroy, Roles, Threads, NoEntry, Abstract!NoEntry
  <2>2. Abstract!SClear
    BY <1>6, <2>1 DEF Destroy, ClearLists, Abstract!SClear
  <2> QED
    BY <2>2
<1>7. CASE UNCHANGED <<m_oplists, m_total_task_cnt, m_stop, got>>
  BY <1>7
<1> QED
  BY <1>1, <1>2, <1>3, <1>4, <1>5, <1>6, <1>7
     DEF Next, vars, AddTaskEnter, GetTaskTake, TryGetTaskTake, DelTaskTake, DelTaskNotFound

\* task_queue implements the atomic stoppable priority queue.
THEOREM Refinement == Spec => ImplementsStoppableQueue
<1>1. Init => Abstract!SInit
  BY DEF Init, Abstract!SInit, NoEntry, Abstract!NoEntry
<1> QED
  BY <1>1, StepRefines, Invariance, PTL DEF Spec, ImplementsStoppableQueue, Abstract!SSpec
=============================================================================
