------------------------------ MODULE DataProofs ------------------------------
(***************************************************************************)
(* What the data structures keep for every value of their constants.       *)
(*                                                                         *)
(* LoopBuf: as long as every receive found room, the ring holds the last   *)
(* size bytes received, in their order from m_start on (RingInv).          *)
(*                                                                         *)
(* Parallel: a job that exists is in one place: a caller makes it, its     *)
(* registry has it under one id, or a caller recycles it (Places).  While  *)
(* the counter of the ids has not been torn, an id that is about to be     *)
(* given is free in the registry (Ids), so nothing is overwritten (Known). *)
(*                                                                         *)
(* SockIo: what the receiver took, what its call has in its buffer and     *)
(* what the kernel holds are the bytes handed over, in one line            *)
(* (InOneLine); a call under way has moved what is not left over           *)
(* (Underway), and one that has returned told the truth (Told).            *)
(*                                                                         *)
(* EQueue: permits and tasks match, and no log is newer than the file that *)
(* is written (Base).  As long as one life only has dumped, the disk alone *)
(* tells which tasks are to come: ids grow along the records of its files, *)
(* what memory and the threads hold is on record, and what the next start  *)
(* will read of it has no deletion (OneLife).                              *)
(*                                                                         *)
(* MemPool: free lists, callers and calls under way split the blocks of    *)
(* the buffers taken so far (PoolSplit), and the chain from memblocks is a *)
(* walk over the buffers that no call still has to link (PoolChain).       *)
(***************************************************************************)
EXTENDS LoopBuf, Parallel, SockIo, EQueue, MemPool, SequenceTheorems, FiniteSetTheorems,
        WellFoundedInduction, TLAPS

InMap(r, i, j) == i \in DOMAIN m_jobs[r] /\ m_jobs[r][i] = j /\ j # NULL
Making(t, j) == call[t].at = "insert" /\ call[t].job = j
Recycling(t, j) == call[t].at = "recycle" /\ call[t].job = j

AJob == [reg : Registries, id : Nat, n : Nat]
ParType ==
    /\ s_j_id \in Nat
    /\ made \in Nat
    /\ m_jobs = [r \in Registries |-> m_jobs[r]]
    /\ \A r \in Registries : \A i \in DOMAIN m_jobs[r] : i \in Nat
    /\ m_lock \in [Registries -> Callers \cup {NoHolder}]
    /\ call \in [Callers -> [at : {"out", "insert", "store", "use", "recycle"},
                             reg : Registries \cup {"none"},
                             job : AJob \cup {NULL}, id : Nat]]
    /\ live \subseteq AJob
    /\ \A j \in live : j.n < made

\* create_job holds the mutex of its registry until the counter is stored.
Held == \A t \in Callers : call[t].at \in {"insert", "store"} =>
            call[t].reg \in Registries /\ m_lock[call[t].reg] = t

Places ==
    /\ \A r \in Registries : \A i, j : InMap(r, i, j) => j \in live /\ j.reg = r
    /\ \A t \in Callers : \A j : Making(t, j) => /\ j \in live
                                                 /\ j.reg = call[t].reg
                                                 /\ j.id = call[t].id
    /\ \A t \in Callers : \A j : Recycling(t, j) => j \in live
    /\ \A r, q \in Registries : \A i, k, j : InMap(r, i, j) /\ InMap(q, k, j) => r = q /\ i = k
    /\ \A t \in Callers, r \in Registries : \A i, j :
          InMap(r, i, j) => ~Making(t, j) /\ ~Recycling(t, j)
    /\ \A t, u \in Callers : \A j :
          (Making(t, j) \/ Recycling(t, j)) /\ (Making(u, j) \/ Recycling(u, j)) => t = u

\* A registry has no job under an id the counter has not passed, but the one
\* of a create_job that is about to store the counter.
Ids == ~torn => \A r \in Registries : \A i, j : InMap(r, i, j) =>
          /\ j.id = i
          /\ \/ i < s_j_id
             \/ i = s_j_id /\ \E t \in Callers : call[t].at = "store" /\ call[t].reg = r

Known == ~torn => \A j \in live :
             \/ \E t \in Callers : Making(t, j) \/ Recycling(t, j)
             \/ \E i : InMap(j.reg, i, j)

ParInv == ParType /\ Held /\ Places /\ Ids /\ Known /\ twice = {}
-----------------------------------------------------------------------------
(* Parallel: each step keeps the invariant *)

\* A caller's call moves on to the record e; the others' calls stay.
CallTo(t, e) == /\ call'[t] = e
                /\ \A u \in Callers : u # t => call'[u] = call[u]

\* An action that gives a caller another call and keeps its type.
LEMMA CallType ==
  ASSUME ParType, NEW t \in Callers, NEW e,
         e \in [at : {"out", "insert", "store", "use", "recycle"},
                reg : Registries \cup {"none"}, job : AJob \cup {NULL}, id : Nat],
         call' = [call EXCEPT ![t] = e]
  PROVE  /\ call' \in [Callers -> [at : {"out", "insert", "store", "use", "recycle"},
                                   reg : Registries \cup {"none"},
                                   job : AJob \cup {NULL}, id : Nat]]
         /\ CallTo(t, e)
  BY DEF ParType, CallTo

\* Nothing is registered, made or recycled at first.
LEMMA ParInitInv == ParInit => ParInv
<1> SUFFICES ASSUME ParInit PROVE ParInv
  OBVIOUS
<1>1. \A t \in Callers : call[t] = Outside
  BY DEF ParInit
<1>2. \A r \in Registries : m_jobs[r] = <<>> /\ DOMAIN m_jobs[r] = {}
  BY DEF ParInit
<1>3. \A r \in Registries : \A i, j : ~InMap(r, i, j)
  BY <1>2 DEF InMap
<1>4. \A t \in Callers : \A j : ~Making(t, j) /\ ~Recycling(t, j)
  BY <1>1 DEF Making, Recycling, Outside
<1>5. ParType
  BY <1>2 DEF ParInit, ParType, Outside
<1>6. Held
  BY <1>1 DEF Held, Outside
<1>7. Places /\ Ids /\ Known /\ twice = {}
  BY <1>3, <1>4 DEF ParInit, Places, Ids, Known
<1> QED
  BY <1>5, <1>6, <1>7 DEF ParInv

\* A job made is new: no job that lives has its number.
LEMMA CreateTakesKeeps ==
  ASSUME ParInv, NEW t \in Callers, NEW r \in Registries, CreateTakes(t, r)
  PROVE  ParInv'
<1> USE DEF ParInv
<1> DEFINE new == [reg |-> r, id |-> s_j_id, n |-> made]
           e == [at |-> "insert", reg |-> r, job |-> new, id |-> s_j_id]
<1>1. /\ call[t].at = "out" /\ m_lock[r] = NoHolder
      /\ m_lock' = [m_lock EXCEPT ![r] = t]
      /\ call' = [call EXCEPT ![t] = e]
      /\ live' = live \cup {new} /\ made' = made + 1
      /\ UNCHANGED <<s_j_id, m_jobs, torn, twice>>
  BY DEF CreateTakes, InCall, MayTake
<1>2. new \in AJob /\ new \notin live /\ new.reg = r /\ new.id = s_j_id /\ new.n = made
  BY DEF AJob, ParType
<1>3. e.at = "insert" /\ e.reg = r /\ e.job = new /\ e.id = s_j_id
  OBVIOUS
<1>4. e \in [at : {"out", "insert", "store", "use", "recycle"},
              reg : Registries \cup {"none"}, job : AJob \cup {NULL}, id : Nat]
  BY <1>2 DEF ParType
<1> HIDE DEF new, e
<1>5. CallTo(t, e) /\ ParType'
  <2>1. \A j \in live' : j.n < made'
    BY <1>1, <1>2 DEF ParType, AJob
  <2>2. /\ call' \in [Callers -> [at : {"out", "insert", "store", "use", "recycle"},
                                 reg : Registries \cup {"none"},
                                 job : AJob \cup {NULL}, id : Nat]]
        /\ CallTo(t, e)
    BY <1>1, <1>4, CallType
  <2>3. m_lock' \in [Registries -> Callers \cup {NoHolder}]
    BY <1>1 DEF ParType
  <2> QED
    BY <1>1, <1>2, <2>1, <2>2, <2>3 DEF ParType
<1>6. Held'
  <2>1. \A u \in Callers : call[u].at \in {"insert", "store"} => call[u].reg # r
    BY <1>1, ParAssumption DEF Held, NoHolder
  <2> QED
    BY <1>1, <1>3, <1>5, <2>1 DEF Held, CallTo, ParType
<1>7. \A q \in Registries : \A i, j : InMap(q, i, j)' <=> InMap(q, i, j)
  BY <1>1 DEF InMap
<1>8. /\ \A j : Making(t, j)' <=> j = new
      /\ \A j : ~Recycling(t, j)' /\ ~Making(t, j) /\ ~Recycling(t, j)
      /\ \A u \in Callers : u # t =>
            \A j : (Making(u, j)' <=> Making(u, j)) /\ (Recycling(u, j)' <=> Recycling(u, j))
  BY <1>1, <1>3, <1>5 DEF Making, Recycling, CallTo
<1>9. Places'
  <2>1. \A u \in Callers : \A j : u # t /\ Making(u, j) => call'[u] = call[u]
    BY <1>5 DEF CallTo
  <2> QED
    BY <1>1, <1>2, <1>3, <1>5, <1>7, <1>8, <2>1 DEF Places, CallTo
<1>10. Ids'
  BY <1>1, <1>5, <1>7 DEF Ids, CallTo
<1>11. Known'
  BY <1>1, <1>2, <1>7, <1>8 DEF Known, ParType, AJob
<1> QED
  BY <1>1, <1>5, <1>6, <1>9, <1>10, <1>11
\* What the map of registry r finds after an entry is made or erased.
LEMMA InsertFinds ==
  ASSUME ParType, NEW r \in Registries, NEW id, NEW j0,
         m_jobs' = [m_jobs EXCEPT ![r] = Insert(@, id, j0)]
  PROVE  /\ m_jobs' = [q \in Registries |-> m_jobs'[q]]
         /\ \A q \in Registries : q # r => m_jobs'[q] = m_jobs[q]
         /\ DOMAIN m_jobs'[r] = DOMAIN m_jobs[r] \cup {id}
         /\ \A i, j : InMap(r, i, j)' <=> IF i = id THEN j = j0 /\ j # NULL ELSE InMap(r, i, j)
         /\ \A q \in Registries : q # r => \A i, j : InMap(q, i, j)' <=> InMap(q, i, j)
<1>1. /\ m_jobs' = [q \in Registries |-> m_jobs'[q]]
      /\ \A q \in Registries : q # r => m_jobs'[q] = m_jobs[q]
      /\ m_jobs'[r] = Insert(m_jobs[r], id, j0)
  BY DEF ParType
<1>2. /\ DOMAIN m_jobs'[r] = DOMAIN m_jobs[r] \cup {id}
      /\ \A i \in DOMAIN m_jobs'[r] : m_jobs'[r][i] = IF i = id THEN j0 ELSE m_jobs[r][i]
  BY <1>1 DEF Insert
<1> QED
  BY <1>1, <1>2 DEF InMap

\* Making an entry keeps the map's keys numbers.
LEMMA InsertKeys ==
  ASSUME ParType, NEW r \in Registries, NEW id \in Nat, NEW j0,
         m_jobs' = [m_jobs EXCEPT ![r] = Insert(@, id, j0)]
  PROVE  /\ m_jobs' = [q \in Registries |-> m_jobs'[q]]
         /\ \A q \in Registries : \A i \in DOMAIN m_jobs'[q] : i \in Nat
  BY InsertFinds, SMTT(20) DEF ParType

\* The job made enters the registry under the counter's value, where no job was.
LEMMA CreateInsertsKeeps ==
  ASSUME ParInv, NEW t \in Callers, CreateInserts(t)
  PROVE  ParInv'
<1> USE DEF ParInv
<1>0. PICK r, j0, c : r = call[t].reg /\ j0 = call[t].job /\ c = s_j_id
  OBVIOUS
<1> DEFINE e == [call[t] EXCEPT !.at = "store", !.id = s_j_id]
<1>1. /\ call[t].at = "insert"
      /\ m_jobs' = [m_jobs EXCEPT ![r] = Insert(@, c, j0)]
      /\ call' = [call EXCEPT ![t] = e]
      /\ torn' = (torn \/ s_j_id # call[t].id)
      /\ c \in Nat /\ c = s_j_id
      /\ UNCHANGED <<s_j_id, m_lock, live, made, twice>>
  BY <1>0 DEF CreateInserts, InCall, ParType
<1>2. /\ Making(t, j0) /\ r \in Registries /\ m_lock[r] = t
      /\ j0 \in live /\ j0.reg = r /\ j0.id = call[t].id
  BY <1>0, <1>1 DEF Making, Places, Held
<1>3. /\ e.at = "store" /\ e.reg = r /\ e.id = s_j_id
      /\ e \in [at : {"out", "insert", "store", "use", "recycle"},
                 reg : Registries \cup {"none"}, job : AJob \cup {NULL}, id : Nat]
  BY <1>0, <1>1 DEF ParType
<1>4. j0 # NULL
  BY <1>2, ParAssumption DEF NULL
<1> HIDE DEF e
<1>5. CallTo(t, e) /\ ParType'
  BY <1>1, <1>2, <1>3, CallType, InsertKeys DEF ParType
<1>6. Held'
  BY <1>1, <1>2, <1>3, <1>5 DEF Held, CallTo
<1>7. /\ \A i, j : InMap(r, i, j)' <=> IF i = c THEN j = j0 /\ j # NULL ELSE InMap(r, i, j)
      /\ \A q \in Registries : q # r => \A i, j : InMap(q, i, j)' <=> InMap(q, i, j)
  <2>1. m_jobs' = [m_jobs EXCEPT ![r] = Insert(@, c, j0)]
    BY <1>1
  <2> QED
    <3>1. ParType /\ r \in Registries
      BY <1>2
    <3>2. \A i, j : InMap(r, i, j)' <=> IF i = c THEN j = j0 /\ j # NULL ELSE InMap(r, i, j)
      BY <3>1, <2>1, InsertFinds
    <3>3. \A q \in Registries : q # r => \A i, j : InMap(q, i, j)' <=> InMap(q, i, j)
      BY <3>1, <2>1, InsertFinds
    <3> QED
      BY <3>2, <3>3
<1>8. /\ \A j : ~Making(t, j)' /\ ~Recycling(t, j)' /\ ~Recycling(t, j)
      /\ \A j : Making(t, j) => j = j0
      /\ \A u \in Callers : u # t =>
            \A j : (Making(u, j)' <=> Making(u, j)) /\ (Recycling(u, j)' <=> Recycling(u, j))
  BY <1>0, <1>1, <1>3, <1>5 DEF Making, Recycling, CallTo
<1>9. Places'
  <2>1. \A q \in Registries : \A i, j : InMap(q, i, j)' =>
           \/ InMap(q, i, j) /\ j # j0
           \/ q = r /\ i = c /\ j = j0
    BY <1>2, <1>7 DEF Places
  <2>2. \A u \in Callers : u # t => \A j : (Making(u, j) \/ Recycling(u, j)) => j # j0
    BY <1>2 DEF Places
  <2> QED
    BY <1>1, <1>2, <1>5, <1>8, <2>1, <2>2 DEF Places, CallTo
<1>10. Ids'
  <2>1. ASSUME ~torn', NEW q \in Registries, NEW i, NEW j, InMap(q, i, j)'
        PROVE  /\ j.id = i
               /\ \/ i < s_j_id
                  \/ i = s_j_id /\ \E u \in Callers : call'[u].at = "store" /\ call'[u].reg = q
    <3>1. CASE q = r /\ i = c
      BY <1>1, <1>2, <1>3, <1>5, <1>7, <2>1, <3>1 DEF CallTo
    <3>2. CASE ~(q = r /\ i = c)
      <4>1. InMap(q, i, j)
        BY <1>7, <2>1, <3>2
        <4>2. /\ j.id = i
              /\ \/ i < s_j_id
                 \/ i = s_j_id /\ \E u \in Callers : call[u].at = "store" /\ call[u].reg = q
          BY <1>1, <2>1, <4>1 DEF Ids
        <4>3. \A u \in Callers : call[u].at = "store" => call'[u] = call[u]
          BY <1>1, <1>5 DEF CallTo
        <4> QED
          BY <4>2, <4>3
    <3> QED
      BY <3>1, <3>2
  <2> QED
    BY <1>1, <2>1 DEF Ids
<1>11. Known'
  <2>1. ~torn' => \A j : ~InMap(r, c, j)
    <3>1. \A u \in Callers : call[u].at = "store" => call[u].reg # r
      BY <1>1, <1>2 DEF Held
    <3>2. ~torn' => ~torn
      BY <1>1
    <3>3. ~(c < s_j_id)
      BY <1>1 DEF ParType
    <3> QED
      BY <1>1, <1>2, <3>1, <3>2, <3>3 DEF Ids
  <2>2. \A j \in live : j.reg \in Registries
    BY DEF ParType, AJob
  <2>3. ~torn' => \A j \in live : \A i : InMap(j.reg, i, j) => InMap(j.reg, i, j)'
    BY <1>7, <2>1, <2>2
  <2>4. InMap(j0.reg, c, j0)'
    BY <1>2, <1>4, <1>7
  <2> QED
    BY <1>1, <1>8, <2>3, <2>4 DEF Known
<1> QED
  BY <1>1, <1>5, <1>6, <1>9, <1>10, <1>11

\* The counter passes the id given.
LEMMA CreateStoresKeeps ==
  ASSUME ParInv, NEW t \in Callers, CreateStores(t)
  PROVE  ParInv'
<1> USE DEF ParInv
<1>0. PICK r : r = call[t].reg
  OBVIOUS
<1>1. /\ call[t].at = "store"
      /\ s_j_id' = call[t].id + 1
      /\ torn' = (torn \/ s_j_id # call[t].id)
      /\ m_lock' = [m_lock EXCEPT ![r] = NoHolder]
      /\ call' = [call EXCEPT ![t] = Outside]
      /\ UNCHANGED <<m_jobs, live, made, twice>>
  BY <1>0 DEF CreateStores, InCall
<1>2. r \in Registries /\ m_lock[r] = t /\ call[t].id \in Nat
  BY <1>0, <1>1 DEF Held, ParType
<1>3. /\ Outside.at = "out"
      /\ Outside \in [at : {"out", "insert", "store", "use", "recycle"},
                       reg : Registries \cup {"none"}, job : AJob \cup {NULL}, id : Nat]
  BY DEF Outside
<1>4. CallTo(t, Outside) /\ ParType'
  <2>1. /\ call' \in [Callers -> [at : {"out", "insert", "store", "use", "recycle"},
                                 reg : Registries \cup {"none"},
                                 job : AJob \cup {NULL}, id : Nat]]
        /\ CallTo(t, Outside)
    BY <1>1, <1>3, CallType
  <2>2. m_lock' \in [Registries -> Callers \cup {NoHolder}]
    BY <1>1 DEF ParType
  <2> QED
    BY <1>1, <1>2, <2>1, <2>2 DEF ParType
<1>5. Held'
  <2>1. \A u \in Callers : u # t /\ call[u].at \in {"insert", "store"} => call[u].reg # r
    BY <1>2 DEF Held
  <2> QED
    BY <1>1, <1>3, <1>4, <2>1 DEF Held, CallTo, ParType
<1>6. \A q \in Registries : \A i, j : InMap(q, i, j)' <=> InMap(q, i, j)
  BY <1>1 DEF InMap
<1>7. /\ \A j : ~Making(t, j)' /\ ~Recycling(t, j)' /\ ~Recycling(t, j) /\ ~Making(t, j)
      /\ \A u \in Callers : u # t =>
            \A j : (Making(u, j)' <=> Making(u, j)) /\ (Recycling(u, j)' <=> Recycling(u, j))
  BY <1>1, <1>3, <1>4 DEF Making, Recycling, CallTo
<1>8. Places'
  BY <1>1, <1>4, <1>6, <1>7 DEF Places, CallTo
<1>9. Ids'
  <2>1. \A q \in Registries : \A i, j : InMap(q, i, j) => i \in Nat
    BY DEF InMap, ParType
  <2>2. ~torn' => ~torn /\ s_j_id' = s_j_id + 1
    BY <1>1
  <2>3. ~torn' => \A q \in Registries : \A i, j : InMap(q, i, j) => j.id = i /\ i < s_j_id'
    BY <2>1, <2>2 DEF Ids, ParType
  <2> QED
    BY <1>6, <2>3 DEF Ids
<1>10. Known'
  <2>1. \A j \in live : j.reg \in Registries
    BY DEF ParType, AJob
  <2> QED
    BY <1>1, <1>6, <1>7, <2>1 DEF Known
<1> QED
  BY <1>1, <1>4, <1>5, <1>8, <1>9, <1>10
ARecord == [at : {"out", "insert", "store", "use", "recycle"}, reg : Registries \cup {"none"},
            job : AJob \cup {NULL}, id : Nat]
KeysAreIds == /\ m_jobs = [r \in Registries |-> m_jobs[r]]
              /\ \A r \in Registries : \A i \in DOMAIN m_jobs[r] : i \in Nat

\* A call that looks a job up for use, or ends the use, disturbs nothing.
LEMMA QuietKeeps ==
  ASSUME ParInv, NEW t \in Callers, NEW e \in ARecord,
         call[t].at \in {"out", "use"}, e.at \in {"out", "use"},
         call' = [call EXCEPT ![t] = e],
         KeysAreIds',
         \A r \in Registries : \A i, j : InMap(r, i, j)' <=> InMap(r, i, j),
         UNCHANGED <<s_j_id, m_lock, live, made, torn, twice>>
  PROVE  ParInv'
<1> USE DEF ParInv
<1>1. CallTo(t, e) /\ ParType'
  <2>1. /\ call' \in [Callers -> [at : {"out", "insert", "store", "use", "recycle"},
                                 reg : Registries \cup {"none"},
                                 job : AJob \cup {NULL}, id : Nat]]
        /\ CallTo(t, e)
    BY CallType DEF ARecord
  <2> QED
    BY <2>1 DEF ParType, KeysAreIds
<1>2. Held'
  BY <1>1 DEF Held, CallTo
<1>3. \A u \in Callers : \A j : (Making(u, j)' <=> Making(u, j)) /\ (Recycling(u, j)' <=> Recycling(u, j))
  BY <1>1 DEF Making, Recycling, CallTo
<1>4. \A u \in Callers : \A j : Making(u, j) => call'[u] = call[u]
  BY <1>1 DEF Making, CallTo
<1>5. Places'
  BY <1>3, <1>4 DEF Places
<1>6. Ids'
  <2>1. \A u \in Callers : call[u].at = "store" => call'[u] = call[u]
    BY <1>1 DEF CallTo
  <2> QED
    BY <2>1 DEF Ids
<1>7. Known'
  <2>1. \A j \in live : j.reg \in Registries
    BY DEF ParType, AJob
  <2> QED
    BY <1>3, <2>1 DEF Known
<1> QED
  BY <1>1, <1>2, <1>5, <1>6, <1>7

\* A lookup for run_job or cancel_job finds what is there.
LEMMA UseLooksUpKeeps ==
  ASSUME ParInv, NEW t \in Callers, NEW r \in Registries, NEW id \in Nat, UseLooksUp(t, r, id)
  PROVE  ParInv'
<1>0. PICK j0 : j0 = Lookup(m_jobs[r], id)
  OBVIOUS
<1> DEFINE e == IF j0 = NULL THEN Outside ELSE [at |-> "use", reg |-> r, job |-> j0, id |-> 0]
<1>1. /\ call[t].at = "out"
      /\ m_jobs' = [m_jobs EXCEPT ![r] = Insert(@, id, j0)]
      /\ call' = [call EXCEPT ![t] = e]
      /\ UNCHANGED <<s_j_id, m_lock, live, made, torn, twice>>
  <2>1. m_jobs' = [m_jobs EXCEPT ![r] = Insert(m_jobs[r], id, j0)]
    BY <1>0 DEF UseLooksUp, ParInv, ParType
  <2> QED
    BY <1>0, <2>1 DEF UseLooksUp, InCall, Found, ParInv, ParType
<1>2. ParType
  BY DEF ParInv
<1>3. \A i, j : InMap(r, i, j)' <=> InMap(r, i, j)
  <2>1. \A i, j : InMap(r, i, j)' <=> IF i = id THEN j = j0 /\ j # NULL ELSE InMap(r, i, j)
    BY <1>1, <1>2, InsertFinds
  <2>2. \A j : InMap(r, id, j) <=> j = j0 /\ j # NULL
    BY <1>0 DEF InMap, Lookup
  <2> QED
    BY <2>1, <2>2
<1>4. \A q \in Registries : q # r => \A i, j : InMap(q, i, j)' <=> InMap(q, i, j)
  BY <1>1, <1>2, InsertFinds
<1>5. KeysAreIds'
  BY <1>1, <1>2, InsertKeys DEF KeysAreIds
<1>6. e \in ARecord /\ e.at \in {"out", "use"}
  <2>1. j0 # NULL => j0 \in AJob
    <3>1. j0 # NULL => InMap(r, id, j0)
      BY <1>0 DEF InMap, Lookup
    <3> QED
      BY <3>1 DEF ParInv, ParType, Places
  <2> QED
    BY <2>1 DEF ARecord, Outside
<1> HIDE DEF e
<1> QED
  BY <1>1, <1>3, <1>4, <1>5, <1>6, QuietKeeps

\* The use ends.
LEMMA UsesKeeps ==
  ASSUME ParInv, NEW t \in Callers, Uses(t)
  PROVE  ParInv'
<1>1. /\ call[t].at = "use"
      /\ call' = [call EXCEPT ![t] = Outside]
      /\ UNCHANGED <<m_jobs, s_j_id, m_lock, live, made, torn, twice>>
  BY DEF Uses, InCall
<1>2. Outside \in ARecord /\ Outside.at = "out"
  BY DEF Outside, ARecord
<1>3. KeysAreIds'
  BY <1>1 DEF KeysAreIds, ParInv, ParType
<1>4. \A r \in Registries : \A i, j : InMap(r, i, j)' <=> InMap(r, i, j)
  BY <1>1 DEF InMap
<1> QED
  BY <1>1, <1>2, <1>3, <1>4, QuietKeeps

\* A job found by destroy_job leaves the registry, and the caller has it.
LEMMA DestroyFindsKeeps ==
  ASSUME ParInv, NEW t \in Callers, NEW r \in Registries, NEW id \in Nat,
         DestroyLooksUp(t, r, id)
  PROVE  ParInv'
<1>0. PICK j0 : j0 = Lookup(m_jobs[r], id)
  OBVIOUS
<1> DEFINE e == IF j0 = NULL THEN Outside ELSE [at |-> "recycle", reg |-> r, job |-> j0, id |-> 0]
<1>1. /\ call[t].at = "out"
      /\ m_jobs' = [m_jobs EXCEPT ![r] = Erase(@, id)]
      /\ call' = [call EXCEPT ![t] = e]
      /\ UNCHANGED <<s_j_id, m_lock, live, made, torn, twice>>
  BY <1>0 DEF DestroyLooksUp, InCall, Found
<1>2. ParType
  BY DEF ParInv
<1>3. /\ \A q \in Registries : q # r => m_jobs'[q] = m_jobs[q]
      /\ m_jobs'[r] = Erase(m_jobs[r], id)
      /\ m_jobs' = [q \in Registries |-> m_jobs'[q]]
  BY <1>1, <1>2 DEF ParType
<1>4. /\ DOMAIN m_jobs'[r] = DOMAIN m_jobs[r] \ {id}
      /\ \A i \in DOMAIN m_jobs'[r] : m_jobs'[r][i] = m_jobs[r][i]
  BY <1>3 DEF Erase
<1>5. KeysAreIds'
  BY <1>2, <1>3, <1>4 DEF KeysAreIds, ParType
<1>6. /\ \A i, j : InMap(r, i, j)' <=> InMap(r, i, j) /\ i # id
      /\ \A q \in Registries : q # r => \A i, j : InMap(q, i, j)' <=> InMap(q, i, j)
  BY <1>3, <1>4 DEF InMap
<1>7. \A j : InMap(r, id, j) <=> j = j0 /\ j # NULL
  BY <1>0 DEF InMap, Lookup
<1>8. CASE j0 = NULL
  <2>1. \A q \in Registries : \A i, j : InMap(q, i, j)' <=> InMap(q, i, j)
    BY <1>6, <1>7, <1>8
  <2>2. Outside \in ARecord /\ Outside.at = "out"
    BY DEF Outside, ARecord
  <2> QED
    BY <1>1, <1>5, <1>8, <2>1, <2>2, QuietKeeps
<1>9. CASE j0 # NULL
  <2>1. /\ InMap(r, id, j0)
        /\ \A q \in Registries : \A i : InMap(q, i, j0) => q = r /\ i = id
        /\ j0 \in live /\ j0 \in AJob /\ j0.reg = r
    <3>1. InMap(r, id, j0)
      BY <1>7, <1>9
    <3> QED
      BY <1>2, <3>1 DEF ParInv, Places, ParType
  <2>2. /\ e.at = "recycle" /\ e.job = j0 /\ e \in ARecord
    BY <1>9, <2>1 DEF ARecord
  <2> HIDE DEF e
  <2>3. CallTo(t, e) /\ ParType'
    <3>1. /\ call' \in [Callers -> [at : {"out", "insert", "store", "use", "recycle"},
                                   reg : Registries \cup {"none"},
                                   job : AJob \cup {NULL}, id : Nat]]
          /\ CallTo(t, e)
      BY <1>1, <1>2, <2>2, CallType DEF ARecord
    <3> QED
      BY <1>1, <1>2, <1>5, <3>1 DEF ParType, KeysAreIds
  <2>4. Held'
    BY <1>1, <2>2, <2>3 DEF Held, CallTo, ParInv
  <2>5. /\ \A j : Recycling(t, j)' <=> j = j0
        /\ \A j : ~Making(t, j)' /\ ~Making(t, j) /\ ~Recycling(t, j)
        /\ \A u \in Callers : u # t =>
              \A j : (Making(u, j)' <=> Making(u, j)) /\ (Recycling(u, j)' <=> Recycling(u, j))
    BY <1>1, <2>2, <2>3 DEF Making, Recycling, CallTo
  <2>6. \A q \in Registries : \A i, j : InMap(q, i, j)' <=> InMap(q, i, j) /\ j # j0
    BY <1>6, <1>7, <2>1
  <2>7. \A u \in Callers : ~Making(u, j0) /\ ~Recycling(u, j0)
    BY <2>1 DEF ParInv, Places
  <2>8. Places'
    BY <1>1, <2>1, <2>3, <2>5, <2>6, <2>7 DEF ParInv, Places, CallTo
  <2>9. Ids'
    <3>1. \A u \in Callers : call[u].at = "store" => call'[u] = call[u]
      BY <1>1, <2>3 DEF CallTo
    <3> QED
      BY <1>1, <2>6, <3>1 DEF ParInv, Ids
  <2>10. Known'
    <3>1. \A j \in live : j.reg \in Registries
      BY <1>2 DEF ParType, AJob
    <3> QED
      BY <1>1, <2>5, <2>6, <3>1 DEF ParInv, Known
  <2> QED
    BY <1>1, <2>3, <2>4, <2>8, <2>9, <2>10 DEF ParInv
<1> QED
  BY <1>8, <1>9
\* The one caller that has a job found recycles it.
LEMMA RecyclesKeeps ==
  ASSUME ParInv, NEW t \in Callers, Recycles(t)
  PROVE  ParInv'
<1> USE DEF ParInv
<1>0. PICK j0 : j0 = call[t].job
  OBVIOUS
<1>1. /\ call[t].at = "recycle"
      /\ twice' = twice \cup ({j0} \ live)
      /\ live' = live \ {j0}
      /\ call' = [call EXCEPT ![t] = Outside]
      /\ UNCHANGED <<s_j_id, m_jobs, m_lock, made, torn>>
  BY <1>0 DEF Recycles, InCall
<1>2. Recycling(t, j0) /\ j0 \in live
  BY <1>0, <1>1 DEF Recycling, Places
<1>3. /\ \A u \in Callers : u # t => ~Making(u, j0) /\ ~Recycling(u, j0)
      /\ \A r \in Registries : \A i : ~InMap(r, i, j0)
  BY <1>2 DEF Places
<1>4. /\ Outside.at = "out"
      /\ Outside \in [at : {"out", "insert", "store", "use", "recycle"},
                       reg : Registries \cup {"none"}, job : AJob \cup {NULL}, id : Nat]
  BY DEF Outside
<1>5. CallTo(t, Outside) /\ ParType'
  <2>1. /\ call' \in [Callers -> [at : {"out", "insert", "store", "use", "recycle"},
                                 reg : Registries \cup {"none"},
                                 job : AJob \cup {NULL}, id : Nat]]
        /\ CallTo(t, Outside)
    BY <1>1, <1>4, CallType
  <2> QED
    BY <1>1, <2>1 DEF ParType
<1>6. Held'
  BY <1>1, <1>4, <1>5 DEF Held, CallTo
<1>7. \A r \in Registries : \A i, j : InMap(r, i, j)' <=> InMap(r, i, j)
  BY <1>1 DEF InMap
<1>8. /\ \A j : ~Making(t, j)' /\ ~Recycling(t, j)' /\ ~Making(t, j)
      /\ \A j : Recycling(t, j) => j = j0
      /\ \A u \in Callers : u # t =>
            \A j : (Making(u, j)' <=> Making(u, j)) /\ (Recycling(u, j)' <=> Recycling(u, j))
  BY <1>0, <1>1, <1>4, <1>5 DEF Making, Recycling, CallTo
<1>9. Places'
  BY <1>1, <1>3, <1>5, <1>7, <1>8 DEF Places, CallTo
<1>10. Ids'
  <2>1. \A u \in Callers : call[u].at = "store" => call'[u] = call[u]
    BY <1>1, <1>5 DEF CallTo
  <2> QED
    BY <1>1, <1>7, <2>1 DEF Ids
<1>11. Known'
  <2>1. \A j \in live : j.reg \in Registries
    BY DEF ParType, AJob
  <2> QED
    BY <1>1, <1>7, <1>8, <2>1 DEF Known
<1>12. twice' = {}
  BY <1>1, <1>2
<1> QED
  BY <1>5, <1>6, <1>9, <1>10, <1>11, <1>12

\* destroy() recycles the jobs of its registry, which no caller has.
LEMMA DestroyKeeps ==
  ASSUME ParInv, NEW t \in Callers, NEW r \in Registries, Destroy(t, r)
  PROVE  ParInv'
<1> USE DEF ParInv
<1>0. PICK mine : mine = {m_jobs[r][i] : i \in DOMAIN m_jobs[r]}
  OBVIOUS
<1>1. /\ m_lock[r] = NoHolder /\ NULL \notin mine
      /\ m_lock' = [m_lock EXCEPT ![r] = t]
      /\ live' = live \ mine
      /\ twice' = twice \cup (mine \ live)
      /\ m_jobs' = [m_jobs EXCEPT ![r] = <<>>]
      /\ UNCHANGED <<s_j_id, call, made, torn>>
  BY <1>0 DEF Destroy, MayTake
<1>2. \A j : j \in mine <=> \E i : InMap(r, i, j)
  BY <1>0, <1>1 DEF InMap
<1>3. /\ m_jobs' = [q \in Registries |-> m_jobs'[q]]
      /\ \A q \in Registries : q # r => m_jobs'[q] = m_jobs[q]
      /\ m_jobs'[r] = <<>> /\ DOMAIN m_jobs'[r] = {}
  <2>1. m_jobs = [q \in Registries |-> m_jobs[q]]
    BY DEF ParType
  <2>2. m_jobs' = [q \in Registries |-> IF q = r THEN <<>> ELSE m_jobs[q]]
    BY <1>1, <2>1, Zenon
  <2> QED
    BY <2>2
<1>4. /\ \A i, j : ~InMap(r, i, j)'
      /\ \A q \in Registries : q # r => \A i, j : InMap(q, i, j)' <=> InMap(q, i, j)
  BY <1>3 DEF InMap
<1>5. ParType'
  <2>1. \A q \in Registries : \A i \in DOMAIN m_jobs'[q] : i \in Nat
    BY <1>3 DEF ParType
  <2>2. m_lock' \in [Registries -> Callers \cup {NoHolder}]
    BY <1>1 DEF ParType
  <2> QED
    BY <1>1, <1>3, <2>1, <2>2 DEF ParType
<1>6. Held'
  <2>1. \A u \in Callers : call[u].at \in {"insert", "store"} => call[u].reg # r
    BY <1>1, ParAssumption DEF Held, NoHolder
  <2> QED
    BY <1>1, <2>1 DEF Held, ParType
<1>7. \A u \in Callers : \A j : (Making(u, j)' <=> Making(u, j)) /\ (Recycling(u, j)' <=> Recycling(u, j))
  BY <1>1 DEF Making, Recycling
<1>8. /\ \A u \in Callers : \A j \in mine : ~Making(u, j) /\ ~Recycling(u, j)
      /\ \A q \in Registries : q # r => \A i : \A j \in mine : ~InMap(q, i, j)
  BY <1>2 DEF Places
<1>9. Places'
  BY <1>1, <1>4, <1>7, <1>8 DEF Places
<1>10. Ids'
  BY <1>1, <1>4 DEF Ids
<1>11. Known'
  <2>1. \A j \in live : j.reg \in Registries
    BY DEF ParType, AJob
  <2>2. \A j \in live \ mine : \A i : InMap(j.reg, i, j) => j.reg # r
    BY <1>2
  <2> QED
    BY <1>1, <1>4, <1>7, <2>1, <2>2 DEF Known
<1>12. twice' = {}
  BY <1>1, <1>2 DEF Places
<1> QED
  BY <1>5, <1>6, <1>9, <1>10, <1>11, <1>12

\* Whatever the callers do.
LEMMA ParNextKeeps == ParInv /\ [ParNext]_parVars => ParInv'
<1> SUFFICES ASSUME ParInv, [ParNext]_parVars PROVE ParInv'
  OBVIOUS
<1>1. 0..made \subseteq Nat
  BY DEF ParInv, ParType
<1>2. CASE ParNext
  BY <1>1, <1>2, CreateTakesKeeps, CreateInsertsKeeps, CreateStoresKeeps, UseLooksUpKeeps,
     DestroyFindsKeeps, UsesKeeps, RecyclesKeeps, DestroyKeeps
  DEF ParNext
<1>3. CASE UNCHANGED parVars
  <2>1. UNCHANGED <<s_j_id, m_jobs, m_lock, call, live, made, torn, twice>>
    BY <1>3 DEF parVars
  <2>2. /\ \A r, i, j : InMap(r, i, j)' <=> InMap(r, i, j)
        /\ \A t, j : Making(t, j)' <=> Making(t, j)
        /\ \A t, j : Recycling(t, j)' <=> Recycling(t, j)
    BY <2>1 DEF InMap, Making, Recycling
  <2>3. ParType' /\ Held'
    BY <2>1 DEF ParInv, ParType, Held
  <2>4. Places'
    BY <2>1, <2>2 DEF ParInv, Places
  <2>5. Ids' /\ Known'
    BY <2>1, <2>2 DEF ParInv, Ids, Known
  <2> QED
    BY <2>1, <2>3, <2>4, <2>5 DEF ParInv
<1> QED
  BY <1>2, <1>3

\* However the callers of run_job, destroy_job and destroy() meet, no job is
\* recycled twice; and while no two registries took ids at the same time, a
\* registry finds every job that exists under its id and no other.
THEOREM RegistriesKeepJobs == ParSpec => []JobsRecycledOnce
<1>1. ASSUME ParInv PROVE JobsRecycledOnce
  <2> USE <1>1 DEF ParInv
  <2>1. /\ \A j : j \in BeingMade <=> \E t \in Callers : Making(t, j)
        /\ \A j : j \in BeingRecycled <=> \E t \in Callers : Recycling(t, j)
    BY DEF BeingMade, BeingRecycled, Making, Recycling, InCall
  <2>2. ASSUME ~torn, NEW r \in Registries
        PROVE  {m_jobs[r][i] : i \in DOMAIN m_jobs[r]} \ {NULL}
                 = {j \in live \ (BeingMade \cup BeingRecycled) : j.reg = r}
    <3>1. \A j : j \in {m_jobs[r][i] : i \in DOMAIN m_jobs[r]} \ {NULL} <=> \E i : InMap(r, i, j)
      BY DEF InMap
    <3>2. \A j : (\E i : InMap(r, i, j)) =>
                  j \in live /\ j.reg = r /\ j \notin BeingMade /\ j \notin BeingRecycled
      BY <2>1 DEF Places
    <3>3. \A j : j \in live /\ j.reg = r /\ j \notin BeingMade /\ j \notin BeingRecycled
                  => \E i : InMap(r, i, j)
      BY <2>1, <2>2 DEF Known
    <3> QED
      BY <3>1, <3>2, <3>3
  <2>3. ASSUME ~torn, NEW r \in Registries, NEW i \in DOMAIN m_jobs[r], m_jobs[r][i] # NULL
        PROVE  m_jobs[r][i].id = i
    BY <2>3 DEF Ids, InMap
  <2> QED
    BY <2>2, <2>3 DEF JobsRecycledOnce
<1> QED
  BY <1>1, ParInitInv, ParNextKeeps, PTL DEF ParSpec
-----------------------------------------------------------------------------
(* LoopBuf                                                                 *)

\* The cell of the byte k after the one at st.
Slot(st, k) == IF st + k < m_cap THEN st + k ELSE st + k - m_cap

InOrder == /\ start \in 0..m_cap /\ size \in 0..m_cap /\ received \in Nat /\ size <= received
           /\ DOMAIN cells = 0..(m_cap - 1)
           /\ consumed = [k \in 1..(received - size) |-> k]
           /\ \A k \in 0..(size - 1) : cells[Slot(start, k)] = received - size + k + 1
RingInv == truncated \in BOOLEAN /\ (~truncated => InOrder)

\* The remainder of a number a capacity away.
LEMMA SmallRemainder ==
  ASSUME NEW c \in Nat \ {0}, NEW x \in Int, 0 - c <= x, x < 2 * c
  PROVE  x % c = IF x < 0 THEN x + c ELSE IF x < c THEN x ELSE x - c
  OBVIOUS

\* Slots are cells.
LEMMA SlotInRing ==
  ASSUME NEW st \in 0..m_cap, NEW k \in 0..(m_cap - 1)
  PROVE  Slot(st, k) \in 0..(m_cap - 1)
  BY RingAssumption DEF Slot

\* What is peeked at is the next bytes of the stream.
LEMMA PeekInOrder ==
  ASSUME InOrder, NEW len \in Nat
  PROVE  LET n == RingMin(size, len)
         IN  Peek(Ring, len) = [k \in 1..n |-> received - size + k]
<1> DEFINE n == RingMin(size, len)
           p == Peek(Ring, len)
<1>1. n \in 0..size /\ size \in 0..m_cap /\ start \in 0..m_cap /\ m_cap \in Nat \ {0}
  BY RingAssumption DEF InOrder, RingMin
<1>2. p = [k \in 1..n |-> cells[Slot(start, k - 1)]]
  <2> DEFINE first == m_cap - start
  <2>1. ASSUME NEW k \in 1..n
        PROVE  IF k <= first THEN start + k - 1 = Slot(start, k - 1)
                             ELSE k - 1 - first = Slot(start, k - 1)
    <3> HIDE DEF n
    <3> QED
      BY <1>1 DEF Slot
  <2>2. ASSUME NEW k \in 1..n, ~(first < n) PROVE k <= first
    <3> HIDE DEF n
    <3> QED
      BY <1>1, <2>2
  <2>3. p = IF first < n
            THEN [k \in 1..n |-> IF k <= first THEN cells[start + k - 1] ELSE cells[k - 1 - first]]
            ELSE [k \in 1..n |-> cells[start + k - 1]]
    BY DEF Peek, Piece, Ring
  <2> HIDE DEF first, n, p
  <2>4. \A k \in 1..n :
           /\ k <= first => cells[start + k - 1] = cells[Slot(start, k - 1)]
           /\ ~(k <= first) => cells[k - 1 - first] = cells[Slot(start, k - 1)]
    BY <2>1
  <2> QED
    BY <2>2, <2>3, <2>4
<1>3. \A k \in 1..n : cells[Slot(start, k - 1)] = received - size + k
  <2> SUFFICES ASSUME NEW k \in 1..n PROVE cells[Slot(start, k - 1)] = received - size + k
    OBVIOUS
  <2>1. k - 1 \in 0..(size - 1) /\ received - size + (k - 1) + 1 = received - size + k
    <3> HIDE DEF n
    <3> QED
      BY <1>1 DEF InOrder
  <2> QED
    BY <2>1 DEF InOrder
<1> HIDE DEF n, p
<1>4. p = [k \in 1..n |-> received - size + k]
  BY <1>2, <1>3
<1> QED
  BY <1>4 DEF n, p

\* What was consumed and what is peeked at are a beginning of the stream.
LEMMA ConsumedThenPeeked ==
  ASSUME InOrder, NEW n \in 0..size
  PROVE  consumed \o [k \in 1..n |-> received - size + k] = [k \in 1..(received - size + n) |-> k]
<1> DEFINE m == received - size
           a == [k \in 1..m |-> k]
           b == [k \in 1..n |-> m + k]
           c == [k \in 1..(m + n) |-> k]
<1>1. m \in Nat /\ n \in Nat
  BY DEF InOrder
<1> HIDE DEF m
<1>2. /\ a \in Seq(Int) /\ Len(a) = m /\ \A k \in 1..m : a[k] = k
      /\ b \in Seq(Int) /\ Len(b) = n /\ \A k \in 1..n : b[k] = m + k
      /\ c \in Seq(Int) /\ Len(c) = m + n /\ \A k \in 1..(m + n) : c[k] = k
  BY <1>1
<1> HIDE DEF a, b, c
<1>3. a \o b \in Seq(Int) /\ Len(a \o b) = m + n
  BY <1>1, <1>2
<1>4. ASSUME NEW k \in 1..(m + n) PROVE (a \o b)[k] = k
  <2>1. CASE k <= m
    BY <1>1, <1>2, <2>1
  <2>2. CASE k > m
    <3>1. k - m \in 1..n
      BY <1>1, <2>2
    <3>2. (a \o b)[k] = b[k - m]
      BY <1>1, <1>2, <2>2, <3>1
    <3>3. b[k - m] = m + (k - m)
      BY <1>2, <3>1
    <3> QED
      BY <1>1, <3>2, <3>3
  <2> QED
    <3>1. k <= m \/ k > m
      BY <1>1
    <3> QED
      BY <2>1, <2>2, <3>1
<1>5. a \o b = c
  <2>1. \A k \in 1..Len(a \o b) : (a \o b)[k] = c[k]
    BY <1>2, <1>3, <1>4, SMTT(20)
  <2> QED
    BY <1>2, <1>3, <2>1, SeqEqual
<1>6. consumed = a
  BY DEF InOrder, m, a
<1> QED
  BY <1>5, <1>6 DEF m, b, c

\* At first nothing is received.
LEMMA RingInitInv == RingInit => RingInv
<1> SUFFICES ASSUME RingInit PROVE RingInv
  OBVIOUS
<1>1. m_cap \in Nat \ {0}
  BY RingAssumption
<1>2. /\ DOMAIN cells = 0..(m_cap - 1) /\ start = 0 /\ size = 0 /\ received = 0
      /\ consumed = <<>> /\ truncated = FALSE
  BY DEF RingInit
<1>3. consumed = [k \in 1..(received - size) |-> k]
  BY <1>2
<1>4. \A k \in 0..(size - 1) : cells[Slot(start, k)] = received - size + k + 1
  BY <1>2
<1>5. start \in 0..m_cap /\ size \in 0..m_cap /\ received \in Nat /\ size <= received
  BY <1>1, <1>2
<1>6. InOrder
  BY <1>2, <1>3, <1>4, <1>5, Zenon DEF InOrder
<1> QED
  BY <1>2, <1>6 DEF RingInv

\* write() puts byte n after the last of the size bytes held.
LEMMA WriteSlots ==
  ASSUME NEW st \in 0..m_cap, NEW sz \in 0..m_cap, NEW n \in 1..(m_cap - sz),
         NEW k \in 0..(sz + n - 1)
  PROVE  LET o == Slot(st, k)
             stop == (st + sz) % m_cap
             i == ((o - stop) % m_cap) + 1
         IN  /\ o \in 0..(m_cap - 1) /\ o < m_cap
             /\ IF k < sz THEN ~(i <= n) ELSE i <= n /\ i = k - sz + 1 /\ i \in 1..n
<1> DEFINE o == Slot(st, k)
           stop == (st + sz) % m_cap
           i == ((o - stop) % m_cap) + 1
<1>1. m_cap \in Nat \ {0}
  BY RingAssumption
<1>2. o = (IF st + k < m_cap THEN st + k ELSE st + k - m_cap) /\ o \in 0..(m_cap - 1) /\ o < m_cap
  BY <1>1 DEF Slot
<1>3. stop = (IF st + sz < m_cap THEN st + sz ELSE st + sz - m_cap) /\ stop \in 0..(m_cap - 1)
  <2>1. st + sz \in Int /\ 0 - m_cap <= st + sz /\ st + sz < 2 * m_cap /\ ~(st + sz < 0)
    BY <1>1
  <2>2. stop = IF st + sz < 0 THEN (st + sz) + m_cap
               ELSE IF st + sz < m_cap THEN st + sz ELSE (st + sz) - m_cap
    BY <1>1, <2>1, SmallRemainder
  <2> HIDE DEF stop
  <2> QED
    BY <1>1, <2>1, <2>2
<1> HIDE DEF o, stop
<1>4. i = (IF o - stop < 0 THEN o - stop + m_cap ELSE o - stop) + 1
  <2>1. o - stop \in Int /\ 0 - m_cap <= o - stop /\ o - stop < m_cap /\ o - stop < 2 * m_cap
    BY <1>1, <1>2, <1>3
  <2>2. (o - stop) % m_cap = IF o - stop < 0 THEN (o - stop) + m_cap
                             ELSE IF o - stop < m_cap THEN o - stop ELSE (o - stop) - m_cap
    BY <1>1, <2>1, SmallRemainder
  <2> QED
    BY <2>1, <2>2
<1> HIDE DEF i
<1>5. IF k < sz THEN ~(i <= n) ELSE i <= n /\ i = k - sz + 1 /\ i \in 1..n
  BY <1>1, <1>2, <1>3, <1>4
<1> QED
  BY <1>2, <1>5 DEF o, stop, i

\* A receive that finds room adds the next bytes of the stream.
LEMMA HandleReadKeeps ==
  ASSUME RingInv, NEW n \in 1..MaxRecv, HandleRead(n)
  PROVE  RingInv'
<1> DEFINE bytes == [k \in 1..n |-> received + k]
           r == IF size + n > m_cap THEN AfterResize(Ring, m_cap + n) ELSE Ring
           w == AfterWrite(r, bytes)
<1>1. /\ cells' = w.c /\ start' = w.st /\ size' = w.sz
      /\ received' = received + n
      /\ truncated' = (truncated \/ n > m_cap - r.sz)
      /\ consumed' = consumed
      /\ n \in Nat \ {0}
  BY RingAssumption DEF HandleRead, SetRing
<1>2. truncated' \in BOOLEAN
  BY <1>1
<1>3. ASSUME ~truncated' PROVE InOrder'
  <2>1. InOrder
    BY <1>1, <1>3 DEF RingInv
  <2>2. /\ m_cap \in Nat \ {0} /\ start \in 0..m_cap /\ size \in 0..m_cap /\ received \in Nat
        /\ size <= received
    BY <2>1, RingAssumption DEF InOrder
  <2>3. ~(size + n > m_cap)
    <3> SUFFICES ASSUME size + n > m_cap PROVE FALSE
      OBVIOUS
    <3>1. r.sz = Len(Peek(Ring, m_cap + n))
      BY DEF AfterResize
    <3>2. RingMin(size, m_cap + n) = size
      BY <1>1, <2>2 DEF RingMin
    <3>3. Peek(Ring, m_cap + n) = [k \in 1..size |-> received - size + k]
      BY <1>1, <2>1, <2>2, <3>2, PeekInOrder
    <3>4. r.sz = size
      BY <2>2, <3>1, <3>3
    <3> HIDE DEF r
    <3>5. ~(n > m_cap - r.sz)
      BY <1>1, <1>3
    <3> QED
      BY <1>1, <2>2, <3>4, <3>5
  <2>4. r = Ring
    BY <2>3
  <2>5. n \in 1..(m_cap - size) /\ Len(bytes) = n /\ RingMin(Len(bytes), m_cap - size) = n
    BY <1>1, <2>2, <2>3 DEF RingMin
  <2>6. /\ start' = start /\ size' = size + n
        /\ cells' = [o \in DOMAIN cells |->
                        LET i == ((o - ((start + size) % m_cap)) % m_cap) + 1
                        IN  IF o < m_cap /\ i <= n THEN bytes[i] ELSE cells[o]]
    <3> HIDE DEF bytes
    <3> QED
      BY <1>1, <2>4, <2>5 DEF AfterWrite, Ring
  <2>7. /\ start' \in 0..m_cap /\ size' \in 0..m_cap /\ received' \in Nat /\ size' <= received'
        /\ received' - size' = received - size
        /\ DOMAIN cells' = 0..(m_cap - 1)
    BY <1>1, <2>1, <2>2, <2>5, <2>6 DEF InOrder
  <2>8. ASSUME NEW k \in 0..(size + n - 1)
        PROVE  cells'[Slot(start, k)] = received - size + k + 1
    <3> DEFINE o == Slot(start, k)
               i == ((o - ((start + size) % m_cap)) % m_cap) + 1
    <3>1. /\ o \in 0..(m_cap - 1) /\ o < m_cap
          /\ IF k < size THEN ~(i <= n) ELSE i <= n /\ i = k - size + 1 /\ i \in 1..n
      BY <2>2, <2>5, WriteSlots
    <3>2. cells'[o] = IF o < m_cap /\ i <= n THEN bytes[i] ELSE cells[o]
      BY <2>1, <2>6, <3>1 DEF InOrder
    <3> HIDE DEF i, o
    <3>3. CASE k < size
      <4>1. k \in 0..(size - 1)
        BY <2>2, <2>8, <3>3
      <4> QED
        BY <2>1, <3>1, <3>2, <3>3, <4>1 DEF InOrder, o
    <3>4. CASE ~(k < size)
      <4>1. bytes[i] = received + i
        BY <3>1, <3>4
      <4> QED
        BY <2>2, <2>8, <3>1, <3>2, <3>4, <4>1 DEF o
    <3> QED
      BY <3>3, <3>4
  <2>9. \A k \in 0..(size' - 1) : cells'[Slot(start', k)] = received' - size' + k + 1
    <3>1. size' - 1 = size + n - 1
      BY <1>1, <2>2, <2>6
    <3>2. \A k \in 0..(size' - 1) : cells'[Slot(start, k)] = received - size + k + 1
      BY <2>8, <3>1
    <3> QED
      BY <2>6, <2>7, <3>2
  <2>10. consumed' = [k \in 1..(received' - size') |-> k]
    BY <1>1, <2>1, <2>7 DEF InOrder
  <2> QED
    BY <2>7, <2>9, <2>10 DEF InOrder, Slot
<1> QED
  BY <1>2, <1>3 DEF RingInv

\* read() takes the oldest bytes and m_start follows, round the end or not.
LEMMA ReadBufKeeps ==
  ASSUME RingInv, NEW len \in 1..m_cap, ReadBuf(len)
  PROVE  RingInv'
<1> DEFINE n == RingMin(size, len)
           first == m_cap - start
<1>1. /\ size > 0
      /\ consumed' = consumed \o Peek(Ring, len)
      /\ cells' = cells
      /\ size' = size - n
      /\ start' = IF size - n <= 0 THEN 0 ELSE IF first < n THEN n - first ELSE start + n
      /\ UNCHANGED <<received, truncated>>
  BY DEF ReadBuf, SetRing, AfterRead, Ring
<1>2. ASSUME ~truncated PROVE InOrder'
  <2>1. InOrder
    BY <1>2 DEF RingInv
  <2>2. /\ m_cap \in Nat \ {0} /\ start \in 0..m_cap /\ size \in 0..m_cap /\ received \in Nat
        /\ size <= received /\ len \in Nat
    BY <2>1, RingAssumption DEF InOrder
  <2>3. n \in 0..size
    BY <2>2 DEF RingMin
  <2>4. Peek(Ring, len) = [k \in 1..n |-> received - size + k]
    BY <2>1, <2>2, PeekInOrder
  <2> HIDE DEF n
  <2>5. consumed' = [k \in 1..(received - size + n) |-> k]
    BY <1>1, <2>1, <2>3, <2>4, ConsumedThenPeeked
  <2>6. /\ start' \in 0..m_cap /\ size' \in 0..m_cap /\ received' \in Nat /\ size' <= received'
        /\ received' - size' = received - size + n
    BY <1>1, <2>2, <2>3
  <2>7. ASSUME NEW k \in 0..(size' - 1)
        PROVE  Slot(start', k) = Slot(start, n + k) /\ n + k \in 0..(size - 1)
    BY <1>1, <2>2, <2>3, <2>7 DEF Slot
  <2>8. ASSUME NEW k \in 0..(size' - 1)
        PROVE  cells'[Slot(start', k)] = received' - size' + k + 1
    <3>1. cells[Slot(start, n + k)] = received - size + (n + k) + 1
      BY <2>1, <2>7 DEF InOrder
    <3> QED
      BY <1>1, <2>2, <2>3, <2>6, <2>7, <3>1
  <2> QED
    BY <1>1, <2>1, <2>5, <2>6, <2>8 DEF InOrder, Slot
<1> QED
  BY <1>1, <1>2 DEF RingInv

\* read_buf hands out the stream in order, round the end of the ring or not,
\* for every capacity and every size of a receive.
THEOREM RingKeepsOrder == RingSpec => []StreamInOrder
<1>1. RingInv /\ [RingNext]_ringVars => RingInv'
  <2>1. RingInv /\ UNCHANGED ringVars => RingInv'
    BY DEF ringVars, RingInv, InOrder
  <2> QED
    BY <2>1, HandleReadKeeps, ReadBufKeeps DEF RingNext
<1>2. RingInv => StreamInOrder
  <2> SUFFICES ASSUME RingInv, ~truncated
               PROVE  consumed \o Peek(Ring, size) = [k \in 1..received |-> k]
    BY DEF StreamInOrder
  <2>1. InOrder /\ size \in Nat /\ received \in Nat /\ size \in 0..size
    BY DEF RingInv, InOrder
  <2>2. RingMin(size, size) = size /\ received - size + size = received
    BY <2>1 DEF RingMin
  <2>3. Peek(Ring, size) = [k \in 1..size |-> received - size + k]
    BY <2>1, <2>2, PeekInOrder
  <2> QED
    BY <2>1, <2>2, <2>3, ConsumedThenPeeked
<1> QED
  BY <1>1, <1>2, RingInitInv, PTL DEF RingSpec
-----------------------------------------------------------------------------
(* SockIo                                                                  *)

Transfers == {"send", "receive", "nb"}
Limited == {"send", "receive"}

CallFields == DOMAIN Idle
IsCall(c) ==
    /\ DOMAIN c = CallFields
    /\ c.n \in Int /\ c.rest \in Int /\ c.pos \in Nat /\ c.act \in Nat
    /\ c.wait \in Int /\ c.start \in Nat /\ c.until \in Int /\ c.ret \in Int

\* A call under way has moved what is not left over to where its pointer stands.
Underway(c) ==
    /\ c.op \in Transfers => /\ c.n > 0 /\ c.pos = c.act /\ c.rest > 0 /\ c.act + c.rest = c.n
    /\ c.op \notin Transfers => c.act = 0 /\ c.at = "wait"
    /\ c.op = "nb" => c.at = "io"
    /\ c.at = "wait" /\ c.op \in Limited /\ c.wait > 0 =>
         c.until - c.start \in (2 * c.wait)..((2 * c.wait) + 1)

\* What a call that has returned tells its caller.
Told(c) ==
    /\ ~c.ep /\ c.wait = 0
    /\ c.op \in Limited /\ c.n > 0 => (c.ret = c.n <=> c.act = c.n) /\ c.ret \in {-1, 0, c.n}
    /\ c.op = "nb" => c.ret \in {-1, c.act}

Lawful(c) == IsCall(c) /\ IF c.at = "done" THEN Told(c) ELSE Underway(c)

\* What the running call has moved
Moving(c) == IF c.at = "done" THEN 0 ELSE c.act

\* g, the first a bytes of b, and w are the bytes 1..h.
InOneLine(g, b, a, w, h) ==
    /\ a \in 0..Len(b) /\ h = Len(g) + a + Len(w)
    /\ \A i \in 1..Len(g) : g[i] = i
    /\ \A i \in 1..a : b[i] = Len(g) + i
    /\ \A i \in 1..Len(w) : w[i] = Len(g) + a + i

SockType ==
    /\ now \in Nat /\ sent \in Nat /\ (sock \in {"none", "connecting"} => peer = "none")
    /\ got \in Seq(Int) /\ rbuf \in Seq(Int) /\ wire \in Seq(Int)
    /\ Lawful(S) /\ S.op \in {"none", "send", "write_ready"}
    /\ Lawful(R) /\ R.op \in {"none", "receive", "nb", "read_ready"}
    /\ R.at # "done" /\ R.op \in Transfers => Len(rbuf) = R.n

Flow == InOneLine(got, rbuf, Moving(R), wire, sent + Moving(S))

ReadyTold ==
    /\ S.at = "done" /\ S.op = "write_ready" /\ S.ret = 1 => Writable \/ sock = "closed"
    /\ R.at = "done" /\ R.op = "read_ready" /\ R.ret = 1 => Readable

SockInv == SockType /\ Flow /\ ReadyTold

-----------------------------------------------------------------------------
(* SockIo: the clock                                                       *)

\* cast_ms, taken apart into seconds and the rest, is the whole milliseconds
\* between its two readings of the clock.
LEMMA CastMsIs ==
  ASSUME NEW t0 \in Nat, NEW t1 \in Nat PROVE CastMs(t0, t1) = (t1 - t0) \div 2
<1>1. PICK m \in Nat : m = 2 * SecMs /\ m > 0
  BY SockAssumption
<1>2. \A t \in Nat : t \div m \in Nat /\ t % m \in 0..(m - 1) /\ t = m * (t \div m) + (t % m)
  BY <1>1
<1>3. PICK q0, r0 : q0 = t0 \div m /\ r0 = t0 % m
  OBVIOUS
<1>4. PICK q1, r1 : q1 = t1 \div m /\ r1 = t1 % m
  OBVIOUS
<1>5. /\ q0 \in Nat /\ r0 \in 0..(m - 1) /\ t0 = m * q0 + r0
      /\ q1 \in Nat /\ r1 \in 0..(m - 1) /\ t1 = m * q1 + r1
  BY <1>2, <1>3, <1>4
<1>6. PICK s \in Int : s = q1 - q0
  BY <1>5
<1>7. PICK p \in Int : p = s * SecMs
  BY <1>6, SockAssumption
<1>8. m * q1 - m * q0 = 2 * p
  <2>1. m * q1 - m * q0 = m * s
    BY <1>1, <1>5, <1>6
  <2>2. m * s = 2 * p
    BY <1>1, <1>6, <1>7, SockAssumption
  <2> QED
    BY <2>1, <2>2
<1>9. t1 - t0 = 2 * p + (r1 - r0)
  BY <1>5, <1>8
<1>10. (s - 1) * SecMs = p - SecMs
  BY <1>6, <1>7, SockAssumption
<1>11. CastMs(t0, t1) = IF r1 - r0 < 0 THEN p - SecMs + ((r1 - r0 + m) \div 2)
                                       ELSE p + ((r1 - r0) \div 2)
  BY <1>1, <1>3, <1>4, <1>6, <1>7, <1>10 DEF CastMs, TimeOfDay
<1>12. (r1 - r0 + m) \div 2 = ((r1 - r0) \div 2) + SecMs
  BY <1>1, <1>5, SockAssumption
<1>13. (2 * p + (r1 - r0)) \div 2 = p + ((r1 - r0) \div 2)
  <2>1. PICK e \in Int : e = r1 - r0
    BY <1>5
  <2>2. PICK f \in Int : f = e \div 2
    BY <2>1
  <2>3. 2 * f <= e /\ e < 2 * f + 2
    BY <2>1, <2>2
  <2>4. (2 * p + e) \div 2 = p + f
    BY <1>7, <2>1, <2>2, <2>3
  <2> QED
    BY <2>1, <2>2, <2>4
<1> QED
  BY <1>5, <1>7, <1>9, <1>11, <1>12, <1>13, SockAssumption

\* A limit is over when the milliseconds since the start of the call are.
LEMMA DueIs ==
  ASSUME NEW c, IsCall(c), c.wait > 0, now \in Nat
  PROVE  /\ Due(c) <=> now - c.start >= 2 * c.wait
         /\ RestMs(c) = c.wait - ((now - c.start) \div 2)
<1>1. c.start \in Nat /\ c.wait \in Int
  BY DEF IsCall
<1>2. RestMs(c) = c.wait - ((now - c.start) \div 2)
  BY <1>1, CastMsIs DEF RestMs
<1>3. PICK d \in Int : d = now - c.start
  BY <1>1
<1> QED
  BY <1>1, <1>2, <1>3 DEF Due

-----------------------------------------------------------------------------
(* SockIo: bytes in line                                                   *)

\* The receiver takes the bytes of its buffer.
LEMMA LineTaken ==
  ASSUME NEW g \in Seq(Int), NEW b \in Seq(Int), NEW a, NEW w \in Seq(Int), NEW h,
         InOneLine(g, b, a, w, h)
  PROVE  /\ g \o SubSeq(b, 1, a) \in Seq(Int)
         /\ \A e \in Seq(Int) : InOneLine(g \o SubSeq(b, 1, a), e, 0, w, h)
<1>1. a \in 0..Len(b) /\ Len(b) \in Nat /\ Len(g) \in Nat /\ Len(w) \in Nat /\ h = Len(g) + a + Len(w)
  BY DEF InOneLine
<1>2. PICK s : s = SubSeq(b, 1, a)
  OBVIOUS
<1>3. s \in Seq(Int) /\ Len(s) = a /\ \A i \in 1..a : s[i] = b[i]
  BY <1>1, <1>2
<1>4. PICK x : x = g \o s
  OBVIOUS
<1>5. x \in Seq(Int) /\ Len(x) = Len(g) + a
  <2>1. g \o s \in Seq(Int) /\ Len(g \o s) = Len(g) + Len(s)
    BY <1>3, ConcatProperties
  <2> QED
    BY <1>3, <1>4, <2>1
<1>6. ASSUME NEW i \in 1..Len(x) PROVE x[i] = i
  <2>1. CASE i <= Len(g)
    <3>1. x[i] = g[i] /\ i \in 1..Len(g)
      BY <1>1, <1>3, <1>4, <1>5, <2>1
    <3> QED
      BY <3>1 DEF InOneLine
  <2>2. CASE i > Len(g)
    <3>1. PICK j : j = i - Len(g) /\ j \in 1..a
      BY <1>1, <1>5, <2>2
    <3>2. x[i] = s[j]
      BY <1>1, <1>3, <1>4, <1>5, <2>2, <3>1
    <3>3. b[j] = Len(g) + j
      BY <3>1 DEF InOneLine
    <3> QED
      BY <1>1, <1>3, <3>1, <3>2, <3>3
  <2> QED
    BY <1>5, <2>1, <2>2
<1>7. \A i \in 1..Len(w) : w[i] = Len(x) + 0 + i
  BY <1>1, <1>5 DEF InOneLine
<1>8. \A e \in Seq(Int) : InOneLine(x, e, 0, w, h)
  BY <1>1, <1>5, <1>6, <1>7 DEF InOneLine
<1> QED
  BY <1>2, <1>4, <1>5, <1>8

\* The buffer b with k bytes of w behind the first a.
Behind(b, a, w, k) == [i \in DOMAIN b |-> IF i \in (a + 1)..(a + k) THEN w[i - a] ELSE b[i]]

\* recv moves k bytes from the kernel to the buffer, behind those it has.
LEMMA LineFilled ==
  ASSUME NEW g \in Seq(Int), NEW b \in Seq(Int), NEW a, NEW w \in Seq(Int), NEW h,
         InOneLine(g, b, a, w, h), NEW k \in Nat, k <= Len(w), a + k <= Len(b)
  PROVE  /\ Behind(b, a, w, k) \in Seq(Int) /\ Len(Behind(b, a, w, k)) = Len(b)
         /\ SubSeq(w, k + 1, Len(w)) \in Seq(Int)
         /\ InOneLine(g, Behind(b, a, w, k), a + k, SubSeq(w, k + 1, Len(w)), h)
<1> DEFINE f == Behind(b, a, w, k)
           v == SubSeq(w, k + 1, Len(w))
<1>f. f = [i \in DOMAIN b |-> IF i \in (a + 1)..(a + k) THEN w[i - a] ELSE b[i]]
  BY DEF Behind
<1>v. v = SubSeq(w, k + 1, Len(w))
  OBVIOUS
<1> HIDE DEF f, v
<1>1. a \in 0..Len(b) /\ Len(b) \in Nat /\ Len(g) \in Nat /\ Len(w) \in Nat /\ h = Len(g) + a + Len(w)
  BY DEF InOneLine
<1>2. DOMAIN b = 1..Len(b) /\ DOMAIN f = 1..Len(b)
  BY <1>f, <1>1
<1>3. \A i \in 1..Len(b) : f[i] \in Int
  <2> SUFFICES ASSUME NEW i \in 1..Len(b) PROVE f[i] \in Int
    OBVIOUS
  <2>1. CASE i \in (a + 1)..(a + k)
    <3>1. PICK j : j = i - a /\ j \in 1..Len(w)
      BY <1>1, <2>1
    <3>2. f[i] = w[j]
      BY <1>f, <1>2, <2>1, <3>1
    <3> QED
      BY <3>1, <3>2
  <2>2. CASE i \notin (a + 1)..(a + k)
    BY <1>f, <1>2, <2>2
  <2> QED
    BY <2>1, <2>2
<1>4. f = [i \in 1..Len(b) |-> f[i]]
  BY <1>f, <1>2
<1>5. f \in Seq(Int) /\ Len(f) = Len(b)
  <2>1. f \in [1..Len(b) -> Int]
    BY <1>3, <1>4
  <2>2. PICK m \in Nat : m = Len(b)
    BY <1>1
  <2>3. f \in [1..m -> Int]
    BY <2>1, <2>2
  <2>4. f \in Seq(Int)
    BY <2>2, <2>3, SeqDef
  <2>5. DOMAIN f = 1..m
    BY <2>3
  <2>6. Len(f) = m
    BY <2>2, <2>4, <2>5, LenProperties
  <2> QED
    BY <2>2, <2>4, <2>6
<1>6. v \in Seq(Int) /\ Len(v) = Len(w) - k /\ \A i \in 1..(Len(w) - k) : v[i] = w[k + i]
  <2>1. /\ v \in Seq(Int) /\ Len(v) = Len(w) - k
    BY <1>1, <1>v, SMTT(20)
  <2>2. ASSUME NEW i \in 1..(Len(w) - k) PROVE v[i] = w[k + i]
    <3>1. v[i] = w[k + 1 + i - 1]
      <4>1. PICK p, q : p = k + 1 /\ q = Len(w)
        OBVIOUS
      <4>2. p \in 1..(q + 1) /\ q \in 0..Len(w) /\ i \in 1..(q - p + 1)
        BY <1>1, <2>2, <4>1
      <4>3. SubSeq(w, p, q)[i] = w[p + i - 1]
        BY <1>1, <4>2
      <4> QED
        BY <1>v, <4>1, <4>3
    <3> QED
      BY <1>1, <3>1
  <2> QED
    BY <2>1, <2>2
<1>7. ASSUME NEW i \in 1..(a + k) PROVE f[i] = Len(g) + i
  <2>1. CASE i <= a
    <3>1. i \in 1..a /\ i \in 1..Len(b) /\ i \notin (a + 1)..(a + k)
      BY <1>1, <2>1
    <3>2. f[i] = b[i]
      BY <1>f, <1>2, <3>1
    <3> QED
      BY <3>1, <3>2 DEF InOneLine
  <2>2. CASE i > a
    <3>1. PICK j : j = i - a /\ j \in 1..Len(w)
      BY <1>1, <2>2
    <3>2. f[i] = w[j]
      BY <1>f, <1>1, <1>2, <2>2, <3>1
    <3>3. w[j] = Len(g) + a + j
      BY <3>1 DEF InOneLine
    <3> QED
      BY <1>1, <3>1, <3>2, <3>3
  <2> QED
    BY <1>1, <2>1, <2>2
<1>8. ASSUME NEW i \in 1..Len(v) PROVE v[i] = Len(g) + (a + k) + i
  <2>0. i \in 1..(Len(w) - k)
    BY <1>6
  <2>1. PICK j : j = k + i /\ j \in 1..Len(w)
    BY <1>1, <2>0
  <2>2. v[i] = w[j] /\ w[j] = Len(g) + a + j
    BY <1>6, <2>0, <2>1 DEF InOneLine
  <2> QED
    BY <1>1, <2>0, <2>1, <2>2
<1>9. \A i \in 1..Len(g) : g[i] = i
  BY DEF InOneLine
<1>10. a + k \in 0..Len(f) /\ h = Len(g) + (a + k) + Len(v)
  <2>1. Len(v) = Len(w) - k /\ Len(f) = Len(b)
    BY <1>5, <1>6
  <2>2. a + k \in 0..Len(b)
    BY <1>1
  <2>3. h = Len(g) + (a + k) + (Len(w) - k)
    BY <1>1
  <2> QED
    BY <2>1, <2>2, <2>3
<1>11. InOneLine(g, f, a + k, v, h)
  BY <1>7, <1>8, <1>9, <1>10 DEF InOneLine
<1> QED
  BY <1>5, <1>6, <1>11 DEF f, v

\* send puts the next k bytes behind what the kernel has.
LEMMA LineSent ==
  ASSUME NEW g \in Seq(Int), NEW b \in Seq(Int), NEW a, NEW w \in Seq(Int), NEW h \in Nat,
         InOneLine(g, b, a, w, h), NEW k \in Nat
  PROVE  /\ w \o [i \in 1..k |-> h + i] \in Seq(Int)
         /\ InOneLine(g, b, a, w \o [i \in 1..k |-> h + i], h + k)
<1>1. a \in 0..Len(b) /\ Len(b) \in Nat /\ Len(g) \in Nat /\ Len(w) \in Nat /\ h = Len(g) + a + Len(w)
  BY DEF InOneLine
<1>2. PICK s : s = [i \in 1..k |-> h + i]
  OBVIOUS
<1>3. s \in Seq(Int) /\ Len(s) = k /\ \A i \in 1..k : s[i] = h + i
  BY <1>2
<1>4. PICK x : x = w \o s
  OBVIOUS
<1>5. x \in Seq(Int) /\ Len(x) = Len(w) + k
  <2>1. w \o s \in Seq(Int) /\ Len(w \o s) = Len(w) + Len(s)
    BY <1>3, ConcatProperties
  <2> QED
    BY <1>3, <1>4, <2>1
<1>6. ASSUME NEW i \in 1..Len(x) PROVE x[i] = Len(g) + a + i
  <2>1. CASE i <= Len(w)
    <3>1. x[i] = w[i] /\ i \in 1..Len(w)
      BY <1>1, <1>3, <1>4, <1>5, <2>1
    <3> QED
      BY <3>1 DEF InOneLine
  <2>2. CASE i > Len(w)
    <3>1. PICK j : j = i - Len(w) /\ j \in 1..k
      BY <1>1, <1>5, <2>2
    <3>2. x[i] = s[j]
      BY <1>1, <1>3, <1>4, <1>5, <2>2, <3>1
    <3> QED
      BY <1>1, <1>3, <3>1, <3>2
  <2> QED
    BY <1>5, <2>1, <2>2
<1>7. InOneLine(g, b, a, x, h + k)
  BY <1>1, <1>5, <1>6 DEF InOneLine
<1> QED
  BY <1>2, <1>4, <1>5, <1>7

\* Taken together they are the stream.
LEMMA LineIsStream ==
  ASSUME NEW g \in Seq(Int), NEW b \in Seq(Int), NEW a, NEW w \in Seq(Int), NEW h,
         InOneLine(g, b, a, w, h)
  PROVE  g \o SubSeq(b, 1, a) \o w = [i \in 1..h |-> i]
<1>1. PICK x : x = g \o SubSeq(b, 1, a)
  OBVIOUS
<1>2. x \in Seq(Int) /\ \A e \in Seq(Int) : InOneLine(x, e, 0, w, h)
  BY <1>1, LineTaken
<1>3. InOneLine(x, w, 0, w, h)
  BY <1>2
<1>4. Len(x) \in Nat /\ Len(w) \in Nat /\ h = Len(x) + Len(w)
  BY <1>2, <1>3 DEF InOneLine
<1>5. PICK y : y = x \o w
  OBVIOUS
<1>6. y \in Seq(Int) /\ Len(y) = h
  BY <1>2, <1>4, <1>5
<1>7. ASSUME NEW i \in 1..h PROVE y[i] = i
  <2>1. CASE i <= Len(x)
    <3>1. y[i] = x[i] /\ i \in 1..Len(x)
      BY <1>2, <1>4, <1>5, <2>1
    <3> QED
      BY <1>3, <3>1 DEF InOneLine
  <2>2. CASE i > Len(x)
    <3>1. PICK j : j = i - Len(x) /\ j \in 1..Len(w)
      BY <1>4, <2>2
    <3>2. y[i] = w[j]
      BY <1>2, <1>4, <1>5, <2>2, <3>1
    <3>3. w[j] = Len(x) + 0 + j
      BY <1>3, <3>1 DEF InOneLine
    <3> QED
      BY <1>4, <3>1, <3>2, <3>3
  <2> QED
    BY <1>4, <2>1, <2>2
<1>8. y = [i \in 1..h |-> i]
  BY <1>4, <1>6, <1>7
<1> QED
  BY <1>1, <1>5, <1>8

-----------------------------------------------------------------------------
(* SockIo: calls                                                           *)

\* A call that starts has moved nothing.
LEMMA StartedLawful ==
  ASSUME now \in Nat, NEW op \in Transfers, NEW n \in Int, n > 0, NEW w \in Int,
         NEW c, c = Started(op, n, w)
  PROVE  Lawful(c) /\ c.at = "io" /\ c.op = op /\ c.n = n /\ c.act = 0
<1>1. IsCall(c)
  BY DEF Started, Idle, IsCall, CallFields
<1>2. /\ c.at = "io" /\ c.op = op /\ c.n = n /\ c.act = 0 /\ c.pos = 0 /\ c.rest = n
  BY DEF Started, Idle
<1> QED
  BY <1>1, <1>2 DEF Lawful, Underway, Transfers

\* A call with a length it does not take returns at once.
LEMMA RefusedLawful ==
  ASSUME NEW op \in Transfers, NEW n \in Int, n <= 0, NEW c, c = Refused(op, n)
  PROVE  Lawful(c) /\ c.at = "done" /\ c.op = op
<1>1. IsCall(c)
  BY DEF Refused, Idle, IsCall, CallFields
<1>2. /\ c.at = "done" /\ c.op = op /\ c.n = n /\ c.ep = FALSE /\ c.wait = 0 /\ c.ret = -1
  BY DEF Refused, Idle
<1> QED
  BY <1>1, <1>2 DEF Lawful, Told

\* A question whether a socket is ready is one wait, ...
LEMMA PollingLawful ==
  ASSUME now \in Nat, NEW op \in {"read_ready", "write_ready"}, NEW ms \in Int,
         NEW c, c = Polling(op, ms)
  PROVE  Lawful(c) /\ c.at = "wait" /\ c.op = op /\ c.act = 0
<1>1. IsCall(c)
  BY DEF Polling, Idle, IsCall, CallFields, Forever
<1>2. c.at = "wait" /\ c.op = op /\ c.act = 0
  BY DEF Polling, Idle
<1> QED
  BY <1>1, <1>2 DEF Lawful, Underway, Transfers, Limited

\* ... and an answer.
LEMMA AnswersLawful ==
  ASSUME NEW b, IsCall(b), b.op \notin Transfers, NEW r \in Int, NEW c, c = Answers(b, r)
  PROVE  Lawful(c) /\ c.at = "done" /\ c.op = b.op /\ c.ret = r
<1>1. IsCall(c)
  BY DEF Answers, Closed, IsCall, CallFields, Idle
<1>2. c.at = "done" /\ c.op = b.op /\ c.ret = r /\ c.ep = FALSE /\ c.wait = 0
  BY DEF Answers, Closed, IsCall, CallFields, Idle
<1> QED
  BY <1>1, <1>2 DEF Lawful, Told, Transfers, Limited

\* What a call returns tells whether all was moved.
LEMMA ReturnsLawful ==
  ASSUME NEW b, IsCall(b), b.op \in Transfers, b.n > 0, b.act + b.rest = b.n, NEW r \in Int,
         b.rest = 0 \/ r = -1 \/ (b.op # "nb" /\ r = 0) \/ (b.op = "nb" /\ r = b.act),
         NEW c, c = Returns(b, r)
  PROVE  Lawful(c) /\ c.at = "done" /\ c.op = b.op /\ c.act = b.act
<1>0. /\ b.n \in Int /\ b.act \in Int /\ b.rest \in Int
  BY DEF IsCall, CallFields, Idle
<1>1. PICK v \in Int : v = IF b.rest # 0 THEN r ELSE b.n
  BY <1>0
<1>2. IsCall(c)
  BY <1>1 DEF Returns, Closed, IsCall, CallFields, Idle
<1>3. c.at = "done" /\ c.op = b.op /\ c.ret = v /\ c.ep = FALSE /\ c.wait = 0 /\ c.n = b.n /\ c.act = b.act
  BY <1>1 DEF Returns, Closed, IsCall, CallFields, Idle
<1>4. b.op = "nb" => v \in {-1, b.act}
  BY <1>0, <1>1
<1>5. b.op # "nb" => (v = b.n <=> b.act = b.n) /\ v \in {-1, 0, b.n}
  BY <1>0, <1>1
<1> QED
  BY <1>2, <1>3, <1>4, <1>5 DEF Lawful, Told, Limited

\* A call that has moved k bytes more
LEMMA MovedLawful ==
  ASSUME NEW b, Lawful(b), b.at = "io", NEW k \in Nat, k <= b.rest, NEW c, c = Moved(b, k)
  PROVE  /\ IsCall(c) /\ c.at = "io" /\ c.op = b.op /\ c.n = b.n /\ c.op \in Transfers
         /\ c.n > 0 /\ c.act = b.act + k /\ c.act + c.rest = c.n
         /\ c.rest # 0 => Lawful(c)
<1>0. IsCall(b) /\ Underway(b) /\ b.op \in Transfers
  BY DEF Lawful, Underway
<1>1. /\ b.n \in Int /\ b.act \in Nat /\ b.rest \in Int /\ b.pos \in Nat
  BY <1>0 DEF IsCall, CallFields, Idle
<1>2. IsCall(c)
  BY <1>0, <1>1 DEF Moved, IsCall, CallFields, Idle
<1>3. /\ c.at = "io" /\ c.op = b.op /\ c.n = b.n /\ c.act = b.act + k /\ c.pos = b.pos + k
      /\ c.rest = b.rest - k
  BY <1>0 DEF Moved, IsCall, CallFields, Idle
<1>4. /\ b.n > 0 /\ b.pos = b.act /\ b.act + b.rest = b.n
  BY <1>0 DEF Underway
<1>5. c.act + c.rest = c.n /\ c.pos = c.act /\ (c.rest # 0 => c.rest > 0)
  BY <1>1, <1>3, <1>4
<1> QED
  BY <1>0, <1>2, <1>3, <1>4, <1>5 DEF Lawful, Underway

\* A call goes on to send or recv, or to the clock.
LEMMA GoesOnLawful ==
  ASSUME NEW b, Lawful(b), b.at # "done", b.op \in Transfers,
         NEW at \in {"io", "check"}, at = "check" => b.op \in Limited,
         NEW c, c = [b EXCEPT !.at = at]
  PROVE  Lawful(c) /\ c.at = at /\ c.op = b.op /\ c.act = b.act /\ c.n = b.n
<1>0. IsCall(b) /\ Underway(b)
  BY DEF Lawful
<1>1. IsCall(c)
  BY <1>0 DEF IsCall, CallFields, Idle
<1>2. /\ c.at = at /\ c.op = b.op /\ c.n = b.n /\ c.act = b.act /\ c.pos = b.pos /\ c.rest = b.rest
  BY <1>0 DEF IsCall, CallFields, Idle
<1> QED
  BY <1>0, <1>1, <1>2 DEF Lawful, Underway, Limited

\* A wait is as long as what is left of the limit.
LEMMA WaitingLawful ==
  ASSUME NEW b, Lawful(b), b.at = "check", ~Due(b), now \in Nat, NEW c, c = Waiting(b)
  PROVE  Lawful(c) /\ c.at = "wait" /\ c.op = b.op /\ c.act = b.act /\ c.n = b.n
<1>0. IsCall(b) /\ Underway(b) /\ b.op \in Transfers /\ b.op # "nb"
  BY DEF Lawful, Underway
<1>1. b.wait \in Int /\ b.start \in Nat
  BY <1>0 DEF IsCall, CallFields, Idle
<1>2. PICK u : u = IF RestMs(b) = Forever THEN Forever ELSE now + (2 * RestMs(b))
  OBVIOUS
<1>5. u \in Int /\ (b.wait > 0 => u - b.start \in (2 * b.wait)..((2 * b.wait) + 1))
  <2>1. CASE b.wait > 0
    <3>1. /\ now - b.start < 2 * b.wait
          /\ RestMs(b) = b.wait - ((now - b.start) \div 2)
      BY <1>0, <1>1, <2>1, DueIs
    <3>2. PICK d \in Int : d = now - b.start
      BY <1>1
    <3>3. PICK e \in Int : e = d \div 2
      BY <3>2
    <3>4. 2 * e <= d /\ d < 2 * e + 2
      BY <3>2, <3>3
    <3>5. RestMs(b) = b.wait - e /\ b.wait - e > 0
      BY <1>1, <3>1, <3>2, <3>3, <3>4
    <3>6. u = now + 2 * (b.wait - e)
      BY <1>1, <1>2, <3>5 DEF Forever
    <3>7. u \in Int /\ u - b.start \in (2 * b.wait)..((2 * b.wait) + 1)
      BY <1>1, <3>2, <3>4, <3>6
    <3> QED
      BY <3>7
  <2>2. CASE ~(b.wait > 0)
    <3>1. u = Forever
      BY <1>2, <2>2 DEF RestMs
    <3> QED
      BY <2>2, <3>1 DEF Forever
  <2> QED
    BY <2>1, <2>2
<1>6. IsCall(c)
  BY <1>0, <1>2, <1>5 DEF Waiting, IsCall, CallFields, Idle
<1>7. /\ c.at = "wait" /\ c.op = b.op /\ c.n = b.n /\ c.act = b.act /\ c.pos = b.pos /\ c.rest = b.rest
      /\ c.wait = b.wait /\ c.start = b.start /\ c.until = u
  BY <1>0, <1>2 DEF Waiting, IsCall, CallFields, Idle
<1> QED
  BY <1>0, <1>5, <1>6, <1>7 DEF Lawful, Underway

\* A step of the sender that leaves its connection and the receiver alone: its
\* call is lawful, and nothing handed over is forgotten.
LEMMA SenderKeeps ==
  ASSUME SockInv, sendUnchanged' = sendUnchanged,
         Lawful(S'), S'.op \in {"none", "send", "write_ready"},
         sent' \in Nat, sent' + Moving(S') = sent + Moving(S),
         S'.at = "done" /\ S'.op = "write_ready" /\ S'.ret = 1 => Writable
  PROVE  SockInv'
<1>1. /\ sock' = sock /\ nonblock' = nonblock /\ listening' = listening /\ peer' = peer
      /\ wire' = wire /\ now' = now /\ R' = R /\ rbuf' = rbuf /\ got' = got
  BY DEF sendUnchanged
<1>2. SockType'
  BY <1>1 DEF SockInv, SockType
<1>3. Flow'
  <2>1. InOneLine(got, rbuf, Moving(R), wire, sent' + Moving(S'))
    BY DEF SockInv, Flow
  <2> QED
    BY <1>1, <2>1 DEF Flow
<1>4. ReadyTold'
  BY <1>1 DEF SockInv, ReadyTold, Writable, Readable, Ended
<1> QED
  BY <1>2, <1>3, <1>4 DEF SockInv

\* A step of the receiver: its call is lawful, and the bytes stay in line.
LEMMA ReceiverKeeps ==
  ASSUME SockInv, recvUnchanged' = recvUnchanged,
         Lawful(R'), R'.op \in {"none", "receive", "nb", "read_ready"},
         got' \in Seq(Int), rbuf' \in Seq(Int), wire' \in Seq(Int), Len(wire') <= Len(wire),
         R'.at # "done" /\ R'.op \in Transfers => Len(rbuf') = R'.n,
         InOneLine(got', rbuf', Moving(R'), wire', sent + Moving(S)),
         R'.at = "done" /\ R'.op = "read_ready" /\ R'.ret = 1 => Readable /\ wire' = wire
  PROVE  SockInv'
<1>1. /\ sock' = sock /\ nonblock' = nonblock /\ listening' = listening /\ peer' = peer
      /\ now' = now /\ S' = S /\ sent' = sent
  BY DEF recvUnchanged
<1>2. SockType'
  BY <1>1 DEF SockInv, SockType
<1>3. Flow'
  <2>1. Moving(S') = Moving(S)
    BY <1>1
  <2> QED
    BY <1>1, <2>1 DEF Flow
<1>4. Writable => Writable'
  <2>1. Len(wire) \in Nat /\ Len(wire') \in Nat /\ Room \in Nat
    BY SockAssumption DEF SockInv, SockType
  <2> QED
    BY <1>1, <2>1 DEF Writable
<1>5. ReadyTold'
  BY <1>1, <1>4 DEF SockInv, ReadyTold, Readable, Ended
<1> QED
  BY <1>2, <1>3, <1>5 DEF SockInv

\* A step of the receiver that takes nothing from the kernel: the call goes on
\* with what it has, ...
LEMMA ReceiverGoes ==
  ASSUME SockInv, recvUnchanged' = recvUnchanged, wire' = wire, R.at # "done",
         NEW c, Lawful(c), c.op = R.op, c.act = R.act, c.n = R.n, c.at # "done",
         R_Goes(c)
  PROVE  SockInv'
<1>1. R' = c /\ rbuf' = rbuf /\ got' = got
  BY DEF R_Goes
<1>2. Moving(R') = Moving(R)
  BY <1>1 DEF Moving
<1>3. InOneLine(got', rbuf', Moving(R'), wire', sent + Moving(S))
  BY <1>1, <1>2 DEF SockInv, Flow
<1>4. Len(wire') <= Len(wire)
  BY DEF SockInv, SockType
<1>5. /\ got' \in Seq(Int) /\ rbuf' \in Seq(Int) /\ wire' \in Seq(Int)
      /\ Lawful(R') /\ R'.op \in {"none", "receive", "nb", "read_ready"}
      /\ R'.at # "done" /\ R'.op \in Transfers => Len(rbuf') = R'.n
  BY <1>1 DEF SockInv, SockType
<1>6. R'.at # "done"
  BY <1>1
<1> QED
  BY <1>3, <1>4, <1>5, <1>6, ReceiverKeeps

\* ... or hands it to its caller.
LEMMA ReceiverEnds ==
  ASSUME SockInv, recvUnchanged' = recvUnchanged, wire' = wire, R.at # "done",
         NEW c, Lawful(c), c.op = R.op, c.op \in Transfers, c.act = R.act, c.at = "done",
         R_Done(c, rbuf)
  PROVE  SockInv'
<1>1. R' = c /\ rbuf' = <<>> /\ got' = got \o SubSeq(rbuf, 1, R.act)
  BY DEF R_Done
<1>2. Moving(R) = R.act /\ Moving(R') = 0
  BY <1>1 DEF Moving
<1>3. /\ got \in Seq(Int) /\ rbuf \in Seq(Int) /\ wire \in Seq(Int)
      /\ InOneLine(got, rbuf, R.act, wire, sent + Moving(S))
  BY <1>2 DEF SockInv, SockType, Flow
<1>4. <<>> \in Seq(Int)
  OBVIOUS
<1>5. /\ got' \in Seq(Int) /\ rbuf' \in Seq(Int) /\ wire' \in Seq(Int)
      /\ InOneLine(got', rbuf', Moving(R'), wire', sent + Moving(S))
  BY <1>1, <1>2, <1>3, <1>4, LineTaken
<1>6. Len(wire') <= Len(wire)
  BY <1>3
<1>7. R'.op # "read_ready" /\ R'.at = "done"
  BY <1>1 DEF Transfers
<1>8. Lawful(R') /\ R'.op \in {"none", "receive", "nb", "read_ready"}
  BY <1>1 DEF SockInv, SockType
<1> QED
  BY <1>5, <1>6, <1>7, <1>8, ReceiverKeeps

-----------------------------------------------------------------------------
(* SockIo: each step keeps the invariant                                   *)

\* What the invariant says of the calls.
LEMMA CallsAre ==
  ASSUME SockInv
  PROVE  /\ Lawful(S) /\ IsCall(S) /\ S.op \in {"none", "send", "write_ready"}
         /\ Lawful(R) /\ IsCall(R) /\ R.op \in {"none", "receive", "nb", "read_ready"}
         /\ sent \in Nat /\ now \in Nat
         /\ S.at # "done" => Underway(S)
         /\ R.at # "done" => Underway(R)
  BY DEF SockInv, SockType, Lawful

\* Connecting, closing and the passing of time
LEMMA ConnectionKeeps ==
  SockInv /\ (Listen \/ TcpConnect \/ TcpNbConnect \/ Answer \/ SenderCloses \/ ReceiverCloses \/ Tick)
    => SockInv'
<1> SUFFICES ASSUME SockInv, Listen \/ TcpConnect \/ TcpNbConnect \/ Answer \/ SenderCloses
                              \/ ReceiverCloses \/ Tick
             PROVE  SockInv'
  OBVIOUS
<1>1. /\ wire' = wire /\ S' = S /\ R' = R /\ sent' = sent /\ rbuf' = rbuf /\ got' = got
      /\ now' = now \/ now' = now + 1
  BY DEF Listen, TcpConnect, TcpNbConnect, Connecting, Answer, SenderCloses, ReceiverCloses, Tick
<1>2. /\ sock' \in {"none", "connecting"} => peer' = "none"
      /\ sock = "closed" => sock' = "closed"
      /\ Writable => Writable' \/ sock' = "closed"
  BY <1>1 DEF Listen, TcpConnect, TcpNbConnect, Connecting, Answer, SenderCloses, ReceiverCloses, Tick,
              Writable, SockInv, SockType
<1>3. SockType'
  BY <1>1, <1>2 DEF SockInv, SockType
<1>4. Flow' /\ ReadyTold'
  BY <1>1, <1>2 DEF SockInv, Flow, ReadyTold, Readable, Ended
<1> QED
  BY <1>3, <1>4 DEF SockInv

\* A call of tcp_send, that starts or is turned down
LEMMA SendCallKeeps ==
  ASSUME SockInv, NEW n \in Int, NEW w \in Int, SendCall(n, w) PROVE SockInv'
<1>1. /\ sent' = sent /\ sendUnchanged' = sendUnchanged /\ Moving(S) = 0 /\ sent \in Nat
      /\ S' = IF n <= 0 THEN Refused("send", n) ELSE Started("send", n, w)
  BY CallsAre DEF SendCall, Moving, sendUnchanged
<1>2. Lawful(S') /\ S'.op = "send" /\ Moving(S') = 0
  <2>1. CASE n <= 0
    BY <1>1, <2>1, RefusedLawful DEF Transfers, Moving
  <2>2. CASE n > 0
    BY <1>1, <2>2, StartedLawful, CallsAre DEF Transfers, Moving
  <2> QED
    BY <2>1, <2>2
<1> QED
  BY <1>1, <1>2, SenderKeeps

\* sock_write_ready
LEMMA WriteReadyKeeps ==
  ASSUME SockInv, NEW ms \in Int, WriteReady(ms) PROVE SockInv'
<1>1. /\ sent' = sent /\ sendUnchanged' = sendUnchanged /\ Moving(S) = 0 /\ sent \in Nat
      /\ S' = Polling("write_ready", ms)
  BY CallsAre DEF WriteReady, Moving, sendUnchanged
<1>2. Lawful(S') /\ S'.at = "wait" /\ S'.op = "write_ready" /\ Moving(S') = 0
  BY <1>1, PollingLawful, CallsAre DEF Moving
<1> QED
  BY <1>1, <1>2, SenderKeeps

\* The answer is true when it is given.
LEMMA WriteReadyEndsKeeps == ASSUME SockInv, WriteReadyEnds PROVE SockInv'
<1>1. /\ sent' = sent /\ sendUnchanged' = sendUnchanged /\ sent \in Nat
      /\ S.op = "write_ready" /\ S.op \notin Transfers /\ S.at = "wait" /\ S.act = 0
  BY CallsAre DEF WriteReadyEnds, sendUnchanged, Transfers, Underway
<1>2. PICK r \in {0, 1} : S' = Answers(S, r) /\ (r = 1 => Writable)
  BY DEF WriteReadyEnds
<1>3. Lawful(S') /\ S'.at = "done" /\ S'.op = "write_ready" /\ S'.ret = r
  BY <1>1, <1>2, AnswersLawful, CallsAre
<1>4. Moving(S') = 0 /\ Moving(S) = 0
  BY <1>1, <1>3 DEF Moving
<1> QED
  BY <1>1, <1>2, <1>3, <1>4, SenderKeeps

\* The steps of tcp_send that move nothing: the call goes on or returns.
LEMMA SendStepsKeep ==
  ASSUME SockInv, SendAgain \/ SendFails \/ SendCheck \/ SendWaitEnds \/ SendFault PROVE SockInv'
<1>1. /\ sendUnchanged' = sendUnchanged /\ S.at # "done"
      /\ S.op = "send" /\ S.op \in Transfers /\ S.op \in Limited
  <2>1. sendUnchanged' = sendUnchanged
    BY DEF SendAgain, SendFails, SendCheck, SendWaitEnds, SendFault, sendUnchanged
  <2>2. S.at # "done" /\ (S.op = "send" \/ S.at # "wait")
    BY DEF SendAgain, SendFails, SendCheck, SendWaitEnds, SendFault
  <2>3. S.op = "send"
    BY <2>2, CallsAre DEF Underway, Transfers
  <2> QED
    BY <2>1, <2>2, <2>3 DEF Transfers, Limited
<1>2. /\ Lawful(S) /\ IsCall(S) /\ Underway(S) /\ now \in Nat /\ sent \in Nat
      /\ S.n > 0 /\ S.act + S.rest = S.n /\ S.act \in Nat /\ Moving(S) = S.act
  BY <1>1, CallsAre DEF Underway, IsCall, Moving
<1>3. ASSUME NEW c, Lawful(c), c.at # "done", c.op = S.op, c.act = S.act, S' = c, sent' = sent
      PROVE  SockInv'
  <2>1. Moving(S') = S.act
    BY <1>3 DEF Moving
  <2> QED
    BY <1>1, <1>2, <1>3, <2>1, SenderKeeps
<1>4. ASSUME NEW r \in {0, -1}, S_Done(Returns(S, r)) PROVE SockInv'
  <2>1. PICK c : c = Returns(S, r)
    OBVIOUS
  <2>2. Lawful(c) /\ c.at = "done" /\ c.op = S.op /\ c.act = S.act
    BY <1>1, <1>2, <2>1, ReturnsLawful
  <2>3. S' = c /\ sent' = sent + S.act
    BY <1>4, <2>1, <2>2 DEF S_Done
  <2>4. Moving(S') = 0
    BY <2>2, <2>3 DEF Moving
  <2> QED
    BY <1>1, <1>2, <2>2, <2>3, <2>4, SenderKeeps
<1>5. CASE SendAgain
  BY <1>1, <1>2, <1>3, <1>5, GoesOnLawful DEF SendAgain
<1>6. CASE SendFails
  BY <1>4, <1>6 DEF SendFails
<1>7. CASE SendCheck
  BY <1>1, <1>2, <1>3, <1>4, <1>7, WaitingLawful DEF SendCheck
<1>8. CASE SendWaitEnds
  BY <1>1, <1>2, <1>3, <1>4, <1>8, GoesOnLawful DEF SendWaitEnds
<1>9. CASE SendFault
  BY <1>4, <1>9 DEF SendFault
<1> QED
  BY <1>5, <1>6, <1>7, <1>8, <1>9

\* send takes k bytes: the kernel has them behind the others.
LEMMA SendSomeKeeps == ASSUME SockInv, NEW k \in 1..Room, SendSome(k) PROVE SockInv'
<1>0. k \in Nat /\ k > 0 /\ Room \in Nat
  BY SockAssumption
<1>1. /\ S.at = "io" /\ sock = "open" /\ k <= S.rest
      /\ sock' = sock /\ nonblock' = nonblock /\ listening' = listening /\ peer' = peer
      /\ now' = now /\ R' = R /\ rbuf' = rbuf /\ got' = got
      /\ wire' = wire \o [i \in 1..k |-> sent + S.pos + i]
  BY DEF SendSome
<1>2. /\ Lawful(S) /\ Underway(S) /\ S.op = "send" /\ S.pos = S.act /\ S.act \in Nat
      /\ sent \in Nat /\ Moving(S) = S.act
  BY <1>1, CallsAre DEF Underway, Transfers, IsCall, Moving
<1>3. PICK h \in Nat : h = sent + S.act
  BY <1>2
<1>4. /\ got \in Seq(Int) /\ rbuf \in Seq(Int) /\ wire \in Seq(Int)
      /\ InOneLine(got, rbuf, Moving(R), wire, h)
  BY <1>2, <1>3 DEF SockInv, SockType, Flow
<1>5. wire' = wire \o [i \in 1..k |-> h + i]
  <2>1. sent + S.pos = h
    BY <1>2, <1>3
  <2> QED
    BY <1>1, <2>1
<1>6. wire' \in Seq(Int) /\ InOneLine(got, rbuf, Moving(R), wire', h + k)
  <2>1. PICK g, b, a, w : g = got /\ b = rbuf /\ a = Moving(R) /\ w = wire
    OBVIOUS
  <2>2. PICK x : x = w \o [i \in 1..k |-> h + i]
    OBVIOUS
  <2>3. x \in Seq(Int) /\ InOneLine(g, b, a, x, h + k)
    <3>1. g \in Seq(Int) /\ b \in Seq(Int) /\ w \in Seq(Int) /\ InOneLine(g, b, a, w, h)
      BY <1>4, <2>1
    <3> QED
      BY <1>0, <1>3, <2>2, <3>1, LineSent
  <2>4. wire' = x
    BY <1>5, <2>1, <2>2
  <2> QED
    BY <2>1, <2>3, <2>4
<1>7. Len(wire') > 0
  <2>1. PICK s : s = [i \in 1..k |-> h + i]
    OBVIOUS
  <2>2. s \in Seq(Int) /\ Len(s) = k
    BY <1>0, <1>3, <2>1
  <2>3. PICK w \in Seq(Int) : w = wire
    BY <1>4
  <2>4. Len(w \o s) = Len(w) + Len(s)
    BY <2>2, <2>3, ConcatProperties
  <2>5. wire' = w \o s
    BY <1>5, <2>1, <2>3
  <2> QED
    BY <1>0, <2>2, <2>3, <2>4, <2>5
<1>8. PICK c : c = Moved(S, k)
  OBVIOUS
<1>9. /\ IsCall(c) /\ c.at = "io" /\ c.op = "send" /\ c.op \in Transfers
      /\ c.n > 0 /\ c.act = S.act + k /\ c.act + c.rest = c.n
      /\ c.rest # 0 => Lawful(c)
  BY <1>0, <1>1, <1>2, <1>8, MovedLawful
<1>10. /\ Lawful(S') /\ S'.op = "send"
       /\ sent' \in Nat /\ sent' + Moving(S') = h + k
  <2>1. CASE c.rest = 0
    <3>1. PICK d : d = Returns(c, 0)
      OBVIOUS
    <3>2. S' = d /\ sent' = sent + d.act
      BY <1>8, <2>1, <3>1 DEF SendSome, S_Done
    <3>3. Lawful(d) /\ d.at = "done" /\ d.op = "send" /\ d.act = S.act + k
      BY <1>9, <2>1, <3>1, ReturnsLawful
    <3> QED
      BY <1>0, <1>2, <1>3, <3>2, <3>3 DEF Moving
  <2>2. CASE c.rest # 0
    <3>1. S' = c /\ sent' = sent
      BY <1>8, <2>2 DEF SendSome
    <3> QED
      BY <1>0, <1>2, <1>3, <1>9, <2>2, <3>1 DEF Moving
  <2> QED
    BY <2>1, <2>2
<1>11. SockType'
  BY <1>1, <1>6, <1>10 DEF SockInv, SockType
<1>12. Flow'
  BY <1>1, <1>6, <1>10 DEF Flow
<1>13. ReadyTold'
  <2>1. wire' # <<>>
    BY <1>6, <1>7
  <2> QED
    BY <1>10, <2>1 DEF ReadyTold, Readable
<1> QED
  BY <1>11, <1>12, <1>13 DEF SockInv

\* A call of tcp_receive or tcp_nb_receive, that starts or is turned down
LEMMA RecvCallKeeps ==
  ASSUME SockInv, NEW op \in {"receive", "nb"}, NEW n \in Int, NEW w \in Int, RecvCall(op, n, w)
  PROVE  SockInv'
<1>1. /\ recvUnchanged' = recvUnchanged /\ R.at = "done" /\ wire' = wire /\ got' = got
      /\ rbuf' = [i \in 1..n |-> 0]
      /\ R' = IF n <= 0 THEN Refused(op, n) ELSE Started(op, n, w)
  BY DEF RecvCall, recvUnchanged
<1>2. op \in Transfers
  BY DEF Transfers
<1>3. /\ Lawful(R') /\ R'.op = op /\ Moving(R') = 0
      /\ R'.at # "done" => n > 0 /\ R'.n = n
  <2>1. CASE n <= 0
    BY <1>1, <1>2, <2>1, RefusedLawful DEF Moving
  <2>2. CASE n > 0
    BY <1>1, <1>2, <2>2, StartedLawful, CallsAre DEF Moving
  <2> QED
    BY <2>1, <2>2
<1>4. rbuf' \in Seq(Int) /\ (n > 0 => Len(rbuf') = n)
  <2>1. CASE n <= 0
    <3>1. rbuf' = <<>>
      <4>1. 1..n = {}
        BY <2>1
      <4> QED
        BY <1>1, <4>1
    <3> QED
      BY <2>1, <3>1
  <2>2. CASE n > 0
    <3>1. rbuf' \in [1..n -> Int] /\ n \in Nat
      BY <1>1, <2>2
    <3> QED
      BY <1>1, <3>1
  <2> QED
    BY <2>1, <2>2
<1>5. /\ got \in Seq(Int) /\ wire \in Seq(Int)
      /\ InOneLine(got, rbuf, 0, wire, sent + Moving(S))
  BY <1>1 DEF SockInv, SockType, Flow, Moving
<1>6. InOneLine(got', rbuf', Moving(R'), wire', sent + Moving(S))
  <2>1. 0 \in 0..Len(rbuf')
    BY <1>4
  <2> QED
    <3>1. PICK g, b, v, h : g = got /\ b = rbuf' /\ v = wire /\ h = sent + Moving(S)
      OBVIOUS
    <3>2. InOneLine(g, rbuf, 0, v, h) /\ 0 \in 0..Len(b)
      BY <1>5, <2>1, <3>1
    <3>3. InOneLine(g, b, 0, v, h)
      BY <3>2 DEF InOneLine
    <3> QED
      BY <1>1, <1>3, <3>1, <3>3
<1>7. got' \in Seq(Int) /\ wire' \in Seq(Int) /\ Len(wire') <= Len(wire)
  BY <1>1, <1>5
<1> QED
  BY <1>1, <1>3, <1>4, <1>6, <1>7, ReceiverKeeps

\* sock_read_ready
LEMMA ReadReadyKeeps ==
  ASSUME SockInv, NEW ms \in Int, ReadReady(ms) PROVE SockInv'
<1>1. /\ recvUnchanged' = recvUnchanged /\ R.at = "done" /\ wire' = wire /\ got' = got /\ rbuf' = rbuf
      /\ R' = Polling("read_ready", ms)
  BY DEF ReadReady, recvUnchanged
<1>2. Lawful(R') /\ R'.at = "wait" /\ R'.op = "read_ready" /\ Moving(R') = 0 /\ Moving(R) = 0
  BY <1>1, PollingLawful, CallsAre DEF Moving
<1>3. /\ got' \in Seq(Int) /\ rbuf' \in Seq(Int) /\ wire' \in Seq(Int) /\ Len(wire') <= Len(wire)
      /\ InOneLine(got', rbuf', Moving(R'), wire', sent + Moving(S))
  BY <1>1, <1>2 DEF SockInv, SockType, Flow
<1>4. R'.op \notin Transfers
  BY <1>2 DEF Transfers
<1> QED
  BY <1>1, <1>2, <1>3, <1>4, ReceiverKeeps

\* The answer is true when it is given.
LEMMA ReadReadyEndsKeeps == ASSUME SockInv, ReadReadyEnds PROVE SockInv'
<1>1. /\ recvUnchanged' = recvUnchanged /\ wire' = wire /\ got' = got /\ rbuf' = rbuf
      /\ R.op = "read_ready" /\ R.op \notin Transfers /\ R.at = "wait" /\ R.act = 0
  BY CallsAre DEF ReadReadyEnds, recvUnchanged, Transfers, Underway
<1>2. PICK r \in {0, 1} : R' = Answers(R, r) /\ (r = 1 => Readable)
  BY DEF ReadReadyEnds
<1>3. Lawful(R') /\ R'.at = "done" /\ R'.op = "read_ready" /\ R'.ret = r
  BY <1>1, <1>2, AnswersLawful, CallsAre
<1>4. Moving(R') = 0 /\ Moving(R) = 0
  BY <1>1, <1>3 DEF Moving
<1>5. /\ got' \in Seq(Int) /\ rbuf' \in Seq(Int) /\ wire' \in Seq(Int) /\ Len(wire') <= Len(wire)
      /\ InOneLine(got', rbuf', Moving(R'), wire', sent + Moving(S))
  BY <1>1, <1>4 DEF SockInv, SockType, Flow
<1> QED
  BY <1>1, <1>2, <1>3, <1>5, ReceiverKeeps

\* recv delivers k bytes behind those the call has.
LEMMA RecvSomeKeeps == ASSUME SockInv, NEW k \in 1..Room, RecvSome(k) PROVE SockInv'
<1>0. k \in Nat /\ k > 0
  BY SockAssumption
<1>1. /\ recvUnchanged' = recvUnchanged
      /\ R.at = "io" /\ k <= R.rest /\ k <= Len(wire)
      /\ wire' = SubSeq(wire, k + 1, Len(wire))
  BY DEF RecvSome, recvUnchanged
<1>2. /\ Lawful(R) /\ Underway(R) /\ R.op \in {"receive", "nb"} /\ R.op \in Transfers
      /\ R.pos = R.act /\ R.act \in Nat /\ R.rest \in Int /\ R.n \in Int /\ R.act + R.rest = R.n
      /\ Moving(R) = R.act
  BY <1>1, CallsAre DEF Underway, Transfers, IsCall, Moving
<1>3. /\ got \in Seq(Int) /\ rbuf \in Seq(Int) /\ wire \in Seq(Int) /\ Len(rbuf) = R.n
      /\ InOneLine(got, rbuf, R.act, wire, sent + Moving(S))
  BY <1>1, <1>2 DEF SockInv, SockType, Flow
<1>4. PICK f : f = Filled(k)
  OBVIOUS
<1>5. f = Behind(rbuf, R.act, wire, k)
  BY <1>2, <1>4 DEF Filled, Behind
<1>6. R.act + k <= Len(rbuf)
  BY <1>0, <1>1, <1>2, <1>3
<1>7. PICK v : v = wire'
  OBVIOUS
<1>8. /\ f \in Seq(Int) /\ Len(f) = Len(rbuf) /\ v \in Seq(Int)
      /\ InOneLine(got, f, R.act + k, v, sent + Moving(S))
  <2>1. PICK g, b, a, w, h : g = got /\ b = rbuf /\ a = R.act /\ w = wire /\ h = sent + Moving(S)
    OBVIOUS
  <2>2. g \in Seq(Int) /\ b \in Seq(Int) /\ w \in Seq(Int) /\ InOneLine(g, b, a, w, h)
    BY <1>3, <2>1
  <2>3. k \in Nat /\ k <= Len(w) /\ a + k <= Len(b)
    BY <1>0, <1>1, <1>6, <2>1
  <2>4. f = Behind(b, a, w, k) /\ v = SubSeq(w, k + 1, Len(w))
    BY <1>1, <1>5, <1>7, <2>1
  <2>5. f \in Seq(Int) /\ Len(f) = Len(b) /\ v \in Seq(Int) /\ InOneLine(g, f, a + k, v, h)
    BY <2>2, <2>3, <2>4, LineFilled
  <2> QED
    BY <2>1, <2>5
<1>9. PICK c : c = Moved(R, k)
  OBVIOUS
<1>10. /\ IsCall(c) /\ c.at = "io" /\ c.op = R.op /\ c.n = R.n /\ c.op \in Transfers
       /\ c.n > 0 /\ c.act = R.act + k /\ c.act + c.rest = c.n
       /\ c.rest # 0 => Lawful(c)
  BY <1>0, <1>1, <1>2, <1>9, MovedLawful
<1>11. Len(wire') <= Len(wire)
  <2>1. Len(wire') = Len(wire) - k
    BY <1>0, <1>1, <1>3
  <2> QED
    BY <1>0, <1>3, <2>1
<1>12. CASE c.rest # 0
  <2>1. R' = c /\ rbuf' = f /\ got' = got
    BY <1>4, <1>9, <1>12 DEF RecvSome
  <2>2. Moving(R') = R.act + k
    BY <1>10, <2>1 DEF Moving
  <2>3. InOneLine(got', rbuf', Moving(R'), wire', sent + Moving(S))
    BY <1>7, <1>8, <2>1, <2>2
  <2>4. /\ Lawful(R') /\ R'.op \in {"none", "receive", "nb", "read_ready"}
        /\ Len(rbuf') = R'.n /\ R'.at # "done"
    BY <1>2, <1>3, <1>8, <1>10, <1>12, <2>1
  <2>5. got' \in Seq(Int) /\ rbuf' \in Seq(Int) /\ wire' \in Seq(Int)
    BY <1>3, <1>7, <1>8, <2>1
  <2> QED
    BY <1>1, <1>11, <2>3, <2>4, <2>5, ReceiverKeeps
<1>13. CASE c.rest = 0
  <2>1. PICK d : d = Returns(c, 0)
    OBVIOUS
  <2>2. Lawful(d) /\ d.at = "done" /\ d.op = R.op /\ d.act = R.act + k
    BY <1>10, <1>13, <2>1, ReturnsLawful
  <2>3. R' = d /\ rbuf' = <<>> /\ got' = got \o SubSeq(f, 1, R.act + k)
    BY <1>4, <1>9, <1>13, <2>1, <2>2 DEF RecvSome, R_Done
  <2>4. Moving(R') = 0
    BY <2>2, <2>3 DEF Moving
  <2>5. <<>> \in Seq(Int)
    OBVIOUS
  <2>6. /\ got' \in Seq(Int) /\ rbuf' \in Seq(Int) /\ wire' \in Seq(Int)
        /\ InOneLine(got', rbuf', Moving(R'), wire', sent + Moving(S))
    BY <1>3, <1>7, <1>8, <2>3, <2>4, <2>5, LineTaken
  <2>7. /\ Lawful(R') /\ R'.op \in {"receive", "nb"} /\ R'.at = "done"
    BY <1>2, <2>2, <2>3
  <2> QED
    BY <1>1, <1>11, <2>6, <2>7, ReceiverKeeps
<1> QED
  BY <1>12, <1>13

\* The steps of a receive that take nothing from the kernel
LEMMA RecvStepsKeep ==
  ASSUME SockInv, RecvEnd \/ RecvAgain \/ NbAgain \/ RecvCheck \/ RecvWaitEnds \/ RecvFault
  PROVE  SockInv'
<1>1. /\ recvUnchanged' = recvUnchanged /\ wire' = wire /\ R.at # "done"
      /\ R.op \in {"receive", "nb"} /\ R.op \in Transfers
      /\ R.at \in {"check", "wait"} => R.op = "receive"
  <2>1. recvUnchanged' = recvUnchanged /\ wire' = wire
    BY DEF RecvEnd, RecvAgain, NbAgain, RecvCheck, RecvWaitEnds, RecvFault, recvUnchanged
  <2>2. R.at # "done" /\ (R.op \in {"receive", "nb"} \/ R.at # "wait")
    BY DEF RecvEnd, RecvAgain, NbAgain, RecvCheck, RecvWaitEnds, RecvFault
  <2>3. R.op \in {"receive", "nb"} /\ (R.at \in {"check", "wait"} => R.op = "receive")
    BY <2>2, CallsAre DEF Underway, Transfers
  <2> QED
    BY <2>1, <2>2, <2>3 DEF Transfers
<1>2. /\ Lawful(R) /\ IsCall(R) /\ Underway(R) /\ now \in Nat
      /\ R.n > 0 /\ R.act + R.rest = R.n /\ R.act \in Nat
  BY <1>1, CallsAre DEF Underway, IsCall
<1>3. ASSUME NEW r \in Int, R_Done(Returns(R, r), rbuf),
             r = -1 \/ (R.op # "nb" /\ r = 0) \/ (R.op = "nb" /\ r = R.act)
      PROVE  SockInv'
  <2>1. PICK c : c = Returns(R, r)
    OBVIOUS
  <2>2. Lawful(c) /\ c.at = "done" /\ c.op = R.op /\ c.act = R.act
    BY <1>1, <1>2, <1>3, <2>1, ReturnsLawful
  <2> QED
    BY <1>1, <1>3, <2>1, <2>2, ReceiverEnds
<1>4. CASE RecvEnd
  BY <1>3, <1>4 DEF RecvEnd
<1>5. CASE RecvAgain
  <2>1. PICK c : c = [R EXCEPT !.at = "check"]
    OBVIOUS
  <2>2. R_Goes(c) /\ R.op \in Limited
    BY <1>5, <2>1 DEF RecvAgain, Limited
  <2>3. Lawful(c) /\ c.at = "check" /\ c.op = R.op /\ c.act = R.act /\ c.n = R.n
    BY <1>1, <1>2, <2>1, <2>2, GoesOnLawful
  <2> QED
    BY <1>1, <2>2, <2>3, ReceiverGoes
<1>6. CASE NbAgain
  BY <1>2, <1>3, <1>6 DEF NbAgain
<1>7. CASE RecvCheck
  <2>1. CASE Due(R)
    BY <1>1, <1>3, <1>7, <2>1 DEF RecvCheck
  <2>2. CASE ~Due(R)
    <3>1. PICK c : c = Waiting(R)
      OBVIOUS
    <3>2. R_Goes(c) /\ R.at = "check"
      BY <1>7, <2>2, <3>1 DEF RecvCheck
    <3>3. Lawful(c) /\ c.at = "wait" /\ c.op = R.op /\ c.act = R.act /\ c.n = R.n
      BY <1>2, <2>2, <3>1, <3>2, WaitingLawful
    <3> QED
      BY <1>1, <3>2, <3>3, ReceiverGoes
  <2> QED
    BY <2>1, <2>2
<1>8. CASE RecvWaitEnds
  <2>1. CASE R_Goes([R EXCEPT !.at = "io"])
    <3>1. PICK c : c = [R EXCEPT !.at = "io"]
      OBVIOUS
    <3>2. Lawful(c) /\ c.at = "io" /\ c.op = R.op /\ c.act = R.act /\ c.n = R.n
      BY <1>1, <1>2, <3>1, GoesOnLawful
    <3> QED
      BY <1>1, <2>1, <3>1, <3>2, ReceiverGoes
  <2>2. CASE R_Done(Returns(R, 0), rbuf)
    BY <1>3, <1>8, <2>2 DEF RecvWaitEnds
  <2> QED
    BY <1>8, <2>1, <2>2 DEF RecvWaitEnds
<1>9. CASE RecvFault
  BY <1>3, <1>9 DEF RecvFault
<1> QED
  BY <1>4, <1>5, <1>6, <1>7, <1>8, <1>9

\* Before the first call nothing has moved.
LEMMA SockInitInv == SocketInit => SockInv
<1> SUFFICES ASSUME SocketInit PROVE SockInv
  OBVIOUS
<1>1. /\ wire = <<>> /\ now = 0 /\ S = Idle /\ R = Idle /\ sent = 0 /\ rbuf = <<>> /\ got = <<>>
      /\ peer = "none"
  BY DEF SocketInit
<1>2. /\ S.at = "done" /\ S.op = "none" /\ S.ep = FALSE /\ S.wait = 0 /\ S.ret = 0
      /\ R.at = "done" /\ R.op = "none" /\ R.ep = FALSE /\ R.wait = 0 /\ R.ret = 0
  BY <1>1 DEF Idle
<1>3. IsCall(S) /\ IsCall(R)
  BY <1>1 DEF IsCall, CallFields, Idle
<1>4. Lawful(S) /\ Lawful(R) /\ Moving(S) = 0 /\ Moving(R) = 0
  BY <1>2, <1>3 DEF Lawful, Told, Limited, Moving
<1>5. /\ <<>> \in Seq(Int) /\ Len(<<>>) = 0
  OBVIOUS
<1>6. SockType
  BY <1>1, <1>2, <1>4, <1>5 DEF SockType
<1>7. Flow
  BY <1>1, <1>4, <1>5 DEF Flow, InOneLine
<1>8. ReadyTold
  BY <1>2 DEF ReadyTold
<1> QED
  BY <1>6, <1>7, <1>8 DEF SockInv

\* The length of a call is a number, whatever is left to send.
LEMMA SmallerOf ==
  ASSUME NEW a \in Int, NEW b \in Int PROVE Min({a, b}) \in Int
<1>1. PICK m \in {a, b} : \A y \in {a, b} : m <= y
  <2>1. CASE a <= b
    BY <2>1
  <2>2. CASE b <= a
    BY <2>2
  <2> QED
    BY <2>1, <2>2
<1>2. Min({a, b}) \in {a, b}
  BY <1>1 DEF Min
<1> QED
  BY <1>2

\* Every step keeps the invariant.
LEMMA SockNextKeeps == SockInv /\ [Next]_sockVars => SockInv'
<1> SUFFICES ASSUME SockInv, [Next]_sockVars PROVE SockInv'
  OBVIOUS
<1>1. CASE UNCHANGED sockVars
  BY <1>1 DEF sockVars, SockInv, SockType, Flow, ReadyTold, Writable, Readable, Ended
<1>2. CASE SenderStep
  BY <1>2, SendSomeKeeps, SendStepsKeep, WriteReadyEndsKeeps DEF SenderStep
<1>3. CASE ReceiverStep
  BY <1>3, RecvSomeKeeps, RecvStepsKeep, ReadReadyEndsKeeps DEF ReceiverStep
<1>4. ASSUME NEW w \in Waits, NEW n \in Sizes, SendCall(Min({n, Total - sent}), w) PROVE SockInv'
  <2>1. w \in Int /\ n \in Int /\ Total - sent \in Int
    BY SockAssumption, CallsAre
  <2>2. PICK m : m = Min({n, Total - sent})
    OBVIOUS
  <2>3. m \in Int
    BY <2>1, <2>2, SmallerOf
  <2> QED
    BY <1>4, <2>1, <2>2, <2>3, SendCallKeeps
<1>5. ASSUME NEW w \in Waits, NEW n \in Sizes, RecvCall("receive", n, w) PROVE SockInv'
  BY <1>5, RecvCallKeeps, SockAssumption
<1>6. ASSUME NEW n \in Sizes, NbCall(n) PROVE SockInv'
  BY <1>6, RecvCallKeeps, SockAssumption DEF NbCall
<1>7. ASSUME NEW w \in Waits, ReadReady(w) \/ WriteReady(w) PROVE SockInv'
  BY <1>7, ReadReadyKeeps, WriteReadyKeeps, SockAssumption
<1>8. CASE SendFault \/ RecvFault
  BY <1>8, SendStepsKeep, RecvStepsKeep
<1> QED
  BY <1>1, <1>2, <1>3, <1>4, <1>5, <1>6, <1>7, <1>8, ConnectionKeeps DEF Next

\* No byte is lost, doubled or moved between the caller of tcp_send and the
\* caller of tcp_receive, and what the calls return is true, for any lengths,
\* limits and faults.
THEOREM StreamIsKept == Spec => []StreamKept
<1>1. SockInv => StreamKept
  <2> SUFFICES ASSUME SockInv PROVE StreamKept
    OBVIOUS
  <2>1. /\ got \in Seq(Int) /\ rbuf \in Seq(Int) /\ wire \in Seq(Int)
        /\ InOneLine(got, rbuf, Moving(R), wire, sent + Moving(S))
    BY DEF SockInv, SockType, Flow
  <2>2. got \o SubSeq(rbuf, 1, Moving(R)) \o wire = [i \in 1..(sent + Moving(S)) |-> i]
    BY <2>1, LineIsStream
  <2>3. \A c \in {S, R} : c.at = "done" =>
           /\ ~c.ep
           /\ c.op \in {"send", "receive"} /\ c.n > 0 => (c.ret = c.n <=> c.act = c.n) /\ c.ret \in {-1, 0, c.n}
           /\ c.op = "nb" => c.ret \in {-1, c.act}
    BY CallsAre DEF Lawful, Told, Limited
  <2> QED
    BY <2>2, <2>3 DEF StreamKept, Moving, SockInv, ReadyTold
<1> QED
  BY <1>1, SockInitInv, SockNextKeeps, PTL DEF Spec

\* However often a wait is cut short, and wherever the second changes, a call
\* with a limit waits that long, for every length of a second.
THEOREM WaitsAreInTime == Spec => []WaitsInTime
<1>1. SockInv => WaitsInTime
  <2> SUFFICES ASSUME SockInv, NEW c \in {S, R}, c.op \in {"send", "receive"}, c.wait > 0
               PROVE  /\ c.at = "wait" => c.until - c.start \in (2 * c.wait)..((2 * c.wait) + 1)
                      /\ c.at = "check" => (Due(c) <=> now - c.start >= 2 * c.wait)
    BY DEF WaitsInTime
  <2>1. IsCall(c) /\ now \in Nat /\ (c.at # "done" => Underway(c))
    BY CallsAre
  <2> QED
    BY <2>1, DueIs DEF Underway, Limited
<1> QED
  BY <1>1, SockInitInv, SockNextKeeps, PTL DEF Spec

-----------------------------------------------------------------------------
(* Functions by a table of steps, and induction over a set                 *)

\* Induction over the naturals, for a set instead of a predicate.
LEMMA SetInduction ==
  ASSUME NEW Vals, 0 \in Vals, \A n \in Nat : n \in Vals => n + 1 \in Vals
  PROVE  Nat \subseteq Vals
<1> DEFINE T == Nat \ Vals
<1> SUFFICES ASSUME T # {} PROVE FALSE
  OBVIOUS
<1>1. PICK x \in T : \A y \in T : ~(<<y, x>> \in OpToRel(<, Nat))
  BY NatLessThanWellFounded, WFMin, Zenon
<1>2. x \in Nat /\ x # 0 /\ x \notin Vals
  OBVIOUS
<1>3. x - 1 \in Nat /\ x - 1 < x /\ (x - 1) + 1 = x
  BY <1>2
<1>4. x - 1 \notin T
  BY <1>1, <1>2, <1>3 DEF OpToRel
<1> QED
  BY <1>2, <1>3, <1>4

\* A function on 0..n is determined by its first value and by a table of steps.
Stepwise(n, b, step, g) == g[0] = b /\ \A i \in 1..n : g[i] = step[<<i, g[i - 1]>>]
Definable(n, Vals, b, step) == \E g \in [0..n -> Vals] : Stepwise(n, b, step, g)

\* A table of steps has a function that follows it.
LEMMA StepsDefine ==
  ASSUME NEW n \in Nat, NEW Vals, NEW b \in Vals, NEW step \in [(1..n) \X Vals -> Vals]
  PROVE  Definable(n, Vals, b, step)
<1> DEFINE P == {m \in Nat : m <= n => \E g \in [0..m -> Vals] :
                               g[0] = b /\ \A i \in 1..m : g[i] = step[<<i, g[i - 1]>>]}
<1>1. 0 \in P
  <2>1. [i \in 0..0 |-> b] \in [0..0 -> Vals]
    OBVIOUS
  <2>2. [i \in 0..0 |-> b][0] = b /\ 1..0 = {}
    OBVIOUS
  <2> QED
    BY <2>1, <2>2
<1>2. ASSUME NEW m \in Nat, m \in P PROVE m + 1 \in P
  <2> SUFFICES ASSUME m + 1 <= n
               PROVE \E g \in [0..(m + 1) -> Vals] :
                       g[0] = b /\ \A i \in 1..(m + 1) : g[i] = step[<<i, g[i - 1]>>]
    OBVIOUS
  <2>1. PICK g \in [0..m -> Vals] : g[0] = b /\ \A i \in 1..m : g[i] = step[<<i, g[i - 1]>>]
    BY <1>2
  <2>2. m \in 0..m /\ m + 1 \in 1..n /\ g[m] \in Vals
    OBVIOUS
  <2>3. step[<<m + 1, g[m]>>] \in Vals
    BY <2>2
  <2> DEFINE h == [i \in 0..(m + 1) |-> IF i = m + 1 THEN step[<<m + 1, g[m]>>] ELSE g[i]]
  <2>4. h \in [0..(m + 1) -> Vals]
    <3>1. \A i \in 0..(m + 1) : i # m + 1 => i \in 0..m
      OBVIOUS
    <3> QED
      BY <2>3, <3>1
  <2>5. h[0] = b
    BY <2>1
  <2>6. ASSUME NEW i \in 1..(m + 1) PROVE h[i] = step[<<i, h[i - 1]>>]
    <3>1. i - 1 \in 0..(m + 1) /\ i - 1 # m + 1
      OBVIOUS
    <3>2. h[i - 1] = g[i - 1]
      BY <3>1
    <3>3. CASE i = m + 1
      <4>1. h[i] = step[<<m + 1, g[m]>>] /\ i - 1 = m
        BY <3>3
      <4> QED
        BY <3>2, <3>3, <4>1
    <3>4. CASE i # m + 1
      <4>1. i \in 1..m /\ h[i] = g[i]
        BY <3>4
      <4> QED
        BY <2>1, <3>2, <4>1
    <3> QED
      BY <3>3, <3>4
  <2> HIDE DEF h
  <2> QED
    BY <2>4, <2>5, <2>6
<1>3. Nat \subseteq P
  <2> HIDE DEF P
  <2> QED
    BY <1>1, <1>2, SetInduction
<1>4. n \in P
  BY <1>3
<1> QED
  BY <1>4 DEF Definable, Stepwise

\* A sequence of naturals has a greatest element, 0 if it has none other.
LEMMA HasGreatest ==
  ASSUME NEW n \in Nat, NEW g \in [1..n -> Nat]
  PROVE  \E m \in Nat : /\ m = 0 \/ \E i \in 1..n : g[i] = m
                        /\ \A i \in 1..n : g[i] <= m
<1> DEFINE P == {k \in Nat : k <= n => \E m \in Nat : /\ m = 0 \/ \E i \in 1..k : g[i] = m
                                                     /\ \A i \in 1..k : g[i] <= m}
<1>1. 0 \in P
  OBVIOUS
<1>2. ASSUME NEW k \in Nat, k \in P PROVE k + 1 \in P
  <2> SUFFICES ASSUME k + 1 <= n
               PROVE \E m \in Nat : /\ m = 0 \/ \E i \in 1..(k + 1) : g[i] = m
                                    /\ \A i \in 1..(k + 1) : g[i] <= m
    OBVIOUS
  <2>1. PICK m \in Nat : /\ m = 0 \/ \E i \in 1..k : g[i] = m
                         /\ \A i \in 1..k : g[i] <= m
    BY <1>2
  <2>2. g[k + 1] \in Nat /\ k + 1 \in 1..(k + 1)
    OBVIOUS
  <2>3. \A i \in 1..(k + 1) : i \in 1..k \/ i = k + 1
    OBVIOUS
  <2>4. \A i \in 1..k : i \in 1..(k + 1) /\ g[i] \in Nat
    OBVIOUS
  <2>5. CASE m <= g[k + 1]
    BY <2>1, <2>2, <2>3, <2>4, <2>5, SMTT(20)
  <2>6. CASE g[k + 1] <= m
    BY <2>1, <2>2, <2>3, <2>4, <2>6
  <2> QED
    BY <2>2, <2>5, <2>6
<1>3. n \in P
  <2> HIDE DEF P
  <2> QED
    BY <1>1, <1>2, SetInduction
<1> QED
  BY <1>3

\* An element appended to the second of two sequences.
AppendLast(s, t, x) == s \o Append(t, x) = Append(s \o t, x)

\* Appending to a sequence appends to what it is the end of.
LEMMA ConcatAppend ==
  ASSUME NEW Vals, NEW s \in Seq(Vals), NEW t \in Seq(Vals), NEW x \in Vals
  PROVE  AppendLast(s, t, x)
<1> DEFINE a == s \o Append(t, x)
           b == Append(s \o t, x)
<1>1. /\ Append(t, x) \in Seq(Vals) /\ Len(Append(t, x)) = Len(t) + 1
      /\ \A i \in 1..Len(t) : Append(t, x)[i] = t[i]
      /\ Append(t, x)[Len(t) + 1] = x
  BY AppendProperties
<1>2. /\ s \o t \in Seq(Vals) /\ Len(s \o t) = Len(s) + Len(t) /\ Len(s) \in Nat /\ Len(t) \in Nat
      /\ \A i \in 1..(Len(s) + Len(t)) : (s \o t)[i] = IF i <= Len(s) THEN s[i] ELSE t[i - Len(s)]
  BY ConcatProperties, LenProperties
<1>3. /\ a \in Seq(Vals) /\ Len(a) = Len(s) + Len(t) + 1
      /\ \A i \in 1..(Len(s) + Len(t) + 1) :
            a[i] = IF i <= Len(s) THEN s[i] ELSE Append(t, x)[i - Len(s)]
  BY <1>1, <1>2, ConcatProperties
<1>4. /\ b \in Seq(Vals) /\ Len(b) = Len(s) + Len(t) + 1
      /\ \A i \in 1..(Len(s) + Len(t)) : b[i] = (s \o t)[i]
      /\ b[Len(s) + Len(t) + 1] = x
  BY <1>2, AppendProperties
<1>5. ASSUME NEW i \in 1..(Len(s) + Len(t) + 1) PROVE a[i] = b[i]
  <2> HIDE DEF a, b
  <2>1. CASE i <= Len(s)
    <3>1. i \in 1..(Len(s) + Len(t))
      BY <1>2, <2>1
    <3>2. a[i] = s[i] /\ (s \o t)[i] = s[i] /\ b[i] = (s \o t)[i]
      BY <1>2, <1>3, <1>4, <2>1, <3>1
    <3> QED
      BY <3>2
  <2>2. CASE i > Len(s) /\ i <= Len(s) + Len(t)
    <3>1. i \in 1..(Len(s) + Len(t)) /\ ~(i <= Len(s)) /\ i - Len(s) \in 1..Len(t)
      BY <1>2, <2>2
    <3>2. a[i] = Append(t, x)[i - Len(s)]
      BY <1>3, <3>1
    <3>3. Append(t, x)[i - Len(s)] = t[i - Len(s)]
      BY <1>1, <3>1
    <3>4. b[i] = (s \o t)[i] /\ (s \o t)[i] = t[i - Len(s)]
      BY <1>2, <1>4, <3>1
    <3> QED
      BY <3>2, <3>3, <3>4
  <2>3. CASE i = Len(s) + Len(t) + 1
    <3>1. ~(i <= Len(s)) /\ i - Len(s) = Len(t) + 1
      BY <1>2, <2>3
    <3>2. a[i] = Append(t, x)[i - Len(s)]
      BY <1>3, <3>1
    <3>3. a[i] = x
      BY <1>1, <3>1, <3>2
    <3>4. b[i] = x
      BY <1>4, <2>3
    <3> QED
      BY <3>3, <3>4
  <2> QED
    BY <1>2, <2>1, <2>2, <2>3, SMTT(20)
<1> HIDE DEF a, b
<1>6. a = b
  BY <1>2, <1>3, <1>4, <1>5, SeqEqual
<1> QED
  BY <1>6 DEF a, b, AppendLast

-----------------------------------------------------------------------------
(* FlattenSeq: the logs one after the other                                *)

\* FlattenSeq joins from left to right.
Joining(n, seqs, g) == /\ g[0] = <<>>
                       /\ \A i \in 1..n : g[i] = g[i - 1] \o seqs[i]
                       /\ FlattenSeq(seqs) = g[n]
Joinable(n, Vals, seqs) == \E g \in [0..n -> Seq(Vals)] : Joining(n, seqs, g)

\* A FlattenSeq is what joining one sequence after the other gives.
LEMMA FlattenSteps ==
  ASSUME NEW n \in Nat, NEW Vals, NEW seqs \in [1..n -> Seq(Vals)]
  PROVE  Joinable(n, Vals, seqs)
<1> DEFINE step == [p \in (1..n) \X Seq(Vals) |-> p[2] \o seqs[p[1]]]
<1>1. step \in [(1..n) \X Seq(Vals) -> Seq(Vals)]
  <2>1. \A p \in (1..n) \X Seq(Vals) : p[2] \in Seq(Vals) /\ seqs[p[1]] \in Seq(Vals)
    OBVIOUS
  <2>2. \A p \in (1..n) \X Seq(Vals) : p[2] \o seqs[p[1]] \in Seq(Vals)
    BY <2>1, ConcatProperties
  <2> QED
    BY <2>2
<1>2. <<>> \in Seq(Vals)
  OBVIOUS
<1>3. PICK g \in [0..n -> Seq(Vals)] : g[0] = <<>> /\ \A i \in 1..n : g[i] = step[<<i, g[i - 1]>>]
  <2> HIDE DEF step
  <2>1. Definable(n, Seq(Vals), <<>>, step)
    BY <1>1, <1>2, StepsDefine
  <2> QED
    BY <2>1 DEF Definable, Stepwise
<1>4. \A i \in 1..n : g[i] = g[i - 1] \o seqs[i]
  <2>1. \A i \in 1..n : i - 1 \in 0..n
    OBVIOUS
  <2>2. \A i \in 1..n : <<i, g[i - 1]>> \in (1..n) \X Seq(Vals)
    BY <2>1
  <2>3. \A i \in 1..n : step[<<i, g[i - 1]>>] = g[i - 1] \o seqs[i]
    BY <2>2
  <2> QED
    BY <1>3, <2>3
<1> HIDE DEF step
<1>5. Len(seqs) = n /\ DOMAIN seqs = 1..n
  <2>1. seqs \in Seq(Seq(Vals))
    BY SeqDef
  <2> QED
    BY <2>1, LenProperties
<1>6. CASE n = 0
  <2>1. seqs = <<>>
    BY <1>6
  <2>2. FlattenSeq(seqs) = <<>>
    BY <1>5, <1>6, <2>1 DEF FlattenSeq
  <2> QED
    BY <1>3, <1>4, <1>6, <2>2 DEF Joinable, Joining
<1>7. CASE n # 0
  <2> DEFINE F(f) == f = [i \in 1..Len(seqs) |-> IF i = 1 THEN seqs[i] ELSE f[i - 1] \o seqs[i]]
             f == CHOOSE h : F(h)
  <2>1. FlattenSeq(seqs) = f[Len(seqs)]
    BY <1>5, <1>7 DEF FlattenSeq
  <2>2. F([i \in 1..n |-> g[i]])
    <3> DEFINE h == [i \in 1..n |-> g[i]]
    <3>1. \A i \in 1..n : i # 1 => i - 1 \in 1..n
      OBVIOUS
    <3>2. \A i \in 1..n : i # 1 => h[i - 1] = g[i - 1]
      BY <3>1
    <3>3. 1 \in 1..n /\ g[1] = seqs[1]
      <4>1. 1 \in 1..n
        BY <1>7
      <4>2. g[1] = g[0] \o seqs[1]
        BY <1>4, <4>1, SMTT(20)
      <4>3. seqs[1] \in Seq(Vals)
        BY <4>1
      <4> QED
        BY <1>3, <4>1, <4>2, <4>3, ConcatEmptySeq
    <3>4. \A i \in 1..n : g[i] = IF i = 1 THEN seqs[i] ELSE h[i - 1] \o seqs[i]
      BY <1>4, <3>2, <3>3
    <3> QED
      BY <1>5, <3>4
  <2>3. F(f)
    BY <2>2, Zenon
  <2> HIDE DEF f
  <2> DEFINE P == {i \in Nat : i + 1 <= n => f[i + 1] = g[i + 1]}
  <2>4. 0 \in P
    <3>1. 1 \in 1..n
      BY <1>7
    <3>2. f[1] = seqs[1]
      BY <1>5, <2>3, <3>1
    <3>3. g[1] = g[0] \o seqs[1] /\ seqs[1] \in Seq(Vals)
      BY <1>4, <3>1, SMTT(20)
    <3>4. g[1] = seqs[1]
      BY <1>3, <3>3, ConcatEmptySeq
    <3> QED
      BY <3>2, <3>4
  <2>5. ASSUME NEW i \in Nat, i \in P PROVE i + 1 \in P
    <3> SUFFICES ASSUME i + 2 <= n PROVE f[i + 2] = g[i + 2]
      BY DEF P
    <3>1. i + 2 \in 1..n /\ i + 2 # 1 /\ (i + 2) - 1 = i + 1
      OBVIOUS
    <3>2. f[i + 2] = f[i + 1] \o seqs[i + 2]
      BY <1>5, <2>3, <3>1
    <3>3. g[i + 2] = g[i + 1] \o seqs[i + 2]
      BY <1>4, <3>1
    <3>4. f[i + 1] = g[i + 1]
      BY <2>5
    <3> QED
      BY <3>2, <3>3, <3>4
  <2>6. Nat \subseteq P
    <3> HIDE DEF P
    <3> QED
      BY <2>4, <2>5, SetInduction
  <2>7. f[n] = g[n]
    <3>1. n - 1 \in Nat /\ (n - 1) + 1 = n
      BY <1>7
    <3>2. n - 1 \in P
      BY <2>6, <3>1
    <3> QED
      BY <3>1, <3>2
  <2> QED
    BY <1>3, <1>4, <1>5, <2>1, <2>7 DEF Joinable, Joining
<1> QED
  BY <1>6, <1>7 DEF Joinable, Joining

\* A record appended to the newest of several files is the last of them all.
FlattenGrows(Vals, seqs, seqs2, x) ==
    FlattenSeq(seqs) \in Seq(Vals) /\ FlattenSeq(seqs2) = Append(FlattenSeq(seqs), x)

\* An element at the end of the last sequence that is not empty is the last of all.
LEMMA FlattenAppend ==
  ASSUME NEW n \in Nat, NEW Vals, NEW seqs \in [1..n -> Seq(Vals)], NEW seqs2 \in [1..n -> Seq(Vals)],
         NEW c \in 1..n, NEW x \in Vals, seqs2[c] = Append(seqs[c], x),
         \A i \in 1..n : i # c => seqs2[i] = seqs[i],
         \A i \in 1..n : i > c => seqs[i] = <<>>
  PROVE  FlattenGrows(Vals, seqs, seqs2, x)
<1>1. PICK g \in [0..n -> Seq(Vals)] : Joining(n, seqs, g)
  <2>1. Joinable(n, Vals, seqs)
    BY FlattenSteps
  <2> QED
    BY <2>1 DEF Joinable
<1>2. PICK h \in [0..n -> Seq(Vals)] : Joining(n, seqs2, h)
  <2>1. Joinable(n, Vals, seqs2)
    BY FlattenSteps
  <2> QED
    BY <2>1 DEF Joinable
<1> DEFINE P == {i \in Nat : i <= n => h[i] = IF i < c THEN g[i] ELSE Append(g[i], x)}
<1>3. 0 \in P
  BY <1>1, <1>2 DEF Joining
<1>4. ASSUME NEW i \in Nat, i \in P PROVE i + 1 \in P
  <2> SUFFICES ASSUME i + 1 <= n
               PROVE h[i + 1] = IF i + 1 < c THEN g[i + 1] ELSE Append(g[i + 1], x)
    BY DEF P
  <2>1. i + 1 \in 1..n /\ (i + 1) - 1 = i /\ i \in 0..n
    OBVIOUS
  <2>2. g[i + 1] = g[i] \o seqs[i + 1] /\ h[i + 1] = h[i] \o seqs2[i + 1]
    BY <1>1, <1>2, <2>1 DEF Joining
  <2>3. g[i] \in Seq(Vals) /\ seqs[i + 1] \in Seq(Vals)
    BY <2>1
  <2>8. h[i] = IF i < c THEN g[i] ELSE Append(g[i], x)
    BY <1>4, <2>1, SMTT(20)
  <2>4. CASE i + 1 < c
    <3>1. i < c /\ i + 1 # c
      BY <2>4
    <3>2. seqs2[i + 1] = seqs[i + 1]
      BY <2>1, <3>1
    <3> QED
      BY <2>2, <2>3, <2>4, <2>8, <3>1, <3>2
  <2>5. CASE i + 1 = c
    <3>1. i < c
      BY <2>5
    <3>2. h[i + 1] = g[i] \o Append(seqs[i + 1], x)
      BY <2>2, <2>3, <2>5, <2>8, <3>1
    <3>3. g[i] \o Append(seqs[i + 1], x) = Append(g[i] \o seqs[i + 1], x)
      <4> DEFINE u == g[i]
                 v == seqs[i + 1]
      <4>1. u \in Seq(Vals) /\ v \in Seq(Vals)
        BY <2>3
      <4> HIDE DEF u, v, P
      <4>2. u \o Append(v, x) = Append(u \o v, x)
        <5>1. AppendLast(u, v, x)
          BY <4>1, ConcatAppend
        <5> QED
          BY <5>1 DEF AppendLast
      <4> QED
        BY <4>2 DEF u, v
    <3>4. h[i + 1] = Append(g[i + 1], x)
      BY <2>2, <3>2, <3>3
    <3>5. ~(i + 1 < c)
      BY <2>5
    <3> QED
      BY <3>4, <3>5
  <2>6. CASE i + 1 > c
    <3>1. ~(i < c) /\ ~(i + 1 < c) /\ i + 1 # c
      BY <2>6
    <3>2. seqs2[i + 1] = seqs[i + 1] /\ seqs[i + 1] = <<>>
      BY <2>1, <2>6, <3>1
    <3>3. Append(g[i], x) \in Seq(Vals)
      BY <2>3, AppendProperties
    <3>4. g[i + 1] = g[i] /\ h[i + 1] = h[i]
      BY <2>2, <2>3, <2>8, <3>1, <3>2, <3>3, ConcatEmptySeq
    <3> QED
      BY <2>3, <2>8, <3>1, <3>4
  <2> QED
    BY <2>1, <2>4, <2>5, <2>6
<1>5. Nat \subseteq P
  <2> HIDE DEF P
  <2> QED
    BY <1>3, <1>4, SetInduction
<1>6. h[n] = Append(g[n], x)
  <2>1. n \in P
    <3> HIDE DEF P
    <3> QED
      BY <1>5
  <2>2. ~(n < c)
    OBVIOUS
  <2> QED
    BY <2>1, <2>2
<1> QED
  BY <1>1, <1>2, <1>6 DEF Joining, FlattenGrows

\* Files without records hold no record.
LEMMA FlattenEmpty ==
  ASSUME NEW n \in Nat, NEW Vals, NEW seqs \in [1..n -> Seq(Vals)], \A i \in 1..n : seqs[i] = <<>>
  PROVE  FlattenSeq(seqs) = <<>>
<1>1. PICK g \in [0..n -> Seq(Vals)] : Joining(n, seqs, g)
  <2>1. Joinable(n, Vals, seqs)
    BY FlattenSteps
  <2> QED
    BY <2>1 DEF Joinable
<1> DEFINE P == {i \in Nat : i <= n => g[i] = <<>>}
<1>2. 0 \in P
  BY <1>1 DEF Joining
<1>3. ASSUME NEW i \in Nat, i \in P PROVE i + 1 \in P
  <2> SUFFICES ASSUME i + 1 <= n PROVE g[i + 1] = <<>>
    BY DEF P
  <2>1. i + 1 \in 1..n /\ (i + 1) - 1 = i
    OBVIOUS
  <2>2. g[i + 1] = g[i] \o seqs[i + 1] /\ seqs[i + 1] = <<>>
    <3>1. \A j \in 1..n : g[j] = g[j - 1] \o seqs[j]
      BY <1>1 DEF Joining
    <3> QED
      BY <2>1, <3>1
  <2>4. g[i] = <<>>
    BY <1>3, <2>1
  <2>3. <<>> \o <<>> = <<>>
    BY ConcatEmptySeq
  <2> QED
    BY <2>2, <2>3, <2>4
<1>4. Nat \subseteq P
  <2> HIDE DEF P
  <2> QED
    BY <1>2, <1>3, SetInduction
<1>5. n \in P
  <2> HIDE DEF P
  <2> QED
    BY <1>4
<1> QED
  BY <1>1, <1>5 DEF Joining

-----------------------------------------------------------------------------
(* Records, and the erasing of a task                                      *)

Record == [file : Nat, op : Op]
DumpNames == [log_id : Nat, op_id : Nat]

DistinctIds(s) == \A k, l \in 1..Len(s) : k # l => s[k].id # s[l].id

\* Erasing the k-th task.
Erased(s, k, r) ==
    /\ r \in Seq(Op)
    /\ Len(r) = Len(s) - 1
    /\ \A i \in 1..(Len(s) - 1) : r[i] = IF i < k THEN s[i] ELSE s[i + 1]

\* RemoveAt takes out one task and leaves the others in their order.
LEMMA RemoveAtErases ==
  ASSUME NEW s \in Seq(Op), NEW k \in 1..Len(s)
  PROVE  Erased(s, k, RemoveAt(s, k))
<1> DEFINE a == SubSeq(s, 1, k - 1)
           b == SubSeq(s, k + 1, Len(s))
<1>1. Len(s) \in Nat /\ k \in Nat /\ k >= 1 /\ \A i \in 1..Len(s) : s[i] \in Op
  BY LenProperties, ElementOfSeq
<1>2. /\ a \in Seq(Op) /\ Len(a) = k - 1
      /\ \A i \in 1..(k - 1) : a[i] = s[i]
  <2>1. \A i \in 1..(k - 1) : s[i] \in Op
    BY <1>1
  <2>2. Len(a) = k - 1 /\ \A i \in 1..(k - 1) : a[i] = s[1 + i - 1]
    BY <1>1, <2>1, SubSeqProperties
  <2>3. \A i \in 1..(k - 1) : 1 + i - 1 = i
    BY <1>1
  <2>4. a \in Seq(Op)
    BY <1>1, <2>1, SubSeqProperties
  <2> QED
    BY <2>2, <2>3, <2>4
<1>3. /\ b \in Seq(Op) /\ Len(b) = Len(s) - k
      /\ \A i \in 1..(Len(s) - k) : b[i] = s[k + i]
  <2>1. \A i \in (k + 1)..Len(s) : s[i] \in Op
    BY <1>1
  <2>2. k + 1 \in Int /\ Len(s) \in Int
    BY <1>1
  <2>3. b \in Seq(Op)
    BY <2>1, <2>2, SubSeqProperties
  <2>4. Len(b) = (IF k + 1 <= Len(s) + 1 THEN Len(s) - (k + 1) + 1 ELSE 0)
    BY <2>1, <2>2, SubSeqProperties
  <2>5. \A i \in 1..(Len(s) - (k + 1) + 1) : b[i] = s[(k + 1) + i - 1]
    BY <2>1, <2>2, SubSeqProperties
  <2>6. k + 1 <= Len(s) + 1 /\ Len(s) - (k + 1) + 1 = Len(s) - k
    BY <1>1
  <2>7. \A i \in 1..(Len(s) - k) : (k + 1) + i - 1 = k + i
    BY <1>1
  <2> QED
    BY <2>3, <2>4, <2>5, <2>6, <2>7, Zenon
<1>4. RemoveAt(s, k) = a \o b
  BY DEF RemoveAt
<1> DEFINE r == a \o b
<1> HIDE DEF a, b
<1>5. /\ r \in Seq(Op) /\ Len(r) = Len(s) - 1
      /\ \A i \in 1..(Len(s) - 1) : r[i] = IF i <= k - 1 THEN a[i] ELSE b[i - (k - 1)]
  <2>1. /\ r \in Seq(Op) /\ Len(r) = Len(a) + Len(b)
        /\ \A i \in 1..(Len(a) + Len(b)) : r[i] = IF i <= Len(a) THEN a[i] ELSE b[i - Len(a)]
    BY <1>2, <1>3, ConcatProperties
  <2>2. Len(a) + Len(b) = Len(s) - 1
    BY <1>1, <1>2, <1>3
  <2> QED
    BY <1>2, <2>1, <2>2
<1> HIDE DEF r
<1>6. ASSUME NEW i \in 1..(Len(s) - 1) PROVE r[i] = IF i < k THEN s[i] ELSE s[i + 1]
  <2>1. CASE i < k
    <3>1. i <= k - 1 /\ i \in 1..(k - 1)
      BY <1>1, <2>1
    <3>2. r[i] = a[i] /\ a[i] = s[i]
      BY <1>2, <1>5, <3>1
    <3> QED
      BY <2>1, <3>2
  <2>2. CASE ~(i < k)
    <3>1. ~(i <= k - 1) /\ i - (k - 1) \in 1..(Len(s) - k) /\ k + (i - (k - 1)) = i + 1
      BY <1>1, <2>2
    <3>2. r[i] = b[i - (k - 1)]
      BY <1>5, <3>1
    <3>3. b[i - (k - 1)] = s[k + (i - (k - 1))]
      BY <1>3, <3>1
    <3> QED
      BY <2>2, <3>1, <3>2, <3>3
  <2> QED
    BY <2>1, <2>2
<1> QED
  BY <1>4, <1>5, <1>6 DEF Erased, r

\* del_task erases the first task with the id, if there is one.
FirstWith(s, o, k) == s[k].id = o.id /\ \A i \in 1..Len(s) : s[i].id = o.id => k <= i

\* del_task erases the first task with the id, or nothing when there is none.
LEMMA DelTaskErases ==
  ASSUME NEW s \in Seq(Op), NEW o \in Op
  PROVE  \/ DelTask(s, o) = s /\ \A i \in 1..Len(s) : s[i].id # o.id
         \/ \E k \in 1..Len(s) : FirstWith(s, o, k) /\ Erased(s, k, DelTask(s, o))
<1> DEFINE I == {i \in 1..Len(s) : s[i].id = o.id}
<1>1. Len(s) \in Nat
  BY LenProperties
<1>2. CASE I = {}
  <2>1. ~(\E i \in 1..Len(s) : s[i].id = o.id)
    BY <1>2
  <2> QED
    BY <2>1 DEF DelTask, RemoveFirstMatch
<1>3. CASE I # {}
  <2>1. \E i \in 1..Len(s) : s[i].id = o.id
    BY <1>3
  <2>2. DelTask(s, o) = RemoveAt(s, Min(I))
    BY <1>3, <2>1 DEF DelTask, RemoveFirstMatch, SelectInSeq
  <2>3. \E k \in I : \A i \in I : k <= i
    <3>1. I \subseteq Nat
      BY <1>1
    <3>2. PICK k \in I : \A i \in I : ~(<<i, k>> \in OpToRel(<, Nat))
      <4> HIDE DEF I
      <4> QED
        BY <1>3, <3>1, NatLessThanWellFounded, WFMin, Zenon
    <3>3. \A i \in I : ~(i < k)
      <4> HIDE DEF I
      <4> QED
        BY <3>1, <3>2 DEF OpToRel
    <3> HIDE DEF I
    <3>4. k \in Nat /\ \A i \in I : i \in Nat /\ k <= i
      BY <3>1, <3>3
    <3> QED
      BY <3>4
  <2>4. PICK k \in I : Min(I) = k /\ \A i \in I : k <= i
    <3> HIDE DEF I
    <3>1. Min(I) \in I /\ \A i \in I : Min(I) <= i
      BY <2>3 DEF Min
    <3> QED
      BY <3>1
  <2>5. k \in 1..Len(s) /\ FirstWith(s, o, k)
    BY <2>4 DEF FirstWith
  <2>6. Erased(s, k, DelTask(s, o))
    BY <2>2, <2>4, <2>5, RemoveAtErases
  <2> QED
    BY <2>5, <2>6
<1> QED
  BY <1>2, <1>3

-----------------------------------------------------------------------------
(* What a start loads                                                      *)

\* A start's loop over the records, one at a time.
Loads(disk, dump, g) ==
    /\ g[0] = <<>>
    /\ \A i \in 1..Len(disk) : g[i] = IF IsRead(dump, disk[i]) THEN Replay(g[i - 1], disk[i].op)
                                      ELSE g[i - 1]
    /\ ReplayOf(disk, dump) = g[Len(disk)]
Loadable(disk, dump) == \E g \in [0..Len(disk) -> Seq(Op)] : Loads(disk, dump, g)

\* A record turns a sequence of tasks into one.
LEMMA ReplayTyped ==
  ASSUME NEW s \in Seq(Op), NEW o \in Op
  PROVE  Replay(s, o) \in Seq(Op)
<1>1. DelTask(s, o) \in Seq(Op)
  <2>1. CASE DelTask(s, o) = s
    BY <2>1
  <2>2. CASE \E k \in 1..Len(s) : Erased(s, k, DelTask(s, o))
    BY <2>2 DEF Erased
  <2> QED
    BY <2>1, <2>2, DelTaskErases
<1>2. Append(s, o) \in Seq(Op)
  BY AppendProperties
<1> QED
  BY <1>1, <1>2 DEF Replay

\* What a start loads is what one record after the other makes of nothing.
LEMMA ReplayLoads ==
  ASSUME NEW disk \in Seq(Record), NEW dump \in DumpNames
  PROVE  Loadable(disk, dump)
<1> DEFINE n == Len(disk)
           step == [p \in (1..n) \X Seq(Op) |->
                        IF IsRead(dump, disk[p[1]]) THEN Replay(p[2], disk[p[1]].op) ELSE p[2]]
<1>1. n \in Nat /\ \A i \in 1..n : disk[i].op \in Op
  <2>1. n \in Nat /\ \A i \in 1..n : disk[i] \in Record
    BY LenProperties, ElementOfSeq
  <2> QED
    BY <2>1 DEF Record
<1>2. step \in [(1..n) \X Seq(Op) -> Seq(Op)]
  <2>1. ASSUME NEW p \in (1..n) \X Seq(Op)
        PROVE (IF IsRead(dump, disk[p[1]]) THEN Replay(p[2], disk[p[1]].op) ELSE p[2]) \in Seq(Op)
    <3>1. p[1] \in 1..n /\ p[2] \in Seq(Op)
      OBVIOUS
    <3>2. Replay(p[2], disk[p[1]].op) \in Seq(Op)
      BY <1>1, <3>1, ReplayTyped
    <3> QED
      BY <3>1, <3>2
  <2> QED
    BY <2>1
<1>3. <<>> \in Seq(Op)
  OBVIOUS
<1>4. Definable(n, Seq(Op), <<>>, step)
  <2> HIDE DEF step, n
  <2> QED
    BY <1>1, <1>2, <1>3, StepsDefine
<1>5. PICK g \in [0..n -> Seq(Op)] : g[0] = <<>> /\ \A i \in 1..n : g[i] = step[<<i, g[i - 1]>>]
  <2> HIDE DEF step, n
  <2> QED
    BY <1>4 DEF Definable, Stepwise
<1>6. \A i \in 1..n : g[i] = IF IsRead(dump, disk[i]) THEN Replay(g[i - 1], disk[i].op)
                             ELSE g[i - 1]
  <2>1. \A i \in 1..n : i - 1 \in 0..n
    BY <1>1
  <2>2. \A i \in 1..n : <<i, g[i - 1]>> \in (1..n) \X Seq(Op)
    BY <2>1
  <2>3. \A i \in 1..n : step[<<i, g[i - 1]>>] =
                           IF IsRead(dump, disk[i]) THEN Replay(g[i - 1], disk[i].op) ELSE g[i - 1]
    BY <2>2
  <2> QED
    BY <1>5, <2>3
<1> HIDE DEF step
<1> DEFINE F(f) == f = [i \in 0..Len(disk) |->
                          IF i = 0 THEN <<>>
                          ELSE IF IsRead(dump, disk[i]) THEN Replay(f[i - 1], disk[i].op)
                          ELSE f[i - 1]]
           f == CHOOSE h : F(h)
<1>7. ReplayOf(disk, dump) = f[Len(disk)]
  BY DEF ReplayOf
<1>8. F(g)
  <2>1. \A i \in 0..n : i # 0 => i \in 1..n
    BY <1>1
  <2>2. \A i \in 0..n : g[i] = IF i = 0 THEN <<>>
                               ELSE IF IsRead(dump, disk[i]) THEN Replay(g[i - 1], disk[i].op)
                               ELSE g[i - 1]
    BY <1>5, <1>6, <2>1
  <2> QED
    BY <2>2
<1>9. F(f)
  BY <1>8
<1> HIDE DEF f
<1> DEFINE P == {i \in Nat : i <= n => f[i] = g[i]}
<1>10. 0 \in P
  BY <1>1, <1>5, <1>9
<1>11. ASSUME NEW i \in Nat, i \in P PROVE i + 1 \in P
  <2> SUFFICES ASSUME i + 1 <= n PROVE f[i + 1] = g[i + 1]
    BY DEF P
  <2>1. i + 1 \in 0..n /\ i + 1 \in 1..n /\ i + 1 # 0 /\ (i + 1) - 1 = i
    BY <1>1
  <2>2. f[i] = g[i]
    BY <1>1, <1>11
  <2>3. f[i + 1] = IF IsRead(dump, disk[i + 1]) THEN Replay(f[i], disk[i + 1].op) ELSE f[i]
    BY <1>9, <2>1
  <2>4. g[i + 1] = IF IsRead(dump, disk[i + 1]) THEN Replay(g[i], disk[i + 1].op) ELSE g[i]
    BY <1>6, <2>1
  <2> QED
    BY <2>2, <2>3, <2>4
<1>12. n \in P
  <2>1. Nat \subseteq P
    <3> HIDE DEF P
    <3> QED
      BY <1>10, <1>11, SetInduction
  <2> HIDE DEF P
  <2> QED
    BY <1>1, <2>1
<1>13. f[n] = g[n]
  BY <1>1, <1>12
<1> QED
  BY <1>5, <1>6, <1>7, <1>13 DEF Loadable, Loads

\* A task is kept by the first m records when it is in one of them that is read
\* and no later one that is read deletes it.
IsAdd(r) == r.op.cmd = "ADD"
IsDel(r) == r.op.cmd = "DEL"
KeptBy(disk, dump, m, i) ==
    /\ IsRead(dump, disk[i]) /\ IsAdd(disk[i])
    /\ \A j \in (i + 1)..m : ~(IsRead(dump, disk[j]) /\ IsDel(disk[j])
                               /\ disk[j].op.id = disk[i].op.id)
Keeps(disk, dump, m, s) ==
    /\ s \in Seq(Op) /\ DistinctIds(s)
    /\ \A k \in 1..Len(s) : \E i \in 1..m : KeptBy(disk, dump, m, i) /\ s[k] = disk[i].op
    /\ \A i \in 1..m : KeptBy(disk, dump, m, i) => \E k \in 1..Len(s) : s[k] = disk[i].op

AddsDiffer(disk, dump) ==
    /\ \A i \in 1..Len(disk) : disk[i].op.cmd \in {"ADD", "DEL"}
    /\ \A i, j \in 1..Len(disk) :
          i # j /\ IsAdd(disk[i]) /\ IsAdd(disk[j]) /\ IsRead(dump, disk[i]) /\ IsRead(dump, disk[j])
             => disk[i].op.id # disk[j].op.id

\* The next record: an add that is read is kept beside the others.
LEMMA KeepsAdd ==
  ASSUME NEW disk \in Seq(Record), NEW dump \in DumpNames, AddsDiffer(disk, dump),
         NEW m \in Nat, m + 1 <= Len(disk), NEW s \in Seq(Op), Keeps(disk, dump, m, s),
         IsRead(dump, disk[m + 1]), IsAdd(disk[m + 1])
  PROVE  Keeps(disk, dump, m + 1, Append(s, disk[m + 1].op))
<1> DEFINE o == disk[m + 1].op
           r == Append(s, o)
<1>1. o \in Op /\ Len(s) \in Nat /\ Len(disk) \in Nat /\ m + 1 \in 1..Len(disk)
  <2>1. disk[m + 1] \in Record
    BY LenProperties, ElementOfSeq
  <2> QED
    BY <2>1, LenProperties DEF Record
<1>2. /\ r \in Seq(Op) /\ Len(r) = Len(s) + 1 /\ r[Len(s) + 1] = o
      /\ \A i \in 1..Len(s) : r[i] = s[i]
  BY <1>1, AppendProperties
<1>3. ~IsDel(disk[m + 1])
  BY DEF IsAdd, IsDel
<1> HIDE DEF r
<1>4. \A i \in 1..m : KeptBy(disk, dump, m + 1, i) <=> KeptBy(disk, dump, m, i)
  <2>1. \A i \in 1..m : (i + 1)..(m + 1) = ((i + 1)..m) \cup {m + 1}
    OBVIOUS
  <2> QED
    BY <1>3, <2>1 DEF KeptBy
<1>5. KeptBy(disk, dump, m + 1, m + 1)
  <2>1. (m + 1 + 1)..(m + 1) = {}
    OBVIOUS
  <2> QED
    BY <2>1 DEF KeptBy
<1>6. \A k \in 1..Len(s) : s[k].id # o.id
  <2>1. ASSUME NEW k \in 1..Len(s) PROVE s[k].id # o.id
    <3>1. PICK i \in 1..m : KeptBy(disk, dump, m, i) /\ s[k] = disk[i].op
      BY DEF Keeps
    <3>2. i # m + 1 /\ i \in 1..Len(disk) /\ IsRead(dump, disk[i]) /\ IsAdd(disk[i])
      BY <1>1, <3>1 DEF KeptBy
    <3> QED
      BY <1>1, <3>1, <3>2 DEF AddsDiffer
  <2> QED
    BY <2>1
<1>7. DistinctIds(r)
  <2>1. \A k \in 1..Len(r) : k # Len(s) + 1 => k \in 1..Len(s)
    BY <1>1, <1>2
  <2>2. ASSUME NEW k \in 1..Len(r), NEW l \in 1..Len(r), k # l PROVE r[k].id # r[l].id
    <3>1. CASE k = Len(s) + 1
      BY <1>2, <1>6, <2>1, <2>2, <3>1
    <3>2. CASE l = Len(s) + 1
      BY <1>2, <1>6, <2>1, <2>2, <3>2
    <3>3. CASE k # Len(s) + 1 /\ l # Len(s) + 1
      BY <1>2, <2>1, <2>2, <3>3 DEF Keeps, DistinctIds
    <3> QED
      BY <3>1, <3>2, <3>3
  <2> QED
    BY <2>2 DEF DistinctIds
<1>8. ASSUME NEW k \in 1..Len(r)
      PROVE \E i \in 1..(m + 1) : KeptBy(disk, dump, m + 1, i) /\ r[k] = disk[i].op
  <2>1. CASE k = Len(s) + 1
    BY <1>2, <1>5, <2>1
  <2>2. CASE k # Len(s) + 1
    <3>1. k \in 1..Len(s)
      BY <1>1, <1>2, <2>2
    <3>2. PICK i \in 1..m : KeptBy(disk, dump, m, i) /\ s[k] = disk[i].op
      BY <3>1 DEF Keeps
    <3> QED
      BY <1>2, <1>4, <3>1, <3>2
  <2> QED
    BY <2>1, <2>2
<1>9. ASSUME NEW i \in 1..(m + 1), KeptBy(disk, dump, m + 1, i)
      PROVE \E k \in 1..Len(r) : r[k] = disk[i].op
  <2>1. CASE i = m + 1
    <3>1. Len(s) + 1 \in 1..Len(r)
      BY <1>1, <1>2
    <3> QED
      BY <1>2, <2>1, <3>1
  <2>2. CASE i # m + 1
    <3>1. i \in 1..m
      BY <2>2
    <3>2. PICK k \in 1..Len(s) : s[k] = disk[i].op
      BY <1>4, <1>9, <3>1 DEF Keeps
    <3>3. k \in 1..Len(r)
      BY <1>1, <1>2
    <3> QED
      BY <1>2, <3>2, <3>3
  <2> QED
    BY <2>1, <2>2
<1> QED
  BY <1>2, <1>7, <1>8, <1>9 DEF Keeps, r

\* A record that is not read changes nothing.
LEMMA KeepsUnread ==
  ASSUME NEW disk \in Seq(Record), NEW dump \in DumpNames,
         NEW m \in Nat, NEW s \in Seq(Op), Keeps(disk, dump, m, s), ~IsRead(dump, disk[m + 1])
  PROVE  Keeps(disk, dump, m + 1, s)
<1>1. \A i \in 1..m : KeptBy(disk, dump, m + 1, i) <=> KeptBy(disk, dump, m, i)
  <2>1. \A i \in 1..m : (i + 1)..(m + 1) = ((i + 1)..m) \cup {m + 1}
    OBVIOUS
  <2> QED
    BY <2>1 DEF KeptBy
<1>2. ~KeptBy(disk, dump, m + 1, m + 1)
  BY DEF KeptBy
<1>3. 1..(m + 1) = (1..m) \cup {m + 1}
  OBVIOUS
<1> QED
  BY <1>1, <1>2, <1>3 DEF Keeps

\* A delete that is read takes the one task with its id out.
LEMMA KeepsDel ==
  ASSUME NEW disk \in Seq(Record), NEW dump \in DumpNames, AddsDiffer(disk, dump),
         NEW m \in Nat, m + 1 <= Len(disk), NEW s \in Seq(Op), Keeps(disk, dump, m, s),
         IsRead(dump, disk[m + 1]), IsDel(disk[m + 1])
  PROVE  Keeps(disk, dump, m + 1, DelTask(s, disk[m + 1].op))
<1> DEFINE o == disk[m + 1].op
           r == DelTask(s, o)
<1>1. o \in Op /\ Len(s) \in Nat /\ Len(disk) \in Nat /\ m + 1 \in 1..Len(disk)
  <2>1. disk[m + 1] \in Record
    BY LenProperties, ElementOfSeq
  <2> QED
    BY <2>1, LenProperties DEF Record
<1>2. \A i \in 1..m : KeptBy(disk, dump, m + 1, i)
                        <=> KeptBy(disk, dump, m, i) /\ disk[i].op.id # o.id
  <2>1. \A i \in 1..m : (i + 1)..(m + 1) = ((i + 1)..m) \cup {m + 1}
    OBVIOUS
  <2> QED
    BY <2>1 DEF KeptBy
<1>3. ~KeptBy(disk, dump, m + 1, m + 1)
  BY DEF KeptBy, IsAdd, IsDel
<1>4. \A i \in 1..(m + 1) : KeptBy(disk, dump, m + 1, i) => i \in 1..m
  <2>1. \A i \in 1..(m + 1) : i # m + 1 => i \in 1..m
    OBVIOUS
  <2> QED
    BY <1>3, <2>1
<1>5. \A k \in 1..Len(s) : \E i \in 1..m : KeptBy(disk, dump, m, i) /\ s[k] = disk[i].op
  BY DEF Keeps
<1>6. \A i \in 1..m : KeptBy(disk, dump, m, i) => \E k \in 1..Len(s) : s[k] = disk[i].op
  BY DEF Keeps
<1>7. \A k, l \in 1..Len(s) : k # l => s[k].id # s[l].id
  BY DEF Keeps, DistinctIds
<1> HIDE DEF o, r
<1>8. CASE r = s /\ \A i \in 1..Len(s) : s[i].id # o.id
  <2>1. ASSUME NEW k \in 1..Len(r)
        PROVE \E i \in 1..(m + 1) : KeptBy(disk, dump, m + 1, i) /\ r[k] = disk[i].op
    <3>1. PICK i \in 1..m : KeptBy(disk, dump, m, i) /\ s[k] = disk[i].op
      BY <1>5, <1>8
    <3>2. i \in 1..(m + 1) /\ disk[i].op.id # o.id
      BY <1>8, <3>1
    <3> QED
      BY <1>2, <1>8, <3>1, <3>2
  <2>2. ASSUME NEW i \in 1..(m + 1), KeptBy(disk, dump, m + 1, i)
        PROVE \E k \in 1..Len(r) : r[k] = disk[i].op
    BY <1>2, <1>4, <1>6, <1>8, <2>2
  <2> QED
    BY <1>7, <1>8, <2>1, <2>2 DEF Keeps, DistinctIds, r, o
<1>9. CASE \E k \in 1..Len(s) : FirstWith(s, o, k) /\ Erased(s, k, r)
  <2>1. PICK e \in 1..Len(s) : FirstWith(s, o, e) /\ Erased(s, e, r)
    BY <1>9
  <2>2. /\ r \in Seq(Op) /\ Len(r) = Len(s) - 1
        /\ \A i \in 1..(Len(s) - 1) : r[i] = IF i < e THEN s[i] ELSE s[i + 1]
    BY <2>1 DEF Erased
  <2>3. s[e].id = o.id
    BY <2>1 DEF FirstWith
  <2> DEFINE at(i) == IF i < e THEN i ELSE i + 1
  <2>4. \A i \in 1..Len(r) : at(i) \in 1..Len(s) /\ at(i) # e /\ r[i] = s[at(i)]
    BY <1>1, <2>2
  <2>5. \A i, j \in 1..Len(r) : i # j => at(i) # at(j)
    BY <1>1, <2>2
  <2>6. \A k \in 1..Len(s) : k # e => \E i \in 1..Len(r) : at(i) = k
    <3> SUFFICES ASSUME NEW k \in 1..Len(s), k # e PROVE \E i \in 1..Len(r) : at(i) = k
      OBVIOUS
    <3>1. CASE k < e
      BY <1>1, <2>2, <3>1
    <3>2. CASE k > e
      <4>1. k - 1 \in 1..Len(r) /\ at(k - 1) = k
        BY <1>1, <2>2, <3>2
      <4> QED
        BY <4>1
    <3> QED
      BY <1>1, <3>1, <3>2
  <2> HIDE DEF at
  <2>7. DistinctIds(r)
    <3> SUFFICES ASSUME NEW k \in 1..Len(r), NEW l \in 1..Len(r), k # l PROVE r[k].id # r[l].id
      BY DEF DistinctIds
    <3>1. at(k) \in 1..Len(s) /\ at(l) \in 1..Len(s) /\ at(k) # at(l)
      BY <2>4, <2>5
    <3>2. r[k] = s[at(k)] /\ r[l] = s[at(l)]
      BY <2>4
    <3>3. s[at(k)].id # s[at(l)].id
      BY <1>7, <3>1
    <3> QED
      BY <3>2, <3>3
  <2>8. ASSUME NEW k \in 1..Len(r)
        PROVE \E i \in 1..(m + 1) : KeptBy(disk, dump, m + 1, i) /\ r[k] = disk[i].op
    <3>1. at(k) \in 1..Len(s) /\ at(k) # e /\ r[k] = s[at(k)]
      BY <2>4
    <3>2. PICK i \in 1..m : KeptBy(disk, dump, m, i) /\ s[at(k)] = disk[i].op
      BY <1>5, <3>1
    <3>3. disk[i].op.id # o.id
      BY <1>7, <2>3, <3>1, <3>2
    <3>4. i \in 1..(m + 1)
      OBVIOUS
    <3> QED
      BY <1>2, <3>1, <3>2, <3>3, <3>4
  <2>9. ASSUME NEW i \in 1..(m + 1), KeptBy(disk, dump, m + 1, i)
        PROVE \E k \in 1..Len(r) : r[k] = disk[i].op
    <3>1. i \in 1..m /\ KeptBy(disk, dump, m, i) /\ disk[i].op.id # o.id
      BY <1>2, <1>4, <2>9
    <3>2. PICK k \in 1..Len(s) : s[k] = disk[i].op
      BY <1>6, <3>1
    <3>3. k # e
      BY <2>3, <3>1, <3>2
    <3>4. PICK l \in 1..Len(r) : at(l) = k
      BY <2>6, <3>3
    <3> QED
      BY <2>4, <3>2, <3>4
  <2> QED
    BY <2>2, <2>7, <2>8, <2>9 DEF Keeps, r, o
<1> QED
  BY <1>1, <1>8, <1>9, DelTaskErases DEF r

\* What a start loads: the tasks whose records are read and that no later record
\* that is read deletes, each once.
LEMMA ReplayKeeps ==
  ASSUME NEW disk \in Seq(Record), NEW dump \in DumpNames, AddsDiffer(disk, dump)
  PROVE  Keeps(disk, dump, Len(disk), ReplayOf(disk, dump))
<1>1. PICK g \in [0..Len(disk) -> Seq(Op)] : Loads(disk, dump, g)
  BY ReplayLoads DEF Loadable
<1>2. Len(disk) \in Nat
  BY LenProperties
<1> DEFINE P == {m \in Nat : m <= Len(disk) => Keeps(disk, dump, m, g[m])}
<1>3. 0 \in P
  <2>1. g[0] = <<>> /\ <<>> \in Seq(Op) /\ Len(<<>>) = 0
    BY <1>1 DEF Loads
  <2>2. Keeps(disk, dump, 0, <<>>)
    BY <2>1 DEF Keeps, DistinctIds
  <2> QED
    BY <2>1, <2>2
<1>4. ASSUME NEW m \in Nat, m \in P PROVE m + 1 \in P
  <2> SUFFICES ASSUME m + 1 <= Len(disk) PROVE Keeps(disk, dump, m + 1, g[m + 1])
    BY DEF P
  <2>1. m + 1 \in 1..Len(disk) /\ (m + 1) - 1 = m /\ m \in 0..Len(disk) /\ m <= Len(disk)
    BY <1>2
  <2>2. g[m + 1] = IF IsRead(dump, disk[m + 1]) THEN Replay(g[m], disk[m + 1].op) ELSE g[m]
    BY <1>1, <2>1 DEF Loads
  <2>3. g[m] \in Seq(Op) /\ Keeps(disk, dump, m, g[m])
    BY <1>4, <2>1
  <2>4. disk[m + 1].op.cmd \in {"ADD", "DEL"}
    BY <2>1 DEF AddsDiffer
  <2> HIDE DEF P
  <2>5. CASE ~IsRead(dump, disk[m + 1])
    BY <2>2, <2>3, <2>5, KeepsUnread
  <2>6. CASE IsRead(dump, disk[m + 1]) /\ IsAdd(disk[m + 1])
    <3>1. g[m + 1] = Append(g[m], disk[m + 1].op)
      BY <2>2, <2>6 DEF Replay, IsAdd
    <3>2. Keeps(disk, dump, m + 1, Append(g[m], disk[m + 1].op))
      BY <2>3, <2>6, KeepsAdd
    <3> QED
      BY <3>1, <3>2
  <2>7. CASE IsRead(dump, disk[m + 1]) /\ IsDel(disk[m + 1])
    <3>1. g[m + 1] = DelTask(g[m], disk[m + 1].op)
      BY <2>2, <2>7 DEF Replay, IsDel
    <3>2. Keeps(disk, dump, m + 1, DelTask(g[m], disk[m + 1].op))
      BY <2>3, <2>7, KeepsDel
    <3> QED
      BY <3>1, <3>2
  <2> QED
    BY <2>4, <2>5, <2>6, <2>7 DEF IsAdd, IsDel
<1>5. Len(disk) \in P
  <2>1. Nat \subseteq P
    <3> HIDE DEF P
    <3> QED
      BY <1>3, <1>4, SetInduction
  <2> HIDE DEF P
  <2> QED
    BY <1>2, <2>1
<1>6. Keeps(disk, dump, Len(disk), g[Len(disk)])
  BY <1>2, <1>5
<1> QED
  BY <1>1, <1>6 DEF Loads

-----------------------------------------------------------------------------
(* The inductive invariant                                                 *)

Typed ==
    /\ up \in BOOLEAN
    /\ m_tasks \in Seq(Op)
    /\ m_current_op_id \in Nat /\ m_current_task_id \in Nat
    /\ m_current_file_id \in 0..MaxFiles
    /\ m_current_file \in BOOLEAN
    /\ m_sem \in Nat
    /\ pc \in [Threads -> {"out", "add_open", "add_ids", "add_save", "add_task", "add_post",
                           "permit", "have", "del_ids", "del_write"}]
    /\ loc \in [Threads -> Op]
    /\ files \subseteq 1..MaxFiles /\ logs \in [1..MaxFiles -> Seq(Op)]
    /\ last_dump \in DumpNames
    /\ adds \in Nat /\ starts \in Nat
    /\ dump_lives \subseteq 0..starts

\* Memory and threads are gone while no process lives.
Down == ~up => /\ m_tasks = <<>> /\ m_sem = 0 /\ ~m_current_file
               /\ \A t \in Threads : pc[t] = "out"

\* Only the newest file is open, and a file that was never opened is empty.
NewestWritten ==
    /\ up => files \subseteq 1..m_current_file_id
    /\ m_current_file => m_current_file_id \in files
    /\ \A f \in 1..MaxFiles : f \notin files => logs[f] = <<>>

DumpNamed == dump_lives = {} => last_dump = NoDump

DiskOrdered(d) ==
    /\ \A i \in 1..Len(d) : d[i].file \in files /\ d[i].op.cmd \in {"ADD", "DEL"}
    /\ \A i, j \in 1..Len(d) : i < j => d[i].file <= d[j].file

Adding(t) == pc[t] \in {"add_open", "add_ids", "add_save"}
Carries(t) == pc[t] \in {"add_task", "have", "del_ids", "del_write"}
OnRecord(d, o) ==
    \E i \in 1..Len(d) : IsAdd(d[i]) /\ d[i].op.id = o.id /\ d[i].op.cont = o.cont

\* Every payload is in one add record at most, and in none while it is on its way.
Payloads(d) ==
    /\ \A i \in 1..Len(d) : IsAdd(d[i]) => d[i].op.cont \in 1..adds
    /\ \A i, j \in 1..Len(d) : i # j /\ IsAdd(d[i]) /\ IsAdd(d[j]) => d[i].op.cont # d[j].op.cont
    /\ \A t \in Threads : Adding(t) =>
          /\ loc[t].cont \in 1..adds
          /\ \A i \in 1..Len(d) : IsAdd(d[i]) => d[i].op.cont # loc[t].cont
          /\ \A u \in Threads : Adding(u) /\ u # t => loc[u].cont # loc[t].cont
    /\ \A c \in accepted \cup deleted : \E i \in 1..Len(d) : IsAdd(d[i]) /\ d[i].op.cont = c

\* What memory and the threads hold is on disk.
Backed(d) ==
    /\ \A k \in 1..Len(m_tasks) : OnRecord(d, m_tasks[k])
    /\ \A t \in Threads : Carries(t) \/ pc[t] = "add_post" => OnRecord(d, loc[t])
    /\ \A t \in Threads : pc[t] = "add_save" => loc[t].cmd = "ADD"
    /\ \A t \in Threads : pc[t] = "del_write" => loc[t].cmd = "DEL"

\* The records that the ids of the current life count: all of them until a start
\* follows a dump, and those that it reads from then on.
Whole == dump_lives \subseteq {starts}
Seen(r) == Whole \/ IsRead(last_dump, r)

\* Among these, an id stands for one task; a delete follows its add, in the file
\* order and in the order of op ids; and a payload is deleted exactly when the
\* delete of its id is there.
Records(d) ==
    /\ \A i, j \in 1..Len(d) : i # j /\ IsAdd(d[i]) /\ IsAdd(d[j]) /\ Seen(d[i]) /\ Seen(d[j])
                                => d[i].op.id # d[j].op.id
    /\ \A i, j \in 1..Len(d) :
          IsAdd(d[i]) /\ IsDel(d[j]) /\ Seen(d[i]) /\ Seen(d[j]) /\ d[i].op.id = d[j].op.id
             => i < j /\ d[i].op.cont \in deleted
    /\ \A i \in 1..Len(d) : IsAdd(d[i]) /\ Seen(d[i]) /\ d[i].op.cont \in deleted =>
          \E j \in 1..Len(d) : i < j /\ IsDel(d[j]) /\ d[j].op.id = d[i].op.id
                               /\ d[i].op.op_id <= d[j].op.op_id

Fresh(d, id) == \A i \in 1..Len(d) : Seen(d[i]) => d[i].op.id # id
Undeleted(d, o) ==
    /\ o.cont \notin deleted
    /\ \A i \in 1..Len(d) : Seen(d[i]) /\ d[i].op.id = o.id => IsAdd(d[i]) /\ d[i].op.cont = o.cont

\* What is in memory: ids not above the counters, one place for an id, no delete.
Busy(t) == pc[t] = "add_save" \/ Carries(t)
Counted(d) ==
    up => \A i \in 1..Len(d) : Seen(d[i]) => /\ d[i].op.id <= m_current_task_id
                                              /\ d[i].op.op_id <= m_current_op_id
Queue(d) ==
    /\ \A k \in 1..Len(m_tasks) : m_tasks[k].id <= m_current_task_id /\ Undeleted(d, m_tasks[k])
    /\ DistinctIds(m_tasks)
    /\ \A k \in 1..Len(m_tasks) : \A t \in Threads : Busy(t) => m_tasks[k].id # loc[t].id
Hands(d) ==
    /\ \A t \in Threads : Busy(t) => loc[t].id <= m_current_task_id
    /\ \A t, u \in Threads : Busy(t) /\ Busy(u) /\ u # t => loc[u].id # loc[t].id
    /\ \A t \in Threads : Carries(t) => Undeleted(d, loc[t])
    /\ \A t \in Threads : pc[t] = "add_save" => Fresh(d, loc[t].id)
    /\ \A t \in Threads : pc[t] \in {"add_save", "del_write"} => loc[t].op_id <= m_current_op_id
    /\ \A t \in Threads : pc[t] = "del_write" =>
          \A i \in 1..Len(d) : Seen(d[i]) /\ d[i].op.id = loc[t].id
                                 => d[i].op.op_id <= loc[t].op_id

OneLife(d) == /\ DiskOrdered(d) /\ Payloads(d) /\ Backed(d)
              /\ Records(d) /\ Counted(d) /\ Queue(d) /\ Hands(d)

Base == Typed /\ Down /\ PermitFindsTask /\ NewestWritten /\ DumpNamed
IInv == Base /\ (DumpsOfOneLife /\ unflushed = {} => \A d \in {OnDisk} : OneLife(d))

-----------------------------------------------------------------------------
(* Counting threads, and the disk as a sequence of records                 *)

Labels == {"out", "add_open", "add_ids", "add_save", "add_task", "add_post",
           "permit", "have", "del_ids", "del_write"}
Where(p, x) == {u \in Threads : p[u] = x}

\* There are finitely many threads.
LEMMA ThreadsFinite == IsFiniteSet(Threads)
  BY EQueueAssumption, FS_Union DEF Threads

Passes(p, q, t, l, x) ==
    /\ Cardinality(Where(p, x)) \in Nat
    /\ Cardinality(Where(q, x)) \in Nat
    /\ x = p[t] => Cardinality(Where(q, x)) = Cardinality(Where(p, x)) - 1
    /\ x = l => Cardinality(Where(q, x)) = Cardinality(Where(p, x)) + 1
    /\ x # p[t] /\ x # l => Cardinality(Where(q, x)) = Cardinality(Where(p, x))

\* A thread that moves is counted at one place less and at another more.
LEMMA MoveCounts ==
  ASSUME NEW p \in [Threads -> Labels], NEW t \in Threads, NEW l \in Labels, p[t] # l,
         NEW x \in Labels
  PROVE  Passes(p, [p EXCEPT ![t] = l], t, l, x)
<1> DEFINE q == [p EXCEPT ![t] = l]
<1>1. IsFiniteSet(Where(p, x)) /\ IsFiniteSet(Where(q, x))
  <2>1. Where(p, x) \subseteq Threads /\ Where(q, x) \subseteq Threads
    BY DEF Where
  <2> QED
    BY <2>1, ThreadsFinite, FS_Subset
<1>2. Cardinality(Where(p, x)) \in Nat /\ Cardinality(Where(q, x)) \in Nat
  BY <1>1, FS_CardinalityType
<1>3. CASE x = p[t]
  <2>1. t \in Where(p, x) /\ Where(q, x) = Where(p, x) \ {t}
    BY <1>3 DEF Where
  <2>2. Cardinality(Where(q, x)) = Cardinality(Where(p, x)) - 1
    BY <1>1, <2>1, FS_RemoveElement
  <2>3. x # l
    BY <1>3
  <2> QED
    BY <1>2, <1>3, <2>2, <2>3 DEF Passes
<1>4. CASE x = l
  <2>1. t \notin Where(p, x) /\ Where(q, x) = Where(p, x) \cup {t}
    BY <1>4 DEF Where
  <2>2. Cardinality(Where(q, x)) = Cardinality(Where(p, x)) + 1
    BY <1>1, <2>1, FS_AddElement
  <2>3. x # p[t]
    BY <1>4
  <2> QED
    BY <1>2, <1>4, <2>2, <2>3 DEF Passes
<1>5. CASE x # p[t] /\ x # l
  <2>1. Where(q, x) = Where(p, x)
    BY <1>5 DEF Where
  <2> QED
    BY <1>2, <1>5, <2>1 DEF Passes
<1> QED
  BY <1>3, <1>4, <1>5 DEF Passes

\* Nobody is counted where nobody is.
LEMMA NobodyThere ==
  ASSUME NEW p \in [Threads -> Labels], NEW x \in Labels, \A t \in Threads : p[t] # x
  PROVE  Cardinality(Where(p, x)) = 0
<1>1. Where(p, x) = {}
  BY DEF Where
<1> QED
  BY <1>1, FS_EmptySet

\* The property in the terms of the lemma about moves.
LEMMA PermitsAre ==
  PermitFindsTask <=> (up => m_sem + Cardinality(Where(pc, "permit"))
                               + Cardinality(Where(pc, "add_post")) = Len(m_tasks))
BY DEF PermitFindsTask, Those, Where, m_cnt

\* The greatest of a set of naturals, where there is one.
LEMMA GreatestIs ==
  ASSUME NEW Vals, Vals \subseteq Nat, NEW m \in Nat, m = 0 \/ m \in Vals, \A x \in Vals : x <= m
  PROVE  Max0(Vals) = m
<1> DEFINE T == Vals \cup {0}
<1>1. m \in T /\ \A x \in T : x \in Nat /\ m >= x
  OBVIOUS
<1>2. Max(T) \in T /\ \A x \in T : Max(T) >= x
  BY <1>1 DEF Max
<1>3. Max(T) = m
  <2> HIDE DEF T
  <2>1. Max(T) >= m /\ m >= Max(T) /\ Max(T) \in Nat
    BY <1>1, <1>2
  <2> QED
    BY <2>1
<1> QED
  BY <1>3 DEF Max0

\* No log file is newer than the one that a start's file id is taken from.
LEMMA LastFileIs ==
  ASSUME files \subseteq 1..MaxFiles
  PROVE  LastFile \in 0..MaxFiles /\ files \subseteq 1..LastFile
<1>1. MaxFiles \in Nat
  BY EQueueAssumption
<1> DEFINE g == [i \in 1..MaxFiles |-> IF i \in files THEN i ELSE 0]
<1>2. g \in [1..MaxFiles -> Nat]
  BY <1>1
<1>3. PICK m \in Nat : /\ m = 0 \/ \E i \in 1..MaxFiles : g[i] = m
                       /\ \A i \in 1..MaxFiles : g[i] <= m
  <2> HIDE DEF g
  <2> QED
    BY <1>1, <1>2, HasGreatest
<1>4. m = 0 \/ m \in files
  BY <1>1, <1>3
<1>5. \A f \in files : f <= m
  BY <1>1, <1>3
<1>6. files \subseteq Nat
  BY <1>1
<1> HIDE DEF g
<1>7. LastFile = m
  BY <1>4, <1>5, <1>6, GreatestIs DEF LastFile
<1> QED
  BY <1>1, <1>4, <1>5, <1>6, <1>7

\* The disk as a function of the files.
Disk(l) == FlattenSeq([f \in 1..MaxFiles |->
              [k \in DOMAIN l[f] |-> [file |-> f, op |-> l[f][k]]]])
Tagged(l) == [f \in 1..MaxFiles |-> [k \in DOMAIN l[f] |-> [file |-> f, op |-> l[f][k]]]]
Grown(l, l2, r) == Disk(l2) = Append(Disk(l), r)
FilesTyped(l) == l \in [1..MaxFiles -> Seq(Op)]

\* Each log gives a sequence of records.
LEMMA TaggedTyped ==
  ASSUME NEW l, FilesTyped(l)
  PROVE  Tagged(l) \in [1..MaxFiles -> Seq(Record)]
<1>1. ASSUME NEW f \in 1..MaxFiles
      PROVE [k \in DOMAIN l[f] |-> [file |-> f, op |-> l[f][k]]] \in Seq(Record)
  <2>1. l[f] \in Seq(Op)
    BY DEF FilesTyped
  <2>2. DOMAIN l[f] = 1..Len(l[f]) /\ Len(l[f]) \in Nat /\ \A k \in 1..Len(l[f]) : l[f][k] \in Op
    BY <2>1, LenProperties, ElementOfSeq
  <2>3. f \in Nat
    BY EQueueAssumption
  <2>4. \A k \in 1..Len(l[f]) : [file |-> f, op |-> l[f][k]] \in Record
    BY <2>2, <2>3 DEF Record
  <2>5. [k \in 1..Len(l[f]) |-> [file |-> f, op |-> l[f][k]]] \in [1..Len(l[f]) -> Record]
    BY <2>4
  <2> QED
    BY <2>2, <2>5, SeqDef
<1> QED
  BY <1>1 DEF Tagged

\* All logs together are a sequence of records.
LEMMA DiskTyped ==
  ASSUME NEW l, FilesTyped(l)
  PROVE  Disk(l) \in Seq(Record)
<1>1. MaxFiles \in Nat
  BY EQueueAssumption
<1>2. Joinable(MaxFiles, Record, Tagged(l))
  BY <1>1, TaggedTyped, FlattenSteps
<1>3. Disk(l) = FlattenSeq(Tagged(l))
  BY DEF Disk, Tagged
<1>4. PICK g \in [0..MaxFiles -> Seq(Record)] : Joining(MaxFiles, Tagged(l), g)
  BY <1>2 DEF Joinable
<1>5. g[MaxFiles] \in Seq(Record)
  BY <1>1
<1> QED
  BY <1>3, <1>4, <1>5 DEF Joining

\* A record written to the newest file is the last on disk.
LEMMA DiskGrows ==
  ASSUME NEW l, FilesTyped(l), NEW c \in 1..MaxFiles, NEW o \in Op,
         \A f \in 1..MaxFiles : f > c => l[f] = <<>>
  PROVE  LET l2 == [l EXCEPT ![c] = Append(@, o)] IN
         FilesTyped(l2) /\ Grown(l, l2, [file |-> c, op |-> o])
<1> DEFINE l2 == [l EXCEPT ![c] = Append(@, o)]
           r == [file |-> c, op |-> o]
<1>1. MaxFiles \in Nat /\ c \in Nat /\ r \in Record
  BY EQueueAssumption DEF Record
<1>2. FilesTyped(l2)
  <2>1. Append(l[c], o) \in Seq(Op)
    BY AppendProperties DEF FilesTyped
  <2> QED
    BY <2>1 DEF FilesTyped
<1>3. Tagged(l) \in [1..MaxFiles -> Seq(Record)] /\ Tagged(l2) \in [1..MaxFiles -> Seq(Record)]
  <2> HIDE DEF l2
  <2> QED
    BY <1>2, TaggedTyped
<1>4. \A f \in 1..MaxFiles : f # c => Tagged(l2)[f] = Tagged(l)[f]
  BY DEF Tagged, FilesTyped
<1>5. \A f \in 1..MaxFiles : f > c => Tagged(l)[f] = <<>>
  <2> SUFFICES ASSUME NEW f \in 1..MaxFiles, f > c PROVE Tagged(l)[f] = <<>>
    OBVIOUS
  <2>1. l[f] = <<>> /\ DOMAIN l[f] = {}
    OBVIOUS
  <2>2. Tagged(l)[f] = [k \in {} |-> [file |-> f, op |-> l[f][k]]]
    BY <2>1 DEF Tagged
  <2>3. Tagged(l)[f] \in Seq(Record) /\ DOMAIN Tagged(l)[f] = {}
    BY <1>3, <2>2
  <2>4. DOMAIN Tagged(l)[f] = 1..Len(Tagged(l)[f]) /\ Len(Tagged(l)[f]) \in Nat
    BY <2>3, LenProperties
  <2>5. Len(Tagged(l)[f]) = 0
    <3>1. \A n \in Nat : 1..n = {} => n = 0
      OBVIOUS
    <3> QED
      BY <2>3, <2>4, <3>1
  <2> QED
    BY <2>3, <2>5, EmptySeq
<1>6. Tagged(l2)[c] = Append(Tagged(l)[c], r)
  <2> DEFINE s == Tagged(l)[c]
             s2 == Tagged(l2)[c]
             n == Len(l[c])
  <2>1. l[c] \in Seq(Op) /\ n \in Nat /\ DOMAIN l[c] = 1..n
    BY LenProperties DEF FilesTyped
  <2>2. l2[c] = Append(l[c], o)
    BY DEF FilesTyped
  <2>3. /\ l2[c] \in Seq(Op) /\ Len(l2[c]) = n + 1 /\ l2[c][n + 1] = o
        /\ \A k \in 1..n : l2[c][k] = l[c][k]
    BY <2>1, <2>2, AppendProperties
  <2>4. DOMAIN l2[c] = 1..(n + 1)
    BY <2>3, LenProperties
  <2> HIDE DEF l2, n
  <2>5. s = [k \in 1..n |-> [file |-> c, op |-> l[c][k]]]
    BY <2>1 DEF Tagged
  <2>6. s2 = [k \in 1..(n + 1) |-> [file |-> c, op |-> l2[c][k]]]
    BY <2>4 DEF Tagged
  <2>7. s \in Seq(Record) /\ s2 \in Seq(Record)
    BY <1>3
  <2>8. Len(s) = n /\ Len(s2) = n + 1
    <3>1. DOMAIN s = 1..n /\ DOMAIN s2 = 1..(n + 1)
      BY <2>5, <2>6
    <3> HIDE DEF s, s2
    <3>2. DOMAIN s = 1..Len(s) /\ DOMAIN s2 = 1..Len(s2) /\ Len(s) \in Nat /\ Len(s2) \in Nat
      BY <2>7, LenProperties
    <3> QED
      BY <2>1, <3>1, <3>2
  <2>9. /\ Append(s, r) \in Seq(Record) /\ Len(Append(s, r)) = n + 1
        /\ Append(s, r)[n + 1] = r /\ \A k \in 1..n : Append(s, r)[k] = s[k]
    <3> HIDE DEF s, s2, r
    <3> QED
      BY <1>1, <2>7, <2>8, AppendProperties
  <2>10. \A k \in 1..(n + 1) : s2[k] = Append(s, r)[k]
    <3> SUFFICES ASSUME NEW k \in 1..(n + 1) PROVE s2[k] = Append(s, r)[k]
      OBVIOUS
    <3>1. CASE k = n + 1
      <4>1. s2[k] = [file |-> c, op |-> o]
        BY <2>3, <2>6, <3>1
      <4> QED
        BY <2>9, <3>1, <4>1
    <3>2. CASE k # n + 1
      <4>1. k \in 1..n
        BY <2>1, <3>2
      <4>2. s2[k] = [file |-> c, op |-> l[c][k]] /\ s[k] = [file |-> c, op |-> l[c][k]]
        BY <2>3, <2>5, <2>6, <4>1
      <4> QED
        BY <2>9, <4>1, <4>2
    <3> QED
      BY <3>1, <3>2
  <2> HIDE DEF s, s2, r
  <2>11. s2 = Append(s, r)
    BY <2>7, <2>8, <2>9, <2>10, SeqEqual
  <2> QED
    BY <2>11 DEF s, s2
<1> HIDE DEF l2, r
<1>7. FlattenSeq(Tagged(l2)) = Append(FlattenSeq(Tagged(l)), r)
  <2>1. FlattenGrows(Record, Tagged(l), Tagged(l2), r)
    BY <1>1, <1>3, <1>4, <1>5, <1>6, FlattenAppend
  <2> QED
    BY <2>1 DEF FlattenGrows
<1> QED
  BY <1>2, <1>7 DEF Grown, Disk, Tagged, l2, r

\* No records in any log: none on disk.
LEMMA DiskOfNone ==
  ASSUME NEW l, FilesTyped(l), \A f \in 1..MaxFiles : l[f] = <<>>
  PROVE  Disk(l) = <<>>
<1>1. \A f \in 1..MaxFiles : Tagged(l)[f] = <<>>
  <2> SUFFICES ASSUME NEW f \in 1..MaxFiles PROVE Tagged(l)[f] = <<>>
    OBVIOUS
  <2>1. l[f] = <<>> /\ DOMAIN l[f] = {}
    OBVIOUS
  <2>2. Tagged(l)[f] = [k \in {} |-> [file |-> f, op |-> l[f][k]]]
    BY <2>1 DEF Tagged
  <2>3. Tagged(l)[f] \in Seq(Record) /\ DOMAIN Tagged(l)[f] = {}
    BY <2>2, TaggedTyped
  <2>4. DOMAIN Tagged(l)[f] = 1..Len(Tagged(l)[f]) /\ Len(Tagged(l)[f]) \in Nat
    BY <2>3, LenProperties
  <2>5. Len(Tagged(l)[f]) = 0
    <3>1. \A n \in Nat : 1..n = {} => n = 0
      OBVIOUS
    <3> QED
      BY <2>3, <2>4, <3>1
  <2> QED
    BY <2>3, <2>5, EmptySeq
<1>2. MaxFiles \in Nat
  BY EQueueAssumption
<1>3. FlattenSeq(Tagged(l)) = <<>>
  BY <1>1, <1>2, TaggedTyped, FlattenEmpty
<1> QED
  BY <1>3 DEF Disk, Tagged

\* What the counters of a start come from.
LEMMA GreatestOfRead ==
  ASSUME NEW disk \in Seq(Record), NEW dump
  PROVE  LET Rd == {r \in ToSet(disk) : IsRead(dump, r)} IN
         /\ Max0({r.op.id : r \in Rd}) \in Nat
         /\ \A r \in Rd : r.op.id <= Max0({x.op.id : x \in Rd})
         /\ Max0({r.op.op_id : r \in Rd}) \in Nat
         /\ \A r \in Rd : r.op.op_id <= Max0({x.op.op_id : x \in Rd})
<1> DEFINE n == Len(disk)
           Rd == {r \in ToSet(disk) : IsRead(dump, r)}
<1>1. n \in Nat /\ DOMAIN disk = 1..n /\ \A i \in 1..n : disk[i] \in Record
  BY LenProperties, ElementOfSeq
<1>2. \A i \in 1..n : disk[i].op.id \in Nat /\ disk[i].op.op_id \in Nat
  BY <1>1 DEF Record, Op
<1>3. /\ \A i \in 1..n : IsRead(dump, disk[i]) => disk[i] \in Rd
      /\ \A r \in Rd : \E i \in 1..n : r = disk[i] /\ IsRead(dump, disk[i])
  BY <1>1 DEF ToSet
<1> HIDE DEF n, Rd
<1>4. Max0({r.op.id : r \in Rd}) \in Nat /\ \A r \in Rd : r.op.id <= Max0({x.op.id : x \in Rd})
  <2> DEFINE g == [i \in 1..n |-> IF IsRead(dump, disk[i]) THEN disk[i].op.id ELSE 0]
             Vals == {r.op.id : r \in Rd}
  <2>1. g \in [1..n -> Nat]
    BY <1>2
  <2>2. PICK m \in Nat : /\ m = 0 \/ \E i \in 1..n : g[i] = m
                         /\ \A i \in 1..n : g[i] <= m
    <3> HIDE DEF g
    <3> QED
      BY <1>1, <2>1, HasGreatest
  <2>3. m = 0 \/ m \in Vals
    BY <1>3, <2>2
  <2>4. \A r \in Rd : r.op.id \in Nat /\ r.op.id <= m
    BY <1>2, <1>3, <2>2
  <2>5. Vals \subseteq Nat /\ \A x \in Vals : x <= m
    BY <2>4
  <2> HIDE DEF g, Vals
  <2>6. Max0(Vals) = m
    BY <2>3, <2>5, GreatestIs
  <2> QED
    BY <2>4, <2>6 DEF Vals
<1>5. /\ Max0({r.op.op_id : r \in Rd}) \in Nat
      /\ \A r \in Rd : r.op.op_id <= Max0({x.op.op_id : x \in Rd})
  <2> DEFINE g == [i \in 1..n |-> IF IsRead(dump, disk[i]) THEN disk[i].op.op_id ELSE 0]
             Vals == {r.op.op_id : r \in Rd}
  <2>1. g \in [1..n -> Nat]
    BY <1>2
  <2>2. PICK m \in Nat : /\ m = 0 \/ \E i \in 1..n : g[i] = m
                         /\ \A i \in 1..n : g[i] <= m
    <3> HIDE DEF g
    <3> QED
      BY <1>1, <2>1, HasGreatest
  <2>3. m = 0 \/ m \in Vals
    BY <1>3, <2>2
  <2>4. \A r \in Rd : r.op.op_id \in Nat /\ r.op.op_id <= m
    BY <1>2, <1>3, <2>2
  <2>5. Vals \subseteq Nat /\ \A x \in Vals : x <= m
    BY <2>4
  <2> HIDE DEF g, Vals
  <2>6. Max0(Vals) = m
    BY <2>3, <2>5, GreatestIs
  <2> QED
    BY <2>4, <2>6 DEF Vals
<1> QED
  BY <1>4, <1>5 DEF Rd

\* The disk and the dump name of a state.
LEMMA DiskIsTyped ==
  ASSUME Typed
  PROVE  OnDisk \in Seq(Record) /\ last_dump \in DumpNames
<1>1. FilesTyped(logs)
  BY DEF Typed, FilesTyped
<1>2. Disk(logs) \in Seq(Record)
  BY <1>1, DiskTyped
<1> QED
  BY <1>2 DEF OnDisk, Disk, Typed

\* The counters of a start are not below any id that it reads.
LEMMA GreatestRead ==
  ASSUME Typed
  PROVE  /\ MaxTaskId \in Nat /\ \A r \in Loaded : r.op.id <= MaxTaskId
         /\ Max0({r.op.op_id : r \in Loaded}) \in Nat
         /\ \A r \in Loaded : r.op.op_id <= Max0({x.op.op_id : x \in Loaded})
<1>1. PICK disk \in {OnDisk} : disk = OnDisk
  OBVIOUS
<1>2. PICK dump \in {last_dump} : dump = last_dump
  OBVIOUS
<1>3. disk \in Seq(Record)
  BY <1>1, DiskIsTyped
<1>4. Loaded = {r \in ToSet(disk) : IsRead(dump, r)}
  BY <1>1, <1>2 DEF Loaded
<1> QED
  BY <1>3, <1>4, GreatestOfRead DEF MaxTaskId

-----------------------------------------------------------------------------
(* Types, files and permits: every step                                    *)

\* A thread that carries nothing carries an op all the same.
LEMMA NoOpTyped == NoOp \in Op
  BY DEF NoOp, Op

\* A new store.
LEMMA BaseInit == Init => Base
<1> SUFFICES ASSUME Init PROVE Base
  OBVIOUS
<1>1. MaxFiles \in Nat
  BY EQueueAssumption
<1>2. Typed
  <2>1. m_tasks \in Seq(Op) /\ m_sem \in Nat
    <3>1. <<>> \in Seq(Op)
      OBVIOUS
    <3> QED
      BY <3>1, <1>1, NoOpTyped DEF Init, NoDump, DumpNames
  <2>7. up \in BOOLEAN /\ m_current_file \in BOOLEAN
    BY DEF Init, NoDump, DumpNames
  <2>2. /\ m_current_op_id \in Nat /\ m_current_task_id \in Nat
        /\ m_current_file_id \in 0..MaxFiles
    BY <1>1, NoOpTyped DEF Init, NoDump, DumpNames
  <2>3. pc \in [Threads -> Labels] /\ loc \in [Threads -> Op]
    BY <1>1, NoOpTyped DEF Init, NoDump, DumpNames, Labels
  <2>4. files \subseteq 1..MaxFiles /\ logs \in [1..MaxFiles -> Seq(Op)]
    BY <1>1, NoOpTyped DEF Init, NoDump, DumpNames
  <2>5. last_dump \in DumpNames /\ adds \in Nat /\ starts \in Nat
    BY <1>1, NoOpTyped DEF Init, NoDump, DumpNames
  <2>6. dump_lives \subseteq 0..starts
    BY <1>1, NoOpTyped DEF Init, NoDump, DumpNames
  <2> QED
    BY <2>1, <2>2, <2>3, <2>4, <2>5, <2>6, <2>7 DEF Typed, Labels
<1>3. Down /\ NewestWritten /\ DumpNamed /\ PermitFindsTask
  BY <1>1 DEF Init, Down, NewestWritten, DumpNamed, PermitFindsTask
<1> QED
  BY <1>2, <1>3 DEF Base

\* A step that moves one thread and touches neither permits nor tasks.
LEMMA PermitsKept ==
  ASSUME Base, NEW t \in Threads, NEW l \in Labels, Goto(t, l), up, up' = up,
         m_sem' = m_sem, m_tasks' = m_tasks,
         pc[t] \notin {"permit", "add_post"}, l \notin {"permit", "add_post"}
  PROVE  PermitFindsTask'
<1>1. pc \in [Threads -> Labels] /\ pc' = [pc EXCEPT ![t] = l]
  BY DEF Base, Typed, Labels, Goto
<1>2. CASE pc[t] = l
  <2>1. pc' = pc
    BY <1>1, <1>2
  <2> QED
    BY <2>1 DEF Base, PermitFindsTask, Those, m_cnt
<1>3. CASE pc[t] # l
  <2>1. /\ Cardinality(Where(pc', "permit")) = Cardinality(Where(pc, "permit"))
        /\ Cardinality(Where(pc', "add_post")) = Cardinality(Where(pc, "add_post"))
    <3>1. PICK p \in {pc} : p = pc
      OBVIOUS
    <3>2. PICK q \in {pc'} : q = pc'
      OBVIOUS
    <3>3. "permit" \in Labels /\ "add_post" \in Labels
      BY DEF Labels
    <3>4. p \in [Threads -> Labels] /\ q = [p EXCEPT ![t] = l] /\ p[t] # l
      BY <1>1, <1>3, <3>1, <3>2
    <3>5. Passes(p, q, t, l, "permit") /\ Passes(p, q, t, l, "add_post")
      BY <3>3, <3>4, MoveCounts
    <3> QED
      BY <3>1, <3>2, <3>5 DEF Passes
  <2>2. PermitFindsTask' <=> (up' => m_sem' + Cardinality(Where(pc', "permit"))
                               + Cardinality(Where(pc', "add_post")) = Len(m_tasks'))
    BY DEF PermitFindsTask, Those, Where, m_cnt
  <2>3. m_sem + Cardinality(Where(pc, "permit")) + Cardinality(Where(pc, "add_post")) = Len(m_tasks)
    BY PermitsAre DEF Base
  <2> QED
    BY <2>1, <2>2, <2>3
<1> QED
  BY <1>2, <1>3

\* The process dies.
LEMMA BaseDies ==
  ASSUME Base, Dies, UNCHANGED <<diskVars, history, bounds>>
  PROVE  Base'
<1>1. MaxFiles \in Nat
  BY EQueueAssumption
<1>2. Typed'
  <2>1. m_tasks' \in Seq(Op) /\ m_sem' \in Nat
    <3>1. <<>> \in Seq(Op)
      OBVIOUS
    <3> QED
      BY <3>1, <1>1, NoOpTyped DEF Base, Typed, Dies, diskVars, history, bounds
  <2>7. up' \in BOOLEAN /\ m_current_file' \in BOOLEAN
    BY DEF Base, Typed, Dies, diskVars, history, bounds
  <2>2. /\ m_current_op_id' \in Nat /\ m_current_task_id' \in Nat
        /\ m_current_file_id' \in 0..MaxFiles
    BY <1>1, NoOpTyped DEF Base, Typed, Dies, diskVars, history, bounds
  <2>3. pc' \in [Threads -> Labels] /\ loc' \in [Threads -> Op]
    BY <1>1, NoOpTyped DEF Base, Typed, Dies, diskVars, history, bounds, Labels
  <2>4. files' \subseteq 1..MaxFiles /\ logs' \in [1..MaxFiles -> Seq(Op)]
    BY <1>1, NoOpTyped DEF Base, Typed, Dies, diskVars, history, bounds
  <2>5. last_dump' \in DumpNames /\ adds' \in Nat /\ starts' \in Nat
    BY <1>1, NoOpTyped DEF Base, Typed, Dies, diskVars, history, bounds
  <2>6. dump_lives' \subseteq 0..starts'
    BY <1>1, NoOpTyped DEF Base, Typed, Dies, diskVars, history, bounds
  <2> QED
    BY <2>1, <2>2, <2>3, <2>4, <2>5, <2>6, <2>7 DEF Typed, Labels
<1>3. Down' /\ NewestWritten' /\ DumpNamed' /\ PermitFindsTask'
  BY DEF Base, Down, NewestWritten, DumpNamed, PermitFindsTask, Dies, diskVars, history, bounds
<1> QED
  BY <1>2, <1>3 DEF Base

\* A start sets as many permits as it loads tasks, and knows of all files.
LEMMA BaseStart ==
  ASSUME Base, Start
  PROVE  Base'
<1> USE DEF Base
<1>1. MaxFiles \in Nat
  BY EQueueAssumption
<1>2. OnDisk \in Seq(Record) /\ last_dump \in DumpNames
  BY DiskIsTyped
<1>3. Replayed \in Seq(Op)
  <2>1. PICK disk \in {OnDisk} : disk = OnDisk
    OBVIOUS
  <2>2. PICK dump \in {last_dump} : dump = last_dump
    OBVIOUS
  <2>3. Loadable(disk, dump)
    BY <1>2, <2>1, <2>2, ReplayLoads
  <2>4. PICK g \in [0..Len(disk) -> Seq(Op)] : Loads(disk, dump, g)
    BY <2>3 DEF Loadable
  <2>5. g[Len(disk)] \in Seq(Op)
    <3>1. Len(disk) \in Nat
      BY <1>2, <2>1, LenProperties
    <3> QED
      BY <3>1
  <2> QED
    BY <2>1, <2>2, <2>4, <2>5 DEF Loads, Replayed
<1>4. LastFile \in 0..MaxFiles /\ files \subseteq 1..LastFile
  BY LastFileIs DEF Typed
<1>5. MaxTaskId \in Nat /\ Max0({r.op.op_id : r \in Loaded}) \in Nat
  BY GreatestRead
<1>6. Len(Replayed) \in Nat
  BY <1>3, LenProperties
<1>7. Typed'
  <2>1. m_tasks' \in Seq(Op) /\ m_sem' \in Nat
    <3>1. <<>> \in Seq(Op)
      OBVIOUS
    <3> QED
      BY <3>1, <1>1, <1>3, <1>4, <1>5, <1>6 DEF Typed, Start, threadVars, diskVars, history
  <2>7. up' \in BOOLEAN /\ m_current_file' \in BOOLEAN
    BY DEF Typed, Start, threadVars, diskVars, history
  <2>2. /\ m_current_op_id' \in Nat /\ m_current_task_id' \in Nat
        /\ m_current_file_id' \in 0..MaxFiles
    BY <1>1, <1>3, <1>4, <1>5, <1>6 DEF Typed, Start, threadVars, diskVars, history
  <2>3. pc' \in [Threads -> Labels] /\ loc' \in [Threads -> Op]
    BY <1>1, <1>3, <1>4, <1>5, <1>6 DEF Typed, Start, threadVars, diskVars, history, Labels
  <2>4. files' \subseteq 1..MaxFiles /\ logs' \in [1..MaxFiles -> Seq(Op)]
    BY <1>1, <1>3, <1>4, <1>5, <1>6 DEF Typed, Start, threadVars, diskVars, history
  <2>5. last_dump' \in DumpNames /\ adds' \in Nat /\ starts' \in Nat
    BY <1>1, <1>3, <1>4, <1>5, <1>6 DEF Typed, Start, threadVars, diskVars, history
  <2>6. dump_lives' \subseteq 0..starts'
    BY <1>1, <1>3, <1>4, <1>5, <1>6 DEF Typed, Start, threadVars, diskVars, history
  <2> QED
    BY <2>1, <2>2, <2>3, <2>4, <2>5, <2>6, <2>7 DEF Typed, Labels
<1>8. Down' /\ NewestWritten' /\ DumpNamed'
  BY <1>4 DEF Down, NewestWritten, DumpNamed, Start, threadVars, diskVars, history
<1>9. PermitFindsTask'
  <2>1. PICK p \in {pc} : p = pc
    OBVIOUS
  <2>2. p \in [Threads -> Labels] /\ \A t \in Threads : p[t] = "out"
    BY <2>1 DEF Start, Down, Typed, Labels
  <2>3. Cardinality(Where(p, "permit")) = 0 /\ Cardinality(Where(p, "add_post")) = 0
    <3>1. "permit" \in Labels /\ "add_post" \in Labels
      BY DEF Labels
    <3> QED
      BY <2>2, <3>1, NobodyThere
  <2>4. pc' = p /\ m_tasks' = Replayed /\ m_sem' = Len(Replayed)
    BY <2>1 DEF Start, threadVars
  <2>5. PermitFindsTask' <=> (up' => m_sem' + Cardinality(Where(pc', "permit"))
                               + Cardinality(Where(pc', "add_post")) = Len(m_tasks'))
    BY DEF PermitFindsTask, Those, Where, m_cnt
  <2> QED
    BY <1>6, <2>3, <2>4, <2>5
<1> QED
  BY <1>7, <1>8, <1>9

\* A dump closes the file and leaves permits and tasks alone.
LEMMA BaseDump ==
  ASSUME Base, Dump
  PROVE  Base'
<1> USE DEF Base
<1>1. MaxFiles \in Nat
  BY EQueueAssumption
<1>2. DumpName \in DumpNames
  <2>1. CASE m_tasks = <<>>
    BY <1>1, <2>1 DEF DumpName, DumpNames, Typed
  <2>2. CASE m_tasks # <<>>
    <3>1. Head(m_tasks) \in Op
      BY <2>2 DEF Typed
    <3> QED
      BY <2>2, <3>1 DEF DumpName, DumpNames, Op
  <2> QED
    BY <2>1, <2>2
<1>3. Typed'
  <2>1. m_tasks' \in Seq(Op) /\ m_sem' \in Nat
    <3>1. <<>> \in Seq(Op)
      OBVIOUS
    <3> QED
      BY <3>1, <1>1, <1>2 DEF Typed, Dump, threadVars
  <2>7. up' \in BOOLEAN /\ m_current_file' \in BOOLEAN
    BY DEF Typed, Dump, threadVars
  <2>2. /\ m_current_op_id' \in Nat /\ m_current_task_id' \in Nat
        /\ m_current_file_id' \in 0..MaxFiles
    BY <1>1, <1>2 DEF Typed, Dump, threadVars
  <2>3. pc' \in [Threads -> Labels] /\ loc' \in [Threads -> Op]
    BY <1>1, <1>2 DEF Typed, Dump, threadVars, Labels
  <2>4. files' \subseteq 1..MaxFiles /\ logs' \in [1..MaxFiles -> Seq(Op)]
    BY <1>1, <1>2 DEF Typed, Dump, threadVars
  <2>5. last_dump' \in DumpNames /\ adds' \in Nat /\ starts' \in Nat
    BY <1>1, <1>2 DEF Typed, Dump, threadVars
  <2>6. dump_lives' \subseteq 0..starts'
    <3>1. starts' = starts /\ starts \in Nat /\ starts \in 0..starts /\ dump_lives \subseteq 0..starts
      BY DEF Typed, Dump
    <3>2. dump_lives' = dump_lives \cup {starts} \/ dump_lives' = dump_lives
      BY DEF Dump
    <3> QED
      BY <3>1, <3>2
  <2> QED
    BY <2>1, <2>2, <2>3, <2>4, <2>5, <2>6, <2>7 DEF Typed, Labels
<1>4. Down' /\ NewestWritten' /\ DumpNamed'
  BY DEF Down, NewestWritten, DumpNamed, Dump, threadVars, Typed
<1>5. PermitFindsTask'
  BY DEF PermitFindsTask, Dump, threadVars, Those, m_cnt
<1> QED
  BY <1>3, <1>4, <1>5

\* A step of one thread that is in neither place where a permit is counted.
LEMMA BaseAddEnter ==
  ASSUME Base, NEW t \in Threads, AddEnter(t)
  PROVE  Base'
<1>1. up /\ up' = up /\ Goto(t, "add_open") /\ pc[t] = "out" /\ "add_open" \in Labels
  BY DEF AddEnter, At, Labels
<1>2. Typed'
  <2>1. loc' \in [Threads -> Op]
    <3>1. adds + 1 \in Nat
      BY DEF Base, Typed
    <3>2. [NoOp EXCEPT !.cont = adds + 1] \in Op
      BY <3>1 DEF NoOp, Op
    <3> QED
      BY <3>2 DEF Base, Typed, AddEnter
  <2>2. pc' \in [Threads -> Labels]
    BY <1>1 DEF Base, Typed, Goto, Labels
  <2>3. adds' \in Nat
    BY DEF Base, Typed, AddEnter
  <2> QED
    BY <2>1, <2>2, <2>3 DEF Base, Typed, Labels, AddEnter, memVars, diskVars, bounds
<1>3. Down' /\ NewestWritten' /\ DumpNamed'
  BY <1>1 DEF Base, Down, NewestWritten, DumpNamed, AddEnter, memVars, diskVars, bounds
<1>4. PermitFindsTask'
  <2>1. m_sem' = m_sem /\ m_tasks' = m_tasks
    BY DEF AddEnter, memVars
  <2> QED
    BY <1>1, <2>1, PermitsKept
<1> QED
  BY <1>2, <1>3, <1>4 DEF Base

\* A file is opened as the newest, or is not.
LEMMA BaseOpen ==
  ASSUME Base, NEW t \in Threads, NEW a, NEW b, OpenNewFile(t, a, b),
         a \notin {"permit", "add_post"}, b \in Labels \ {"permit", "add_post"}
  PROVE  Base'
<1>1. up /\ up' = up /\ pc[t] = a /\ "out" \in Labels
  BY DEF OpenNewFile, At, Labels
<1>2. PICK l \in {b, "out"} : Goto(t, l)
  BY DEF OpenNewFile
<1>3. l \in Labels /\ l \notin {"permit", "add_post"}
  BY <1>1, <1>2
<1>a. MaxFiles \in Nat
  BY EQueueAssumption
<1>4. /\ m_current_file_id' \in 0..MaxFiles /\ m_current_file' \in BOOLEAN
      /\ files' \subseteq 1..MaxFiles /\ logs' \in [1..MaxFiles -> Seq(Op)]
      /\ loc' \in [Threads -> Op] /\ files' \subseteq 1..m_current_file_id'
      /\ m_current_file' => m_current_file_id' \in files'
      /\ \A f \in 1..MaxFiles : f \notin files' => logs'[f] = <<>>
  <2>0. /\ m_current_file_id \in 0..MaxFiles /\ files \subseteq 1..MaxFiles
        /\ logs \in [1..MaxFiles -> Seq(Op)] /\ loc \in [Threads -> Op]
        /\ m_current_file \in BOOLEAN
        /\ files \subseteq 1..m_current_file_id
        /\ m_current_file => m_current_file_id \in files
        /\ \A f \in 1..MaxFiles : f \notin files => logs[f] = <<>>
    BY <1>1 DEF Base, Typed, NewestWritten
  <2>1. CASE UNCHANGED <<loc, m_current_file_id, m_current_file, files, logs>>
    <3>1. /\ m_current_file_id' \in 0..MaxFiles /\ files' \subseteq 1..MaxFiles
          /\ files' \subseteq 1..m_current_file_id'
          /\ loc' \in [Threads -> Op] /\ logs' \in [1..MaxFiles -> Seq(Op)]
      BY <2>0, <2>1
    <3>2. m_current_file' \in BOOLEAN /\ (m_current_file' => m_current_file_id' \in files')
      BY <2>0, <2>1
    <3>3. \A f \in 1..MaxFiles : f \notin files' => logs'[f] = <<>>
      BY <2>0, <2>1
    <3> QED
      BY <3>1, <3>2, <3>3
  <2>2. CASE /\ m_current_file_id < MaxFiles /\ m_current_file_id' = m_current_file_id + 1
             /\ m_current_file' = TRUE /\ files' = files \cup {m_current_file_id'}
             /\ logs' = [logs EXCEPT ![m_current_file_id'] = <<>>]
             /\ loc' = loc
    <3>1. m_current_file_id' \in 1..MaxFiles
      BY <1>a, <2>0, <2>2
    <3>2. logs' \in [1..MaxFiles -> Seq(Op)]
      <4>1. <<>> \in Seq(Op)
        OBVIOUS
      <4> QED
        BY <2>0, <2>2, <4>1
    <3>3. files' \subseteq 1..MaxFiles /\ files' \subseteq 1..m_current_file_id'
      <4>1. \A f \in files : f \in 1..m_current_file_id'
        BY <1>a, <2>0, <2>2, <3>1
      <4>2. m_current_file_id' \in 1..m_current_file_id'
        BY <3>1
      <4> QED
        BY <2>0, <2>2, <3>1, <4>1, <4>2
    <3>4. \A f \in 1..MaxFiles : f \notin files' => logs'[f] = <<>>
      BY <2>0, <2>2
    <3>5. m_current_file_id' \in files' /\ m_current_file' \in BOOLEAN /\ loc' \in [Threads -> Op]
      BY <2>0, <2>2
    <3> QED
      BY <1>a, <3>1, <3>2, <3>3, <3>4, <3>5
  <2>3. CASE /\ m_current_file_id < MaxFiles /\ m_current_file_id' = m_current_file_id + 1
             /\ m_current_file' = FALSE /\ UNCHANGED <<files, logs>>
             /\ loc' = [loc EXCEPT ![t] = NoOp]
    <3>1. m_current_file_id' \in 0..MaxFiles /\ files' \subseteq 1..m_current_file_id'
      <4>1. \A f \in files : f \in 1..m_current_file_id'
        BY <1>a, <2>0, <2>3
      <4>2. m_current_file_id' \in 0..MaxFiles
        BY <1>a, <2>0, <2>3
      <4> QED
        BY <2>3, <4>1, <4>2
    <3>2. loc' \in [Threads -> Op]
      BY <2>0, <2>3, NoOpTyped
    <3> QED
      BY <2>0, <2>3, <3>1, <3>2
  <2> QED
    BY <2>1, <2>2, <2>3 DEF OpenNewFile
<1>5. /\ UNCHANGED <<up, m_tasks, m_sem, m_current_op_id, m_current_task_id, last_dump, adds,
                     starts, dump_lives>>
  BY DEF OpenNewFile, history
<1>6. Typed'
  <2>1. pc' \in [Threads -> Labels]
    BY <1>2, <1>3 DEF Base, Typed, Goto, Labels
  <2> QED
    BY <1>4, <1>5, <2>1 DEF Base, Typed, Labels
<1>7. Down' /\ NewestWritten' /\ DumpNamed'
  BY <1>1, <1>4, <1>5 DEF Base, Down, NewestWritten, DumpNamed
<1>8. PermitFindsTask'
  BY <1>1, <1>2, <1>3, <1>5, PermitsKept
<1> QED
  BY <1>6, <1>7, <1>8 DEF Base

\* The ids of a record touch neither files nor permits.
LEMMA BaseIds ==
  ASSUME Base, NEW t \in Threads, AddIds(t) \/ DelIds(t)
  PROVE  Base'
<1>0. PICK l \in Labels \ {"permit", "add_post"} : Goto(t, l)
  BY DEF AddIds, DelIds, Labels
<1>1. up /\ up' = up /\ pc[t] \notin {"permit", "add_post"}
  BY DEF AddIds, DelIds, At
<1>2. /\ UNCHANGED <<m_tasks, m_sem, m_current_file, m_current_file_id, files, logs, last_dump, adds,
                     starts, dump_lives>>
  BY DEF AddIds, DelIds, diskVars, history, bounds
<1>3. m_current_op_id' \in Nat /\ m_current_task_id' \in Nat
  BY DEF Base, Typed, AddIds, DelIds
<1>4. loc' \in [Threads -> Op]
  <2>1. loc[t] \in Op /\ m_current_file_id \in Nat
    BY EQueueAssumption DEF Base, Typed
  <2>2. CASE AddIds(t)
    <3>1. [cmd |-> "ADD", op_id |-> m_current_op_id', file_id |-> m_current_file_id,
           id |-> m_current_task_id', cont |-> loc[t].cont] \in Op
      BY <1>3, <2>1 DEF Op
    <3> QED
      BY <2>2, <3>1 DEF AddIds, Base, Typed
  <2>3. CASE DelIds(t)
    <3>1. [cmd |-> "DEL", op_id |-> m_current_op_id', file_id |-> 0,
           id |-> loc[t].id, cont |-> loc[t].cont] \in Op
      BY <1>3, <2>1 DEF Op
    <3> QED
      BY <2>3, <3>1 DEF DelIds, Base, Typed
  <2> QED
    BY <2>2, <2>3
<1>5. Typed'
  <2>1. pc' \in [Threads -> Labels]
    BY <1>0 DEF Base, Typed, Goto, Labels
  <2> QED
    BY <1>1, <1>2, <1>3, <1>4, <2>1 DEF Base, Typed, Labels
<1>6. Down' /\ NewestWritten' /\ DumpNamed'
  BY <1>1, <1>2 DEF Base, Down, NewestWritten, DumpNamed
<1>7. PermitFindsTask'
  BY <1>0, <1>1, <1>2, PermitsKept
<1> QED
  BY <1>5, <1>6, <1>7 DEF Base

\* A thread whose write fails goes out with nothing.
LEMMA BaseWriteFails ==
  ASSUME Base, NEW t \in Threads, NEW a, WriteFails(t, a), a \notin {"permit", "add_post"}
  PROVE  Base'
<1>1. up /\ up' = up /\ pc[t] = a /\ "out" \in Labels /\ Goto(t, "out")
  BY DEF WriteFails, At, Labels
<1>2. UNCHANGED <<m_tasks, m_sem, m_current_file, m_current_file_id, m_current_op_id,
                  m_current_task_id, files, logs, last_dump, adds, starts, dump_lives>>
  BY DEF WriteFails, memVars, diskVars, history
<1>3. Typed'
  <2>1. pc' \in [Threads -> Labels] /\ loc' \in [Threads -> Op]
    BY <1>1, NoOpTyped DEF Base, Typed, Goto, Labels, WriteFails
  <2> QED
    BY <1>1, <1>2, <2>1 DEF Base, Typed, Labels
<1>4. Down' /\ NewestWritten' /\ DumpNamed'
  BY <1>1, <1>2 DEF Base, Down, NewestWritten, DumpNamed
<1>5. PermitFindsTask'
  BY <1>1, <1>2, PermitsKept
<1> QED
  BY <1>3, <1>4, <1>5 DEF Base

\* A record goes to the open file, the newest.
LEMMA BaseWritten ==
  ASSUME Base, NEW t \in Threads, NEW l \in Labels \ {"permit", "add_post"}, NEW o \in Op,
         Goto(t, l), up, m_current_file, pc[t] \notin {"permit", "add_post"},
         logs' = [logs EXCEPT ![m_current_file_id] = Append(@, o)],
         loc' = loc \/ loc' = [loc EXCEPT ![t] = NoOp],
         UNCHANGED <<up, memVars, files, last_dump, adds, dump_lives, starts, dumps>>
  PROVE  Base'
<1>1. UNCHANGED <<m_tasks, m_sem, m_current_file, m_current_file_id, m_current_op_id,
                  m_current_task_id, starts>>
  BY DEF memVars
<1>2. m_current_file_id \in files /\ files \subseteq 1..MaxFiles /\ m_current_file_id \in 1..MaxFiles
  BY DEF Base, Typed, NewestWritten
<1>3. logs' \in [1..MaxFiles -> Seq(Op)]
  <2>1. Append(logs[m_current_file_id], o) \in Seq(Op)
    BY <1>2, AppendProperties DEF Base, Typed
  <2> QED
    BY <2>1 DEF Base, Typed
<1>4. Typed'
  <2>1. pc' \in [Threads -> Labels] /\ loc' \in [Threads -> Op]
    BY NoOpTyped DEF Base, Typed, Goto, Labels
  <2> QED
    BY <1>1, <1>3, <2>1 DEF Base, Typed, Labels
<1>5. Down' /\ NewestWritten' /\ DumpNamed'
  BY <1>1, <1>2 DEF Base, Typed, Down, NewestWritten, DumpNamed
<1>6. PermitFindsTask'
  BY <1>1, PermitsKept
<1> QED
  BY <1>4, <1>5, <1>6 DEF Base

\* A thread whose record a failed fflush loses goes on without it.
LEMMA BaseUnflushed ==
  ASSUME Base, NEW t \in Threads, NEW l \in Labels \ {"permit", "add_post"}, Goto(t, l), up,
         pc[t] \notin {"permit", "add_post"}, Unflushed(t),
         loc' = loc \/ loc' = [loc EXCEPT ![t] = NoOp],
         UNCHANGED <<up, memVars, files, last_dump, adds, dump_lives, starts, dumps>>
  PROVE  Base'
<1>1. UNCHANGED <<m_tasks, m_sem, m_current_file, m_current_file_id, m_current_op_id,
                  m_current_task_id, logs>>
  BY DEF memVars, Unflushed
<1>2. Typed'
  <2>1. pc' \in [Threads -> Labels] /\ loc' \in [Threads -> Op]
    BY NoOpTyped DEF Base, Typed, Goto, Labels
  <2> QED
    BY <1>1, <2>1 DEF Base, Typed, Labels
<1>3. Down' /\ NewestWritten' /\ DumpNamed'
  BY <1>1 DEF Base, Down, NewestWritten, DumpNamed
<1>4. PermitFindsTask'
  BY <1>1, PermitsKept
<1> QED
  BY <1>2, <1>3, <1>4 DEF Base

\* The ends of save_task_to_file.
LEMMA BaseAddSave ==
  ASSUME Base, NEW t \in Threads, AddSave(t)
  PROVE  Base'
<1>1. CASE WriteKills(t, "add_save")
  BY <1>1, BaseDies DEF WriteKills
<1>2. CASE WriteFails(t, "add_save")
  BY <1>2, BaseWriteFails
<1>3. CASE /\ At(t, "add_save") /\ (Written(t, loc[t]) \/ Unflushed(t)) /\ Goto(t, "add_task")
           /\ UNCHANGED <<up, memVars, loc, files, last_dump, adds, accepted, deleted, dump_lives,
                          starts, dumps>>
  <2>1. loc[t] \in Op /\ "add_task" \in Labels \ {"permit", "add_post"}
    BY DEF Base, Typed, Labels
  <2>2. CASE Written(t, loc[t])
    BY <1>3, <2>1, <2>2, BaseWritten DEF At, Written, Put
  <2>3. CASE Unflushed(t)
    BY <1>3, <2>1, <2>3, BaseUnflushed DEF At
  <2> QED
    BY <1>3, <2>2, <2>3
<1> QED
  BY <1>1, <1>2, <1>3 DEF AddSave

\* The ends of a delete's write.
LEMMA BaseDelWrite ==
  ASSUME Base, NEW t \in Threads, DelWrite(t)
  PROVE  Base'
<1>1. CASE WriteKills(t, "del_write")
  BY <1>1, BaseDies DEF WriteKills
<1>2. CASE WriteFails(t, "del_write")
  BY <1>2, BaseWriteFails
<1>3. CASE ~WriteKills(t, "del_write") /\ ~WriteFails(t, "del_write")
  <2>1. [loc[t] EXCEPT !.cont = NoCont] \in Op /\ "out" \in Labels \ {"permit", "add_post"}
    BY DEF Base, Typed, Labels, NoCont, Op
  <2>2. /\ At(t, "del_write")
        /\ Written(t, [loc[t] EXCEPT !.cont = NoCont]) \/ Unflushed(t)
        /\ loc' = [loc EXCEPT ![t] = NoOp] /\ Goto(t, "out")
        /\ UNCHANGED <<up, memVars, files, last_dump, adds, dump_lives, starts, dumps>>
    BY <1>3 DEF DelWrite
  <2>3. CASE Written(t, [loc[t] EXCEPT !.cont = NoCont])
    BY <2>1, <2>2, <2>3, BaseWritten DEF At, Written, Put
  <2>4. CASE Unflushed(t)
    BY <2>1, <2>2, <2>4, BaseUnflushed DEF At
  <2> QED
    BY <2>2, <2>3, <2>4
<1> QED
  BY <1>1, <1>2, <1>3

\* The four steps that move a permit or a task.
LEMMA PermitMoves ==
  ASSUME Base, NEW t \in Threads, up,
         AddTask(t) \/ AddPost(t) \/ GetWait(t) \/ GetFront(t)
  PROVE  PermitFindsTask'
<1>1. PICK l \in Labels : Goto(t, l) /\ l # pc[t]
  BY DEF AddTask, AddPost, GetWait, GetFront, At, Labels
<1>2. PICK p \in {pc} : p = pc
  OBVIOUS
<1>3. PICK q \in {pc'} : q = pc'
  OBVIOUS
<1>4. "permit" \in Labels /\ "add_post" \in Labels
  BY DEF Labels
<1>5. p \in [Threads -> Labels] /\ q = [p EXCEPT ![t] = l] /\ p[t] # l
  BY <1>1, <1>2, <1>3 DEF Base, Typed, Labels, Goto
<1>6. Passes(p, q, t, l, "permit") /\ Passes(p, q, t, l, "add_post")
  BY <1>4, <1>5, MoveCounts
<1>7. PermitFindsTask' <=> (up' => m_sem' + Cardinality(Where(q, "permit"))
                               + Cardinality(Where(q, "add_post")) = Len(m_tasks'))
  BY <1>3 DEF PermitFindsTask, Those, Where, m_cnt
<1>8. m_sem + Cardinality(Where(p, "permit")) + Cardinality(Where(p, "add_post")) = Len(m_tasks)
  BY <1>2, PermitsAre DEF Base
<1>9. m_tasks \in Seq(Op) /\ m_sem \in Nat /\ Len(m_tasks) \in Nat
  BY LenProperties DEF Base, Typed
<1>10. q[t] = l
  BY <1>5
<1>11. CASE AddTask(t)
  <2>1. p[t] = "add_task" /\ l = "add_post" /\ m_sem' = m_sem /\ m_tasks' = Append(m_tasks, loc[t])
    BY <1>2, <1>3, <1>5, <1>10, <1>11 DEF AddTask, At, Goto
  <2>2. Len(m_tasks') = Len(m_tasks) + 1
    BY <1>9, <2>1, AppendProperties DEF Base, Typed
  <2> QED
    BY <1>6, <1>7, <1>8, <1>9, <2>1, <2>2, SMTT(20) DEF Passes
<1>12. CASE AddPost(t)
  <2>1. p[t] = "add_post" /\ l = "out" /\ m_sem' = m_sem + 1 /\ m_tasks' = m_tasks
    BY <1>2, <1>3, <1>5, <1>10, <1>12 DEF AddPost, At, Goto
  <2> QED
    BY <1>6, <1>7, <1>8, <1>9, <2>1 DEF Passes
<1>13. CASE GetWait(t)
  <2>1. p[t] = "out" /\ l = "permit" /\ m_sem' = m_sem - 1 /\ m_tasks' = m_tasks
    BY <1>2, <1>3, <1>5, <1>10, <1>13 DEF GetWait, At, Goto
  <2> QED
    BY <1>6, <1>7, <1>8, <1>9, <2>1 DEF Passes
<1>14. CASE GetFront(t)
  <2>1. p[t] = "permit" /\ l = "have" /\ m_sem' = m_sem /\ m_tasks' = Tail(m_tasks) /\ m_cnt > 0
    BY <1>2, <1>3, <1>5, <1>10, <1>14 DEF GetFront, At, Goto
  <2>2. Len(m_tasks') = Len(m_tasks) - 1
    BY <1>9, <2>1, HeadTailProperties DEF m_cnt
  <2> QED
    BY <1>6, <1>7, <1>8, <1>9, <2>1, <2>2, SMTT(20) DEF Passes
<1> QED
  BY <1>11, <1>12, <1>13, <1>14

\* A step that moves a permit or a task keeps the rest.
LEMMA BaseMoves ==
  ASSUME Base, NEW t \in Threads, AddTask(t) \/ AddPost(t) \/ GetWait(t) \/ GetFront(t)
  PROVE  Base'
<1>1. up /\ up' = up
  BY DEF AddTask, AddPost, GetWait, GetFront, At
<1>2. UNCHANGED <<m_current_file, m_current_file_id, m_current_op_id, m_current_task_id,
                  files, logs, last_dump, adds, starts, dump_lives>>
  BY DEF AddTask, AddPost, GetWait, GetFront, diskVars, history, bounds
<1>3. m_sem' \in Nat
  BY DEF AddTask, AddPost, GetWait, GetFront, Base, Typed
<1>4. m_tasks' \in Seq(Op) /\ loc' \in [Threads -> Op]
  <2>0. m_tasks \in Seq(Op) /\ loc \in [Threads -> Op] /\ loc[t] \in Op
    BY DEF Base, Typed
  <2>1. CASE AddTask(t)
    BY <2>0, <2>1, AppendProperties DEF AddTask
  <2>2. CASE AddPost(t)
    BY <2>0, <2>2, NoOpTyped DEF AddPost
  <2>3. CASE GetWait(t)
    BY <2>0, <2>3 DEF GetWait
  <2>4. CASE GetFront(t)
    <3>1. m_tasks # <<>>
      BY <2>0, <2>4, EmptySeq DEF GetFront, m_cnt
    <3>2. Head(m_tasks) \in Op /\ Tail(m_tasks) \in Seq(Op)
      BY <2>0, <3>1, HeadTailProperties
    <3> QED
      BY <2>0, <2>4, <3>2 DEF GetFront
  <2> QED
    BY <2>1, <2>2, <2>3, <2>4
<1>5. Typed'
  <2>1. pc' \in [Threads -> Labels]
    BY DEF AddTask, AddPost, GetWait, GetFront, Base, Typed, Goto, Labels
  <2> QED
    BY <1>1, <1>2, <1>3, <1>4, <2>1 DEF Base, Typed, Labels
<1>6. Down' /\ NewestWritten' /\ DumpNamed'
  BY <1>1, <1>2 DEF Base, Down, NewestWritten, DumpNamed
<1>7. PermitFindsTask'
  BY <1>1, PermitMoves
<1> QED
  BY <1>5, <1>6, <1>7 DEF Base

\* Every step.
LEMMA BaseStep == Base /\ [QueueNext]_vars => Base'
<1> SUFFICES ASSUME Base, [QueueNext]_vars PROVE Base'
  OBVIOUS
<1>1. CASE UNCHANGED vars
  <2>1. UNCHANGED <<up, m_tasks, m_current_op_id, m_current_task_id, m_current_file_id,
                    m_current_file, m_sem, pc, loc, files, logs, last_dump, adds, starts, dump_lives>>
    BY <1>1 DEF vars, memVars, threadVars, diskVars, history, bounds
  <2> QED
    BY <2>1 DEF Base, Typed, Down, PermitFindsTask, Those, m_cnt, NewestWritten, DumpNamed
<1>2. CASE Start
  BY <1>2, BaseStart
<1>3. CASE Crash
  BY <1>3, BaseDies DEF Crash
<1>4. CASE Dump
  BY <1>4, BaseDump
<1>5. ASSUME NEW t \in Threads,
             \/ AddEnter(t) \/ AddOpen(t) \/ AddIds(t) \/ AddSave(t) \/ AddTask(t) \/ AddPost(t)
             \/ GetWait(t) \/ GetFront(t) \/ DelOpen(t) \/ DelIds(t) \/ DelWrite(t)
      PROVE  Base'
  <2>1. CASE AddEnter(t)
    BY <2>1, BaseAddEnter
  <2>2. CASE AddOpen(t)
    <3>1. "add_ids" \in Labels \ {"permit", "add_post"}
      BY DEF Labels
    <3> QED
      BY <2>2, <3>1, BaseOpen DEF AddOpen
  <2>3. CASE DelOpen(t)
    <3>1. "del_ids" \in Labels \ {"permit", "add_post"}
      BY DEF Labels
    <3> QED
      BY <2>3, <3>1, BaseOpen DEF DelOpen
  <2>4. CASE AddIds(t) \/ DelIds(t)
    BY <2>4, BaseIds
  <2>5. CASE AddSave(t)
    BY <2>5, BaseAddSave
  <2>6. CASE DelWrite(t)
    BY <2>6, BaseDelWrite
  <2>7. CASE AddTask(t) \/ AddPost(t) \/ GetWait(t) \/ GetFront(t)
    BY <2>7, BaseMoves
  <2> QED
    BY <1>5, <2>1, <2>2, <2>3, <2>4, <2>5, <2>6, <2>7
<1> QED
  BY <1>1, <1>2, <1>3, <1>4, <1>5 DEF QueueNext

\* Types, the state of a dead process, the newest file and the permits hold always.
THEOREM QueueBase == QueueSpec => []Base
  BY BaseInit, BaseStep, PTL DEF QueueSpec

\* assert(m_cnt) in get_front (equeue_imp.cpp): a consumer that got a permit finds a
\* task, whatever writes failed, whenever the process died and was started again.
THEOREM QueuePermits == QueueSpec => []PermitFindsTask
<1>1. Base => PermitFindsTask
  BY DEF Base
<1> QED
  BY <1>1, QueueBase, PTL

-----------------------------------------------------------------------------
(* Steps that write no record                                              *)

\* A thread brings no other payload; and holds nothing more than it did.
SamePayload(t) == Adding(t)' => Adding(t) /\ loc'[t].cont = loc[t].cont
Lighter(t) ==
    /\ Carries(t)' => Carries(t) /\ loc'[t] = loc[t]
    /\ pc'[t] = "add_post" => (pc[t] = "add_post" \/ Carries(t)) /\ loc'[t] = loc[t]
    /\ pc'[t] = "add_save" => pc[t] = "add_save" /\ loc'[t] = loc[t]
    /\ pc'[t] = "del_write" => pc[t] = "del_write"

SameDisk == UNCHANGED <<dump_lives, starts, last_dump, deleted>>
Counting == m_current_task_id <= m_current_task_id' /\ m_current_op_id <= m_current_op_id'

\* What a step has to leave alone for the same records to be known.
LEMMA KnownKept ==
  ASSUME SameDisk
  PROVE  (Whole' <=> Whole) /\ last_dump' = last_dump /\ deleted' = deleted
  BY DEF SameDisk, Whole

\* The order of the records and their counters, under a step that writes none.
LEMMA QuietDisk ==
  ASSUME NEW d \in Seq(Record), Base, Base', OneLife(d), SameDisk, files \subseteq files', up'
            => up /\ Counting
  PROVE  DiskOrdered(d)' /\ Records(d)' /\ Counted(d)'
<1>1. DiskOrdered(d) /\ Records(d) /\ Counted(d)
  BY DEF OneLife
<1>2. (Whole' <=> Whole) /\ last_dump' = last_dump /\ deleted' = deleted
  BY KnownKept
<1>3. DiskOrdered(d)'
  BY <1>1 DEF DiskOrdered
<1>4. Records(d)'
  BY <1>1, <1>2 DEF Records, Seen
<1>5. Counted(d)'
  <2>0. SUFFICES ASSUME up', NEW i \in 1..Len(d), Seen(d[i])'
        PROVE d[i].op.id <= m_current_task_id' /\ d[i].op.op_id <= m_current_op_id'
    BY DEF Counted
  <2>1. d[i].op.id <= m_current_task_id /\ d[i].op.op_id <= m_current_op_id
    BY <1>1, <1>2, <2>0 DEF Counted, Seen
  <2>2. d[i].op.id \in Nat /\ d[i].op.op_id \in Nat
    <3>1. d[i] \in Record
      BY ElementOfSeq
    <3> QED
      BY <3>1 DEF Record, Op
  <2>3. /\ m_current_task_id \in Nat /\ m_current_op_id \in Nat
        /\ m_current_task_id' \in Nat /\ m_current_op_id' \in Nat
    BY DEF Base, Typed
  <2> QED
    BY <2>0, <2>1, <2>2, <2>3 DEF Counting
<1> QED
  BY <1>3, <1>4, <1>5

\* Payloads, under a step that brings none and writes none.
LEMMA QuietPayloads ==
  ASSUME NEW d, OneLife(d), adds' = adds, deleted' = deleted,
         \A t \in Threads : SamePayload(t),
         \A c \in accepted' \ accepted : \E i \in 1..Len(d) : IsAdd(d[i]) /\ d[i].op.cont = c
  PROVE  Payloads(d)'
<1>1. Payloads(d)
  BY DEF OneLife
<1>2. \A t \in Threads : Adding(t)' => Adding(t) /\ loc'[t].cont = loc[t].cont
  BY DEF SamePayload
<1>3. ASSUME NEW t \in Threads, Adding(t)'
      PROVE  /\ loc'[t].cont \in 1..adds'
             /\ \A i \in 1..Len(d) : IsAdd(d[i]) => d[i].op.cont # loc'[t].cont
             /\ \A u \in Threads : Adding(u)' /\ u # t => loc'[u].cont # loc'[t].cont
  BY <1>1, <1>2, <1>3 DEF Payloads
<1>4. \A c \in accepted' \cup deleted' : \E i \in 1..Len(d) : IsAdd(d[i]) /\ d[i].op.cont = c
  BY <1>1 DEF Payloads
<1> QED
  BY <1>1, <1>3, <1>4 DEF Payloads

\* What is held stays on record while no thread takes more.
LEMMA QuietHeld ==
  ASSUME NEW d, OneLife(d), m_tasks' = m_tasks \/ m_tasks' = <<>>,
         \A t \in Threads : Lighter(t)
  PROVE  Backed(d)'
<1>1. Backed(d)
  BY DEF OneLife
<1>2. \A k \in 1..Len(m_tasks') : OnRecord(d, m_tasks'[k])
  BY <1>1 DEF Backed
<1>3. ASSUME NEW t \in Threads, Carries(t)' \/ pc'[t] = "add_post"
      PROVE  OnRecord(d, loc'[t])
  BY <1>1, <1>3 DEF Backed, Lighter
<1>4. \A t \in Threads : pc'[t] = "add_save" => loc'[t].cmd = "ADD"
  BY <1>1 DEF Backed, Lighter
<1>5. \A t \in Threads : pc'[t] = "del_write" => loc'[t].cmd = "DEL"
  <2>1. \A t \in Threads : pc'[t] = "del_write" => Carries(t)'
    BY DEF Carries
  <2> QED
    BY <1>1, <2>1 DEF Backed, Lighter
<1> QED
  BY <1>2, <1>3, <1>4, <1>5 DEF Backed

\* A thread that is busy after such a step was busy with the same before it.
LEMMA BusyLess ==
  ASSUME NEW t \in Threads, Lighter(t), Busy(t)'
  PROVE  Busy(t) /\ loc'[t] = loc[t]
  BY DEF Lighter, Busy

\* Memory and hands, under a step by which no thread takes more.
LEMMA QuietMemory ==
  ASSUME NEW d \in Seq(Record), Base, Base', OneLife(d), SameDisk,
         \/ m_tasks' = m_tasks /\ Counting
         \/ m_tasks' = <<>> /\ \A t \in Threads : ~Busy(t)',
         \A t \in Threads : Lighter(t)
  PROVE  Queue(d)' /\ Hands(d)'
<1>1. Queue(d) /\ Hands(d)
  BY DEF OneLife
<1>2. (Whole' <=> Whole) /\ last_dump' = last_dump /\ deleted' = deleted
  BY KnownKept
<1>3. \A o : Undeleted(d, o)' <=> Undeleted(d, o)
  BY <1>2 DEF Undeleted, Seen
<1>4. \A id : Fresh(d, id)' <=> Fresh(d, id)
  BY <1>2 DEF Fresh, Seen
<1>5. CASE m_tasks' = <<>> /\ \A t \in Threads : ~Busy(t)'
  <2>1. Queue(d)'
    BY <1>5 DEF Queue, DistinctIds
  <2>2. \A t \in Threads : pc'[t] \notin {"add_save", "del_write"} /\ ~Carries(t)'
    BY <1>5 DEF Busy, Carries
  <2> QED
    BY <1>5, <2>1, <2>2 DEF Hands
<1>6. CASE m_tasks' = m_tasks /\ Counting
  <2>1. /\ m_current_task_id \in Nat /\ m_current_op_id \in Nat
        /\ m_current_task_id' \in Nat /\ m_current_op_id' \in Nat
        /\ m_tasks \in Seq(Op) /\ loc \in [Threads -> Op]
    BY DEF Base, Typed
  <2>2. \A k \in 1..Len(m_tasks) : m_tasks[k].id \in Nat
    <3>1. \A k \in 1..Len(m_tasks) : m_tasks[k] \in Op
      BY <2>1, ElementOfSeq
    <3> QED
      BY <3>1 DEF Op
  <2>3. \A t \in Threads : loc[t].id \in Nat /\ loc[t].op_id \in Nat
    BY <2>1 DEF Op
  <2>4. \A t \in Threads : Busy(t)' => Busy(t) /\ loc'[t] = loc[t]
    BY BusyLess
  <2>5. Queue(d)'
    <3>1. \A k \in 1..Len(m_tasks') : m_tasks'[k].id <= m_current_task_id'
      BY <1>1, <1>6, <2>1, <2>2 DEF Queue, Counting
    <3>2. \A k \in 1..Len(m_tasks') : Undeleted(d, m_tasks[k])'
      BY <1>1, <1>2, <1>6 DEF Queue, Undeleted, Seen
    <3>3. \A k \in 1..Len(m_tasks') : \A t \in Threads : Busy(t)' => m_tasks'[k].id # loc'[t].id
      BY <1>1, <1>6, <2>4 DEF Queue
    <3> QED
      BY <1>1, <1>6, <3>1, <3>2, <3>3 DEF Queue, DistinctIds
  <2>6. Hands(d)'
    <3>1. \A t \in Threads : Busy(t)' => loc'[t].id <= m_current_task_id'
      BY <1>1, <1>6, <2>1, <2>3, <2>4 DEF Hands, Counting
    <3>2. \A t, u \in Threads : Busy(t)' /\ Busy(u)' /\ u # t => loc'[u].id # loc'[t].id
      BY <1>1, <2>4 DEF Hands
    <3>3. \A t \in Threads : Carries(t)' => Undeleted(d, loc[t])'
      BY <1>1, <1>2 DEF Hands, Undeleted, Seen, Lighter
    <3>4. \A t \in Threads : pc'[t] = "add_save" => Fresh(d, loc[t].id)'
      <4>1. \A t \in Threads : pc'[t] = "add_save" => Busy(t)'
        BY DEF Busy
      <4> QED
        BY <1>1, <1>2, <2>4, <4>1 DEF Hands, Fresh, Seen, Lighter
    <3>5. \A t \in Threads : pc'[t] \in {"add_save", "del_write"}
              => pc[t] = pc'[t] /\ loc'[t] = loc[t]
      <4>1. \A t \in Threads : pc'[t] \in {"add_save", "del_write"} => Busy(t)'
        BY DEF Busy, Carries
      <4> QED
        BY <2>4, <4>1 DEF Lighter
    <3>6. \A t \in Threads : pc'[t] \in {"add_save", "del_write"}
              => loc'[t].op_id <= m_current_op_id'
      BY <1>1, <1>6, <2>1, <2>3, <3>5 DEF Hands, Counting
    <3>7. \A t \in Threads : pc'[t] = "del_write" =>
             \A i \in 1..Len(d) : Seen(d[i])' /\ d[i].op.id = loc'[t].id
                       => d[i].op.op_id <= loc'[t].op_id
      BY <1>1, <1>2, <3>5 DEF Hands, Seen
    <3> QED
      BY <3>1, <3>2, <3>3, <3>4, <3>6, <3>7 DEF Hands
  <2> QED
    BY <2>5, <2>6
<1> QED
  BY <1>5, <1>6

\* A step that writes no record and by which no thread takes more.
LEMMA Quiet ==
  ASSUME NEW d \in Seq(Record), Base, Base', OneLife(d), SameDisk, files \subseteq files',
         up' => up /\ Counting, adds' = adds,
         \A t \in Threads : Lighter(t) /\ SamePayload(t),
         \A c \in accepted' \ accepted : \E i \in 1..Len(d) : IsAdd(d[i]) /\ d[i].op.cont = c,
         \/ m_tasks' = m_tasks /\ Counting
         \/ m_tasks' = <<>> /\ \A t \in Threads : ~Busy(t)'
  PROVE  OneLife(d)'
<1>1. DiskOrdered(d)' /\ Records(d)' /\ Counted(d)'
  BY QuietDisk
<1>2. Payloads(d)'
  <2>1. deleted' = deleted
    BY DEF SameDisk
  <2> QED
    BY <2>1, QuietPayloads
<1>3. Backed(d)'
  BY QuietHeld
<1>4. Queue(d)' /\ Hands(d)'
  BY QuietMemory
<1> QED
  BY <1>1, <1>2, <1>3, <1>4 DEF OneLife

\* A thread that does not move.
LEMMA Stays ==
  ASSUME NEW t \in Threads, pc'[t] = pc[t], loc'[t] = loc[t]
  PROVE  Lighter(t) /\ SamePayload(t) /\ (Busy(t)' <=> Busy(t))
  BY DEF Lighter, SamePayload, Adding, Carries, Busy

\* A thread that is out, or waits with a permit, holds nothing.
LEMMA OutIsLighter ==
  ASSUME NEW t \in Threads, pc'[t] \in {"out", "permit"}
  PROVE  Lighter(t) /\ SamePayload(t) /\ ~Busy(t)'
  BY DEF Lighter, SamePayload, Adding, Carries, Busy

\* The counters are naturals: what does not change has not fallen.
LEMMA SameCounts ==
  ASSUME Base, m_current_op_id' = m_current_op_id, m_current_task_id' = m_current_task_id
  PROVE  Counting
  BY DEF Base, Typed, Counting

\* The threads that a step does not name.
LEMMA OthersStay ==
  ASSUME Base, NEW t \in Threads, NEW l, Goto(t, l),
         NEW x, loc' = loc \/ loc' = [loc EXCEPT ![t] = x],
         NEW u \in Threads, u # t
  PROVE  pc'[u] = pc[u] /\ loc'[u] = loc[u]
  BY DEF Base, Typed, Goto

\* The thread that a step names.
LEMMA Moves ==
  ASSUME Base, NEW t \in Threads, NEW l, Goto(t, l)
  PROVE  pc'[t] = l
  BY DEF Base, Typed, Goto

\* The death of the process.
LEMMA OneDies ==
  ASSUME NEW d \in Seq(Record), Base, Base', OneLife(d), Dies,
         UNCHANGED <<diskVars, history, bounds>>
  PROVE  OneLife(d)'
<1>1. SameDisk /\ files \subseteq files' /\ adds' = adds /\ accepted' = accepted /\ ~up'
      /\ m_tasks' = <<>>
  BY DEF Dies, diskVars, history, bounds, SameDisk
<1>2. \A t \in Threads : pc'[t] = "out"
  BY DEF Dies
<1>3. \A t \in Threads : Lighter(t) /\ SamePayload(t) /\ ~Busy(t)'
  BY <1>2, OutIsLighter
<1> QED
  BY <1>1, <1>3, Quiet

\* No step.
LEMMA OneStutters ==
  ASSUME NEW d \in Seq(Record), Base, Base', OneLife(d), UNCHANGED vars
  PROVE  OneLife(d)'
<1>1. SameDisk /\ files \subseteq files' /\ adds' = adds /\ accepted' = accepted
      /\ up' = up /\ m_tasks' = m_tasks
  BY DEF vars, memVars, threadVars, diskVars, history, bounds, SameDisk
<1>2. \A t \in Threads : Lighter(t) /\ SamePayload(t)
  BY Stays DEF vars, threadVars
<1>3. Counting
  BY SameCounts DEF vars, memVars
<1> QED
  BY <1>1, <1>2, <1>3, Quiet

\* A write that the disk refuses.
LEMMA OneWriteFails ==
  ASSUME NEW d \in Seq(Record), Base, Base', OneLife(d), NEW t \in Threads, NEW a, WriteFails(t, a)
  PROVE  OneLife(d)'
<1>1. SameDisk /\ files \subseteq files' /\ adds' = adds /\ accepted' = accepted
      /\ up' = up /\ m_tasks' = m_tasks
  BY DEF WriteFails, memVars, diskVars, history, SameDisk
<1>2. \A u \in Threads : Lighter(u) /\ SamePayload(u)
  <2>1. Goto(t, "out") /\ loc' = [loc EXCEPT ![t] = NoOp]
    BY DEF WriteFails
  <2>2. Lighter(t) /\ SamePayload(t)
    BY <2>1, Moves, OutIsLighter
  <2>3. ASSUME NEW u \in Threads, u # t PROVE Lighter(u) /\ SamePayload(u)
    BY <2>1, <2>3, OthersStay, Stays
  <2> QED
    BY <2>2, <2>3
<1>3. Counting
  BY SameCounts DEF WriteFails, memVars
<1> QED
  BY <1>1, <1>2, <1>3, Quiet

\* A file is opened, or fopen fails and the thread goes out.
LEMMA OneOpensFrom ==
  ASSUME NEW d \in Seq(Record), Base, Base', OneLife(d), NEW t \in Threads, NEW a, NEW b,
         OpenNewFile(t, a, b),
         \/ a = "add_open" /\ b = "add_ids"
         \/ a = "have" /\ b = "del_ids"
  PROVE  OneLife(d)'
<1>2. SameDisk /\ adds' = adds /\ accepted' = accepted /\ up' = up /\ m_tasks' = m_tasks
  BY DEF OpenNewFile, history, SameDisk
<1>3. files \subseteq files'
  BY DEF OpenNewFile
<1>4. pc[t] = a
  BY DEF OpenNewFile, At
<1>5. CASE Goto(t, b) /\ loc' = loc
  <2>1. pc'[t] = b
    BY <1>5, Moves
  <2>2. Lighter(t) /\ SamePayload(t)
    BY <1>4, <1>5, <2>1 DEF Lighter, SamePayload, Adding, Carries
  <2>3. ASSUME NEW u \in Threads, u # t PROVE Lighter(u) /\ SamePayload(u)
    BY <1>5, <2>3, OthersStay, Stays
  <2>4. Counting
    BY SameCounts DEF OpenNewFile
  <2> QED
    BY <1>2, <1>3, <2>2, <2>3, <2>4, Quiet
<1>6. CASE Goto(t, "out") /\ loc' = [loc EXCEPT ![t] = NoOp]
  <2>2. Lighter(t) /\ SamePayload(t)
    BY <1>6, Moves, OutIsLighter
  <2>3. ASSUME NEW u \in Threads, u # t PROVE Lighter(u) /\ SamePayload(u)
    BY <1>6, <2>3, OthersStay, Stays
  <2>4. Counting
    BY SameCounts DEF OpenNewFile
  <2> QED
    BY <1>2, <1>3, <2>2, <2>3, <2>4, Quiet
<1> QED
  BY <1>5, <1>6 DEF OpenNewFile

\* The same of add_back and of del.
LEMMA OneOpens ==
  ASSUME NEW d \in Seq(Record), Base, Base', OneLife(d), NEW t \in Threads,
         AddOpen(t) \/ DelOpen(t)
  PROVE  OneLife(d)'
<1>1. CASE AddOpen(t)
  <2>1. OpenNewFile(t, "add_open", "add_ids")
    BY <1>1 DEF AddOpen
  <2> QED
    BY <2>1, OneOpensFrom
<1>2. CASE DelOpen(t)
  <2>1. OpenNewFile(t, "have", "del_ids")
    BY <1>2 DEF DelOpen
  <2> QED
    BY <2>1, OneOpensFrom
<1> QED
  BY <1>1, <1>2

\* add_back returns success: its task is on record; a consumer gets a permit.
LEMMA OnePosts ==
  ASSUME NEW d \in Seq(Record), Base, Base', OneLife(d), NEW t \in Threads,
         AddPost(t) \/ GetWait(t)
  PROVE  OneLife(d)'
<1>1. SameDisk /\ files \subseteq files' /\ adds' = adds /\ up' = up /\ m_tasks' = m_tasks
  BY DEF AddPost, GetWait, diskVars, history, bounds, SameDisk
<1>2. PICK l \in {"out", "permit"} : Goto(t, l)
  BY DEF AddPost, GetWait
<1>3. loc' = loc \/ loc' = [loc EXCEPT ![t] = NoOp]
  BY DEF AddPost, GetWait
<1>4. Lighter(t) /\ SamePayload(t)
  BY <1>2, Moves, OutIsLighter
<1>5. ASSUME NEW u \in Threads, u # t PROVE Lighter(u) /\ SamePayload(u)
  BY <1>2, <1>3, <1>5, OthersStay, Stays
<1>6. \A c \in accepted' \ accepted : \E i \in 1..Len(d) : IsAdd(d[i]) /\ d[i].op.cont = c
  <2>1. CASE AddPost(t)
    <3>1. accepted' = accepted \cup {loc[t].cont} /\ pc[t] = "add_post"
      BY <2>1 DEF AddPost, At
    <3>2. OnRecord(d, loc[t])
      BY <3>1 DEF OneLife, Backed
    <3> QED
      BY <3>1, <3>2 DEF OnRecord
  <2>2. CASE GetWait(t)
    BY <2>2 DEF GetWait, history
  <2> QED
    BY <2>1, <2>2
<1>7. Counting
  BY SameCounts DEF AddPost, GetWait
<1> QED
  BY <1>1, <1>4, <1>5, <1>6, <1>7, Quiet

\* A dump: of one life, so that all records are known before it and after it.
LEMMA OneDump ==
  ASSUME NEW d \in Seq(Record), Base, Base', OneLife(d), Dump, DumpsOfOneLife'
  PROVE  OneLife(d)'
<1>1. UNCHANGED <<up, m_tasks, m_current_op_id, m_current_task_id, m_current_file_id,
                  pc, loc, files, adds, accepted, deleted, starts>>
  BY DEF Dump, threadVars
<1>2. \A r : Seen(r)' <=> Seen(r)
  <2>1. CASE last_dump' = last_dump /\ dump_lives' = dump_lives
    BY <1>1, <2>1 DEF Seen, Whole
  <2>2. CASE dump_lives' = dump_lives \cup {starts}
    <3>1. Whole /\ Whole'
      BY <1>1, <2>2 DEF Whole, DumpsOfOneLife
    <3> QED
      BY <3>1 DEF Seen
  <2> QED
    BY <2>1, <2>2 DEF Dump
<1>3. DiskOrdered(d)' /\ Payloads(d)' /\ Backed(d)'
  BY <1>1 DEF OneLife, DiskOrdered, Payloads, Backed, Adding, Carries
<1>4. Records(d)' /\ Counted(d)'
  BY <1>1, <1>2 DEF OneLife, Records, Counted
<1>5. Queue(d)'
  BY <1>1, <1>2 DEF OneLife, Queue, Undeleted, Busy, Carries
<1>6. Hands(d)'
  BY <1>1, <1>2 DEF OneLife, Hands, Undeleted, Fresh, Busy, Carries
<1> QED
  BY <1>3, <1>4, <1>5, <1>6 DEF OneLife

-----------------------------------------------------------------------------
(* Steps of memory and ids                                                 *)

\* add_back takes a payload that no record and no other thread has.
LEMMA OneAddEnter ==
  ASSUME NEW d \in Seq(Record), Base, Base', OneLife(d), NEW t \in Threads, AddEnter(t)
  PROVE  OneLife(d)'
<1>1. /\ SameDisk /\ files \subseteq files' /\ up' = up /\ m_tasks' = m_tasks
      /\ adds' = adds + 1 /\ accepted' = accepted /\ deleted' = deleted
  BY DEF AddEnter, memVars, diskVars, bounds, SameDisk
<1>2. pc'[t] = "add_open" /\ pc[t] = "out" /\ loc'[t].cont = adds + 1
  <2>1. pc'[t] = "add_open" /\ pc[t] = "out"
    BY Moves DEF AddEnter, At
  <2>2. loc'[t] = [NoOp EXCEPT !.cont = adds']
    BY DEF AddEnter, Base, Typed
  <2>3. loc'[t].cont = adds'
    BY <2>2 DEF NoOp
  <2> QED
    BY <1>1, <2>1, <2>3
<1>3. \A u \in Threads : u # t => pc'[u] = pc[u] /\ loc'[u] = loc[u]
  BY DEF AddEnter, Base, Typed, Goto
<1>4. \A u \in Threads : Lighter(u)
  <2>1. Lighter(t)
    BY <1>2 DEF Lighter, Carries
  <2> QED
    BY <1>3, <2>1, Stays
<1>5. Counting
  BY SameCounts DEF AddEnter, memVars
<1>6. DiskOrdered(d)' /\ Records(d)' /\ Counted(d)'
  BY <1>1, <1>5, QuietDisk
<1>7. Backed(d)' /\ Queue(d)' /\ Hands(d)'
  BY <1>1, <1>4, <1>5, QuietHeld, QuietMemory
<1>8. Payloads(d)'
  <2>1. Payloads(d) /\ adds \in Nat
    BY DEF OneLife, Base, Typed
  <2>2. \A i \in 1..Len(d) : IsAdd(d[i]) => d[i].op.cont \in 1..adds /\ d[i].op.cont # adds + 1
    BY <2>1 DEF Payloads
  <2>3. \A u \in Threads : Adding(u) => loc[u].cont \in 1..adds /\ loc[u].cont # adds + 1
    BY <2>1 DEF Payloads
  <2>4. \A u \in Threads : Adding(u)' => u = t \/ (Adding(u) /\ loc'[u] = loc[u])
    BY <1>3 DEF Adding
  <2>5. ASSUME NEW u \in Threads, Adding(u)'
        PROVE  /\ loc'[u].cont \in 1..adds'
               /\ \A i \in 1..Len(d) : IsAdd(d[i]) => d[i].op.cont # loc'[u].cont
               /\ \A v \in Threads : Adding(v)' /\ v # u => loc'[v].cont # loc'[u].cont
    <3>1. loc'[u].cont \in 1..adds'
      BY <1>1, <1>2, <2>1, <2>3, <2>4, <2>5
    <3>2. \A i \in 1..Len(d) : IsAdd(d[i]) => d[i].op.cont # loc'[u].cont
      BY <1>2, <2>1, <2>2, <2>4, <2>5 DEF Payloads
    <3>3. \A v \in Threads : Adding(v)' /\ v # u => loc'[v].cont # loc'[u].cont
      BY <1>2, <2>1, <2>3, <2>4, <2>5 DEF Payloads
    <3> QED
      BY <3>1, <3>2, <3>3
  <2>6. \A i \in 1..Len(d) : IsAdd(d[i]) => d[i].op.cont \in 1..adds'
    BY <1>1, <2>1, <2>2
  <2> QED
    BY <1>1, <2>1, <2>5, <2>6 DEF Payloads
<1> QED
  BY <1>6, <1>7, <1>8 DEF OneLife

\* The ids are the next ones: above all that are known.
LEMMA OneAddIds ==
  ASSUME NEW d \in Seq(Record), Base, Base', OneLife(d), NEW t \in Threads, AddIds(t)
  PROVE  OneLife(d)'
<1>1. /\ SameDisk /\ files \subseteq files' /\ up /\ up' /\ m_tasks' = m_tasks
      /\ adds' = adds /\ accepted' = accepted /\ deleted' = deleted
      /\ m_current_op_id' = m_current_op_id + 1 /\ m_current_task_id' = m_current_task_id + 1
  BY DEF AddIds, At, diskVars, history, bounds, SameDisk
<1>2. pc'[t] = "add_save" /\ pc[t] = "add_ids"
  BY Moves DEF AddIds, At
<1>3. /\ loc'[t].cmd = "ADD" /\ loc'[t].op_id = m_current_op_id + 1
      /\ loc'[t].id = m_current_task_id + 1 /\ loc'[t].cont = loc[t].cont
  BY DEF AddIds, Base, Typed
<1>4. \A u \in Threads : u # t => pc'[u] = pc[u] /\ loc'[u] = loc[u]
  BY DEF AddIds, Base, Typed, Goto
<1>5. m_current_task_id \in Nat /\ m_current_op_id \in Nat
  BY DEF Base, Typed
<1>6. DiskOrdered(d)' /\ Records(d)' /\ Counted(d)'
  <2>1. Counting
    BY <1>1, <1>5 DEF Counting
  <2> QED
    BY <1>1, <2>1, QuietDisk
<1>7. Payloads(d)'
  <2>1. \A u \in Threads : SamePayload(u)
    <3>1. SamePayload(t)
      BY <1>2, <1>3 DEF SamePayload, Adding
    <3> QED
      BY <1>4, <3>1, Stays
  <2> QED
    BY <1>1, <2>1, QuietPayloads
<1>8. Backed(d)'
  <2>1. Backed(d)
    BY DEF OneLife
  <2>2. ~Carries(t)'
    BY <1>2 DEF Carries
  <2> QED
    BY <1>1, <1>2, <1>3, <1>4, <2>1, <2>2 DEF Backed, Carries
<1>9. (Whole' <=> Whole) /\ last_dump' = last_dump
  BY <1>1, KnownKept
<1>10. \A u \in Threads : u # t => (Busy(u)' <=> Busy(u)) /\ (Carries(u)' <=> Carries(u))
  BY <1>4 DEF Busy, Carries
<1>11. /\ m_tasks \in Seq(Op) /\ loc \in [Threads -> Op]
       /\ \A k \in 1..Len(m_tasks) : m_tasks[k].id \in Nat
       /\ \A u \in Threads : loc[u].id \in Nat /\ loc[u].op_id \in Nat
  <2>1. m_tasks \in Seq(Op) /\ loc \in [Threads -> Op]
    BY DEF Base, Typed
  <2>2. \A k \in 1..Len(m_tasks) : m_tasks[k] \in Op
    BY <2>1, ElementOfSeq
  <2> QED
    BY <2>1, <2>2 DEF Op
<1>12. Queue(d) /\ Hands(d)
  BY DEF OneLife
<1>13. Queue(d)'
  <2>1. \A k \in 1..Len(m_tasks') : m_tasks'[k].id <= m_current_task_id'
    BY <1>1, <1>5, <1>11, <1>12 DEF Queue
  <2>2. \A k \in 1..Len(m_tasks') : Undeleted(d, m_tasks[k])'
    BY <1>1, <1>9, <1>12 DEF Queue, Undeleted, Seen
  <2>3. \A k \in 1..Len(m_tasks') : \A u \in Threads : Busy(u)' => m_tasks'[k].id # loc'[u].id
    <3>1. \A k \in 1..Len(m_tasks) : m_tasks[k].id # m_current_task_id + 1
      BY <1>5, <1>11, <1>12 DEF Queue
    <3> QED
      BY <1>1, <1>3, <1>4, <1>10, <1>12, <3>1 DEF Queue
  <2> QED
    BY <1>1, <1>12, <2>1, <2>2, <2>3 DEF Queue
<1>14. Hands(d)'
  <2>1. \A u \in Threads : Busy(u) => loc[u].id <= m_current_task_id /\ loc[u].id # m_current_task_id + 1
    BY <1>5, <1>11, <1>12 DEF Hands
  <2>2. \A u \in Threads : Busy(u)' => loc'[u].id <= m_current_task_id'
    <3>1. loc'[t].id <= m_current_task_id'
      BY <1>1, <1>3, <1>5
    <3>2. \A u \in Threads : u # t /\ Busy(u)' => loc'[u].id <= m_current_task_id'
      BY <1>1, <1>4, <1>5, <1>10, <1>11, <2>1
    <3> QED
      BY <3>1, <3>2
  <2>3. \A u, v \in Threads : Busy(u)' /\ Busy(v)' /\ v # u => loc'[v].id # loc'[u].id
    BY <1>3, <1>4, <1>10, <1>12, <2>1 DEF Hands
  <2>4. \A u \in Threads : Carries(u)' => Undeleted(d, loc[u])'
    <3>1. ~Carries(t)'
      BY <1>2 DEF Carries
    <3> QED
      BY <1>1, <1>4, <1>9, <1>10, <1>12, <3>1 DEF Hands, Undeleted, Seen
  <2>5. \A u \in Threads : pc'[u] = "add_save" => Fresh(d, loc[u].id)'
    <3>1. Fresh(d, loc[t].id)'
      <4>1. \A i \in 1..Len(d) : d[i].op.id \in Nat
        <5>1. \A i \in 1..Len(d) : d[i] \in Record
          BY ElementOfSeq
        <5> QED
          BY <5>1 DEF Record, Op
      <4>2. \A i \in 1..Len(d) : Seen(d[i]) => d[i].op.id # m_current_task_id + 1
        BY <1>1, <1>5, <4>1 DEF OneLife, Counted
      <4> QED
        BY <1>3, <1>9, <4>2 DEF Fresh, Seen
    <3> QED
      BY <1>4, <1>9, <1>12, <3>1 DEF Hands, Fresh, Seen
  <2>6. \A u \in Threads : pc'[u] \in {"add_save", "del_write"} => loc'[u].op_id <= m_current_op_id'
    <3>1. \A u \in Threads : pc[u] \in {"add_save", "del_write"} => loc[u].op_id <= m_current_op_id
      BY <1>12 DEF Hands
    <3>2. loc'[t].op_id <= m_current_op_id'
      BY <1>1, <1>3, <1>5
    <3>3. ASSUME NEW u \in Threads, u # t, pc'[u] \in {"add_save", "del_write"}
          PROVE  loc'[u].op_id <= m_current_op_id'
      <4>1. loc[u].op_id <= m_current_op_id /\ loc'[u] = loc[u] /\ loc[u].op_id \in Nat
        BY <1>4, <1>11, <3>1, <3>3
      <4> QED
        BY <1>1, <1>5, <4>1
    <3> QED
      BY <3>2, <3>3
  <2>7. \A u \in Threads : pc'[u] = "del_write" =>
             \A i \in 1..Len(d) : Seen(d[i])' /\ d[i].op.id = loc'[u].id
                       => d[i].op.op_id <= loc'[u].op_id
    BY <1>2, <1>4, <1>9, <1>12 DEF Hands, Seen
  <2> QED
    BY <2>2, <2>3, <2>4, <2>5, <2>6, <2>7 DEF Hands
<1> QED
  BY <1>6, <1>7, <1>8, <1>13, <1>14 DEF OneLife

\* The record of a delete: of the task in hand, with the next op id.
LEMMA OneDelIds ==
  ASSUME NEW d \in Seq(Record), Base, Base', OneLife(d), NEW t \in Threads, DelIds(t)
  PROVE  OneLife(d)'
<1>1. /\ SameDisk /\ files \subseteq files' /\ up /\ up' /\ m_tasks' = m_tasks
      /\ adds' = adds /\ accepted' = accepted /\ deleted' = deleted
      /\ m_current_op_id' = m_current_op_id + 1 /\ m_current_task_id' = m_current_task_id
  BY DEF DelIds, At, diskVars, history, bounds, SameDisk
<1>2. pc'[t] = "del_write" /\ pc[t] = "del_ids"
  BY Moves DEF DelIds, At
<1>3. /\ loc'[t].cmd = "DEL" /\ loc'[t].op_id = m_current_op_id + 1
      /\ loc'[t].id = loc[t].id /\ loc'[t].cont = loc[t].cont
  BY DEF DelIds, Base, Typed
<1>4. \A u \in Threads : u # t => pc'[u] = pc[u] /\ loc'[u] = loc[u]
  BY DEF DelIds, Base, Typed, Goto
<1>5. m_current_task_id \in Nat /\ m_current_op_id \in Nat
  BY DEF Base, Typed
<1>6. DiskOrdered(d)' /\ Records(d)' /\ Counted(d)'
  <2>1. Counting
    BY <1>1, <1>5 DEF Counting
  <2> QED
    BY <1>1, <2>1, QuietDisk
<1>7. Payloads(d)'
  <2>1. \A u \in Threads : SamePayload(u)
    <3>1. SamePayload(t)
      BY <1>2 DEF SamePayload, Adding
    <3> QED
      BY <1>4, <3>1, Stays
  <2> QED
    BY <1>1, <2>1, QuietPayloads
<1>8. \A u \in Threads : /\ (Busy(u)' <=> Busy(u)) /\ (Carries(u)' <=> Carries(u))
                         /\ loc'[u].id = loc[u].id /\ loc'[u].cont = loc[u].cont
  BY <1>2, <1>3, <1>4 DEF Busy, Carries
<1>9. Backed(d)'
  <2>1. Backed(d)
    BY DEF OneLife
  <2>2. \A u \in Threads : Carries(u)' \/ pc'[u] = "add_post" => OnRecord(d, loc'[u])
    <3>1. \A u \in Threads : pc'[u] = "add_post" => pc[u] = "add_post"
      BY <1>2, <1>4
    <3>2. \A u \in Threads : OnRecord(d, loc[u]) => OnRecord(d, loc'[u])
      BY <1>8 DEF OnRecord
    <3> QED
      BY <1>8, <2>1, <3>1, <3>2 DEF Backed
  <2> QED
    BY <1>1, <1>2, <1>3, <1>4, <2>1, <2>2 DEF Backed
<1>10. (Whole' <=> Whole) /\ last_dump' = last_dump
  BY <1>1, KnownKept
<1>11. Queue(d) /\ Hands(d)
  BY DEF OneLife
<1>12. Queue(d)'
  BY <1>1, <1>8, <1>10, <1>11 DEF Queue, Undeleted, Seen
<1>13. Hands(d)'
  <2>2. \A u \in Threads : Busy(u)' => loc'[u].id <= m_current_task_id'
    BY <1>1, <1>8, <1>11 DEF Hands
  <2>3. \A u, v \in Threads : Busy(u)' /\ Busy(v)' /\ v # u => loc'[v].id # loc'[u].id
    BY <1>8, <1>11 DEF Hands
  <2>4. \A u \in Threads : Carries(u)' => Undeleted(d, loc[u])'
    BY <1>1, <1>8, <1>10, <1>11 DEF Hands, Undeleted, Seen
  <2>5. \A u \in Threads : pc'[u] = "add_save" => Fresh(d, loc[u].id)'
    BY <1>2, <1>4, <1>10, <1>11 DEF Hands, Fresh, Seen
  <2>6. \A u \in Threads : pc'[u] \in {"add_save", "del_write"} => loc'[u].op_id <= m_current_op_id'
    <3>1. \A u \in Threads : pc[u] \in {"add_save", "del_write"} => loc[u].op_id <= m_current_op_id
      BY <1>11 DEF Hands
    <3>2. loc'[t].op_id <= m_current_op_id'
      BY <1>1, <1>3, <1>5
    <3>3. \A u \in Threads : loc[u].op_id \in Nat
      BY DEF Base, Typed, Op
    <3> QED
      BY <1>1, <1>4, <1>5, <3>1, <3>2, <3>3
  <2>7. \A u \in Threads : pc'[u] = "del_write" =>
             \A i \in 1..Len(d) : Seen(d[i])' /\ d[i].op.id = loc'[u].id
                       => d[i].op.op_id <= loc'[u].op_id
    <3>1. \A i \in 1..Len(d) : Seen(d[i])' => d[i].op.op_id <= loc'[t].op_id
      <4>1. \A i \in 1..Len(d) : d[i].op.op_id \in Nat
        <5>1. \A i \in 1..Len(d) : d[i] \in Record
          BY ElementOfSeq
        <5> QED
          BY <5>1 DEF Record, Op
      <4>2. \A i \in 1..Len(d) : Seen(d[i])' => d[i].op.op_id <= m_current_op_id
        BY <1>1, <1>10 DEF OneLife, Counted, Seen
      <4> QED
        BY <1>3, <1>5, <4>1, <4>2
    <3> QED
      BY <1>4, <1>10, <1>11, <3>1 DEF Hands, Seen
  <2> QED
    BY <2>2, <2>3, <2>4, <2>5, <2>6, <2>7 DEF Hands
<1> QED
  BY <1>6, <1>7, <1>9, <1>12, <1>13 DEF OneLife

\* Types that the steps of memory need.
LEMMA OpsNumbered ==
  ASSUME Base
  PROVE  /\ m_tasks \in Seq(Op) /\ loc \in [Threads -> Op]
         /\ \A k \in 1..Len(m_tasks) : m_tasks[k] \in Op /\ m_tasks[k].id \in Nat
         /\ \A u \in Threads : loc[u].id \in Nat /\ loc[u].op_id \in Nat
         /\ m_current_task_id \in Nat /\ m_current_op_id \in Nat
<1>1. m_tasks \in Seq(Op) /\ loc \in [Threads -> Op]
  BY DEF Base, Typed
<1>2. \A k \in 1..Len(m_tasks) : m_tasks[k] \in Op
  BY <1>1, ElementOfSeq
<1> QED
  BY <1>1, <1>2 DEF Op, Base, Typed

\* The task in the thread's hand becomes the last in memory.
LEMMA OneAddTask ==
  ASSUME NEW d \in Seq(Record), Base, Base', OneLife(d), NEW t \in Threads, AddTask(t)
  PROVE  OneLife(d)'
<1>1. /\ SameDisk /\ files \subseteq files' /\ up /\ up' /\ loc' = loc
      /\ adds' = adds /\ accepted' = accepted /\ deleted' = deleted
      /\ m_current_op_id' = m_current_op_id /\ m_current_task_id' = m_current_task_id
      /\ m_tasks' = Append(m_tasks, loc[t])
  BY DEF AddTask, At, diskVars, history, bounds, SameDisk
<1>2. pc'[t] = "add_post" /\ pc[t] = "add_task"
  BY Moves DEF AddTask, At
<1>3. \A u \in Threads : u # t => pc'[u] = pc[u]
  BY DEF AddTask, Base, Typed, Goto
<1>4. /\ m_tasks \in Seq(Op) /\ loc[t] \in Op /\ Len(m_tasks) \in Nat
      /\ Len(m_tasks') = Len(m_tasks) + 1 /\ m_tasks'[Len(m_tasks) + 1] = loc[t]
      /\ \A k \in 1..Len(m_tasks) : m_tasks'[k] = m_tasks[k]
  <2>1. m_tasks \in Seq(Op) /\ loc[t] \in Op
    BY OpsNumbered
  <2> QED
    BY <1>1, <2>1, AppendProperties, LenProperties
<1>5. \A k \in 1..Len(m_tasks') : k = Len(m_tasks) + 1 \/ k \in 1..Len(m_tasks)
  BY <1>4
<1>6. DiskOrdered(d)' /\ Records(d)' /\ Counted(d)'
  BY <1>1, SameCounts, QuietDisk
<1>7. Payloads(d)'
  <2>1. \A u \in Threads : SamePayload(u)
    BY <1>1, <1>2, <1>3 DEF SamePayload, Adding
  <2> QED
    BY <1>1, <2>1, QuietPayloads
<1>8. \A u \in Threads : /\ Busy(u)' => Busy(u) /\ u # t
                         /\ Carries(u)' => Carries(u) /\ u # t
                         /\ pc'[u] \in {"add_save", "del_write"} => pc'[u] = pc[u]
  BY <1>2, <1>3 DEF Busy, Carries
<1>9. Carries(t) /\ Busy(t)
  BY <1>2 DEF Carries, Busy
<1>10. Backed(d) /\ Queue(d) /\ Hands(d)
  BY DEF OneLife
<1>11. Backed(d)'
  <2>1. \A k \in 1..Len(m_tasks') : OnRecord(d, m_tasks'[k])
    BY <1>4, <1>5, <1>9, <1>10 DEF Backed
  <2>2. \A u \in Threads : Carries(u)' \/ pc'[u] = "add_post" => OnRecord(d, loc'[u])
    BY <1>1, <1>3, <1>8, <1>9, <1>10 DEF Backed
  <2> QED
    BY <1>1, <1>8, <1>10, <2>1, <2>2 DEF Backed
<1>12. (Whole' <=> Whole) /\ last_dump' = last_dump
  BY <1>1, KnownKept
<1>13. Queue(d)'
  <2>1. \A k \in 1..Len(m_tasks') : m_tasks'[k].id <= m_current_task_id'
    BY <1>1, <1>4, <1>5, <1>9, <1>10 DEF Queue, Hands
  <2>2. \A k \in 1..Len(m_tasks') : Undeleted(d, m_tasks'[k])
    BY <1>4, <1>5, <1>9, <1>10 DEF Queue, Hands
  <2>3. \A k \in 1..Len(m_tasks') : Undeleted(d, m_tasks[k])'
    BY <1>1, <1>12, <2>2 DEF Undeleted, Seen
  <2>4. \A k \in 1..Len(m_tasks') : \A u \in Threads : Busy(u)' => m_tasks'[k].id # loc'[u].id
    BY <1>1, <1>4, <1>5, <1>8, <1>9, <1>10 DEF Queue, Hands
  <2>5. DistinctIds(m_tasks)'
    <3>1. \A k \in 1..Len(m_tasks) : m_tasks[k].id # loc[t].id
      BY <1>9, <1>10 DEF Queue
    <3>2. ASSUME NEW k \in 1..Len(m_tasks'), NEW l \in 1..Len(m_tasks'), k # l
          PROVE  m_tasks'[k].id # m_tasks'[l].id
      <4>1. CASE k = Len(m_tasks) + 1
        BY <1>4, <1>5, <3>1, <3>2, <4>1
      <4>2. CASE l = Len(m_tasks) + 1
        BY <1>4, <1>5, <3>1, <3>2, <4>2
      <4>3. CASE k \in 1..Len(m_tasks) /\ l \in 1..Len(m_tasks)
        BY <1>4, <1>10, <3>2, <4>3 DEF Queue, DistinctIds
      <4> QED
        BY <1>5, <4>1, <4>2, <4>3
    <3> QED
      BY <3>2 DEF DistinctIds
  <2> QED
    BY <2>1, <2>3, <2>4, <2>5 DEF Queue
<1>14. Hands(d)'
  <2>1. \A u \in Threads : Busy(u)' => loc'[u].id <= m_current_task_id'
    BY <1>1, <1>8, <1>10 DEF Hands
  <2>2. \A u, v \in Threads : Busy(u)' /\ Busy(v)' /\ v # u => loc'[v].id # loc'[u].id
    BY <1>1, <1>8, <1>10 DEF Hands
  <2>3. \A u \in Threads : Carries(u)' => Undeleted(d, loc[u])'
    BY <1>1, <1>8, <1>10, <1>12 DEF Hands, Undeleted, Seen
  <2>4. \A u \in Threads : pc'[u] = "add_save" => Fresh(d, loc[u].id)'
    BY <1>1, <1>8, <1>10, <1>12 DEF Hands, Fresh, Seen
  <2>5. \A u \in Threads : pc'[u] \in {"add_save", "del_write"} => loc'[u].op_id <= m_current_op_id'
    BY <1>1, <1>8, <1>10 DEF Hands
  <2>6. \A u \in Threads : pc'[u] = "del_write" =>
             \A i \in 1..Len(d) : Seen(d[i])' /\ d[i].op.id = loc'[u].id
                       => d[i].op.op_id <= loc'[u].op_id
    BY <1>1, <1>8, <1>10, <1>12 DEF Hands, Seen
  <2> QED
    BY <2>1, <2>2, <2>3, <2>4, <2>5, <2>6 DEF Hands
<1> QED
  BY <1>6, <1>7, <1>11, <1>13, <1>14 DEF OneLife

\* The first task in memory comes to the thread's hand.
LEMMA OneGetFront ==
  ASSUME NEW d \in Seq(Record), Base, Base', OneLife(d), NEW t \in Threads, GetFront(t)
  PROVE  OneLife(d)'
<1>1. /\ SameDisk /\ files \subseteq files' /\ up /\ up'
      /\ adds' = adds /\ accepted' = accepted /\ deleted' = deleted
      /\ m_current_op_id' = m_current_op_id /\ m_current_task_id' = m_current_task_id
      /\ m_tasks' = Tail(m_tasks) /\ m_cnt > 0
  BY DEF GetFront, At, diskVars, history, bounds, SameDisk
<1>2. pc'[t] = "have" /\ pc[t] = "permit"
  BY Moves DEF GetFront, At
<1>3. \A u \in Threads : u # t => pc'[u] = pc[u] /\ loc'[u] = loc[u]
  BY DEF GetFront, Base, Typed, Goto
<1>4. /\ m_tasks \in Seq(Op) /\ Len(m_tasks) \in Nat /\ Len(m_tasks) > 0
      /\ Len(m_tasks') = Len(m_tasks) - 1
      /\ \A k \in 1..(Len(m_tasks) - 1) : m_tasks'[k] = m_tasks[k + 1]
      /\ loc'[t] = m_tasks[1]
  <2>1. m_tasks \in Seq(Op) /\ Len(m_tasks) \in Nat
    BY OpsNumbered, LenProperties
  <2>2. m_tasks # <<>> /\ Len(m_tasks) > 0
    BY <1>1, <2>1, EmptySeq DEF m_cnt
  <2>3. /\ Len(Tail(m_tasks)) = Len(m_tasks) - 1
        /\ \A k \in 1..Len(Tail(m_tasks)) : Tail(m_tasks)[k] = m_tasks[k + 1]
        /\ Head(m_tasks) = m_tasks[1]
    BY <2>1, <2>2, HeadTailProperties
  <2>4. loc'[t] = Head(m_tasks)
    BY DEF GetFront, Base, Typed
  <2> QED
    BY <1>1, <2>1, <2>2, <2>3, <2>4
<1>5. /\ 1 \in 1..Len(m_tasks)
      /\ \A k \in 1..Len(m_tasks') : /\ k + 1 \in 1..Len(m_tasks) /\ k + 1 # 1
                                     /\ m_tasks'[k] = m_tasks[k + 1]
  BY <1>4
<1>6. DiskOrdered(d)' /\ Records(d)' /\ Counted(d)'
  BY <1>1, SameCounts, QuietDisk
<1>7. Payloads(d)'
  <2>1. \A u \in Threads : SamePayload(u)
    BY <1>2, <1>3 DEF SamePayload, Adding
  <2> QED
    BY <1>1, <2>1, QuietPayloads
<1>8. \A u \in Threads : u # t => /\ Busy(u)' <=> Busy(u)
                                  /\ Carries(u)' <=> Carries(u)
  BY <1>3 DEF Busy, Carries
<1>10. Backed(d) /\ Queue(d) /\ Hands(d)
  BY DEF OneLife
<1>11. Backed(d)'
  <2>1. \A k \in 1..Len(m_tasks') : OnRecord(d, m_tasks'[k])
    BY <1>5, <1>10 DEF Backed
  <2>2. \A u \in Threads : Carries(u)' \/ pc'[u] = "add_post" => OnRecord(d, loc'[u])
    BY <1>2, <1>3, <1>4, <1>5, <1>8, <1>10 DEF Backed
  <2> QED
    BY <1>2, <1>3, <1>10, <2>1, <2>2 DEF Backed
<1>12. (Whole' <=> Whole) /\ last_dump' = last_dump
  BY <1>1, KnownKept
<1>13. Queue(d)'
  <2>1. \A k \in 1..Len(m_tasks') : m_tasks'[k].id <= m_current_task_id'
    BY <1>1, <1>5, <1>10 DEF Queue
  <2>2. \A k \in 1..Len(m_tasks') : Undeleted(d, m_tasks'[k])
    BY <1>5, <1>10 DEF Queue
  <2>3. \A k \in 1..Len(m_tasks') : Undeleted(d, m_tasks[k])'
    BY <1>1, <1>12, <2>2 DEF Undeleted, Seen
  <2>4. \A k \in 1..Len(m_tasks') : \A u \in Threads : Busy(u)' => m_tasks'[k].id # loc'[u].id
    BY <1>3, <1>4, <1>5, <1>8, <1>10 DEF Queue, DistinctIds
  <2>5. DistinctIds(m_tasks)'
    <3>1. \A k, l \in 1..Len(m_tasks') : k # l => k + 1 # l + 1
      OBVIOUS
    <3> QED
      BY <1>5, <1>10, <3>1 DEF Queue, DistinctIds
  <2> QED
    BY <2>1, <2>3, <2>4, <2>5 DEF Queue
<1>14. Hands(d)'
  <2>1. \A u \in Threads : Busy(u)' => loc'[u].id <= m_current_task_id'
    BY <1>1, <1>3, <1>4, <1>5, <1>8, <1>10 DEF Hands, Queue
  <2>2. \A u, v \in Threads : Busy(u)' /\ Busy(v)' /\ v # u => loc'[v].id # loc'[u].id
    <3>1. \A u \in Threads : u # t /\ Busy(u)' => loc'[u].id # loc'[t].id
      BY <1>3, <1>4, <1>5, <1>8, <1>10 DEF Queue
    <3> QED
      BY <1>3, <1>8, <1>10, <3>1 DEF Hands
  <2>3. \A u \in Threads : Carries(u)' => Undeleted(d, loc[u])'
    <3>1. Undeleted(d, loc[t])'
      BY <1>1, <1>4, <1>5, <1>10, <1>12 DEF Queue, Undeleted, Seen
    <3> QED
      BY <1>1, <1>3, <1>8, <1>10, <1>12, <3>1 DEF Hands, Undeleted, Seen
  <2>4. \A u \in Threads : pc'[u] = "add_save" => Fresh(d, loc[u].id)'
    BY <1>2, <1>3, <1>10, <1>12 DEF Hands, Fresh, Seen
  <2>5. \A u \in Threads : pc'[u] \in {"add_save", "del_write"} => loc'[u].op_id <= m_current_op_id'
    BY <1>1, <1>2, <1>3, <1>10 DEF Hands
  <2>6. \A u \in Threads : pc'[u] = "del_write" =>
             \A i \in 1..Len(d) : Seen(d[i])' /\ d[i].op.id = loc'[u].id
                       => d[i].op.op_id <= loc'[u].op_id
    BY <1>2, <1>3, <1>10, <1>12 DEF Hands, Seen
  <2> QED
    BY <2>1, <2>2, <2>3, <2>4, <2>5, <2>6 DEF Hands
<1> QED
  BY <1>6, <1>7, <1>11, <1>13, <1>14 DEF OneLife

-----------------------------------------------------------------------------
(* Steps that write a record                                               *)

\* The disk after one more record.
Longer(d, e, r) ==
    /\ e \in Seq(Record) /\ r \in Record
    /\ Len(d) \in Nat /\ Len(e) = Len(d) + 1
    /\ \A i \in 1..Len(d) : i \in 1..Len(e) /\ i < Len(d) + 1 /\ e[i] = d[i]
    /\ Len(d) + 1 \in 1..Len(e) /\ e[Len(d) + 1] = r
    /\ \A i \in 1..Len(e) : i = Len(d) + 1 \/ i \in 1..Len(d)

\* An Append is such a disk.
LEMMA LongerIs ==
  ASSUME NEW d \in Seq(Record), NEW r \in Record, NEW e, e = Append(d, r)
  PROVE  Longer(d, e, r)
<1>1. Len(d) \in Nat
  BY LenProperties
<1>2. /\ e \in Seq(Record) /\ Len(e) = Len(d) + 1 /\ e[Len(d) + 1] = r
      /\ \A i \in 1..Len(d) : e[i] = d[i]
  BY AppendProperties
<1> QED
  BY <1>1, <1>2 DEF Longer

\* What was on record stays on record.
LEMMA OnLonger ==
  ASSUME NEW d, NEW e, NEW r, Longer(d, e, r), NEW o, OnRecord(d, o)
  PROVE  OnRecord(e, o)
  BY DEF Longer, OnRecord

\* A record goes to the newest file: it is the last on disk.
LEMMA WriteGrows ==
  ASSUME Base, m_current_file, NEW o \in Op, NEW d, d = OnDisk, NEW e, e = OnDisk',
         logs' = [logs EXCEPT ![m_current_file_id] = Append(@, o)]
  PROVE  /\ m_current_file_id \in files
         /\ Longer(d, e, [file |-> m_current_file_id, op |-> o])
<1>1. m_current_file_id \in files /\ m_current_file_id \in 1..MaxFiles
  BY DEF Base, NewestWritten, Typed
<1>2. up
  BY DEF Base, Down
<1>3. \A f \in 1..MaxFiles : f > m_current_file_id => logs[f] = <<>>
  <2>1. files \subseteq 1..m_current_file_id
    BY <1>2 DEF Base, NewestWritten
  <2> QED
    BY <1>1, <2>1, EQueueAssumption DEF Base, NewestWritten
<1>4. PICK l \in {logs} : l = logs
  OBVIOUS
<1>5. PICK l2 \in {logs'} : l2 = logs'
  OBVIOUS
<1>6. PICK c \in 1..MaxFiles : c = m_current_file_id
  BY <1>1
<1>7. FilesTyped(l)
  BY <1>4 DEF Base, Typed, FilesTyped
<1>8. l2 = [l EXCEPT ![c] = Append(@, o)]
  BY <1>4, <1>5, <1>6
<1>9. FilesTyped(l2) /\ Grown(l, l2, [file |-> c, op |-> o])
  BY <1>3, <1>4, <1>6, <1>7, <1>8, DiskGrows
<1>10. d = Disk(l) /\ e = Disk(l2)
  BY <1>4, <1>5 DEF OnDisk, Disk
<1>11. d \in Seq(Record) /\ [file |-> c, op |-> o] \in Record
  <2>1. c \in Nat
    BY EQueueAssumption
  <2> QED
    BY <1>7, <1>10, <2>1, DiskTyped DEF Record
<1>12. e = Append(d, [file |-> c, op |-> o])
  BY <1>9, <1>10 DEF Grown
<1> QED
  BY <1>1, <1>6, <1>11, <1>12, LongerIs

\* The new record is in the newest file.
LEMMA LongerOrdered ==
  ASSUME Base, Base', NEW d \in Seq(Record), NEW e, NEW r, Longer(d, e, r), OneLife(d),
         r.file = m_current_file_id, m_current_file_id \in files, up,
         r.op.cmd \in {"ADD", "DEL"}, files' = files
  PROVE  DiskOrdered(e)'
<1>1. \A i \in 1..Len(d) : d[i].file \in files /\ d[i].op.cmd \in {"ADD", "DEL"}
  BY DEF OneLife, DiskOrdered
<1>2. \A i, j \in 1..Len(d) : i < j => d[i].file <= d[j].file
  BY DEF OneLife, DiskOrdered
<1>3. \A f \in files : f <= m_current_file_id
  <2>1. files \subseteq 1..m_current_file_id /\ m_current_file_id \in Int
    BY EQueueAssumption DEF Base, NewestWritten, Typed
  <2> QED
    BY <2>1
<1>4. \A i \in 1..Len(e) : e[i].file \in files' /\ e[i].op.cmd \in {"ADD", "DEL"}
  BY <1>1 DEF Longer
<1>5. ASSUME NEW i \in 1..Len(e), NEW j \in 1..Len(e), i < j
      PROVE e[i].file <= e[j].file
  <2>1. i \in 1..Len(d)
    <3>1. Len(e) = Len(d) + 1 /\ Len(d) \in Nat
      BY DEF Longer
    <3> QED
      BY <1>5, <3>1
  <2>2. CASE j = Len(d) + 1
    BY <1>1, <1>3, <2>1, <2>2 DEF Longer
  <2>3. CASE j \in 1..Len(d)
    BY <1>2, <1>5, <2>1, <2>3 DEF Longer
  <2> QED
    BY <2>2, <2>3 DEF Longer
<1> QED
  BY <1>4, <1>5 DEF DiskOrdered

\* The new record is not above the counters.
LEMMA LongerCounted ==
  ASSUME Base, Base', NEW d \in Seq(Record), NEW e, NEW r, Longer(d, e, r), OneLife(d),
         UNCHANGED <<dump_lives, starts, last_dump, m_current_task_id, m_current_op_id>>, up,
         r.op.id <= m_current_task_id, r.op.op_id <= m_current_op_id
  PROVE  Counted(e)'
<1>1. \A i \in 1..Len(d) : Seen(d[i]) => /\ d[i].op.id <= m_current_task_id
                                          /\ d[i].op.op_id <= m_current_op_id
  BY DEF OneLife, Counted
<1>2. \A i \in 1..Len(e) : Seen(e[i]) => /\ e[i].op.id <= m_current_task_id
                                          /\ e[i].op.op_id <= m_current_op_id
  BY <1>1 DEF Longer
<1> QED
  BY <1>2 DEF Counted, Seen, Whole

\* An add record: no other has its id or its payload.
LEMMA OneAddWritten ==
  ASSUME Base, Base', NEW d \in Seq(Record), NEW t \in Threads,
         NEW e, Longer(d, e, [file |-> m_current_file_id, op |-> loc[t]]), OneLife(d),
         m_current_file_id \in files, At(t, "add_save"), Goto(t, "add_task"),
         UNCHANGED <<up, memVars, loc, files, last_dump, adds, accepted, deleted, dump_lives,
                     starts, dumps>>
  PROVE  OneLife(e)'
<1> DEFINE r == [file |-> m_current_file_id, op |-> loc[t]]
           o == loc[t]
           n == Len(d)
<1>1. /\ up /\ up' /\ SameDisk /\ files' = files /\ adds' = adds /\ accepted' = accepted
      /\ deleted' = deleted /\ m_tasks' = m_tasks /\ loc' = loc
      /\ m_current_task_id' = m_current_task_id /\ m_current_op_id' = m_current_op_id
      /\ dump_lives' = dump_lives /\ starts' = starts /\ last_dump' = last_dump
  BY DEF At, memVars, history, bounds, SameDisk
<1>2. pc[t] = "add_save" /\ pc'[t] = "add_task" /\ \A u \in Threads : u # t => pc'[u] = pc[u]
  BY Moves DEF At, Base, Typed, Goto
<1>3. Adding(t) /\ Busy(t) /\ Carries(t)' /\ Busy(t)'
  BY <1>2 DEF Adding, Busy, Carries
<1>4. r.file = m_current_file_id /\ r.op = o /\ Longer(d, e, r)
  OBVIOUS
<1> HIDE DEF r
<1>5. o.cmd = "ADD"
  BY <1>2 DEF OneLife, Backed
<1>6. IsAdd(r) /\ ~IsDel(r)
  BY <1>4, <1>5 DEF IsAdd, IsDel
<1>7. /\ \A i \in 1..n : IsAdd(d[i]) => d[i].op.cont # o.cont
      /\ o.cont \in 1..adds
      /\ \A u \in Threads : Adding(u) /\ u # t => loc[u].cont # o.cont
  BY <1>3 DEF OneLife, Payloads
<1>8. o.cont \notin deleted
  BY <1>7 DEF OneLife, Payloads
<1>9. \A i \in 1..n : Seen(d[i]) => d[i].op.id # o.id
  BY <1>2 DEF OneLife, Hands, Fresh
<1>10. /\ n + 1 \in 1..Len(e) /\ e[n + 1] = r
       /\ \A i \in 1..n : i \in 1..Len(e) /\ e[i] = d[i] /\ i # n + 1
       /\ \A i \in 1..Len(e) : i = n + 1 \/ i \in 1..n
  BY <1>4 DEF Longer
<1> HIDE DEF n
<1>11. \A x : Seen(x)' <=> Seen(x)
  BY <1>1 DEF Seen, Whole
<1>12. \A u \in Threads : /\ Busy(u)' <=> Busy(u)
                          /\ Adding(u)' <=> (Adding(u) /\ u # t)
                          /\ Carries(u)' <=> (Carries(u) \/ u = t)
                          /\ pc'[u] \in {"add_save", "add_post", "del_write"} <=>
                                pc[u] \in {"add_save", "add_post", "del_write"} /\ u # t
                          /\ u # t => pc'[u] = pc[u]
  BY <1>2 DEF Busy, Adding, Carries
<1>13. DiskOrdered(e)'
  BY <1>1, <1>4, <1>5, LongerOrdered
<1>14. Counted(e)'
  <2>1. o.id <= m_current_task_id /\ o.op_id <= m_current_op_id
    BY <1>2, <1>3 DEF OneLife, Hands
  <2> QED
    BY <1>1, <1>4, <2>1, LongerCounted
<1>15. Payloads(e)'
  <2>1. Payloads(d)
    BY DEF OneLife
  <2>2. \A i \in 1..Len(e) : IsAdd(e[i]) => e[i].op.cont \in 1..adds
    BY <1>4, <1>7, <1>10, <2>1 DEF Payloads, n
  <2>3. \A i, j \in 1..Len(e) : i # j /\ IsAdd(e[i]) /\ IsAdd(e[j]) => e[i].op.cont # e[j].op.cont
    BY <1>4, <1>7, <1>10, <2>1 DEF Payloads, n
  <2>4. ASSUME NEW u \in Threads, Adding(u)'
        PROVE  /\ loc[u].cont \in 1..adds
               /\ \A i \in 1..Len(e) : IsAdd(e[i]) => e[i].op.cont # loc[u].cont
               /\ \A v \in Threads : Adding(v)' /\ v # u => loc[v].cont # loc[u].cont
    BY <1>4, <1>7, <1>10, <1>12, <2>1, <2>4 DEF Payloads, n
  <2>5. \A c \in accepted \cup deleted : \E i \in 1..Len(e) : IsAdd(e[i]) /\ e[i].op.cont = c
    BY <1>10, <2>1 DEF Payloads, n
  <2> QED
    BY <1>1, <2>2, <2>3, <2>4, <2>5 DEF Payloads
<1>16. Backed(e)'
  <2>1. Backed(d)
    BY DEF OneLife
  <2>2. \A x : OnRecord(d, x) => OnRecord(e, x)
    BY <1>4, OnLonger
  <2>3. OnRecord(e, loc[t])
    BY <1>4, <1>6, <1>10 DEF OnRecord
  <2>4. \A k \in 1..Len(m_tasks') : OnRecord(e, m_tasks'[k])
    BY <1>1, <2>1, <2>2 DEF Backed
  <2>5. \A u \in Threads : Carries(u)' \/ pc'[u] = "add_post" => OnRecord(e, loc'[u])
    BY <1>1, <1>12, <2>1, <2>2, <2>3 DEF Backed
  <2>6. \A u \in Threads : pc'[u] = "add_save" => loc'[u].cmd = "ADD"
    BY <1>1, <1>2, <2>1 DEF Backed
  <2>7. \A u \in Threads : pc'[u] = "del_write" => loc'[u].cmd = "DEL"
    BY <1>1, <1>2, <2>1 DEF Backed
  <2> QED
    BY <2>4, <2>5, <2>6, <2>7 DEF Backed
<1>17. Records(e)'
  <2>1. Records(d)
    BY DEF OneLife
  <2>2. \A i, j \in 1..Len(e) : i # j /\ IsAdd(e[i]) /\ IsAdd(e[j]) /\ Seen(e[i]) /\ Seen(e[j])
                                => e[i].op.id # e[j].op.id
    BY <1>4, <1>9, <1>10, <2>1 DEF Records, n
  <2>3. ASSUME NEW i \in 1..Len(e), NEW j \in 1..Len(e),
               IsAdd(e[i]), IsDel(e[j]), Seen(e[i]), Seen(e[j]), e[i].op.id = e[j].op.id
        PROVE  i < j /\ e[i].op.cont \in deleted
    <3>1. j \in 1..n
      BY <1>6, <1>10, <2>3
    <3>2. i \in 1..n
      BY <1>4, <1>9, <1>10, <2>3, <3>1
    <3> QED
      BY <1>10, <2>1, <2>3, <3>1, <3>2 DEF Records, n
  <2>4. ASSUME NEW i \in 1..Len(e), IsAdd(e[i]), Seen(e[i]), e[i].op.cont \in deleted
        PROVE  \E j \in 1..Len(e) : i < j /\ IsDel(e[j]) /\ e[j].op.id = e[i].op.id
                                     /\ e[i].op.op_id <= e[j].op.op_id
    <3>1. i \in 1..n
      BY <1>4, <1>8, <1>10, <2>4
    <3>2. PICK j \in 1..n : i < j /\ IsDel(d[j]) /\ d[j].op.id = d[i].op.id
                              /\ d[i].op.op_id <= d[j].op.op_id
      BY <1>10, <2>1, <2>4, <3>1 DEF Records, n
    <3> QED
      BY <1>10, <3>1, <3>2
  <2> QED
    BY <1>1, <1>11, <2>2, <2>3, <2>4 DEF Records
<1>18. \A x : x.id # o.id /\ Undeleted(d, x) => Undeleted(e, x)
  BY <1>4, <1>10 DEF Undeleted, n
<1>19. Undeleted(e, o)
  BY <1>4, <1>6, <1>8, <1>9, <1>10 DEF Undeleted
<1>20. Queue(e)'
  <2>1. Queue(d)
    BY DEF OneLife
  <2>2. \A k \in 1..Len(m_tasks) : Undeleted(e, m_tasks[k])
    BY <1>3, <1>18, <2>1 DEF Queue
  <2>3. \A k \in 1..Len(m_tasks') : Undeleted(e, m_tasks[k])'
    BY <1>1, <1>11, <2>2 DEF Undeleted, Seen
  <2>4. \A k \in 1..Len(m_tasks') : m_tasks'[k].id <= m_current_task_id'
    BY <1>1, <2>1 DEF Queue
  <2>5. \A k \in 1..Len(m_tasks') : \A u \in Threads : Busy(u)' => m_tasks'[k].id # loc'[u].id
    BY <1>1, <1>12, <2>1 DEF Queue
  <2>6. DistinctIds(m_tasks)'
    BY <1>1, <2>1 DEF Queue, DistinctIds
  <2> QED
    BY <2>3, <2>4, <2>5, <2>6 DEF Queue
<1>21. Hands(e)'
  <2>0. Hands(d)
    BY DEF OneLife
  <2>1. \A u \in Threads : Busy(u)' => loc'[u].id <= m_current_task_id'
    BY <1>1, <1>12, <2>0 DEF Hands
  <2>2. \A u, v \in Threads : Busy(u)' /\ Busy(v)' /\ v # u => loc'[v].id # loc'[u].id
    BY <1>1, <1>12, <2>0 DEF Hands
  <2>3. \A u \in Threads : Carries(u)' => Undeleted(e, loc[u])
    <3>1. \A u \in Threads : Carries(u) => Busy(u)
      BY DEF Busy
    <3>2. \A u \in Threads : Carries(u) /\ u # t => loc[u].id # o.id /\ Undeleted(d, loc[u])
      BY <1>3, <2>0, <3>1 DEF Hands
    <3> QED
      BY <1>12, <1>18, <1>19, <3>2
  <2>4. \A u \in Threads : Carries(u)' => Undeleted(e, loc[u])'
    BY <1>1, <1>11, <2>3 DEF Undeleted, Seen
  <2>5. \A u \in Threads : pc'[u] = "add_save" => Fresh(e, loc[u].id)
    <3>1. \A u \in Threads : pc[u] = "add_save" => Busy(u)
      BY DEF Busy
    <3>2. \A u \in Threads : pc'[u] = "add_save" => loc[u].id # o.id /\ Fresh(d, loc[u].id)
      BY <1>2, <1>3, <2>0, <3>1 DEF Hands
    <3> QED
      BY <1>4, <1>10, <3>2 DEF Fresh, n
  <2>6. \A u \in Threads : pc'[u] = "add_save" => Fresh(e, loc[u].id)'
    BY <1>1, <1>11, <2>5 DEF Fresh, Seen
  <2>7. \A u \in Threads : pc'[u] \in {"add_save", "del_write"} => loc'[u].op_id <= m_current_op_id'
    BY <1>1, <1>2, <2>0 DEF Hands
  <2>8. \A u \in Threads : pc'[u] = "del_write" =>
             \A i \in 1..Len(e) : Seen(e[i])' /\ e[i].op.id = loc'[u].id
                       => e[i].op.op_id <= loc'[u].op_id
    <3>1. \A u \in Threads : pc[u] = "del_write" => Busy(u)
      BY DEF Busy, Carries
    <3>2. \A u \in Threads : pc'[u] = "del_write" => pc[u] = "del_write" /\ loc[u].id # o.id
      BY <1>2, <1>3, <2>0, <3>1 DEF Hands
    <3> QED
      BY <1>1, <1>4, <1>10, <1>11, <2>0, <3>2 DEF Hands, n
  <2> QED
    BY <2>1, <2>2, <2>4, <2>6, <2>7, <2>8 DEF Hands
<1> QED
  BY <1>13, <1>14, <1>15, <1>16, <1>17, <1>20, <1>21 DEF OneLife

\* Two tasks on record with one payload have one id.
LEMMA PayloadTells ==
  ASSUME NEW d, Payloads(d), NEW x, NEW y, OnRecord(d, x), OnRecord(d, y), x.cont = y.cont
  PROVE  x.id = y.id
  BY DEF Payloads, OnRecord

\* The delete record of the task in the thread's hand.
LEMMA OneDelWritten ==
  ASSUME Base, Base', NEW d \in Seq(Record), NEW t \in Threads,
         NEW e, Longer(d, e, [file |-> m_current_file_id, op |-> [loc[t] EXCEPT !.cont = NoCont]]),
         OneLife(d), m_current_file_id \in files, At(t, "del_write"), Goto(t, "out"),
         deleted' = deleted \cup {loc[t].cont}, loc' = [loc EXCEPT ![t] = NoOp],
         UNCHANGED <<up, memVars, files, last_dump, adds, accepted, dump_lives, starts, dumps>>
  PROVE  OneLife(e)'
<1> DEFINE q == [loc[t] EXCEPT !.cont = NoCont]
           r == [file |-> m_current_file_id, op |-> q]
           o == loc[t]
           n == Len(d)
<1>1. /\ up /\ up' /\ files' = files /\ adds' = adds /\ accepted' = accepted
      /\ m_tasks' = m_tasks
      /\ m_current_task_id' = m_current_task_id /\ m_current_op_id' = m_current_op_id
      /\ dump_lives' = dump_lives /\ starts' = starts /\ last_dump' = last_dump
  BY DEF At, memVars, bounds
<1>2. /\ pc[t] = "del_write" /\ pc'[t] = "out"
      /\ \A u \in Threads : u # t => pc'[u] = pc[u] /\ loc'[u] = loc[u]
  BY Moves DEF At, Base, Typed, Goto
<1>3. Busy(t) /\ Carries(t)
  BY <1>2 DEF Busy, Carries
<1>4. r.file = m_current_file_id /\ r.op = q /\ Longer(d, e, r)
  OBVIOUS
<1> HIDE DEF r
<1>5. q.cmd = "DEL" /\ q.id = o.id /\ q.op_id = o.op_id
  <2>1. o.cmd = "DEL" /\ o \in Op
    BY <1>2 DEF OneLife, Backed, Base, Typed
  <2> QED
    BY <2>1 DEF Op
<1> HIDE DEF q
<1>6. IsDel(r) /\ ~IsAdd(r)
  BY <1>4, <1>5 DEF IsAdd, IsDel
<1>7. OnRecord(d, o) /\ Undeleted(d, o)
  BY <1>3 DEF OneLife, Backed, Hands
<1>8. \A i \in 1..n : Seen(d[i]) /\ d[i].op.id = o.id => IsAdd(d[i]) /\ d[i].op.cont = o.cont
  BY <1>7 DEF Undeleted
<1>9. \A i \in 1..n : Seen(d[i]) /\ d[i].op.id = o.id => d[i].op.op_id <= o.op_id
  BY <1>2 DEF OneLife, Hands
<1>10. /\ n + 1 \in 1..Len(e) /\ e[n + 1] = r
       /\ \A i \in 1..n : i \in 1..Len(e) /\ e[i] = d[i] /\ i # n + 1 /\ i < n + 1
       /\ \A i \in 1..Len(e) : i = n + 1 \/ i \in 1..n
  BY <1>4 DEF Longer
<1>11. \A x : Seen(x)' <=> Seen(x)
  BY <1>1 DEF Seen, Whole
<1>12. \A u \in Threads : /\ Busy(u)' <=> (Busy(u) /\ u # t)
                          /\ Adding(u)' <=> Adding(u)
                          /\ Carries(u)' <=> (Carries(u) /\ u # t)
                          /\ Adding(u) => u # t
                          /\ pc'[u] \in {"add_save", "add_post", "del_write"} <=>
                                pc[u] \in {"add_save", "add_post", "del_write"} /\ u # t
  BY <1>2 DEF Busy, Adding, Carries
<1>13. DiskOrdered(e)'
  BY <1>1, <1>4, <1>5, LongerOrdered
<1>14. Counted(e)'
  <2>1. o.id <= m_current_task_id /\ o.op_id <= m_current_op_id
    BY <1>2, <1>3 DEF OneLife, Hands
  <2> QED
    BY <1>1, <1>4, <1>5, <2>1, LongerCounted
<1>15. Payloads(e)'
  <2>1. Payloads(d)
    BY DEF OneLife
  <2>2. \A i \in 1..Len(e) : IsAdd(e[i]) => e[i].op.cont \in 1..adds
    BY <1>6, <1>10, <2>1 DEF Payloads, n
  <2>3. \A i, j \in 1..Len(e) : i # j /\ IsAdd(e[i]) /\ IsAdd(e[j]) => e[i].op.cont # e[j].op.cont
    BY <1>6, <1>10, <2>1 DEF Payloads, n
  <2>4. ASSUME NEW u \in Threads, Adding(u)'
        PROVE  /\ loc'[u].cont \in 1..adds
               /\ \A i \in 1..Len(e) : IsAdd(e[i]) => e[i].op.cont # loc'[u].cont
               /\ \A v \in Threads : Adding(v)' /\ v # u => loc'[v].cont # loc'[u].cont
    <3>1. /\ Adding(u) /\ loc'[u] = loc[u]
          /\ \A v \in Threads : Adding(v)' => Adding(v) /\ loc'[v] = loc[v]
      BY <1>2, <1>12, <2>4
    <3> QED
      BY <1>6, <1>10, <2>1, <3>1 DEF Payloads, n
  <2>5. \A c \in accepted \cup deleted : \E i \in 1..Len(e) : IsAdd(e[i]) /\ e[i].op.cont = c
    BY <1>10, <2>1 DEF Payloads, n
  <2>6. \E i \in 1..Len(e) : IsAdd(e[i]) /\ e[i].op.cont = o.cont
    BY <1>7, <1>10 DEF OnRecord, n
  <2> QED
    BY <1>1, <2>2, <2>3, <2>4, <2>5, <2>6 DEF Payloads
<1>16. Backed(e)'
  <2>1. Backed(d)
    BY DEF OneLife
  <2>2. \A x : OnRecord(d, x) => OnRecord(e, x)
    BY <1>4, OnLonger
  <2>4. \A k \in 1..Len(m_tasks') : OnRecord(e, m_tasks'[k])
    BY <1>1, <2>1, <2>2 DEF Backed
  <2>5. \A u \in Threads : Carries(u)' \/ pc'[u] = "add_post" => OnRecord(e, loc'[u])
    BY <1>2, <1>12, <2>1, <2>2 DEF Backed
  <2>6. \A u \in Threads : pc'[u] = "add_save" => loc'[u].cmd = "ADD"
    BY <1>2, <2>1 DEF Backed
  <2>7. \A u \in Threads : pc'[u] = "del_write" => loc'[u].cmd = "DEL"
    BY <1>2, <2>1 DEF Backed
  <2> QED
    BY <2>4, <2>5, <2>6, <2>7 DEF Backed
<1>17. Records(e)'
  <2>1. Records(d)
    BY DEF OneLife
  <2>2. \A i, j \in 1..Len(e) : i # j /\ IsAdd(e[i]) /\ IsAdd(e[j]) /\ Seen(e[i]) /\ Seen(e[j])
                                => e[i].op.id # e[j].op.id
    BY <1>6, <1>10, <2>1 DEF Records, n
  <2>3. ASSUME NEW i \in 1..Len(e), NEW j \in 1..Len(e),
               IsAdd(e[i]), IsDel(e[j]), Seen(e[i]), Seen(e[j]), e[i].op.id = e[j].op.id
        PROVE  i < j /\ e[i].op.cont \in deleted'
    <3>1. i \in 1..n
      BY <1>6, <1>10, <2>3
    <3>2. CASE j \in 1..n
      BY <1>10, <2>1, <2>3, <3>1, <3>2 DEF Records, n
    <3>3. CASE j = n + 1
      BY <1>4, <1>5, <1>8, <1>10, <2>3, <3>1, <3>3
    <3> QED
      BY <1>10, <3>2, <3>3
  <2>4. ASSUME NEW i \in 1..Len(e), IsAdd(e[i]), Seen(e[i]), e[i].op.cont \in deleted'
        PROVE  \E j \in 1..Len(e) : i < j /\ IsDel(e[j]) /\ e[j].op.id = e[i].op.id
                                     /\ e[i].op.op_id <= e[j].op.op_id
    <3>1. i \in 1..n
      BY <1>6, <1>10, <2>4
    <3>2. CASE e[i].op.cont \in deleted
      <4>1. PICK j \in 1..n : i < j /\ IsDel(d[j]) /\ d[j].op.id = d[i].op.id
                                /\ d[i].op.op_id <= d[j].op.op_id
        BY <1>10, <2>1, <2>4, <3>1, <3>2 DEF Records, n
      <4> QED
        BY <1>10, <3>1, <4>1
    <3>3. CASE e[i].op.cont = o.cont
      <4>1. OnRecord(d, d[i].op)
        BY <1>10, <2>4, <3>1 DEF OnRecord, n
      <4>2. d[i].op.id = o.id
        BY <1>7, <1>10, <3>1, <3>3, <4>1, PayloadTells DEF OneLife
      <4>3. d[i].op.op_id <= o.op_id
        BY <1>9, <1>10, <2>4, <3>1, <4>2
      <4> QED
        BY <1>4, <1>5, <1>6, <1>10, <3>1, <4>2, <4>3
    <3> QED
      BY <2>4, <3>2, <3>3
  <2> QED
    BY <1>11, <2>2, <2>3, <2>4 DEF Records
<1>18. ASSUME NEW x, x.id # o.id, OnRecord(d, x), Undeleted(d, x)
       PROVE  Undeleted(e, x) /\ x.cont # o.cont
  <2>1. x.cont # o.cont
    BY <1>7, <1>18, PayloadTells DEF OneLife
  <2> QED
    BY <1>4, <1>5, <1>10, <1>18, <2>1 DEF Undeleted, n
<1>19. Queue(e)'
  <2>1. Queue(d) /\ Backed(d)
    BY DEF OneLife
  <2>2. \A k \in 1..Len(m_tasks) : Undeleted(e, m_tasks[k]) /\ m_tasks[k].cont # o.cont
    BY <1>3, <1>18, <2>1 DEF Queue, Backed
  <2>3. \A k \in 1..Len(m_tasks') : Undeleted(e, m_tasks[k])'
    BY <1>1, <1>11, <2>2 DEF Undeleted, Seen
  <2>4. \A k \in 1..Len(m_tasks') : m_tasks'[k].id <= m_current_task_id'
    BY <1>1, <2>1 DEF Queue
  <2>5. \A k \in 1..Len(m_tasks') : \A u \in Threads : Busy(u)' => m_tasks'[k].id # loc'[u].id
    BY <1>1, <1>2, <1>12, <2>1 DEF Queue
  <2>6. DistinctIds(m_tasks)'
    BY <1>1, <2>1 DEF Queue, DistinctIds
  <2> QED
    BY <2>3, <2>4, <2>5, <2>6 DEF Queue
<1>20. Hands(e)'
  <2>0. Hands(d) /\ Backed(d)
    BY DEF OneLife
  <2>1. \A u \in Threads : Busy(u)' => loc'[u].id <= m_current_task_id'
    BY <1>1, <1>2, <1>12, <2>0 DEF Hands
  <2>2. \A u, v \in Threads : Busy(u)' /\ Busy(v)' /\ v # u => loc'[v].id # loc'[u].id
    BY <1>2, <1>12, <2>0 DEF Hands
  <2>3. \A u \in Threads : Carries(u)' => /\ Undeleted(e, loc[u]) /\ loc[u].cont # o.cont
                                          /\ loc'[u] = loc[u]
    <3>1. \A u \in Threads : Carries(u) => Busy(u)
      BY DEF Busy
    <3>2. \A u \in Threads : Carries(u) /\ u # t =>
             /\ loc[u].id # o.id /\ Undeleted(d, loc[u]) /\ OnRecord(d, loc[u])
      BY <1>3, <2>0, <3>1 DEF Hands, Backed
    <3> QED
      BY <1>2, <1>12, <1>18, <3>2
  <2>4. \A u \in Threads : Carries(u)' => Undeleted(e, loc[u])'
    BY <1>11, <2>3 DEF Undeleted, Seen
  <2>5. \A u \in Threads : pc'[u] = "add_save" => Fresh(e, loc[u].id) /\ loc'[u] = loc[u]
    <3>1. \A u \in Threads : pc[u] = "add_save" => Busy(u)
      BY DEF Busy
    <3>2. \A u \in Threads : pc'[u] = "add_save" => loc[u].id # o.id /\ Fresh(d, loc[u].id)
      BY <1>2, <1>3, <2>0, <3>1 DEF Hands
    <3> QED
      BY <1>2, <1>4, <1>5, <1>10, <3>2 DEF Fresh, n
  <2>6. \A u \in Threads : pc'[u] = "add_save" => Fresh(e, loc[u].id)'
    BY <1>11, <2>5 DEF Fresh, Seen
  <2>7. \A u \in Threads : pc'[u] \in {"add_save", "del_write"} => loc'[u].op_id <= m_current_op_id'
    BY <1>1, <1>2, <2>0 DEF Hands
  <2>8. \A u \in Threads : pc'[u] = "del_write" =>
             \A i \in 1..Len(e) : Seen(e[i])' /\ e[i].op.id = loc'[u].id
                       => e[i].op.op_id <= loc'[u].op_id
    <3>1. \A u \in Threads : pc[u] = "del_write" => Busy(u)
      BY DEF Busy, Carries
    <3>2. \A u \in Threads : pc'[u] = "del_write" =>
             pc[u] = "del_write" /\ loc[u].id # o.id /\ loc'[u] = loc[u]
      BY <1>2, <1>3, <2>0, <3>1 DEF Hands
    <3> QED
      BY <1>4, <1>5, <1>10, <1>11, <2>0, <3>2 DEF Hands, n
  <2> QED
    BY <2>1, <2>2, <2>4, <2>6, <2>7, <2>8 DEF Hands
<1> QED
  BY <1>13, <1>14, <1>15, <1>16, <1>17, <1>19, <1>20 DEF OneLife

-----------------------------------------------------------------------------
(* A start                                                                 *)

\* What a start reads was known before it, and is what is known after it.
LEMMA StartKnows ==
  ASSUME Base, Start, NEW d, OneLife(d), NEW i \in 1..Len(d), d[i] \in Record
  PROVE  /\ Seen(d[i])' <=> IsRead(last_dump, d[i])
         /\ IsRead(last_dump, d[i]) => Seen(d[i])
<1>1. last_dump' = last_dump /\ dump_lives' = dump_lives /\ starts' = starts + 1
  BY DEF Start, diskVars, history
<1>2. dump_lives \subseteq 0..starts /\ starts \in Nat
  BY DEF Base, Typed
<1>3. CASE dump_lives = {}
  <2>1. last_dump = NoDump
    BY <1>3 DEF Base, DumpNamed
  <2>2. d[i].file \in files /\ files \subseteq 1..MaxFiles
    BY DEF OneLife, DiskOrdered, Base, Typed
  <2>3. d[i].file > 0 /\ d[i].op.op_id >= 0
    BY <2>2 DEF Record, Op
  <2>4. IsRead(last_dump, d[i])
    BY <2>1, <2>3 DEF IsRead, NoDump
  <2> QED
    BY <1>1, <2>4 DEF Seen
<1>4. CASE dump_lives # {}
  <2>1. ~Whole'
    <3>1. PICK l \in dump_lives : TRUE
      BY <1>4
    <3>2. l \in dump_lives' /\ l # starts'
      BY <1>1, <1>2, <3>1
    <3> QED
      BY <3>2 DEF Whole
  <2> QED
    BY <1>1, <2>1 DEF Seen
<1> QED
  BY <1>3, <1>4

\* A record that a start would keep is of a task not deleted: the delete's record
\* would be read as well.
LEMMA KeptUndeleted ==
  ASSUME NEW d \in Seq(Record), Base, OneLife(d), NEW i \in 1..Len(d),
         KeptBy(d, last_dump, Len(d), i)
  PROVE  d[i].op.cont \notin deleted
<1> SUFFICES ASSUME d[i].op.cont \in deleted PROVE FALSE
  OBVIOUS
<1>1. IsRead(last_dump, d[i]) /\ IsAdd(d[i]) /\ Seen(d[i])
  BY DEF KeptBy, Seen
<1>2. PICK j \in 1..Len(d) : i < j /\ IsDel(d[j]) /\ d[j].op.id = d[i].op.id
                              /\ d[i].op.op_id <= d[j].op.op_id
  BY <1>1 DEF OneLife, Records
<1>3. d[i].file <= d[j].file
  BY <1>2 DEF OneLife, DiskOrdered
<1>4. d[i] \in Record /\ d[j] \in Record /\ Len(d) \in Nat
  BY ElementOfSeq, LenProperties
<1>5. /\ d[i].file \in Nat /\ d[j].file \in Nat /\ d[i].op.op_id \in Nat /\ d[j].op.op_id \in Nat
      /\ last_dump.log_id \in Nat /\ last_dump.op_id \in Nat
  BY <1>4 DEF Record, Op, DumpNames, Base, Typed
<1>6. IsRead(last_dump, d[j])
  BY <1>1, <1>2, <1>3, <1>5 DEF IsRead
<1>7. j \in (i + 1)..Len(d)
  BY <1>2, <1>4
<1> QED
  BY <1>2, <1>6, <1>7 DEF KeptBy

\* A start: it loads the records that are kept, and knows those that it reads.
LEMMA OneStart ==
  ASSUME Base, Base', Start, NEW d \in Seq(Record), d = OnDisk, OneLife(d)
  PROVE  OneLife(d)'
<1>1. /\ adds' = adds /\ accepted' = accepted /\ deleted' = deleted /\ files' = files
      /\ pc' = pc /\ loc' = loc /\ last_dump' = last_dump /\ up'
      /\ m_current_task_id' = MaxTaskId
      /\ m_current_op_id' = Max0({x.op.op_id : x \in Loaded})
      /\ m_tasks' = Replayed
  BY DEF Start, threadVars, diskVars, history
<1>2. \A t \in Threads : pc[t] = "out"
  BY DEF Start, Base, Down
<1>3. \A i \in 1..Len(d) : d[i] \in Record
  BY ElementOfSeq
<1> DEFINE n == Len(d)
<1>4. \A i \in 1..n : /\ Seen(d[i])' <=> IsRead(last_dump, d[i])
                      /\ IsRead(last_dump, d[i]) => Seen(d[i])
  BY <1>3, StartKnows
<1>5. PICK dump \in DumpNames : dump = last_dump
  BY DEF Base, Typed
<1>6. PICK s \in {m_tasks'} : s = m_tasks'
  OBVIOUS
<1>7. s = ReplayOf(d, dump)
  BY <1>1, <1>5, <1>6 DEF Replayed
<1>8. n \in Nat
  BY LenProperties
<1>9. Keeps(d, dump, n, s)
  <2>1. AddsDiffer(d, dump)
    BY <1>4, <1>5 DEF OneLife, DiskOrdered, Records, AddsDiffer
  <2>2. Keeps(d, dump, Len(d), ReplayOf(d, dump))
    BY <2>1, ReplayKeeps
  <2> QED
    BY <1>7, <2>2
<1> HIDE DEF n
<1>10. \A i \in 1..n : IsRead(dump, d[i]) => /\ d[i].op.id <= m_current_task_id'
                                             /\ d[i].op.op_id <= m_current_op_id'
  <2>1. ASSUME NEW i \in 1..n, IsRead(dump, d[i]) PROVE d[i] \in Loaded
    <3>1. d[i] \in ToSet(OnDisk)
      <4>1. i \in DOMAIN d
        BY LenProperties DEF n
      <4> QED
        BY <4>1 DEF ToSet
    <3> QED
      BY <1>5, <2>1, <3>1 DEF Loaded
  <2>2. Typed
    BY DEF Base
  <2> QED
    BY <1>1, <2>1, <2>2, GreatestRead
<1>11. DiskOrdered(d)'
  BY <1>1 DEF OneLife, DiskOrdered
<1>12. Payloads(d)'
  BY <1>1 DEF OneLife, Payloads, Adding
<1>13. Records(d)'
  BY <1>1, <1>4 DEF OneLife, Records, n
<1>14. Counted(d)'
  BY <1>4, <1>5, <1>10 DEF Counted, n
<1>15. \A k \in 1..Len(s) : \E i \in 1..n : KeptBy(d, dump, n, i) /\ s[k] = d[i].op
  BY <1>9 DEF Keeps
<1>16. Backed(d)'
  <2>1. ASSUME NEW k \in 1..Len(s) PROVE OnRecord(d, s[k])
    <3>1. PICK i \in 1..n : KeptBy(d, dump, n, i) /\ s[k] = d[i].op
      BY <1>15
    <3> QED
      BY <3>1 DEF KeptBy, OnRecord, n
  <2>2. \A t \in Threads : ~Carries(t)' /\ pc'[t] \notin {"add_post", "add_save", "del_write"}
    BY <1>1, <1>2 DEF Carries
  <2> QED
    BY <1>6, <2>1, <2>2 DEF Backed
<1>17. \A t \in Threads : ~Busy(t)' /\ ~Carries(t)' /\ pc'[t] \notin {"add_save", "del_write"}
  BY <1>1, <1>2 DEF Busy, Carries
<1>18. Hands(d)'
  BY <1>17 DEF Hands
<1>19. Queue(d)'
  <2>1. ASSUME NEW k \in 1..Len(s)
        PROVE  /\ s[k].id <= m_current_task_id'
               /\ s[k].cont \notin deleted
               /\ \A j \in 1..n : IsRead(dump, d[j]) /\ d[j].op.id = s[k].id
                                     => IsAdd(d[j]) /\ d[j].op.cont = s[k].cont
    <3>1. PICK i \in 1..n : KeptBy(d, dump, n, i) /\ s[k] = d[i].op
      BY <1>15
    <3>2. IsRead(dump, d[i]) /\ IsAdd(d[i]) /\ Seen(d[i])
      BY <1>4, <1>5, <3>1 DEF KeptBy
    <3>3. ASSUME NEW j \in 1..n, IsRead(dump, d[j]), IsDel(d[j]), d[j].op.id = d[i].op.id
          PROVE  FALSE
      <4>1. Seen(d[j])
        BY <1>4, <1>5, <3>3
      <4>2. i < j
        BY <3>2, <3>3, <4>1 DEF OneLife, Records, n
      <4>3. j \in (i + 1)..n
        BY <1>8, <4>2
      <4> QED
        BY <3>1, <3>3, <4>3 DEF KeptBy
    <3>4. s[k].cont \notin deleted
      BY <1>5, <3>1, KeptUndeleted DEF n
    <3>5. ASSUME NEW j \in 1..n, IsRead(dump, d[j]), d[j].op.id = s[k].id
          PROVE  IsAdd(d[j]) /\ d[j].op.cont = s[k].cont
      <4>1. IsAdd(d[j])
        <5>1. d[j].op.cmd \in {"ADD", "DEL"}
          BY DEF OneLife, DiskOrdered, n
        <5> QED
          BY <3>1, <3>3, <3>5, <5>1 DEF IsAdd, IsDel
      <4>2. j = i
        BY <1>4, <1>5, <3>1, <3>2, <3>5, <4>1 DEF OneLife, Records, n
      <4> QED
        BY <3>1, <4>1, <4>2
    <3>6. s[k].id <= m_current_task_id'
      BY <1>10, <3>1, <3>2
    <3> QED
      BY <3>4, <3>5, <3>6
  <2>2. DistinctIds(s)
    BY <1>9 DEF Keeps
  <2>3. \A k \in 1..Len(m_tasks') : m_tasks'[k].id <= m_current_task_id'
    BY <1>6, <2>1
  <2>4. \A k \in 1..Len(m_tasks') : Undeleted(d, m_tasks[k])'
    BY <1>1, <1>4, <1>5, <1>6, <2>1 DEF Undeleted, n
  <2>5. DistinctIds(m_tasks)'
    BY <1>6, <2>2 DEF DistinctIds
  <2> QED
    BY <1>17, <2>3, <2>4, <2>5 DEF Queue
<1> QED
  BY <1>11, <1>12, <1>13, <1>14, <1>16, <1>18, <1>19 DEF OneLife

-----------------------------------------------------------------------------
(* Every step                                                              *)

\* The initial state: a disk without files, nobody inside.
LEMMA OneInit == Init => \A d \in {OnDisk} : OneLife(d)
<1> SUFFICES ASSUME Init, NEW d, d = OnDisk PROVE OneLife(d)
  OBVIOUS
<1>1. d = <<>> /\ Len(d) = 0
  <2>1. PICK l \in {logs} : l = logs
    OBVIOUS
  <2>2. \A f \in 1..MaxFiles : l[f] = <<>>
    BY <2>1 DEF Init
  <2>3. FilesTyped(l)
    <3>1. Base
      BY BaseInit
    <3> QED
      BY <2>1, <3>1 DEF Base, Typed, FilesTyped
  <2>4. Disk(l) = <<>>
    BY <2>2, <2>3, DiskOfNone
  <2> QED
    BY <2>1, <2>4 DEF OnDisk, Disk
<1>2. /\ \A t \in Threads : pc[t] = "out"
      /\ m_tasks = <<>> /\ accepted = {} /\ deleted = {}
  BY DEF Init
<1>3. \A t \in Threads : ~Adding(t) /\ ~Carries(t) /\ ~Busy(t)
                         /\ pc[t] \notin {"add_post", "add_save", "del_write"}
  BY <1>2 DEF Adding, Carries, Busy
<1>4. DiskOrdered(d) /\ Payloads(d) /\ Records(d) /\ Counted(d)
  BY <1>1, <1>2, <1>3 DEF DiskOrdered, Payloads, Records, Counted
<1>5. Backed(d) /\ Queue(d) /\ Hands(d)
  BY <1>1, <1>2, <1>3 DEF Backed, Queue, Hands, DistinctIds
<1> QED
  BY <1>4, <1>5 DEF OneLife

\* Where nothing is written, the disk is what it was.
LEMMA SameOnDisk ==
  ASSUME logs' = logs
  PROVE  OnDisk' = OnDisk
  BY DEF OnDisk

\* A file that is opened was empty: it was never opened before.
LEMMA OpenedEmpty ==
  ASSUME Base, NEW t \in Threads, AddOpen(t) \/ DelOpen(t)
  PROVE  logs' = logs
<1>1. PICK a \in {"add_open", "have"}, b \in {"add_ids", "del_ids"} : OpenNewFile(t, a, b)
  BY DEF AddOpen, DelOpen
<1>2. CASE UNCHANGED logs
  BY <1>2
<1>3. CASE /\ m_current_file_id < MaxFiles /\ m_current_file_id' = m_current_file_id + 1
           /\ logs' = [logs EXCEPT ![m_current_file_id'] = <<>>]
  <2>1. up /\ m_current_file_id \in Nat /\ MaxFiles \in Nat
    BY <1>1, EQueueAssumption DEF OpenNewFile, At, Base, Typed
  <2>2. m_current_file_id' \in 1..MaxFiles /\ m_current_file_id' \notin files
    BY <1>3, <2>1 DEF Base, NewestWritten
  <2>3. logs[m_current_file_id'] = <<>>
    BY <2>2 DEF Base, NewestWritten
  <2> QED
    BY <1>3, <2>2, <2>3 DEF Base, Typed
<1> QED
  BY <1>1, <1>2, <1>3 DEF OpenNewFile

\* The ends of save_task_to_file, on the disk after it.
LEMMA OneAddSave ==
  ASSUME Base, Base', NEW d \in Seq(Record), d = OnDisk, OneLife(d), NEW t \in Threads, AddSave(t),
         unflushed' = {}, NEW e, e = OnDisk'
  PROVE  OneLife(e)'
<1>1. CASE WriteKills(t, "add_save")
  <2>1. Dies /\ UNCHANGED <<diskVars, history, bounds>> /\ e = d
    BY <1>1, SameOnDisk DEF WriteKills, diskVars
  <2>2. OneLife(d)'
    BY <2>1, OneDies
  <2> QED
    BY <2>1, <2>2
<1>2. CASE WriteFails(t, "add_save")
  <2>1. e = d
    BY <1>2, SameOnDisk DEF WriteFails, diskVars
  <2>2. OneLife(d)'
    BY <1>2, OneWriteFails
  <2> QED
    BY <2>1, <2>2
<1>3. CASE /\ At(t, "add_save") /\ (Written(t, loc[t]) \/ Unflushed(t)) /\ Goto(t, "add_task")
           /\ UNCHANGED <<up, memVars, loc, files, last_dump, adds, accepted, deleted, dump_lives,
                          starts, dumps>>
  <2>a. Written(t, loc[t])
    BY <1>3 DEF Unflushed
  <2>1. PICK o \in Op : o = loc[t]
    BY DEF Base, Typed
  <2>2. logs' = [logs EXCEPT ![m_current_file_id] = Append(@, o)]
    BY <2>a, <2>1 DEF Written, Put
  <2>3. m_current_file_id \in files /\ Longer(d, e, [file |-> m_current_file_id, op |-> o])
    BY <2>a, <2>2, WriteGrows DEF Written
  <2>4. Longer(d, e, [file |-> m_current_file_id, op |-> loc[t]])
    BY <2>1, <2>3
  <2> QED
    BY <1>3, <2>3, <2>4, OneAddWritten
<1> QED
  BY <1>1, <1>2, <1>3 DEF AddSave

\* The ends of a delete's write, on the disk after it.
LEMMA OneDelWrite ==
  ASSUME Base, Base', NEW d \in Seq(Record), d = OnDisk, OneLife(d), NEW t \in Threads, DelWrite(t),
         unflushed' = {}, NEW e, e = OnDisk'
  PROVE  OneLife(e)'
<1>1. CASE WriteKills(t, "del_write")
  <2>1. Dies /\ UNCHANGED <<diskVars, history, bounds>> /\ e = d
    BY <1>1, SameOnDisk DEF WriteKills, diskVars
  <2>2. OneLife(d)'
    BY <2>1, OneDies
  <2> QED
    BY <2>1, <2>2
<1>2. CASE WriteFails(t, "del_write")
  <2>1. e = d
    BY <1>2, SameOnDisk DEF WriteFails, diskVars
  <2>2. OneLife(d)'
    BY <1>2, OneWriteFails
  <2> QED
    BY <2>1, <2>2
<1>3. CASE ~WriteKills(t, "del_write") /\ ~WriteFails(t, "del_write")
  <2>1. /\ At(t, "del_write") /\ m_current_file /\ Goto(t, "out")
        /\ logs' = [logs EXCEPT ![m_current_file_id] = Append(@, [loc[t] EXCEPT !.cont = NoCont])]
        /\ deleted' = deleted \cup {loc[t].cont} /\ loc' = [loc EXCEPT ![t] = NoOp]
        /\ UNCHANGED <<up, memVars, files, last_dump, adds, accepted, dump_lives, starts, dumps>>
    <3>1. Written(t, [loc[t] EXCEPT !.cont = NoCont])
      BY <1>3 DEF DelWrite, Unflushed
    <3> QED
      BY <1>3, <3>1 DEF DelWrite, Written, Put
  <2>2. PICK o \in Op : o = [loc[t] EXCEPT !.cont = NoCont]
    <3>1. [loc[t] EXCEPT !.cont = NoCont] \in Op
      BY DEF Base, Typed, NoCont, Op
    <3> QED
      BY <3>1
  <2>3. logs' = [logs EXCEPT ![m_current_file_id] = Append(@, o)]
    BY <2>1, <2>2
  <2>4. m_current_file_id \in files /\ Longer(d, e, [file |-> m_current_file_id, op |-> o])
    BY <2>1, <2>3, WriteGrows
  <2>5. Longer(d, e, [file |-> m_current_file_id, op |-> [loc[t] EXCEPT !.cont = NoCont]])
    BY <2>2, <2>4
  <2> QED
    BY <2>1, <2>4, <2>5, OneDelWritten
<1> QED
  BY <1>1, <1>2, <1>3

\* Every step, as long as one life only has dumped and no fflush failed.
LEMMA OneStep ==
  ASSUME Base, Base', NEW d, d = OnDisk, OneLife(d), [QueueNext]_vars, DumpsOfOneLife',
         unflushed' = {}, NEW e, e = OnDisk'
  PROVE  OneLife(e)'
<1>1. d \in Seq(Record)
  BY DiskIsTyped DEF Base
<1>2. CASE logs' = logs /\ OneLife(d)'
  <2>1. e = d
    BY <1>2, SameOnDisk
  <2> QED
    BY <1>2, <2>1
<1>3. CASE UNCHANGED vars
  <2>1. logs' = logs
    BY <1>3 DEF vars, diskVars
  <2> QED
    BY <1>1, <1>2, <1>3, <2>1, OneStutters
<1>4. CASE Start
  <2>1. logs' = logs
    BY <1>4 DEF Start, diskVars
  <2> QED
    BY <1>1, <1>2, <1>4, <2>1, OneStart
<1>5. CASE Crash
  <2>1. logs' = logs
    BY <1>5 DEF Crash, diskVars
  <2> QED
    BY <1>1, <1>2, <1>5, <2>1, OneDies DEF Crash
<1>6. CASE Dump
  <2>1. logs' = logs
    BY <1>6 DEF Dump
  <2> QED
    BY <1>1, <1>2, <1>6, <2>1, OneDump
<1>7. ASSUME NEW t \in Threads,
             \/ AddEnter(t) \/ AddOpen(t) \/ AddIds(t) \/ AddSave(t) \/ AddTask(t) \/ AddPost(t)
             \/ GetWait(t) \/ GetFront(t) \/ DelOpen(t) \/ DelIds(t) \/ DelWrite(t)
      PROVE  OneLife(e)'
  <2>1. CASE AddEnter(t)
    <3>1. logs' = logs
      BY <2>1 DEF AddEnter, diskVars
    <3> QED
      BY <1>1, <1>2, <2>1, <3>1, OneAddEnter
  <2>2. CASE AddOpen(t) \/ DelOpen(t)
    <3>1. logs' = logs
      BY <2>2, OpenedEmpty
    <3> QED
      BY <1>1, <1>2, <2>2, <3>1, OneOpens
  <2>3. CASE AddIds(t)
    <3>1. logs' = logs
      BY <2>3 DEF AddIds, diskVars
    <3> QED
      BY <1>1, <1>2, <2>3, <3>1, OneAddIds
  <2>4. CASE DelIds(t)
    <3>1. logs' = logs
      BY <2>4 DEF DelIds, diskVars
    <3> QED
      BY <1>1, <1>2, <2>4, <3>1, OneDelIds
  <2>5. CASE AddTask(t)
    <3>1. logs' = logs
      BY <2>5 DEF AddTask, diskVars
    <3> QED
      BY <1>1, <1>2, <2>5, <3>1, OneAddTask
  <2>6. CASE AddPost(t) \/ GetWait(t)
    <3>1. logs' = logs
      BY <2>6 DEF AddPost, GetWait, diskVars
    <3> QED
      BY <1>1, <1>2, <2>6, <3>1, OnePosts
  <2>7. CASE GetFront(t)
    <3>1. logs' = logs
      BY <2>7 DEF GetFront, diskVars
    <3> QED
      BY <1>1, <1>2, <2>7, <3>1, OneGetFront
  <2>8. CASE AddSave(t)
    BY <1>1, <2>8, OneAddSave
  <2>9. CASE DelWrite(t)
    BY <1>1, <2>9, OneDelWrite
  <2> QED
    BY <1>7, <2>1, <2>2, <2>3, <2>4, <2>5, <2>6, <2>7, <2>8, <2>9
<1> QED
  BY <1>3, <1>4, <1>5, <1>6, <1>7 DEF QueueNext

\* Lives that dumped are never forgotten, nor are records that were lost.
LEMMA DumpLivesGrow ==
  ASSUME [QueueNext]_vars
  PROVE  dump_lives \subseteq dump_lives' /\ unflushed \subseteq unflushed'
<1>1. CASE UNCHANGED vars
  BY <1>1 DEF vars, history
<1>2. CASE Start \/ Crash
  BY <1>2 DEF Start, Crash, history
<1>3. CASE Dump
  BY <1>3 DEF Dump
<1>4. ASSUME NEW t \in Threads,
             \/ AddEnter(t) \/ AddOpen(t) \/ AddIds(t) \/ AddSave(t) \/ AddTask(t) \/ AddPost(t)
             \/ GetWait(t) \/ GetFront(t) \/ DelOpen(t) \/ DelIds(t) \/ DelWrite(t)
      PROVE  dump_lives' = dump_lives /\ unflushed \subseteq unflushed'
  <2>1. CASE AddEnter(t) \/ AddIds(t) \/ AddTask(t) \/ AddPost(t) \/ GetWait(t) \/ GetFront(t) \/ DelIds(t)
    BY <2>1 DEF AddEnter, AddIds, AddTask, AddPost, GetWait, GetFront, DelIds, history
  <2>2. CASE AddOpen(t) \/ DelOpen(t)
    BY <2>2 DEF AddOpen, DelOpen, OpenNewFile, history
  <2>3. CASE AddSave(t)
    BY <2>3 DEF AddSave, WriteKills, WriteFails, Written, Unflushed, history
  <2>4. CASE DelWrite(t)
    BY <2>4 DEF DelWrite, WriteKills, WriteFails, Written, Unflushed, history
  <2> QED
    BY <1>4, <2>1, <2>2, <2>3, <2>4
<1> QED
  BY <1>1, <1>2, <1>3, <1>4 DEF QueueNext

\* The inductive invariant.
THEOREM QueueInductive == QueueSpec => []IInv
<1>1. Init => IInv
  BY BaseInit, OneInit DEF IInv
<1>2. IInv /\ [QueueNext]_vars => IInv'
  <2> SUFFICES ASSUME IInv, [QueueNext]_vars PROVE IInv'
    OBVIOUS
  <2>1. Base /\ Base'
    BY BaseStep DEF IInv
  <2>2. ASSUME DumpsOfOneLife', unflushed' = {}, NEW e \in {OnDisk'} PROVE OneLife(e)'
    <3>1. PICK d \in {OnDisk} : d = OnDisk
      OBVIOUS
    <3>2. OneLife(d)
      BY <2>2, <3>1, DumpLivesGrow DEF IInv, DumpsOfOneLife
    <3> QED
      BY <2>1, <2>2, <3>1, <3>2, OneStep
  <2> QED
    BY <2>1, <2>2 DEF IInv
<1> QED
  BY <1>1, <1>2, PTL DEF QueueSpec

-----------------------------------------------------------------------------
(* From the invariant to the properties                                    *)

\* What a start would load from the disk, in the terms of its records.
LEMMA RecoverableIs ==
  ASSUME Base, NEW d \in Seq(Record), d = OnDisk, OneLife(d)
  PROVE  /\ \A c \in Recoverable : \E i \in 1..Len(d) :
               KeptBy(d, last_dump, Len(d), i) /\ c = d[i].op.cont
         /\ \A i \in 1..Len(d) : KeptBy(d, last_dump, Len(d), i) => d[i].op.cont \in Recoverable
<1>1. PICK dump \in DumpNames : dump = last_dump
  BY DEF Base, Typed
<1>2. PICK s \in {Replayed} : s = Replayed
  OBVIOUS
<1>3. AddsDiffer(d, dump)
  BY <1>1 DEF OneLife, DiskOrdered, Records, AddsDiffer, Seen
<1>4. Keeps(d, dump, Len(d), s)
  <2>1. s = ReplayOf(d, dump)
    BY <1>1, <1>2 DEF Replayed
  <2> QED
    BY <1>3, <2>1, ReplayKeeps
<1>5. DOMAIN s = 1..Len(s)
  BY <1>4, LenProperties DEF Keeps
<1>6. Recoverable = {x.cont : x \in ToSet(s)}
  BY <1>2 DEF Recoverable
<1>7. \A c \in Recoverable : \E k \in 1..Len(s) : c = s[k].cont
  BY <1>5, <1>6 DEF ToSet
<1>8. \A k \in 1..Len(s) : s[k].cont \in Recoverable
  BY <1>5, <1>6 DEF ToSet
<1>9. \A c \in Recoverable : \E i \in 1..Len(d) :
         KeptBy(d, dump, Len(d), i) /\ c = d[i].op.cont
  <2> SUFFICES ASSUME NEW c \in Recoverable
               PROVE  \E i \in 1..Len(d) : KeptBy(d, dump, Len(d), i) /\ c = d[i].op.cont
    OBVIOUS
  <2>1. PICK k \in 1..Len(s) : c = s[k].cont
    BY <1>7
  <2>2. PICK i \in 1..Len(d) : KeptBy(d, dump, Len(d), i) /\ s[k] = d[i].op
    BY <1>4 DEF Keeps
  <2> QED
    BY <2>1, <2>2
<1>10. \A i \in 1..Len(d) : KeptBy(d, dump, Len(d), i) => d[i].op.cont \in Recoverable
  BY <1>4, <1>8 DEF Keeps
<1> QED
  BY <1>1, <1>9, <1>10

\* A task that is not deleted is kept: no delete of its id was written, and until the
\* first dump all records are read.
LEMMA SurvivesBy ==
  ASSUME Base, NEW d \in Seq(Record), d = OnDisk, OneLife(d)
  PROVE  Survives
<1> SUFFICES ASSUME dump_lives = {}, NEW c \in (accepted \ deleted) \ unflushed PROVE c \in Recoverable
  BY DEF Survives
<1>1. PICK i \in 1..Len(d) : IsAdd(d[i]) /\ d[i].op.cont = c
  BY DEF OneLife, Payloads
<1>2. \A j \in 1..Len(d) : IsRead(last_dump, d[j]) /\ Seen(d[j])
  <2> SUFFICES ASSUME NEW j \in 1..Len(d) PROVE IsRead(last_dump, d[j])
    BY DEF Seen
  <2>1. last_dump = NoDump
    BY DEF Base, DumpNamed
  <2>2. d[j] \in Record
    BY ElementOfSeq
  <2>3. d[j].file \in files /\ files \subseteq 1..MaxFiles
    BY DEF OneLife, DiskOrdered, Base, Typed
  <2>4. d[j].file > 0 /\ d[j].op.op_id >= 0
    <3>1. d[j].file \in 1..MaxFiles
      BY <2>3
    <3>2. d[j].op.op_id \in Nat
      BY <2>2 DEF Record, Op
    <3> QED
      BY <3>1, <3>2
  <2> QED
    BY <2>1, <2>4 DEF IsRead, NoDump
<1>3. KeptBy(d, last_dump, Len(d), i)
  <2>1. Len(d) \in Nat
    BY LenProperties
  <2>2. ASSUME NEW j \in (i + 1)..Len(d), IsDel(d[j]), d[j].op.id = d[i].op.id PROVE FALSE
    <3>1. j \in 1..Len(d)
      BY <2>1
    <3>2. d[i].op.cont \in deleted
      BY <1>1, <1>2, <2>2, <3>1 DEF OneLife, Records
    <3> QED
      BY <1>1, <3>2
  <2> QED
    BY <1>1, <1>2, <2>2 DEF KeptBy
<1> QED
  BY <1>1, <1>3, RecoverableIs

\* As many payloads in memory as tasks: no two tasks with one payload.
LEMMA QueuedCount ==
  ASSUME Base, NEW d \in Seq(Record), OneLife(d)
  PROVE  Cardinality(Queued) = m_cnt
<1>1. PICK s \in Seq(Op) : s = m_tasks
  BY DEF Base, Typed
<1>2. Len(s) \in Nat /\ DOMAIN s = 1..Len(s)
  BY LenProperties
<1>3. \A k, l \in 1..Len(s) : k # l => s[k].cont # s[l].cont
  <2> SUFFICES ASSUME NEW k \in 1..Len(s), NEW l \in 1..Len(s), k # l, s[k].cont = s[l].cont
               PROVE  FALSE
    OBVIOUS
  <2>1. OnRecord(d, s[k]) /\ OnRecord(d, s[l])
    BY <1>1 DEF OneLife, Backed
  <2>2. s[k].id = s[l].id
    BY <2>1, PayloadTells DEF OneLife
  <2> QED
    BY <1>1, <2>2 DEF OneLife, Queue, DistinctIds
<1> DEFINE f == [k \in 1..Len(s) |-> s[k].cont]
           Q == {x.cont : x \in ToSet(s)}
<1>4. Queued = Q
  BY <1>1 DEF Queued
<1>5. f \in Bijection(1..Len(s), Q)
  <2>1. \A k \in 1..Len(s) : s[k].cont \in Q
    BY <1>2 DEF ToSet
  <2>2. \A c \in Q : \E k \in 1..Len(s) : s[k].cont = c
    BY <1>2 DEF ToSet
  <2> HIDE DEF Q
  <2>3. f \in [1..Len(s) -> Q]
    BY <2>1
  <2>4. \A k, l \in 1..Len(s) : k # l => f[k] # f[l]
    BY <1>3
  <2>5. \A c \in Q : \E k \in 1..Len(s) : f[k] = c
    BY <2>2
  <2> QED
    BY <2>3, <2>4, <2>5 DEF Bijection, Injection, Surjection, IsInjective
<1>6. IsFiniteSet(1..Len(s)) /\ Cardinality(1..Len(s)) = Len(s)
  <2>1. 1 \in Int /\ Len(s) \in Int
    BY <1>2
  <2>2. Cardinality(1..Len(s)) = (IF 1 > Len(s) THEN 0 ELSE Len(s) - 1 + 1) /\ IsFiniteSet(1..Len(s))
    BY <2>1, FS_Interval
  <2> QED
    BY <1>2, <2>2
<1> HIDE DEF f, Q
<1>7. Cardinality(Q) = Len(s)
  <2>1. ExistsBijection(1..Len(s), Q)
    BY <1>5 DEF ExistsBijection
  <2> QED
    BY <1>6, <2>1, FS_Bijection
<1> QED
  BY <1>1, <1>4, <1>7 DEF m_cnt

\* One place for a payload, because ids tell tasks apart and a payload has one id.
LEMMA NotRedeliveredBy ==
  ASSUME Base, NEW d \in Seq(Record), d = OnDisk, OneLife(d)
  PROVE  NotRedelivered
<1>1. deleted \cap Recoverable = {}
  <2> SUFFICES ASSUME NEW c \in Recoverable PROVE c \notin deleted
    OBVIOUS
  <2>1. PICK i \in 1..Len(d) : KeptBy(d, last_dump, Len(d), i) /\ c = d[i].op.cont
    BY RecoverableIs
  <2> QED
    BY <2>1, KeptUndeleted
<1>2. PICK s \in Seq(Op) : s = m_tasks
  BY DEF Base, Typed
<1>3. \A c \in Queued : \E k \in 1..Len(s) : c = s[k].cont
  <2>1. DOMAIN s = 1..Len(s)
    BY LenProperties
  <2> QED
    BY <1>2, <2>1 DEF Queued, ToSet
<1>4. deleted \cap Queued = {}
  BY <1>2, <1>3 DEF OneLife, Queue, Undeleted
<1>5. ASSUME NEW t \in InHand
      PROVE  t \in Threads /\ Busy(t) /\ OnRecord(d, loc[t])
  <2>1. t \in Threads /\ Carries(t)
    BY DEF InHand, Carries
  <2> QED
    BY <2>1 DEF Busy, OneLife, Backed
<1>6. ASSUME NEW t \in InHand PROVE loc[t].cont \notin Queued
  <2> SUFFICES ASSUME loc[t].cont \in Queued PROVE FALSE
    OBVIOUS
  <2>1. PICK k \in 1..Len(s) : loc[t].cont = s[k].cont
    BY <1>3
  <2>2. OnRecord(d, s[k]) /\ OnRecord(d, loc[t])
    BY <1>2, <1>5 DEF OneLife, Backed
  <2>3. s[k].id = loc[t].id
    BY <2>1, <2>2, PayloadTells DEF OneLife
  <2> QED
    BY <1>2, <1>5, <2>3 DEF OneLife, Queue
<1>7. ASSUME NEW t \in InHand, NEW u \in InHand, t # u PROVE loc[t].cont # loc[u].cont
  <2>1. OnRecord(d, loc[t]) /\ OnRecord(d, loc[u]) /\ loc[t].id # loc[u].id
    BY <1>5, <1>7 DEF OneLife, Hands
  <2> QED
    BY <2>1, PayloadTells DEF OneLife
<1>8. Cardinality(Queued) = m_cnt
  BY QueuedCount
<1> QED
  BY <1>1, <1>4, <1>6, <1>7, <1>8 DEF NotRedelivered

\* What durability means (eq_imp::init, add_back, del): a task that add_back took is
\* found by the next start until its delete is on disk, and never after it; and within
\* a life no task is in two places.  For every number of threads, files and starts,
\* and whatever fopen and fwrite fail, under the conditions that the two properties
\* name, until a record is written behind a part of one (tail) or an fflush fails
\* (unflushed): add_back and del look at no fflush.
THEOREM QueueDurable == QueueSpec => [](unflushed = {} => Durable)
<1>1. IInv => (unflushed = {} => Durable)
  <2> SUFFICES ASSUME IInv, unflushed = {} PROVE Durable
    OBVIOUS
  <2>1. Base
    BY DEF IInv
  <2>2. PICK d \in {OnDisk} : d = OnDisk
    OBVIOUS
  <2>3. d \in Seq(Record)
    BY <2>1, <2>2, DiskIsTyped DEF Base
  <2>4. CASE DumpsOfOneLife
    <3>1. OneLife(d)
      BY <2>2, <2>4 DEF IInv
    <3> QED
      BY <2>1, <2>2, <2>3, <3>1, SurvivesBy, NotRedeliveredBy DEF Durable
  <2>5. CASE ~DumpsOfOneLife
    BY <2>5 DEF Durable, Survives, NotRedelivered, DumpsOfOneLife
  <2> QED
    BY <2>4, <2>5
<1> QED
  BY <1>1, QueueInductive, PTL

-----------------------------------------------------------------------------
(* MemPool: the inductive invariant                                        *)

PoolSteps == {"idle", "tryAlloc", "inAlloc", "outAlloc", "index", "addMem", "addCas", "tryFree", "inFree", "outFree"}
PoolType ==
  /\ heads \in [Groups -> Seq(Blocks)] /\ owner \in [Groups -> PoolThreads \cup {NoThread}]
  /\ nbufs \in Nat /\ index \in Groups /\ memblocks \in 0..nbufs /\ held \subseteq Blocks
  /\ doing \in [PoolThreads -> PoolSteps] /\ grp \in [PoolThreads -> Groups]
  /\ ret \in [PoolThreads -> Blocks \cup {NoBlock}]
  /\ buf \in [PoolThreads -> 0..nbufs] /\ blocks \in [PoolThreads -> 0..nbufs]
  /\ nbufs + Pending <= MaxBufs

\* A thread between its lock and its unlock owns the group.
InGroup == {"inAlloc", "outAlloc", "inFree", "outFree"}
GroupOwned == \A t \in PoolThreads : doing[t] \in InGroup => owner[grp[t]] = t

\* What a call has, by where it is.
CallHas ==
  \A t \in PoolThreads :
    /\ (ret[t] = NoBlock <=> doing[t] \in {"idle", "tryAlloc", "inAlloc", "outFree"})
    /\ (buf[t] # NoBuf => doing[t] \in {"outAlloc", "index", "addMem", "addCas"})
    /\ (doing[t] \in {"addMem", "addCas"} => buf[t] # NoBuf)
    /\ (doing[t] = "addCas" => buf[t] \in DOMAIN chain /\ chain[buf[t]] = blocks[t])

\* The blocks of the free lists hd, of the calls that return or free rt, of n buffers.
ListedIn(hd) == {b \in Blocks : \E g \in Groups : \E n \in 1..Len(hd[g]) : hd[g][n] = b}
CallsHold(rt) == {b \in Blocks : \E t \in PoolThreads : rt[t] = b}
BlocksOf(n) == {b \in Blocks : b[1] <= n}
ListedOnce(hd) == \A g, h \in Groups : \A n \in 1..Len(hd[g]), m \in 1..Len(hd[h]) :
                    hd[g][n] = hd[h][m] => g = h /\ n = m
CallsApart(rt) == \A t, u \in PoolThreads : rt[t] = rt[u] /\ rt[t] # NoBlock => t = u
Split(l, c, h, n) == /\ l \cap c = {} /\ l \cap h = {} /\ c \cap h = {}
                     /\ l \cup c \cup h = BlocksOf(n)
PoolSplit == /\ ListedOnce(heads) /\ CallsApart(ret)
             /\ Split(ListedIn(heads), CallsHold(ret), held, nbufs)

\* p walks the chain c from the buffer m to its end, k steps.
Walk(c, m, k, p) ==
  /\ p[0] = m /\ p[k] = NoBuf
  /\ \A i \in 0..(k - 1) : p[i] # NoBuf /\ p[i] \in DOMAIN c /\ c[p[i]] = p[i + 1]
  /\ \A i, j \in 0..k : p[i] = p[j] => i = j
\* The buffers of the walk and those that threads still have are all there are.
Bring(k, p) ==
  /\ {p[i] : i \in 0..k} \cup {buf[t] : t \in PoolThreads} = 0..nbufs
  /\ \A t \in PoolThreads : \A i \in 0..(k - 1) : buf[t] # p[i]
PoolChain ==
  /\ \A t, u \in PoolThreads : buf[t] = buf[u] /\ buf[t] # NoBuf => t = u
  /\ \E k \in 0..nbufs : \E p \in [0..k -> 0..nbufs] : Walk(chain, memblocks, k, p) /\ Bring(k, p)

PoolInv == PoolType /\ GroupOwned /\ CallHas /\ PoolSplit /\ PoolChain

-----------------------------------------------------------------------------
(* MemPool: lists of blocks                                                *)

\* A block is a pair of a buffer and a place in it; NoBlock is none.
LEMMA NoBlockIsNone == NoBlock \notin Blocks /\ \A b \in Blocks : b = <<b[1], b[2]>> /\ b[1] \in 1..MaxBufs /\ b[2] \in 1..escalate
  BY DEF NoBlock, Blocks

\* The first block of a list is taken from it.
LEMMA FirstIsTaken ==
  ASSUME NEW hd \in [Groups -> Seq(Blocks)], ListedOnce(hd), NEW g \in Groups, hd[g] # <<>>
  PROVE  /\ hd[g][1] \in ListedIn(hd)
         /\ [hd EXCEPT ![g] = Tail(@)] \in [Groups -> Seq(Blocks)]
         /\ ListedOnce([hd EXCEPT ![g] = Tail(@)])
         /\ ListedIn([hd EXCEPT ![g] = Tail(@)]) = ListedIn(hd) \ {hd[g][1]}
<1> DEFINE hd2 == [hd EXCEPT ![g] = Tail(@)]
<1>1. hd[g] \in Seq(Blocks) /\ Len(hd[g]) \in Nat /\ 1 \in 1..Len(hd[g]) /\ hd[g][1] \in Blocks
  <2>1. hd[g] \in Seq(Blocks)
    OBVIOUS
  <2>2. Len(hd[g]) \in Nat /\ Len(hd[g]) # 0
    BY <2>1, EmptySeq, LenProperties
  <2>3. 1 \in 1..Len(hd[g])
    BY <2>2
  <2> QED
    BY <2>1, <2>2, <2>3, ElementOfSeq
<1>2. /\ Tail(hd[g]) \in Seq(Blocks) /\ Len(Tail(hd[g])) = Len(hd[g]) - 1
      /\ \A i \in 1..Len(Tail(hd[g])) : Tail(hd[g])[i] = hd[g][i + 1]
  BY <1>1, HeadTailProperties
<1>3. hd2 \in [Groups -> Seq(Blocks)] /\ hd2[g] = Tail(hd[g]) /\ \A h \in Groups \ {g} : hd2[h] = hd[h]
  BY <1>2
<1>4. PICK q \in Nat : q = Len(hd[g]) /\ q >= 1
  BY <1>1
<1>5. /\ Len(hd2[g]) = q - 1 /\ \A i \in 1..(q - 1) : hd2[g][i] = hd[g][i + 1] /\ i + 1 \in 1..q
  BY <1>2, <1>3, <1>4
<1> HIDE DEF hd2
<1>6. ListedOnce(hd2)
  <2> SUFFICES ASSUME NEW a \in Groups, NEW b \in Groups, NEW n \in 1..Len(hd2[a]), NEW m \in 1..Len(hd2[b]),
                      hd2[a][n] = hd2[b][m]
               PROVE  a = b /\ n = m
    BY DEF ListedOnce
  <2>1. CASE a = g /\ b = g
    <3>1. n \in 1..(q - 1) /\ m \in 1..(q - 1)
      BY <1>5, <2>1
    <3>2. hd[g][n + 1] = hd[g][m + 1] /\ n + 1 \in 1..Len(hd[g]) /\ m + 1 \in 1..Len(hd[g])
      BY <1>4, <1>5, <2>1, <3>1
    <3>3. n + 1 = m + 1
      BY <3>2 DEF ListedOnce
    <3> QED
      BY <2>1, <3>1, <3>3
  <2>2. CASE a = g /\ b # g
    <3>1. n \in 1..(q - 1)
      BY <1>5, <2>2
    <3>2. hd[g][n + 1] = hd[b][m] /\ n + 1 \in 1..Len(hd[g]) /\ m \in 1..Len(hd[b])
      BY <1>3, <1>4, <1>5, <2>2, <3>1
    <3> QED
      BY <2>2, <3>2 DEF ListedOnce
  <2>3. CASE a # g /\ b = g
    <3>1. m \in 1..(q - 1)
      BY <1>5, <2>3
    <3>2. hd[g][m + 1] = hd[a][n] /\ m + 1 \in 1..Len(hd[g]) /\ n \in 1..Len(hd[a])
      BY <1>3, <1>4, <1>5, <2>3, <3>1
    <3> QED
      BY <2>3, <3>2 DEF ListedOnce
  <2>4. CASE a # g /\ b # g
    BY <1>3, <2>4 DEF ListedOnce
  <2> QED
    BY <2>1, <2>2, <2>3, <2>4
<1>7. ListedIn(hd2) = ListedIn(hd) \ {hd[g][1]}
  <2>1. ASSUME NEW b \in ListedIn(hd2) PROVE b \in ListedIn(hd) /\ b # hd[g][1]
    <3>1. PICK h \in Groups : \E n \in 1..Len(hd2[h]) : hd2[h][n] = b
      BY DEF ListedIn
    <3>2. PICK n \in 1..Len(hd2[h]) : hd2[h][n] = b
      BY <3>1
    <3>3. CASE h = g
      <4>1. n \in 1..(q - 1)
        BY <1>5, <3>3
      <4>2. n + 1 \in 1..Len(hd[g]) /\ hd[g][n + 1] = b /\ n + 1 # 1
        BY <1>4, <1>5, <3>2, <3>3, <4>1
      <4>3. b \in ListedIn(hd)
        <5>1. b \in Blocks
          BY DEF ListedIn
        <5> QED
          BY <4>2, <5>1 DEF ListedIn
      <4>4. b # hd[g][1]
        <5>1. hd[g][n + 1] # hd[g][1]
          BY <1>1, <4>2 DEF ListedOnce
        <5> QED
          BY <4>2, <5>1
      <4> QED
        BY <4>3, <4>4
    <3>4. CASE h # g
      <4>1. n \in 1..Len(hd[h]) /\ hd[h][n] = b
        BY <1>3, <3>2, <3>4
      <4> QED
        BY <1>1, <3>4, <4>1 DEF ListedIn, ListedOnce
    <3> QED
      BY <3>3, <3>4
  <2>2. ASSUME NEW b \in ListedIn(hd), b # hd[g][1] PROVE b \in ListedIn(hd2)
    <3>1. PICK h \in Groups : \E n \in 1..Len(hd[h]) : hd[h][n] = b
      BY DEF ListedIn
    <3>2. PICK n \in 1..Len(hd[h]) : hd[h][n] = b
      BY <3>1
    <3>3. CASE h = g
      <4>1. n \in 1..q /\ n # 1
        BY <1>4, <2>2, <3>2, <3>3
      <4>2. n - 1 \in 1..(q - 1) /\ (n - 1) + 1 = n
        BY <4>1
      <4>3. hd2[g][n - 1] = b /\ n - 1 \in 1..Len(hd2[g])
        BY <1>5, <3>2, <3>3, <4>2
      <4> QED
        BY <4>3 DEF ListedIn
    <3>4. CASE h # g
      <4>1. n \in 1..Len(hd2[h]) /\ hd2[h][n] = b
        BY <1>3, <3>2, <3>4
      <4> QED
        BY <4>1 DEF ListedIn
    <3> QED
      BY <3>3, <3>4
  <2> QED
    BY <2>1, <2>2
<1>8. hd[g][1] \in ListedIn(hd)
  BY <1>1 DEF ListedIn
<1> QED
  BY <1>3, <1>6, <1>7, <1>8 DEF hd2

\* A block that is on no list becomes the first of one.
LEMMA BlockIsPut ==
  ASSUME NEW hd \in [Groups -> Seq(Blocks)], ListedOnce(hd), NEW g \in Groups,
         NEW b \in Blocks, b \notin ListedIn(hd)
  PROVE  /\ [hd EXCEPT ![g] = <<b>> \o @] \in [Groups -> Seq(Blocks)]
         /\ ListedOnce([hd EXCEPT ![g] = <<b>> \o @])
         /\ ListedIn([hd EXCEPT ![g] = <<b>> \o @]) = ListedIn(hd) \cup {b}
<1> DEFINE hd2 == [hd EXCEPT ![g] = <<b>> \o @]
<1>1. hd[g] \in Seq(Blocks) /\ <<b>> \in Seq(Blocks) /\ Len(<<b>>) = 1 /\ <<b>>[1] = b
  OBVIOUS
<1>2. PICK q \in Nat : q = Len(hd[g])
  BY <1>1, LenProperties
<1>3. /\ <<b>> \o hd[g] \in Seq(Blocks) /\ Len(<<b>> \o hd[g]) = 1 + Len(hd[g])
      /\ \A i \in 1..(1 + Len(hd[g])) : (<<b>> \o hd[g])[i] = IF i <= 1 THEN <<b>>[i] ELSE hd[g][i - 1]
  BY <1>1, ConcatProperties
<1>4. hd2 \in [Groups -> Seq(Blocks)] /\ hd2[g] = <<b>> \o hd[g] /\ \A h \in Groups \ {g} : hd2[h] = hd[h]
  BY <1>3
<1> HIDE DEF hd2
<1>5. Len(hd2[g]) = q + 1
  BY <1>2, <1>3, <1>4
<1>6. hd2[g][1] = b
  <2>1. 1 \in 1..(1 + Len(hd[g])) /\ 1 <= 1
    BY <1>2
  <2> QED
    BY <1>1, <1>3, <1>4, <2>1
<1>7. ASSUME NEW i \in 1..(q + 1), i # 1 PROVE hd2[g][i] = hd[g][i - 1] /\ i - 1 \in 1..Len(hd[g])
  <2>1. i \in 1..(1 + Len(hd[g])) /\ ~(i <= 1) /\ i - 1 \in 1..q
    BY <1>2, <1>7
  <2> QED
    BY <1>2, <1>3, <1>4, <2>1
<1>8. ASSUME NEW h \in Groups, NEW n \in 1..Len(hd2[h]), ~(h = g /\ n = 1)
      PROVE  hd2[h][n] \in ListedIn(hd) /\ hd2[h][n] # b
  <2>1. CASE h = g
    <3>1. hd2[g][n] = hd[g][n - 1] /\ n - 1 \in 1..Len(hd[g])
      BY <1>5, <1>7, <1>8, <2>1
    <3>2. hd[g][n - 1] \in Blocks
      BY <1>1, <3>1, ElementOfSeq
    <3> QED
      BY <2>1, <3>1, <3>2 DEF ListedIn
  <2>2. CASE h # g
    <3>1. hd2[h][n] = hd[h][n] /\ n \in 1..Len(hd[h])
      BY <1>4, <2>2
    <3>2. hd[h][n] \in Blocks
      BY <3>1, ElementOfSeq
    <3> QED
      BY <3>1, <3>2 DEF ListedIn
  <2> QED
    BY <2>1, <2>2
<1>9. ListedOnce(hd2)
  <2> SUFFICES ASSUME NEW x \in Groups, NEW y \in Groups, NEW n \in 1..Len(hd2[x]), NEW m \in 1..Len(hd2[y]),
                      hd2[x][n] = hd2[y][m]
               PROVE  x = y /\ n = m
    BY DEF ListedOnce
  <2>1. CASE x = g /\ n = 1
    BY <1>6, <1>8, <2>1
  <2>2. CASE y = g /\ m = 1
    BY <1>6, <1>8, <2>2
  <2>3. CASE ~(x = g /\ n = 1) /\ ~(y = g /\ m = 1)
    <3>1. CASE x = g /\ y = g
      <4>1. hd2[g][n] = hd[g][n - 1] /\ n - 1 \in 1..Len(hd[g])
        BY <1>5, <1>7, <2>3, <3>1
      <4>2. hd2[g][m] = hd[g][m - 1] /\ m - 1 \in 1..Len(hd[g])
        BY <1>5, <1>7, <2>3, <3>1
      <4>3. n - 1 = m - 1
        BY <3>1, <4>1, <4>2 DEF ListedOnce
      <4> QED
        BY <1>5, <3>1, <4>3
    <3>2. CASE x = g /\ y # g
      <4>1. hd2[g][n] = hd[g][n - 1] /\ n - 1 \in 1..Len(hd[g])
        BY <1>5, <1>7, <2>3, <3>2
      <4> QED
        BY <1>4, <3>2, <4>1 DEF ListedOnce
    <3>3. CASE x # g /\ y = g
      <4>1. hd2[g][m] = hd[g][m - 1] /\ m - 1 \in 1..Len(hd[g])
        BY <1>5, <1>7, <2>3, <3>3
      <4> QED
        BY <1>4, <3>3, <4>1 DEF ListedOnce
    <3>4. CASE x # g /\ y # g
      BY <1>4, <3>4 DEF ListedOnce
    <3> QED
      BY <3>1, <3>2, <3>3, <3>4
  <2> QED
    BY <2>1, <2>2, <2>3
<1>10. ListedIn(hd2) = ListedIn(hd) \cup {b}
  <2>1. ASSUME NEW c \in ListedIn(hd2) PROVE c \in ListedIn(hd) \cup {b}
    <3>1. PICK h \in Groups : \E n \in 1..Len(hd2[h]) : hd2[h][n] = c
      BY DEF ListedIn
    <3>2. PICK n \in 1..Len(hd2[h]) : hd2[h][n] = c
      BY <3>1
    <3> QED
      BY <1>6, <1>8, <3>2
  <2>2. b \in ListedIn(hd2)
    <3>1. 1 \in 1..Len(hd2[g])
      BY <1>5
    <3> QED
      BY <1>6, <3>1 DEF ListedIn
  <2>3. ASSUME NEW c \in ListedIn(hd) PROVE c \in ListedIn(hd2)
    <3>1. PICK h \in Groups : \E n \in 1..Len(hd[h]) : hd[h][n] = c
      BY DEF ListedIn
    <3>2. PICK n \in 1..Len(hd[h]) : hd[h][n] = c
      BY <3>1
    <3>3. CASE h = g
      <4>1. n + 1 \in 1..(q + 1) /\ n + 1 # 1 /\ (n + 1) - 1 = n
        BY <1>2, <3>3
      <4>2. hd2[g][n + 1] = c /\ n + 1 \in 1..Len(hd2[g])
        BY <1>5, <1>7, <3>2, <3>3, <4>1
      <4> QED
        BY <4>2 DEF ListedIn
    <3>4. CASE h # g
      BY <1>4, <3>2, <3>4 DEF ListedIn
    <3> QED
      BY <3>3, <3>4
  <2> QED
    BY <2>1, <2>2, <2>3
<1> QED
  BY <1>4, <1>9, <1>10 DEF hd2

\* All blocks of a new buffer but the first make up an empty list.
RestOf(n) == {b \in Blocks : b[1] = n /\ b[2] # 1}
LEMMA BufferIsListed ==
  ASSUME NEW hd \in [Groups -> Seq(Blocks)], ListedOnce(hd), NEW g \in Groups, hd[g] = <<>>,
         NEW k \in 1..MaxBufs, \A b \in ListedIn(hd) : b[1] # k,
         NEW hd2, hd2 = [hd EXCEPT ![g] = [n \in 1..(escalate - 1) |-> <<k, n + 1>>]]
  PROVE  /\ hd2 \in [Groups -> Seq(Blocks)]
         /\ ListedOnce(hd2)
         /\ ListedIn(hd2) = ListedIn(hd) \cup RestOf(k)
<1> DEFINE new == [n \in 1..(escalate - 1) |-> <<k, n + 1>>]
<1>1. escalate \in Nat /\ escalate >= 1
  BY PoolAssumption
<1>2. ASSUME NEW n \in 1..(escalate - 1) PROVE <<k, n + 1>> \in Blocks
  BY <1>1 DEF Blocks
<1>3. new \in Seq(Blocks) /\ Len(new) = escalate - 1 /\ \A n \in 1..(escalate - 1) : new[n] = <<k, n + 1>>
  <2>1. escalate - 1 \in Nat
    BY <1>1
  <2>2. new \in [1..(escalate - 1) -> Blocks]
    BY <1>2
  <2>3. DOMAIN new = 1..(escalate - 1)
    OBVIOUS
  <2> HIDE DEF new
  <2>4. new \in Seq(Blocks)
    <3>1. PICK m \in Nat : m = escalate - 1
      BY <2>1
    <3>2. new \in [1..m -> Blocks]
      BY <2>2, <3>1
    <3> QED
      BY <3>2, SeqDef
  <2>5. Len(new) = escalate - 1
    BY <2>1, <2>3, <2>4, LenProperties
  <2> QED
    BY <2>4, <2>5 DEF new
<1>0. hd2 = [hd EXCEPT ![g] = new]
  OBVIOUS
<1> HIDE DEF new
<1>4. hd2 \in [Groups -> Seq(Blocks)] /\ hd2[g] = new /\ \A h \in Groups \ {g} : hd2[h] = hd[h]
  BY <1>0, <1>3
<1>5. ASSUME NEW n \in 1..Len(hd2[g])
      PROVE  n \in 1..(escalate - 1) /\ hd2[g][n] = <<k, n + 1>> /\ hd2[g][n][1] = k /\ hd2[g][n][2] = n + 1
  BY <1>3, <1>4
<1>6. ASSUME NEW h \in Groups, h # g, NEW n \in 1..Len(hd2[h])
      PROVE  hd2[h][n] = hd[h][n] /\ n \in 1..Len(hd[h]) /\ hd2[h][n] \in ListedIn(hd)
  <2>1. hd2[h][n] = hd[h][n] /\ n \in 1..Len(hd[h])
    BY <1>4, <1>6
  <2>2. hd[h][n] \in Blocks
    BY <2>1, ElementOfSeq
  <2> QED
    BY <2>1, <2>2 DEF ListedIn
<1>7. ListedOnce(hd2)
  <2> SUFFICES ASSUME NEW x \in Groups, NEW y \in Groups, NEW n \in 1..Len(hd2[x]), NEW m \in 1..Len(hd2[y]),
                      hd2[x][n] = hd2[y][m]
               PROVE  x = y /\ n = m
    BY DEF ListedOnce
  <2>1. CASE x = g /\ y = g
    <3>1. n \in 1..(escalate - 1) /\ hd2[g][n][2] = n + 1
      BY <1>5, <2>1
    <3>2. m \in 1..(escalate - 1) /\ hd2[g][m][2] = m + 1
      BY <1>5, <2>1
    <3> QED
      BY <2>1, <3>1, <3>2
  <2>2. CASE x = g /\ y # g
    <3>1. hd2[x][n][1] = k
      BY <1>5, <2>2
    <3>2. hd2[y][m] \in ListedIn(hd)
      BY <1>6, <2>2
    <3> QED
      BY <3>1, <3>2
  <2>3. CASE x # g /\ y = g
    <3>1. hd2[y][m][1] = k
      BY <1>5, <2>3
    <3>2. hd2[x][n] \in ListedIn(hd)
      BY <1>6, <2>3
    <3> QED
      BY <3>1, <3>2
  <2>4. CASE x # g /\ y # g
    <3>1. hd[x][n] = hd[y][m] /\ n \in 1..Len(hd[x]) /\ m \in 1..Len(hd[y])
      <4>1. hd2[x][n] = hd[x][n] /\ n \in 1..Len(hd[x])
        BY <1>6, <2>4
      <4>2. hd2[y][m] = hd[y][m] /\ m \in 1..Len(hd[y])
        BY <1>6, <2>4
      <4> QED
        BY <4>1, <4>2
    <3> QED
      BY <3>1 DEF ListedOnce
  <2> QED
    BY <2>1, <2>2, <2>3, <2>4
<1>8. ListedIn(hd2) = ListedIn(hd) \cup RestOf(k)
  <2>1. ASSUME NEW c \in ListedIn(hd2) PROVE c \in ListedIn(hd) \cup RestOf(k)
    <3>1. PICK h \in Groups : \E n \in 1..Len(hd2[h]) : hd2[h][n] = c
      BY DEF ListedIn
    <3>2. PICK n \in 1..Len(hd2[h]) : hd2[h][n] = c
      BY <3>1
    <3>3. CASE h = g
      <4>1. c[1] = k /\ c[2] = n + 1 /\ n \in 1..(escalate - 1)
        BY <1>5, <3>2, <3>3
      <4>2. c[2] # 1 /\ c \in Blocks
        BY <4>1 DEF ListedIn
      <4> QED
        BY <4>1, <4>2 DEF RestOf
    <3>4. CASE h # g
      BY <1>6, <3>2, <3>4
    <3> QED
      BY <3>3, <3>4
  <2>2. ASSUME NEW c \in RestOf(k) PROVE c \in ListedIn(hd2)
    <3>1. c \in Blocks /\ c = <<k, c[2]>> /\ c[2] \in 1..escalate /\ c[2] # 1
      BY NoBlockIsNone DEF RestOf
    <3>2. PICK n \in 1..(escalate - 1) : c[2] = n + 1
      <4>1. c[2] - 1 \in 1..(escalate - 1) /\ c[2] = (c[2] - 1) + 1
        BY <1>1, <3>1
      <4> QED
        BY <4>1
    <3>3. n \in 1..Len(hd2[g]) /\ hd2[g][n] = c
      BY <1>3, <1>4, <3>1, <3>2
    <3> QED
      BY <3>1, <3>3 DEF ListedIn
  <2>3. ASSUME NEW c \in ListedIn(hd) PROVE c \in ListedIn(hd2)
    <3>1. PICK h \in Groups : \E n \in 1..Len(hd[h]) : hd[h][n] = c
      BY DEF ListedIn
    <3>2. PICK n \in 1..Len(hd[h]) : hd[h][n] = c
      BY <3>1
    <3>3. h # g
      BY <3>2, EmptySeq
    <3>4. hd2[h] = hd[h]
      BY <1>4, <3>3
    <3> QED
      BY <3>2, <3>4 DEF ListedIn
  <2> QED
    BY <2>1, <2>2, <2>3
<1> QED
  BY <1>4, <1>7, <1>8

\* A new buffer adds its first block and the rest of it to the blocks there are.
LEMMA BufferSplits ==
  ASSUME NEW n \in Nat, n + 1 <= MaxBufs
  PROVE  /\ n + 1 \in 1..MaxBufs /\ <<n + 1, 1>> \in Blocks
         /\ BlocksOf(n + 1) = (BlocksOf(n) \cup RestOf(n + 1)) \cup {<<n + 1, 1>>}
         /\ \A b \in BlocksOf(n) : b[1] # n + 1
         /\ <<n + 1, 1>> \notin RestOf(n + 1)
<1>1. n + 1 \in 1..MaxBufs /\ 1 \in 1..escalate
  BY PoolAssumption
<1>2. <<n + 1, 1>> \in Blocks /\ <<n + 1, 1>>[1] = n + 1 /\ <<n + 1, 1>>[2] = 1
  BY <1>1 DEF Blocks
<1>3. ASSUME NEW b \in Blocks PROVE b[1] <= n + 1 <=> b[1] <= n \/ b[1] = n + 1
  BY NoBlockIsNone, PoolAssumption
<1>4. ASSUME NEW b \in Blocks, b[1] = n + 1, b[2] = 1 PROVE b = <<n + 1, 1>>
  BY <1>4, NoBlockIsNone
<1>5. ASSUME NEW b \in BlocksOf(n) PROVE b[1] # n + 1
  BY NoBlockIsNone, PoolAssumption DEF BlocksOf
<1> QED
  BY <1>1, <1>2, <1>3, <1>4, <1>5 DEF BlocksOf, RestOf

\* A call comes to have a block.
LEMMA CallTakes ==
  ASSUME NEW rt \in [PoolThreads -> Blocks \cup {NoBlock}], CallsApart(rt), NEW t \in PoolThreads,
         rt[t] = NoBlock, NEW b \in Blocks, b \notin CallsHold(rt)
  PROVE  /\ [rt EXCEPT ![t] = b] \in [PoolThreads -> Blocks \cup {NoBlock}]
         /\ CallsApart([rt EXCEPT ![t] = b])
         /\ CallsHold([rt EXCEPT ![t] = b]) = CallsHold(rt) \cup {b}
  BY NoBlockIsNone DEF CallsApart, CallsHold

\* A call is rid of its block.
LEMMA CallGives ==
  ASSUME NEW rt \in [PoolThreads -> Blocks \cup {NoBlock}], CallsApart(rt), NEW t \in PoolThreads,
         rt[t] # NoBlock
  PROVE  /\ [rt EXCEPT ![t] = NoBlock] \in [PoolThreads -> Blocks \cup {NoBlock}]
         /\ CallsApart([rt EXCEPT ![t] = NoBlock])
         /\ rt[t] \in CallsHold(rt)
         /\ CallsHold([rt EXCEPT ![t] = NoBlock]) = CallsHold(rt) \ {rt[t]}
  BY NoBlockIsNone DEF CallsApart, CallsHold

-----------------------------------------------------------------------------
(* MemPool: from the invariant to the property                             *)

\* What is split among the three has each block once.
LEMMA SplitCounts ==
  ASSUME PoolType, PoolSplit, NEW b \in Blocks
  PROVE  PlacesOf(b) = IF b[1] <= nbufs THEN 1 ELSE 0
<1> DEFINE Slots == {s \in Groups \X (1..(MaxBufs * escalate)) : s[2] <= Len(heads[s[1]]) /\ heads[s[1]][s[2]] = b}
           C == {t \in PoolThreads : ret[t] = b}
<1>1. heads \in [Groups -> Seq(Blocks)] /\ ret \in [PoolThreads -> Blocks \cup {NoBlock}] /\ nbufs \in Nat
  BY DEF PoolType
<1>2. MaxBufs * escalate \in Nat
  BY PoolAssumption
<1>3. IsFiniteSet(Blocks) /\ Cardinality(Blocks) = MaxBufs * escalate
  <2>1. IsFiniteSet(1..MaxBufs) /\ Cardinality(1..MaxBufs) = MaxBufs
    BY PoolAssumption, FS_Interval
  <2>2. IsFiniteSet(1..escalate) /\ Cardinality(1..escalate) = escalate
    BY PoolAssumption, FS_Interval
  <2> QED
    BY <2>1, <2>2, FS_Product DEF Blocks
<1>4. ASSUME NEW g \in Groups PROVE Len(heads[g]) \in Nat /\ Len(heads[g]) <= MaxBufs * escalate
  <2>1. heads[g] \in Seq(Blocks) /\ Len(heads[g]) \in Nat
    BY <1>1, LenProperties
  <2>2. heads[g] \in [1..Len(heads[g]) -> Blocks]
    BY <2>1, LenProperties, ElementOfSeq
  <2>3. \A n, m \in 1..Len(heads[g]) : heads[g][n] = heads[g][m] => n = m
    BY DEF PoolSplit, ListedOnce
  <2>4. heads[g] \in Injection(1..Len(heads[g]), Blocks)
    BY <2>2, <2>3 DEF Injection, IsInjective
  <2>5. Cardinality(1..Len(heads[g])) <= Cardinality(Blocks)
    BY <1>3, <2>4, FS_Injection, Zenon
  <2>6. Cardinality(1..Len(heads[g])) = Len(heads[g])
    BY <2>1, FS_Interval
  <2> QED
    BY <1>3, <2>1, <2>5, <2>6
<1>5. \/ Slots = {} /\ b \notin ListedIn(heads)
      \/ (\E s : Slots = {s}) /\ b \in ListedIn(heads)
  <2>1. CASE b \in ListedIn(heads)
    <3>1. PICK g \in Groups : \E n \in 1..Len(heads[g]) : heads[g][n] = b
      BY <2>1 DEF ListedIn
    <3>2. PICK n \in 1..Len(heads[g]) : heads[g][n] = b
      BY <3>1
    <3>3. n \in 1..(MaxBufs * escalate) /\ n <= Len(heads[g])
      BY <1>2, <1>4
    <3>4. <<g, n>> \in Slots
      BY <3>2, <3>3
    <3>5. ASSUME NEW s \in Slots PROVE s = <<g, n>>
      <4>1. s[1] \in Groups /\ s[2] \in 1..(MaxBufs * escalate) /\ s = <<s[1], s[2]>>
        OBVIOUS
      <4>2. s[2] \in 1..Len(heads[s[1]]) /\ heads[s[1]][s[2]] = b
        BY <1>4, <4>1
      <4>3. s[1] = g /\ s[2] = n
        BY <3>2, <4>1, <4>2 DEF PoolSplit, ListedOnce
      <4> QED
        BY <4>1, <4>3
    <3> HIDE DEF Slots
    <3>6. Slots = {<<g, n>>}
      BY <3>4, <3>5
    <3> QED
      BY <2>1, <3>6
  <2>2. CASE b \notin ListedIn(heads)
    <3>1. ASSUME NEW s \in Slots PROVE FALSE
      <4>1. s[1] \in Groups /\ s[2] \in 1..(MaxBufs * escalate)
        OBVIOUS
      <4>2. s[2] \in 1..Len(heads[s[1]]) /\ heads[s[1]][s[2]] = b
        BY <1>4, <4>1
      <4> QED
        BY <2>2, <4>1, <4>2 DEF ListedIn
    <3> HIDE DEF Slots
    <3>2. Slots = {}
      BY <3>1
    <3> QED
      BY <2>2, <3>2
  <2> HIDE DEF Slots
  <2> QED
    BY <2>1, <2>2
<1>6. \/ C = {} /\ b \notin CallsHold(ret)
      \/ (\E t : C = {t}) /\ b \in CallsHold(ret)
  <2>1. CASE b \in CallsHold(ret)
    <3>1. PICK t \in PoolThreads : ret[t] = b
      BY <2>1 DEF CallsHold
    <3>2. C = {t}
      BY <3>1, NoBlockIsNone DEF PoolSplit, CallsApart
    <3> QED
      BY <2>1, <3>2
  <2>2. CASE b \notin CallsHold(ret)
    <3>1. \A t \in PoolThreads : ret[t] # b
      BY <2>2 DEF CallsHold
    <3> QED
      BY <2>2, <3>1
  <2> QED
    BY <2>1, <2>2
<1>7. Cardinality(Slots) = IF b \in ListedIn(heads) THEN 1 ELSE 0
  <2> HIDE DEF Slots
  <2>1. Cardinality({}) = 0 /\ \A s : Cardinality({s}) = 1
    BY FS_EmptySet, FS_Singleton
  <2> QED
    BY <1>5, <2>1
<1>8. Cardinality(C) = IF b \in CallsHold(ret) THEN 1 ELSE 0
  <2> HIDE DEF C
  <2>1. Cardinality({}) = 0 /\ \A s : Cardinality({s}) = 1
    BY FS_EmptySet, FS_Singleton
  <2> QED
    BY <1>6, <2>1
<1>9. /\ b \in BlocksOf(nbufs) <=> b[1] <= nbufs
      /\ ~(b \in ListedIn(heads) /\ b \in CallsHold(ret)) /\ ~(b \in ListedIn(heads) /\ b \in held)
      /\ ~(b \in CallsHold(ret) /\ b \in held)
      /\ b \in BlocksOf(nbufs) <=> b \in ListedIn(heads) \/ b \in CallsHold(ret) \/ b \in held
  BY DEF PoolSplit, Split, BlocksOf
<1>10. PlacesOf(b) = Cardinality(Slots) + Cardinality(C) + (IF b \in held THEN 1 ELSE 0)
  BY DEF PlacesOf
<1> HIDE DEF Slots, C
<1> QED
  BY <1>7, <1>8, <1>9, <1>10

\* The destructor finds the buffers of the walk.
LEMMA WalkIsChained ==
  ASSUME PoolType, NEW k \in 0..nbufs, NEW p \in [0..k -> 0..nbufs], Walk(chain, memblocks, k, p)
  PROVE  Chained = {p[i] : i \in 0..(k - 1)}
<1> DEFINE F(f) == f = [n \in 0..nbufs |-> IF n = 0 THEN memblocks
                                           ELSE IF f[n - 1] = NoBuf THEN NoBuf ELSE chain[f[n - 1]]]
           f == CHOOSE x : F(x)
           w == [n \in 0..nbufs |-> IF n <= k THEN p[n] ELSE NoBuf]
<1>1. Chained = {f[n] : n \in 0..nbufs} \ {NoBuf}
  BY DEF Chained
<1>2. /\ nbufs \in Nat /\ k \in Nat /\ k <= nbufs /\ p[0] = memblocks /\ p[k] = NoBuf
      /\ \A i \in 0..(k - 1) : p[i] # NoBuf /\ chain[p[i]] = p[i + 1]
  BY DEF PoolType, Walk
<1>3. ASSUME NEW n \in 0..nbufs, n # 0
      PROVE  w[n] = IF w[n - 1] = NoBuf THEN NoBuf ELSE chain[w[n - 1]]
  <2>1. n - 1 \in 0..nbufs /\ (n - 1) + 1 = n
    BY <1>2, <1>3
  <2>2. CASE n <= k
    <3>1. n - 1 \in 0..(k - 1) /\ n - 1 <= k
      BY <1>2, <1>3, <2>2
    <3>2. w[n] = p[n] /\ w[n - 1] = p[n - 1]
      BY <2>1, <2>2, <3>1
    <3>3. p[n - 1] # NoBuf /\ chain[p[n - 1]] = p[n]
      BY <1>2, <2>1, <3>1
    <3> QED
      BY <3>2, <3>3
  <2>3. CASE n = k + 1
    <3>1. w[n] = NoBuf /\ w[n - 1] = p[k]
      BY <1>2, <2>1, <2>3
    <3> QED
      BY <1>2, <3>1
  <2>4. CASE n > k + 1
    <3>1. ~(n <= k) /\ ~(n - 1 <= k)
      BY <1>2, <2>4
    <3> QED
      BY <2>1, <3>1
  <2> QED
    BY <1>2, <2>2, <2>3, <2>4
<1>4. w[0] = memblocks
  BY <1>2
<1>5. F(w)
  <2> DEFINE v == [n \in 0..nbufs |-> IF n = 0 THEN memblocks
                                      ELSE IF w[n - 1] = NoBuf THEN NoBuf ELSE chain[w[n - 1]]]
  <2>1. ASSUME NEW n \in 0..nbufs PROVE w[n] = v[n]
    <3>1. v[n] = IF n = 0 THEN memblocks ELSE IF w[n - 1] = NoBuf THEN NoBuf ELSE chain[w[n - 1]]
      OBVIOUS
    <3> HIDE DEF w, v
    <3> QED
      BY <1>3, <1>4, <3>1
  <2>2. w = [n \in 0..nbufs |-> w[n]] /\ v = [n \in 0..nbufs |-> v[n]]
    OBVIOUS
  <2> HIDE DEF w
  <2>3. w = v
    <3> HIDE DEF v
    <3> QED
      BY <2>1, <2>2
  <2> QED
    BY <2>3
<1>6. F(f)
  <2> HIDE DEF F, w
  <2> QED
    BY <1>5
<1> HIDE DEF f
<1>7. f[0] = memblocks
  BY <1>2, <1>6
<1>8. ASSUME NEW n \in 0..nbufs, n # 0 PROVE f[n] = IF f[n - 1] = NoBuf THEN NoBuf ELSE chain[f[n - 1]]
  BY <1>6, <1>8
<1> DEFINE P == {n \in Nat : n <= nbufs => f[n] = w[n]}
<1> HIDE DEF F, w
<1>9. 0 \in P
  BY <1>4, <1>7
<1>10. ASSUME NEW n \in Nat, n \in P PROVE n + 1 \in P
  <2> SUFFICES ASSUME n + 1 <= nbufs PROVE f[n + 1] = w[n + 1]
    OBVIOUS
  <2>1. n + 1 \in 0..nbufs /\ n + 1 # 0 /\ (n + 1) - 1 = n /\ n <= nbufs
    BY <1>2
  <2>2. f[n] = w[n]
    BY <1>10, <2>1
  <2>3. PICK j \in 0..nbufs : j = n + 1 /\ j # 0 /\ j - 1 = n
    BY <2>1
  <2>4. w[j] = IF w[n] = NoBuf THEN NoBuf ELSE chain[w[n]]
    BY <1>3, <2>3
  <2>5. f[j] = IF f[n] = NoBuf THEN NoBuf ELSE chain[f[n]]
    BY <1>8, <2>3
  <2> QED
    BY <2>2, <2>3, <2>4, <2>5
<1>11. Nat \subseteq P
  <2> HIDE DEF P
  <2> QED
    BY <1>9, <1>10, SetInduction
<1>12. ASSUME NEW n \in 0..nbufs PROVE f[n] = w[n]
  <2>1. n \in P /\ n <= nbufs
    BY <1>2, <1>11
  <2> QED
    BY <2>1
<1>13. ASSUME NEW n \in 0..nbufs PROVE w[n] = NoBuf \/ \E i \in 0..(k - 1) : w[n] = p[i]
  <2>1. w[n] = IF n <= k THEN p[n] ELSE NoBuf
    BY DEF w
  <2>2. CASE n <= k /\ n # k
    <3>1. n \in 0..(k - 1)
      BY <1>2, <2>2
    <3> QED
      BY <2>1, <2>2, <3>1
  <2> QED
    BY <1>2, <2>1, <2>2
<1>14. ASSUME NEW i \in 0..(k - 1) PROVE i \in 0..nbufs /\ w[i] = p[i] /\ p[i] # NoBuf
  <2>1. i \in 0..nbufs /\ i <= k
    BY <1>2
  <2> QED
    BY <1>2, <2>1 DEF w
<1> QED
  BY <1>1, <1>12, <1>13, <1>14

\* What the invariant says of the chain is what the property says.
LEMMA ChainIsWhole ==
  ASSUME PoolType, PoolChain
  PROVE  /\ Chained \cup {buf[t] : t \in PoolThreads} \cup {NoBuf} = 0..nbufs
         /\ \A t \in PoolThreads : buf[t] \notin Chained
<1>1. PICK k \in 0..nbufs : \E p \in [0..k -> 0..nbufs] : Walk(chain, memblocks, k, p) /\ Bring(k, p)
  BY DEF PoolChain
<1>2. PICK p \in [0..k -> 0..nbufs] : Walk(chain, memblocks, k, p) /\ Bring(k, p)
  BY <1>1
<1>3. Chained = {p[i] : i \in 0..(k - 1)}
  BY <1>2, WalkIsChained
<1>4. nbufs \in Nat /\ k \in Nat /\ p[k] = NoBuf
  BY <1>2 DEF PoolType, Walk
<1>5. \A i \in 0..k : i \in 0..(k - 1) \/ i = k
  BY <1>4
<1>6. \A i \in 0..(k - 1) : i \in 0..k
  BY <1>4
<1>7. {p[i] : i \in 0..k} = {p[i] : i \in 0..(k - 1)} \cup {NoBuf}
  <2>1. k \in 0..k
    BY <1>4
  <2> QED
    BY <1>4, <1>5, <1>6, <2>1
<1> QED
  BY <1>2, <1>3, <1>7 DEF Bring

-----------------------------------------------------------------------------
(* MemPool: each step keeps the invariant                                  *)

MayGrow == {"tryAlloc", "inAlloc"}
\* How many calls may still take a buffer, as one thread goes on.
LEMMA PendingMoves ==
  ASSUME PoolType, NEW t \in PoolThreads, NEW x, doing' = [doing EXCEPT ![t] = x]
  PROVE  /\ Pending \in Nat /\ Pending' \in Nat
         /\ (doing[t] \in MayGrow <=> x \in MayGrow) => Pending' = Pending
         /\ doing[t] \in MayGrow /\ x \notin MayGrow => Pending' = Pending - 1
         /\ doing[t] \notin MayGrow /\ x \in MayGrow => Pending' = Pending + 1
<1> DEFINE P == {u \in PoolThreads : doing[u] \in MayGrow}
           Q == {u \in PoolThreads : doing'[u] \in MayGrow}
<1>1. Pending = Cardinality(P) /\ Pending' = Cardinality(Q)
  BY DEF Pending, MayGrow
<1>2. IsFiniteSet(P) /\ Cardinality(P) \in Nat /\ Cardinality(Q) \in Nat
  BY PoolAssumption, FS_Subset, FS_CardinalityType
<1>3. doing' \in [PoolThreads -> PoolSteps \cup {x}] /\ doing'[t] = x /\ \A u \in PoolThreads \ {t} : doing'[u] = doing[u]
  BY DEF PoolType
<1>4. CASE doing[t] \in MayGrow <=> x \in MayGrow
  <2>1. Q = P
    BY <1>3, <1>4
  <2> QED
    BY <1>1, <1>2, <1>4, <2>1
<1>5. CASE doing[t] \in MayGrow /\ x \notin MayGrow
  <2>1. Q = P \ {t} /\ t \in P
    BY <1>3, <1>5
  <2>2. Cardinality(Q) = Cardinality(P) - 1
    BY <1>2, <2>1, FS_RemoveElement
  <2> QED
    BY <1>1, <1>2, <1>5, <2>2
<1>6. CASE doing[t] \notin MayGrow /\ x \in MayGrow
  <2>1. Q = P \cup {t} /\ t \notin P
    BY <1>3, <1>6
  <2>2. Cardinality(Q) = Cardinality(P) + 1
    BY <1>2, <2>1, FS_AddElement
  <2> QED
    BY <1>1, <1>2, <1>6, <2>2
<1> QED
  BY <1>1, <1>2, <1>4, <1>5, <1>6

\* Where neither the buffers nor the chain change, the chain stays whole.
LEMMA ChainStays ==
  ASSUME PoolChain, UNCHANGED <<nbufs, buf, chain, memblocks>>
  PROVE  PoolChain'
<1>1. nbufs' = nbufs /\ buf' = buf /\ chain' = chain /\ memblocks' = memblocks
  OBVIOUS
<1>2. \A k, p : Bring(k, p)' <=> Bring(k, p)
  BY <1>1 DEF Bring
<1> QED
  BY <1>1, <1>2 DEF PoolChain

\* Where no block moves, the blocks stay split.
LEMMA SplitStays ==
  ASSUME PoolSplit, UNCHANGED <<heads, ret, held, nbufs>>
  PROVE  PoolSplit'
  BY DEF PoolSplit, ListedIn, CallsHold

\* The next group in the circle is a group.
LEMMA GroupsAre == groupnum \in Nat /\ 0 \in Groups /\ \A g \in Groups : (g + 1) % groupnum \in Groups
  BY PoolAssumption DEF Groups

\* An empty pool has the invariant.
LEMMA PoolStarts == PoolInit => PoolInv
<1> SUFFICES ASSUME PoolInit PROVE PoolInv
  OBVIOUS
<1>1. PoolType
  <2>1. heads \in [Groups -> Seq(Blocks)]
    BY EmptySeq DEF PoolInit
  <2>2. Pending = 0
    <3>1. {t \in PoolThreads : doing[t] \in {"tryAlloc", "inAlloc"}} = {}
      BY DEF PoolInit
    <3> QED
      BY <3>1, FS_EmptySet DEF Pending
  <2>3. nbufs + Pending <= MaxBufs
    BY <2>2, PoolAssumption DEF PoolInit
  <2>4. ret \in [PoolThreads -> Blocks \cup {NoBlock}] /\ held \subseteq Blocks
    BY DEF PoolInit
  <2>5. doing \in [PoolThreads -> PoolSteps] /\ owner \in [Groups -> PoolThreads \cup {NoThread}]
    BY DEF PoolInit, PoolSteps
  <2>6. nbufs \in Nat /\ memblocks \in 0..nbufs /\ buf \in [PoolThreads -> 0..nbufs] /\ blocks \in [PoolThreads -> 0..nbufs]
    BY DEF PoolInit, NoBuf
  <2>7. index \in Groups /\ grp \in [PoolThreads -> Groups]
    BY GroupsAre DEF PoolInit
  <2> QED
    BY <2>1, <2>3, <2>4, <2>5, <2>6, <2>7 DEF PoolType
<1>2. GroupOwned /\ CallHas
  BY DEF PoolInit, GroupOwned, CallHas, InGroup
<1>3. PoolSplit
  <2>1. \A g \in Groups : 1..Len(heads[g]) = {}
    BY EmptySeq DEF PoolInit
  <2>2. ListedOnce(heads) /\ ListedIn(heads) = {}
    BY <2>1 DEF ListedOnce, ListedIn
  <2>3. CallsApart(ret) /\ CallsHold(ret) = {}
    BY NoBlockIsNone DEF PoolInit, CallsApart, CallsHold
  <2>4. BlocksOf(nbufs) = {}
    BY NoBlockIsNone, PoolAssumption DEF PoolInit, BlocksOf
  <2> QED
    BY <2>2, <2>3, <2>4 DEF PoolInit, PoolSplit, Split
<1>4. PoolChain
  <2> DEFINE p == [i \in 0..0 |-> NoBuf]
  <2>1. nbufs = 0 /\ memblocks = NoBuf /\ NoBuf = 0 /\ \A t \in PoolThreads : buf[t] = NoBuf
    BY DEF PoolInit, NoBuf
  <2>2. 0 \in 0..nbufs /\ p \in [0..0 -> 0..nbufs] /\ p[0] = NoBuf /\ 0..(0 - 1) = {}
    BY <2>1
  <2>3. Walk(chain, memblocks, 0, p)
    <3>1. \A i, j \in 0..0 : i = j
      OBVIOUS
    <3> HIDE DEF p
    <3> QED
      BY <2>1, <2>2, <3>1 DEF Walk
  <2>4. Bring(0, p)
    <3>1. 0..0 = {0} /\ 0..nbufs = {0}
      BY <2>1
    <3>2. {p[i] : i \in 0..0} = {0}
      BY <2>1, <2>2, <3>1
    <3> HIDE DEF p
    <3> QED
      BY <2>1, <2>2, <3>1, <3>2 DEF Bring
  <2> HIDE DEF p
  <2> QED
    BY <2>1, <2>2, <2>3, <2>4 DEF PoolChain
<1> QED
  BY <1>1, <1>2, <1>3, <1>4 DEF PoolInv

\* A call to allocate begins where a buffer is left.
LEMMA StartAllocKeeps == ASSUME PoolInv, NEW t \in PoolThreads, StartAlloc(t) PROVE PoolInv'
<1>1. PoolType'
  <2>1. Pending' = Pending + 1 /\ Pending \in Nat
    BY PendingMoves DEF PoolInv, StartAlloc, MayGrow
  <2>2. nbufs' + Pending' <= MaxBufs
    BY <2>1, PoolAssumption DEF StartAlloc, PoolInv, PoolType
  <2>3. doing' \in [PoolThreads -> PoolSteps] /\ grp' \in [PoolThreads -> Groups]
    BY DEF StartAlloc, PoolInv, PoolType, PoolSteps
  <2> QED
    BY <2>2, <2>3 DEF StartAlloc, PoolInv, PoolType
<1>2. GroupOwned' /\ CallHas'
  BY DEF StartAlloc, PoolInv, PoolType, GroupOwned, CallHas, InGroup
<1>3. PoolSplit' /\ PoolChain'
  BY SplitStays, ChainStays DEF StartAlloc, PoolInv
<1> QED
  BY <1>1, <1>2, <1>3 DEF PoolInv

\* A call to deallocate has the block its caller had.
LEMMA StartFreeKeeps == ASSUME PoolInv, NEW t \in PoolThreads, NEW b \in held, StartFree(t, b) PROVE PoolInv'
<1>0. b \in Blocks /\ b # NoBlock
  BY NoBlockIsNone DEF PoolInv, PoolType
<1>1. ret[t] = NoBlock /\ b \notin CallsHold(ret) /\ b \notin ListedIn(heads)
  BY DEF StartFree, PoolInv, CallHas, PoolSplit, Split
<1>2. /\ ret' \in [PoolThreads -> Blocks \cup {NoBlock}]
      /\ CallsApart(ret') /\ CallsHold(ret') = CallsHold(ret) \cup {b}
  BY <1>0, <1>1, CallTakes DEF StartFree, PoolInv, PoolType, PoolSplit
<1>3. PoolType'
  <2>1. Pending' = Pending /\ Pending \in Nat
    <3>1. PoolType /\ doing[t] \notin MayGrow /\ "tryFree" \notin MayGrow /\ doing' = [doing EXCEPT ![t] = "tryFree"]
      BY DEF PoolInv, StartFree, MayGrow
    <3> QED
      BY <3>1, PendingMoves
  <2>2. nbufs' + Pending' <= MaxBufs
    BY <2>1 DEF StartFree, PoolInv, PoolType
  <2>3. doing' \in [PoolThreads -> PoolSteps] /\ grp' \in [PoolThreads -> Groups]
    BY DEF StartFree, PoolInv, PoolType, PoolSteps
  <2> QED
    BY <1>2, <2>2, <2>3 DEF StartFree, PoolInv, PoolType
<1>4. GroupOwned' /\ CallHas'
  <2>1. GroupOwned'
    BY DEF StartFree, PoolInv, PoolType, GroupOwned, InGroup
  <2>2. CallHas'
    BY <1>0 DEF StartFree, PoolInv, PoolType, CallHas
  <2> QED
    BY <2>1, <2>2
<1>5. PoolSplit'
  <2>1. heads' = heads /\ nbufs' = nbufs /\ held' = held \ {b}
    BY DEF StartFree
  <2>2. ListedOnce(heads) /\ Split(ListedIn(heads), CallsHold(ret), held, nbufs)
    BY DEF PoolInv, PoolSplit
  <2>3. Split(ListedIn(heads'), CallsHold(ret'), held', nbufs')
    BY <1>1, <1>2, <2>1, <2>2 DEF Split
  <2> QED
    BY <1>2, <2>1, <2>2, <2>3 DEF PoolSplit
<1>6. PoolChain'
  BY ChainStays DEF StartFree, PoolInv
<1> QED
  BY <1>3, <1>4, <1>5, <1>6 DEF PoolInv

\* A lock is taken or the next one is tried.
LEMMA TryLockKeeps == ASSUME PoolInv, NEW t \in PoolThreads, TryLock(t) PROVE PoolInv'
<1>0. PoolType /\ doing[t] \in {"tryAlloc", "tryFree"}
  BY DEF TryLock, PoolInv
<1>1. PoolSplit' /\ PoolChain'
  BY SplitStays, ChainStays DEF TryLock, PoolInv
<1>2. CASE owner[grp[t]] = NoThread
  <2>1. PICK x \in {"inAlloc", "inFree"} : /\ x = (IF doing[t] = "tryAlloc" THEN "inAlloc" ELSE "inFree")
                                           /\ doing' = [doing EXCEPT ![t] = x]
    BY <1>2 DEF TryLock
  <2>2. owner' = [owner EXCEPT ![grp[t]] = t] /\ grp' = grp
    BY <1>2 DEF TryLock
  <2>3. PoolType'
    <3>1. Pending' = Pending /\ Pending \in Nat
      BY <1>0, <2>1, PendingMoves DEF MayGrow
    <3>2. nbufs' + Pending' <= MaxBufs
      BY <1>0, <3>1 DEF TryLock, PoolType
    <3>3. doing' \in [PoolThreads -> PoolSteps] /\ owner' \in [Groups -> PoolThreads \cup {NoThread}]
      BY <1>0, <2>1, <2>2 DEF PoolType, PoolSteps
    <3> QED
      BY <1>0, <2>2, <3>2, <3>3 DEF TryLock, PoolType
  <2>4. GroupOwned'
    BY <1>0, <1>2, <2>1, <2>2, PoolAssumption DEF PoolInv, PoolType, GroupOwned, InGroup, NoThread
  <2>5. CallHas'
    BY <1>0, <2>1 DEF TryLock, PoolInv, PoolType, CallHas
  <2> QED
    BY <1>1, <2>3, <2>4, <2>5 DEF PoolInv
<1>3. CASE owner[grp[t]] # NoThread
  <2>1. grp' = [grp EXCEPT ![t] = (@ + 1) % groupnum] /\ owner' = owner /\ doing' = doing
    BY <1>3 DEF TryLock
  <2>2. PoolType'
    <3>1. grp' \in [PoolThreads -> Groups]
      BY <1>0, <2>1, GroupsAre DEF PoolType
    <3>2. Pending' = Pending
      BY <2>1 DEF Pending
    <3> QED
      BY <1>0, <2>1, <3>1, <3>2 DEF TryLock, PoolType
  <2>3. GroupOwned' /\ CallHas'
    BY <1>0, <2>1 DEF TryLock, PoolInv, PoolType, GroupOwned, CallHas, InGroup
  <2> QED
    BY <1>1, <2>2, <2>3 DEF PoolInv
<1> QED
  BY <1>2, <1>3

\* A block passes from one of the three to another, or comes from a new buffer.
LEMMA SplitPasses ==
  ASSUME NEW l, NEW c, NEW h, NEW n, Split(l, c, h, n), NEW b
  PROVE  /\ b \in l => Split(l \ {b}, c \cup {b}, h, n)
         /\ b \in c => Split(l \cup {b}, c \ {b}, h, n)
         /\ b \in c => Split(l, c \ {b}, h \cup {b}, n)
         /\ \A m, r : /\ BlocksOf(m) = (BlocksOf(n) \cup r) \cup {b}
                     /\ b \notin BlocksOf(n) /\ b \notin r /\ r \cap BlocksOf(n) = {}
                     => Split(l \cup r, c \cup {b}, h, m)
<1>1. ASSUME b \in l PROVE Split(l \ {b}, c \cup {b}, h, n)
  BY <1>1 DEF Split
<1>2. ASSUME b \in c PROVE Split(l \cup {b}, c \ {b}, h, n)
  BY <1>2 DEF Split
<1>3. ASSUME b \in c PROVE Split(l, c \ {b}, h \cup {b}, n)
  BY <1>3 DEF Split
<1>4. ASSUME NEW m, NEW r, BlocksOf(m) = (BlocksOf(n) \cup r) \cup {b},
             b \notin BlocksOf(n), b \notin r, r \cap BlocksOf(n) = {}
      PROVE  Split(l \cup r, c \cup {b}, h, m)
  BY <1>4 DEF Split
<1> QED
  BY <1>1, <1>2, <1>3, <1>4

\* A block goes from a list to the call, or a buffer is split between both.
LEMMA TakeBlockKeeps == ASSUME PoolInv, NEW t \in PoolThreads, TakeBlock(t) PROVE PoolInv'
<1> DEFINE g == grp[t]
<1>0. /\ PoolType /\ doing[t] = "inAlloc" /\ g \in Groups /\ owner[g] = t /\ ret[t] = NoBlock /\ buf[t] = NoBuf
      /\ doing' = [doing EXCEPT ![t] = "outAlloc"]
      /\ heads \in [Groups -> Seq(Blocks)] /\ ListedOnce(heads) /\ CallsApart(ret)
      /\ Split(ListedIn(heads), CallsHold(ret), held, nbufs)
      /\ ret \in [PoolThreads -> Blocks \cup {NoBlock}] /\ nbufs \in Nat
  BY DEF PoolInv, PoolType, CallHas, GroupOwned, InGroup, TakeBlock, PoolSplit
<1>1. Pending' = Pending - 1 /\ Pending \in Nat /\ Pending' \in Nat
  <2>1. doing[t] \in MayGrow /\ "outAlloc" \notin MayGrow
    BY <1>0 DEF MayGrow
  <2> QED
    BY <1>0, <2>1, PendingMoves
<1>2. doing' \in [PoolThreads -> PoolSteps]
  BY <1>0 DEF PoolType, PoolSteps
<1>3. GroupOwned'
  BY <1>0 DEF TakeBlock, PoolInv, PoolType, GroupOwned, InGroup
<1>4. CASE heads[g] # <<>>
  <2>1. /\ ret' = [ret EXCEPT ![t] = heads[g][1]] /\ heads' = [heads EXCEPT ![g] = Tail(@)]
        /\ nbufs' = nbufs /\ buf' = buf /\ held' = held
    BY <1>4 DEF TakeBlock
  <2>2. /\ heads[g][1] \in ListedIn(heads) /\ heads' \in [Groups -> Seq(Blocks)] /\ ListedOnce(heads')
        /\ ListedIn(heads') = ListedIn(heads) \ {heads[g][1]}
    BY <1>0, <1>4, <2>1, FirstIsTaken
  <2>3. heads[g][1] \in Blocks /\ heads[g][1] \notin CallsHold(ret) /\ heads[g][1] # NoBlock
    BY <1>0, <2>2, NoBlockIsNone DEF ListedIn, Split
  <2>4. /\ ret' \in [PoolThreads -> Blocks \cup {NoBlock}] /\ CallsApart(ret')
        /\ CallsHold(ret') = CallsHold(ret) \cup {heads[g][1]}
    <3>1. PICK b \in Blocks : b = heads[g][1]
      BY <2>3
    <3> QED
      <4>1. ret' = [ret EXCEPT ![t] = b] /\ b \notin CallsHold(ret)
        BY <2>1, <2>3, <3>1
      <4>2. /\ ret' \in [PoolThreads -> Blocks \cup {NoBlock}] /\ CallsApart(ret')
            /\ CallsHold(ret') = CallsHold(ret) \cup {b}
        BY <1>0, <4>1, CallTakes
      <4> QED
        BY <3>1, <4>2
  <2>5. PoolType'
    <3>1. nbufs' + Pending' <= MaxBufs
      BY <1>0, <1>1, <2>1, PoolAssumption DEF PoolType
    <3> QED
      BY <1>2, <2>1, <2>2, <2>4, <3>1 DEF TakeBlock, PoolInv, PoolType
  <2>6. CallHas'
    <3>1. ret'[t] # NoBlock /\ doing'[t] = "outAlloc" /\ \A u \in PoolThreads \ {t} : ret'[u] = ret[u] /\ doing'[u] = doing[u]
      BY <1>0, <2>1, <2>3 DEF PoolType
    <3>2. chain' = chain /\ blocks' = blocks
      BY DEF TakeBlock
    <3> QED
      BY <1>0, <2>1, <3>1, <3>2 DEF PoolInv, CallHas
  <2>7. PoolSplit'
    <3>1. Split(ListedIn(heads'), CallsHold(ret'), held', nbufs')
      <4>1. Split(ListedIn(heads) \ {heads[g][1]}, CallsHold(ret) \cup {heads[g][1]}, held, nbufs)
        BY <1>0, <2>2, SplitPasses
      <4> QED
        BY <2>1, <2>2, <2>4, <4>1
    <3> QED
      BY <2>2, <2>4, <3>1 DEF PoolSplit
  <2>8. PoolChain'
    BY <2>1, ChainStays DEF TakeBlock, PoolInv
  <2> QED
    BY <1>3, <2>5, <2>6, <2>7, <2>8 DEF PoolInv
<1>5. CASE heads[g] = <<>>
  <2>1. /\ nbufs' = nbufs + 1 /\ buf' = [buf EXCEPT ![t] = nbufs + 1] /\ ret' = [ret EXCEPT ![t] = <<nbufs + 1, 1>>]
        /\ heads' = [heads EXCEPT ![g] = [n \in 1..(escalate - 1) |-> <<nbufs + 1, n + 1>>]]
        /\ held' = held /\ chain' = chain /\ memblocks' = memblocks /\ blocks' = blocks
    BY <1>5 DEF TakeBlock
  <2>2. nbufs + 1 <= MaxBufs
    BY <1>0, <1>1, PoolAssumption DEF PoolType
  <2> DEFINE first == <<nbufs + 1, 1>>
  <2>3. /\ nbufs + 1 \in 1..MaxBufs /\ first \in Blocks
        /\ BlocksOf(nbufs + 1) = (BlocksOf(nbufs) \cup RestOf(nbufs + 1)) \cup {first}
        /\ \A b \in BlocksOf(nbufs) : b[1] # nbufs + 1
        /\ first \notin RestOf(nbufs + 1)
    BY <1>0, <2>2, BufferSplits
  <2>4. first[1] = nbufs + 1 /\ \A b \in RestOf(nbufs + 1) : b[1] = nbufs + 1
    BY DEF RestOf
  <2>5. ListedIn(heads) \subseteq BlocksOf(nbufs) /\ CallsHold(ret) \subseteq BlocksOf(nbufs) /\ held \subseteq BlocksOf(nbufs)
    BY <1>0 DEF Split
  <2>6. first \notin BlocksOf(nbufs) /\ RestOf(nbufs + 1) \cap BlocksOf(nbufs) = {}
    BY <2>3, <2>4
  <2>7. /\ heads' \in [Groups -> Seq(Blocks)] /\ ListedOnce(heads')
        /\ ListedIn(heads') = ListedIn(heads) \cup RestOf(nbufs + 1)
    <3>1. \A b \in ListedIn(heads) : b[1] # nbufs + 1
      BY <2>3, <2>5
    <3> QED
      <4>1. PICK k \in 1..MaxBufs : k = nbufs + 1
        BY <2>3
      <4>2. heads' = [heads EXCEPT ![g] = [n \in 1..(escalate - 1) |-> <<k, n + 1>>]] /\ \A b \in ListedIn(heads) : b[1] # k
        BY <2>1, <3>1, <4>1
      <4>3. /\ heads' \in [Groups -> Seq(Blocks)] /\ ListedOnce(heads')
            /\ ListedIn(heads') = ListedIn(heads) \cup RestOf(k)
        <5>1. heads \in [Groups -> Seq(Blocks)] /\ ListedOnce(heads) /\ g \in Groups /\ heads[g] = <<>>
          BY <1>0, <1>5
        <5> HIDE DEF g
        <5> QED
          BY <4>2, <5>1, BufferIsListed
      <4> QED
        BY <4>1, <4>3
  <2>8. /\ ret' \in [PoolThreads -> Blocks \cup {NoBlock}] /\ CallsApart(ret')
        /\ CallsHold(ret') = CallsHold(ret) \cup {first}
    <3>1. first \notin CallsHold(ret)
      BY <2>5, <2>6
    <3>2. PICK b \in Blocks : b = first
      BY <2>3
    <3> QED
      <4>1. ret' = [ret EXCEPT ![t] = b] /\ b \notin CallsHold(ret)
        BY <2>1, <3>1, <3>2
      <4>2. /\ ret' \in [PoolThreads -> Blocks \cup {NoBlock}] /\ CallsApart(ret')
            /\ CallsHold(ret') = CallsHold(ret) \cup {b}
        BY <1>0, <4>1, CallTakes
      <4> QED
        BY <3>2, <4>2
  <2>9. first # NoBlock
    BY <2>3, NoBlockIsNone
  <2>10. PoolType'
    <3>1. nbufs' + Pending' <= MaxBufs /\ nbufs' \in Nat
      BY <1>0, <1>1, <2>1, PoolAssumption DEF PoolType
    <3>2. \A n \in 0..nbufs : n \in 0..nbufs'
      BY <1>0, <2>1
    <3>3. memblocks' \in 0..nbufs' /\ blocks' \in [PoolThreads -> 0..nbufs']
      BY <1>0, <2>1, <3>2 DEF PoolType
    <3>4. buf' \in [PoolThreads -> 0..nbufs']
      <4>1. nbufs + 1 \in 0..nbufs'
        BY <1>0, <2>1
      <4> QED
        BY <1>0, <2>1, <3>2, <4>1 DEF PoolType
    <3>5. owner' = owner /\ index' = index /\ grp' = grp /\ held' = held
      BY <1>5 DEF TakeBlock
    <3> QED
      BY <1>0, <1>2, <2>7, <2>8, <3>1, <3>3, <3>4, <3>5 DEF PoolType
  <2>11. CallHas'
    <3>1. /\ ret'[t] # NoBlock /\ doing'[t] = "outAlloc"
          /\ \A u \in PoolThreads \ {t} : ret'[u] = ret[u] /\ doing'[u] = doing[u] /\ buf'[u] = buf[u]
      BY <1>0, <2>1, <2>9 DEF PoolType
    <3> QED
      BY <2>1, <3>1 DEF PoolInv, CallHas
  <2>12. PoolSplit'
    <3>1. Split(ListedIn(heads'), CallsHold(ret'), held', nbufs')
      <4>1. PICK b \in Blocks : b = first
        BY <2>3
      <4>2. Split(ListedIn(heads) \cup RestOf(nbufs + 1), CallsHold(ret) \cup {b}, held, nbufs + 1)
        <5> HIDE DEF first
        <5> QED
          BY <1>0, <2>3, <2>6, <4>1, SplitPasses
      <4> QED
        BY <2>1, <2>7, <2>8, <4>1, <4>2
    <3> QED
      BY <2>7, <2>8, <3>1 DEF PoolSplit
  <2>13. PoolChain'
    <3>1. PICK k \in 0..nbufs : \E p \in [0..k -> 0..nbufs] : Walk(chain, memblocks, k, p) /\ Bring(k, p)
      BY DEF PoolInv, PoolChain
    <3>2. PICK p \in [0..k -> 0..nbufs] : Walk(chain, memblocks, k, p) /\ Bring(k, p)
      BY <3>1
    <3>3. \A n \in 0..nbufs : n \in 0..nbufs' /\ n # nbufs + 1
      BY <1>0, <2>1
    <3>4. k \in 0..nbufs' /\ p \in [0..k -> 0..nbufs'] /\ p[k] = NoBuf /\ k \in 0..k /\ NoBuf = 0
      BY <1>0, <3>2, <3>3 DEF Walk, NoBuf
    <3>5. buf'[t] = nbufs + 1 /\ \A u \in PoolThreads \ {t} : buf'[u] = buf[u] /\ buf[u] \in 0..nbufs
      BY <1>0, <2>1 DEF PoolType
    <3>6. \A i \in 0..k : p[i] \in 0..nbufs
      OBVIOUS
    <3>7. \A i \in 0..(k - 1) : i \in 0..k
      BY <1>0
    <3>8. 0..nbufs' = (0..nbufs) \cup {nbufs + 1}
      BY <1>0, <2>1
    <3>9. {p[i] : i \in 0..k} \cup {buf'[u] : u \in PoolThreads} = 0..nbufs'
      <4>1. {p[i] : i \in 0..k} \cup {buf[u] : u \in PoolThreads} = 0..nbufs
        BY <3>2 DEF Bring
      <4>2. ASSUME NEW x \in 0..nbufs PROVE x \in {p[i] : i \in 0..k} \cup {buf'[u] : u \in PoolThreads}
        <5>1. CASE x \in {p[i] : i \in 0..k}
          BY <5>1
        <5>2. CASE x \in {buf[u] : u \in PoolThreads}
          <6>1. PICK u \in PoolThreads : x = buf[u]
            BY <5>2
          <6>2. CASE u = t
            BY <1>0, <3>4, <6>1, <6>2
          <6>3. CASE u # t
            BY <3>5, <6>1, <6>3
          <6> QED
            BY <6>2, <6>3
        <5> QED
          BY <4>1, <5>1, <5>2
      <4> QED
        BY <3>5, <3>6, <3>8, <4>2
    <3>10. \A u \in PoolThreads : \A i \in 0..(k - 1) : buf'[u] # p[i]
      BY <3>2, <3>3, <3>5, <3>6, <3>7 DEF Bring
    <3>11. \A u, v \in PoolThreads : buf'[u] = buf'[v] /\ buf'[u] # NoBuf => u = v
      BY <3>3, <3>5 DEF PoolInv, PoolChain
    <3>12. Bring(k, p)' /\ Walk(chain', memblocks', k, p)
      BY <2>1, <3>2, <3>9, <3>10 DEF Bring
    <3> QED
      BY <3>4, <3>11, <3>12 DEF PoolChain
  <2> QED
    BY <1>3, <2>10, <2>11, <2>12, <2>13 DEF PoolInv
<1> QED
  BY <1>4, <1>5

\* A block goes from the call to a list.
LEMMA PutBlockKeeps == ASSUME PoolInv, NEW t \in PoolThreads, PutBlock(t) PROVE PoolInv'
<1> DEFINE b == ret[t]
<1>0. /\ PoolType /\ doing[t] = "inFree" /\ grp[t] \in Groups /\ ret[t] # NoBlock /\ b \in Blocks
      /\ doing' = [doing EXCEPT ![t] = "outFree"] /\ ret' = [ret EXCEPT ![t] = NoBlock]
      /\ heads \in [Groups -> Seq(Blocks)] /\ ListedOnce(heads) /\ CallsApart(ret)
      /\ Split(ListedIn(heads), CallsHold(ret), held, nbufs)
      /\ ret \in [PoolThreads -> Blocks \cup {NoBlock}] /\ heads' = [heads EXCEPT ![grp[t]] = <<b>> \o @]
  BY DEF PoolInv, PoolType, CallHas, PutBlock, PoolSplit
<1>1. /\ ret' \in [PoolThreads -> Blocks \cup {NoBlock}] /\ CallsApart(ret') /\ b \in CallsHold(ret)
      /\ CallsHold(ret') = CallsHold(ret) \ {b}
  BY <1>0, CallGives
<1>2. b \notin ListedIn(heads)
  BY <1>0, <1>1 DEF Split
<1>3. /\ heads' \in [Groups -> Seq(Blocks)] /\ ListedOnce(heads')
      /\ ListedIn(heads') = ListedIn(heads) \cup {b}
  BY <1>0, <1>2, BlockIsPut
<1>4. PoolType'
  <2>1. doing[t] \notin MayGrow /\ "outFree" \notin MayGrow
    BY <1>0 DEF MayGrow
  <2>2. Pending' = Pending
    BY <1>0, <2>1, PendingMoves
  <2>3. doing' \in [PoolThreads -> PoolSteps]
    BY <1>0 DEF PoolType, PoolSteps
  <2> QED
    BY <1>0, <1>1, <1>3, <2>2, <2>3 DEF PutBlock, PoolType
<1>5. GroupOwned'
  BY <1>0 DEF PutBlock, PoolInv, PoolType, GroupOwned, InGroup
<1>6. CallHas'
  BY <1>0 DEF PutBlock, PoolInv, PoolType, CallHas
<1>7. PoolSplit'
  <2>1. Split(ListedIn(heads'), CallsHold(ret'), held', nbufs')
    <3>1. Split(ListedIn(heads) \cup {b}, CallsHold(ret) \ {b}, held, nbufs)
      BY <1>0, <1>1, SplitPasses
    <3>2. held' = held /\ nbufs' = nbufs
      BY DEF PutBlock
    <3> QED
      BY <1>1, <1>3, <3>1, <3>2
  <2> QED
    BY <1>1, <1>3, <2>1 DEF PoolSplit
<1>8. PoolChain'
  BY ChainStays DEF PutBlock, PoolInv
<1> QED
  BY <1>4, <1>5, <1>6, <1>7, <1>8 DEF PoolInv

\* The owner leaves its group.
LEMMA UnlockKeeps == ASSUME PoolInv, NEW t \in PoolThreads, Unlock(t) PROVE PoolInv'
<1>0. PoolType /\ doing[t] \in {"outAlloc", "outFree"} /\ owner[grp[t]] = t
  BY DEF PoolInv, GroupOwned, InGroup, Unlock
<1>1. PICK x \in {"idle", "index"} : x = (IF doing[t] = "outFree" THEN "idle" ELSE "index")
                                     /\ doing' = [doing EXCEPT ![t] = x]
  BY DEF Unlock
<1>2. owner' = [owner EXCEPT ![grp[t]] = NoThread] /\ grp' = [grp EXCEPT ![t] = 0]
  BY DEF Unlock
<1>3. PoolType'
  <2>1. doing[t] \notin MayGrow /\ x \notin MayGrow
    BY <1>0 DEF MayGrow
  <2>2. Pending' = Pending
    BY <1>0, <1>1, <2>1, PendingMoves
  <2>3. doing' \in [PoolThreads -> PoolSteps] /\ grp' \in [PoolThreads -> Groups]
    BY <1>0, <1>1, <1>2, GroupsAre DEF PoolType, PoolSteps
  <2>4. owner' \in [Groups -> PoolThreads \cup {NoThread}]
    BY <1>0, <1>2 DEF PoolType
  <2> QED
    BY <1>0, <2>2, <2>3, <2>4 DEF Unlock, PoolType
<1>4. GroupOwned'
  <2>1. ASSUME NEW u \in PoolThreads, doing'[u] \in InGroup PROVE owner'[grp'[u]] = u
    <3>1. u # t
      BY <1>0, <1>1, <2>1 DEF PoolType, InGroup
    <3>2. doing'[u] = doing[u] /\ grp'[u] = grp[u]
      BY <1>0, <1>1, <1>2, <3>1 DEF PoolType
    <3>3. owner[grp[u]] = u /\ grp[u] \in Groups
      BY <1>0, <2>1, <3>2 DEF PoolInv, GroupOwned, PoolType
    <3>4. grp[u] # grp[t]
      BY <1>0, <3>1, <3>3
    <3> QED
      BY <1>0, <1>2, <3>2, <3>3, <3>4 DEF PoolType
  <2> QED
    BY <2>1 DEF GroupOwned
<1>5. CallHas'
  BY <1>0, <1>1 DEF Unlock, PoolInv, PoolType, CallHas
<1>6. PoolSplit' /\ PoolChain'
  BY SplitStays, ChainStays DEF Unlock, PoolInv
<1> QED
  BY <1>3, <1>4, <1>5, <1>6 DEF PoolInv

\* A call that has its block returns.
LEMMA ReturnSplits ==
  ASSUME PoolInv, NEW t \in PoolThreads, ret[t] # NoBlock, held' = held \cup {ret[t]},
         ret' = [ret EXCEPT ![t] = NoBlock], heads' = heads, nbufs' = nbufs
  PROVE  PoolSplit' /\ ret' \in [PoolThreads -> Blocks \cup {NoBlock}] /\ held' \subseteq Blocks
<1>1. /\ ListedOnce(heads) /\ CallsApart(ret) /\ Split(ListedIn(heads), CallsHold(ret), held, nbufs)
      /\ ret \in [PoolThreads -> Blocks \cup {NoBlock}] /\ held \subseteq Blocks
  BY DEF PoolInv, PoolType, PoolSplit
<1>2. /\ ret' \in [PoolThreads -> Blocks \cup {NoBlock}] /\ CallsApart(ret') /\ ret[t] \in CallsHold(ret)
      /\ CallsHold(ret') = CallsHold(ret) \ {ret[t]}
  BY <1>1, CallGives
<1>3. Split(ListedIn(heads), CallsHold(ret) \ {ret[t]}, held \cup {ret[t]}, nbufs)
  BY <1>1, <1>2, SplitPasses
<1> QED
  BY <1>1, <1>2, <1>3 DEF PoolSplit

\* A call without a new buffer returns its block.
LEMMA AdvanceKeeps == ASSUME PoolInv, NEW t \in PoolThreads, Advance(t) PROVE PoolInv'
<1>0. PoolType /\ doing[t] = "index" /\ ret[t] # NoBlock
  BY DEF PoolInv, CallHas, Advance
<1>1. PICK x \in {"idle", "addMem"} : x = (IF buf[t] = NoBuf THEN "idle" ELSE "addMem")
                                     /\ doing' = [doing EXCEPT ![t] = x]
  BY DEF Advance
<1>2. Pending' = Pending
  <2>1. doing[t] \notin MayGrow /\ x \notin MayGrow
    BY <1>0 DEF MayGrow
  <2> QED
    BY <1>0, <1>1, <2>1, PendingMoves
<1>3. doing' \in [PoolThreads -> PoolSteps] /\ index' \in Groups
  BY <1>0, <1>1, GroupsAre DEF Advance, PoolType, PoolSteps
<1>4. GroupOwned'
  BY <1>0, <1>1 DEF Advance, PoolInv, PoolType, GroupOwned, InGroup
<1>5. PoolChain'
  BY ChainStays DEF Advance, PoolInv
<1>6. CASE buf[t] = NoBuf
  <2>1. held' = held \cup {ret[t]} /\ ret' = [ret EXCEPT ![t] = NoBlock]
    BY <1>6 DEF Advance
  <2>2. PoolSplit' /\ ret' \in [PoolThreads -> Blocks \cup {NoBlock}] /\ held' \subseteq Blocks
    BY <1>0, <2>1, ReturnSplits DEF Advance
  <2>3. PoolType'
    BY <1>0, <1>2, <1>3, <2>2 DEF Advance, PoolType
  <2>4. CallHas'
    BY <1>0, <1>1, <1>6, <2>1 DEF Advance, PoolInv, PoolType, CallHas
  <2> QED
    BY <1>4, <1>5, <2>2, <2>3, <2>4 DEF PoolInv
<1>7. CASE buf[t] # NoBuf
  <2>1. held' = held /\ ret' = ret
    BY <1>7 DEF Advance
  <2>2. PoolSplit'
    BY <2>1, SplitStays DEF Advance, PoolInv
  <2>3. PoolType'
    BY <1>0, <1>2, <1>3, <2>1 DEF Advance, PoolType
  <2>4. CallHas'
    BY <1>0, <1>1, <1>7, <2>1 DEF Advance, PoolInv, PoolType, CallHas
  <2> QED
    BY <1>4, <1>5, <2>2, <2>3, <2>4 DEF PoolInv
<1> QED
  BY <1>6, <1>7

\* A buffer that nobody else has points to the first of the chain.
LEMMA AddMemKeeps == ASSUME PoolInv, NEW t \in PoolThreads, AddMem(t) PROVE PoolInv'
<1>0. PoolType /\ doing[t] = "addMem" /\ ret[t] # NoBlock /\ buf[t] # NoBuf /\ memblocks \in 0..nbufs
      /\ doing' = [doing EXCEPT ![t] = "addCas"] /\ blocks' = [blocks EXCEPT ![t] = memblocks]
  BY DEF PoolInv, PoolType, CallHas, AddMem
<1>1. /\ buf[t] \in DOMAIN chain' /\ chain'[buf[t]] = memblocks
      /\ \A b \in DOMAIN chain : b # buf[t] => b \in DOMAIN chain' /\ chain'[b] = chain[b]
  BY DEF AddMem
<1>2. Pending' = Pending
  <2>1. doing[t] \notin MayGrow /\ "addCas" \notin MayGrow
    BY <1>0 DEF MayGrow
  <2> QED
    BY <1>0, <2>1, PendingMoves
<1>3. PoolType'
  <2>1. doing' \in [PoolThreads -> PoolSteps] /\ blocks' \in [PoolThreads -> 0..nbufs]
    BY <1>0 DEF PoolType, PoolSteps
  <2> QED
    BY <1>0, <1>2, <2>1 DEF AddMem, PoolType
<1>4. GroupOwned'
  BY <1>0 DEF AddMem, PoolInv, PoolType, GroupOwned, InGroup
<1>5. CallHas'
  <2>1. ret' = ret /\ buf' = buf
    BY DEF AddMem
  <2>2. \A u \in PoolThreads \ {t} : doing'[u] = doing[u] /\ blocks'[u] = blocks[u] /\ (buf[u] # NoBuf => buf[u] # buf[t])
    BY <1>0 DEF PoolInv, PoolType, PoolChain
  <2>3. doing'[t] = "addCas" /\ blocks'[t] = memblocks
    BY <1>0 DEF PoolType
  <2> SUFFICES ASSUME NEW u \in PoolThreads
               PROVE  /\ (ret[u] = NoBlock <=> doing'[u] \in {"idle", "tryAlloc", "inAlloc", "outFree"})
                      /\ (buf[u] # NoBuf => doing'[u] \in {"outAlloc", "index", "addMem", "addCas"})
                      /\ (doing'[u] \in {"addMem", "addCas"} => buf[u] # NoBuf)
                      /\ (doing'[u] = "addCas" => buf[u] \in DOMAIN chain' /\ chain'[buf[u]] = blocks'[u])
    BY <2>1 DEF CallHas
  <2>4. CASE u = t
    BY <1>0, <1>1, <2>3, <2>4
  <2>5. CASE u # t
    BY <1>1, <2>2, <2>5 DEF PoolInv, CallHas
  <2> QED
    BY <2>4, <2>5
<1>6. PoolSplit'
  BY SplitStays DEF AddMem, PoolInv
<1>7. PoolChain'
  <2>1. nbufs' = nbufs /\ buf' = buf /\ memblocks' = memblocks
    BY DEF AddMem
  <2>2. PICK k \in 0..nbufs : \E p \in [0..k -> 0..nbufs] : Walk(chain, memblocks, k, p) /\ Bring(k, p)
    BY DEF PoolInv, PoolChain
  <2>3. PICK p \in [0..k -> 0..nbufs] : Walk(chain, memblocks, k, p) /\ Bring(k, p)
    BY <2>2
  <2>4. Walk(chain', memblocks', k, p)
    BY <1>1, <2>1, <2>3 DEF Walk, Bring
  <2>5. Bring(k, p)'
    BY <2>1, <2>3 DEF Bring
  <2> QED
    BY <2>1, <2>4, <2>5 DEF PoolInv, PoolChain
<1> QED
  BY <1>3, <1>4, <1>5, <1>6, <1>7 DEF PoolInv

\* The walk with the buffer b before it.
WalkFrom(c, b, n, k, p) ==
  /\ k + 1 \in 0..n
  /\ \E q \in [0..(k + 1) -> 0..n] : /\ Walk(c, b, k + 1, q)
                                     /\ {q[i] : i \in 0..k} = {b} \cup {p[i] : i \in 0..(k - 1)}
                                     /\ {q[i] : i \in 0..(k + 1)} = {b} \cup {p[i] : i \in 0..k}
LEMMA WalkGrows ==
  ASSUME NEW n \in Nat, NEW k \in 0..n, NEW p \in [0..k -> 0..n], NEW c, NEW m,
         Walk(c, m, k, p), NEW b \in 0..n, b # NoBuf, b \in DOMAIN c, c[b] = m,
         \A i \in 0..(k - 1) : b # p[i]
  PROVE  WalkFrom(c, b, n, k, p)
<1> DEFINE q == [i \in 0..(k + 1) |-> IF i = 0 THEN b ELSE p[i - 1]]
<1>1. k \in Nat /\ k <= n /\ \A i \in 0..(k + 1) : i # 0 => i - 1 \in 0..k
  OBVIOUS
<1>2. q \in [0..(k + 1) -> 0..n] /\ q[0] = b /\ \A i \in 0..(k + 1) : i # 0 => q[i] = p[i - 1]
  BY <1>1
<1> HIDE DEF q
<1>3. \A i \in 0..k : b # p[i]
  <2>1. \A i \in 0..k : i \in 0..(k - 1) \/ i = k
    BY <1>1
  <2> QED
    BY <2>1 DEF Walk
<1>4. \A i \in 0..k : i + 1 \in 0..(k + 1) /\ i + 1 # 0 /\ (i + 1) - 1 = i /\ i \in 0..(k + 1)
  BY <1>1
<1>5. \A i, j \in 0..(k + 1) : q[i] = q[j] => i = j
  <2> SUFFICES ASSUME NEW i \in 0..(k + 1), NEW j \in 0..(k + 1), q[i] = q[j] PROVE i = j
    OBVIOUS
  <2>1. CASE i = 0 /\ j = 0
    BY <2>1
  <2>2. CASE i = 0 /\ j # 0
    BY <1>1, <1>2, <1>3, <2>2
  <2>3. CASE i # 0 /\ j = 0
    BY <1>1, <1>2, <1>3, <2>3
  <2>4. CASE i # 0 /\ j # 0
    <3>1. p[i - 1] = p[j - 1] /\ i - 1 \in 0..k /\ j - 1 \in 0..k
      BY <1>1, <1>2, <2>4
    <3>2. i - 1 = j - 1
      BY <3>1 DEF Walk
    <3> QED
      BY <3>2
  <2> QED
    BY <2>1, <2>2, <2>3, <2>4
<1>6. k + 1 \in 0..n
  <2>1. q \in Injection(0..(k + 1), 0..n)
    BY <1>2, <1>5 DEF Injection, IsInjective
  <2>2. IsFiniteSet(0..n) /\ Cardinality(0..n) = n + 1 /\ Cardinality(0..(k + 1)) = k + 2
    BY <1>1, FS_Interval
  <2>3. Cardinality(0..(k + 1)) <= Cardinality(0..n)
    BY <2>1, <2>2, FS_Injection, Zenon
  <2> QED
    BY <1>1, <2>2, <2>3
<1>7. Walk(c, b, k + 1, q)
  <2>1. k + 1 \in 0..(k + 1) /\ k + 1 # 0 /\ (k + 1) - 1 = k
    BY <1>1
  <2>2. q[k + 1] = NoBuf
    BY <1>2, <2>1 DEF Walk
  <2>3. ASSUME NEW i \in 0..((k + 1) - 1) PROVE q[i] # NoBuf /\ q[i] \in DOMAIN c /\ c[q[i]] = q[i + 1]
    <3>1. i \in 0..k /\ i \in 0..(k + 1) /\ q[i + 1] = p[i]
      BY <1>1, <1>2, <1>4
    <3>2. CASE i = 0
      BY <1>2, <3>1, <3>2 DEF Walk
    <3>3. CASE i # 0
      <4>1. i - 1 \in 0..(k - 1) /\ (i - 1) + 1 = i
        BY <1>1, <3>1, <3>3
      <4>2. q[i] = p[i - 1]
        BY <1>2, <3>1, <3>3
      <4> QED
        BY <3>1, <4>1, <4>2 DEF Walk
    <3> QED
      BY <3>2, <3>3
  <2> QED
    BY <1>2, <1>5, <2>2, <2>3 DEF Walk
<1>8. {q[i] : i \in 0..k} = {b} \cup {p[i] : i \in 0..(k - 1)}
  <2>1. ASSUME NEW i \in 0..k PROVE q[i] \in {b} \cup {p[j] : j \in 0..(k - 1)}
    <3>1. CASE i = 0
      BY <1>2, <3>1
    <3>2. CASE i # 0
      <4>1. i - 1 \in 0..(k - 1) /\ q[i] = p[i - 1]
        BY <1>1, <1>2, <1>4, <3>2
      <4> QED
        BY <4>1
    <3> QED
      BY <3>1, <3>2
  <2>2. 0 \in 0..k
    BY <1>1
  <2>3. ASSUME NEW j \in 0..(k - 1) PROVE p[j] \in {q[i] : i \in 0..k}
    <3>1. j \in 0..k /\ j + 1 \in 0..k
      BY <1>1
    <3>2. q[j + 1] = p[j]
      BY <1>2, <1>4, <3>1
    <3> QED
      BY <3>1, <3>2
  <2> QED
    BY <1>2, <2>1, <2>2, <2>3
<1>9. {q[i] : i \in 0..(k + 1)} = {b} \cup {p[i] : i \in 0..k}
  <2>1. ASSUME NEW i \in 0..(k + 1) PROVE q[i] \in {b} \cup {p[j] : j \in 0..k}
    <3>1. CASE i = 0
      BY <1>2, <3>1
    <3>2. CASE i # 0
      BY <1>1, <1>2, <3>2
    <3> QED
      BY <3>1, <3>2
  <2>2. 0 \in 0..(k + 1)
    BY <1>1
  <2>3. ASSUME NEW j \in 0..k PROVE p[j] \in {q[i] : i \in 0..(k + 1)}
    <3>1. j + 1 \in 0..(k + 1) /\ q[j + 1] = p[j]
      BY <1>2, <1>4
    <3> QED
      BY <3>1
  <2> QED
    BY <1>2, <2>1, <2>2, <2>3
<1> QED
  BY <1>2, <1>6, <1>7, <1>8, <1>9 DEF WalkFrom

\* The exchange makes the buffer the first, when it points to what was the first.
LEMMA AddCasKeeps == ASSUME PoolInv, NEW t \in PoolThreads, AddCas(t) PROVE PoolInv'
<1>0. /\ PoolType /\ doing[t] = "addCas" /\ ret[t] # NoBlock /\ buf[t] # NoBuf /\ buf[t] \in 0..nbufs
      /\ buf[t] \in DOMAIN chain /\ chain[buf[t]] = blocks[t] /\ blocks' = [blocks EXCEPT ![t] = NoBuf]
      /\ nbufs \in Nat /\ nbufs' = nbufs /\ chain' = chain /\ heads' = heads
  BY DEF PoolInv, PoolType, CallHas, AddCas
<1>1. PICK x \in {"idle", "addMem"} : x = (IF memblocks = blocks[t] THEN "idle" ELSE "addMem")
                                     /\ doing' = [doing EXCEPT ![t] = x]
  BY DEF AddCas
<1>2. Pending' = Pending
  <2>1. doing[t] \notin MayGrow /\ x \notin MayGrow
    BY <1>0 DEF MayGrow
  <2> QED
    BY <1>0, <1>1, <2>1, PendingMoves
<1>3. doing' \in [PoolThreads -> PoolSteps] /\ blocks' \in [PoolThreads -> 0..nbufs]
  BY <1>0, <1>1 DEF PoolType, PoolSteps, NoBuf
<1>4. GroupOwned'
  BY <1>0, <1>1 DEF AddCas, PoolInv, PoolType, GroupOwned, InGroup
<1>5. CASE memblocks = blocks[t]
  <2>1. memblocks' = buf[t] /\ buf' = [buf EXCEPT ![t] = NoBuf] /\ held' = held \cup {ret[t]} /\ ret' = [ret EXCEPT ![t] = NoBlock]
    BY <1>5 DEF AddCas
  <2>2. PoolSplit' /\ ret' \in [PoolThreads -> Blocks \cup {NoBlock}] /\ held' \subseteq Blocks
    BY <1>0, <2>1, ReturnSplits
  <2>3. PoolType'
    <3>1. buf' \in [PoolThreads -> 0..nbufs]
      BY <1>0, <2>1 DEF PoolType, NoBuf
    <3> QED
      BY <1>0, <1>2, <1>3, <2>1, <2>2, <3>1 DEF AddCas, PoolType
  <2>4. buf'[t] = NoBuf /\ \A u \in PoolThreads \ {t} : buf'[u] = buf[u]
    BY <1>0, <2>1 DEF PoolType
  <2>5. CallHas'
    <3>1. doing'[t] = "idle" /\ ret'[t] = NoBlock
      BY <1>0, <1>1, <1>5, <2>1 DEF PoolInv, PoolType
    <3>2. \A u \in PoolThreads \ {t} : doing'[u] = doing[u] /\ ret'[u] = ret[u] /\ blocks'[u] = blocks[u]
      BY <1>0, <1>1, <2>1 DEF PoolType
    <3> QED
      BY <1>0, <2>4, <3>1, <3>2 DEF PoolInv, CallHas
  <2>6. PoolChain'
    <3>1. PICK k \in 0..nbufs : \E p \in [0..k -> 0..nbufs] : Walk(chain, memblocks, k, p) /\ Bring(k, p)
      BY DEF PoolInv, PoolChain
    <3>2. PICK p \in [0..k -> 0..nbufs] : Walk(chain, memblocks, k, p) /\ Bring(k, p)
      BY <3>1
    <3>3. \A i \in 0..(k - 1) : buf[t] # p[i]
      BY <3>2 DEF Bring
    <3>4. WalkFrom(chain, buf[t], nbufs, k, p)
      <4>1. PICK b \in 0..nbufs : b = buf[t]
        BY <1>0
      <4>2. b # NoBuf /\ b \in DOMAIN chain /\ chain[b] = memblocks /\ \A i \in 0..(k - 1) : b # p[i]
        BY <1>0, <1>5, <3>3, <4>1
      <4>3. WalkFrom(chain, b, nbufs, k, p)
        BY <1>0, <3>2, <4>2, WalkGrows
      <4> QED
        BY <4>1, <4>3
    <3>5. PICK q \in [0..(k + 1) -> 0..nbufs] : /\ Walk(chain, buf[t], k + 1, q)
                                                 /\ {q[i] : i \in 0..k} = {buf[t]} \cup {p[i] : i \in 0..(k - 1)}
                                                 /\ {q[i] : i \in 0..(k + 1)} = {buf[t]} \cup {p[i] : i \in 0..k}
      BY <3>4 DEF WalkFrom
    <3>6. \A u, v \in PoolThreads : buf'[u] = buf'[v] /\ buf'[u] # NoBuf => u = v
      BY <2>4 DEF PoolInv, PoolChain
    <3>7. {q[i] : i \in 0..(k + 1)} \cup {buf'[u] : u \in PoolThreads} = 0..nbufs
      <4>1. {p[i] : i \in 0..k} \cup {buf[u] : u \in PoolThreads} = 0..nbufs
        BY <3>2 DEF Bring
      <4>2. {buf[u] : u \in PoolThreads} \subseteq {buf'[u] : u \in PoolThreads} \cup {buf[t]}
        BY <2>4
      <4>3. {buf'[u] : u \in PoolThreads} \subseteq {buf[u] : u \in PoolThreads} \cup {NoBuf}
        BY <2>4
      <4>4. NoBuf \in 0..nbufs
        BY <1>0 DEF NoBuf
      <4>5. {buf[t]} \subseteq 0..nbufs
        BY <1>0
      <4> QED
        BY <3>5, <4>1, <4>2, <4>3, <4>4, <4>5
    <3>8. ASSUME NEW u \in PoolThreads, NEW i \in 0..((k + 1) - 1) PROVE buf'[u] # q[i]
      <4>1. i \in 0..k /\ i \in 0..(k + 1) /\ (k + 1) - 1 = k
        BY <1>0
      <4>2. q[i] # NoBuf
        BY <3>5 DEF Walk
      <4>3. q[i] = buf[t] \/ \E j \in 0..(k - 1) : q[i] = p[j]
        BY <3>5, <4>1
      <4>4. CASE u = t
        BY <2>4, <4>2, <4>4
      <4>5. CASE u # t
        <5>1. buf'[u] = buf[u] /\ \A j \in 0..(k - 1) : buf[u] # p[j]
          BY <2>4, <3>2, <4>5 DEF Bring
        <5>2. buf[u] # buf[t]
          BY <1>0, <4>5 DEF PoolInv, PoolChain
        <5> QED
          BY <4>3, <5>1, <5>2
      <4> QED
        BY <4>4, <4>5
    <3>9. Bring(k + 1, q)'
      BY <1>0, <3>7, <3>8 DEF Bring
    <3> QED
      <4>1. k + 1 \in 0..nbufs
        BY <3>4 DEF WalkFrom
      <4> QED
        BY <1>0, <2>1, <3>5, <3>6, <3>9, <4>1 DEF PoolChain
  <2> QED
    BY <1>4, <2>2, <2>3, <2>5, <2>6 DEF PoolInv
<1>6. CASE memblocks # blocks[t]
  <2>1. memblocks' = memblocks /\ buf' = buf /\ held' = held /\ ret' = ret
    BY <1>6 DEF AddCas
  <2>2. PoolType'
    BY <1>0, <1>2, <1>3, <2>1 DEF AddCas, PoolType
  <2>3. CallHas'
    <3>1. doing'[t] = "addMem"
      BY <1>0, <1>1, <1>6 DEF PoolInv, PoolType
    <3>2. \A u \in PoolThreads \ {t} : doing'[u] = doing[u] /\ blocks'[u] = blocks[u]
      BY <1>0, <1>1 DEF PoolType
    <3> QED
      BY <1>0, <2>1, <3>1, <3>2 DEF PoolInv, CallHas
  <2>4. PoolSplit' /\ PoolChain'
    BY <1>0, <2>1, SplitStays, ChainStays DEF PoolInv
  <2> QED
    BY <1>4, <2>2, <2>3, <2>4 DEF PoolInv
<1> QED
  BY <1>5, <1>6

\* A step of something else.
LEMMA PoolUnchanged == PoolInv /\ UNCHANGED poolVars => PoolInv'
<1> SUFFICES ASSUME PoolInv, UNCHANGED poolVars PROVE PoolInv'
  OBVIOUS
<1>1. PoolType' /\ GroupOwned' /\ CallHas'
  BY DEF PoolInv, PoolType, Pending, GroupOwned, CallHas, poolVars
<1>2. PoolSplit' /\ PoolChain'
  BY SplitStays, ChainStays DEF PoolInv, poolVars
<1> QED
  BY <1>1, <1>2 DEF PoolInv

\* Every step of a pool with locks keeps what the invariant says.
LEMMA PoolSteady == PoolInv /\ [PoolNext]_poolVars => PoolInv'
<1> SUFFICES ASSUME PoolInv, [PoolNext]_poolVars PROVE PoolInv'
  OBVIOUS
<1>1. CASE UNCHANGED poolVars
  BY <1>1, PoolUnchanged
<1>2. CASE PoolNext
  <2>1. PICK t \in PoolThreads : StartAlloc(t) \/ (\E b \in held : StartFree(t, b)) \/ PoolStep(t)
    BY <1>2 DEF PoolNext
  <2>2. CASE StartAlloc(t)
    BY <2>2, StartAllocKeeps
  <2>3. CASE \E b \in held : StartFree(t, b)
    BY <2>3, StartFreeKeeps
  <2>4. CASE PoolStep(t)
    BY <2>4, TryLockKeeps, TakeBlockKeeps, PutBlockKeeps, UnlockKeeps, AdvanceKeeps, AddMemKeeps, AddCasKeeps DEF PoolStep
  <2> QED
    BY <2>1, <2>2, <2>3, <2>4
<1> QED
  BY <1>1, <1>2

\* Inside a group of free lists one thread is at a time, whatever the order in
\* which threads try the locks.
OneInGroup == \A t, u \in PoolThreads :
                doing[t] \in InGroup /\ doing[u] \in InGroup /\ grp[t] = grp[u] => t = u

\* The pool has its types, and one thread is in a group (head_node::try_lock, unlock).
THEOREM PoolIsTyped == PoolSpec => [](PoolType /\ OneInGroup)
<1>1. PoolInv => PoolType /\ OneInGroup
  BY DEF PoolInv, OneInGroup, GroupOwned
<1> QED
  BY <1>1, PoolStarts, PoolSteady, PTL DEF PoolSpec

\* A pool with locks neither hands a block out twice nor loses one, and the
\* destructor finds every buffer, however many threads exchange the head of the
\* chain (zmem_pool::allocate, deallocate and add_mem).
THEOREM BlocksAreInOnePlace == PoolSpec => []EveryBlockOnce
<1>1. PoolInv => EveryBlockOnce
  BY SplitCounts, ChainIsWhole DEF PoolInv, EveryBlockOnce
<1> QED
  BY <1>1, PoolStarts, PoolSteady, PTL DEF PoolSpec

=============================================================================
