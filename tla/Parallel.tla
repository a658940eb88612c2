------------------------------ MODULE Parallel ------------------------------
(***************************************************************************)
(* ep::parallel (ep/ep.cpp): registries of jobs, used from any thread.  A  *)
(* job is looked up under the mutex of its registry and used without it.   *)
(* The ids come from one counter, which all registries share and each      *)
(* protects with a mutex of its own.                                       *)
(***************************************************************************)
EXTENDS Naturals, FiniteSets

CONSTANTS Registries,
          Callers,    \* threads
          MaxJobs     \* bound of the model: jobs created

ASSUME ParAssumption == "none" \notin Registries /\ "free" \notin Callers

NULL == [reg |-> "none", id |-> 0, n |-> 0]
NoHolder == "free"
Outside == [at |-> "out", reg |-> "none", job |-> NULL, id |-> 0]

VARIABLES s_j_id,
          m_jobs,     \* of each registry: id -> job, or NULL where a lookup missed
          m_lock,     \* m_cs of each registry: its holder
          call,       \* where each caller is
          live,       \* the jobs that exist: [reg |-> .., id |-> its job id, n |-> ..]
          made,       \* jobs created so far
          gone,       \* the registries destroy() has ended
          torn,       \* history: the counter changed while a job was registered
          twice       \* history: jobs recycled again after they were recycled

parVars == <<s_j_id, m_jobs, m_lock, call, live, made, gone, torn, twice>>

ParInit == /\ s_j_id = 0 /\ made = 0
           /\ m_jobs = [r \in Registries |-> <<>>]
           /\ m_lock = [r \in Registries |-> NoHolder]
           /\ call = [t \in Callers |-> Outside]
           /\ live = {} /\ gone = {} /\ torn = FALSE /\ twice = {}

InCall(t, at) == call[t].at = at
MayTake(r) == m_lock[r] = NoHolder
Insert(jobs, id, j) == [i \in DOMAIN jobs \cup {id} |-> IF i = id THEN j ELSE jobs[i]]
Lookup(jobs, id) == IF id \in DOMAIN jobs THEN jobs[id] ELSE NULL
Erase(jobs, id) == [i \in DOMAIN jobs \ {id} |-> jobs[i]]

-----------------------------------------------------------------------------
(* create_job, where the pool has room: the counter is read for the id of  *)
(* the job, read again for its key, and incremented in two accesses.       *)

CreateTakes(t, r) ==
  /\ InCall(t, "out") /\ made < MaxJobs /\ MayTake(r)
  /\ m_lock' = [m_lock EXCEPT ![r] = t]
  /\ LET j == [reg |-> r, id |-> s_j_id, n |-> made]
     IN  /\ call' = [call EXCEPT ![t] = [at |-> "insert", reg |-> r, job |-> j, id |-> s_j_id]]
         /\ live' = live \cup {j}
  /\ made' = made + 1
  /\ UNCHANGED <<s_j_id, m_jobs, gone, torn, twice>>

CreateInserts(t) ==
  /\ InCall(t, "insert")
  /\ m_jobs' = [m_jobs EXCEPT ![call[t].reg] = Insert(@, s_j_id, call[t].job)]
  /\ call' = [call EXCEPT ![t].at = "store", ![t].id = s_j_id]
  /\ torn' = (torn \/ s_j_id # call[t].id)
  /\ UNCHANGED <<s_j_id, m_lock, live, made, gone, twice>>

CreateStores(t) ==
  /\ InCall(t, "store")
  /\ s_j_id' = call[t].id + 1
  /\ torn' = (torn \/ s_j_id # call[t].id)
  /\ m_lock' = [m_lock EXCEPT ![call[t].reg] = NoHolder]
  /\ call' = [call EXCEPT ![t] = Outside]
  /\ UNCHANGED <<m_jobs, live, made, gone, twice>>

-----------------------------------------------------------------------------
(* run_job, cancel_job and destroy_job.  What a use of a job does is Job's *)
(* matter; nothing keeps another thread from recycling it meanwhile.       *)

Found(t, at, r, j) == call' = [call EXCEPT ![t] = IF j = NULL THEN Outside
                                                  ELSE [at |-> at, reg |-> r, job |-> j, id |-> 0]]

\* m_jobs[jobid] makes an entry of an id that is not there; EP_INVALID_ARGU
UseLooksUp(t, r, id) ==
  /\ InCall(t, "out") /\ MayTake(r)
  /\ m_jobs' = [m_jobs EXCEPT ![r] = Insert(@, id, Lookup(@, id))]
  /\ Found(t, "use", r, Lookup(m_jobs[r], id))
  /\ UNCHANGED <<s_j_id, m_lock, live, made, gone, torn, twice>>

\* Mutant: the entry stays.
DestroyLooksUpKeeps(t, r, id) ==
  /\ InCall(t, "out") /\ MayTake(r)
  /\ Found(t, "recycle", r, Lookup(m_jobs[r], id))
  /\ UNCHANGED <<s_j_id, m_jobs, m_lock, live, made, gone, torn, twice>>
DestroyLooksUp(t, r, id) ==
  /\ InCall(t, "out") /\ MayTake(r)
  /\ m_jobs' = [m_jobs EXCEPT ![r] = Erase(@, id)]
  /\ Found(t, "recycle", r, Lookup(m_jobs[r], id))
  /\ UNCHANGED <<s_j_id, m_lock, live, made, gone, torn, twice>>

\* t->run() or t->cancel(), and t->recycle(), without the mutex
Uses(t) ==
  /\ InCall(t, "use")
  /\ call' = [call EXCEPT ![t] = Outside]
  /\ UNCHANGED <<s_j_id, m_jobs, m_lock, live, made, gone, torn, twice>>

Recycles(t) ==
  /\ InCall(t, "recycle")
  /\ twice' = twice \cup ({call[t].job} \ live)
  /\ live' = live \ {call[t].job}
  /\ call' = [call EXCEPT ![t] = Outside]
  /\ UNCHANGED <<s_j_id, m_jobs, m_lock, made, gone, torn>>

\* destroy(): every job of the map is recycled, an entry of a missed lookup
\* ends the process; the mutex stays taken.
Destroy(t, r) ==
  /\ InCall(t, "out") /\ MayTake(r)
  /\ NULL \notin {m_jobs[r][i] : i \in DOMAIN m_jobs[r]}
  /\ m_lock' = [m_lock EXCEPT ![r] = t]
  /\ LET mine == {m_jobs[r][i] : i \in DOMAIN m_jobs[r]}
     IN  /\ live' = live \ mine
         /\ twice' = twice \cup (mine \ live)
  /\ m_jobs' = [m_jobs EXCEPT ![r] = <<>>]
  /\ gone' = gone \cup {r}
  /\ UNCHANGED <<s_j_id, call, made, torn>>

ParNext == \E t \in Callers :
  \/ CreateInserts(t) \/ CreateStores(t) \/ Uses(t) \/ Recycles(t)
  \/ \E r \in Registries : \/ CreateTakes(t, r) \/ Destroy(t, r)
                           \/ \E id \in 0..made : UseLooksUp(t, r, id) \/ DestroyLooksUp(t, r, id)

ParSpec == ParInit /\ [][ParNext]_parVars

-----------------------------------------------------------------------------
(* Properties                                                              *)

BeingMade == {call[t].job : t \in {u \in Callers : InCall(u, "insert")}}
BeingRecycled == {call[t].job : t \in {u \in Callers : InCall(u, "recycle")}}

\* However the callers meet, no job is recycled twice, by two calls of
\* destroy_job or by destroy_job and destroy(); and every job that exists is in
\* its registry under its id, to be found and recycled, and nothing else is,
\* unless two registries took ids at the same time.
JobsRecycledOnce ==
  /\ twice = {}
  /\ ~torn => \A r \in Registries :
        {m_jobs[r][i] : i \in DOMAIN m_jobs[r]} \ {NULL}
          = {j \in live \ (BeingMade \cup BeingRecycled) : j.reg = r}
  /\ ~torn => \A r \in Registries : \A i \in DOMAIN m_jobs[r] :
        m_jobs[r][i] # NULL => m_jobs[r][i].id = i
=============================================================================
