--------------------------- MODULE StoppableQueue ---------------------------
(***************************************************************************)
(* What ep::task_queue promises its callers, with its semaphore, its lock  *)
(* and its counters hidden: one atomic priority queue that can be stopped. *)
(*                                                                         *)
(*  - add puts a task behind the others of its priority, unless stopped;   *)
(*  - get hands the caller the oldest task of the most urgent priority;    *)
(*  - del withdraws a task that is still queued;                           *)
(*  - once stopped, nothing is ever added again.                           *)
(*                                                                         *)
(* An entry is one accepted add: the task, its priority and its rank among *)
(* all the adds (the value of m_total_task_cnt when it was accepted).      *)
(***************************************************************************)
EXTENDS Naturals

CONSTANTS Tasks,            \* the task objects
          MaxPriorityNum,   \* MAX_PRIORITY_NUM; 0 is served first
          Takers            \* the threads that take tasks out

VARIABLES m_oplists,         \* the entries queued
          m_total_task_cnt,  \* adds accepted so far
          m_stop,
          got                \* the entry each taker was handed and works on

svars == <<m_oplists, m_total_task_cnt, m_stop, got>>

Priorities == 0..(MaxPriorityNum - 1)
NoEntry == [task |-> "none", prio |-> 0, seq |-> 0]

\* e leaves the queue before f: lists are walked by priority, each is a FIFO.
Before(e, f) == \/ e.prio < f.prio
                \/ e.prio = f.prio /\ e.seq < f.seq

IsFront(q, e) == e \in q /\ \A f \in q \ {e} : Before(e, f)

SInit == /\ m_oplists = {}
         /\ m_total_task_cnt = 0
         /\ m_stop = FALSE
         /\ got = [w \in Takers |-> NoEntry]

SAdd(t, p) ==
    /\ ~m_stop
    /\ m_oplists' = m_oplists \cup {[task |-> t, prio |-> p, seq |-> m_total_task_cnt]}
    /\ m_total_task_cnt' = m_total_task_cnt + 1
    /\ UNCHANGED <<m_stop, got>>

SGet(w) ==
    \E e \in m_oplists :
        /\ IsFront(m_oplists, e)
        /\ got[w] = NoEntry
        /\ m_oplists' = m_oplists \ {e}
        /\ got' = [got EXCEPT ![w] = e]
        /\ UNCHANGED <<m_total_task_cnt, m_stop>>

SDone(w) ==
    /\ got[w] # NoEntry
    /\ got' = [got EXCEPT ![w] = NoEntry]
    /\ UNCHANGED <<m_oplists, m_total_task_cnt, m_stop>>

SDel(e) ==
    /\ m_oplists' = m_oplists \ {e}
    /\ UNCHANGED <<m_total_task_cnt, m_stop, got>>

SStop == /\ m_stop' = TRUE
         /\ UNCHANGED <<m_oplists, m_total_task_cnt, got>>

\* The destructor: what is left is recycled, and nobody takes part any more.
SClear == /\ m_stop
          /\ \A w \in Takers : got[w] = NoEntry
          /\ m_oplists' = {}
          /\ UNCHANGED <<m_total_task_cnt, m_stop, got>>

SNext == \/ \E t \in Tasks, p \in Priorities : SAdd(t, p)
         \/ \E w \in Takers : SGet(w) \/ SDone(w)
         \/ \E e \in m_oplists : SDel(e)
         \/ SStop
         \/ SClear

SSpec == SInit /\ [][SNext]_svars
=============================================================================
