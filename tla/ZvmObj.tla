------------------------------- MODULE ZvmObj -------------------------------
(***************************************************************************)
(* One obj of zvm shared by threads: simple_lock, a reentrant spinning     *)
(* lock that knows its owner, and the operations of obj built on it.       *)
(* entry_reference reads the entry and counts a reference under the lock;  *)
(* set_entry reads the old entry before it takes the lock, and gives it    *)
(* back after.  A thread's owner is the low half of its stack's address,   *)
(* (s32)(s64)s: two stacks may have the same, and one may have 0, which is *)
(* nobody's.  Creating an entry links it into the list of the collector    *)
(* under a spin_lock.                                                      *)
(***************************************************************************)
EXTENDS Integers, FiniteSets

CONSTANTS
  Stacks,    \* the threads, by their stacks
  Writers,   \* those that assign the obj
  Entries,   \* addresses of entries; one is used again once it is free
  Low,       \* the low half of each one's address
  NoEntry,   \* NULL
  MaxDepth   \* bound: monitors of a thread in each other

ASSUME OwnersAreInts == Low \in [Stacks -> Int]
ASSUME StacksFinite == IsFiniteSet(Stacks)
ASSUME WritersAreStacks == Writers \subseteq Stacks
ASSUME MaxDepthIsNat == MaxDepth \in Nat
ASSUME NoEntryIsNone == NoEntry \notin Entries

VARIABLES
  owner, cnt,  \* simple_lock::m_owner, m_cnt
  flag,        \* spin_lock::m_flag of the collector's list
  m_ent,       \* the entry the obj refers to
  refs,        \* entry::m_ref_cnt
  live,        \* entries created and not deleted
  at,          \* where each thread is
  doing,       \* the operation it is in: "reference", "set" or "monitor"
  mine,        \* the reference a thread holds outside the obj
  old,         \* the entry a thread is to give back, or has read to refer to it
  depth        \* how often a thread holds the monitor

objVars == <<owner, cnt, flag, m_ent, refs, live, at, doing, mine, old, depth>>

Places == {"idle", "test", "cas", "count", "in", "refer", "unlock", "release", "recycle", "clear", "spin", "link", "unspin"}
ObjOps == {"reference", "set", "monitor"}

ObjTypeOK ==
  /\ owner \in Int /\ cnt \in Nat /\ flag \in {0, 1}
  /\ m_ent \in Entries \cup {NoEntry} /\ live \subseteq Entries
  /\ refs \in [Entries -> Nat]
  /\ at \in [Stacks -> Places] /\ doing \in [Stacks -> ObjOps]
  /\ mine \in [Stacks -> Entries \cup {NoEntry}] /\ old \in [Stacks -> Entries \cup {NoEntry}]
  /\ depth \in [Stacks -> Nat]

ObjInit ==
  /\ owner = 0 /\ cnt = 0 /\ flag = 0 /\ m_ent = NoEntry
  /\ refs = [e \in Entries |-> 0] /\ live = {}
  /\ at = [t \in Stacks |-> "idle"] /\ doing = [t \in Stacks |-> "monitor"]
  /\ mine = [t \in Stacks |-> NoEntry] /\ old = [t \in Stacks |-> NoEntry]
  /\ depth = [t \in Stacks |-> 0]

Goes(t, from, to) == at[t] = from /\ at' = [at EXCEPT ![t] = to]

-----------------------------------------------------------------------------
(* Operations begin.                                                       *)

\* A constructor counts one reference, and links the new entry into the list.
NewEntry(t) ==
  /\ mine[t] = NoEntry
  /\ \E e \in Entries \ live : /\ live' = live \cup {e}
                               /\ refs' = [refs EXCEPT ![e] = 1]
                               /\ mine' = [mine EXCEPT ![t] = e]
  /\ Goes(t, "idle", "spin")
  /\ UNCHANGED <<owner, cnt, flag, m_ent, doing, old, depth>>

\* entry_reference: lock first
StartReference(t) ==
  /\ mine[t] = NoEntry /\ Goes(t, "idle", "test")
  /\ doing' = [doing EXCEPT ![t] = "reference"]
  /\ UNCHANGED <<owner, cnt, flag, m_ent, refs, live, mine, old, depth>>

\* set_entry: reads m_ent, then locks
StartSet(t) ==
  /\ t \in Writers /\ Goes(t, "idle", "test")
  /\ doing' = [doing EXCEPT ![t] = "set"] /\ old' = [old EXCEPT ![t] = m_ent]
  /\ UNCHANGED <<owner, cnt, flag, m_ent, refs, live, mine, depth>>

\* obj::lock for a monitor, which several operations may run inside
StartMonitor(t) ==
  /\ depth[t] < MaxDepth /\ Goes(t, "idle", "test")
  /\ doing' = [doing EXCEPT ![t] = "monitor"]
  /\ UNCHANGED <<owner, cnt, flag, m_ent, refs, live, mine, old, depth>>

\* obj::unlock of the monitor
ExitMonitor(t) ==
  /\ depth[t] > 0 /\ Goes(t, "idle", "unlock")
  /\ doing' = [doing EXCEPT ![t] = "monitor"]
  /\ depth' = [depth EXCEPT ![t] = @ - 1]
  /\ UNCHANGED <<owner, cnt, flag, m_ent, refs, live, mine, old>>

\* A thread gives its own reference back
GiveBack(t) ==
  /\ mine[t] # NoEntry /\ Goes(t, "idle", "recycle")
  /\ old' = [old EXCEPT ![t] = mine[t]] /\ mine' = [mine EXCEPT ![t] = NoEntry]
  /\ doing' = [doing EXCEPT ![t] = "monitor"]
  /\ UNCHANGED <<owner, cnt, flag, m_ent, refs, live, depth>>

-----------------------------------------------------------------------------
(* simple_lock                                                             *)

\* m_owner == par, read without more ado: nobody else is to write par there
LockTest(t) ==
  /\ IF owner = Low[t] THEN Goes(t, "test", "in") /\ cnt' = cnt + 1
     ELSE Goes(t, "test", "cas") /\ UNCHANGED cnt
  /\ UNCHANGED <<owner, flag, m_ent, refs, live, doing, mine, old, depth>>

LockCas(t) ==
  /\ owner = 0 /\ owner' = Low[t]
  /\ Goes(t, "cas", "count")
  /\ UNCHANGED <<cnt, flag, m_ent, refs, live, doing, mine, old, depth>>

\* assert(m_cnt == 0); ++m_cnt
LockCount(t) ==
  /\ Goes(t, "count", "in") /\ cnt' = cnt + 1
  /\ UNCHANGED <<owner, flag, m_ent, refs, live, doing, mine, old, depth>>

Left(t) == IF doing[t] = "set" THEN "recycle" ELSE "idle"

\* unlock refuses anyone but the owner; the count is only its own
\* Mutant: the lock is let go whatever the count.
UnlockAtOnce(t) ==
  /\ Goes(t, "unlock", "release") /\ owner = Low[t] /\ cnt' = 0
  /\ UNCHANGED <<owner, flag, m_ent, refs, live, doing, mine, old, depth>>
Unlock(t) ==
  /\ IF owner # Low[t] THEN Goes(t, "unlock", Left(t)) /\ UNCHANGED cnt
     ELSE /\ cnt' = cnt - 1
          /\ Goes(t, "unlock", IF cnt - 1 = 0 THEN "release" ELSE Left(t))
  /\ UNCHANGED <<owner, flag, m_ent, refs, live, doing, mine, old, depth>>

Release(t) ==
  /\ Goes(t, "release", Left(t)) /\ owner' = 0
  /\ UNCHANGED <<cnt, flag, m_ent, refs, live, doing, mine, old, depth>>

-----------------------------------------------------------------------------
(* Under the lock.                                                         *)

\* if (m_ent): NULL is handed out as it is
ReadEntry(t) ==
  /\ doing[t] = "reference"
  /\ \/ m_ent = NoEntry /\ Goes(t, "in", "unlock") /\ UNCHANGED old
     \/ m_ent # NoEntry /\ Goes(t, "in", "refer") /\ old' = [old EXCEPT ![t] = m_ent]
  /\ UNCHANGED <<owner, cnt, flag, m_ent, refs, live, doing, mine, depth>>

\* m_ent->reference(s), an atomic increment of the entry's count
\* Mutant: the entry is handed out without a reference of its own.
ReferenceUncounted(t) ==
  /\ Goes(t, "refer", "unlock")
  /\ mine' = [mine EXCEPT ![t] = old[t]] /\ old' = [old EXCEPT ![t] = NoEntry]
  /\ UNCHANGED <<owner, cnt, flag, m_ent, refs, live, doing, depth>>
EntryReference(t) ==
  /\ Goes(t, "refer", "unlock")
  /\ mine' = [mine EXCEPT ![t] = old[t]] /\ old' = [old EXCEPT ![t] = NoEntry]
  /\ refs' = [refs EXCEPT ![old[t]] = @ + 1]
  /\ UNCHANGED <<owner, cnt, flag, m_ent, live, doing, depth>>

\* m_ent = ent: the obj takes over the reference of the caller
SetEntry(t) ==
  /\ doing[t] = "set" /\ Goes(t, "in", "unlock")
  /\ m_ent' = mine[t] /\ mine' = [mine EXCEPT ![t] = NoEntry]
  /\ UNCHANGED <<owner, cnt, flag, refs, live, doing, old, depth>>

\* The monitor is held from here to ExitMonitor
EnterMonitor(t) ==
  /\ doing[t] = "monitor" /\ Goes(t, "in", "idle")
  /\ depth' = [depth EXCEPT ![t] = @ + 1]
  /\ UNCHANGED <<owner, cnt, flag, m_ent, refs, live, doing, mine, old>>

-----------------------------------------------------------------------------
(* entry::recycle, and the list of the collector.                          *)

\* The decrement tells the last one to delete the entry
RecycleDec(t) ==
  /\ refs' = IF old[t] = NoEntry THEN refs ELSE [refs EXCEPT ![old[t]] = @ - 1]
  /\ IF old[t] # NoEntry /\ refs[old[t]] - 1 <= 0
     THEN Goes(t, "recycle", "clear") /\ UNCHANGED old
     ELSE Goes(t, "recycle", "idle") /\ old' = [old EXCEPT ![t] = NoEntry]
  /\ UNCHANGED <<owner, cnt, flag, m_ent, live, doing, mine, depth>>

ClearEntry(t) ==
  /\ Goes(t, "clear", "idle")
  /\ live' = live \ {old[t]} /\ old' = [old EXCEPT ![t] = NoEntry]
  /\ UNCHANGED <<owner, cnt, flag, m_ent, refs, doing, mine, depth>>

\* spin_lock::lock, the list, spin_lock::unlock
SpinLock(t) ==
  /\ flag = 0 /\ flag' = 1 /\ Goes(t, "spin", "link")
  /\ UNCHANGED <<owner, cnt, m_ent, refs, live, doing, mine, old, depth>>
Link(t) ==
  /\ Goes(t, "link", "unspin")
  /\ UNCHANGED <<owner, cnt, flag, m_ent, refs, live, doing, mine, old, depth>>
SpinUnlock(t) ==
  /\ Goes(t, "unspin", "idle") /\ flag' = 0
  /\ UNCHANGED <<owner, cnt, m_ent, refs, live, doing, mine, old, depth>>

ObjStep(t) ==
  \/ NewEntry(t) \/ StartReference(t) \/ StartSet(t) \/ StartMonitor(t) \/ ExitMonitor(t) \/ GiveBack(t)
  \/ LockTest(t) \/ LockCas(t) \/ LockCount(t) \/ Unlock(t) \/ Release(t)
  \/ ReadEntry(t) \/ EntryReference(t) \/ SetEntry(t) \/ EnterMonitor(t)
  \/ RecycleDec(t) \/ ClearEntry(t) \/ SpinLock(t) \/ Link(t) \/ SpinUnlock(t)

ObjNext == \E t \in Stacks : ObjStep(t)
ObjSpec == ObjInit /\ [][ObjNext]_objVars

-----------------------------------------------------------------------------
(* Properties.                                                             *)

Inside(t) == at[t] \in {"count", "in", "refer", "unlock", "release"} \/ depth[t] > 0

\* The condition the lock rests on: no two threads have one low half, none has 0.
\* Nothing in zvm sees to it.
OwnersDiffer == \A t \in Stacks : Low[t] # 0 /\ \A u \in Stacks : Low[t] = Low[u] => t = u

\* At most one thread is between lock and unlock of the obj, however the tests
\* without the lock and the nested entries interleave, and m_cnt is its own: it
\* is 0 when the lock is taken (the assertion) and when it is let go; with
\* owners that differ, this is exclusion.
LockExcludes ==
  /\ \A t \in Stacks : Inside(t) => owner = Low[t]
  /\ \A t \in Stacks : at[t] \in {"count", "release"} => cnt = 0
  /\ owner = 0 => cnt = 0
  /\ \A t, u \in Stacks : at[t] \in {"link", "unspin"} /\ at[u] \in {"link", "unspin"} => t = u

Sharers(e) == {t \in Stacks : mine[t] = e}
Returning(e) == {t \in Stacks : old[t] = e /\ (at[t] = "recycle" \/ (doing[t] = "set" /\ at[t] \in {"unlock", "release"}))}

\* With one thread that assigns, the count of every entry is the number of
\* those who refer to it, and none of them refers to memory given back, nor
\* counts a reference there: the read of the old entry outside the lock does no
\* harm, nor does a reader that comes between the assignment and the return of
\* what it replaced.
NoneFreedInUse ==
  /\ \A e \in Entries : refs[e] = Cardinality(Sharers(e)) + Cardinality(Returning(e)) + (IF m_ent = e THEN 1 ELSE 0)
  /\ \A e \in Entries : refs[e] > 0 => e \in live
  /\ \A t \in Stacks : at[t] = "refer" => old[t] \in live

\* An obj is shared safely by threads whose owners differ: its lock excludes,
\* and its counts are exact.
SharedSafely == OwnersDiffer => LockExcludes /\ NoneFreedInUse

\* Known not to hold (zvm_obj.h:167): whatever the addresses of the stacks.
SharedAnywhere == LockExcludes /\ NoneFreedInUse
=============================================================================
