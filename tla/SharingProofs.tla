---------------------------- MODULE SharingProofs ----------------------------
(***************************************************************************)
(* What is shared and counted: the objs of zvm and the appenders of elog.  *)
(*                                                                         *)
(* ZvmObj: simple_lock and spin_lock exclude, for any number of threads,   *)
(* entries and nested monitors, if the owners of the threads differ        *)
(* (OwnersDiffer, which the code does not see to).  The invariant counts:  *)
(* m_cnt is the owner's depth, one more between its lock and its unlock;   *)
(* the thread that sees itself as the owner before it takes the lock is    *)
(* inside already.                                                         *)
(*                                                                         *)
(* The references: with one thread that assigns, set_entry finds under the *)
(* lock what it read outside (OldIsThere), so it gives back what it takes  *)
(* the place of; counts stay exact (CountsExact), and the one that takes a *)
(* count to zero is the only one to delete the entry (ClearedOnce).        *)
(*                                                                         *)
(* ZvmInterp: no operation puts an obj in two places (Apart, of any locals *)
(* and heap), and while a function runs it is known whether it has failed  *)
(* (Tells).                                                                *)
(*                                                                         *)
(* ELog: the count of an appender is the number of those who hold it       *)
(* (Counted), whatever tables and threads they are.  A load that goes on   *)
(* names appenders of its own table (Built), so the tables it puts in      *)
(* force do, too (InForce); an init has the tables in force to itself, and *)
(* they hold nothing yet.  A file is of the period it was opened in, and   *)
(* of no later period than now (FilesInTime).                              *)
(***************************************************************************)
EXTENDS ZvmObj, ZvmInterp, ELog, Integers, FiniteSetTheorems, FunctionTheorems, SequenceTheorems,
        WellFoundedInduction, TLAPS

-----------------------------------------------------------------------------
(* zvm: the lock of an obj                                                 *)

LockType ==
  /\ owner \in Int /\ cnt \in Nat /\ flag \in {0, 1}
  /\ at \in [Stacks -> Places] /\ doing \in [Stacks -> ObjOps]
  /\ depth \in [Stacks -> Nat]

InsideOwns == \A t \in Stacks : Inside(t) => owner = Low[t]
\* What the owner has counted
Held(t) == depth[t] + (IF at[t] \in {"in", "refer", "unlock"} THEN 1 ELSE 0)
CountIsDepth == \A t \in Stacks : owner = Low[t] => cnt = Held(t)
WaitsForOther == \A t \in Stacks : at[t] = "cas" => owner # Low[t]
NobodyCounts == owner = 0 => cnt = 0
AtCount == \A t \in Stacks : at[t] \in {"count", "release"} => depth[t] = 0
OneLinks == \A t \in Stacks : at[t] \in {"link", "unspin"} =>
              flag = 1 /\ \A u \in Stacks : at[u] \in {"link", "unspin"} => u = t

LockInv == LockType /\ InsideOwns /\ CountIsDepth /\ WaitsForOther /\ NobodyCounts /\ AtCount /\ OneLinks

LEMMA LockInvInit == OwnersDiffer /\ ObjInit => LockInv
  BY DEF OwnersDiffer, ObjInit, LockInv, LockType, InsideOwns, Inside, CountIsDepth, WaitsForOther, NobodyCounts,
     AtCount, OneLinks, Places, ObjOps

\* Steps of a thread outside simple_lock that keep its depth
LEMMA OutsideStep ==
  ASSUME LockInv, NEW t \in Stacks,
         UNCHANGED <<owner, cnt, depth>>, doing' \in [Stacks -> ObjOps],
         \E from \in {"idle", "recycle", "clear", "spin", "link", "unspin"},
            to \in {"idle", "test", "recycle", "clear", "spin", "link", "unspin"} :
           /\ Goes(t, from, to)
           /\ to \in {"link", "unspin"} => flag' = 1 /\ (from = "link" \/ flag = 0)
           /\ UNCHANGED flag \/ from = "unspin" \/ flag' = 1,
         flag' \in {0, 1}
  PROVE  LockInv'
<1> USE DEF LockInv, LockType
<1>1. PICK from \in {"idle", "recycle", "clear", "spin", "link", "unspin"},
           to \in {"idle", "test", "recycle", "clear", "spin", "link", "unspin"} :
           /\ Goes(t, from, to)
           /\ to \in {"link", "unspin"} => flag' = 1 /\ (from = "link" \/ flag = 0)
           /\ UNCHANGED flag \/ from = "unspin" \/ flag' = 1
  OBVIOUS
<1>2. at[t] = from /\ at' = [at EXCEPT ![t] = to] BY <1>1 DEF Goes
<1>3. at' \in [Stacks -> Places] BY <1>2 DEF Places
<1>4. InsideOwns' BY <1>2, <1>1 DEF InsideOwns, Inside
<1>5. CountIsDepth' BY <1>2, <1>1 DEF CountIsDepth, Held
<1>6. WaitsForOther' /\ NobodyCounts' /\ AtCount' BY <1>2, <1>1 DEF WaitsForOther, NobodyCounts, AtCount
<1>7. OneLinks' BY <1>1, <1>2 DEF OneLinks
<1> QED BY <1>3, <1>4, <1>5, <1>6, <1>7

\* Operations begin, and entries are given back and linked, outside the lock.
LEMMA OutsideSteps ==
  ASSUME LockInv, NEW t \in Stacks,
         \/ NewEntry(t) \/ StartReference(t) \/ StartSet(t) \/ StartMonitor(t) \/ GiveBack(t)
         \/ RecycleDec(t) \/ ClearEntry(t) \/ SpinLock(t) \/ Link(t) \/ SpinUnlock(t)
  PROVE  LockInv'
<1> USE DEF LockInv, LockType, ObjOps
<1>1. CASE NewEntry(t) BY <1>1, OutsideStep DEF NewEntry
<1>2. CASE StartReference(t) BY <1>2, OutsideStep DEF StartReference
<1>3. CASE StartSet(t) BY <1>3, OutsideStep DEF StartSet
<1>4. CASE StartMonitor(t) BY <1>4, OutsideStep DEF StartMonitor
<1>5. CASE GiveBack(t) BY <1>5, OutsideStep DEF GiveBack
<1>6. CASE RecycleDec(t) BY <1>6, OutsideStep DEF RecycleDec
<1>7. CASE ClearEntry(t) BY <1>7, OutsideStep DEF ClearEntry
<1>8. CASE SpinLock(t) BY <1>8, OutsideStep DEF SpinLock
<1>9. CASE Link(t)
  <2>1. flag = 1 BY <1>9 DEF Link, Goes, OneLinks
  <2> QED BY <1>9, <2>1, OutsideStep DEF Link
<1>10. CASE SpinUnlock(t) BY <1>10, OutsideStep DEF SpinUnlock
<1> QED BY <1>1, <1>2, <1>3, <1>4, <1>5, <1>6, <1>7, <1>8, <1>9, <1>10

LEMMA LockSteps ==
  ASSUME OwnersDiffer, LockInv, NEW t \in Stacks,
         \/ LockTest(t) \/ LockCas(t) \/ LockCount(t) \/ Unlock(t) \/ Release(t)
         \/ ReadEntry(t) \/ EntryReference(t) \/ SetEntry(t) \/ EnterMonitor(t) \/ ExitMonitor(t)
  PROVE  LockInv'
<1> USE OwnersAreInts DEF OwnersDiffer, LockInv, LockType, Places, Goes, InsideOwns, Inside, CountIsDepth, Held, WaitsForOther, NobodyCounts, AtCount
<1>1. CASE LockTest(t)
  <2>1. OneLinks' BY <1>1 DEF LockTest, OneLinks
  <2> QED BY <1>1, <2>1 DEF LockTest
<1>2. CASE LockCas(t)
  <2>1. OneLinks' BY <1>2 DEF LockCas, OneLinks
  <2> QED BY <1>2, <2>1 DEF LockCas
<1>3. CASE LockCount(t)
  <2>1. OneLinks' BY <1>3 DEF LockCount, OneLinks
  <2> QED BY <1>3, <2>1 DEF LockCount
<1>4. CASE Unlock(t)
  <2>1. owner = Low[t] /\ cnt = depth[t] + 1 /\ cnt - 1 \in Nat /\ cnt - 1 = depth[t] BY <1>4 DEF Unlock
  <2>2. OneLinks' BY <1>4 DEF Unlock, OneLinks, Left
  <2>3. CASE cnt - 1 = 0
    <3>1. at' = [at EXCEPT ![t] = "release"] /\ cnt' = 0 BY <1>4, <2>1, <2>3 DEF Unlock
    <3>2. owner' = Low[t] /\ depth' = depth /\ depth[t] = 0 BY <1>4, <2>1, <2>3 DEF Unlock
    <3> QED BY <1>4, <2>1, <2>2, <3>1, <3>2 DEF Unlock
  <2>4. CASE cnt - 1 # 0 BY <1>4, <2>1, <2>2, <2>4 DEF Unlock, Left
  <2> QED BY <2>3, <2>4
<1>5. CASE Release(t)
  <2>1. owner = Low[t] /\ cnt = 0 /\ depth[t] = 0 BY <1>5 DEF Release
  <2>2. OneLinks' BY <1>5 DEF Release, OneLinks, Left
  <2> QED BY <1>5, <2>1, <2>2 DEF Release, Left
<1>6. CASE EntryReference(t)
  <2>1. OneLinks' BY <1>6 DEF EntryReference, OneLinks
  <2> QED BY <1>6, <2>1 DEF EntryReference
<1>10. CASE ReadEntry(t)
  <2>1. OneLinks' BY <1>10 DEF ReadEntry, OneLinks
  <2> QED BY <1>10, <2>1 DEF ReadEntry
<1>7. CASE SetEntry(t)
  <2>1. OneLinks' BY <1>7 DEF SetEntry, OneLinks
  <2> QED BY <1>7, <2>1 DEF SetEntry
<1>8. CASE EnterMonitor(t)
  <2>1. OneLinks' BY <1>8 DEF EnterMonitor, OneLinks
  <2> QED BY <1>8, <2>1 DEF EnterMonitor
<1>9. CASE ExitMonitor(t)
  <2>1. OneLinks' BY <1>9 DEF ExitMonitor, OneLinks
  <2> QED BY <1>9, <2>1 DEF ExitMonitor, ObjOps
<1> QED BY <1>1, <1>2, <1>3, <1>4, <1>5, <1>6, <1>7, <1>8, <1>9, <1>10

LEMMA LockInvNext == OwnersDiffer /\ LockInv /\ [ObjNext]_objVars => LockInv'
<1> SUFFICES ASSUME OwnersDiffer, LockInv, [ObjNext]_objVars PROVE LockInv' OBVIOUS
<1>1. CASE UNCHANGED objVars
  BY <1>1 DEF objVars, LockInv, LockType, InsideOwns, Inside, CountIsDepth, Held, WaitsForOther, NobodyCounts, AtCount, OneLinks
<1>2. ASSUME NEW t \in Stacks, ObjStep(t) PROVE LockInv'
  BY <1>2, OutsideSteps, LockSteps DEF ObjStep
<1> QED BY <1>1, <1>2 DEF ObjNext

LEMMA LockInvExcludes == LockInv => LockExcludes
<1> SUFFICES ASSUME LockInv PROVE LockExcludes OBVIOUS
<1>1. \A t \in Stacks : at[t] \in {"count", "release"} => cnt = 0
  BY DEF LockInv, LockType, InsideOwns, Inside, CountIsDepth, Held, AtCount
<1> QED BY <1>1 DEF LockInv, LockExcludes, InsideOwns, NobodyCounts, OneLinks

\* The invariant of the lock, for threads whose owners differ.
LEMMA LockIsKept == OwnersDiffer => (ObjSpec => []LockInv)
<1> SUFFICES ASSUME OwnersDiffer PROVE ObjSpec => []LockInv
  OBVIOUS
<1>1. ObjInit => LockInv
  BY LockInvInit
<1>2. LockInv /\ [ObjNext]_objVars => LockInv'
  BY LockInvNext
<1> QED
  BY <1>1, <1>2, PTL DEF ObjSpec

\* Of threads whose stacks differ in the low half of their addresses, none of it
\* 0, the lock of an obj and that of the collector's list exclude: no two are
\* between lock and unlock, and the count of nested entries is its owner's.
THEOREM LocksExclude == OwnersDiffer => (ObjSpec => []LockExcludes)
<1> SUFFICES ASSUME OwnersDiffer PROVE ObjSpec => []LockExcludes
  OBVIOUS
<1> QED
  BY LockIsKept, LockInvExcludes, PTL

-----------------------------------------------------------------------------
(* zvm: who refers to the entries of an obj                               *)

\* One thread assigns the obj, as the property says.
OneWriter == \A t, u \in Writers : t = u

RefType ==
  /\ m_ent \in Entries \cup {NoEntry} /\ live \subseteq Entries
  /\ refs \in [Entries -> Nat]
  /\ at \in [Stacks -> Places] /\ doing \in [Stacks -> ObjOps]
  /\ mine \in [Stacks -> Entries \cup {NoEntry}] /\ old \in [Stacks -> Entries \cup {NoEntry}]

Bit(b) == IF b THEN 1 ELSE 0
Gives(t, e) == old[t] = e /\ (at[t] = "recycle" \/ (doing[t] = "set" /\ at[t] \in {"unlock", "release"}))
Weight(t, e) == Bit(mine[t] = e) + Bit(Gives(t, e))
Locking == {"test", "cas", "count", "in"}

\* Counts are exact, and what is counted lives.
CountsExact == \A e \in Entries : refs[e] = Cardinality(Sharers(e)) + Cardinality(Returning(e)) + Bit(m_ent = e)
CountedLives == \A e \in Entries : refs[e] > 0 => e \in live
\* Between its operations, and in one that does not assign, a thread has nothing
\* to give back.
NothingOld == \A t \in Stacks :
  /\ at[t] \in {"idle", "spin", "link", "unspin"} => old[t] = NoEntry
  /\ doing[t] # "set" /\ at[t] \notin {"refer", "recycle", "clear"} => old[t] = NoEntry
\* What set_entry read outside the lock is still there when it has the lock, and
\* so is what entry_reference read in it.
OldIsThere == \A t \in Stacks :
  /\ doing[t] = "set" => t \in Writers
  /\ doing[t] = "set" /\ at[t] \in Locking => old[t] = m_ent
  /\ at[t] = "refer" => doing[t] = "reference" /\ old[t] = m_ent /\ m_ent \in Entries /\ mine[t] = NoEntry
\* A thread that takes a reference has none.
HandsFree == \A t \in Stacks : doing[t] = "reference" /\ at[t] \in Locking => mine[t] = NoEntry
\* An entry is deleted once, by the thread that took the last reference.
ClearedOnce == \A t \in Stacks : at[t] = "clear" =>
  /\ old[t] \in live /\ refs[old[t]] = 0
  /\ \A u \in Stacks : at[u] = "clear" /\ old[u] = old[t] => u = t

RefInv == RefType /\ CountsExact /\ CountedLives /\ NothingOld /\ OldIsThere /\ HandsFree /\ ClearedOnce

\* A set that changes in one element.
LEMMA OneElement ==
  ASSUME NEW A, NEW B, NEW t, IsFiniteSet(A), A \ {t} = B \ {t}
  PROVE  /\ IsFiniteSet(B) /\ Cardinality(A) \in Nat /\ Cardinality(B) \in Nat
         /\ Cardinality(B) = Cardinality(A) + Bit(t \in B) - Bit(t \in A)
<1> DEFINE C == A \ {t}
<1>1. IsFiniteSet(C) /\ Cardinality(A) \in Nat /\ Cardinality(C) \in Nat
  <2>1. IsFiniteSet(C)
    BY FS_Subset
  <2> QED
    BY <2>1, FS_CardinalityType
<1>2. Cardinality(A) = Cardinality(C) + Bit(t \in A)
  <2>1. CASE t \in A
    <3>1. Cardinality(C) = Cardinality(A) - 1
      BY <2>1, FS_RemoveElement
    <3> QED
      BY <1>1, <2>1, <3>1 DEF Bit
  <2>2. CASE t \notin A
    <3>1. C = A
      BY <2>2
    <3>2. Cardinality(C) = Cardinality(A) /\ Bit(t \in A) = 0
      BY <2>2, <3>1 DEF Bit
    <3> QED
      BY <1>1, <2>2, <3>2
  <2> QED
    BY <2>1, <2>2
<1>3. IsFiniteSet(B) /\ Cardinality(B) \in Nat
  <2>1. B \subseteq C \cup {t}
    OBVIOUS
  <2>2. IsFiniteSet(C \cup {t})
    BY <1>1, FS_AddElement
  <2> QED
    BY <2>1, <2>2, FS_Subset, FS_CardinalityType
<1>4. Cardinality(B) = Cardinality(C) + Bit(t \in B)
  <2>1. CASE t \in B
    <3>1. Cardinality(B \ {t}) = Cardinality(B) - 1
      BY <1>3, <2>1, FS_RemoveElement
    <3> QED
      BY <1>1, <1>3, <2>1, <3>1 DEF Bit
  <2>2. CASE t \notin B
    <3>1. C = B
      BY <2>2
    <3>2. Cardinality(C) = Cardinality(B) /\ Bit(t \in B) = 0
      BY <2>2, <3>1 DEF Bit
    <3> QED
      BY <1>1, <1>3, <2>2, <3>2
  <2> QED
    BY <2>1, <2>2
<1> QED
  BY <1>1, <1>2, <1>3, <1>4 DEF Bit

\* A step of a thread.
OthersSame(t) == \A u \in Stacks : u # t =>
  mine'[u] = mine[u] /\ old'[u] = old[u] /\ at'[u] = at[u] /\ doing'[u] = doing[u]

\* Counts stay exact when a step changes a count by what it adds and takes.
LEMMA StepCounts ==
  ASSUME NEW t \in Stacks, OthersSame(t), RefType, RefType', CountsExact,
         \A e \in Entries : refs'[e] = refs[e] + Weight(t, e)' - Weight(t, e) + Bit(m_ent' = e) - Bit(m_ent = e)
  PROVE  CountsExact'
<1> SUFFICES ASSUME NEW e \in Entries
             PROVE refs'[e] = Cardinality(Sharers(e)') + Cardinality(Returning(e)') + Bit(m_ent' = e)
  BY DEF CountsExact
<1>1. PICK A \in {Sharers(e)}, B \in {Sharers(e)'}, C \in {Returning(e)}, D \in {Returning(e)'} :
        A = Sharers(e) /\ B = Sharers(e)' /\ C = Returning(e) /\ D = Returning(e)'
  OBVIOUS
<1>2. A \subseteq Stacks /\ C \subseteq Stacks /\ A \ {t} = B \ {t} /\ C \ {t} = D \ {t}
  BY <1>1 DEF Sharers, Returning, OthersSame
<1>3. IsFiniteSet(A) /\ IsFiniteSet(C)
  BY <1>2, StacksFinite, FS_Subset
<1>4. /\ Cardinality(A) \in Nat /\ Cardinality(B) \in Nat
      /\ Cardinality(B) = Cardinality(A) + Bit(t \in B) - Bit(t \in A)
  BY <1>2, <1>3, OneElement
<1>5. /\ Cardinality(C) \in Nat /\ Cardinality(D) \in Nat
      /\ Cardinality(D) = Cardinality(C) + Bit(t \in D) - Bit(t \in C)
  BY <1>2, <1>3, OneElement
<1>6. Weight(t, e) = Bit(t \in A) + Bit(t \in C) /\ Weight(t, e)' = Bit(t \in B) + Bit(t \in D)
  BY <1>1 DEF Weight, Gives, Sharers, Returning, Bit
<1>7. refs[e] = Cardinality(A) + Cardinality(C) + Bit(m_ent = e)
  BY <1>1 DEF CountsExact
<1>8. refs'[e] = refs[e] + Weight(t, e)' - Weight(t, e) + Bit(m_ent' = e) - Bit(m_ent = e)
  OBVIOUS
<1>9. refs'[e] = Cardinality(B) + Cardinality(D) + Bit(m_ent' = e)
  BY <1>4, <1>5, <1>6, <1>7, <1>8 DEF Bit
<1> QED
  BY <1>1, <1>9

\* What a step has to do for the counts, apart from them.
LEMMA TypeStep ==
  ASSUME RefType, NEW t \in Stacks, ObjStep(t), CountsExact, NothingOld, OldIsThere, HandsFree, ClearedOnce
  PROVE  OthersSame(t) /\ at' \in [Stacks -> Places] /\ doing' \in [Stacks -> ObjOps]
<1> USE DEF RefType, OthersSame, Goes
<1>1. at' \in [Stacks -> Places] /\ \A u \in Stacks : u # t => at'[u] = at[u]
  BY DEF Places, Left, ObjStep, NewEntry, StartReference, StartSet, StartMonitor, GiveBack, RecycleDec, ClearEntry,
     SpinLock, Link, SpinUnlock, LockTest, LockCas, LockCount, Unlock, Release, ReadEntry, EntryReference, SetEntry,
     EnterMonitor, ExitMonitor
<1>2. doing' \in [Stacks -> ObjOps] /\ \A u \in Stacks : u # t => doing'[u] = doing[u]
  BY DEF ObjOps, ObjStep, NewEntry, StartReference, StartSet, StartMonitor, GiveBack, RecycleDec, ClearEntry,
     SpinLock, Link, SpinUnlock, LockTest, LockCas, LockCount, Unlock, Release, ReadEntry, EntryReference, SetEntry,
     EnterMonitor, ExitMonitor
<1>3. \A u \in Stacks : u # t => mine'[u] = mine[u] /\ old'[u] = old[u]
  BY DEF ObjStep, NewEntry, StartReference, StartSet, StartMonitor, GiveBack, RecycleDec, ClearEntry,
     SpinLock, Link, SpinUnlock, LockTest, LockCas, LockCount, Unlock, Release, ReadEntry, EntryReference, SetEntry,
     EnterMonitor, ExitMonitor
<1> QED
  BY <1>1, <1>2, <1>3

\* A step that leaves the entries and those who hold them alone.
LEMMA QuietRefs ==
  ASSUME RefInv, NEW t \in Stacks, UNCHANGED <<m_ent, refs, live, mine, old>>,
         \/ StartReference(t) \/ StartMonitor(t) \/ ExitMonitor(t)
         \/ LockTest(t) \/ LockCas(t) \/ LockCount(t) \/ Unlock(t) \/ Release(t)
         \/ EnterMonitor(t) \/ SpinLock(t) \/ Link(t) \/ SpinUnlock(t)
  PROVE  RefInv'
<1>1. OthersSame(t) /\ at' \in [Stacks -> Places] /\ doing' \in [Stacks -> ObjOps]
  BY TypeStep DEF RefInv, ObjStep
<1>2. RefType'
  BY <1>1 DEF RefInv, RefType
<1>3. /\ at[t] \notin {"refer", "recycle", "clear"} /\ at'[t] \notin {"refer", "clear"}
      /\ at'[t] = "recycle" => doing[t] = "set" /\ at[t] \in {"unlock", "release"}
      /\ at'[t] \in Locking => doing'[t] # "set" \/ (doing[t] = "set" /\ at[t] \in Locking)
      /\ at'[t] \in Locking /\ doing'[t] = "reference" => mine[t] = NoEntry
      /\ doing'[t] = doing[t] \/ (at[t] = "idle" /\ doing'[t] # "set")
      /\ at'[t] \in {"spin", "link", "unspin"} => at[t] \in {"spin", "link", "unspin"}
      /\ at'[t] \in {"unlock", "release"} => at[t] \in {"unlock", "release"} \/ (at[t] = "idle" /\ doing'[t] # "set")
      /\ at'[t] = "idle" => at[t] = "unspin" \/ doing[t] # "set"
      /\ at[t] \in {"unlock", "release"} /\ doing[t] = "set" => at'[t] \in {"unlock", "release", "recycle"}
  <2> USE DEF RefInv, RefType, HandsFree, Goes, Locking, Left, ObjOps
  <2>1. CASE StartReference(t) \/ StartMonitor(t) \/ ExitMonitor(t) \/ SpinLock(t) \/ Link(t) \/ SpinUnlock(t)
    BY <2>1 DEF StartReference, StartMonitor, ExitMonitor, SpinLock, Link, SpinUnlock
  <2>2. CASE LockTest(t) \/ LockCas(t) \/ LockCount(t) \/ Unlock(t) \/ Release(t) \/ EnterMonitor(t)
    BY <2>2 DEF LockTest, LockCas, LockCount, Unlock, Release, EnterMonitor
  <2> QED
    BY <2>1, <2>2
<1>4. \A e \in Entries : Weight(t, e)' = Weight(t, e)
  <2> SUFFICES ASSUME NEW e \in Entries PROVE Gives(t, e)' <=> Gives(t, e)
    BY DEF Weight, Bit
  <2>1. old[t] = e => at[t] # "idle" /\ doing'[t] = doing[t]
    BY <1>3, NoEntryIsNone DEF RefInv, NothingOld
  <2> QED
    BY <1>3, <2>1, NoEntryIsNone DEF Gives, RefInv, NothingOld
<1>5. CountsExact'
  <2>1. \A e \in Entries : Weight(t, e) \in Int /\ Bit(m_ent = e) \in Int
    BY DEF Weight, Bit
  <2>2. \A e \in Entries : refs'[e] = refs[e] + Weight(t, e)' - Weight(t, e) + Bit(m_ent' = e) - Bit(m_ent = e)
    BY <1>2, <1>4, <2>1 DEF RefType
  <2> QED
    BY <1>1, <1>2, <2>2, StepCounts DEF RefInv
<1>6. CountedLives'
  BY DEF RefInv, CountedLives
<1>7. NothingOld'
  BY <1>1, <1>3 DEF RefInv, NothingOld, OthersSame
<1>8. OldIsThere'
  BY <1>1, <1>3 DEF RefInv, OldIsThere, OthersSame
<1>9. HandsFree'
  BY <1>1, <1>3 DEF RefInv, HandsFree, OthersSame
<1>10. ClearedOnce'
  BY <1>1, <1>3 DEF RefInv, ClearedOnce, OthersSame
<1> QED
  BY <1>2, <1>5, <1>6, <1>7, <1>8, <1>9, <1>10 DEF RefInv

\* A new entry at an address that nobody refers to.
LEMMA NewEntryRefs == ASSUME RefInv, NEW t \in Stacks, NewEntry(t) PROVE RefInv'
<1>1. OthersSame(t) /\ at' \in [Stacks -> Places] /\ doing' \in [Stacks -> ObjOps]
  BY TypeStep DEF RefInv, ObjStep
<1>2. PICK n \in Entries \ live : /\ live' = live \cup {n} /\ refs' = [refs EXCEPT ![n] = 1]
                                  /\ mine' = [mine EXCEPT ![t] = n]
  BY DEF NewEntry
<1>3. at[t] = "idle" /\ at'[t] = "spin" /\ mine[t] = NoEntry /\ UNCHANGED <<m_ent, doing, old>> /\ old[t] = NoEntry
  BY DEF NewEntry, Goes, RefInv, RefType, NothingOld
<1>4. RefType'
  BY <1>1, <1>2, <1>3 DEF RefInv, RefType
<1>5. refs[n] = 0
  BY DEF RefInv, RefType, CountedLives
<1>6. CountsExact'
  <2>1. \A e \in Entries : refs'[e] = refs[e] + Weight(t, e)' - Weight(t, e) + Bit(m_ent' = e) - Bit(m_ent = e)
    BY <1>2, <1>3, <1>4, <1>5, NoEntryIsNone DEF RefInv, RefType, Weight, Bit, Gives
  <2> QED
    BY <1>1, <1>4, <2>1, StepCounts DEF RefInv
<1>7. CountedLives'
  BY <1>2 DEF RefInv, RefType, CountedLives
<1>8. NothingOld' /\ OldIsThere'
  BY <1>1, <1>3 DEF RefInv, NothingOld, OldIsThere, OthersSame, Locking
<1>9. HandsFree'
  BY <1>1, <1>3 DEF RefInv, HandsFree, OthersSame, Locking
<1>10. ClearedOnce'
  <2> SUFFICES ASSUME NEW u \in Stacks, at'[u] = "clear"
               PROVE /\ old'[u] \in live' /\ refs'[old'[u]] = 0
                     /\ \A v \in Stacks : at'[v] = "clear" /\ old'[v] = old'[u] => v = u
    BY DEF ClearedOnce
  <2>1. u # t /\ at[u] = "clear" /\ old'[u] = old[u] /\ old[u] \in live /\ old[u] # n
    BY <1>1, <1>2, <1>3 DEF OthersSame, RefInv, ClearedOnce
  <2>2. \A v \in Stacks : at'[v] = "clear" => at[v] = "clear" /\ old'[v] = old[v]
    BY <1>1, <1>3 DEF OthersSame
  <2> QED
    BY <1>2, <2>1, <2>2 DEF RefInv, RefType, ClearedOnce
<1> QED
  BY <1>4, <1>6, <1>7, <1>8, <1>9, <1>10 DEF RefInv

\* set_entry reads the entry that it is to replace.
LEMMA StartSetRefs == ASSUME RefInv, NEW t \in Stacks, StartSet(t) PROVE RefInv'
<1>1. OthersSame(t) /\ at' \in [Stacks -> Places] /\ doing' \in [Stacks -> ObjOps]
  BY TypeStep DEF RefInv, ObjStep
<1>2. /\ t \in Writers /\ at[t] = "idle" /\ at'[t] = "test" /\ doing'[t] = "set" /\ old'[t] = m_ent
      /\ UNCHANGED <<m_ent, refs, live, mine>> /\ old[t] = NoEntry
      /\ old' \in [Stacks -> Entries \cup {NoEntry}]
  BY DEF StartSet, Goes, RefInv, RefType, NothingOld
<1>3. RefType'
  BY <1>1, <1>2 DEF RefInv, RefType
<1>4. CountsExact'
  <2>1. \A e \in Entries : refs'[e] = refs[e] + Weight(t, e)' - Weight(t, e) + Bit(m_ent' = e) - Bit(m_ent = e)
    BY <1>2, <1>3, NoEntryIsNone DEF RefInv, RefType, Weight, Bit, Gives
  <2> QED
    BY <1>1, <1>3, <2>1, StepCounts DEF RefInv
<1>5. CountedLives'
  BY <1>2 DEF RefInv, CountedLives
<1>6. NothingOld' /\ OldIsThere'
  BY <1>1, <1>2 DEF RefInv, NothingOld, OldIsThere, OthersSame, Locking
<1>7. HandsFree' /\ ClearedOnce'
  BY <1>1, <1>2 DEF RefInv, HandsFree, ClearedOnce, OthersSame, Locking
<1> QED
  BY <1>3, <1>4, <1>5, <1>6, <1>7 DEF RefInv

\* A thread gives back what it holds.
LEMMA GiveBackRefs == ASSUME RefInv, NEW t \in Stacks, GiveBack(t) PROVE RefInv'
<1>1. OthersSame(t) /\ at' \in [Stacks -> Places] /\ doing' \in [Stacks -> ObjOps]
  BY TypeStep DEF RefInv, ObjStep
<1>2. /\ at[t] = "idle" /\ at'[t] = "recycle" /\ doing'[t] = "monitor" /\ old'[t] = mine[t] /\ mine'[t] = NoEntry
      /\ UNCHANGED <<m_ent, refs, live>> /\ old[t] = NoEntry /\ mine[t] # NoEntry
      /\ old' \in [Stacks -> Entries \cup {NoEntry}] /\ mine' \in [Stacks -> Entries \cup {NoEntry}]
  BY DEF GiveBack, Goes, RefInv, RefType, NothingOld
<1>3. RefType'
  BY <1>1, <1>2 DEF RefInv, RefType
<1>4. CountsExact'
  <2>1. \A e \in Entries : refs'[e] = refs[e] + Weight(t, e)' - Weight(t, e) + Bit(m_ent' = e) - Bit(m_ent = e)
    BY <1>2, <1>3, NoEntryIsNone DEF RefInv, RefType, Weight, Bit, Gives
  <2> QED
    BY <1>1, <1>3, <2>1, StepCounts DEF RefInv
<1>5. CountedLives'
  BY <1>2 DEF RefInv, CountedLives
<1>6. NothingOld' /\ OldIsThere'
  BY <1>1, <1>2 DEF RefInv, NothingOld, OldIsThere, OthersSame, Locking
<1>7. HandsFree' /\ ClearedOnce'
  BY <1>1, <1>2 DEF RefInv, HandsFree, ClearedOnce, OthersSame, Locking
<1> QED
  BY <1>3, <1>4, <1>5, <1>6, <1>7 DEF RefInv

\* entry_reference reads the entry under the lock.
LEMMA ReadEntryRefs == ASSUME RefInv, NEW t \in Stacks, ReadEntry(t) PROVE RefInv'
<1>1. OthersSame(t) /\ at' \in [Stacks -> Places] /\ doing' \in [Stacks -> ObjOps]
  BY TypeStep DEF RefInv, ObjStep
<1>2. /\ at[t] = "in" /\ doing[t] = "reference" /\ UNCHANGED <<m_ent, refs, live, doing, mine>>
      /\ old[t] = NoEntry /\ mine[t] = NoEntry /\ old' \in [Stacks -> Entries \cup {NoEntry}]
      /\ \/ at'[t] = "unlock" /\ old'[t] = NoEntry
         \/ at'[t] = "refer" /\ old'[t] = m_ent /\ m_ent \in Entries
  BY DEF ReadEntry, Goes, RefInv, RefType, NothingOld, HandsFree, Locking
<1>3. RefType'
  BY <1>1, <1>2 DEF RefInv, RefType
<1>4. CountsExact'
  <2>1. \A e \in Entries : refs'[e] = refs[e] + Weight(t, e)' - Weight(t, e) + Bit(m_ent' = e) - Bit(m_ent = e)
    BY <1>2, <1>3, NoEntryIsNone DEF RefInv, RefType, Weight, Bit, Gives
  <2> QED
    BY <1>1, <1>3, <2>1, StepCounts DEF RefInv
<1>5. CountedLives'
  BY <1>2 DEF RefInv, CountedLives
<1>6. NothingOld'
  BY <1>1, <1>2 DEF RefInv, NothingOld, OthersSame
<1>7. OldIsThere'
  BY <1>1, <1>2 DEF RefInv, OldIsThere, OthersSame, Locking
<1>8. HandsFree' /\ ClearedOnce'
  BY <1>1, <1>2 DEF RefInv, HandsFree, ClearedOnce, OthersSame, Locking
<1> QED
  BY <1>3, <1>4, <1>5, <1>6, <1>7, <1>8 DEF RefInv

\* What the obj refers to is counted.
LEMMA ReferredIsCounted == ASSUME RefInv, m_ent \in Entries PROVE refs[m_ent] > 0 /\ m_ent \in live
<1>1. Sharers(m_ent) \subseteq Stacks /\ Returning(m_ent) \subseteq Stacks
  BY DEF Sharers, Returning
<1>2. Cardinality(Sharers(m_ent)) \in Nat /\ Cardinality(Returning(m_ent)) \in Nat
  BY <1>1, StacksFinite, FS_Subset, FS_CardinalityType
<1>3. refs[m_ent] > 0
  BY <1>2 DEF RefInv, CountsExact, Bit
<1> QED
  BY <1>3 DEF RefInv, CountedLives

\* entry_reference counts what it hands out.
LEMMA ReferenceRefs == ASSUME RefInv, NEW t \in Stacks, EntryReference(t) PROVE RefInv'
<1>1. OthersSame(t) /\ at' \in [Stacks -> Places] /\ doing' \in [Stacks -> ObjOps]
  BY TypeStep DEF RefInv, ObjStep
<1>2. /\ at[t] = "refer" /\ at'[t] = "unlock" /\ doing[t] = "reference" /\ mine'[t] = m_ent /\ mine[t] = NoEntry
      /\ UNCHANGED <<m_ent, live, doing>> /\ old'[t] = NoEntry /\ m_ent \in Entries
      /\ refs' = [refs EXCEPT ![m_ent] = @ + 1]
      /\ mine' \in [Stacks -> Entries \cup {NoEntry}] /\ old' \in [Stacks -> Entries \cup {NoEntry}]
  BY DEF EntryReference, Goes, RefInv, RefType, OldIsThere
<1>3. RefType'
  BY <1>1, <1>2 DEF RefInv, RefType
<1>4. CountsExact'
  <2>1. \A e \in Entries : refs'[e] = refs[e] + Weight(t, e)' - Weight(t, e) + Bit(m_ent' = e) - Bit(m_ent = e)
    BY <1>2, <1>3, NoEntryIsNone DEF RefInv, RefType, Weight, Bit, Gives
  <2> QED
    BY <1>1, <1>3, <2>1, StepCounts DEF RefInv
<1>5. refs[m_ent] > 0 /\ m_ent \in live
  BY <1>2, ReferredIsCounted
<1>6. CountedLives'
  BY <1>2, <1>5 DEF RefInv, RefType, CountedLives
<1>7. NothingOld' /\ OldIsThere'
  BY <1>1, <1>2 DEF RefInv, NothingOld, OldIsThere, OthersSame, Locking
<1>8. HandsFree'
  BY <1>1, <1>2 DEF RefInv, HandsFree, OthersSame, Locking
<1>9. ClearedOnce'
  BY <1>1, <1>2, <1>5 DEF RefInv, RefType, ClearedOnce, OthersSame
<1> QED
  BY <1>3, <1>4, <1>6, <1>7, <1>8, <1>9 DEF RefInv

\* The other threads that assign are this one, and those between the read of the
\* entry and its count would own the lock.
LEMMA SetEntryRefs == ASSUME RefInv, LockInv, OwnersDiffer, OneWriter, NEW t \in Stacks, SetEntry(t) PROVE RefInv'
<1>1. OthersSame(t) /\ at' \in [Stacks -> Places] /\ doing' \in [Stacks -> ObjOps]
  BY TypeStep DEF RefInv, ObjStep
<1>2. /\ at[t] = "in" /\ at'[t] = "unlock" /\ doing[t] = "set" /\ m_ent' = mine[t] /\ mine'[t] = NoEntry
      /\ UNCHANGED <<refs, live, doing, old>> /\ old[t] = m_ent /\ t \in Writers
      /\ mine' \in [Stacks -> Entries \cup {NoEntry}] /\ mine[t] \in Entries \cup {NoEntry}
  BY DEF SetEntry, Goes, RefInv, RefType, OldIsThere, Locking
<1>3. RefType'
  BY <1>1, <1>2 DEF RefInv, RefType
<1>4. CountsExact'
  <2>1. \A e \in Entries : refs'[e] = refs[e] + Weight(t, e)' - Weight(t, e) + Bit(m_ent' = e) - Bit(m_ent = e)
    BY <1>2, <1>3, NoEntryIsNone DEF RefInv, RefType, Weight, Bit, Gives
  <2> QED
    BY <1>1, <1>3, <2>1, StepCounts DEF RefInv
<1>5. CountedLives'
  BY <1>2 DEF RefInv, CountedLives
<1>6. NothingOld'
  BY <1>1, <1>2 DEF RefInv, NothingOld, OthersSame
<1>7. \A u \in Stacks : at[u] # "refer"
  BY <1>2 DEF LockInv, InsideOwns, Inside, OwnersDiffer
<1>9. OldIsThere'
  BY <1>1, <1>2, <1>7 DEF RefInv, OldIsThere, OthersSame, Locking, OneWriter
<1>8. HandsFree' /\ ClearedOnce'
  BY <1>1, <1>2 DEF RefInv, HandsFree, ClearedOnce, OthersSame, Locking
<1> QED
  BY <1>3, <1>4, <1>5, <1>6, <1>8, <1>9 DEF RefInv

\* The last one to give an entry back is known by the count.
LEMMA RecycleRefs == ASSUME RefInv, NEW t \in Stacks, RecycleDec(t) PROVE RefInv'
<1>1. OthersSame(t) /\ at' \in [Stacks -> Places] /\ doing' \in [Stacks -> ObjOps]
  BY TypeStep DEF RefInv, ObjStep
<1>2. /\ at[t] = "recycle" /\ UNCHANGED <<m_ent, live, doing, mine>>
      /\ refs' = IF old[t] = NoEntry THEN refs ELSE [refs EXCEPT ![old[t]] = @ - 1]
      /\ old[t] \in Entries \cup {NoEntry} /\ old' \in [Stacks -> Entries \cup {NoEntry}]
  BY DEF RecycleDec, Goes, RefInv, RefType
<1>3. \/ at'[t] = "clear" /\ old' = old /\ old[t] # NoEntry /\ refs[old[t]] - 1 <= 0
      \/ at'[t] = "idle" /\ old'[t] = NoEntry /\ (old[t] = NoEntry \/ ~(refs[old[t]] - 1 <= 0))
  BY DEF RecycleDec, Goes, RefInv, RefType
<1>4. old[t] # NoEntry => refs[old[t]] \in Nat /\ refs[old[t]] > 0
  <2> SUFFICES ASSUME old[t] \in Entries PROVE refs[old[t]] \in Nat /\ refs[old[t]] > 0
    BY <1>2
  <2>1. PICK e \in Entries : e = old[t]
    OBVIOUS
  <2>2. t \in Returning(e)
    BY <1>2, <2>1 DEF Returning
  <2>3. IsFiniteSet(Sharers(e)) /\ IsFiniteSet(Returning(e))
    <3>1. Sharers(e) \subseteq Stacks /\ Returning(e) \subseteq Stacks
      BY DEF Sharers, Returning
    <3> QED
      BY <3>1, StacksFinite, FS_Subset
  <2>4. Cardinality(Sharers(e)) \in Nat /\ Cardinality(Returning(e)) \in Nat /\ Cardinality(Returning(e)) # 0
    BY <2>2, <2>3, FS_CardinalityType, FS_EmptySet
  <2> QED
    BY <2>1, <2>4 DEF RefInv, RefType, CountsExact, Bit
<1>5. RefType'
  BY <1>1, <1>2, <1>4 DEF RefInv, RefType
<1>6. CountsExact'
  <2>1. \A e \in Entries : refs'[e] = refs[e] + Weight(t, e)' - Weight(t, e) + Bit(m_ent' = e) - Bit(m_ent = e)
    <3> SUFFICES ASSUME NEW e \in Entries
                 PROVE refs'[e] = refs[e] + Weight(t, e)' - Weight(t, e) + Bit(m_ent' = e) - Bit(m_ent = e)
      OBVIOUS
    <3>1. Gives(t, e) <=> old[t] = e
      BY <1>2 DEF Gives
    <3>2. ~Gives(t, e)'
      BY <1>3, NoEntryIsNone DEF Gives
    <3>3. refs[e] \in Nat /\ refs'[e] = refs[e] - Bit(old[t] = e)
      BY <1>2, <1>5, NoEntryIsNone DEF RefInv, RefType, Bit
    <3> QED
      BY <1>2, <3>1, <3>2, <3>3 DEF Weight, Bit
  <2> QED
    BY <1>1, <1>5, <2>1, StepCounts DEF RefInv
<1>7. CountedLives'
  BY <1>2, <1>4 DEF RefInv, RefType, CountedLives
<1>8. NothingOld'
  BY <1>1, <1>3 DEF RefInv, NothingOld, OthersSame
<1>9. OldIsThere'
  BY <1>1, <1>2, <1>3 DEF RefInv, OldIsThere, OthersSame, Locking
<1>10. HandsFree'
  BY <1>1, <1>2, <1>3 DEF RefInv, HandsFree, OthersSame, Locking
<1>11. ClearedOnce'
  <2> SUFFICES ASSUME NEW u \in Stacks, at'[u] = "clear"
               PROVE /\ old'[u] \in live' /\ refs'[old'[u]] = 0
                     /\ \A v \in Stacks : at'[v] = "clear" /\ old'[v] = old'[u] => v = u
    BY DEF ClearedOnce
  <2>1. CASE u = t
    <3>1. old' = old /\ refs[old[t]] = 1 /\ refs'[old[t]] = 0 /\ old[t] \in live
      BY <1>2, <1>3, <1>4, <2>1 DEF RefInv, RefType, CountedLives
    <3>2. ASSUME NEW v \in Stacks, v # t, at'[v] = "clear", old'[v] = old'[u] PROVE FALSE
      <4>1. at[v] = "clear" /\ old[v] = old[t]
        BY <1>1, <2>1, <3>1, <3>2 DEF OthersSame
      <4> QED
        BY <3>1, <4>1 DEF RefInv, ClearedOnce
    <3> QED
      BY <1>2, <2>1, <3>1, <3>2
  <2>2. CASE u # t
    <3>1. at[u] = "clear" /\ old'[u] = old[u] /\ old[u] \in live /\ refs[old[u]] = 0
      BY <1>1, <2>2 DEF OthersSame, RefInv, ClearedOnce
    <3>2. old[t] # old[u]
      BY <1>4, <3>1, NoEntryIsNone DEF RefInv, RefType
    <3>3. refs'[old[u]] = 0 /\ old[u] \in live'
      BY <1>2, <3>1, <3>2 DEF RefInv, RefType
    <3>4. ASSUME NEW v \in Stacks, v # u, at'[v] = "clear", old'[v] = old'[u] PROVE FALSE
      <4>1. v # t
        BY <1>3, <3>1, <3>2, <3>4, NoEntryIsNone
      <4>2. at[v] = "clear" /\ old[v] = old[u]
        BY <1>1, <3>1, <3>4, <4>1 DEF OthersSame
      <4> QED
        BY <3>1, <3>4, <4>2 DEF RefInv, ClearedOnce
    <3> QED
      BY <3>1, <3>3, <3>4
  <2> QED
    BY <2>1, <2>2
<1> QED
  BY <1>5, <1>6, <1>7, <1>8, <1>9, <1>10, <1>11 DEF RefInv

\* Nobody refers to an entry that is deleted.
LEMMA ClearRefs == ASSUME RefInv, NEW t \in Stacks, ClearEntry(t) PROVE RefInv'
<1>1. OthersSame(t) /\ at' \in [Stacks -> Places] /\ doing' \in [Stacks -> ObjOps]
  BY TypeStep DEF RefInv, ObjStep
<1>2. /\ at[t] = "clear" /\ at'[t] = "idle" /\ live' = live \ {old[t]} /\ old'[t] = NoEntry
      /\ UNCHANGED <<m_ent, refs, doing, mine>> /\ old' \in [Stacks -> Entries \cup {NoEntry}]
  BY DEF ClearEntry, Goes, RefInv, RefType
<1>3. RefType'
  BY <1>1, <1>2 DEF RefInv, RefType
<1>4. CountsExact'
  <2>1. \A e \in Entries : refs'[e] = refs[e] + Weight(t, e)' - Weight(t, e) + Bit(m_ent' = e) - Bit(m_ent = e)
    BY <1>2, <1>3, NoEntryIsNone DEF RefInv, RefType, Weight, Bit, Gives
  <2> QED
    BY <1>1, <1>3, <2>1, StepCounts DEF RefInv
<1>5. CountedLives'
  BY <1>2 DEF RefInv, RefType, CountedLives, ClearedOnce
<1>6. NothingOld' /\ OldIsThere'
  BY <1>1, <1>2 DEF RefInv, NothingOld, OldIsThere, OthersSame, Locking
<1>7. HandsFree'
  BY <1>1, <1>2 DEF RefInv, HandsFree, OthersSame, Locking
<1>8. ClearedOnce'
  BY <1>1, <1>2 DEF RefInv, ClearedOnce, OthersSame
<1> QED
  BY <1>3, <1>4, <1>5, <1>6, <1>7, <1>8 DEF RefInv

\* Nothing refers to anything.
LEMMA RefInvInit == ASSUME ObjInit PROVE RefInv
<1>1. RefType /\ CountedLives /\ NothingOld /\ OldIsThere /\ HandsFree /\ ClearedOnce
  BY DEF ObjInit, RefType, CountedLives, NothingOld, OldIsThere, HandsFree, ClearedOnce, Places, ObjOps, Locking
<1>2. ASSUME NEW e \in Entries PROVE refs[e] = Cardinality(Sharers(e)) + Cardinality(Returning(e)) + Bit(m_ent = e)
  <2>1. Sharers(e) = {} /\ Returning(e) = {} /\ refs[e] = 0 /\ m_ent # e
    BY NoEntryIsNone DEF ObjInit, Sharers, Returning
  <2> QED
    BY <2>1, FS_EmptySet DEF Bit
<1> QED
  BY <1>1, <1>2 DEF RefInv, CountsExact

\* Every step, with one thread that assigns.
LEMMA RefInvNext == ASSUME OneWriter, OwnersDiffer, LockInv, RefInv, [ObjNext]_objVars PROVE RefInv'
<1>1. CASE UNCHANGED objVars
  BY <1>1 DEF objVars, RefInv, RefType, CountsExact, CountedLives, NothingOld, OldIsThere, HandsFree, ClearedOnce,
     Sharers, Returning
<1>2. ASSUME NEW t \in Stacks, ObjStep(t) PROVE RefInv'
  <2>1. CASE \/ StartReference(t) \/ StartMonitor(t) \/ ExitMonitor(t) \/ EnterMonitor(t)
             \/ SpinLock(t) \/ Link(t) \/ SpinUnlock(t)
    <3>1. UNCHANGED <<m_ent, refs, live, mine, old>>
      BY <2>1 DEF StartReference, StartMonitor, ExitMonitor, EnterMonitor, SpinLock, Link, SpinUnlock
    <3> QED
      BY <2>1, <3>1, QuietRefs
  <2>2. CASE LockTest(t) \/ LockCas(t) \/ LockCount(t) \/ Unlock(t) \/ Release(t)
    <3>1. UNCHANGED <<m_ent, refs, live, mine, old>>
      BY <2>2 DEF LockTest, LockCas, LockCount, Unlock, Release
    <3> QED
      BY <2>2, <3>1, QuietRefs
  <2> QED
    BY <1>2, <2>1, <2>2, NewEntryRefs, StartSetRefs, GiveBackRefs, ReadEntryRefs, ReferenceRefs, SetEntryRefs, RecycleRefs,
       ClearRefs DEF ObjStep
<1> QED
  BY <1>1, <1>2 DEF ObjNext

\* The invariant is more than the property.
LEMMA RefInvCounts == RefInv => NoneFreedInUse
<1> SUFFICES ASSUME RefInv PROVE NoneFreedInUse
  OBVIOUS
<1>1. \A t \in Stacks : at[t] = "refer" => old[t] \in live
  BY ReferredIsCounted DEF RefInv, OldIsThere
<1> QED
  BY <1>1 DEF RefInv, CountsExact, CountedLives, NoneFreedInUse, Bit

\* With one thread that assigns an obj and any that read it, their owners all
\* different, the count of each entry is the number of those who refer to it, and
\* none of them refers to deleted memory, nor counts a reference there.
THEOREM EntriesAreCounted == OwnersDiffer /\ OneWriter => (ObjSpec => []NoneFreedInUse)
<1> SUFFICES ASSUME OwnersDiffer, OneWriter PROVE ObjSpec => []NoneFreedInUse
  OBVIOUS
<1>1. ObjInit => RefInv
  BY RefInvInit
<1>2. LockInv /\ RefInv /\ [ObjNext]_objVars => RefInv'
  BY RefInvNext
<1> QED
  BY <1>1, <1>2, LockIsKept, RefInvCounts, PTL DEF ObjSpec

\* With one thread that assigns it and any that read it and lock it, an obj is
\* shared safely (simple_lock, obj::entry_reference, set_entry, entry::recycle)
\* as far as the owners of the threads differ.
THEOREM ObjIsShared == OneWriter => (ObjSpec => []SharedSafely)
<1> SUFFICES ASSUME OneWriter PROVE ObjSpec => []SharedSafely
  OBVIOUS
<1>1. CASE OwnersDiffer
  <2>1. ObjSpec => []NoneFreedInUse
    BY <1>1, EntriesAreCounted
  <2>2. ObjSpec => []LockExcludes
    BY <1>1, LocksExclude
  <2>3. LockExcludes /\ NoneFreedInUse => SharedSafely
    BY DEF SharedSafely
  <2> QED
    BY <2>1, <2>2, <2>3, PTL
<1>2. CASE ~OwnersDiffer
  <2>1. SharedSafely
    BY <1>2 DEF SharedSafely
  <2> QED
    BY <2>1, PTL
<1> QED
  BY <1>1, <1>2

-----------------------------------------------------------------------------
(* elog: appenders and who holds them                                      *)

Users == Threads \cup Admins
Holding == {"write", "fwrite", "give"}
Loads == {"appenders", "loggers", "default", "install"}
AppFields == DOMAIN NewAppender(NULL)

\* The entries of a table are appenders.
Names(T) == \A n \in DOMAIN T : T[n] \in DOMAIN app \cup {NULL}

ELogType ==
    /\ app \in Seq(Range(app))
    /\ \A a \in DOMAIN app : DOMAIN app[a] = AppFields /\ app[a].ref \in Int /\ app[a].deleted \in BOOLEAN
    /\ DOMAIN stage = Users /\ DOMAIN held = Users
    /\ \A t \in Threads : stage[t] \in {"idle", "reread"} \cup Holding
    /\ \A r \in Admins : stage[r] \in {"idle", "free", "give", "reread"} \cup Loads
    /\ \A u \in Users : stage[u] \in Holding \cup {"reread"} => held[u].app \in DOMAIN app
    /\ DOMAIN local = Admins /\ \A r \in Admins : DOMAIN local[r] = DOMAIN NoTables
    /\ Names(appends) /\ \A r \in Admins : Names(local[r].apps)
    /\ dflt.app \in DOMAIN app \cup {NULL}
    /\ conf \in Files

\* What an init or reload has built so far; an init has the tables in force
\* to itself, and they own nothing.
Built(r) ==
    /\ stage[r] \in {"idle", "appenders"} => DOMAIN local[r].apps = {}
    /\ stage[r] = "appenders" => DOMAIN local[r].logs = {}
    /\ stage[r] \in {"appenders", "loggers", "default"} => local[r].dflt = NULL
    /\ stage[r] \in {"loggers", "default", "install"} =>
         /\ \A n \in DOMAIN local[r].logs : local[r].logs[n].app \in Range(local[r].apps)
         /\ local[r].dflt # NULL => local[r].dflt.app \in Range(local[r].apps)
    /\ stage[r] \in Loads /\ local[r].init =>
         lock = r /\ dflt.app = NULL /\ \A n \in DOMAIN appends : appends[n] = NULL

Counted ==
    \A a \in DOMAIN app : /\ IsFiniteSet(Owners(a))
                          /\ app[a].ref = Cardinality(Owners(a))
                          /\ Owners(a) # {} => ~app[a].deleted

InForce ==
    /\ \A n \in DOMAIN logs : logs[n].app \in Range(appends)
    /\ dflt.app # NULL /\ appends # Empty /\ Live(dflt.app) => dflt.app \in Range(appends)

ELogInv == ELogType /\ (\A r \in Admins : Built(r)) /\ Counted /\ InForce

\* A function on 1..n is a sequence.
LEMMA FunctionIsSeq ==
  ASSUME NEW f, NEW n \in Nat, DOMAIN f = 1..n, f = [i \in DOMAIN f |-> f[i]]
  PROVE  f \in Seq(Range(f)) /\ Len(f) = n
<1>1. f \in [1..n -> Range(f)]
  BY DEF Range
<1>2. f \in Seq(Range(f))
  BY <1>1, SeqDef
<1> QED
  BY <1>2, LenProperties

\* x owns a reference to a.
Owns(x, a) ==
    \/ \E n \in DOMAIN appends : appends[n] = a /\ x = <<"table", n>>
    \/ \E r \in Admins : \E n \in DOMAIN local[r].apps : local[r].apps[n] = a /\ x = <<r, n>>
    \/ \E u \in Users : stage[u] \in Holding /\ held[u].app = a /\ x = <<"held", u>>

LEMMA OwnersAre == \A a, x : x \in Owners(a) <=> Owns(x, a)
<1> SUFFICES ASSUME NEW a, NEW x PROVE x \in Owners(a) <=> Owns(x, a)
  OBVIOUS
<1> DEFINE InTables == {<<"table", n>> : n \in {m \in DOMAIN appends : appends[m] = a}}
           Of(r) == {<<r, n>> : n \in {m \in DOMAIN local[r].apps : local[r].apps[m] = a}}
           InUse == {<<"held", t>> : t \in {u \in Threads \cup Admins : stage[u] \in {"write", "fwrite", "give"} /\ held[u].app = a}}
           InLocal == UNION {Of(r) : r \in Admins}
<1>1. x \in InTables <=> \E n \in DOMAIN appends : appends[n] = a /\ x = <<"table", n>>
  OBVIOUS
<1>2. \A r : x \in Of(r) <=> \E n \in DOMAIN local[r].apps : local[r].apps[n] = a /\ x = <<r, n>>
  OBVIOUS
<1>3. x \in InUse <=> \E u \in Users : stage[u] \in Holding /\ held[u].app = a /\ x = <<"held", u>>
  BY DEF Users, Holding
<1>4. Owners(a) = InTables \cup InLocal \cup InUse
  BY DEF Owners
<1> HIDE DEF InTables, Of, InUse
<1>5. x \in InLocal <=> \E r \in Admins : x \in Of(r)
  OBVIOUS
<1>6. x \in Owners(a) <=> x \in InTables \/ (\E r \in Admins : x \in Of(r)) \/ x \in InUse
  <2> HIDE DEF InLocal
  <2> QED
    BY <1>4, <1>5
<1> QED
  BY <1>1, <1>2, <1>3, <1>6 DEF Owns

LEMMA OwnersAreNext == \A a, x : x \in Owners(a)' <=> Owns(x, a)'
<1> SUFFICES ASSUME NEW a, NEW x PROVE x \in Owners(a)' <=> Owns(x, a)'
  OBVIOUS
<1> DEFINE InTables == {<<"table", n>> : n \in {m \in DOMAIN appends' : appends'[m] = a}}
           Of(r) == {<<r, n>> : n \in {m \in DOMAIN local'[r].apps : local'[r].apps[m] = a}}
           InUse == {<<"held", t>> : t \in {u \in Threads \cup Admins : stage'[u] \in {"write", "fwrite", "give"} /\ held'[u].app = a}}
           InLocal == UNION {Of(r) : r \in Admins}
<1>1. x \in InTables <=> \E n \in DOMAIN appends' : appends'[n] = a /\ x = <<"table", n>>
  OBVIOUS
<1>2. \A r : x \in Of(r) <=> \E n \in DOMAIN local'[r].apps : local'[r].apps[n] = a /\ x = <<r, n>>
  OBVIOUS
<1>3. x \in InUse <=> \E u \in Users : stage'[u] \in Holding /\ held'[u].app = a /\ x = <<"held", u>>
  BY DEF Users, Holding
<1>4. Owners(a)' = InTables \cup InLocal \cup InUse
  BY DEF Owners
<1> HIDE DEF InTables, Of, InUse
<1>5. x \in InLocal <=> \E r \in Admins : x \in Of(r)
  OBVIOUS
<1>6. x \in Owners(a)' <=> x \in InTables \/ (\E r \in Admins : x \in Of(r)) \/ x \in InUse
  <2> HIDE DEF InLocal
  <2> QED
    BY <1>4, <1>5
<1> QED
  BY <1>1, <1>2, <1>3, <1>6 DEF Owns

\* Nothing is owned by other tables or users than before.
SameOwners ==
    /\ appends' = appends
    /\ \A r \in Admins : \A a \in DOMAIN app : \A n :
          n \in DOMAIN local'[r].apps /\ local'[r].apps[n] = a
            <=> n \in DOMAIN local[r].apps /\ local[r].apps[n] = a
    /\ \A u \in Users : /\ stage'[u] \in Holding <=> stage[u] \in Holding
                        /\ stage[u] \in Holding => held'[u].app = held[u].app

LEMMA OwnersStay ==
  ASSUME SameOwners PROVE \A a \in DOMAIN app : Owners(a)' = Owners(a)
<1> SUFFICES ASSUME NEW a \in DOMAIN app, NEW x PROVE Owns(x, a)' <=> Owns(x, a)
  BY OwnersAre, OwnersAreNext
<1>1. (\E n \in DOMAIN appends' : appends'[n] = a /\ x = <<"table", n>>)
        <=> \E n \in DOMAIN appends : appends[n] = a /\ x = <<"table", n>>
  BY DEF SameOwners
<1>2. (\E r \in Admins : \E n \in DOMAIN local'[r].apps : local'[r].apps[n] = a /\ x = <<r, n>>)
        <=> \E r \in Admins : \E n \in DOMAIN local[r].apps : local[r].apps[n] = a /\ x = <<r, n>>
  BY DEF SameOwners
<1>3. (\E u \in Users : stage'[u] \in Holding /\ held'[u].app = a /\ x = <<"held", u>>)
        <=> \E u \in Users : stage[u] \in Holding /\ held[u].app = a /\ x = <<"held", u>>
  BY DEF SameOwners
<1> QED
  BY <1>1, <1>2, <1>3 DEF Owns

\* Nothing that the tables being built depend on changes for q.
LEMMA BuiltStays ==
  ASSUME NEW q \in Admins, Built(q), stage'[q] = stage[q], local'[q] = local[q],
         stage[q] \in Loads /\ local[q].init => lock' = lock /\ dflt' = dflt /\ appends' = appends
  PROVE  Built(q)'
  BY DEF Built

\* The counts stay when neither they nor the owners change.
LEMMA CountsStay ==
  ASSUME ELogInv, SameOwners, app' = app PROVE Counted'
<1>1. \A a \in DOMAIN app : Owners(a)' = Owners(a)
  BY OwnersStay
<1> QED
  BY <1>1 DEF ELogInv, Counted

-----------------------------------------------------------------------------
(* Steps that change no reference                                          *)

LEMMA QuietKeeps ==
  ASSUME ELogInv, UNCHANGED <<app, appends, logs, dflt, lock, stage, held, local>>, conf' \in Files
  PROVE  ELogInv'
<1>1. ELogType'
  BY DEF ELogInv, ELogType, Names
<1>2. \A r \in Admins : Built(r)'
  BY BuiltStays DEF ELogInv
<1>3. SameOwners
  BY DEF SameOwners
<1>4. Counted'
  BY <1>3, CountsStay
<1>5. InForce'
  BY DEF ELogInv, InForce, Live
<1> QED
  BY <1>1, <1>2, <1>4, <1>5 DEF ELogInv

\* The two looks at the file of the appender
LEMMA WriteKeeps ==
  ASSUME ELogInv, NEW t \in Threads, WriteTest(t) \/ Write(t) PROVE ELogInv'
<1>1. CASE UNCHANGED <<app, appends, logs, dflt, lock, now, conf, edits, stage, held, local>>
  BY <1>1, QuietKeeps DEF ELogInv, ELogType
<1>2. CASE ~UNCHANGED <<app, appends, logs, dflt, lock, now, conf, edits, stage, held, local>>
  <2>1. PICK to \in {"fwrite", "give"} :
          /\ stage[t] \in {"write", "fwrite"} /\ stage' = [stage EXCEPT ![t] = to]
          /\ UNCHANGED <<app, appends, logs, dflt, lock, conf, held, local>>
    BY <1>2 DEF WriteTest, Write, Goto, Crash
  <2>2. t \in Users /\ t \notin Admins /\ DOMAIN stage = Users
    BY ELogAssumption DEF Users, ELogInv, ELogType
  <2>3. stage'[t] = to /\ \A u \in Users : u # t => stage'[u] = stage[u]
    BY <2>1, <2>2
  <2>4. ELogType'
    BY <2>1, <2>2, <2>3 DEF ELogInv, ELogType, Names, Holding, Users
  <2>5. \A r \in Admins : stage'[r] = stage[r]
    BY <2>2, <2>3 DEF Users
  <2>6. \A r \in Admins : Built(r)'
    BY <2>1, <2>5, BuiltStays DEF ELogInv
  <2>7. SameOwners
    BY <2>1, <2>3 DEF SameOwners, Holding
  <2>8. Counted'
    BY <2>1, <2>7, CountsStay
  <2>9. InForce'
    BY <2>1 DEF ELogInv, InForce, Live
  <2> QED
    BY <2>4, <2>6, <2>8, <2>9 DEF ELogInv
<1> QED
  BY <1>1, <1>2

\* A user holds the appender of its logger or of its give() until the decrement.
LEMMA HeldOwns ==
  ASSUME NEW t \in Users, NEW a
  PROVE  <<"held", t>> \in Owners(a) <=> stage[t] \in Holding /\ held[t].app = a
<1>1. "held" \notin Admins /\ "held" # "table"
  BY ELogAssumption
<1> QED
  BY <1>1, OwnersAre DEF Owns

LEMMA HeldOwnsNext ==
  ASSUME NEW t \in Users, NEW a
  PROVE  <<"held", t>> \in Owners(a)' <=> stage'[t] \in Holding /\ held'[t].app = a
<1>1. "held" \notin Admins /\ "held" # "table"
  BY ELogAssumption
<1> QED
  BY <1>1, OwnersAreNext DEF Owns

\* Only t moves, and the tables stay.
OnlyMoves(t) ==
    /\ appends' = appends /\ local' = local
    /\ \A u \in Users : u # t => stage'[u] = stage[u] /\ held'[u] = held[u]

LEMMA OthersOwn ==
  ASSUME NEW t \in Users, OnlyMoves(t)
  PROVE  \A a, x : x # <<"held", t>> => (x \in Owners(a)' <=> x \in Owners(a))
<1> SUFFICES ASSUME NEW a, NEW x, x # <<"held", t>> PROVE Owns(x, a)' <=> Owns(x, a)
  BY OwnersAre, OwnersAreNext
<1>1. (\E u \in Users : stage'[u] \in Holding /\ held'[u].app = a /\ x = <<"held", u>>)
        <=> \E u \in Users : stage[u] \in Holding /\ held[u].app = a /\ x = <<"held", u>>
  BY DEF OnlyMoves
<1> QED
  BY <1>1 DEF Owns, OnlyMoves

\* The tables being built stay with their thread.
LEMMA BuildersStay ==
  ASSUME ELogInv, NEW t \in Users, OnlyMoves(t), t \in Admins => stage[t] \notin Loads,
         t \in Admins => stage'[t] \in {"give", "reread", "free"},
         UNCHANGED <<lock, dflt>>
  PROVE  \A r \in Admins : Built(r)'
<1> SUFFICES ASSUME NEW r \in Admins PROVE Built(r)'
  OBVIOUS
<1>1. CASE r # t
  <2>1. r \in Users
    BY DEF Users
  <2> QED
    BY <1>1, <2>1, BuiltStays DEF ELogInv, OnlyMoves
<1>2. CASE r = t
  <2>1. stage'[r] \notin Loads \cup {"idle"}
    BY <1>2 DEF Loads
  <2> QED
    BY <2>1 DEF Built, Loads
<1> QED
  BY <1>1, <1>2

-----------------------------------------------------------------------------
(* Loggers                                                                 *)

LEMMA TakeCounts ==
  ASSUME NEW a, NEW opened, DOMAIN app[a] = AppFields, app[a].ref \in Int
  PROVE  /\ DOMAIN Take(a, opened) = AppFields
         /\ Take(a, opened).ref = app[a].ref + 1
         /\ Take(a, opened).deleted = app[a].deleted
<1> DEFINE b == app[a]
           c == IF Due(b) THEN Rotate(b, opened) ELSE b
<1>1. AppFields = {"kind", "ref", "deleted", "file", "last"}
  BY DEF AppFields, NewAppender
<1>2. DOMAIN c = AppFields /\ c.ref = b.ref /\ c.deleted = b.deleted
  <2>1. DOMAIN Rotate(b, opened) = DOMAIN b
    BY DEF Rotate
  <2>2. Rotate(b, opened).ref = b.ref /\ Rotate(b, opened).deleted = b.deleted
    BY <1>1 DEF Rotate
  <2> QED
    BY <2>1, <2>2
<1>3. Take(a, opened) = [c EXCEPT !.ref = @ + 1]
  BY DEF Take
<1> HIDE DEF c
<1> QED
  BY <1>1, <1>2, <1>3

\* A logger is never given a name that no appender has.
LEMMA ChosenIsCreated ==
  ASSUME ELogInv, NEW name, Live(Chosen(name).app) PROVE Chosen(name).app \in DOMAIN app
<1>1. CASE name \in DOMAIN logs
  <2>1. Chosen(name).app = logs[name].app /\ logs[name].app \in Range(appends)
    BY <1>1 DEF Chosen, ELogInv, InForce
  <2> QED
    BY <2>1 DEF Range, ELogInv, ELogType, Names, Live
<1>2. CASE name \notin DOMAIN logs
  BY <1>2 DEF Chosen, ELogInv, ELogType, Live
<1> QED
  BY <1>1, <1>2

LEMMA LogKeeps ==
  ASSUME ELogInv, NEW t \in Threads, NEW name, NEW level, Log(t, name, level) PROVE ELogInv'
<1>1. CASE UNCHANGED <<app, appends, logs, dflt, lock, now, conf, edits, stage, held, local>>
  BY <1>1, QuietKeeps DEF ELogInv, ELogType
<1>2. CASE ~UNCHANGED <<app, appends, logs, dflt, lock, now, conf, edits, stage, held, local>>
  <2>1. PICK a \in {Chosen(name).app}, opened \in BOOLEAN :
          /\ stage[t] = "idle" /\ Live(a)
          /\ app' = [app EXCEPT ![a] = Take(a, opened)]
          /\ held' = [held EXCEPT ![t] = [app |-> a, taken |-> Period(now)]]
          /\ stage' = [stage EXCEPT ![t] = "write"]
          /\ UNCHANGED <<appends, logs, dflt, lock, conf, local>>
    BY <1>2 DEF Log, Goto, Crash
  <2>2. a \in DOMAIN app
    BY <2>1, ChosenIsCreated
  <2>3. /\ t \in Users /\ t \notin Admins /\ DOMAIN stage = Users /\ DOMAIN held = Users
        /\ app[a].ref \in Int /\ DOMAIN app[a] = AppFields
    BY <2>2, ELogAssumption DEF Users, ELogInv, ELogType
  <2>4. OnlyMoves(t) /\ stage'[t] = "write" /\ held'[t].app = a
    BY <2>1, <2>3 DEF OnlyMoves
  <2>5. /\ DOMAIN app' = DOMAIN app
        /\ \A b \in DOMAIN app : b # a => app'[b] = app[b]
        /\ DOMAIN app'[a] = AppFields /\ app'[a].ref = app[a].ref + 1
        /\ app'[a].deleted = app[a].deleted
    BY <2>1, <2>2, <2>3, TakeCounts
  <2>6. ELogType'
    <3>1. app' \in Seq(Range(app'))
      <4>1. DOMAIN app = 1..Len(app) /\ Len(app) \in Nat
        BY LenProperties DEF ELogInv, ELogType
      <4>2. app' = [i \in DOMAIN app' |-> app'[i]]
        BY <2>1
      <4> QED
        BY <2>5, <4>1, <4>2, FunctionIsSeq
    <3>2. \A b \in DOMAIN app' : DOMAIN app'[b] = AppFields /\ app'[b].ref \in Int /\ app'[b].deleted \in BOOLEAN
      BY <2>2, <2>3, <2>5 DEF ELogInv, ELogType
    <3>3. DOMAIN stage' = Users /\ DOMAIN held' = Users
      BY <2>1, <2>3
    <3>4. \A u \in Users : stage'[u] \in Holding \cup {"reread"} => held'[u].app \in DOMAIN app'
      BY <2>2, <2>4, <2>5 DEF OnlyMoves, ELogInv, ELogType
    <3> QED
      BY <2>1, <2>3, <2>4, <2>5, <3>1, <3>2, <3>3, <3>4 DEF ELogInv, ELogType, Names, OnlyMoves, Holding, Users
  <2>7. \A r \in Admins : Built(r)'
    BY <2>1, <2>3, <2>4, BuildersStay
  <2>8. Counted'
    <3> DEFINE x == <<"held", t>>
    <3>1. \A b : x \notin Owners(b)
      BY <2>1, <2>3, HeldOwns DEF Holding
    <3>2. \A b : x \in Owners(b)' <=> b = a
      BY <2>3, <2>4, HeldOwnsNext DEF Holding
    <3>3. \A b, y : y # x => (y \in Owners(b)' <=> y \in Owners(b))
      BY <2>3, <2>4, OthersOwn
    <3> HIDE DEF x
    <3>4. Owners(a)' = Owners(a) \cup {x}
      <4>1. \A y : y \in Owners(a)' <=> y \in Owners(a) \cup {x}
        BY <3>2, <3>3
      <4> QED
        BY <4>1
    <3>5. \A b \in DOMAIN app : b # a => Owners(b)' = Owners(b)
      <4> SUFFICES ASSUME NEW b \in DOMAIN app, b # a PROVE Owners(b)' = Owners(b)
        OBVIOUS
      <4>1. x \notin Owners(b) /\ x \notin Owners(b)'
        BY <3>1, <3>2
      <4>2. \A y : y # x => (y \in Owners(b)' <=> y \in Owners(b))
        BY <3>3
      <4> QED
        BY <4>1, <4>2
    <3>6. IsFiniteSet(Owners(a)) /\ app[a].ref = Cardinality(Owners(a)) /\ ~app[a].deleted
      BY <2>1, <2>2 DEF ELogInv, Counted, Live
    <3>7. IsFiniteSet(Owners(a)') /\ Cardinality(Owners(a)') = Cardinality(Owners(a)) + 1
      BY <3>1, <3>4, <3>6, FS_AddElement
    <3>8. \A b \in DOMAIN app : /\ IsFiniteSet(Owners(b)')
                                /\ app'[b].ref = Cardinality(Owners(b)')
                                /\ Owners(b)' # {} => ~app'[b].deleted
      <4> SUFFICES ASSUME NEW b \in DOMAIN app
                   PROVE  /\ IsFiniteSet(Owners(b)')
                          /\ app'[b].ref = Cardinality(Owners(b)')
                          /\ Owners(b)' # {} => ~app'[b].deleted
        OBVIOUS
      <4>1. CASE b = a
        BY <2>5, <3>6, <3>7, <4>1
      <4>2. CASE b # a
        BY <2>5, <3>5, <4>2 DEF ELogInv, Counted
      <4> QED
        BY <4>1, <4>2
    <3> QED
      BY <2>5, <3>8 DEF Counted
  <2>9. InForce'
    BY <2>1, <2>2, <2>5 DEF ELogInv, InForce, Live
  <2> QED
    BY <2>6, <2>7, <2>8, <2>9 DEF ELogInv
<1> QED
  BY <1>1, <1>2

\* One appender is changed, and stays an appender.
LEMMA AppEdited ==
  ASSUME ELogInv, NEW a \in DOMAIN app, NEW v, app' = [app EXCEPT ![a] = v],
         DOMAIN v = AppFields, v.ref \in Int, v.deleted \in BOOLEAN
  PROVE  /\ app' \in Seq(Range(app')) /\ DOMAIN app' = DOMAIN app
         /\ app'[a] = v /\ \A b \in DOMAIN app : b # a => app'[b] = app[b]
         /\ \A b \in DOMAIN app' : /\ DOMAIN app'[b] = AppFields
                                   /\ app'[b].ref \in Int /\ app'[b].deleted \in BOOLEAN
<1>1. DOMAIN app = 1..Len(app) /\ Len(app) \in Nat
  BY LenProperties DEF ELogInv, ELogType
<1>2. DOMAIN app' = DOMAIN app /\ app' = [i \in DOMAIN app' |-> app'[i]]
  OBVIOUS
<1>3. app' \in Seq(Range(app'))
  BY <1>1, <1>2, FunctionIsSeq
<1>4. app'[a] = v /\ \A b \in DOMAIN app : b # a => app'[b] = app[b]
  OBVIOUS
<1> QED
  BY <1>2, <1>3, <1>4 DEF ELogInv, ELogType

-----------------------------------------------------------------------------
(* give()                                                                  *)

LEMMA GiveDecKeeps ==
  ASSUME ELogInv, NEW t \in Users, GiveDec(t) PROVE ELogInv'
<1>1. PICK a \in {held[t].app} : TRUE
  OBVIOUS
<1> DEFINE v == [app[a] EXCEPT !.ref = @ - 1]
<1>2. /\ stage[t] = "give" /\ app' = [app EXCEPT ![a] = v] /\ stage' = [stage EXCEPT ![t] = "reread"]
      /\ UNCHANGED <<appends, logs, dflt, lock, conf, held, local>>
  BY <1>1 DEF GiveDec, Goto
<1>3. /\ a \in DOMAIN app /\ held[t].app = a /\ DOMAIN stage = Users
      /\ DOMAIN app[a] = AppFields /\ app[a].ref \in Int /\ app[a].deleted \in BOOLEAN
  BY <1>1, <1>2 DEF ELogInv, ELogType, Holding
<1>4. DOMAIN v = AppFields /\ v.ref = app[a].ref - 1 /\ v.deleted = app[a].deleted
  BY <1>3 DEF AppFields, NewAppender
<1>5. OnlyMoves(t) /\ stage'[t] = "reread" /\ held' = held
  BY <1>2, <1>3 DEF OnlyMoves
<1> HIDE DEF v
<1>6. /\ app' \in Seq(Range(app')) /\ DOMAIN app' = DOMAIN app
      /\ app'[a] = v /\ \A b \in DOMAIN app : b # a => app'[b] = app[b]
      /\ \A b \in DOMAIN app' : /\ DOMAIN app'[b] = AppFields
                                /\ app'[b].ref \in Int /\ app'[b].deleted \in BOOLEAN
  <2>1. v.ref \in Int /\ v.deleted \in BOOLEAN
    BY <1>3, <1>4
  <2> QED
    BY <1>2, <1>3, <1>4, <2>1, AppEdited
<1>7. ELogType'
  <2>1. DOMAIN stage' = Users
    BY <1>2, <1>3
  <2>2. \A u \in Users : stage'[u] \in Holding \cup {"reread"} => held'[u].app \in DOMAIN app'
    BY <1>3, <1>5, <1>6 DEF OnlyMoves, ELogInv, ELogType
  <2>3. \A u \in Threads : stage'[u] \in {"idle", "reread"} \cup Holding
    BY <1>5 DEF OnlyMoves, ELogInv, ELogType, Users
  <2>4. \A u \in Admins : stage'[u] \in {"idle", "free", "give", "reread"} \cup Loads
    BY <1>5 DEF OnlyMoves, ELogInv, ELogType, Users
  <2> QED
    BY <1>2, <1>6, <2>1, <2>2, <2>3, <2>4 DEF ELogInv, ELogType, Names
<1>8. \A r \in Admins : Built(r)'
  BY <1>2, <1>5, BuildersStay DEF Loads
<1>9. Counted'
  <2> DEFINE x == <<"held", t>>
  <2>1. \A b : x \in Owners(b) <=> b = a
    BY <1>2, <1>3, HeldOwns DEF Holding
  <2>2. \A b : x \notin Owners(b)'
    BY <1>5, HeldOwnsNext DEF Holding
  <2>3. \A b, y : y # x => (y \in Owners(b)' <=> y \in Owners(b))
    BY <1>5, OthersOwn
  <2> HIDE DEF x
  <2>4. Owners(a)' = Owners(a) \ {x}
    BY <2>2, <2>3
  <2>5. IsFiniteSet(Owners(a)) /\ app[a].ref = Cardinality(Owners(a)) /\ ~app[a].deleted
    BY <1>3, <2>1 DEF ELogInv, Counted
  <2>6. IsFiniteSet(Owners(a)') /\ Cardinality(Owners(a)') = Cardinality(Owners(a)) - 1
    BY <2>1, <2>4, <2>5, FS_RemoveElement
  <2>7. \A b \in DOMAIN app : /\ IsFiniteSet(Owners(b)')
                              /\ app'[b].ref = Cardinality(Owners(b)')
                              /\ Owners(b)' # {} => ~app'[b].deleted
    <3> SUFFICES ASSUME NEW b \in DOMAIN app
                 PROVE  /\ IsFiniteSet(Owners(b)')
                        /\ app'[b].ref = Cardinality(Owners(b)')
                        /\ Owners(b)' # {} => ~app'[b].deleted
      OBVIOUS
    <3>1. CASE b = a
      BY <1>4, <1>6, <2>5, <2>6, <3>1
    <3>2. CASE b # a
      <4>1. x \notin Owners(b) /\ x \notin Owners(b)'
        BY <2>1, <2>2, <3>2
      <4>2. \A y : y # x => (y \in Owners(b)' <=> y \in Owners(b))
        BY <2>3
      <4>3. Owners(b)' = Owners(b)
        BY <4>1, <4>2
      <4> QED
        BY <1>6, <3>2, <4>3 DEF ELogInv, Counted
    <3> QED
      BY <3>1, <3>2
  <2> QED
    BY <1>6, <2>7 DEF Counted
<1>10. InForce'
  BY <1>2, <1>3, <1>4, <1>6 DEF ELogInv, InForce, Live
<1> QED
  BY <1>7, <1>8, <1>9, <1>10 DEF ELogInv

LEMMA GiveTestKeeps ==
  ASSUME ELogInv, NEW t \in Users, GiveTest(t) PROVE ELogInv'
<1>1. CASE UNCHANGED <<app, appends, logs, dflt, lock, now, conf, edits, stage, held, local>>
  BY <1>1, QuietKeeps DEF ELogInv, ELogType
<1>2. CASE ~UNCHANGED <<app, appends, logs, dflt, lock, now, conf, edits, stage, held, local>>
  <2> DEFINE V(b) == [app[b] EXCEPT !.deleted = ToDelete(app[b].ref)]
  <2>1. PICK a \in {held[t].app}, to \in {IF t \in Threads THEN "idle" ELSE "free"} :
          /\ stage[t] = "reread" /\ Live(a) /\ app' = [app EXCEPT ![a] = V(a)]
          /\ stage' = [stage EXCEPT ![t] = to] /\ held' = [held EXCEPT ![t] = NoHeld]
          /\ UNCHANGED <<appends, logs, dflt, lock, conf, local>>
    BY <1>2 DEF GiveTest, Goto, Crash
  <2>2. /\ a \in DOMAIN app /\ DOMAIN stage = Users /\ DOMAIN held = Users
        /\ DOMAIN app[a] = AppFields /\ app[a].ref \in Int /\ ~app[a].deleted
    BY <2>1 DEF ELogInv, ELogType, Live
  <2>3. DOMAIN V(a) = AppFields /\ V(a).ref = app[a].ref /\ V(a).deleted = (app[a].ref < 1)
    BY <2>2 DEF AppFields, NewAppender, ToDelete
  <2> HIDE DEF V
  <2>4. to \in {"idle", "free"} /\ (t \in Admins => to = "free") /\ (t \in Threads => to = "idle")
    BY <2>1, ELogAssumption
  <2>5. OnlyMoves(t) /\ stage'[t] = to
    BY <2>1, <2>2 DEF OnlyMoves
  <2>6. /\ app' \in Seq(Range(app')) /\ DOMAIN app' = DOMAIN app
        /\ app'[a] = V(a) /\ \A b \in DOMAIN app : b # a => app'[b] = app[b]
        /\ \A b \in DOMAIN app' : /\ DOMAIN app'[b] = AppFields
                                  /\ app'[b].ref \in Int /\ app'[b].deleted \in BOOLEAN
    <3>1. V(a).ref \in Int /\ V(a).deleted \in BOOLEAN
      BY <2>2, <2>3
    <3> QED
      BY <2>1, <2>2, <2>3, <3>1, AppEdited
  <2>7. ELogType'
    <3>1. DOMAIN stage' = Users /\ DOMAIN held' = Users
      BY <2>1, <2>2
    <3>2. \A u \in Users : stage'[u] \in Holding \cup {"reread"} => held'[u].app \in DOMAIN app'
      BY <2>4, <2>5, <2>6 DEF OnlyMoves, ELogInv, ELogType, Holding
    <3>3. \A u \in Threads : stage'[u] \in {"idle", "reread"} \cup Holding
      BY <2>4, <2>5 DEF OnlyMoves, ELogInv, ELogType, Users
    <3>4. \A u \in Admins : stage'[u] \in {"idle", "free", "give", "reread"} \cup Loads
      BY <2>4, <2>5 DEF OnlyMoves, ELogInv, ELogType, Users
    <3> QED
      BY <2>1, <2>6, <3>1, <3>2, <3>3, <3>4 DEF ELogInv, ELogType, Names
  <2>8. \A r \in Admins : Built(r)'
    BY <2>1, <2>4, <2>5, BuildersStay DEF Loads
  <2>9. Counted'
    <3>1. SameOwners
      BY <2>1, <2>4, <2>5 DEF SameOwners, OnlyMoves, Holding
    <3>2. \A b \in DOMAIN app : Owners(b)' = Owners(b)
      BY <3>1, OwnersStay
    <3>3. \A b \in DOMAIN app : /\ IsFiniteSet(Owners(b)')
                                /\ app'[b].ref = Cardinality(Owners(b)')
                                /\ Owners(b)' # {} => ~app'[b].deleted
      <4> SUFFICES ASSUME NEW b \in DOMAIN app
                   PROVE  /\ IsFiniteSet(Owners(b)')
                          /\ app'[b].ref = Cardinality(Owners(b)')
                          /\ Owners(b)' # {} => ~app'[b].deleted
        OBVIOUS
      <4>1. /\ Owners(b)' = Owners(b) /\ IsFiniteSet(Owners(b))
            /\ app[b].ref = Cardinality(Owners(b)) /\ app'[b].ref = app[b].ref
        BY <2>3, <2>6, <3>2 DEF ELogInv, Counted
      <4>2. Owners(b) # {} => app[b].ref >= 1
        BY <4>1, FS_EmptySet, FS_CardinalityType
      <4>3. Owners(b) # {} => ~app'[b].deleted
        <5>1. CASE b = a
          BY <2>3, <2>6, <4>2, <2>2, <5>1
        <5>2. CASE b # a
          BY <2>6, <5>2 DEF ELogInv, Counted
        <5> QED
          BY <5>1, <5>2
      <4> QED
        BY <4>1, <4>3
    <3> QED
      BY <2>6, <3>3 DEF Counted
  <2>10. InForce'
    BY <2>1, <2>2, <2>6 DEF ELogInv, InForce, Live
  <2> QED
    BY <2>7, <2>8, <2>9, <2>10 DEF ELogInv
<1> QED
  BY <1>1, <1>2

\* A table that is built or given back owns what it names.
LEMMA LocalOwns ==
  ASSUME NEW q \in Admins, NEW m, NEW a
  PROVE  <<q, m>> \in Owners(a) <=> m \in DOMAIN local[q].apps /\ local[q].apps[m] = a
<1>1. q # "held" /\ q # "table"
  BY ELogAssumption
<1> QED
  BY <1>1, OwnersAre DEF Owns

LEMMA LocalOwnsNext ==
  ASSUME NEW q \in Admins, NEW m, NEW a
  PROVE  <<q, m>> \in Owners(a)' <=> m \in DOMAIN local'[q].apps /\ local'[q].apps[m] = a
<1>1. q # "held" /\ q # "table"
  BY ELogAssumption
<1> QED
  BY <1>1, OwnersAreNext DEF Owns

LEMMA FreeOneKeeps ==
  ASSUME ELogInv, NEW r \in Admins, NEW n \in DOMAIN local[r].apps, FreeOne(r, n) PROVE ELogInv'
<1>1. CASE UNCHANGED <<app, appends, logs, dflt, lock, now, conf, edits, stage, held, local>>
  BY <1>1, QuietKeeps DEF ELogInv, ELogType
<1>2. CASE ~UNCHANGED <<app, appends, logs, dflt, lock, now, conf, edits, stage, held, local>>
  <2> DEFINE rest == Restrict(local[r].apps, DOMAIN local[r].apps \ {n})
  <2>1. PICK a \in {local[r].apps[n]} :
          /\ stage[r] = "free" /\ a # NULL
          /\ held' = [held EXCEPT ![r] = [app |-> a, taken |-> 0]]
          /\ local' = [local EXCEPT ![r].apps = rest]
          /\ stage' = [stage EXCEPT ![r] = "give"]
          /\ UNCHANGED <<app, appends, logs, dflt, lock, conf>>
    BY <1>2 DEF FreeOne, Goto, Crash
  <2>2. /\ a \in DOMAIN app /\ DOMAIN stage = Users /\ DOMAIN held = Users /\ DOMAIN local = Admins
        /\ DOMAIN local[r] = DOMAIN NoTables /\ r \in Users /\ r \notin Threads
    BY <2>1, ELogAssumption DEF ELogInv, ELogType, Names, Users
  <2>3. /\ local'[r].apps = rest /\ DOMAIN local'[r] = DOMAIN NoTables
        /\ \A q \in Admins : q # r => local'[q] = local[q]
    BY <2>1, <2>2 DEF NoTables
  <2>4. DOMAIN rest = DOMAIN local[r].apps \ {n} /\ \A m \in DOMAIN rest : rest[m] = local[r].apps[m]
    BY DEF Restrict
  <2>5. /\ stage'[r] = "give" /\ held'[r].app = a
        /\ \A u \in Users : u # r => stage'[u] = stage[u] /\ held'[u] = held[u]
    BY <2>1, <2>2
  <2> HIDE DEF rest
  <2>6. ELogType'
    <3>1. DOMAIN stage' = Users /\ DOMAIN held' = Users /\ DOMAIN local' = Admins
      BY <2>1, <2>2
    <3>2. \A u \in Users : stage'[u] \in Holding \cup {"reread"} => held'[u].app \in DOMAIN app'
      BY <2>1, <2>2, <2>5 DEF ELogInv, ELogType
    <3>3. \A u \in Threads : stage'[u] \in {"idle", "reread"} \cup Holding
      BY <2>2, <2>5 DEF ELogInv, ELogType, Users
    <3>4. \A u \in Admins : stage'[u] \in {"idle", "free", "give", "reread"} \cup Loads
      BY <2>5 DEF ELogInv, ELogType, Users
    <3>5. \A q \in Admins : \A m \in DOMAIN local'[q].apps : local'[q].apps[m] \in DOMAIN app' \cup {NULL}
      BY <2>1, <2>3, <2>4 DEF ELogInv, ELogType, Names
    <3>6. \A q \in Admins : DOMAIN local'[q] = DOMAIN NoTables
      BY <2>3 DEF ELogInv, ELogType
    <3> QED
      BY <2>1, <3>1, <3>2, <3>3, <3>4, <3>5, <3>6 DEF ELogInv, ELogType, Names
  <2>7. \A q \in Admins : Built(q)'
    <3> SUFFICES ASSUME NEW q \in Admins PROVE Built(q)'
      OBVIOUS
    <3>1. CASE q = r
      BY <2>5, <3>1 DEF Built, Loads
    <3>2. CASE q # r
      <4>1. stage'[q] = stage[q] /\ local'[q] = local[q]
        BY <2>3, <2>5, <3>2 DEF Users
      <4> QED
        BY <2>1, <4>1, BuiltStays DEF ELogInv
    <3> QED
      BY <3>1, <3>2
  <2>8. Counted'
    <3> DEFINE x == <<"held", r>>  y == <<r, n>>
    <3>1. \A b : x \notin Owners(b) /\ (x \in Owners(b)' <=> b = a)
      BY <2>1, <2>2, <2>5, HeldOwns, HeldOwnsNext DEF Holding
    <3>2. \A b : (y \in Owners(b) <=> b = a) /\ y \notin Owners(b)'
      BY <2>1, <2>3, <2>4, LocalOwns, LocalOwnsNext
    <3>3. \A b, z : z # x /\ z # y => (z \in Owners(b)' <=> z \in Owners(b))
      <4> SUFFICES ASSUME NEW b, NEW z, z # x, z # y PROVE Owns(z, b)' <=> Owns(z, b)
        BY OwnersAre, OwnersAreNext
      <4>1. (\E u \in Users : stage'[u] \in Holding /\ held'[u].app = b /\ z = <<"held", u>>)
              <=> \E u \in Users : stage[u] \in Holding /\ held[u].app = b /\ z = <<"held", u>>
        BY <2>5
      <4>2. \A q \in Admins : (\E m \in DOMAIN local'[q].apps : local'[q].apps[m] = b /\ z = <<q, m>>)
              <=> \E m \in DOMAIN local[q].apps : local[q].apps[m] = b /\ z = <<q, m>>
        BY <2>3, <2>4
      <4> QED
        BY <2>1, <4>1, <4>2 DEF Owns
    <3>4. x # y
      BY ELogAssumption
    <3> HIDE DEF x, y
    <3>5. Owners(a)' = (Owners(a) \ {y}) \cup {x}
      <4>1. \A z : z \in Owners(a)' <=> z = x \/ (z # y /\ z \in Owners(a))
        BY <3>1, <3>2, <3>3
      <4> QED
        BY <4>1
    <3>6. IsFiniteSet(Owners(a)) /\ app[a].ref = Cardinality(Owners(a)) /\ ~app[a].deleted
      BY <2>2, <3>2 DEF ELogInv, Counted
    <3>7. /\ IsFiniteSet(Owners(a) \ {y})
          /\ Cardinality(Owners(a) \ {y}) = Cardinality(Owners(a)) - 1
      BY <3>2, <3>6, FS_RemoveElement
    <3>8. IsFiniteSet(Owners(a)') /\ Cardinality(Owners(a)') = Cardinality(Owners(a))
      <4>1. x \notin Owners(a) \ {y}
        BY <3>1
      <4>2. /\ IsFiniteSet((Owners(a) \ {y}) \cup {x})
            /\ Cardinality((Owners(a) \ {y}) \cup {x}) = Cardinality(Owners(a) \ {y}) + 1
        BY <3>7, <4>1, FS_AddElement
      <4>3. Cardinality(Owners(a)) \in Int
        BY <3>6, FS_CardinalityType
      <4> QED
        BY <3>5, <3>7, <4>2, <4>3
    <3>9. \A b \in DOMAIN app : /\ IsFiniteSet(Owners(b)')
                                /\ app'[b].ref = Cardinality(Owners(b)')
                                /\ Owners(b)' # {} => ~app'[b].deleted
      <4> SUFFICES ASSUME NEW b \in DOMAIN app
                   PROVE  /\ IsFiniteSet(Owners(b)')
                          /\ app'[b].ref = Cardinality(Owners(b)')
                          /\ Owners(b)' # {} => ~app'[b].deleted
        OBVIOUS
      <4>1. CASE b = a
        BY <2>1, <3>6, <3>8, <4>1
      <4>2. CASE b # a
        <5>1. x \notin Owners(b) /\ x \notin Owners(b)' /\ y \notin Owners(b) /\ y \notin Owners(b)'
          BY <3>1, <3>2, <4>2
        <5>2. \A z : z # x /\ z # y => (z \in Owners(b)' <=> z \in Owners(b))
          BY <3>3
        <5>3. Owners(b)' = Owners(b)
          BY <5>1, <5>2
        <5> QED
          BY <2>1, <5>3 DEF ELogInv, Counted
      <4> QED
        BY <4>1, <4>2
    <3> QED
      BY <2>1, <3>9 DEF Counted
  <2>9. InForce'
    BY <2>1 DEF ELogInv, InForce, Live
  <2> QED
    BY <2>6, <2>7, <2>8, <2>9 DEF ELogInv
<1> QED
  BY <1>1, <1>2

\* r, which holds no reference of its own, goes to another step of a load.
Turns(r, to) ==
    /\ stage[r] \in {"idle", "free"} \cup Loads /\ to \in {"idle", "free"} \cup Loads
    /\ stage' = [stage EXCEPT ![r] = to] /\ held' = held /\ conf' = conf
    /\ DOMAIN local' = Admins /\ DOMAIN local'[r] = DOMAIN NoTables
    /\ \A q \in Admins : q # r => local'[q] = local[q]

LEMMA TurnMoves ==
  ASSUME ELogInv, NEW r \in Admins, NEW to, Turns(r, to)
  PROVE  /\ stage'[r] = to /\ \A u \in Users : u # r => stage'[u] = stage[u]
         /\ \A u \in Users : stage'[u] \in Holding <=> stage[u] \in Holding
         /\ \A q \in Admins : q # r => stage'[q] = stage[q] /\ local'[q] = local[q]
<1>1. stage'[r] = to /\ \A u \in Users : u # r => stage'[u] = stage[u]
  BY DEF Turns, ELogInv, ELogType, Users
<1>2. stage[r] \notin Holding /\ to \notin Holding
  BY DEF Turns, Loads, Holding
<1> QED
  BY <1>1, <1>2 DEF Turns, Users

LEMMA TurnTypes ==
  ASSUME ELogInv, NEW r \in Admins, NEW to, Turns(r, to),
         app' \in Seq(Range(app')), DOMAIN app \subseteq DOMAIN app',
         \A a \in DOMAIN app' : DOMAIN app'[a] = AppFields /\ app'[a].ref \in Int /\ app'[a].deleted \in BOOLEAN,
         \A n \in DOMAIN appends' : appends'[n] \in DOMAIN app' \cup {NULL},
         \A n \in DOMAIN local'[r].apps : local'[r].apps[n] \in DOMAIN app' \cup {NULL},
         dflt'.app \in DOMAIN app' \cup {NULL}
  PROVE  ELogType'
<1>1. /\ stage'[r] = to /\ \A u \in Users : u # r => stage'[u] = stage[u]
      /\ \A q \in Admins : q # r => local'[q] = local[q]
  BY TurnMoves
<1>2. r \notin Threads /\ to \in {"idle", "free"} \cup Loads
  BY ELogAssumption DEF Turns
<1>3. DOMAIN stage' = Users /\ DOMAIN held' = Users
  BY DEF Turns, ELogInv, ELogType
<1>4. \A u \in Threads : stage'[u] \in {"idle", "reread"} \cup Holding
  BY <1>1, <1>2 DEF ELogInv, ELogType, Users
<1>5. \A u \in Admins : stage'[u] \in {"idle", "free", "give", "reread"} \cup Loads
  BY <1>1, <1>2 DEF ELogInv, ELogType, Users
<1>6. \A u \in Users : stage'[u] \in Holding \cup {"reread"} => held'[u].app \in DOMAIN app'
  BY <1>1, <1>2 DEF ELogInv, ELogType, Holding, Loads, Turns
<1>7. \A q \in Admins : DOMAIN local'[q] = DOMAIN NoTables
  BY <1>1 DEF ELogInv, ELogType, Turns
<1>8. \A q \in Admins : \A n \in DOMAIN local'[q].apps : local'[q].apps[n] \in DOMAIN app' \cup {NULL}
  BY <1>1 DEF ELogInv, ELogType, Names
<1>9. DOMAIN local' = Admins /\ conf' \in Files
  BY DEF ELogInv, ELogType, Turns
<1> QED
  BY <1>3, <1>4, <1>5, <1>6, <1>7, <1>8, <1>9 DEF ELogType, Names

\* The same when no appender is created.
LEMMA TurnTypesSame ==
  ASSUME ELogInv, NEW r \in Admins, NEW to, Turns(r, to), app' = app,
         \A n \in DOMAIN appends' : appends'[n] \in DOMAIN app \cup {NULL},
         \A n \in DOMAIN local'[r].apps : local'[r].apps[n] \in DOMAIN app \cup {NULL},
         dflt'.app \in DOMAIN app \cup {NULL}
  PROVE  ELogType'
<1>1. /\ app' \in Seq(Range(app')) /\ DOMAIN app \subseteq DOMAIN app'
      /\ \A a \in DOMAIN app' : DOMAIN app'[a] = AppFields /\ app'[a].ref \in Int /\ app'[a].deleted \in BOOLEAN
  BY DEF ELogInv, ELogType
<1> QED
  BY <1>1, TurnTypes

\* An init has m_cs, and the tables in force to itself.
LEMMA TurnBuilt ==
  ASSUME ELogInv, NEW r \in Admins, NEW to, Turns(r, to), Built(r)',
         \A q \in Admins : q # r /\ lock = q => lock' = lock /\ dflt' = dflt /\ appends' = appends
  PROVE  \A q \in Admins : Built(q)'
<1> SUFFICES ASSUME NEW q \in Admins, q # r PROVE Built(q)'
  OBVIOUS
<1>1. stage'[q] = stage[q] /\ local'[q] = local[q]
  BY TurnMoves
<1>2. stage[q] \in Loads /\ local[q].init => lock = q
  BY DEF ELogInv, Built
<1> QED
  BY <1>1, <1>2, BuiltStays DEF ELogInv

LEMMA FreeDoneKeeps ==
  ASSUME ELogInv, NEW r \in Admins, FreeDone(r) PROVE ELogInv'
<1>1. DOMAIN local[r].apps = {} /\ DOMAIN NoTables.apps = {}
  BY DEF FreeDone, Empty, NoTables
<1>2. /\ stage[r] = "free" /\ local' = [local EXCEPT ![r] = NoTables] /\ lock' = IF lock = r THEN NULL ELSE lock
      /\ stage' = [stage EXCEPT ![r] = "idle"] /\ UNCHANGED <<app, appends, logs, dflt, conf, held>>
  BY DEF FreeDone, Goto
<1>3. /\ DOMAIN local' = Admins /\ local'[r] = NoTables
      /\ \A q \in Admins : q # r => local'[q] = local[q]
  BY <1>2 DEF ELogInv, ELogType
<1>4. Turns(r, "idle")
  BY <1>2, <1>3 DEF Turns
<1>5. ELogType'
  BY <1>1, <1>2, <1>3, <1>4, TurnTypesSame DEF ELogInv, ELogType, Names
<1>6. stage'[r] = "idle" /\ \A u \in Users : stage'[u] \in Holding <=> stage[u] \in Holding
  BY <1>4, TurnMoves
<1>7. Built(r)'
  BY <1>1, <1>3, <1>6 DEF Built, Loads
<1>8. \A q \in Admins : Built(q)'
  BY <1>2, <1>4, <1>7, TurnBuilt
<1>9. SameOwners
  BY <1>1, <1>2, <1>3, <1>6 DEF SameOwners
<1>10. Counted'
  BY <1>2, <1>9, CountsStay
<1>11. InForce'
  BY <1>2 DEF ELogInv, InForce, Live
<1> QED
  BY <1>5, <1>8, <1>10, <1>11 DEF ELogInv

-----------------------------------------------------------------------------
(* The begin of an init or reload, and the swaps                           *)

LEMMA BeginKeeps ==
  ASSUME ELogInv, NEW r \in Admins, NEW init \in BOOLEAN, Begin(r, init) PROVE ELogInv'
<1> DEFINE L == [NoTables EXCEPT !.init = init]
<1>1. /\ stage[r] = "idle" /\ local' = [local EXCEPT ![r] = L] /\ lock' = (IF init THEN r ELSE lock)
      /\ init => lock = NULL /\ app = <<>>
      /\ stage' = [stage EXCEPT ![r] = "appenders"] /\ UNCHANGED <<app, appends, logs, dflt, conf, held>>
  BY DEF Begin, Goto
<1>2. /\ DOMAIN L = DOMAIN NoTables /\ DOMAIN L.apps = {} /\ DOMAIN L.logs = {} /\ L.dflt = NULL
      /\ L.init = init
  BY DEF NoTables, Empty
<1> HIDE DEF L
<1>3. /\ DOMAIN local' = Admins /\ local'[r] = L
      /\ \A q \in Admins : q # r => local'[q] = local[q]
  BY <1>1 DEF ELogInv, ELogType
<1>4. Turns(r, "appenders")
  BY <1>1, <1>2, <1>3 DEF Turns, Loads
<1>5. ELogType'
  BY <1>1, <1>2, <1>3, <1>4, TurnTypesSame DEF ELogInv, ELogType, Names
<1>6. stage'[r] = "appenders" /\ \A u \in Users : stage'[u] \in Holding <=> stage[u] \in Holding
  BY <1>4, TurnMoves
<1>7. Built(r)'
  <2>1. init => dflt.app = NULL /\ \A n \in DOMAIN appends : appends[n] = NULL
    BY <1>1 DEF ELogInv, ELogType, Names
  <2> QED
    BY <1>1, <1>2, <1>3, <1>6, <2>1 DEF Built
<1>8. \A q \in Admins : Built(q)'
  <2>1. \A q \in Admins : q # r /\ lock = q => lock' = lock
    BY <1>1, ELogAssumption
  <2> QED
    BY <1>1, <1>4, <1>7, <2>1, TurnBuilt
<1>9. SameOwners
  <2>1. DOMAIN local[r].apps = {}
    BY <1>1 DEF ELogInv, Built
  <2> QED
    BY <1>1, <1>2, <1>3, <1>6, <2>1 DEF SameOwners
<1>10. Counted'
  BY <1>1, <1>9, CountsStay
<1>11. InForce'
  BY <1>1 DEF ELogInv, InForce, Live
<1> QED
  BY <1>5, <1>8, <1>10, <1>11 DEF ELogInv

\* r's tables become those in force, and those in force become r's.
Swaps(r) ==
    /\ \A a \in DOMAIN app : \A n : /\ n \in DOMAIN appends' /\ appends'[n] = a
                                         <=> n \in DOMAIN local[r].apps /\ local[r].apps[n] = a
                                    /\ n \in DOMAIN local'[r].apps /\ local'[r].apps[n] = a
                                         <=> n \in DOMAIN appends /\ appends[n] = a

LEMMA SwapCounts ==
  ASSUME ELogInv, NEW r \in Admins, NEW to, Turns(r, to), Swaps(r), app' = app PROVE Counted'
<1> SUFFICES ASSUME NEW a \in DOMAIN app
             PROVE  IsFiniteSet(Owners(a)') /\ Cardinality(Owners(a)') = Cardinality(Owners(a))
                    /\ (Owners(a)' # {} => Owners(a) # {})
  BY DEF ELogInv, Counted
<1> DEFINE There(x) == CASE x[1] = "table" -> <<r, x[2]>>
                         [] x[1] = r -> <<"table", x[2]>>
                         [] OTHER -> x
<1>1. r # "table" /\ r # "held" /\ "table" \notin Admins
  BY ELogAssumption
<1>2. \A x : Owns(x, a) => \E u, v : x = <<u, v>>
  BY DEF Owns
<1>3. \A x : (\E u, v : x = <<u, v>>) => There(There(x)) = x /\ \E u, v : There(x) = <<u, v>>
  BY <1>1
<1>4. \A n : There(<<"table", n>>) = <<r, n>> /\ There(<<r, n>>) = <<"table", n>>
  BY <1>1
<1>5. \A u, v : u # r /\ u # "table" => There(<<u, v>>) = <<u, v>>
  OBVIOUS
<1> HIDE DEF There
<1>6. \A u \in Users : stage'[u] \in Holding /\ held'[u].app = a <=> stage[u] \in Holding /\ held[u].app = a
  BY TurnMoves DEF Turns
<1>7. \A x : Owns(x, a) => Owns(There(x), a)'
  <2> SUFFICES ASSUME NEW x, Owns(x, a) PROVE Owns(There(x), a)'
    OBVIOUS
  <2>1. ASSUME NEW n \in DOMAIN appends, appends[n] = a, x = <<"table", n>> PROVE Owns(There(x), a)'
    BY <1>4, <2>1 DEF Owns, Swaps
  <2>2. ASSUME NEW n \in DOMAIN local[r].apps, local[r].apps[n] = a, x = <<r, n>> PROVE Owns(There(x), a)'
    BY <1>4, <2>2 DEF Owns, Swaps
  <2>3. ASSUME NEW q \in Admins, q # r, NEW n \in DOMAIN local[q].apps, local[q].apps[n] = a, x = <<q, n>>
        PROVE  Owns(There(x), a)'
    <3>1. There(x) = x
      BY <1>1, <1>5, <2>3
    <3> QED
      BY <2>3, <3>1, TurnMoves DEF Owns
  <2>4. ASSUME NEW u \in Users, stage[u] \in Holding, held[u].app = a, x = <<"held", u>> PROVE Owns(There(x), a)'
    <3>1. There(x) = x
      BY <1>1, <1>5, <2>4
    <3> QED
      BY <1>6, <2>4, <3>1 DEF Owns
  <2> QED
    BY <2>1, <2>2, <2>3, <2>4 DEF Owns
<1>8. \A x : Owns(x, a)' => Owns(There(x), a)
  <2> SUFFICES ASSUME NEW x, Owns(x, a)' PROVE Owns(There(x), a)
    OBVIOUS
  <2>1. ASSUME NEW n \in DOMAIN appends', appends'[n] = a, x = <<"table", n>> PROVE Owns(There(x), a)
    BY <1>4, <2>1 DEF Owns, Swaps
  <2>2. ASSUME NEW n \in DOMAIN local'[r].apps, local'[r].apps[n] = a, x = <<r, n>> PROVE Owns(There(x), a)
    BY <1>4, <2>2 DEF Owns, Swaps
  <2>3. ASSUME NEW q \in Admins, q # r, NEW n \in DOMAIN local'[q].apps, local'[q].apps[n] = a, x = <<q, n>>
        PROVE  Owns(There(x), a)
    <3>1. There(x) = x
      BY <1>1, <1>5, <2>3
    <3> QED
      BY <2>3, <3>1, TurnMoves DEF Owns
  <2>4. ASSUME NEW u \in Users, stage'[u] \in Holding, held'[u].app = a, x = <<"held", u>> PROVE Owns(There(x), a)
    <3>1. There(x) = x
      BY <1>1, <1>5, <2>4
    <3> QED
      BY <1>6, <2>4, <3>1 DEF Owns
  <2> QED
    BY <2>1, <2>2, <2>3, <2>4 DEF Owns
<1>9. \A x : Owns(x, a)' => \E u, v : x = <<u, v>>
  BY DEF Owns
<1>10. PICK S \in {Owners(a)}, T \in {Owners(a)'} :
         /\ \A x \in S : There(x) \in T /\ There(There(x)) = x
         /\ \A y \in T : There(y) \in S /\ There(There(y)) = y
  <2>1. \A x \in Owners(a) : There(x) \in Owners(a)' /\ There(There(x)) = x
    BY <1>2, <1>3, <1>7, OwnersAre, OwnersAreNext
  <2>2. \A y \in Owners(a)' : There(y) \in Owners(a) /\ There(There(y)) = y
    BY <1>3, <1>8, <1>9, OwnersAre, OwnersAreNext
  <2> QED
    BY <2>1, <2>2
<1> DEFINE f == [x \in S |-> There(x)]
<1>11. f \in Bijection(S, T)
  <2>1. f \in [S -> T] /\ \A x, y \in S : f[x] = f[y] => x = y
    BY <1>10
  <2>2. \A y \in T : \E x \in S : f[x] = y
    BY <1>10
  <2> QED
    BY <2>1, <2>2, Fun_IsBij
<1>12. IsFiniteSet(S) => IsFiniteSet(T) /\ Cardinality(T) = Cardinality(S)
  BY <1>11, FS_Bijection DEF ExistsBijection
<1> QED
  BY <1>10, <1>12 DEF ELogInv, Counted

LEMMA UninitKeeps ==
  ASSUME ELogInv, NEW r \in Admins, Uninit(r) PROVE ELogInv'
<1> DEFINE L == [NoTables EXCEPT !.apps = appends]
<1>1. /\ stage[r] = "idle" /\ lock = NULL /\ local' = [local EXCEPT ![r] = L] /\ appends' = Empty /\ logs' = Empty
      /\ stage' = [stage EXCEPT ![r] = "free"] /\ UNCHANGED <<app, dflt, conf, held>>
  BY DEF Uninit, Goto
<1>2. DOMAIN L = DOMAIN NoTables /\ L.apps = appends /\ DOMAIN Empty = {}
  BY DEF NoTables, Empty
<1> HIDE DEF L
<1>3. /\ DOMAIN local' = Admins /\ local'[r] = L
      /\ \A q \in Admins : q # r => local'[q] = local[q]
  BY <1>1 DEF ELogInv, ELogType
<1>4. Turns(r, "free")
  BY <1>1, <1>2, <1>3 DEF Turns
<1>5. ELogType'
  <2>1. \A n \in DOMAIN appends' : appends'[n] \in DOMAIN app \cup {NULL}
    BY <1>1, <1>2
  <2>2. \A n \in DOMAIN local'[r].apps : local'[r].apps[n] \in DOMAIN app \cup {NULL}
    BY <1>2, <1>3 DEF ELogInv, ELogType, Names
  <2> QED
    BY <1>1, <1>4, <2>1, <2>2, TurnTypesSame DEF ELogInv, ELogType
<1>6. stage'[r] = "free"
  BY <1>4, TurnMoves
<1>7. Built(r)'
  BY <1>6 DEF Built, Loads
<1>8. \A q \in Admins : Built(q)'
  BY <1>1, <1>4, <1>7, ELogAssumption, TurnBuilt
<1>9. Swaps(r)
  <2>1. DOMAIN local[r].apps = {}
    BY <1>1 DEF ELogInv, Built
  <2> QED
    BY <1>1, <1>2, <1>3, <2>1 DEF Swaps
<1>10. Counted'
  BY <1>1, <1>4, <1>9, SwapCounts
<1>11. InForce'
  BY <1>1, <1>2 DEF InForce
<1> QED
  BY <1>5, <1>8, <1>10, <1>11 DEF ELogInv

LEMMA InstallKeeps ==
  ASSUME ELogInv, NEW r \in Admins, Install(r) PROVE ELogInv'
<1>1. PICK t \in {local[r]} : TRUE
  OBVIOUS
<1> DEFINE L == [NoTables EXCEPT !.apps = IF t.init THEN Empty ELSE appends]
           to == IF t.init THEN "idle" ELSE "free"
<1>2. /\ stage[r] = "install" /\ t = local[r] /\ (t.init \/ lock = NULL)
      /\ appends' = t.apps /\ logs' = t.logs /\ dflt' = NewDefault(t)
      /\ local' = [local EXCEPT ![r] = L] /\ stage' = [stage EXCEPT ![r] = to]
      /\ UNCHANGED <<app, conf, held>>
  BY <1>1 DEF Install, Goto
<1>3. /\ DOMAIN L = DOMAIN NoTables /\ L.apps = (IF t.init THEN Empty ELSE appends) /\ DOMAIN Empty = {}
      /\ DOMAIN L.logs = {} /\ L.dflt = NULL
  BY DEF NoTables, Empty
<1>4. /\ \A n \in DOMAIN t.logs : t.logs[n].app \in Range(t.apps)
      /\ t.dflt # NULL => t.dflt.app \in Range(t.apps)
      /\ t.init => lock = r /\ dflt.app = NULL /\ \A n \in DOMAIN appends : appends[n] = NULL
      /\ \A n \in DOMAIN t.apps : t.apps[n] \in DOMAIN app \cup {NULL}
  BY <1>2 DEF ELogInv, ELogType, Names, Built, Loads
<1>5. /\ to \in {"idle", "free"} /\ (to = "idle" <=> t.init)
  OBVIOUS
<1> HIDE DEF L, to
<1>6. /\ DOMAIN local' = Admins /\ local'[r] = L
      /\ \A q \in Admins : q # r => local'[q] = local[q]
  BY <1>2 DEF ELogInv, ELogType
<1>7. PICK l \in {to} : l \in {"idle", "free"} /\ (l = "idle" <=> t.init) /\ stage' = [stage EXCEPT ![r] = l]
  BY <1>2, <1>5
<1>8. Turns(r, l)
  BY <1>2, <1>3, <1>6, <1>7 DEF Turns, Loads
<1>9. /\ dflt'.app \in Range(t.apps) \cup {NULL}
      /\ t.dflt = NULL => dflt'.app = NULL
  <2>1. CASE t.dflt # NULL
    BY <1>2, <1>4, <2>1 DEF NewDefault
  <2>2. CASE t.dflt = NULL /\ t.init
    BY <1>2, <1>4, <2>2 DEF NewDefault
  <2>3. CASE t.dflt = NULL /\ ~t.init
    BY <1>2, <2>3 DEF NewDefault
  <2> QED
    BY <2>1, <2>2, <2>3
<1>10. ELogType'
  <2>1. \A n \in DOMAIN appends' : appends'[n] \in DOMAIN app \cup {NULL}
    BY <1>2, <1>4
  <2>2. \A n \in DOMAIN local'[r].apps : local'[r].apps[n] \in DOMAIN app \cup {NULL}
    BY <1>3, <1>6 DEF ELogInv, ELogType, Names
  <2>3. dflt'.app \in DOMAIN app \cup {NULL}
    BY <1>4, <1>9 DEF Range
  <2> QED
    BY <1>2, <1>8, <2>1, <2>2, <2>3, TurnTypesSame
<1>11. stage'[r] = l
  BY <1>8, TurnMoves
<1>12. Built(r)'
  BY <1>3, <1>6, <1>7, <1>11 DEF Built, Loads
<1>13. \A q \in Admins : Built(q)'
  <2>1. \A q \in Admins : q # r => lock # q
    BY <1>2, <1>4, ELogAssumption
  <2> QED
    BY <1>8, <1>12, <2>1, TurnBuilt
<1>14. Swaps(r)
  <2>1. t.init => \A n \in DOMAIN appends : appends[n] \notin DOMAIN app
    <3>1. NULL \notin DOMAIN app
      BY ELogAssumption, LenProperties DEF ELogInv, ELogType
    <3> QED
      BY <1>4, <3>1
  <2> QED
    BY <1>2, <1>3, <1>6, <2>1 DEF Swaps
<1>15. Counted'
  BY <1>2, <1>8, <1>14, SwapCounts
<1>16. InForce'
  BY <1>2, <1>4, <1>9 DEF InForce
<1> QED
  BY <1>10, <1>13, <1>15, <1>16 DEF ELogInv

-----------------------------------------------------------------------------
(* Loading                                                                 *)

\* A nonempty set of positions has a first and a last one.
LEMMA FirstAndLast ==
  ASSUME NEW n \in Nat, NEW S, S \subseteq 1..n, S # {}
  PROVE  (\E i \in S : \A j \in S : i <= j) /\ (\E i \in S : \A j \in S : j <= i)
<1>1. \A T : T \subseteq Nat /\ T # {} => \E x \in T : \A y \in T : x <= y
  <2> SUFFICES ASSUME NEW T, T \subseteq Nat, T # {} PROVE \E x \in T : \A y \in T : x <= y
    OBVIOUS
  <2>1. PICK x \in T : \A y \in T : ~(<<y, x>> \in OpToRel(<, Nat))
    BY NatLessThanWellFounded, WFMin
  <2>2. \A y \in T : ~(y < x)
    BY <2>1 DEF OpToRel
  <2> QED
    BY <2>2
<1>2. \E i \in S : \A j \in S : i <= j
  <2>1. S \subseteq Nat
    OBVIOUS
  <2> QED
    BY <1>1, <2>1
<1>3. \E i \in S : \A j \in S : j <= i
  <2> DEFINE T == {n - i : i \in S}
  <2>1. T \subseteq Nat /\ T # {}
    <3>1. \A i \in S : n - i \in Nat
      OBVIOUS
    <3> QED
      BY <3>1
  <2>2. PICK x \in T : \A y \in T : x <= y
    BY <1>1, <2>1
  <2>3. PICK i \in S : x = n - i
    BY <2>2
  <2>4. \A j \in S : x <= n - j
    BY <2>2
  <2> QED
    BY <2>3, <2>4
<1> QED
  BY <1>2, <1>3

\* The loggers that are accepted come before the first bad one.
LEMMA AcceptedAreGood ==
  ASSUME NEW list, list \in Seq(Range(list)), NEW apps
  PROVE  LET good == Accepted(list, apps) IN
         \A n \in Keys(good) : LastOf(good, n).app \in DOMAIN apps
<1> DEFINE B == Bad(list, apps)
           k == IF B = {} THEN Len(list) ELSE (CHOOSE i \in B : \A j \in B : i <= j) - 1
           good == Accepted(list, apps)
<1>1. DOMAIN list = 1..Len(list) /\ Len(list) \in Nat
  BY LenProperties
<1>2. k \in 0..Len(list) /\ \A i \in 1..k : i \notin B
  <2>1. CASE B = {}
    BY <1>1, <2>1
  <2>2. CASE B # {}
    <3>1. B \subseteq 1..Len(list)
      BY <1>1 DEF Bad
    <3>2. \E i \in B : \A j \in B : i <= j
      BY <1>1, <2>2, <3>1, FirstAndLast
    <3>3. PICK i \in B : k = i - 1 /\ \A j \in B : i <= j
      BY <2>2, <3>2
    <3> HIDE DEF B, k
    <3>4. i \in 1..Len(list) /\ \A j \in 1..k : ~(i <= j)
      BY <1>1, <3>1, <3>3
    <3> QED
      BY <1>1, <3>1, <3>3, <3>4
  <2> QED
    BY <2>1, <2>2
<1>3. good = SubSeq(list, 1, k)
  BY DEF Accepted
<1> HIDE DEF k, good
<1>4. \A i \in 1..k : list[i] \in Range(list)
  BY <1>1, <1>2 DEF Range
<1>5. good \in Seq(Range(list)) /\ Len(good) = k /\ \A i \in 1..k : good[i] = list[i]
  <2>1. k \in Int /\ 1 \in Int /\ k >= 0
    BY <1>1, <1>2
  <2> QED
    BY <1>3, <1>4, <2>1, SubSeqProperties
<1>6. DOMAIN good = 1..k
  BY <1>5, LenProperties
<1>7. ASSUME NEW n \in Keys(good) PROVE LastOf(good, n).app \in DOMAIN apps
  <2> DEFINE S == {i \in DOMAIN good : good[i].name = n}
  <2>1. S # {} /\ S \subseteq 1..k /\ k \in Nat
    BY <1>2, <1>6, <1>7 DEF Keys
  <2>2. \E i \in S : \A j \in S : j <= i
    BY <2>1, FirstAndLast
  <2>3. PICK i \in DOMAIN good : LastOf(good, n) = good[i]
    BY <2>2 DEF LastOf
  <2>4. i \in 1..k /\ good[i] = list[i] /\ i \notin Bad(list, apps)
    BY <1>2, <1>5, <1>6, <2>3
  <2>5. list[i].app \in DOMAIN apps
    BY <1>1, <1>2, <2>4 DEF Bad
  <2> QED
    BY <2>3, <2>4, <2>5
<1> QED
  BY <1>7 DEF good

\* An entry that operator[] leaves names no appender.
LEMMA EntryIsNull ==
  ASSUME NEW T, NEW k
  PROVE  LET Wider == WithEntry(T, k) IN
         /\ k \in DOMAIN Wider /\ DOMAIN T \subseteq DOMAIN Wider
         /\ \A m \in DOMAIN T : Wider[m] = T[m]
         /\ \A m \in DOMAIN Wider : m \in DOMAIN T \/ Wider[m] = NULL
  BY DEF WithEntry

\* The next tables have the entries of the old ones, and NULL ones.
LEMMA LoadedKeeps ==
  ASSUME ELogInv, NEW r \in Admins, NEW to, Turns(r, to), stage[r] \in {"loggers", "default"},
         to \in {"default", "install", "free"},
         UNCHANGED <<app, appends, logs, dflt, lock>>,
         local'[r].init = local[r].init,
         \A m \in DOMAIN local[r].apps : m \in DOMAIN local'[r].apps /\ local'[r].apps[m] = local[r].apps[m],
         \A m \in DOMAIN local'[r].apps : m \in DOMAIN local[r].apps \/ local'[r].apps[m] = NULL,
         \A m \in DOMAIN local'[r].logs : local'[r].logs[m].app \in Range(local'[r].apps),
         to = "default" => local'[r].dflt = NULL,
         local'[r].dflt # NULL => local'[r].dflt.app \in Range(local'[r].apps)
  PROVE  ELogInv'
<1>1. stage'[r] = to /\ \A u \in Users : stage'[u] \in Holding <=> stage[u] \in Holding
  BY TurnMoves
<1>2. ELogType'
  <2>1. \A n \in DOMAIN local'[r].apps : local'[r].apps[n] \in DOMAIN app \cup {NULL}
    BY DEF ELogInv, ELogType, Names
  <2>2. \A n \in DOMAIN appends' : appends'[n] \in DOMAIN app \cup {NULL}
    BY DEF ELogInv, ELogType, Names
  <2>3. dflt'.app \in DOMAIN app \cup {NULL}
    BY DEF ELogInv, ELogType
  <2> QED
    BY <2>1, <2>2, <2>3, TurnTypesSame
<1>3. Built(r)'
  BY <1>1 DEF ELogInv, Built, Loads
<1>4. \A q \in Admins : Built(q)'
  BY <1>3, TurnBuilt
<1>5. NULL \notin DOMAIN app
  BY ELogAssumption, LenProperties DEF ELogInv, ELogType
<1>6. SameOwners
  <2>1. \A q \in Admins : q # r => local'[q] = local[q]
    BY TurnMoves
  <2> QED
    BY <1>1, <1>5, <2>1 DEF SameOwners, Turns
<1>7. Counted'
  BY <1>6, CountsStay
<1>8. InForce'
  BY DEF ELogInv, InForce, Live
<1> QED
  BY <1>2, <1>4, <1>7, <1>8 DEF ELogInv

LEMMA LoadLoggersKeeps ==
  ASSUME ELogInv, NEW r \in Admins, LoadLoggers(r) PROVE ELogInv'
<1>1. PICK apps \in {local[r].apps}, list \in {conf.logs} : TRUE
  OBVIOUS
<1>2. PICK good \in {Accepted(list, apps)} : TRUE
  OBVIOUS
<1> DEFINE nlogs == [n \in Keys(good) |-> [level |-> LastOf(good, n).level, app |-> apps[LastOf(good, n).app]]]
           napps == IF good = list THEN apps ELSE WithEntry(apps, list[Len(good) + 1].app)
<1>3. PICK to \in {"default", "free"} :
        /\ stage[r] = "loggers" /\ stage' = [stage EXCEPT ![r] = to]
        /\ local' = [local EXCEPT ![r].logs = nlogs, ![r].apps = napps]
        /\ UNCHANGED <<app, appends, logs, dflt, lock, conf, held>>
  BY <1>1, <1>2 DEF LoadLoggers, Goto
<1>4. /\ DOMAIN apps \subseteq DOMAIN napps /\ \A m \in DOMAIN apps : napps[m] = apps[m]
      /\ \A m \in DOMAIN napps : m \in DOMAIN apps \/ napps[m] = NULL
  BY EntryIsNull
<1>5. \A m \in DOMAIN nlogs : nlogs[m].app \in Range(napps)
  <2>1. list \in Seq(Range(list))
    BY <1>1, ELogAssumption DEF ELogInv, ELogType
  <2>2. \A n \in Keys(good) : LastOf(good, n).app \in DOMAIN apps
    BY <1>2, <2>1, AcceptedAreGood
  <2> HIDE DEF napps
  <2>3. \A n \in Keys(good) : apps[LastOf(good, n).app] \in Range(napps)
    BY <1>4, <2>2 DEF Range
  <2> QED
    BY <2>3
<1> HIDE DEF nlogs, napps
<1>6. /\ DOMAIN local' = Admins /\ DOMAIN local'[r] = DOMAIN NoTables
      /\ \A q \in Admins : q # r => local'[q] = local[q]
      /\ local'[r].apps = napps /\ local'[r].logs = nlogs
      /\ local'[r].dflt = local[r].dflt /\ local'[r].init = local[r].init
  <2>1. DOMAIN local = Admins /\ DOMAIN local[r] = {"apps", "logs", "dflt", "init", "ok"}
    BY DEF ELogInv, ELogType, NoTables
  <2> QED
    BY <1>3, <2>1 DEF NoTables
<1>7. Turns(r, to)
  BY <1>3, <1>6 DEF Turns, Loads
<1>8. local[r].dflt = NULL
  BY <1>3 DEF ELogInv, Built
<1> QED
  BY <1>1, <1>3, <1>4, <1>5, <1>6, <1>7, <1>8, LoadedKeeps

LEMMA LoadDefaultKeeps ==
  ASSUME ELogInv, NEW r \in Admins, LoadDefault(r) PROVE ELogInv'
<1>1. PICK apps \in {local[r].apps}, d \in {conf.dflt} : TRUE
  OBVIOUS
<1> DEFINE napps == IF d = NULL THEN apps ELSE WithEntry(apps, d.app)
           nd == IF d # NULL THEN [level |-> d.level, app |-> napps[d.app]] ELSE NULL
<1>2. PICK to \in {"install", "free"} :
        /\ stage[r] = "default" /\ stage' = [stage EXCEPT ![r] = to]
        /\ local' = [local EXCEPT ![r].dflt = nd, ![r].apps = napps]
        /\ UNCHANGED <<app, appends, logs, dflt, lock, conf, held>>
  BY <1>1 DEF LoadDefault, Goto
<1>3. /\ DOMAIN apps \subseteq DOMAIN napps /\ \A m \in DOMAIN apps : napps[m] = apps[m]
      /\ \A m \in DOMAIN napps : m \in DOMAIN apps \/ napps[m] = NULL
      /\ d # NULL => d.app \in DOMAIN napps
  BY EntryIsNull
<1> HIDE DEF napps
<1>4. nd # NULL => nd.app \in Range(napps)
  BY <1>3 DEF Range
<1> HIDE DEF nd
<1>5. /\ DOMAIN local' = Admins /\ DOMAIN local'[r] = DOMAIN NoTables
      /\ \A q \in Admins : q # r => local'[q] = local[q]
      /\ local'[r].apps = napps /\ local'[r].dflt = nd
      /\ local'[r].logs = local[r].logs /\ local'[r].init = local[r].init
  <2>1. DOMAIN local = Admins /\ DOMAIN local[r] = {"apps", "logs", "dflt", "init", "ok"}
    BY DEF ELogInv, ELogType, NoTables
  <2> QED
    BY <1>2, <2>1 DEF NoTables
<1>6. Turns(r, to)
  BY <1>2, <1>5 DEF Turns, Loads
<1>7. \A m \in DOMAIN local[r].logs : local[r].logs[m].app \in Range(napps)
  <2>1. \A m \in DOMAIN local[r].logs : local[r].logs[m].app \in Range(apps)
    BY <1>1, <1>2 DEF ELogInv, Built
  <2> QED
    BY <1>3, <2>1 DEF Range
<1> QED
  BY <1>1, <1>2, <1>3, <1>4, <1>5, <1>6, <1>7, LoadedKeeps

\* The names of a list without a repetition are in bijection with its places.
LEMMA PlaceOfName ==
  ASSUME NEW list, list \in Seq(Range(list)),
         \A i, j \in DOMAIN list : list[i].name = list[j].name => i = j,
         NEW k \in DOMAIN list
  PROVE  Cardinality({i \in DOMAIN list : \E j \in DOMAIN list : list[j].name = list[k].name /\ i <= j}) = k
<1>1. DOMAIN list = 1..Len(list) /\ Len(list) \in Nat
  BY LenProperties
<1>2. {i \in DOMAIN list : \E j \in DOMAIN list : list[j].name = list[k].name /\ i <= j} = 1..k
  BY <1>1
<1> QED
  <2>1. k \in Int /\ 1 \in Int /\ ~(1 > k)
    BY <1>1
  <2>2. Cardinality(1..k) = k - 1 + 1
    BY <2>1, FS_Interval
  <2>3. Cardinality(1..k) = k
    BY <2>1, <2>2
  <2> QED
    BY <1>2, <2>3

\* A load creates the appenders of the file, in their order.
LEMMA LoadCreates ==
  ASSUME ELogInv, NEW r \in Admins, LoadAppenders(r)
  PROVE  /\ app' \in Seq(Range(app')) /\ DOMAIN app' = 1..(Len(app) + Len(conf.apps))
         /\ DOMAIN app \subseteq DOMAIN app'
         /\ \A a \in DOMAIN app : app'[a] = app[a]
         /\ \A a \in 1..Len(conf.apps) : app'[Len(app) + a] = NewAppender(conf.apps[a].kind)
         /\ \A a \in DOMAIN app' : a \in DOMAIN app \/ \E k : app'[a] = NewAppender(k)
<1>1. PICK list \in {conf.apps}, created \in {app}, len \in {Len(app)} : TRUE
  OBVIOUS
<1> DEFINE more == [i \in DOMAIN list |-> NewAppender(list[i].kind)]
<1>2. app' = created \o more
  BY <1>1 DEF LoadAppenders
<1>3. list \in Seq(Range(list)) /\ DOMAIN list = 1..Len(list) /\ Len(list) \in Nat
  BY <1>1, ELogAssumption, LenProperties DEF ELogInv, ELogType
<1>4. len \in Nat /\ DOMAIN created = 1..len /\ len = Len(created) /\ created \in Seq(Range(created))
  BY <1>1, LenProperties DEF ELogInv, ELogType
<1>5. more \in Seq(Range(more)) /\ Len(more) = Len(list) /\ \A i \in DOMAIN list : more[i] = NewAppender(list[i].kind)
  BY <1>3, FunctionIsSeq
<1> HIDE DEF more
<1>6. /\ DOMAIN app' = 1..(len + Len(list)) /\ app' \in Seq(Range(app'))
      /\ \A a \in 1..len : app'[a] = created[a]
      /\ \A a \in 1..Len(list) : app'[len + a] = NewAppender(list[a].kind)
  <2> DEFINE R == Range(created) \cup Range(more)
             both == created \o more
  <2>1. created \in Seq(R) /\ more \in Seq(R)
    <3>1. DOMAIN more = 1..Len(more) /\ Len(more) \in Nat
      BY <1>5, LenProperties
    <3>2. \A i \in 1..len : created[i] \in R
      BY <1>4 DEF Range
    <3>3. \A i \in 1..Len(more) : more[i] \in R
      BY <3>1 DEF Range
    <3> HIDE DEF R
    <3> QED
      BY <1>4, <1>5, <3>1, <3>2, <3>3, ElementOfSeq, IsASeq
  <2> HIDE DEF R
  <2>2. /\ both \in Seq(R) /\ Len(both) = len + Len(list)
        /\ \A i \in 1..(len + Len(list)) : both[i] = IF i <= len THEN created[i] ELSE more[i - len]
    <3>1. /\ both \in Seq(R) /\ Len(both) = Len(created) + Len(more)
          /\ \A i \in 1..(Len(created) + Len(more)) : both[i] = IF i <= Len(created) THEN created[i] ELSE more[i - Len(created)]
      BY <2>1, ConcatProperties
    <3> HIDE DEF both
    <3> QED
      BY <1>4, <1>5, <3>1
  <2> HIDE DEF both
  <2>3. DOMAIN both = 1..(len + Len(list)) /\ both = [i \in DOMAIN both |-> both[i]]
    BY <2>2, LenProperties
  <2>4. both \in Seq(Range(both))
    <3>1. len + Len(list) \in Nat
      BY <1>3, <1>4
    <3> QED
      BY <2>3, <3>1, FunctionIsSeq
  <2>5. \A a \in 1..Len(list) : both[len + a] = more[a]
    <3> SUFFICES ASSUME NEW a \in 1..Len(list) PROVE both[len + a] = more[a]
      OBVIOUS
    <3>1. len + a \in 1..(len + Len(list)) /\ ~(len + a <= len) /\ (len + a) - len = a
      BY <1>3, <1>4
    <3> QED
      BY <2>2, <3>1
  <2>6. \A a \in 1..len : both[a] = created[a]
    BY <1>3, <1>4, <2>2
  <2>7. app' = both
    BY <1>2 DEF both
  <2> QED
    BY <1>3, <1>5, <2>3, <2>4, <2>5, <2>6, <2>7
<1>7. \A a \in DOMAIN app' : a \in DOMAIN app \/ \E k : app'[a] = NewAppender(k)
  <2> SUFFICES ASSUME NEW a \in DOMAIN app', a \notin 1..len PROVE \E k : app'[a] = NewAppender(k)
    BY <1>1, <1>4
  <2>1. a - len \in 1..Len(list) /\ a = len + (a - len)
    BY <1>3, <1>4, <1>6
  <2> QED
    BY <1>6, <2>1
<1>8. 1..len \subseteq 1..(len + Len(list))
  BY <1>3, <1>4
<1> QED
  BY <1>1, <1>4, <1>6, <1>7, <1>8

LEMMA LoadAppendersKeeps ==
  ASSUME NamesDistinct, ELogInv, NEW r \in Admins, LoadAppenders(r) PROVE ELogInv'
<1>1. PICK list \in {conf.apps}, created \in {app}, len \in {Len(app)} : TRUE
  OBVIOUS
<1> DEFINE place == [n \in Keys(list) |-> len + Cardinality({i \in DOMAIN list : \E j \in DOMAIN list : list[j].name = n /\ i <= j})]
<1>2. PICK to \in {"loggers", "install", "free"} :
        /\ stage[r] = "appenders" /\ stage' = [stage EXCEPT ![r] = to]
        /\ local' = [local EXCEPT ![r].apps = place]
        /\ UNCHANGED <<appends, logs, dflt, lock, conf, held>>
  <2>1. OnFailure(r) \in {"install", "free"}
    BY DEF OnFailure
  <2>2. PICK to \in {IF conf.appsOk THEN "loggers" ELSE OnFailure(r)} : to \in {"loggers", "install", "free"}
    BY <2>1
  <2> QED
    BY <1>1, <2>2 DEF LoadAppenders, Goto
<1>3. /\ list \in Seq(Range(list)) /\ DOMAIN list = 1..Len(list) /\ Len(list) \in Nat
      /\ \A i, j \in DOMAIN list : list[i].name = list[j].name => i = j
  BY <1>1, ELogAssumption, LenProperties DEF ELogInv, ELogType, NamesDistinct
<1>4. len \in Nat /\ DOMAIN created = 1..len /\ len = Len(created) /\ created \in Seq(Range(created))
  BY <1>1, LenProperties DEF ELogInv, ELogType
<1>5. /\ DOMAIN place = Keys(list)
      /\ \A k \in DOMAIN list : place[list[k].name] = len + k
  <2>1. \A k \in DOMAIN list : list[k].name \in Keys(list)
    BY DEF Keys
  <2> QED
    BY <1>3, <2>1, PlaceOfName
<1>7. \A k : /\ DOMAIN NewAppender(k) = AppFields
             /\ NewAppender(k).ref \in Int /\ NewAppender(k).ref = 1
             /\ NewAppender(k).deleted \in BOOLEAN /\ ~NewAppender(k).deleted
  BY DEF NewAppender, AppFields
<1> HIDE DEF place
<1>8. /\ DOMAIN app' = 1..(len + Len(list)) /\ app' \in Seq(Range(app'))
      /\ \A a \in 1..len : app'[a] = created[a]
      /\ \A a \in 1..Len(list) : app'[len + a] = NewAppender(list[a].kind)
  BY <1>1, <1>3, <1>4, LoadCreates
<1>9. /\ DOMAIN local' = Admins /\ DOMAIN local'[r] = DOMAIN NoTables
      /\ \A q \in Admins : q # r => local'[q] = local[q]
      /\ local'[r].apps = place /\ local'[r].logs = local[r].logs
      /\ local'[r].dflt = local[r].dflt /\ local'[r].init = local[r].init
  <2>1. DOMAIN local = Admins /\ DOMAIN local[r] = {"apps", "logs", "dflt", "init", "ok"}
    BY DEF ELogInv, ELogType, NoTables
  <2> QED
    BY <1>2, <2>1 DEF NoTables
<1>10. Turns(r, to)
  BY <1>2, <1>9 DEF Turns, Loads
<1>11. \A n \in DOMAIN place : \E k \in DOMAIN list : n = list[k].name /\ place[n] = len + k
  BY <1>5 DEF Keys
<1>12. ELogType'
  <2>1. \A a \in DOMAIN app' : DOMAIN app'[a] = AppFields /\ app'[a].ref \in Int /\ app'[a].deleted \in BOOLEAN
    <3> SUFFICES ASSUME NEW a \in DOMAIN app'
                 PROVE  DOMAIN app'[a] = AppFields /\ app'[a].ref \in Int /\ app'[a].deleted \in BOOLEAN
      OBVIOUS
    <3>1. CASE a \in 1..len
      BY <1>1, <1>4, <1>8, <3>1 DEF ELogInv, ELogType
    <3>2. CASE a \notin 1..len
      <4>1. PICK k \in 1..Len(list) : a = len + k
        <5>1. a - len \in 1..Len(list) /\ a = len + (a - len)
          BY <1>3, <1>4, <1>8, <3>2
        <5> QED
          BY <5>1
      <4>2. app'[a] = NewAppender(list[k].kind)
        BY <1>8, <4>1
      <4> QED
        BY <1>7, <4>2
    <3> QED
      BY <3>1, <3>2
  <2>2. DOMAIN app \subseteq DOMAIN app'
    BY <1>1, <1>3, <1>4, <1>8
  <2>3. \A n \in DOMAIN local'[r].apps : local'[r].apps[n] \in DOMAIN app' \cup {NULL}
    <3>1. \A k \in DOMAIN list : len + k \in DOMAIN app'
      BY <1>3, <1>4, <1>8
    <3> QED
      BY <1>9, <1>11, <3>1
  <2>4. \A n \in DOMAIN appends' : appends'[n] \in DOMAIN app' \cup {NULL}
    BY <1>2, <2>2 DEF ELogInv, ELogType, Names
  <2>5. dflt'.app \in DOMAIN app' \cup {NULL}
    BY <1>2, <2>2 DEF ELogInv, ELogType
  <2> QED
    BY <1>8, <1>10, <2>1, <2>2, <2>3, <2>4, <2>5, TurnTypes
<1>13. stage'[r] = to /\ \A u \in Users : stage'[u] \in Holding <=> stage[u] \in Holding
  BY <1>10, TurnMoves
<1>14. \A q \in Admins : Built(q)'
  <2>1. DOMAIN local[r].logs = {} /\ local[r].dflt = NULL
        /\ (local[r].init => lock = r /\ dflt.app = NULL /\ \A n \in DOMAIN appends : appends[n] = NULL)
    BY <1>2 DEF ELogInv, Built, Loads
  <2>2. Built(r)'
    BY <1>2, <1>9, <1>13, <2>1 DEF Built, Loads
  <2> QED
    BY <1>2, <1>10, <2>2, TurnBuilt
<1>15. NULL \notin DOMAIN app' /\ DOMAIN local[r].apps = {}
  BY <1>2, <1>8, ELogAssumption DEF ELogInv, Built
<1>16. \A n \in DOMAIN place : place[n] \notin DOMAIN app
  <2>1. \A k \in DOMAIN list : len + k \notin DOMAIN app
    BY <1>1, <1>3, <1>4
  <2> QED
    BY <1>11, <2>1
<1>17. \A a \in DOMAIN app : Owners(a)' = Owners(a)
  <2>1. SameOwners
    BY <1>2, <1>9, <1>13, <1>15, <1>16 DEF SameOwners
  <2> QED
    BY <2>1, OwnersStay
<1>18. \A k \in DOMAIN list : Owners(len + k)' = {<<r, list[k].name>>}
  <2> SUFFICES ASSUME NEW k \in DOMAIN list, NEW x
               PROVE  Owns(x, len + k)' <=> x = <<r, list[k].name>>
    <3>1. \A k \in DOMAIN list : \A x : x \in Owners(len + k)' <=> Owns(x, len + k)'
      <4> TAKE k \in DOMAIN list
      <4> TAKE x
      <4>1. PICK a : a = len + k
        OBVIOUS
      <4>2. x \in Owners(a)' <=> Owns(x, a)'
        BY OwnersAreNext
      <4> QED
        BY <4>1, <4>2
    <3> QED
      BY <3>1
  <2>1. len + k \notin DOMAIN app /\ len + k \in DOMAIN app' /\ len + k # NULL
    BY <1>1, <1>3, <1>4, <1>8, <1>15
  <2>2. \A n \in DOMAIN appends' : appends'[n] # len + k
    BY <1>2, <2>1 DEF ELogInv, ELogType, Names
  <2>3. \A u \in Users : stage'[u] \in Holding => held'[u].app # len + k
    BY <1>2, <1>13, <2>1 DEF ELogInv, ELogType
  <2>4. \A q \in Admins : q # r => \A n \in DOMAIN local'[q].apps : local'[q].apps[n] # len + k
    BY <1>9, <2>1 DEF ELogInv, ELogType, Names
  <2>5. \A n : n \in DOMAIN place /\ place[n] = len + k <=> n = list[k].name
    <3>1. \A n \in DOMAIN place : place[n] = len + k => n = list[k].name
      <4> SUFFICES ASSUME NEW n \in DOMAIN place, place[n] = len + k PROVE n = list[k].name
        OBVIOUS
      <4>1. PICK j \in DOMAIN list : n = list[j].name /\ place[n] = len + j
        BY <1>11
      <4>2. j = k
        BY <1>3, <1>4, <4>1
      <4> QED
        BY <4>1, <4>2
    <3>2. list[k].name \in DOMAIN place /\ place[list[k].name] = len + k
      BY <1>5 DEF Keys
    <3> QED
      BY <3>1, <3>2
  <2> QED
    BY <1>9, <2>2, <2>3, <2>4, <2>5 DEF Owns
<1>19. Counted'
  <2> SUFFICES ASSUME NEW a \in DOMAIN app'
               PROVE  /\ IsFiniteSet(Owners(a)')
                      /\ app'[a].ref = Cardinality(Owners(a)')
                      /\ Owners(a)' # {} => ~app'[a].deleted
    BY DEF Counted
  <2>1. CASE a \in DOMAIN app
    BY <1>1, <1>4, <1>8, <1>17, <2>1 DEF ELogInv, Counted
  <2>2. CASE a \notin DOMAIN app
    <3>1. PICK k \in DOMAIN list : a = len + k
      <4>1. a - len \in DOMAIN list /\ a = len + (a - len)
        BY <1>1, <1>3, <1>4, <1>8, <2>2
      <4> QED
        BY <4>1
    <3>2. Owners(a)' = {<<r, list[k].name>>}
      BY <1>18, <3>1
    <3>3. app'[a].ref = 1 /\ ~app'[a].deleted
      BY <1>3, <1>7, <1>8, <3>1
    <3> QED
      <4>1. \A x : IsFiniteSet({x}) /\ Cardinality({x}) = 1
        BY FS_Singleton
      <4> QED
        BY <3>2, <3>3, <4>1
  <2> QED
    BY <2>1, <2>2
<1>20. InForce'
  <2>1. \A a \in DOMAIN app : app'[a] = app[a]
    BY <1>1, <1>4, <1>8
  <2> QED
    BY <1>2, <2>1 DEF ELogInv, ELogType, InForce, Live
<1> QED
  BY <1>12, <1>14, <1>19, <1>20 DEF ELogInv

-----------------------------------------------------------------------------
LEMMA ELogStarts == ASSUME Init PROVE ELogInv
<1>1. /\ DOMAIN app = {} /\ app \in Seq(Range(app)) /\ DOMAIN appends = {} /\ DOMAIN logs = {}
      /\ dflt.app = NULL /\ conf \in Files
      /\ stage = [t \in Users |-> "idle"] /\ held = [t \in Users |-> NoHeld] /\ local = [r \in Admins |-> NoTables]
  BY DEF Init, Empty, Users
<1>2. DOMAIN NoTables.apps = {}
  BY DEF NoTables, Empty
<1>3. ELogType
  BY <1>1, <1>2 DEF ELogType, Names, Holding, Users
<1>4. \A r \in Admins : Built(r)
  BY <1>1, <1>2 DEF Built, Loads, Users
<1>5. Counted
  BY <1>1 DEF Counted
<1>6. InForce
  BY <1>1 DEF InForce
<1> QED
  BY <1>3, <1>4, <1>5, <1>6 DEF ELogInv

LEMMA ELogSteps == ASSUME NamesDistinct, ELogInv, [Next]_vars PROVE ELogInv'
<1>1. ASSUME NEW t \in Threads, \E n \in LogNames, l \in Levels : Log(t, n, l) PROVE ELogInv'
  BY <1>1, LogKeeps
<1>2. ASSUME NEW t \in Threads, WriteTest(t) \/ Write(t) PROVE ELogInv'
  BY <1>2, WriteKeeps
<1>3. ASSUME NEW t \in Users, Give(t) PROVE ELogInv'
  BY <1>3, GiveDecKeeps, GiveTestKeeps DEF Give
<1>4. ASSUME NEW r \in Admins, \E i \in BOOLEAN : Begin(r, i) PROVE ELogInv'
  BY <1>4, BeginKeeps
<1>5. ASSUME NEW r \in Admins, Load(r) PROVE ELogInv'
  BY <1>5, LoadAppendersKeeps, LoadLoggersKeeps, LoadDefaultKeeps, InstallKeeps DEF Load
<1>6. ASSUME NEW r \in Admins, Uninit(r) PROVE ELogInv'
  BY <1>6, UninitKeeps
<1>7. ASSUME NEW r \in Admins, Free(r) PROVE ELogInv'
  BY <1>7, FreeDoneKeeps, FreeOneKeeps DEF Free
<1>8. ASSUME Tick \/ Edit PROVE ELogInv'
  BY <1>8, QuietKeeps DEF Tick, Edit, ELogInv, ELogType
<1>9. ASSUME UNCHANGED vars PROVE ELogInv'
  BY <1>9, QuietKeeps DEF vars, ELogInv, ELogType
<1> QED
  BY <1>1, <1>2, <1>3, <1>4, <1>5, <1>6, <1>7, <1>8, <1>9 DEF Next, Users

THEOREM AppendersAreCounted == NamesDistinct => (Spec => []AppendersCounted)
<1> SUFFICES ASSUME NamesDistinct PROVE Spec => []AppendersCounted
  OBVIOUS
<1>1. Init => ELogInv
  BY ELogStarts
<1>2. ELogInv /\ [Next]_vars => ELogInv'
  BY ELogSteps
<1>3. ELogInv => AppendersCounted
  BY DEF ELogInv, Counted, InForce, AppendersCounted, CountExact, UsedAlive
<1> QED
  BY <1>1, <1>2, <1>3, PTL DEF Spec

-----------------------------------------------------------------------------
(* Lines and files                                                         *)

\* The open file of an appender is that of the period its last opening was in,
\* and that of no later period than now; a thread that writes has not been
\* overtaken by an older file.
FilesInTime ==
    /\ now \in Nat
    /\ \A a \in DOMAIN app : /\ app[a].last \in Nat
                             /\ app[a].file # NULL =>
                                  /\ app[a].kind = "file" /\ app[a].file \in Nat
                                  /\ app[a].last = app[a].file * Span
                                  /\ app[a].file <= Period(now)
    /\ \A t \in Threads : stage[t] \in {"write", "fwrite"} =>
         /\ held[t].taken \in Nat /\ held[t].taken <= Period(now)
         /\ app[held[t].app].file # NULL => held[t].taken <= app[held[t].app].file

LEMMA PeriodsGrow ==
  /\ \A n \in Nat : Period(n) \in Nat /\ Period(n) * Span <= n /\ n < (Period(n) + 1) * Span
  /\ \A p, q \in Nat : p * Span < (q + 1) * Span => p <= q
<1>1. \A n \in Nat : Period(n) \in Nat /\ Period(n) * Span <= n /\ n < (Period(n) + 1) * Span
  BY ELogAssumption DEF Period
<1>2. ASSUME NEW p \in Nat, NEW q \in Nat, p * Span < (q + 1) * Span PROVE p <= q
  <2> SUFFICES ASSUME q + 1 <= p PROVE FALSE
    OBVIOUS
  <2>1. PICK d \in Nat : p = q + 1 + d
    <3>1. p - (q + 1) \in Nat
      OBVIOUS
    <3> QED
      BY <3>1
  <2>2. p * Span = (q + 1) * Span + d * Span /\ d * Span >= 0
    BY <2>1, ELogAssumption
  <2>3. (q + 1) * Span \in Int /\ d * Span \in Int
    BY ELogAssumption
  <2> QED
    BY <1>2, <2>2, <2>3
<1> QED
  BY <1>1, <1>2

\* Steps that open no file, and start no logger.
LEMMA FilesStay ==
  ASSUME ELogInv, FilesInTime, now' = now, DOMAIN app \subseteq DOMAIN app',
         \A a \in DOMAIN app : app'[a].file = app[a].file /\ app'[a].last = app[a].last /\ app'[a].kind = app[a].kind,
         \A a \in DOMAIN app' : a \in DOMAIN app \/ (app'[a].file = NULL /\ app'[a].last = 0),
         \A t \in Threads : stage'[t] \in {"write", "fwrite"} => stage[t] \in {"write", "fwrite"} /\ held'[t] = held[t]
  PROVE  FilesInTime'
<1>1. \A a \in DOMAIN app' : /\ app'[a].last \in Nat
                             /\ app'[a].file # NULL =>
                                  /\ app'[a].kind = "file" /\ app'[a].file \in Nat
                                  /\ app'[a].last = app'[a].file * Span
                                  /\ app'[a].file <= Period(now)
  BY DEF FilesInTime
<1>2. \A t \in Threads : stage'[t] \in {"write", "fwrite"} =>
         /\ held'[t].taken \in Nat /\ held'[t].taken <= Period(now)
         /\ app'[held'[t].app].file # NULL => held'[t].taken <= app'[held'[t].app].file
  <2> SUFFICES ASSUME NEW t \in Threads, stage'[t] \in {"write", "fwrite"}
               PROVE  /\ held'[t].taken \in Nat /\ held'[t].taken <= Period(now)
                      /\ app'[held'[t].app].file # NULL => held'[t].taken <= app'[held'[t].app].file
    OBVIOUS
  <2>1. stage[t] \in {"write", "fwrite"} /\ held'[t] = held[t] /\ held[t].app \in DOMAIN app
    BY DEF ELogInv, ELogType, Holding, Users
  <2> QED
    BY <2>1 DEF FilesInTime
<1> QED
  BY <1>1, <1>2 DEF FilesInTime, Period

\* What operator() takes: the file is that of the present period, or none.
LEMMA TakeIsPresent ==
  ASSUME ELogInv, FilesInTime, NEW a \in DOMAIN app, NEW opened
  PROVE  LET b == Take(a, opened) IN
         /\ b.last \in Nat /\ b.kind = app[a].kind
         /\ b.file # NULL => /\ app[a].kind = "file" /\ b.file \in Nat
                             /\ b.last = b.file * Span /\ b.file = Period(now)
<1> DEFINE b == app[a]
           c == IF Due(b) THEN Rotate(b, opened) ELSE b
<1>1. DOMAIN b = {"kind", "ref", "deleted", "file", "last"}
  BY DEF ELogInv, ELogType, AppFields, NewAppender
<1>2. /\ Rotate(b, opened).last = Period(now) * Span /\ Rotate(b, opened).kind = b.kind
      /\ Rotate(b, opened).file = (IF opened THEN Period(now) ELSE NULL)
      /\ DOMAIN Rotate(b, opened) = DOMAIN b
  BY <1>1 DEF Rotate
<1>3. Period(now) \in Nat /\ now \in Nat /\ Period(now) * Span \in Nat
  BY PeriodsGrow, ELogAssumption DEF FilesInTime
<1>4. CASE Due(b)
  BY <1>2, <1>3, <1>4 DEF Due, Take
<1>5. CASE ~Due(b)
  <2>1. b.file # NULL => b.file = Period(now)
    <3> SUFFICES ASSUME b.file # NULL PROVE b.file = Period(now)
      OBVIOUS
    <3>1. /\ b.kind = "file" /\ b.file \in Nat /\ b.last = b.file * Span /\ b.file <= Period(now)
          /\ now - b.last < Span
      <4>1. b.kind = "file" /\ b.file \in Nat /\ b.last = b.file * Span /\ b.file <= Period(now) /\ b.last \in Nat
        BY DEF FilesInTime
      <4>2. ~(now - b.last >= Span)
        BY <1>5, <4>1 DEF Due
      <4> HIDE DEF b
      <4> QED
        BY <1>3, <4>1, <4>2, ELogAssumption
    <3>2. Period(now) * Span < (b.file + 1) * Span
      <4>1. (b.file + 1) * Span = b.file * Span + Span /\ b.file * Span \in Int
        BY <3>1, ELogAssumption
      <4>2. Period(now) * Span <= now
        BY <1>3, PeriodsGrow
      <4> QED
        BY <1>3, <3>1, <4>1, <4>2, ELogAssumption
    <3>3. Period(now) <= b.file
      BY <1>3, <3>1, <3>2, PeriodsGrow
    <3> QED
      BY <1>3, <3>1, <3>3
  <2>2. c = b
    BY <1>5
  <2>3. Take(a, opened) = [b EXCEPT !.ref = @ + 1]
    BY <1>5 DEF Take
  <2>4. /\ Take(a, opened).last = b.last /\ Take(a, opened).kind = b.kind
        /\ Take(a, opened).file = b.file
    BY <1>1, <2>3
  <2> QED
    BY <2>1, <2>4 DEF FilesInTime
<1> QED
  BY <1>4, <1>5

\* A thread passes from its write only when the file was open.
LEMMA OnlyOpenFilesWritten ==
  ASSUME ELogInv, [Next]_vars, NEW t \in Threads, stage[t] = "fwrite", stage'[t] = "give"
  PROVE  app[held[t].app].file # NULL
<1>1. \A r \in Admins : r # t
  BY ELogAssumption
<1>2. ASSUME NEW u \in Users, NEW to, stage[u] # "fwrite", Goto(u, to) PROVE FALSE
  <2>1. u # t
    BY <1>2
  <2> QED
    BY <1>2, <2>1 DEF Goto
<1>3. Next
  BY DEF vars
<1>4. ~Crash
  BY DEF Crash
<1>5. Write(t)
  <2>1. ASSUME NEW u \in Threads, \E n \in LogNames, l \in Levels : Log(u, n, l) PROVE FALSE
    BY <1>2, <1>4, <2>1 DEF Log, Users
  <2>2. ASSUME NEW u \in Threads, WriteTest(u) PROVE FALSE
    BY <1>2, <2>2 DEF WriteTest, Users
  <2>3. ASSUME NEW u \in Users, Give(u) PROVE FALSE
    BY <1>2, <1>4, <2>3 DEF Give, GiveDec, GiveTest
  <2>4. ASSUME NEW r \in Admins, (\E i \in BOOLEAN : Begin(r, i)) \/ Load(r) \/ Uninit(r) \/ Free(r) PROVE FALSE
    <3>1. stage[r] # "fwrite" /\ r \in Users
      BY DEF ELogInv, ELogType, Loads, Users
    <3> QED
      BY <1>2, <1>4, <2>4, <3>1 DEF Begin, Load, LoadAppenders, LoadLoggers, LoadDefault, Install, Uninit, Free, FreeDone, FreeOne
  <2>5. ASSUME Tick \/ Edit PROVE FALSE
    BY <2>5 DEF Tick, Edit
  <2>6. ASSUME NEW u \in Threads, u # t, Write(u) PROVE FALSE
    <3>1. stage'[t] = stage[t]
      BY <2>6 DEF Write, Goto, Crash, ELogInv, ELogType, Users
    <3> QED
      BY <3>1
  <2> QED
    BY <1>3, <2>1, <2>2, <2>3, <2>4, <2>5, <2>6 DEF Next, Users
<1> QED
  BY <1>4, <1>5 DEF Write

LEMMA LogInTime ==
  ASSUME ELogInv, FilesInTime, NEW t \in Threads, NEW name, NEW level, Log(t, name, level) PROVE FilesInTime'
<1>1. CASE UNCHANGED <<app, now, stage, held>>
  BY <1>1, FilesStay
<1>2. CASE ~UNCHANGED <<app, now, stage, held>>
  <2>1. PICK a \in {Chosen(name).app}, opened \in BOOLEAN, n \in {now} :
          /\ Live(a) /\ app' = [app EXCEPT ![a] = Take(a, opened)]
          /\ held' = [held EXCEPT ![t] = [app |-> a, taken |-> Period(n)]]
          /\ stage' = [stage EXCEPT ![t] = "write"] /\ now' = n
    BY <1>2 DEF Log, Goto, Crash
  <2>2. a \in DOMAIN app
    BY <2>1, ChosenIsCreated
  <2>3. PICK v \in {Take(a, opened)} :
          /\ app' = [app EXCEPT ![a] = v] /\ v.last \in Nat
          /\ v.file # NULL => /\ v.kind = "file" /\ v.file \in Nat
                              /\ v.last = v.file * Span /\ v.file = Period(n)
    BY <2>1, <2>2, TakeIsPresent
  <2>4. /\ DOMAIN app' = DOMAIN app /\ app'[a] = v /\ \A b \in DOMAIN app : b # a => app'[b] = app[b]
        /\ held'[t].app = a /\ held'[t].taken = Period(n)
        /\ \A u \in Threads : u # t => held'[u] = held[u] /\ stage'[u] = stage[u]
    BY <2>1, <2>2, <2>3 DEF ELogInv, ELogType, Users
  <2>5. n \in Nat /\ Period(n) \in Nat
    BY <2>1, PeriodsGrow DEF FilesInTime
  <2>6. \A b \in DOMAIN app' : /\ app'[b].last \in Nat
                               /\ app'[b].file # NULL =>
                                    /\ app'[b].kind = "file" /\ app'[b].file \in Nat
                                    /\ app'[b].last = app'[b].file * Span
                                    /\ app'[b].file <= Period(n)
    <3> SUFFICES ASSUME NEW b \in DOMAIN app
                 PROVE  /\ app'[b].last \in Nat
                        /\ app'[b].file # NULL =>
                             /\ app'[b].kind = "file" /\ app'[b].file \in Nat
                             /\ app'[b].last = app'[b].file * Span
                             /\ app'[b].file <= Period(n)
      BY <2>4
    <3>1. CASE b = a
      BY <2>3, <2>4, <2>5, <3>1
    <3>2. CASE b # a
      BY <2>1, <2>4, <3>2 DEF FilesInTime
    <3> QED
      BY <3>1, <3>2
  <2>7. \A u \in Threads : stage'[u] \in {"write", "fwrite"} =>
          /\ held'[u].taken \in Nat /\ held'[u].taken <= Period(n)
          /\ app'[held'[u].app].file # NULL => held'[u].taken <= app'[held'[u].app].file
    <3> SUFFICES ASSUME NEW u \in Threads, stage'[u] \in {"write", "fwrite"}
                 PROVE  /\ held'[u].taken \in Nat /\ held'[u].taken <= Period(n)
                        /\ app'[held'[u].app].file # NULL => held'[u].taken <= app'[held'[u].app].file
      OBVIOUS
    <3>1. CASE u = t
      BY <2>3, <2>4, <2>5, <3>1
    <3>2. CASE u # t
      <4>1. stage[u] \in {"write", "fwrite"} /\ held'[u] = held[u] /\ held[u].app \in DOMAIN app
        BY <2>4, <3>2 DEF ELogInv, ELogType, Holding, Users
      <4>2. /\ held[u].taken \in Nat /\ held[u].taken <= Period(n)
            /\ app[held[u].app].file # NULL => held[u].taken <= app[held[u].app].file
        BY <2>1, <4>1 DEF FilesInTime
      <4>3. CASE held[u].app = a
        BY <2>3, <2>4, <4>1, <4>2, <4>3
      <4>4. CASE held[u].app # a
        BY <2>4, <4>1, <4>2, <4>4
      <4> QED
        BY <4>3, <4>4
    <3> QED
      BY <3>1, <3>2
  <2> QED
    BY <2>1, <2>5, <2>6, <2>7 DEF FilesInTime, Period
<1> QED
  BY <1>1, <1>2

LEMMA TickInTime == ASSUME FilesInTime, Tick PROVE FilesInTime'
<1>1. PICK n \in {now} : n \in Nat /\ now' = n + 1 /\ UNCHANGED <<app, stage, held>>
  BY DEF Tick, FilesInTime
<1>2. Period(n) \in Nat /\ Period(n + 1) \in Nat /\ Period(n) <= Period(n + 1)
  <2>1. /\ Period(n) \in Nat /\ Period(n) * Span <= n
        /\ Period(n + 1) \in Nat /\ n + 1 < (Period(n + 1) + 1) * Span
    BY <1>1, PeriodsGrow
  <2>2. Period(n) * Span \in Int /\ (Period(n + 1) + 1) * Span \in Int
    BY <2>1, ELogAssumption
  <2>3. Period(n) * Span < (Period(n + 1) + 1) * Span
    BY <1>1, <2>1, <2>2
  <2> QED
    BY <2>1, <2>3, PeriodsGrow
<1>3. PICK p \in {Period(n)}, q \in {Period(n + 1)} : p \in Nat /\ q \in Nat /\ p <= q
  BY <1>2
<1>4. Period(now) = p /\ Period(now)' = q
  BY <1>1, <1>3 DEF Period
<1>5. \A a \in DOMAIN app : /\ app[a].last \in Nat
                            /\ app[a].file # NULL =>
                                 /\ app[a].kind = "file" /\ app[a].file \in Nat
                                 /\ app[a].last = app[a].file * Span /\ app[a].file <= q
  BY <1>3, <1>4 DEF FilesInTime
<1>6. \A t \in Threads : stage[t] \in {"write", "fwrite"} =>
         /\ held[t].taken \in Nat /\ held[t].taken <= q
         /\ app[held[t].app].file # NULL => held[t].taken <= app[held[t].app].file
  BY <1>3, <1>4 DEF FilesInTime
<1> QED
  BY <1>1, <1>4, <1>5, <1>6 DEF FilesInTime

\* The steps of loads create appenders without a file, or none.
LEMMA OthersInTime ==
  ASSUME NamesDistinct, ELogInv, FilesInTime, Next, ~Tick,
         ~(\E t \in Threads : \E n \in LogNames, l \in Levels : Log(t, n, l))
  PROVE  FilesInTime'
<1>1. \A t \in Threads, r \in Admins : t # r
  BY ELogAssumption
<1>2. ASSUME NEW t \in Threads, WriteTest(t) \/ Write(t) PROVE FilesInTime'
  <2>1. /\ app' = app /\ now' = now /\ held' = held
        /\ \A u \in Threads : stage'[u] \in {"write", "fwrite"} => stage[u] \in {"write", "fwrite"}
    BY <1>2 DEF WriteTest, Write, Goto, Crash, ELogInv, ELogType, Users
  <2> QED
    BY <2>1, FilesStay
<1>3. ASSUME NEW t \in Users, GiveDec(t) PROVE FilesInTime'
  <2>1. PICK a \in {held[t].app} : /\ a \in DOMAIN app /\ app' = [app EXCEPT ![a] = [app[a] EXCEPT !.ref = @ - 1]]
                                   /\ DOMAIN app[a] = {"kind", "ref", "deleted", "file", "last"}
    BY <1>3 DEF GiveDec, ELogInv, ELogType, Holding, AppFields, NewAppender
  <2>2. DOMAIN app' = DOMAIN app
        /\ \A b \in DOMAIN app : app'[b].file = app[b].file /\ app'[b].last = app[b].last /\ app'[b].kind = app[b].kind
    BY <2>1
  <2>3. /\ now' = now /\ held' = held
        /\ \A u \in Threads : stage'[u] \in {"write", "fwrite"} => stage[u] \in {"write", "fwrite"}
    BY <1>3 DEF GiveDec, Goto, ELogInv, ELogType, Users
  <2> QED
    BY <2>2, <2>3, FilesStay
<1>4. ASSUME NEW t \in Users, GiveTest(t) PROVE FilesInTime'
  <2>1. CASE UNCHANGED <<app, now, stage, held>>
    BY <2>1, FilesStay
  <2>2. CASE ~UNCHANGED <<app, now, stage, held>>
    <3>1. PICK a \in {held[t].app}, to \in {IF t \in Threads THEN "idle" ELSE "free"} :
            /\ a \in DOMAIN app /\ app' = [app EXCEPT ![a] = [app[a] EXCEPT !.deleted = ToDelete(app[a].ref)]]
            /\ now' = now /\ held' = [held EXCEPT ![t] = NoHeld] /\ stage' = [stage EXCEPT ![t] = to]
      <4>1. stage[t] = "reread" /\ held[t].app \in DOMAIN app
        BY <1>4 DEF GiveTest, ELogInv, ELogType
      <4> QED
        BY <2>2, <1>4, <4>1 DEF GiveTest, Goto, Crash
    <3>2. DOMAIN app' = DOMAIN app
          /\ \A b \in DOMAIN app : app'[b].file = app[b].file /\ app'[b].last = app[b].last /\ app'[b].kind = app[b].kind
      <4>1. DOMAIN app[a] = {"kind", "ref", "deleted", "file", "last"}
        BY <3>1 DEF ELogInv, ELogType, AppFields, NewAppender
      <4> QED
        BY <3>1, <4>1
    <3>3. \A u \in Threads : stage'[u] \in {"write", "fwrite"} => stage[u] \in {"write", "fwrite"} /\ held'[u] = held[u]
      BY <3>1 DEF ELogInv, ELogType, Users
    <3> QED
      BY <3>1, <3>2, <3>3, FilesStay
  <2> QED
    BY <2>1, <2>2
<1>5. ASSUME NEW r \in Admins, LoadAppenders(r) PROVE FilesInTime'
  <2>1. /\ now' = now /\ held' = held
        /\ \A u \in Threads : stage'[u] = stage[u]
    BY <1>1, <1>5 DEF LoadAppenders, Goto, ELogInv, ELogType, Users
  <2>2. /\ DOMAIN app \subseteq DOMAIN app' /\ \A a \in DOMAIN app : app'[a] = app[a]
        /\ \A a \in DOMAIN app' : a \in DOMAIN app \/ \E k : app'[a] = NewAppender(k)
    BY <1>5, LoadCreates
  <2>3. \A k : NewAppender(k).file = NULL /\ NewAppender(k).last = 0
    BY DEF NewAppender
  <2> QED
    BY <2>1, <2>2, <2>3, FilesStay
<1>6. ASSUME NEW r \in Admins,
             \/ \E i \in BOOLEAN : Begin(r, i)
             \/ LoadLoggers(r) \/ LoadDefault(r) \/ Install(r) \/ Uninit(r) \/ Free(r)
      PROVE  FilesInTime'
  <2>1. /\ app' = app /\ now' = now /\ \A u \in Threads : held'[u] = held[u] /\ stage'[u] = stage[u]
    BY <1>1, <1>6 DEF Begin, LoadLoggers, LoadDefault, Install, Uninit, Free, FreeDone, FreeOne, Goto, Crash,
       ELogInv, ELogType, Users
  <2> QED
    BY <2>1, FilesStay
<1>7. ASSUME Edit PROVE FilesInTime'
  BY <1>7, FilesStay DEF Edit
<1> QED
  BY <1>2, <1>3, <1>4, <1>5, <1>6, <1>7 DEF Next, Load, Give, Users

THEOREM LinesFollowTheirPeriod == NamesDistinct => (Spec => NoLineInOlderFile)
<1> SUFFICES ASSUME NamesDistinct PROVE Spec => NoLineInOlderFile
  OBVIOUS
<1>1. Init => ELogInv /\ FilesInTime
  <2> SUFFICES ASSUME Init PROVE FilesInTime
    BY ELogStarts
  <2>1. now \in Nat /\ DOMAIN app = {} /\ \A t \in Threads : stage[t] = "idle"
    BY ELogAssumption DEF Init
  <2> QED
    BY <2>1 DEF FilesInTime
<1>2. ELogInv /\ FilesInTime /\ [Next]_vars => ELogInv' /\ FilesInTime'
  <2> SUFFICES ASSUME ELogInv, FilesInTime, [Next]_vars PROVE FilesInTime'
    BY ELogSteps
  <2>1. CASE UNCHANGED vars
    BY <2>1, FilesStay DEF vars
  <2>2. CASE Next
    BY <2>2, LogInTime, TickInTime, OthersInTime
  <2> QED
    BY <2>1, <2>2
<1>3. ELogInv /\ FilesInTime /\ [Next]_vars
        => [\A t \in Threads : stage[t] = "fwrite" /\ stage'[t] = "give" => app[held[t].app].file >= held[t].taken]_vars
  <2> SUFFICES ASSUME ELogInv, FilesInTime, [Next]_vars, NEW t \in Threads, stage[t] = "fwrite", stage'[t] = "give"
               PROVE  app[held[t].app].file >= held[t].taken
    OBVIOUS
  <2>1. app[held[t].app].file # NULL
    BY OnlyOpenFilesWritten
  <2>2. held[t].app \in DOMAIN app
    BY DEF ELogInv, ELogType, Holding, Users
  <2>3. app[held[t].app].file \in Nat /\ held[t].taken \in Nat /\ held[t].taken <= app[held[t].app].file
    BY <2>1, <2>2 DEF FilesInTime
  <2> QED
    BY <2>3
<1> QED
  BY <1>1, <1>2, <1>3, PTL DEF Spec, NoLineInOlderFile
-----------------------------------------------------------------------------
(* zvm: a function on its frame                                            *)

LEMMA SetInduction ==
  ASSUME NEW S, 0 \in S, \A n \in Nat : n \in S => n + 1 \in S
  PROVE  Nat \subseteq S
<1> DEFINE T == Nat \ S
<1> SUFFICES ASSUME T # {} PROVE FALSE
  OBVIOUS
<1>1. PICK x \in T : \A y \in T : ~(<<y, x>> \in OpToRel(<, Nat))
  BY NatLessThanWellFounded, WFMin, Zenon
<1>2. x \in Nat /\ x # 0 /\ x \notin S
  OBVIOUS
<1>3. x - 1 \in Nat /\ x - 1 < x /\ (x - 1) + 1 = x
  BY <1>2
<1>4. x - 1 \notin T
  BY <1>1, <1>2, <1>3 DEF OpToRel
<1> QED
  BY <1>2, <1>3, <1>4

Ents == {"user", "null", "inner"}
UsersOf(ent) == {o \in DOMAIN ent : ent[o] = "user"}

\* The heap with its pool and its entities; obj 1 is nobody's.
HeapType(h) ==
  /\ h \in [free : Seq(Nat), ent : Seq(Ents), made : Nat, refs : Int]
  /\ h.made >= 2 /\ Len(h.ent) = h.made /\ h.ent[1] = "null"
  /\ \A i \in 1..Len(h.free) : h.free[i] \in 2..h.made

\* What the count of the user's entity has beside the objs
Balance(h) == h.refs - Cardinality(UsersOf(h.ent))

\* An entity more or less.
LEMMA UsersChange ==
  ASSUME NEW ent \in Seq(Ents), NEW o \in 1..Len(ent), NEW e \in Ents
  PROVE  /\ [ent EXCEPT ![o] = e] \in Seq(Ents) /\ Len([ent EXCEPT ![o] = e]) = Len(ent)
         /\ Cardinality(UsersOf(ent)) \in Nat
         /\ Cardinality(UsersOf([ent EXCEPT ![o] = e])) =
              Cardinality(UsersOf(ent)) + UserRefs(e, 1) - UserRefs(ent[o], 1)
<1> DEFINE new == [ent EXCEPT ![o] = e]
<1>1. Len(ent) \in Nat /\ DOMAIN ent = 1..Len(ent) /\ ent[o] \in Ents
  BY LenProperties, ElementOfSeq
<1>2. new \in [1..Len(ent) -> Ents]
  BY <1>1
<1>3. new \in Seq(Ents) /\ Len(new) = Len(ent)
  <2> HIDE DEF new
  <2>1. new \in Seq(Ents)
    BY <1>1, <1>2, SeqDef
  <2> QED
    BY <1>1, <1>2, <2>1, LenProperties
<1>4. IsFiniteSet(UsersOf(ent)) /\ Cardinality(UsersOf(ent)) \in Nat
  <2>1. UsersOf(ent) \subseteq 1..Len(ent)
    BY <1>1 DEF UsersOf
  <2>2. IsFiniteSet(1..Len(ent))
    BY <1>1, FS_Interval
  <2> QED
    BY <2>1, <2>2, FS_Subset, FS_CardinalityType
<1>5. CASE e = "user"
  <2>1. UsersOf(new) = UsersOf(ent) \cup {o}
    BY <1>1, <1>5 DEF UsersOf
  <2>2. Cardinality(UsersOf(new)) = IF o \in UsersOf(ent) THEN Cardinality(UsersOf(ent))
                                    ELSE Cardinality(UsersOf(ent)) + 1
    BY <1>4, <2>1, FS_AddElement
  <2>3. o \in UsersOf(ent) <=> ent[o] = "user"
    BY <1>1 DEF UsersOf
  <2> HIDE DEF new
  <2>4. Cardinality(UsersOf(new)) = Cardinality(UsersOf(ent)) + UserRefs(e, 1) - UserRefs(ent[o], 1)
    BY <1>4, <1>5, <2>2, <2>3 DEF UserRefs
  <2> QED
    BY <1>3, <1>4, <2>4 DEF new
<1>6. CASE e # "user"
  <2>1. UsersOf(new) = UsersOf(ent) \ {o}
    BY <1>1, <1>6 DEF UsersOf
  <2>2. Cardinality(UsersOf(new)) = IF o \in UsersOf(ent) THEN Cardinality(UsersOf(ent)) - 1
                                    ELSE Cardinality(UsersOf(ent))
    BY <1>4, <2>1, FS_RemoveElement
  <2>3. o \in UsersOf(ent) <=> ent[o] = "user"
    BY <1>1 DEF UsersOf
  <2> HIDE DEF new
  <2>4. Cardinality(UsersOf(new)) = Cardinality(UsersOf(ent)) + UserRefs(e, 1) - UserRefs(ent[o], 1)
    BY <1>4, <1>6, <2>2, <2>3 DEF UserRefs
  <2> QED
    BY <1>3, <1>4, <2>4 DEF new
<1> QED
  BY <1>5, <1>6

\* An obj goes back to the pool.
Returned(h, g, o) ==
  /\ HeapType(g) /\ g.made = h.made /\ Balance(g) = Balance(h)
  /\ Len(g.free) = Len(h.free) + 1
  /\ ToSet(g.free) = ToSet(h.free) \cup {o}

LEMMA DeallocateReturns ==
  ASSUME NEW h, HeapType(h), NEW o \in 2..h.made
  PROVE  Returned(h, Deallocate(h, o), o)
<1> DEFINE g == Deallocate(h, o)
           ent2 == [h.ent EXCEPT ![o] = "null"]
           free2 == <<o>> \o h.free
           refs2 == h.refs - UserRefs(h.ent[o], 1)
<1>1. /\ h \in [free : Seq(Nat), ent : Seq(Ents), made : Nat, refs : Int]
      /\ h.free \in Seq(Nat) /\ h.ent \in Seq(Ents) /\ h.made \in Nat /\ h.refs \in Int
      /\ h.made >= 2 /\ Len(h.ent) = h.made /\ h.ent[1] = "null"
      /\ \A i \in 1..Len(h.free) : h.free[i] \in 2..h.made
  BY DEF HeapType
<1>2. o \in 1..Len(h.ent) /\ o # 1 /\ o \in Nat
  BY <1>1
<1>3. /\ ent2 \in Seq(Ents) /\ Len(ent2) = h.made /\ ent2[1] = "null"
      /\ Cardinality(UsersOf(h.ent)) \in Nat
      /\ Cardinality(UsersOf(ent2)) = Cardinality(UsersOf(h.ent)) - UserRefs(h.ent[o], 1)
  <2>1. "null" \in Ents /\ UserRefs("null", 1) = 0 /\ UserRefs(h.ent[o], 1) \in {0, 1}
    BY DEF Ents, UserRefs
  <2>2. ent2[1] = "null"
    BY <1>1, <1>2
  <2> HIDE DEF ent2
  <2>3. /\ ent2 \in Seq(Ents) /\ Len(ent2) = Len(h.ent)
        /\ Cardinality(UsersOf(h.ent)) \in Nat
        /\ Cardinality(UsersOf(ent2)) = Cardinality(UsersOf(h.ent)) + UserRefs("null", 1) - UserRefs(h.ent[o], 1)
    BY <1>1, <1>2, <2>1, UsersChange DEF ent2
  <2> QED
    BY <1>1, <2>1, <2>2, <2>3
<1>4. /\ free2 \in Seq(Nat) /\ Len(free2) = Len(h.free) + 1 /\ free2[1] = o
      /\ \A i \in 2..(Len(h.free) + 1) : free2[i] = h.free[i - 1]
  <2>1. <<o>> \in Seq(Nat) /\ Len(<<o>>) = 1 /\ <<o>>[1] = o /\ Len(h.free) \in Nat
    BY <1>1, <1>2, LenProperties
  <2>2. /\ free2 \in Seq(Nat) /\ Len(free2) = 1 + Len(h.free)
        /\ \A i \in 1..(1 + Len(h.free)) : free2[i] = IF i <= 1 THEN <<o>>[i] ELSE h.free[i - 1]
    BY <1>1, <2>1, ConcatProperties
  <2> HIDE DEF free2
  <2>3. PICK q \in Nat : q = Len(h.free)
    BY <2>1
  <2>4. /\ Len(free2) = q + 1
        /\ \A i \in 1..(q + 1) : free2[i] = IF i <= 1 THEN <<o>>[i] ELSE h.free[i - 1]
    <3>1. 1 + Len(h.free) = q + 1
      BY <2>3
    <3> QED
      BY <2>2, <3>1, Zenon
  <2>5. free2[1] = o
    <3>1. 1 \in 1..(q + 1) /\ 1 <= 1
      OBVIOUS
    <3> QED
      BY <2>1, <2>4, <3>1
  <2>6. ASSUME NEW i \in 2..(q + 1) PROVE free2[i] = h.free[i - 1]
    <3>1. i \in 1..(q + 1) /\ ~(i <= 1)
      OBVIOUS
    <3> QED
      BY <2>4, <3>1
  <2> QED
    BY <2>2, <2>3, <2>4, <2>5, <2>6
<1>5. g.free = free2 /\ g.ent = ent2 /\ g.made = h.made /\ g.refs = refs2
      /\ g \in [free : Seq(Nat), ent : Seq(Ents), made : Nat, refs : Int]
  <2>1. UserRefs(h.ent[o], 1) \in {0, 1}
    BY DEF UserRefs
  <2>2. refs2 \in Int
    BY <1>1, <2>1
  <2>3. g.free = free2 /\ g.ent = ent2 /\ g.made = h.made /\ g.refs = refs2
    BY <1>1 DEF Deallocate
  <2>4. DOMAIN g = {"free", "ent", "made", "refs"} /\ g = [f \in DOMAIN g |-> g[f]]
    BY <1>1 DEF Deallocate
  <2> HIDE DEF g, free2, ent2, refs2
  <2> QED
    BY <1>1, <1>3, <1>4, <2>2, <2>3, <2>4
<1> HIDE DEF g, free2, ent2
<1>6. Len(h.free) \in Nat
  BY <1>1, LenProperties
<1>7. \A i \in 1..Len(free2) : free2[i] \in 2..h.made
  <2>1. ASSUME NEW i \in 1..Len(free2) PROVE free2[i] \in 2..h.made
    <3>1. CASE i = 1
      BY <1>4, <3>1
    <3>2. CASE i # 1
      <4>1. i \in 2..(Len(h.free) + 1) /\ i - 1 \in 1..Len(h.free)
        BY <1>4, <1>6, <3>2
      <4> QED
        BY <1>1, <1>4, <4>1
    <3> QED
      BY <3>1, <3>2
  <2> QED
    BY <2>1
<1>8. ToSet(free2) = ToSet(h.free) \cup {o}
  <2>1. DOMAIN free2 = 1..(Len(h.free) + 1) /\ DOMAIN h.free = 1..Len(h.free)
    BY <1>1, <1>4, LenProperties
  <2>2. ASSUME NEW x \in ToSet(free2) PROVE x \in ToSet(h.free) \cup {o}
    <3>1. PICK i \in 1..(Len(h.free) + 1) : x = free2[i]
      BY <2>1 DEF ToSet
    <3>2. CASE i = 1
      BY <1>4, <3>1, <3>2
    <3>3. CASE i # 1
      <4>1. i \in 2..(Len(h.free) + 1) /\ i - 1 \in 1..Len(h.free)
        BY <1>6, <3>3
      <4> QED
        BY <1>4, <2>1, <3>1, <4>1 DEF ToSet
    <3> QED
      BY <3>2, <3>3
  <2>3. ASSUME NEW x \in ToSet(h.free) PROVE x \in ToSet(free2)
    <3>1. PICK i \in 1..Len(h.free) : x = h.free[i]
      BY <2>1 DEF ToSet
    <3>2. i + 1 \in 2..(Len(h.free) + 1) /\ i + 1 \in 1..(Len(h.free) + 1) /\ (i + 1) - 1 = i
      BY <1>6
    <3>3. free2[i + 1] = x
      BY <1>4, <3>1, <3>2
    <3> QED
      BY <2>1, <3>2, <3>3 DEF ToSet
  <2>4. o \in ToSet(free2)
    <3>1. 1 \in 1..(Len(h.free) + 1)
      BY <1>6
    <3> QED
      BY <1>4, <2>1, <3>1 DEF ToSet
  <2> QED
    BY <2>2, <2>3, <2>4
<1>9. Balance(g) = Balance(h)
  <2>1. UserRefs(h.ent[o], 1) \in {0, 1}
    BY DEF UserRefs
  <2> QED
    BY <1>1, <1>3, <1>5, <2>1 DEF Balance
<1>10. HeapType(g)
  BY <1>1, <1>3, <1>5, <1>7 DEF HeapType
<1> QED
  BY <1>4, <1>5, <1>8, <1>9, <1>10 DEF Returned, g

\* An obj is made or leaves the pool.
Fresh(h) == IF h.free = <<>> THEN h.made + 1 ELSE Head(h.free)
Given(h, g, o) ==
  /\ HeapType(g) /\ Balance(g) = Balance(h)
  /\ g.made - Len(g.free) = h.made - Len(h.free) + 1
  /\ ToSet(g.free) \cup {o} = ToSet(h.free) \cup {o}
  /\ h.made <= g.made /\ 2..g.made = 2..h.made \cup {o}
  /\ o \in 2..g.made
  /\ o \in 2..h.made => o \in ToSet(h.free)

LEMMA AllocateGives ==
  ASSUME NEW h, HeapType(h), NEW e \in Ents
  PROVE  Given(h, Allocate(h, e), Fresh(h))
<1> DEFINE g == Allocate(h, e)
<1>1. /\ h \in [free : Seq(Nat), ent : Seq(Ents), made : Nat, refs : Int]
      /\ h.free \in Seq(Nat) /\ h.ent \in Seq(Ents) /\ h.made \in Nat /\ h.refs \in Int
      /\ h.made >= 2 /\ Len(h.ent) = h.made /\ h.ent[1] = "null"
      /\ \A i \in 1..Len(h.free) : h.free[i] \in 2..h.made
      /\ Len(h.free) \in Nat /\ DOMAIN h.free = 1..Len(h.free)
  <2>1. h.free \in Seq(Nat)
    BY DEF HeapType
  <2> QED
    BY <2>1, LenProperties DEF HeapType
<1>2. CASE h.free = <<>>
  <2> DEFINE o == h.made + 1
             ent2 == Append(h.ent, e)
             refs2 == h.refs + UserRefs(e, 1)
  <2>1. UserRefs(e, 1) \in {0, 1} /\ refs2 \in Int
    BY <1>1 DEF UserRefs
  <2>2. /\ ent2 \in Seq(Ents) /\ Len(ent2) = o /\ ent2[o] = e
        /\ \A i \in 1..h.made : ent2[i] = h.ent[i]
    BY <1>1, AppendProperties
  <2>3. /\ g.free = <<>> /\ g.ent = ent2 /\ g.made = o /\ g.refs = refs2
        /\ DOMAIN g = {"free", "ent", "made", "refs"} /\ g = [f \in DOMAIN g |-> g[f]]
    BY <1>1, <1>2 DEF Allocate
  <2>4. o \in Nat /\ o \in 2..o /\ o # 1 /\ 2..o = 2..h.made \cup {o} /\ o \notin 2..h.made /\ 1 \in 1..h.made
    BY <1>1
  <2>5. Fresh(h) = o
    BY <1>2 DEF Fresh
  <2> HIDE DEF g, ent2, refs2
  <2>6. g \in [free : Seq(Nat), ent : Seq(Ents), made : Nat, refs : Int]
    <3>1. <<>> \in Seq(Nat)
      OBVIOUS
    <3> QED
      BY <2>1, <2>2, <2>3, <2>4, <3>1
  <2>7. HeapType(g)
    <3>1. Len(g.free) = 0 /\ o >= 2 /\ Len(ent2) = o /\ ent2[1] = "null"
      <4>1. Len(g.free) = 0 /\ Len(ent2) = o
        BY <2>2, <2>3
      <4>2. ent2[1] = h.ent[1]
        BY <2>2, <2>4
      <4>3. o >= 2
        BY <1>1
      <4> QED
        BY <1>1, <4>1, <4>2, <4>3
    <3>2. 1..Len(g.free) = {}
      BY <3>1
    <3> QED
      BY <2>3, <2>6, <3>1, <3>2 DEF HeapType
  <2>8. Cardinality(UsersOf(ent2)) = Cardinality(UsersOf(h.ent)) + UserRefs(e, 1)
        /\ Cardinality(UsersOf(h.ent)) \in Nat
    <3>1. DOMAIN h.ent = 1..h.made /\ DOMAIN ent2 = 1..o
      BY <1>1, <2>2, LenProperties
    <3>2. IsFiniteSet(UsersOf(h.ent)) /\ Cardinality(UsersOf(h.ent)) \in Nat
      <4>1. IsFiniteSet(1..h.made) /\ UsersOf(h.ent) \subseteq 1..h.made
        BY <1>1, <3>1, FS_Interval DEF UsersOf
      <4> QED
        BY <4>1, FS_Subset, FS_CardinalityType
    <3>3. o \notin UsersOf(h.ent)
      BY <1>1, <3>1 DEF UsersOf
    <3>4. \A i \in 1..o : i = o \/ i \in 1..h.made
      BY <1>1
    <3>5. 1..h.made \subseteq 1..o /\ o \in 1..o
      BY <1>1
    <3>6. CASE e = "user"
      <4>1. UsersOf(ent2) = UsersOf(h.ent) \cup {o}
        BY <2>2, <3>1, <3>4, <3>5, <3>6 DEF UsersOf
      <4> QED
        BY <3>2, <3>3, <3>6, <4>1, FS_AddElement DEF UserRefs
    <3>7. CASE e # "user"
      <4>1. UsersOf(ent2) = UsersOf(h.ent)
        BY <2>2, <3>1, <3>4, <3>5, <3>7 DEF UsersOf
      <4> QED
        BY <3>2, <3>7, <4>1 DEF UserRefs
    <3> QED
      BY <3>6, <3>7
  <2>9. Balance(g) = Balance(h)
    BY <1>1, <2>1, <2>3, <2>8 DEF Balance, refs2
  <2>10. g.made - Len(g.free) = h.made - Len(h.free) + 1
    BY <1>1, <1>2, <2>3
  <2>11. ToSet(g.free) = ToSet(h.free)
    BY <1>2, <2>3
  <2>12. h.made <= g.made /\ 2..g.made = 2..h.made \cup {o} /\ o \in 2..g.made
    BY <1>1, <2>3, <2>4
  <2> QED
    BY <2>4, <2>5, <2>7, <2>9, <2>10, <2>11, <2>12 DEF Given, g
<1>3. CASE h.free # <<>>
  <2> DEFINE o == Head(h.free)
             ent2 == [h.ent EXCEPT ![o] = e]
             free2 == Tail(h.free)
             refs2 == h.refs + UserRefs(e, 1) - UserRefs(h.ent[o], 1)
  <2>1. /\ Len(h.free) >= 1 /\ o = h.free[1] /\ free2 \in Seq(Nat) /\ Len(free2) = Len(h.free) - 1
        /\ \A i \in 1..Len(free2) : free2[i] = h.free[i + 1]
    <3>1. Len(h.free) # 0
      BY <1>1, <1>3, EmptySeq
    <3> QED
      BY <1>1, <1>3, <3>1, HeadTailProperties
  <2>2. 1 \in 1..Len(h.free) /\ o \in 2..h.made /\ o \in 1..Len(h.ent) /\ o # 1
    BY <1>1, <2>1
  <2>3. UserRefs(e, 1) \in {0, 1} /\ UserRefs(h.ent[o], 1) \in {0, 1}
    BY DEF UserRefs
  <2>4. /\ g.free = free2 /\ g.ent = ent2 /\ g.made = h.made /\ g.refs = refs2
        /\ DOMAIN g = {"free", "ent", "made", "refs"} /\ g = [f \in DOMAIN g |-> g[f]]
    BY <1>1, <1>3 DEF Allocate
  <2>5. ent2[1] = "null"
    BY <1>1, <2>2
  <2>6. Fresh(h) = o
    BY <1>3 DEF Fresh
  <2> HIDE DEF g, ent2, free2, o
  <2>7. /\ ent2 \in Seq(Ents) /\ Len(ent2) = Len(h.ent) /\ Cardinality(UsersOf(h.ent)) \in Nat
        /\ Cardinality(UsersOf(ent2)) = Cardinality(UsersOf(h.ent)) + UserRefs(e, 1) - UserRefs(h.ent[o], 1)
    BY <1>1, <2>2, UsersChange DEF ent2
  <2>8. Len(free2) \in Nat /\ \A i \in 1..Len(free2) : i + 1 \in 1..Len(h.free)
    BY <1>1, <2>1
  <2>9. HeapType(g)
    <3>1. refs2 \in Int
      BY <1>1, <2>3
    <3> HIDE DEF refs2
    <3>2. g \in [free : Seq(Nat), ent : Seq(Ents), made : Nat, refs : Int]
      BY <1>1, <2>1, <2>4, <2>7, <3>1
    <3>3. \A i \in 1..Len(free2) : free2[i] \in 2..h.made
      BY <1>1, <2>1, <2>8
    <3> QED
      BY <1>1, <2>4, <2>5, <2>7, <3>2, <3>3 DEF HeapType
  <2>10. Balance(g) = Balance(h)
    BY <1>1, <2>3, <2>4, <2>7 DEF Balance
  <2>11. g.made - Len(g.free) = h.made - Len(h.free) + 1
    <3>1. Len(g.free) = Len(h.free) - 1 /\ g.made = h.made
      BY <2>1, <2>4
    <3> QED
      BY <1>1, <3>1
  <2>12. ToSet(free2) \cup {o} = ToSet(h.free) \cup {o} /\ o \in ToSet(h.free)
    <3>1. DOMAIN free2 = 1..Len(free2)
      BY <2>1, LenProperties
    <3>2. \A i \in 1..Len(h.free) : i = 1 \/ (i - 1 \in 1..Len(free2) /\ (i - 1) + 1 = i)
      BY <1>1, <2>1
    <3>3. ASSUME NEW x \in ToSet(free2) PROVE x \in ToSet(h.free)
      <4>1. PICK i \in 1..Len(free2) : x = free2[i]
        BY <3>1 DEF ToSet
      <4> QED
        BY <1>1, <2>1, <2>8, <4>1 DEF ToSet
    <3>4. ASSUME NEW x \in ToSet(h.free) PROVE x \in ToSet(free2) \cup {o}
      <4>1. PICK i \in 1..Len(h.free) : x = h.free[i]
        BY <1>1 DEF ToSet
      <4>2. CASE i = 1
        BY <2>1, <4>1, <4>2
      <4>3. CASE i # 1
        <5>1. i - 1 \in 1..Len(free2) /\ free2[i - 1] = x
          BY <2>1, <3>2, <4>1, <4>3
        <5> QED
          BY <3>1, <5>1 DEF ToSet
      <4> QED
        BY <4>2, <4>3
    <3>5. o \in ToSet(h.free)
      BY <1>1, <2>1, <2>2 DEF ToSet
    <3> QED
      BY <3>3, <3>4, <3>5
  <2>13. 2..g.made = 2..h.made \cup {o} /\ o \in 2..g.made /\ h.made <= g.made
    BY <1>1, <2>2, <2>4
  <2> QED
    BY <2>4, <2>6, <2>9, <2>10, <2>11, <2>12, <2>13 DEF Given, g
<1> QED
  BY <1>2, <1>3

\* A function on 0..n is determined by its first value and by a table of steps.
Stepwise(n, b, step, g) == g[0] = b /\ \A i \in 1..n : g[i] = step[<<i, g[i - 1]>>]
Definable(n, Vals, b, step) == \E g \in [0..n -> Vals] : Stepwise(n, b, step, g)

\* A table of steps has a function that follows it.
LEMMA StepsDefine ==
  ASSUME NEW n \in Nat, NEW Vals, NEW b \in Vals, NEW step \in [(1..n) \X Vals -> Vals]
  PROVE  Definable(n, Vals, b, step)
<1> DEFINE P == {m \in Nat : m <= n => \E g \in [0..m -> Vals] :
                               g[0] = b /\ \A i \in 1..m : g[i] = step[<<i, g[i - 1]>>]}
<1>1. 0 \in P
  <2>1. [i \in 0..0 |-> b] \in [0..0 -> Vals]
    OBVIOUS
  <2>2. [i \in 0..0 |-> b][0] = b /\ 1..0 = {}
    OBVIOUS
  <2> QED
    BY <2>1, <2>2
<1>2. ASSUME NEW m \in Nat, m \in P PROVE m + 1 \in P
  <2> SUFFICES ASSUME m + 1 <= n
               PROVE \E g \in [0..(m + 1) -> Vals] :
                       g[0] = b /\ \A i \in 1..(m + 1) : g[i] = step[<<i, g[i - 1]>>]
    OBVIOUS
  <2>1. PICK g \in [0..m -> Vals] : g[0] = b /\ \A i \in 1..m : g[i] = step[<<i, g[i - 1]>>]
    BY <1>2
  <2>2. m \in 0..m /\ m + 1 \in 1..n /\ g[m] \in Vals
    OBVIOUS
  <2>3. step[<<m + 1, g[m]>>] \in Vals
    BY <2>2
  <2> DEFINE h == [i \in 0..(m + 1) |-> IF i = m + 1 THEN step[<<m + 1, g[m]>>] ELSE g[i]]
  <2>4. h \in [0..(m + 1) -> Vals]
    <3>1. \A i \in 0..(m + 1) : i # m + 1 => i \in 0..m
      OBVIOUS
    <3> QED
      BY <2>3, <3>1
  <2>5. h[0] = b
    BY <2>1
  <2>6. ASSUME NEW i \in 1..(m + 1) PROVE h[i] = step[<<i, h[i - 1]>>]
    <3>1. i - 1 \in 0..(m + 1) /\ i - 1 # m + 1
      OBVIOUS
    <3>2. h[i - 1] = g[i - 1]
      BY <3>1
    <3>3. CASE i = m + 1
      <4>1. h[i] = step[<<m + 1, g[m]>>] /\ i - 1 = m
        BY <3>3
      <4> QED
        BY <3>2, <3>3, <4>1
    <3>4. CASE i # m + 1
      <4>1. i \in 1..m /\ h[i] = g[i]
        BY <3>4
      <4> QED
        BY <2>1, <3>2, <4>1
    <3> QED
      BY <3>3, <3>4
  <2> HIDE DEF h
  <2> QED
    BY <2>4, <2>5, <2>6
<1>3. Nat \subseteq P
  <2> HIDE DEF P
  <2> QED
    BY <1>1, <1>2, SetInduction
<1>4. n \in P
  BY <1>3
<1> QED
  BY <1>4 DEF Definable, Stepwise

\* A local is an integer or an obj.
LocalsType(ls, made) ==
  /\ ls \in Seq(Nat \X {"int", "obj"})
  /\ \A i \in 1..Len(ls) : ls[i][1] \in (IF ls[i][2] = "obj" THEN 2..made ELSE Ints)

Heaps(made) == {h \in [free : Seq(Nat), ent : Seq(Ents), made : Nat, refs : Int] : HeapType(h) /\ h.made = made}

\* The heap after k locals were popped.
PopStep(ls, n, k, h) ==
  IF ls[n - k + 1][2] = "obj" /\ ls[n - k + 1][1] # 0 THEN Deallocate(h, ls[n - k + 1][1]) ELSE h
PopsBy(ls, n, h, g) == g[0] = h /\ \A k \in 1..n : g[k] = PopStep(ls, n, k, g[k - 1])
Poppable(ls, n, h) == \E g \in [0..n -> Heaps(h.made)] : PopsBy(ls, n, h, g)

LEMMA PopsDefined ==
  ASSUME NEW h, HeapType(h), NEW ls, LocalsType(ls, h.made), NEW n, n = Len(ls)
  PROVE  Poppable(ls, n, h)
<1> DEFINE S == Heaps(h.made)
           step == [p \in (1..n) \X S |-> PopStep(ls, n, p[1], p[2])]
<1>1. n \in Nat /\ h \in S
  BY LenProperties DEF LocalsType, HeapType, Heaps
<1>2. ASSUME NEW k \in 1..n, NEW g \in S PROVE PopStep(ls, n, k, g) \in S
  <2>1. n - k + 1 \in 1..Len(ls)
    BY <1>1
  <2>2. ls[n - k + 1][2] = "obj" => ls[n - k + 1][1] \in 2..h.made
    BY <2>1 DEF LocalsType
  <2>3. HeapType(g) /\ g.made = h.made
    BY DEF Heaps
  <2>4. CASE ls[n - k + 1][2] = "obj" /\ ls[n - k + 1][1] # 0
    <3>1. Returned(g, Deallocate(g, ls[n - k + 1][1]), ls[n - k + 1][1])
      BY <2>2, <2>3, <2>4, DeallocateReturns
    <3>2. PopStep(ls, n, k, g) = Deallocate(g, ls[n - k + 1][1])
      BY <2>4 DEF PopStep
    <3>3. HeapType(PopStep(ls, n, k, g)) /\ PopStep(ls, n, k, g).made = h.made
      BY <2>3, <3>1, <3>2 DEF Returned
    <3> QED
      BY <3>3 DEF Heaps, HeapType
  <2>5. CASE ~(ls[n - k + 1][2] = "obj" /\ ls[n - k + 1][1] # 0)
    BY <2>5 DEF PopStep
  <2> QED
    BY <2>4, <2>5
<1>3. step \in [(1..n) \X S -> S]
  <2> HIDE DEF S
  <2>1. \A p \in (1..n) \X S : p[1] \in 1..n /\ p[2] \in S
    OBVIOUS
  <2> QED
    BY <1>2, <2>1
<1> HIDE DEF step, S
<1>4. PICK g \in [0..n -> S] : g[0] = h /\ \A i \in 1..n : g[i] = step[<<i, g[i - 1]>>]
  <2>1. Definable(n, S, h, step)
    BY <1>1, <1>3, StepsDefine
  <2> QED
    BY <2>1 DEF Definable, Stepwise
<1>5. ASSUME NEW i \in 1..n PROVE g[i] = PopStep(ls, n, i, g[i - 1])
  <2>1. i - 1 \in 0..n
    BY <1>1
  <2>2. <<i, g[i - 1]>> \in (1..n) \X S
    BY <2>1
  <2>3. step[<<i, g[i - 1]>>] = PopStep(ls, n, i, g[i - 1])
    BY <2>2 DEF step
  <2> QED
    BY <1>4, <2>3
<1> QED
  BY <1>4, <1>5 DEF Poppable, PopsBy, S

ObjsIn(ls) == {i \in DOMAIN ls : ls[i][2] = "obj"}
AddressesIn(ls) == {ls[i][1] : i \in ObjsIn(ls)}

\* What the last k locals give back.
Top(ls, k) == {i \in ObjsIn(ls) : i > Len(ls) - k}
PoppedTo(ls, h, g, k) ==
  /\ HeapType(g) /\ g.made = h.made /\ Balance(g) = Balance(h)
  /\ Len(g.free) = Len(h.free) + Cardinality(Top(ls, k))
  /\ ToSet(g.free) = ToSet(h.free) \cup {ls[i][1] : i \in Top(ls, k)}

LEMMA PopsGiveBack ==
  ASSUME NEW h, HeapType(h), NEW ls, LocalsType(ls, h.made), NEW n, n = Len(ls),
         NEW g \in [0..n -> Heaps(h.made)], PopsBy(ls, n, h, g)
  PROVE  PoppedTo(ls, h, g[n], n)
<1>1. n \in Nat /\ DOMAIN ls = 1..n /\ Len(h.free) \in Nat
  <2>1. h.free \in Seq(Nat)
    BY DEF HeapType
  <2> QED
    BY <2>1, LenProperties DEF LocalsType
<1>2. ASSUME NEW k PROVE IsFiniteSet(Top(ls, k)) /\ Cardinality(Top(ls, k)) \in Nat
  <2>1. Top(ls, k) \subseteq 1..n /\ IsFiniteSet(1..n)
    BY <1>1, FS_Interval DEF Top, ObjsIn
  <2> QED
    BY <2>1, FS_Subset, FS_CardinalityType
<1> DEFINE P == {k \in Nat : k <= n => PoppedTo(ls, h, g[k], k)}
<1>3. 0 \in P
  <2>1. Top(ls, 0) = {}
    BY <1>1 DEF Top, ObjsIn
  <2>2. Cardinality(Top(ls, 0)) = 0 /\ {ls[i][1] : i \in Top(ls, 0)} = {}
    BY <2>1, FS_EmptySet
  <2>3. g[0] = h
    BY DEF PopsBy
  <2> QED
    BY <1>1, <2>2, <2>3 DEF PoppedTo
<1>4. ASSUME NEW k \in Nat, k \in P PROVE k + 1 \in P
  <2> SUFFICES ASSUME k + 1 <= n PROVE PoppedTo(ls, h, g[k + 1], k + 1)
    BY DEF P
  <2>1. PoppedTo(ls, h, g[k], k)
    BY <1>1, <1>4
  <2>2. k + 1 \in 1..n /\ (k + 1) - 1 = k
    BY <1>1
  <2>3. PICK i \in 1..n : i = n - (k + 1) + 1 /\ i = n - k
    <3>1. n - (k + 1) + 1 = n - k /\ n - k \in 1..n
      BY <1>1
    <3> QED
      BY <3>1
  <2>4. g[k + 1] = PopStep(ls, n, k + 1, g[k])
    BY <2>2 DEF PopsBy
  <2>5. ls[i][1] \in (IF ls[i][2] = "obj" THEN 2..h.made ELSE Ints)
    BY DEF LocalsType
  <2>6. CASE ls[i][2] = "obj"
    <3>1. i \in ObjsIn(ls) /\ i \notin Top(ls, k) /\ Top(ls, k + 1) = Top(ls, k) \cup {i}
      <4>1. \A j \in 1..n : j > n - (k + 1) <=> j > n - k \/ j = i
        BY <1>1, <2>3
      <4> QED
        BY <1>1, <2>3, <2>6, <4>1 DEF Top, ObjsIn
    <3>2. Cardinality(Top(ls, k + 1)) = Cardinality(Top(ls, k)) + 1
      BY <1>2, <3>1, FS_AddElement
    <3>3. ls[i][1] \in 2..h.made /\ ls[i][1] # 0
      BY <2>5, <2>6
    <3>4. g[k + 1] = Deallocate(g[k], ls[i][1])
      BY <2>3, <2>4, <2>6, <3>3 DEF PopStep
    <3>5. Returned(g[k], g[k + 1], ls[i][1])
      BY <2>1, <3>3, <3>4, DeallocateReturns DEF PoppedTo
    <3>6. {ls[j][1] : j \in Top(ls, k + 1)} = {ls[j][1] : j \in Top(ls, k)} \cup {ls[i][1]}
      BY <3>1
    <3>7. Cardinality(Top(ls, k)) \in Nat
      BY <1>2
    <3>8. Len(g[k + 1].free) = Len(h.free) + Cardinality(Top(ls, k + 1))
      <4>1. Len(g[k + 1].free) = Len(g[k].free) + 1 /\ Len(g[k].free) = Len(h.free) + Cardinality(Top(ls, k))
        BY <2>1, <3>5 DEF PoppedTo, Returned
      <4> QED
        BY <1>1, <3>2, <3>7, <4>1
    <3>9. ToSet(g[k + 1].free) = ToSet(h.free) \cup {ls[j][1] : j \in Top(ls, k + 1)}
      BY <2>1, <3>5, <3>6 DEF PoppedTo, Returned
    <3> QED
      BY <2>1, <3>5, <3>8, <3>9 DEF PoppedTo, Returned
  <2>7. CASE ls[i][2] # "obj"
    <3>1. Top(ls, k + 1) = Top(ls, k)
      <4>1. \A j \in 1..n : j > n - (k + 1) <=> j > n - k \/ j = i
        BY <1>1, <2>3
      <4> QED
        BY <1>1, <2>3, <2>7, <4>1 DEF Top, ObjsIn
    <3>2. g[k + 1] = g[k]
      BY <2>3, <2>4, <2>7 DEF PopStep
    <3> QED
      BY <2>1, <3>1, <3>2 DEF PoppedTo
  <2> QED
    BY <2>6, <2>7
<1>5. Nat \subseteq P
  <2> HIDE DEF P
  <2> QED
    BY <1>3, <1>4, SetInduction
<1> QED
  BY <1>1, <1>5

LEMMA PoppedReturns ==
  ASSUME NEW h, HeapType(h), LocalsType(locals, h.made)
  PROVE  /\ HeapType(Popped(h)) /\ Popped(h).made = h.made /\ Balance(Popped(h)) = Balance(h)
         /\ Len(Popped(h).free) = Len(h.free) + Cardinality(ObjLocals)
         /\ ToSet(Popped(h).free) = ToSet(h.free) \cup OnFrame
<1> DEFINE n == Len(locals)
<1>1. n \in Nat /\ DOMAIN locals = 1..n
  BY LenProperties DEF LocalsType
<1>2. PICK g \in [0..n -> Heaps(h.made)] : PopsBy(locals, n, h, g)
  BY PopsDefined DEF Poppable
<1>3. PoppedTo(locals, h, g[n], n)
  BY <1>2, PopsGiveBack
<1> DEFINE F(f) == f = [m \in 0..n |-> IF m = 0 THEN h
                                      ELSE IF locals[n - m + 1][2] = "obj" /\ locals[n - m + 1][1] # 0
                                           THEN Deallocate(f[m - 1], locals[n - m + 1][1]) ELSE f[m - 1]]
           f == CHOOSE x : F(x)
<1>4. Popped(h) = f[n]
  BY DEF Popped
<1>5. F(g)
  <2>1. \A m \in 0..n : m # 0 => m \in 1..n
    OBVIOUS
  <2>2. ASSUME NEW m \in 0..n
        PROVE  g[m] = IF m = 0 THEN h
                      ELSE IF locals[n - m + 1][2] = "obj" /\ locals[n - m + 1][1] # 0
                           THEN Deallocate(g[m - 1], locals[n - m + 1][1]) ELSE g[m - 1]
    BY <1>2, <2>1 DEF PopsBy, PopStep
  <2> QED
    BY <2>2
<1>6. F(f)
  BY <1>5, Zenon
<1> HIDE DEF f
<1> DEFINE Q == {m \in Nat : m <= n => f[m] = g[m]}
<1>7. 0 \in Q
  <2>1. 0 \in 0..n
    BY <1>1
  <2>2. f[0] = h /\ g[0] = h
    BY <1>5, <1>6, <2>1
  <2> QED
    BY <2>2
<1>8. ASSUME NEW m \in Nat, m \in Q PROVE m + 1 \in Q
  <2> SUFFICES ASSUME m + 1 <= n PROVE f[m + 1] = g[m + 1]
    BY DEF Q
  <2>1. m + 1 \in 0..n /\ m + 1 # 0 /\ (m + 1) - 1 = m /\ f[m] = g[m]
    BY <1>1, <1>8
  <2>2. PICK i : i = n - (m + 1) + 1
    OBVIOUS
  <2>3. f[m + 1] = IF locals[i][2] = "obj" /\ locals[i][1] # 0 THEN Deallocate(f[m], locals[i][1]) ELSE f[m]
    BY <1>6, <2>1, <2>2
  <2>4. g[m + 1] = IF locals[i][2] = "obj" /\ locals[i][1] # 0 THEN Deallocate(g[m], locals[i][1]) ELSE g[m]
    BY <1>5, <2>1, <2>2
  <2> QED
    BY <2>1, <2>3, <2>4
<1>9. Nat \subseteq Q
  <2> HIDE DEF Q
  <2> QED
    BY <1>7, <1>8, SetInduction
<1>10. Popped(h) = g[n]
  BY <1>1, <1>4, <1>9
<1>11. Top(locals, n) = ObjLocals
  <2>1. \A i \in 1..n : i > n - n
    BY <1>1
  <2> QED
    BY <1>1, <2>1 DEF Top, ObjsIn, ObjLocals
<1> QED
  BY <1>3, <1>10, <1>11 DEF PoppedTo, OnFrame

LEMMA ImageBound ==
  ASSUME NEW S, IsFiniteSet(S), NEW f, NEW T, T = {f[x] : x \in S}
  PROVE  IsFiniteSet(T) /\ Cardinality(T) <= Cardinality(S)
<1> DEFINE g == [x \in S |-> f[x]]
<1>1. g \in [S -> T] /\ \A t \in T : \E x \in S : g[x] = t
  OBVIOUS
<1> HIDE DEF g
<1>2. g \in Surjection(S, T)
  BY <1>1, Fun_IsSurj
<1> QED
  BY <1>2, FS_Surjection

LEMMA UnionBound ==
  ASSUME NEW S, IsFiniteSet(S), NEW T, IsFiniteSet(T), NEW n \in Nat, NEW m \in Nat,
         Cardinality(S) <= n, Cardinality(T) <= m
  PROVE  IsFiniteSet(S \cup T) /\ Cardinality(S \cup T) <= n + m
<1>1. /\ IsFiniteSet(S \cup T)
      /\ Cardinality(S \cup T) = Cardinality(S) + Cardinality(T) - Cardinality(S \cap T)
  BY FS_Union
<1>2. IsFiniteSet(S \cap T)
  BY FS_Subset
<1>3. Cardinality(S) \in Nat /\ Cardinality(T) \in Nat /\ Cardinality(S \cap T) \in Nat
  BY <1>2, FS_CardinalityType
<1> QED
  BY <1>1, <1>3

\* Where the objs are, as sets and numbers: Once of a state with these values.
RaisedBy(ex, ca) == IF IsObj(ex) /\ ~ca THEN {ex} ELSE {}
OnceAt(h, ls, ra, lo, re) ==
  /\ Len(h.free) + Cardinality(ObjsIn(ls)) + Cardinality(ra) + Cardinality(lo) + 1 = h.made - 1
  /\ ToSet(h.free) \cup AddressesIn(ls) \cup ra \cup lo \cup {This} = 2..h.made
  /\ h.refs = Cardinality({o \in 2..h.made : h.ent[o] = "user"}) + UserRefs(re, 1)

Where(h, n, fr, ra, lo, re) ==
  /\ h.made - Len(h.free) = n + Cardinality(ra) + Cardinality(lo) + 2
  /\ ToSet(h.free) \cup fr \cup ra \cup lo \cup {This} = 2..h.made
  /\ Balance(h) = UserRefs(re, 1)

LEMMA OnceMeans == Once <=> OnceAt(heap, locals, RaisedBy(excp, caught), lost, retObj)
  BY DEF Once, OnceAt, RaisedBy, Raised, Objs, Pooled, OnFrame, ObjLocals, ObjsIn, AddressesIn

LEMMA OnceMeansNext == Once' <=> OnceAt(heap', locals', RaisedBy(excp', caught'), lost', retObj')
  BY DEF Once, OnceAt, RaisedBy, Raised, Objs, Pooled, OnFrame, ObjLocals, ObjsIn, AddressesIn

\* The numbers are numbers.
LEMMA Numbers ==
  ASSUME NEW h, HeapType(h), NEW ls, LocalsType(ls, h.made), NEW lo, lo \subseteq 2..h.made, NEW ex, NEW ca
  PROVE  /\ h.made \in Nat /\ h.free \in Seq(Nat) /\ Len(h.free) \in Nat
         /\ IsFiniteSet(lo) /\ Cardinality(lo) \in Nat
         /\ IsFiniteSet(ObjsIn(ls)) /\ Cardinality(ObjsIn(ls)) \in Nat
         /\ IsFiniteSet(RaisedBy(ex, ca))
         /\ Cardinality(RaisedBy(ex, ca)) = (IF IsObj(ex) /\ ~ca THEN 1 ELSE 0)
         /\ IsFiniteSet(2..h.made) /\ Cardinality(2..h.made) = h.made - 1
<1>1. h.made \in Nat /\ h.made >= 2 /\ h.free \in Seq(Nat) /\ Len(h.free) \in Nat
  <2>1. h.free \in Seq(Nat)
    BY DEF HeapType
  <2> QED
    BY <2>1, LenProperties DEF HeapType
<1>2. IsFiniteSet(2..h.made) /\ Cardinality(2..h.made) = h.made - 1
  <2>1. 2 \in Int /\ h.made \in Int
    BY <1>1
  <2>2. IsFiniteSet(2..h.made) /\ Cardinality(2..h.made) = IF 2 > h.made THEN 0 ELSE h.made - 2 + 1
    BY <2>1, FS_Interval
  <2> QED
    BY <1>1, <2>2
<1>3. IsFiniteSet(lo) /\ Cardinality(lo) \in Nat
  BY <1>2, FS_Subset, FS_CardinalityType
<1>4. IsFiniteSet(ObjsIn(ls)) /\ Cardinality(ObjsIn(ls)) \in Nat
  <2>1. Len(ls) \in Nat /\ DOMAIN ls = 1..Len(ls)
    BY LenProperties DEF LocalsType
  <2>2. ObjsIn(ls) \subseteq 1..Len(ls) /\ IsFiniteSet(1..Len(ls))
    BY <2>1, FS_Interval DEF ObjsIn
  <2> QED
    BY <2>2, FS_Subset, FS_CardinalityType
<1>5. /\ IsFiniteSet(RaisedBy(ex, ca))
      /\ Cardinality(RaisedBy(ex, ca)) = (IF IsObj(ex) /\ ~ca THEN 1 ELSE 0)
  BY FS_EmptySet, FS_Singleton DEF RaisedBy
<1> QED
  BY <1>1, <1>2, <1>3, <1>4, <1>5

\* The numbers that a state adds up.
Adds(h, ls, lo, ra) ==
  /\ h.made \in Nat /\ h.free \in Seq(Nat) /\ Len(h.free) \in Nat
  /\ IsFiniteSet(lo) /\ Cardinality(lo) \in Nat
  /\ IsFiniteSet(ObjsIn(ls)) /\ Cardinality(ObjsIn(ls)) \in Nat
  /\ IsFiniteSet(ra) /\ Cardinality(ra) \in Nat
  /\ IsFiniteSet(2..h.made) /\ Cardinality(2..h.made) = h.made - 1

LEMMA StateAdds ==
  ASSUME NEW h, HeapType(h), NEW ls, LocalsType(ls, h.made), NEW lo, lo \subseteq 2..h.made, NEW ex, NEW ca
  PROVE  Adds(h, ls, lo, RaisedBy(ex, ca))
<1>1. Cardinality(RaisedBy(ex, ca)) = (IF IsObj(ex) /\ ~ca THEN 1 ELSE 0)
  BY Numbers
<1>2. Cardinality(RaisedBy(ex, ca)) \in Nat
  BY <1>1
<1>3. /\ h.made \in Nat /\ h.free \in Seq(Nat) /\ Len(h.free) \in Nat
      /\ IsFiniteSet(lo) /\ Cardinality(lo) \in Nat
      /\ IsFiniteSet(ObjsIn(ls)) /\ Cardinality(ObjsIn(ls)) \in Nat
      /\ IsFiniteSet(RaisedBy(ex, ca))
      /\ IsFiniteSet(2..h.made) /\ Cardinality(2..h.made) = h.made - 1
  BY Numbers
<1> QED
  BY <1>2, <1>3 DEF Adds

LEMMA OnceIsWhere ==
  ASSUME NEW h, HeapType(h), NEW ls, LocalsType(ls, h.made), NEW lo, lo \subseteq 2..h.made, NEW ex, NEW ca, NEW re
  PROVE  OnceAt(h, ls, RaisedBy(ex, ca), lo, re)
           <=> Where(h, Cardinality(ObjsIn(ls)), AddressesIn(ls), RaisedBy(ex, ca), lo, re)
<1>1. /\ h.made \in Nat /\ Len(h.free) \in Nat /\ Cardinality(lo) \in Nat /\ Cardinality(ObjsIn(ls)) \in Nat
      /\ Cardinality(RaisedBy(ex, ca)) \in Nat
  BY StateAdds DEF Adds
<1>2. UsersOf(h.ent) = {o \in 2..h.made : h.ent[o] = "user"}
  <2>1. DOMAIN h.ent = 1..h.made /\ h.ent[1] # "user"
    BY LenProperties DEF HeapType
  <2>2. \A o : o \in 1..h.made /\ o # 1 <=> o \in 2..h.made
    BY <1>1
  <2> QED
    BY <2>1, <2>2 DEF UsersOf
<1>3. h.refs \in Int /\ Cardinality(UsersOf(h.ent)) \in Nat /\ UserRefs(re, 1) \in Nat
  <2>1. UsersOf(h.ent) \subseteq 2..h.made /\ IsFiniteSet(2..h.made)
    BY <1>2, StateAdds DEF Adds
  <2> QED
    BY <2>1, FS_Subset, FS_CardinalityType DEF HeapType, UserRefs
<1>4. h.refs = Cardinality(UsersOf(h.ent)) + UserRefs(re, 1) <=> Balance(h) = UserRefs(re, 1)
  BY <1>3 DEF Balance
<1>5. Len(h.free) + Cardinality(ObjsIn(ls)) + Cardinality(RaisedBy(ex, ca)) + Cardinality(lo) + 1 = h.made - 1
        <=> h.made - Len(h.free) = Cardinality(ObjsIn(ls)) + Cardinality(RaisedBy(ex, ca)) + Cardinality(lo) + 2
  <2>1. PICK a \in Nat, b \in Nat, c \in Nat, d \in Nat, e \in Nat :
           /\ a = h.made /\ b = Len(h.free) /\ c = Cardinality(ObjsIn(ls)) /\ d = Cardinality(RaisedBy(ex, ca))
           /\ e = Cardinality(lo)
    BY <1>1
  <2>2. b + c + d + e + 1 = a - 1 <=> a - b = c + d + e + 2
    OBVIOUS
  <2> QED
    BY <2>1, <2>2
<1> QED
  BY <1>2, <1>4, <1>5 DEF OnceAt, Where

\* An obj that was forgotten is nowhere else.
LEMMA LostIsApart ==
  ASSUME NEW h, HeapType(h), NEW ls, LocalsType(ls, h.made), NEW lo, lo \subseteq 2..h.made, NEW ex, NEW ca, NEW re,
         OnceAt(h, ls, RaisedBy(ex, ca), lo, re)
  PROVE  lo \cap (ToSet(h.free) \cup RaisedBy(ex, ca)) = {}
<1> DEFINE F == ToSet(h.free)
           A == AddressesIn(ls)
           R == RaisedBy(ex, ca)
           V == ((F \cup A) \cup R) \cup {This}
<1>1. /\ h.made \in Nat /\ h.free \in Seq(Nat) /\ Len(h.free) \in Nat
      /\ IsFiniteSet(lo) /\ Cardinality(lo) \in Nat
      /\ IsFiniteSet(ObjsIn(ls)) /\ Cardinality(ObjsIn(ls)) \in Nat
      /\ IsFiniteSet(R) /\ Cardinality(R) \in Nat
      /\ IsFiniteSet(2..h.made) /\ Cardinality(2..h.made) = h.made - 1
  BY StateAdds DEF Adds
<1>2. IsFiniteSet(F) /\ Cardinality(F) <= Len(h.free)
  <2>1. F = {h.free[i] : i \in 1..Len(h.free)}
    BY <1>1, LenProperties DEF ToSet
  <2>2. IsFiniteSet(1..Len(h.free)) /\ Cardinality(1..Len(h.free)) = Len(h.free)
    <3>1. PICK q \in Nat : q = Len(h.free)
      BY <1>1
    <3>2. 1 \in Int /\ q \in Int
      OBVIOUS
    <3>3. IsFiniteSet(1..q) /\ Cardinality(1..q) = IF 1 > q THEN 0 ELSE q - 1 + 1
      BY <3>2, FS_Interval
    <3>4. Cardinality(1..q) = q
      BY <3>3
    <3> QED
      BY <3>1, <3>3, <3>4
  <2> HIDE DEF F
  <2> QED
    BY <2>1, <2>2, ImageBound
<1>3. IsFiniteSet(A) /\ Cardinality(A) <= Cardinality(ObjsIn(ls))
  <2> DEFINE f == [i \in ObjsIn(ls) |-> ls[i][1]]
  <2>1. A = {f[i] : i \in ObjsIn(ls)}
    BY DEF AddressesIn
  <2> HIDE DEF f, A
  <2> QED
    BY <1>1, <2>1, ImageBound
<1> HIDE DEF F, A, R
<1>4. PICK a \in Nat, b \in Nat, c \in Nat, d \in Nat :
         a = Len(h.free) /\ b = Cardinality(ObjsIn(ls)) /\ c = Cardinality(R) /\ d = Cardinality(lo)
  BY <1>1
<1>5. IsFiniteSet(F \cup A) /\ Cardinality(F \cup A) <= a + b
  BY <1>2, <1>3, <1>4, UnionBound
<1>6. IsFiniteSet((F \cup A) \cup R) /\ Cardinality((F \cup A) \cup R) <= (a + b) + c
  <2>1. a + b \in Nat /\ Cardinality(R) <= c
    BY <1>4
  <2> QED
    BY <1>1, <1>5, <2>1, UnionBound
<1>7. IsFiniteSet({This}) /\ Cardinality({This}) = 1
  BY FS_Singleton
<1>8. IsFiniteSet(V) /\ Cardinality(V) <= ((a + b) + c) + 1
  <2>1. (a + b) + c \in Nat /\ 1 \in Nat /\ Cardinality({This}) <= 1
    BY <1>7
  <2> QED
    BY <1>6, <1>7, <2>1, UnionBound
<1>9. IsFiniteSet(V \cup lo)
  BY <1>1, <1>8, FS_Union
<1>10. Cardinality(V \cup lo) = Cardinality(V) + Cardinality(lo) - Cardinality(V \cap lo)
  BY <1>1, <1>8, FS_Union
<1>11. V \cup lo = 2..h.made /\ a + b + c + d + 1 = h.made - 1
  <2>1. V \cup lo = ToSet(h.free) \cup AddressesIn(ls) \cup RaisedBy(ex, ca) \cup lo \cup {This}
    BY DEF F, A, R
  <2>2. Len(h.free) + Cardinality(ObjsIn(ls)) + Cardinality(R) + Cardinality(lo) + 1 = h.made - 1
    BY DEF OnceAt, R
  <2> QED
    BY <1>4, <2>1, <2>2 DEF OnceAt
<1> HIDE DEF V
<1>12. IsFiniteSet(V \cap lo) /\ Cardinality(V \cap lo) \in Nat /\ Cardinality(V) \in Nat
  BY <1>8, FS_Subset, FS_CardinalityType
<1>13. Cardinality(V \cap lo) = 0
  <2>1. Cardinality(V \cup lo) = a + b + c + d + 1
    BY <1>1, <1>11
  <2>2. PICK v \in Nat, x \in Nat : v = Cardinality(V) /\ x = Cardinality(V \cap lo)
    BY <1>12
  <2>3. v <= ((a + b) + c) + 1 /\ v + d - x = a + b + c + d + 1
    BY <1>4, <1>8, <1>10, <2>1, <2>2
  <2>4. x = 0
    BY <2>3
  <2> QED
    BY <2>2, <2>4
<1>14. V \cap lo = {}
  BY <1>12, <1>13, FS_EmptySet
<1> QED
  BY <1>14 DEF V, F, R

\* Locals, exception, forgotten objs and result, beside the heap h.
Kept(ls, ex, ca, lo, re, h) ==
  /\ HeapType(h) /\ LocalsType(ls, h.made)
  /\ ex \in 0..h.made /\ ca \in BOOLEAN /\ (ca => IsObj(ex))
  /\ lo \subseteq 2..h.made /\ re \in Ents
Apart(ls, ex, ca, lo, re, h) ==
  Kept(ls, ex, ca, lo, re, h) /\ OnceAt(h, ls, RaisedBy(ex, ca), lo, re)

LEMMA LocalsGrow ==
  ASSUME NEW m \in Nat, NEW k \in Nat, m <= k, NEW ls, LocalsType(ls, m)
  PROVE  LocalsType(ls, k)
<1>1. 2..m \subseteq 2..k
  OBVIOUS
<1> QED
  BY <1>1 DEF LocalsType

LEMMA KeptGrows ==
  ASSUME NEW ls, NEW ex, NEW ca, NEW lo, NEW re, NEW h, Kept(ls, ex, ca, lo, re, h),
         NEW g, HeapType(g), h.made <= g.made
  PROVE  Kept(ls, ex, ca, lo, re, g)
<1>1. h.made \in Nat /\ g.made \in Nat
  BY DEF Kept, HeapType
<1>2. 2..h.made \subseteq 2..g.made /\ 0..h.made \subseteq 0..g.made
  BY <1>1
<1> QED
  BY <1>1, <1>2, LocalsGrow DEF Kept

\* What Once says, in numbers.
LEMMA ApartIsWhere ==
  ASSUME NEW ls, NEW ex, NEW ca, NEW lo, NEW re, NEW h, Kept(ls, ex, ca, lo, re, h)
  PROVE  /\ Apart(ls, ex, ca, lo, re, h)
              <=> Where(h, Cardinality(ObjsIn(ls)), AddressesIn(ls), RaisedBy(ex, ca), lo, re)
         /\ Adds(h, ls, lo, RaisedBy(ex, ca))
<1>1. HeapType(h) /\ LocalsType(ls, h.made) /\ lo \subseteq 2..h.made
  BY DEF Kept
<1> QED
  BY <1>1, OnceIsWhere, StateAdds DEF Apart

\* A new local
LocalAdded(ls, v, t, m) ==
  LET l2 == Append(ls, <<v, t>>) IN
  /\ LocalsType(l2, m) /\ IsFiniteSet(ObjsIn(ls)) /\ Cardinality(ObjsIn(ls)) \in Nat
  /\ t = "int" => ObjsIn(l2) = ObjsIn(ls) /\ AddressesIn(l2) = AddressesIn(ls)
  /\ t = "obj" => /\ Cardinality(ObjsIn(l2)) = Cardinality(ObjsIn(ls)) + 1
                  /\ AddressesIn(l2) = AddressesIn(ls) \cup {v}

LEMMA LocalIsAdded ==
  ASSUME NEW m \in Nat, NEW ls, LocalsType(ls, m), NEW v \in Nat, NEW t \in {"int", "obj"},
         t = "obj" => v \in 2..m, t = "int" => v \in Ints
  PROVE  LocalAdded(ls, v, t, m)
<1> DEFINE l2 == Append(ls, <<v, t>>)
           n == Len(ls)
<1>1. /\ n \in Nat /\ DOMAIN ls = 1..n /\ ls \in Seq(Nat \X {"int", "obj"})
      /\ l2 \in Seq(Nat \X {"int", "obj"}) /\ Len(l2) = n + 1 /\ l2[n + 1] = <<v, t>>
      /\ \A i \in 1..n : l2[i] = ls[i]
  <2>1. ls \in Seq(Nat \X {"int", "obj"}) /\ <<v, t>> \in Nat \X {"int", "obj"}
    BY DEF LocalsType
  <2> QED
    BY <2>1, AppendProperties, LenProperties
<1> HIDE DEF l2
<1>2. DOMAIN l2 = 1..(n + 1) /\ \A i \in 1..(n + 1) : i \in 1..n \/ i = n + 1
  BY <1>1, LenProperties
<1>3. LocalsType(l2, m)
  <2>1. ASSUME NEW i \in 1..Len(l2) PROVE l2[i][1] \in (IF l2[i][2] = "obj" THEN 2..m ELSE Ints)
    <3>1. CASE i \in 1..n
      BY <1>1, <3>1 DEF LocalsType
    <3>2. CASE i = n + 1
      BY <1>1, <3>2
    <3> QED
      BY <1>1, <1>2, <3>1, <3>2
  <2> QED
    BY <1>1, <2>1 DEF LocalsType
<1>4. IsFiniteSet(ObjsIn(ls)) /\ Cardinality(ObjsIn(ls)) \in Nat /\ n + 1 \notin ObjsIn(ls)
  <2>1. ObjsIn(ls) \subseteq 1..n /\ IsFiniteSet(1..n)
    BY <1>1, FS_Interval DEF ObjsIn
  <2> QED
    BY <1>1, <2>1, FS_Subset, FS_CardinalityType
<1>5. CASE t = "int"
  <2>1. ObjsIn(l2) = ObjsIn(ls)
    BY <1>1, <1>2, <1>5 DEF ObjsIn
  <2>2. AddressesIn(l2) = AddressesIn(ls)
    <3>1. \A i \in ObjsIn(ls) : i \in 1..n
      BY <1>1 DEF ObjsIn
    <3> QED
      BY <1>1, <2>1, <3>1 DEF AddressesIn
  <2> QED
    BY <1>3, <1>4, <1>5, <2>1, <2>2 DEF l2, LocalAdded
<1>6. CASE t = "obj"
  <2>1. ObjsIn(l2) = ObjsIn(ls) \cup {n + 1}
    <3>1. n + 1 \in 1..(n + 1) /\ 1..n \subseteq 1..(n + 1)
      BY <1>1
    <3> QED
      BY <1>1, <1>2, <1>6, <3>1 DEF ObjsIn
  <2>2. AddressesIn(l2) = AddressesIn(ls) \cup {v}
    <3>1. \A i \in ObjsIn(ls) : i \in 1..n
      BY <1>1 DEF ObjsIn
    <3>2. \A i \in ObjsIn(ls) : l2[i][1] = ls[i][1]
      BY <1>1, <3>1
    <3>3. l2[n + 1][1] = v
      BY <1>1
    <3> QED
      BY <2>1, <3>2, <3>3 DEF AddressesIn
  <2>3. Cardinality(ObjsIn(l2)) = Cardinality(ObjsIn(ls)) + 1
    BY <1>4, <2>1, FS_AddElement
  <2> QED
    BY <1>3, <1>4, <1>6, <2>2, <2>3 DEF l2, LocalAdded
<1> QED
  BY <1>5, <1>6

LEMMA ObjAdded ==
  ASSUME NEW m \in Nat, NEW ls, LocalsType(ls, m), NEW v \in 2..m
  PROVE  /\ LocalsType(Append(ls, <<v, "obj">>), m) /\ Cardinality(ObjsIn(ls)) \in Nat
         /\ Cardinality(ObjsIn(Append(ls, <<v, "obj">>))) = Cardinality(ObjsIn(ls)) + 1
         /\ AddressesIn(Append(ls, <<v, "obj">>)) = AddressesIn(ls) \cup {v}
<1>1. PICK t \in {"int", "obj"} : t = "obj"
  OBVIOUS
<1>2. v \in Nat /\ (t = "obj" => v \in 2..m) /\ (t = "int" => v \in Ints)
  BY <1>1
<1>3. LocalAdded(ls, v, t, m)
  BY <1>2, LocalIsAdded
<1> QED
  BY <1>1, <1>3 DEF LocalAdded

LEMMA IntAdded ==
  ASSUME NEW m \in Nat, NEW ls, LocalsType(ls, m), NEW v \in Ints
  PROVE  /\ LocalsType(Append(ls, <<v, "int">>), m)
         /\ ObjsIn(Append(ls, <<v, "int">>)) = ObjsIn(ls)
         /\ AddressesIn(Append(ls, <<v, "int">>)) = AddressesIn(ls)
<1>1. PICK t \in {"int", "obj"} : t = "int"
  OBVIOUS
<1>2. v \in Nat /\ (t = "obj" => v \in 2..m) /\ (t = "int" => v \in Ints)
  BY <1>1 DEF Ints
<1>3. LocalAdded(ls, v, t, m)
  BY <1>2, LocalIsAdded
<1> QED
  BY <1>1, <1>3 DEF LocalAdded

\* An obj that was made goes to a local, ...
LEMMA MadeForLocal ==
  ASSUME NEW ls, NEW ex, NEW ca, NEW lo, NEW re, NEW h, Apart(ls, ex, ca, lo, re, h), NEW e \in Ents
  PROVE  Apart(Append(ls, <<Fresh(h), "obj">>), ex, ca, lo, re, Allocate(h, e))
<1> DEFINE g == Allocate(h, e)
           o == Fresh(h)
           l2 == Append(ls, <<o, "obj">>)
           ra == RaisedBy(ex, ca)
<1>1. Kept(ls, ex, ca, lo, re, h) /\ Given(h, g, o)
  BY AllocateGives DEF Apart, Kept
<1> HIDE DEF g, o
<1>2. Kept(ls, ex, ca, lo, re, g) /\ g.made \in Nat /\ o \in Nat /\ o \in 2..g.made
  BY <1>1, KeptGrows DEF Given, HeapType
<1>3. /\ LocalsType(l2, g.made) /\ Cardinality(ObjsIn(ls)) \in Nat
      /\ Cardinality(ObjsIn(l2)) = Cardinality(ObjsIn(ls)) + 1
      /\ AddressesIn(l2) = AddressesIn(ls) \cup {o}
  <2>1. LocalsType(ls, g.made)
    BY <1>2 DEF Kept
  <2> QED
    BY <1>2, <2>1, ObjAdded
<1> HIDE DEF l2, ra
<1>4. Kept(l2, ex, ca, lo, re, g)
  BY <1>2, <1>3 DEF Kept
<1>5. Where(h, Cardinality(ObjsIn(ls)), AddressesIn(ls), ra, lo, re) /\ Adds(h, ls, lo, ra)
  BY <1>1, ApartIsWhere DEF ra
<1>6. Where(g, Cardinality(ObjsIn(l2)), AddressesIn(l2), ra, lo, re)
  <2>1. ToSet(g.free) \cup AddressesIn(l2) \cup ra \cup lo \cup {This} = 2..g.made
    BY <1>1, <1>3, <1>5 DEF Where, Given
  <2>2. g.made - Len(g.free) = Cardinality(ObjsIn(l2)) + Cardinality(ra) + Cardinality(lo) + 2
    BY <1>1, <1>3, <1>5 DEF Where, Given, Adds
  <2> QED
    BY <1>1, <1>5, <2>1, <2>2 DEF Where, Given
<1> QED
  BY <1>4, <1>6, ApartIsWhere DEF l2, ra, g, o

\* ... is forgotten, ...
LEMMA MadeForNobody ==
  ASSUME NEW ls, NEW ex, NEW ca, NEW lo, NEW re, NEW h, Apart(ls, ex, ca, lo, re, h), NEW e \in Ents
  PROVE  Apart(ls, ex, ca, lo \cup {Fresh(h)}, re, Allocate(h, e))
<1> DEFINE g == Allocate(h, e)
           o == Fresh(h)
           ra == RaisedBy(ex, ca)
           l2 == lo \cup {o}
<1>1. Kept(ls, ex, ca, lo, re, h) /\ Given(h, g, o) /\ OnceAt(h, ls, ra, lo, re)
  BY AllocateGives DEF Apart, Kept
<1> HIDE DEF g, o
<1>2. Kept(ls, ex, ca, lo, re, g) /\ o \in 2..g.made
  BY <1>1, KeptGrows DEF Given
<1>3. o \notin lo
  <2>1. lo \cap ToSet(h.free) = {} /\ lo \subseteq 2..h.made
    BY <1>1, LostIsApart DEF Kept
  <2> QED
    BY <1>1, <2>1 DEF Given
<1>4. Kept(ls, ex, ca, l2, re, g)
  BY <1>2 DEF Kept
<1>5. Where(h, Cardinality(ObjsIn(ls)), AddressesIn(ls), ra, lo, re) /\ Adds(h, ls, lo, ra)
  BY <1>1, ApartIsWhere
<1> HIDE DEF ra
<1>6. Cardinality(l2) = Cardinality(lo) + 1
  BY <1>3, <1>5, FS_AddElement DEF Adds
<1> HIDE DEF l2
<1>7. Where(g, Cardinality(ObjsIn(ls)), AddressesIn(ls), ra, l2, re)
  <2>1. ToSet(g.free) \cup AddressesIn(ls) \cup ra \cup l2 \cup {This} = 2..g.made
    BY <1>1, <1>5 DEF Where, Given, l2
  <2>2. g.made - Len(g.free) = Cardinality(ObjsIn(ls)) + Cardinality(ra) + Cardinality(l2) + 2
    BY <1>1, <1>5, <1>6 DEF Where, Given, Adds
  <2> QED
    BY <1>1, <1>5, <2>1, <2>2 DEF Where, Given
<1> QED
  BY <1>4, <1>7, ApartIsWhere DEF l2, ra, g, o

\* ... or is raised.
LEMMA MadeForException ==
  ASSUME NEW ls, NEW lo, NEW re, NEW h, NEW x, ~IsObj(x), Apart(ls, x, FALSE, lo, re, h), NEW e \in Ents
  PROVE  Apart(ls, Fresh(h), FALSE, lo, re, Allocate(h, e)) /\ IsObj(Fresh(h))
<1> DEFINE g == Allocate(h, e)
           o == Fresh(h)
<1>1. Kept(ls, x, FALSE, lo, re, h) /\ Given(h, g, o)
  BY AllocateGives DEF Apart, Kept
<1> HIDE DEF g, o
<1>2. Kept(ls, x, FALSE, lo, re, g) /\ o \in 2..g.made /\ g.made \in Nat
  BY <1>1, KeptGrows DEF Given, HeapType
<1>3. IsObj(o) /\ o \in 0..g.made
  BY <1>2 DEF IsObj
<1>4. Kept(ls, o, FALSE, lo, re, g)
  BY <1>2, <1>3 DEF Kept
<1>5. RaisedBy(x, FALSE) = {} /\ RaisedBy(o, FALSE) = {o}
  BY <1>3 DEF RaisedBy
<1>6. Where(h, Cardinality(ObjsIn(ls)), AddressesIn(ls), {}, lo, re) /\ Adds(h, ls, lo, {})
  BY <1>1, <1>5, ApartIsWhere
<1>7. Cardinality({}) = 0 /\ Cardinality({o}) = 1
  BY FS_EmptySet, FS_Singleton
<1>8. Where(g, Cardinality(ObjsIn(ls)), AddressesIn(ls), {o}, lo, re)
  <2>1. ToSet(g.free) \cup AddressesIn(ls) \cup {o} \cup lo \cup {This} = 2..g.made
    BY <1>1, <1>6 DEF Where, Given
  <2>2. g.made - Len(g.free) = Cardinality(ObjsIn(ls)) + Cardinality({o}) + Cardinality(lo) + 2
    BY <1>1, <1>6, <1>7 DEF Where, Given, Adds
  <2> QED
    BY <1>1, <1>6, <2>1, <2>2 DEF Where, Given
<1> QED
  BY <1>3, <1>4, <1>5, <1>8, ApartIsWhere DEF g, o

Forgotten(lo, ex, ca) == IF ca \/ ~IsObj(ex) THEN lo ELSE lo \cup {ex}

\* An exception is replaced by a number: an obj of it that nobody gave back is
\* forgotten.
LEMMA ExceptionReplaced ==
  ASSUME NEW ls, NEW ex, NEW ca, NEW lo, NEW re, NEW h, Apart(ls, ex, ca, lo, re, h), NEW v \in {0, 1}
  PROVE  Apart(ls, v, FALSE, Forgotten(lo, ex, ca), re, h)
<1> DEFINE l2 == Forgotten(lo, ex, ca)
           ra == RaisedBy(ex, ca)
<1>1. Kept(ls, ex, ca, lo, re, h) /\ OnceAt(h, ls, ra, lo, re) /\ h.made \in Nat /\ h.made >= 2
  BY DEF Apart, Kept, HeapType
<1>2. l2 = lo \cup ra
  BY DEF RaisedBy, Forgotten
<1>3. lo \cap ra = {}
  BY <1>1, LostIsApart DEF Kept
<1>4. l2 \subseteq 2..h.made
  <2>1. ex \in 0..h.made /\ lo \subseteq 2..h.made
    BY <1>1 DEF Kept
  <2>2. IsObj(ex) => ex \in 2..h.made
    BY <1>1, <2>1 DEF IsObj
  <2> QED
    BY <1>2, <2>1, <2>2 DEF RaisedBy
<1>5. Kept(ls, v, FALSE, l2, re, h)
  <2>1. v \in 0..h.made
    BY <1>1
  <2> QED
    BY <1>1, <1>4, <2>1 DEF Kept
<1>6. RaisedBy(v, FALSE) = {}
  BY DEF RaisedBy, IsObj
<1>7. Where(h, Cardinality(ObjsIn(ls)), AddressesIn(ls), ra, lo, re) /\ Adds(h, ls, lo, ra)
  BY <1>1, ApartIsWhere
<1> HIDE DEF ra, l2
<1>8. Cardinality(l2) = Cardinality(lo) + Cardinality(ra)
  <2>1. Cardinality(lo \cup ra) = Cardinality(lo) + Cardinality(ra) - Cardinality(lo \cap ra)
    BY <1>7, FS_Union DEF Adds
  <2>2. Cardinality(lo \cap ra) = 0
    BY <1>3, FS_EmptySet
  <2> QED
    BY <1>2, <1>7, <2>1, <2>2 DEF Adds
<1>9. Where(h, Cardinality(ObjsIn(ls)), AddressesIn(ls), {}, l2, re)
  <2>1. Cardinality({}) = 0
    BY FS_EmptySet
  <2>2. h.made - Len(h.free) = Cardinality(ObjsIn(ls)) + Cardinality({}) + Cardinality(l2) + 2
    BY <1>7, <1>8, <2>1 DEF Where, Adds
  <2>3. ToSet(h.free) \cup AddressesIn(ls) \cup {} \cup l2 \cup {This} = 2..h.made
    BY <1>2, <1>7 DEF Where
  <2> QED
    BY <1>7, <2>2, <2>3 DEF Where
<1> QED
  BY <1>5, <1>6, <1>9, ApartIsWhere DEF l2

\* A handler gives the exception back.
LEMMA ExceptionGivenBack ==
  ASSUME NEW ls, NEW ex, NEW ca, NEW lo, NEW re, NEW h, Kept(ls, ex, ca, lo, re, h), IsObj(ex)
  PROVE  /\ Kept(ls, ex, TRUE, lo, re, Deallocate(h, ex))
         /\ Apart(ls, ex, FALSE, lo, re, h) => Apart(ls, ex, TRUE, lo, re, Deallocate(h, ex))
<1> DEFINE g == Deallocate(h, ex)
<1>1. ex \in 2..h.made
  BY DEF Kept, IsObj
<1>2. HeapType(h) /\ Returned(h, g, ex)
  BY <1>1, DeallocateReturns DEF Kept
<1> HIDE DEF g
<1>3. g.made = h.made /\ h.made \in Nat /\ HeapType(g)
  BY <1>2 DEF Returned, HeapType
<1>4. Kept(ls, ex, TRUE, lo, re, g)
  BY <1>3 DEF Kept
<1>5. ASSUME Apart(ls, ex, FALSE, lo, re, h) PROVE Apart(ls, ex, TRUE, lo, re, g)
  <2>1. RaisedBy(ex, FALSE) = {ex} /\ RaisedBy(ex, TRUE) = {}
    BY DEF RaisedBy
  <2>2. Kept(ls, ex, FALSE, lo, re, h)
    BY <1>5 DEF Apart
  <2>3. Where(h, Cardinality(ObjsIn(ls)), AddressesIn(ls), {ex}, lo, re) /\ Adds(h, ls, lo, {ex})
    BY <1>5, <2>1, <2>2, ApartIsWhere
  <2>4. Cardinality({}) = 0 /\ Cardinality({ex}) = 1
    BY FS_EmptySet, FS_Singleton
  <2>5. Where(g, Cardinality(ObjsIn(ls)), AddressesIn(ls), {}, lo, re)
    <3>1. ToSet(g.free) \cup AddressesIn(ls) \cup {} \cup lo \cup {This} = 2..g.made
      BY <1>2, <1>3, <2>3 DEF Where, Returned
    <3>2. g.made - Len(g.free) = Cardinality(ObjsIn(ls)) + Cardinality({}) + Cardinality(lo) + 2
      <4>1. PICK a \in Nat, b \in Nat, c \in Nat, d \in Nat :
               a = h.made /\ b = Len(h.free) /\ c = Cardinality(ObjsIn(ls)) /\ d = Cardinality(lo)
        BY <2>3 DEF Adds
      <4>2. g.made = a /\ Len(g.free) = b + 1 /\ a - b = c + 1 + d + 2
        BY <1>2, <2>3, <2>4, <4>1 DEF Where, Returned
      <4>3. a - (b + 1) = c + 0 + d + 2
        BY <4>2
      <4> QED
        BY <2>4, <4>1, <4>2, <4>3
    <3> QED
      BY <1>2, <2>3, <3>1, <3>2 DEF Where, Returned
  <2> QED
    BY <1>4, <2>1, <2>5, ApartIsWhere
<1> QED
  BY <1>4, <1>5 DEF g

\* Locals that are integers are nowhere.
LEMMA IntegersChange ==
  ASSUME NEW ls, NEW ex, NEW ca, NEW lo, NEW re, NEW h, Apart(ls, ex, ca, lo, re, h),
         NEW l2, LocalsType(l2, h.made), ObjsIn(l2) = ObjsIn(ls), AddressesIn(l2) = AddressesIn(ls)
  PROVE  Apart(l2, ex, ca, lo, re, h)
  BY DEF Apart, Kept, OnceAt

\* The frame is left.
\* A frame is left.
LEMMA FrameKept ==
  ASSUME NEW ex, NEW ca, NEW lo, NEW re, NEW h, Kept(locals, ex, ca, lo, re, h)
  PROVE  Kept(<<>>, ex, ca, lo, re, Popped(h)) /\ Popped(h).made = h.made
<1>1. HeapType(Popped(h)) /\ Popped(h).made = h.made
  BY PoppedReturns DEF Kept
<1>2. LocalsType(<<>>, Popped(h).made)
  BY DEF LocalsType
<1> QED
  BY <1>1, <1>2 DEF Kept

LEMMA FrameLeft ==
  ASSUME NEW ex, NEW ca, NEW lo, NEW re, NEW h, Apart(locals, ex, ca, lo, re, h)
  PROVE  Apart(<<>>, ex, ca, lo, re, Popped(h))
<1> DEFINE g == Popped(h)
           ra == RaisedBy(ex, ca)
<1>1. Kept(locals, ex, ca, lo, re, h)
  BY DEF Apart
<1>2. /\ HeapType(g) /\ g.made = h.made /\ Balance(g) = Balance(h)
      /\ Len(g.free) = Len(h.free) + Cardinality(ObjLocals)
      /\ ToSet(g.free) = ToSet(h.free) \cup OnFrame
  BY <1>1, PoppedReturns DEF Kept
<1>3. ObjLocals = ObjsIn(locals) /\ OnFrame = AddressesIn(locals)
  BY DEF ObjLocals, ObjsIn, OnFrame, AddressesIn
<1> HIDE DEF g
<1>4. ObjsIn(<<>>) = {} /\ AddressesIn(<<>>) = {}
  BY DEF ObjsIn, AddressesIn
<1>5. LocalsType(<<>>, g.made)
  BY DEF LocalsType
<1>6. Kept(<<>>, ex, ca, lo, re, g)
  BY <1>1, <1>2, <1>5 DEF Kept
<1>7. Where(h, Cardinality(ObjsIn(locals)), AddressesIn(locals), ra, lo, re) /\ Adds(h, locals, lo, ra)
  BY <1>1, ApartIsWhere
<1> HIDE DEF ra
<1>8. Where(g, Cardinality({}), {}, ra, lo, re)
  <2>1. Cardinality({}) = 0
    BY FS_EmptySet
  <2>2. g.made - Len(g.free) = Cardinality({}) + Cardinality(ra) + Cardinality(lo) + 2
    <3>1. PICK a \in Nat, b \in Nat, c \in Nat, d \in Nat, e \in Nat :
             /\ a = h.made /\ b = Len(h.free) /\ c = Cardinality(ObjsIn(locals))
             /\ d = Cardinality(lo) /\ e = Cardinality(ra)
      BY <1>7 DEF Adds
    <3>2. g.made = a /\ Len(g.free) = b + c /\ a - b = c + e + d + 2
      BY <1>2, <1>3, <1>7, <3>1 DEF Where
    <3>3. a - (b + c) = 0 + e + d + 2
      BY <3>2
    <3> QED
      BY <2>1, <3>1, <3>2, <3>3
  <2>3. ToSet(g.free) \cup {} \cup ra \cup lo \cup {This} = 2..g.made
    BY <1>2, <1>3, <1>7 DEF Where
  <2> QED
    BY <1>2, <1>7, <2>2, <2>3 DEF Where
<1> QED
  BY <1>4, <1>6, <1>8, ApartIsWhere DEF g, ra

\* Another result
LEMMA ResultChanges ==
  ASSUME NEW ls, NEW ex, NEW ca, NEW lo, NEW re, NEW h, Apart(ls, ex, ca, lo, re, h),
         NEW r2 \in Ents, NEW g,
         g = [h EXCEPT !.refs = h.refs + UserRefs(r2, 1) - UserRefs(re, 1)]
  PROVE  Apart(ls, ex, ca, lo, r2, g) /\ g.made = h.made
<1>1. Kept(ls, ex, ca, lo, re, h) /\ HeapType(h)
  BY DEF Apart, Kept
<1>2. UserRefs(r2, 1) \in {0, 1} /\ UserRefs(re, 1) \in {0, 1} /\ h.refs \in Int
  BY <1>1 DEF UserRefs, HeapType
<1>3. /\ g.free = h.free /\ g.ent = h.ent /\ g.made = h.made /\ g.refs = h.refs + UserRefs(r2, 1) - UserRefs(re, 1)
      /\ g \in [free : Seq(Nat), ent : Seq(Ents), made : Nat, refs : Int]
  <2>1. h \in [free : Seq(Nat), ent : Seq(Ents), made : Nat, refs : Int]
    BY <1>1 DEF HeapType
  <2>2. h.refs + UserRefs(r2, 1) - UserRefs(re, 1) \in Int
    BY <1>2
  <2> QED
    BY <2>1, <2>2
<1>4. HeapType(g)
  BY <1>1, <1>3 DEF HeapType
<1>5. Kept(ls, ex, ca, lo, r2, g)
  BY <1>1, <1>3, <1>4 DEF Kept
<1>6. OnceAt(g, ls, RaisedBy(ex, ca), lo, r2)
  <2>1. PICK n \in Nat : n = Cardinality({o \in 2..h.made : h.ent[o] = "user"})
    <3>1. IsFiniteSet({o \in 2..h.made : h.ent[o] = "user"})
      <4>1. IsFiniteSet(2..h.made)
        BY <1>1, StateAdds DEF Kept, Adds
      <4> QED
        BY <4>1, FS_Subset
    <3> QED
      BY <3>1, FS_CardinalityType
  <2>2. OnceAt(h, ls, RaisedBy(ex, ca), lo, re)
    BY DEF Apart
  <2>3. h.refs = n + UserRefs(re, 1)
    BY <2>1, <2>2 DEF OnceAt
  <2>4. g.refs = n + UserRefs(r2, 1)
    BY <1>2, <1>3, <2>3
  <2> QED
    BY <1>3, <2>1, <2>2, <2>4 DEF OnceAt
<1> QED
  BY <1>3, <1>5, <1>6 DEF Apart

\* The registers and the op stack hold integers and addresses.
RegsType(a, b, s, m) == a \in 0..m /\ b \in 0..m /\ s \in Seq(0..m)

LEMMA RegsGrow ==
  ASSUME NEW m \in Nat, NEW k \in Nat, m <= k, NEW a, NEW b, NEW s, RegsType(a, b, s, m)
  PROVE  RegsType(a, b, s, k)
<1>1. 0..m \subseteq 0..k
  OBVIOUS
<1>2. s \in Seq(0..k)
  <2>1. s \in Seq(0..m)
    BY DEF RegsType
  <2> HIDE DEF RegsType
  <2>2. Len(s) \in Nat /\ s \in [1..Len(s) -> 0..m]
    BY <2>1, LenProperties
  <2>3. s \in [1..Len(s) -> 0..k]
    BY <1>1, <2>2
  <2> QED
    BY <2>2, <2>3, SeqDef
<1> QED
  BY <1>1, <1>2 DEF RegsType

\* Before an operation, and after it: what is in place stays apart, and the
\* result and the place it goes on at are those of Ends.
Ready(o) ==
  /\ Apart(locals, excp, caught, lost, retObj, heap) /\ RegsType(eax, ebx, opStack, heap.made)
  /\ o \in Ops /\ pc \in Nat
Stays == Apart(locals', excp', caught', lost', retObj', heap') /\ RegsType(eax', ebx', opStack', heap'.made)
\* An init function may have failed (f) where the operation succeeds.
Ran(r, p, f) == ret' = r /\ pc' = (IF r = "ok" THEN At(p) ELSE 0) /\ failed' = (failed \/ f \/ pc' = 0)
Continues == \E r, p, f :
  /\ p \in Nat /\ f \in BOOLEAN /\ Ran(r, p, f)
  /\ (excp' = excp /\ ~f) \/ r # "ok" \/ (f /\ excp' # 0)

LEMMA ReadyTypes ==
  ASSUME NEW o, Ready(o)
  PROVE  /\ heap.made \in Nat /\ heap.made >= 2 /\ Ints \subseteq 0..heap.made
         /\ eax \in 0..heap.made /\ ebx \in 0..heap.made /\ opStack \in Seq(0..heap.made)
         /\ Kept(locals, excp, caught, lost, retObj, heap) /\ HeapType(heap) /\ LocalsType(locals, heap.made)
         /\ \A i \in DOMAIN locals : locals[i][1] \in 0..heap.made
         /\ o.arg \in Nat /\ (o.op \in {"ICONST", "ICONSTA", "PUSH_ICONST"} => o.arg \in Ints)
         /\ Far \in Nat /\ pc \in Nat
<1>1. Kept(locals, excp, caught, lost, retObj, heap) /\ HeapType(heap) /\ LocalsType(locals, heap.made)
  BY DEF Ready, Apart, Kept
<1>2. heap.made \in Nat /\ heap.made >= 2
  BY <1>1 DEF HeapType
<1>3. Ints \subseteq 0..heap.made
  BY <1>2 DEF Ints
<1>4. \A i \in DOMAIN locals : locals[i][1] \in 0..heap.made
  <2>1. DOMAIN locals = 1..Len(locals)
    BY <1>1, LenProperties DEF LocalsType
  <2>2. ASSUME NEW i \in DOMAIN locals PROVE locals[i][1] \in 0..heap.made
    <3>1. locals[i][1] \in (IF locals[i][2] = "obj" THEN 2..heap.made ELSE Ints)
      BY <1>1, <2>1 DEF LocalsType
    <3>2. 2..heap.made \subseteq 0..heap.made
      BY <1>2
    <3> QED
      BY <1>3, <3>1, <3>2
  <2> QED
    BY <2>2
<1>5. o.arg \in Nat /\ (o.op \in {"ICONST", "ICONSTA", "PUSH_ICONST"} => o.arg \in Ints) /\ Far \in Nat
  BY CodeAssumption DEF Ready, Ints, Far
<1> QED
  BY <1>1, <1>2, <1>3, <1>4, <1>5 DEF Ready, RegsType

LEMMA UntouchedStays ==
  ASSUME NEW o, Ready(o), locals' = locals, objVarsKept, RegsType(eax', ebx', opStack', heap.made)
  PROVE  Stays /\ excp' = excp
  BY DEF Ready, objVarsKept, Stays

LEMMA EndContinues ==
  ASSUME NEW r, NEW p \in Nat, Ends(r, p), excp' = excp \/ r # "ok"
  PROVE  Continues
<1>1. Ran(r, p, FALSE)
  BY DEF Ends, Ran
<1> QED
  BY <1>1 DEF Continues

LEMMA OpStackPops ==
  ASSUME NEW m \in Nat, opStack \in Seq(0..m)
  PROVE  TopOp \in 0..m /\ (IF opStack = <<>> THEN opStack ELSE Front(opStack)) \in Seq(0..m)
<1>1. CASE opStack = <<>>
  BY <1>1 DEF TopOp
<1>2. CASE opStack # <<>>
  <2>1. Len(opStack) \in Nat /\ Len(opStack) # 0 /\ DOMAIN opStack = 1..Len(opStack)
    BY <1>2, EmptySeq, LenProperties
  <2>2. \A i \in 1..Len(opStack) : opStack[i] \in 0..m
    BY <2>1, ElementOfSeq
  <2>3. Last(opStack) \in 0..m
    BY <2>1, <2>2 DEF Last
  <2>4. Front(opStack) \in Seq(0..m)
    <3> DEFINE f == [i \in 1..(Len(opStack) - 1) |-> opStack[i]]
    <3>1. Len(opStack) - 1 \in Nat /\ \A i \in 1..(Len(opStack) - 1) : opStack[i] \in 0..m
      BY <2>1, <2>2
    <3>2. f \in Seq(0..m)
      BY <3>1, IsASeq
    <3>3. Front(opStack) = f
      BY <2>1 DEF Front
    <3> QED
      BY <3>2, <3>3
  <2> QED
    BY <1>2, <2>3, <2>4 DEF TopOp
<1> QED
  BY <1>1, <1>2

LEMMA MoveStays ==
  ASSUME NEW o, Ready(o), Move(o)
  PROVE  Stays /\ Continues
<1>1. RegsType(eax', ebx', opStack', heap.made)
  BY ReadyTypes DEF Move, Sets, RegsType
<1>2. Stays /\ excp' = excp
  BY <1>1, UntouchedStays DEF Move
<1>3. Continues
  BY <1>2, ReadyTypes, EndContinues DEF Move, Succeeds
<1> QED
  BY <1>2, <1>3

LEMMA PushStays ==
  ASSUME NEW o, Ready(o), NEW v \in 0..heap.made, PushOp(v), excp' = excp
  PROVE  opStack' \in Seq(0..heap.made) /\ Continues
<1>1. opStack \in Seq(0..heap.made) /\ pc \in Nat
  BY ReadyTypes
<1>2. CASE Len(opStack) < OpStackMax
  <2>1. opStack' = Append(opStack, v) /\ Ends("ok", pc)
    BY <1>2 DEF PushOp, Succeeds
  <2>2. Append(opStack, v) \in Seq(0..heap.made)
    BY <1>1, AppendProperties
  <2> QED
    BY <1>1, <2>1, <2>2, EndContinues
<1>3. CASE ~(Len(opStack) < OpStackMax)
  <2>1. opStack' = opStack /\ Ends("overflow", pc)
    BY <1>3 DEF PushOp, Fails
  <2> QED
    BY <1>1, <2>1, EndContinues
<1> QED
  BY <1>2, <1>3

LEMMA OnOpStackStays ==
  ASSUME NEW o, Ready(o), OnOpStack(o)
  PROVE  Stays /\ Continues
<1>1. locals' = locals /\ objVarsKept /\ excp' = excp
  BY DEF OnOpStack, objVarsKept
<1>2. ASSUME NEW v \in 0..heap.made, PushOp(v), RegsKept PROVE Stays /\ Continues
  <2>1. opStack' \in Seq(0..heap.made) /\ Continues
    BY <1>1, <1>2, PushStays
  <2>2. RegsType(eax', ebx', opStack', heap.made)
    BY <1>2, <2>1, ReadyTypes DEF RegsKept, RegsType
  <2> QED
    BY <1>1, <2>1, <2>2, UntouchedStays
<1>3. CASE PushOp(eax) /\ RegsKept
  BY <1>2, <1>3, ReadyTypes
<1>4. CASE o.op = "ICONST" /\ PushOp(o.arg) /\ RegsKept
  BY <1>2, <1>4, ReadyTypes
<1>5. CASE o.arg \in DOMAIN locals /\ PushOp(locals[o.arg][1]) /\ RegsKept
  BY <1>2, <1>5, ReadyTypes
<1>6. CASE Sets(TopOp, ebx) /\ PopOp /\ Succeeds
  <2>1. RegsType(eax', ebx', opStack', heap.made)
    BY <1>6, ReadyTypes, OpStackPops DEF Sets, PopOp, RegsType
  <2>2. Continues
    BY <1>1, <1>6, ReadyTypes, EndContinues DEF Succeeds
  <2> QED
    BY <1>1, <2>1, <2>2, UntouchedStays
<1> QED
  BY <1>3, <1>4, <1>5, <1>6 DEF OnOpStack

LEMMA ConstantStays ==
  ASSUME NEW o, Ready(o), Constant(o)
  PROVE  Stays /\ Continues
<1>1. RegsType(eax', ebx', opStack', heap.made)
  BY ReadyTypes DEF Constant, Sets, RegsType
<1>2. Stays /\ excp' = excp
  BY <1>1, UntouchedStays DEF Constant
<1>3. Continues
  BY <1>2, ReadyTypes, EndContinues DEF Constant, Succeeds
<1> QED
  BY <1>2, <1>3

LEMMA LocalIsSet ==
  ASSUME NEW m \in Nat, LocalsType(locals, m), NEW i, NEW v, SetLocal(i, v)
  PROVE  /\ LocalsType(locals', m) /\ ObjsIn(locals') = ObjsIn(locals)
         /\ AddressesIn(locals') = AddressesIn(locals)
<1>1. /\ i \in DOMAIN locals /\ locals[i][2] = "int" /\ v \in Ints
      /\ locals' = [locals EXCEPT ![i] = [locals[i] EXCEPT ![1] = v]]
  BY DEF SetLocal
<1>2. DOMAIN locals = 1..Len(locals) /\ locals \in Seq(Nat \X {"int", "obj"})
  BY LenProperties DEF LocalsType
<1>3. [locals[i] EXCEPT ![1] = v] = <<v, "int">>
  <2>1. locals[i] \in Nat \X {"int", "obj"}
    BY <1>1, <1>2, ElementOfSeq
  <2> QED
    BY <1>1, <2>1
<1>4. locals' = [locals EXCEPT ![i] = <<v, "int">>]
  BY <1>1, <1>3
<1>5. /\ locals' \in Seq(Nat \X {"int", "obj"}) /\ Len(locals') = Len(locals) /\ DOMAIN locals' = DOMAIN locals
      /\ \A j \in DOMAIN locals : locals'[j] = IF j = i THEN <<v, "int">> ELSE locals[j]
  <2>1. <<v, "int">> \in Nat \X {"int", "obj"}
    BY <1>1 DEF Ints
  <2>2. i \in 1..Len(locals) /\ DOMAIN locals' = DOMAIN locals
    BY <1>1, <1>2, <1>4
  <2>3. /\ [locals EXCEPT ![i] = <<v, "int">>] \in Seq(Nat \X {"int", "obj"})
        /\ Len([locals EXCEPT ![i] = <<v, "int">>]) = Len(locals)
        /\ \A j \in 1..Len(locals) : [locals EXCEPT ![i] = <<v, "int">>][j] = IF j = i THEN <<v, "int">> ELSE locals[j]
    BY <1>2, <2>1, <2>2, ExceptSeq
  <2> QED
    BY <1>2, <1>4, <2>2, <2>3
<1>6. ObjsIn(locals') = ObjsIn(locals)
  BY <1>1, <1>5 DEF ObjsIn
<1>7. AddressesIn(locals') = AddressesIn(locals)
  <2>1. \A j \in ObjsIn(locals) : j \in DOMAIN locals /\ j # i
    BY <1>1 DEF ObjsIn
  <2>2. \A j \in ObjsIn(locals) : locals'[j] = locals[j]
    BY <1>5, <2>1
  <2> QED
    BY <1>6, <2>2 DEF AddressesIn
<1>8. ASSUME NEW j \in 1..Len(locals') PROVE locals'[j][1] \in (IF locals'[j][2] = "obj" THEN 2..m ELSE Ints)
  <2>1. CASE j = i
    BY <1>1, <1>2, <1>5, <2>1
  <2>2. CASE j # i
    <3>1. locals'[j] = locals[j] /\ j \in 1..Len(locals)
      BY <1>2, <1>5, <2>2
    <3> QED
      BY <3>1 DEF LocalsType
  <2> QED
    BY <2>1, <2>2
<1> QED
  BY <1>5, <1>6, <1>7, <1>8 DEF LocalsType

LEMMA StoreLocalStays ==
  ASSUME NEW o, Ready(o), StoreLocal(o)
  PROVE  Stays /\ Continues
<1>1. objVarsKept /\ excp' = excp /\ RegsKept /\ Succeeds
  BY DEF StoreLocal, objVarsKept
<1>2. /\ LocalsType(locals', heap.made) /\ ObjsIn(locals') = ObjsIn(locals)
      /\ AddressesIn(locals') = AddressesIn(locals)
  <2>1. heap.made \in Nat /\ LocalsType(locals, heap.made)
    BY ReadyTypes
  <2>2. \E v : SetLocal(o.arg, v)
    BY DEF StoreLocal
  <2> QED
    BY <2>1, <2>2, LocalIsSet
<1>3. RegsType(eax', ebx', opStack', heap.made)
  BY <1>1, ReadyTypes, OpStackPops DEF StoreLocal, RegsKept, PopOp, RegsType
<1>4. Apart(locals', excp, caught, lost, retObj, heap)
  BY <1>2, IntegersChange DEF Ready
<1>5. Continues
  BY <1>1, ReadyTypes, EndContinues DEF Succeeds
<1> QED
  BY <1>1, <1>3, <1>4, <1>5 DEF objVarsKept, Stays

LEMMA ArithmeticStays ==
  ASSUME NEW o, Ready(o), Arithmetic(o)
  PROVE  Stays /\ Continues
<1>1. RegsType(eax', ebx', opStack', heap.made)
  BY ReadyTypes DEF Arithmetic, RegsType
<1>2. Stays /\ excp' = excp
  BY <1>1, UntouchedStays DEF Arithmetic
<1>3. Continues
  BY <1>2, ReadyTypes, EndContinues DEF Arithmetic, Succeeds, Fails
<1> QED
  BY <1>2, <1>3

LEMMA MonitorStays ==
  ASSUME NEW o, Ready(o), Monitor(o)
  PROVE  Stays /\ Continues
<1>1. RegsType(eax', ebx', opStack', heap.made)
  BY ReadyTypes DEF Monitor, RegsKept, RegsType
<1>2. Stays /\ excp' = excp
  BY <1>1, UntouchedStays DEF Monitor
<1>3. Continues
  BY <1>2, ReadyTypes, EndContinues DEF Monitor, Succeeds, Fails
<1> QED
  BY <1>2, <1>3

LEMMA PushIntStays ==
  ASSUME NEW o, Ready(o), PushInt(o)
  PROVE  Stays /\ Continues
<1>1. RegsKept /\ opStack' = opStack /\ objVarsKept /\ excp' = excp
  BY DEF PushInt, objVarsKept
<1>2. RegsType(eax', ebx', opStack', heap.made)
  BY <1>1, ReadyTypes DEF RegsKept, RegsType
<1>3. \E v \in Ints : PushLocal(v, "int")
  BY ReadyTypes DEF PushInt
<1>4. PICK v \in Ints : PushLocal(v, "int")
  BY <1>3
<1>5. CASE Len(locals) < FrameMax
  <2>1. locals' = Append(locals, <<v, "int">>) /\ Ends("ok", pc)
    BY <1>4, <1>5 DEF PushLocal, Succeeds
  <2>2. /\ LocalsType(locals', heap.made) /\ ObjsIn(locals') = ObjsIn(locals)
        /\ AddressesIn(locals') = AddressesIn(locals)
    BY <2>1, ReadyTypes, IntAdded
  <2>3. Apart(locals', excp, caught, lost, retObj, heap)
    BY <2>2, IntegersChange DEF Ready
  <2>4. Continues
    BY <1>1, <2>1, ReadyTypes, EndContinues
  <2> QED
    BY <1>1, <1>2, <2>3, <2>4 DEF objVarsKept, Stays
<1>6. CASE ~(Len(locals) < FrameMax)
  <2>1. locals' = locals /\ Ends("overflow", pc)
    BY <1>4, <1>6 DEF PushLocal, Fails
  <2>2. Continues
    BY <1>1, <2>1, ReadyTypes, EndContinues
  <2> QED
    BY <1>1, <1>2, <2>1, <2>2, UntouchedStays
<1> QED
  BY <1>5, <1>6

\* The obj that is made next
LEMMA NextIsFresh == NextObj = Fresh(heap)
  BY DEF NextObj, Fresh

LEMMA MadeGrows ==
  ASSUME NEW h, HeapType(h), NEW e \in Ents, NEW a, NEW b, NEW s, RegsType(a, b, s, h.made)
  PROVE  RegsType(a, b, s, Allocate(h, e).made)
<1>1. HeapType(Allocate(h, e)) /\ h.made <= Allocate(h, e).made
  BY AllocateGives DEF Given
<1>2. h.made \in Nat /\ Allocate(h, e).made \in Nat
  BY <1>1 DEF HeapType
<1> QED
  BY <1>1, <1>2, RegsGrow

LEMMA EntitiesAre ==
  ASSUME NEW h, HeapType(h), NEW v, v \in 0..h.made, IsObj(v)
  PROVE  h.ent[v] \in Ents
<1>1. v \in 1..Len(h.ent) /\ h.ent \in Seq(Ents)
  BY DEF HeapType, IsObj
<1> QED
  BY <1>1, ElementOfSeq

LEMMA PushObjStays ==
  ASSUME NEW o, Ready(o), PushObj(o)
  PROVE  Stays /\ Continues
<1>1. /\ RegsKept /\ opStack' = opStack /\ retObj' = retObj /\ excp' = excp /\ caught' = caught
      /\ PushLocal(Fresh(heap), "obj")
      /\ lost' = IF Len(locals) < FrameMax THEN lost ELSE lost \cup {Fresh(heap)}
  BY NextIsFresh DEF PushObj
<1>2. HeapType(heap) /\ pc \in Nat /\ RegsType(eax', ebx', opStack', heap.made)
  BY <1>1, ReadyTypes DEF RegsKept, RegsType
<1>3. \E e \in Ents : heap' = Allocate(heap, e)
  <2>1. CASE IsObj(eax) /\ heap' = Dup(eax)
    <3>1. heap.ent[eax] \in Ents
      BY <2>1, ReadyTypes, EntitiesAre
    <3> QED
      BY <2>1, <3>1 DEF Dup
  <2>2. CASE heap' = Allocate(heap, "null")
    BY <2>2 DEF Ents
  <2> QED
    BY <2>1, <2>2 DEF PushObj
<1>4. PICK e \in Ents : heap' = Allocate(heap, e)
  BY <1>3
<1>5. RegsType(eax', ebx', opStack', heap'.made)
  BY <1>2, <1>4, MadeGrows
<1>6. Apart(locals, excp, caught, lost, retObj, heap)
  BY DEF Ready
<1>7. CASE Len(locals) < FrameMax
  <2>1. locals' = Append(locals, <<Fresh(heap), "obj">>) /\ Ends("ok", pc) /\ lost' = lost
    BY <1>1, <1>7 DEF PushLocal, Succeeds
  <2>2. Apart(locals', excp, caught, lost, retObj, heap')
    BY <1>4, <1>6, <2>1, MadeForLocal
  <2>3. Continues
    BY <1>1, <1>2, <2>1, EndContinues
  <2> QED
    BY <1>1, <1>5, <2>1, <2>2, <2>3 DEF Stays
<1>8. CASE ~(Len(locals) < FrameMax)
  <2>1. locals' = locals /\ Ends("overflow", pc) /\ lost' = lost \cup {Fresh(heap)}
    BY <1>1, <1>8 DEF PushLocal, Fails
  <2>2. Apart(locals, excp, caught, lost', retObj, heap')
    BY <1>4, <1>6, <2>1, MadeForNobody
  <2>3. Continues
    BY <1>1, <1>2, <2>1, EndContinues
  <2> QED
    BY <1>1, <1>5, <2>1, <2>2, <2>3 DEF Stays
<1> QED
  BY <1>7, <1>8

LEMMA RaiseReplaces ==
  ASSUME NEW v \in {0, 1}, Apart(locals, excp, caught, lost, retObj, heap), NEW w, Raise(w)
  PROVE  Apart(locals, v, FALSE, lost', retObj, heap)
<1>1. lost' = Forgotten(lost, excp, caught)
  BY DEF Raise, Forgotten
<1>2. Apart(locals, v, FALSE, Forgotten(lost, excp, caught), retObj, heap)
  BY ExceptionReplaced
<1> QED
  BY <1>1, <1>2

LEMMA ThrowStays ==
  ASSUME NEW o, Ready(o), Throw(o)
  PROVE  Stays /\ Continues
<1>1. /\ RegsKept /\ opStack' = opStack /\ locals' = locals /\ retObj' = retObj
      /\ heap' = Dup(eax) /\ Raise(Fresh(heap)) /\ Ends("athrow", pc)
      /\ IsObj(eax) /\ pc \in Nat /\ HeapType(heap)
  BY NextIsFresh, ReadyTypes DEF Throw, Fails
<1>2. Apart(locals, 0, FALSE, lost', retObj, heap)
  BY <1>1, RaiseReplaces DEF Ready
<1>3. heap.ent[eax] \in Ents /\ heap' = Allocate(heap, heap.ent[eax])
  BY <1>1, ReadyTypes, EntitiesAre DEF Dup
<1>4. Apart(locals, Fresh(heap), FALSE, lost', retObj, heap')
  <2>1. ~IsObj(0)
    BY DEF IsObj
  <2> QED
    BY <1>2, <1>3, <2>1, MadeForException
<1>5. RegsType(eax', ebx', opStack', heap'.made)
  <2>1. RegsType(eax', ebx', opStack', heap.made)
    BY <1>1 DEF RegsKept, Ready, RegsType
  <2> QED
    BY <1>1, <1>3, <2>1, MadeGrows
<1>6. Continues
  BY <1>1, EndContinues
<1> QED
  BY <1>1, <1>4, <1>5, <1>6 DEF Raise, Stays

LEMMA JumpStays ==
  ASSUME NEW o, Ready(o), Jump(o)
  PROVE  Stays /\ Continues
<1>1. RegsType(eax', ebx', opStack', heap.made)
  BY ReadyTypes DEF Jump, RegsKept, RegsType
<1>2. Stays /\ excp' = excp
  BY <1>1, UntouchedStays DEF Jump
<1>3. o.arg \in Nat /\ pc \in Nat
  BY ReadyTypes
<1>4. \E p \in Nat : Ends("ok", p)
  BY <1>3 DEF Jump
<1>5. Continues
  BY <1>2, <1>4, EndContinues
<1> QED
  BY <1>2, <1>5

LEMMA ReturnStays ==
  ASSUME NEW o, Ready(o), Return(o)
  PROVE  Stays /\ Continues
<1>1. opStack' = opStack /\ locals' = locals /\ excp' = excp /\ caught' = caught /\ lost' = lost
  BY DEF Return
<1>2. /\ Apart(locals, excp, caught, lost, retObj, heap) /\ RegsType(eax, ebx, opStack, heap.made)
      /\ pc \in Nat /\ Far \in Nat /\ HeapType(heap)
  BY ReadyTypes DEF Ready
<1>3. RegsType(eax', ebx', opStack', heap.made)
  BY <1>1, ReadyTypes DEF Return, RegsKept, Sets, RegsType
<1>4. CASE Ends("ok", Far) /\ UNCHANGED <<heap, retObj>>
  <2>1. Continues
    BY <1>1, <1>2, <1>4, EndContinues
  <2> QED
    BY <1>1, <1>2, <1>3, <1>4, <2>1 DEF Stays
<1>5. CASE Fails("out_of_mem") /\ UNCHANGED <<heap, retObj>>
  <2>1. Continues
    BY <1>1, <1>2, <1>5, EndContinues DEF Fails
  <2> QED
    BY <1>1, <1>2, <1>3, <1>5, <2>1 DEF Stays
<1>6. CASE /\ IsObj(eax) /\ retObj' = heap.ent[eax] /\ Ends("ok", Far)
           /\ heap' = [heap EXCEPT !.refs = @ + UserRefs(heap.ent[eax], 1) - UserRefs(retObj, 1)]
  <2>1. Continues
    BY <1>1, <1>2, <1>6, EndContinues
  <2>2. retObj' \in Ents
    BY <1>2, <1>6, EntitiesAre DEF RegsType
  <2>3. heap' = [heap EXCEPT !.refs = heap.refs + UserRefs(retObj', 1) - UserRefs(retObj, 1)]
    BY <1>6
  <2>4. Apart(locals, excp, caught, lost, retObj', heap') /\ heap'.made = heap.made
    BY <1>2, <2>2, <2>3, ResultChanges
  <2> QED
    BY <1>1, <1>3, <2>1, <2>4 DEF Stays
<1> QED
  BY <1>4, <1>5, <1>6 DEF Return

LEMMA NewStays ==
  ASSUME NEW o, Ready(o), New(o)
  PROVE  Stays /\ Continues
<1>1. opStack' = opStack /\ locals' = locals /\ heap' = heap /\ retObj' = retObj /\ pc \in Nat
  BY ReadyTypes DEF New
<1>2. RegsType(eax', ebx', opStack', heap.made)
  BY <1>1, ReadyTypes DEF New, RegsKept, Sets, RegsType
<1>3. CASE Raise(AccessNull) /\ Fails("access_null")
  <2>1. Apart(locals, 1, FALSE, lost', retObj, heap)
    BY <1>3, RaiseReplaces DEF Ready
  <2>2. Continues
    BY <1>1, <1>3, EndContinues DEF Fails
  <2> QED
    BY <1>1, <1>2, <1>3, <2>1, <2>2 DEF Raise, AccessNull, Stays
<1>4. CASE Succeeds /\ UNCHANGED <<excp, caught, lost>>
  <2>1. Continues
    BY <1>1, <1>4, EndContinues DEF Succeeds
  <2> QED
    BY <1>1, <1>2, <1>4, <2>1 DEF Ready, Stays
<1> QED
  BY <1>3, <1>4 DEF New

\* The exception an init function leaves, before a handler gives it back.
LEMMA ProcessedRaises ==
  ASSUME NEW o, Ready(o), NEW i,
         i \in [fails : {"no", "status", "throw", "null"}, catch : {"no", "keep", "give"}, left : 1..(W - 1)],
         Processed(i)
  PROVE  \E e, h0, given, c0 :
           LET forgets == i.fails \in {"throw", "null"}
           IN  /\ c0 \in BOOLEAN /\ (c0 => caught) /\ Apart(locals, e, c0, lost', retObj, h0)
               /\ RegsType(eax, ebx, opStack, h0.made) /\ (i.fails # "no" => e # 0) /\ (i.fails = "no" => e = excp)
               /\ given = (i.fails # "no" /\ i.catch = "give") /\ (given => IsObj(e))
               /\ excp' = e /\ caught' = (IF given THEN TRUE ELSE c0)
               /\ heap' = Popped(IF given THEN Deallocate(h0, e) ELSE h0)
<1> DEFINE new == i.fails = "throw" \/ (i.fails = "status" /\ excp = 0)
           forgets == i.fails \in {"throw", "null"}
           e == IF new THEN NextObj ELSE IF i.fails = "null" THEN AccessNull ELSE excp
           h0 == IF ~new THEN heap ELSE IF i.fails = "throw" THEN Dup(This) ELSE Allocate(heap, "inner")
           given == i.fails # "no" /\ i.catch = "give"
<1>1. /\ given => IsObj(e)
      /\ excp' = e /\ caught' = (given \/ (caught /\ ~forgets))
      /\ lost' = IF forgets /\ ~caught /\ IsObj(excp) THEN lost \cup {excp} ELSE lost
      /\ heap' = Popped(IF given THEN Deallocate(h0, e) ELSE h0)
  BY Zenon DEF Processed
<1>2. /\ Apart(locals, excp, caught, lost, retObj, heap) /\ RegsType(eax, ebx, opStack, heap.made) /\ HeapType(heap)
      /\ caught \in BOOLEAN /\ (caught => IsObj(excp))
  BY ReadyTypes DEF Ready, Kept
<1>3. PICK c0 \in BOOLEAN : c0 = (caught /\ ~forgets)
  OBVIOUS
<1>4. caught' = (IF given THEN TRUE ELSE c0) /\ (c0 => caught)
  BY <1>1, <1>3
<1>5. /\ Apart(locals, e, c0, lost', retObj, h0) /\ RegsType(eax, ebx, opStack, h0.made)
      /\ i.fails # "no" => e # 0
      /\ i.fails = "no" => e = excp
  <2>1. CASE i.fails = "no" \/ (i.fails = "status" /\ excp # 0)
    <3>1. e = excp /\ h0 = heap /\ lost' = lost /\ c0 = caught
      BY <1>1, <1>2, <1>3, <2>1
    <3> HIDE DEF e, h0
    <3> QED
      BY <1>2, <2>1, <3>1
  <2>2. CASE i.fails = "status" /\ excp = 0
    <3>1. caught = FALSE /\ ~IsObj(excp) /\ c0 = FALSE
      BY <1>2, <1>3, <2>2 DEF IsObj
    <3>2. e = Fresh(heap) /\ h0 = Allocate(heap, "inner") /\ lost' = lost
      BY <1>1, <2>2, NextIsFresh
    <3> HIDE DEF e, h0
    <3>3. "inner" \in Ents /\ Apart(locals, excp, FALSE, lost, retObj, heap)
      BY <1>2, <3>1 DEF Ents
    <3>4. Apart(locals, Fresh(heap), FALSE, lost, retObj, Allocate(heap, "inner")) /\ IsObj(Fresh(heap))
      BY <3>1, <3>3, MadeForException
    <3>5. RegsType(eax, ebx, opStack, Allocate(heap, "inner").made)
      BY <1>2, <3>3, MadeGrows
    <3>6. e # 0
      BY <3>2, <3>4 DEF IsObj
    <3> QED
      BY <2>2, <3>1, <3>2, <3>4, <3>5, <3>6
  <2>3. CASE forgets
    <3>1. lost' = Forgotten(lost, excp, caught) /\ c0 = FALSE
      BY <1>1, <1>2, <1>3, <2>3 DEF Forgotten
    <3>2. Apart(locals, 0, FALSE, lost', retObj, heap) /\ Apart(locals, 1, FALSE, lost', retObj, heap)
      BY <1>2, <3>1, ExceptionReplaced
    <3>3. CASE i.fails = "null"
      <4>1. e = 1 /\ h0 = heap /\ i.fails # "no"
        BY <3>3 DEF AccessNull
      <4> HIDE DEF e, h0, forgets
      <4>2. Apart(locals, e, c0, lost', retObj, h0)
        BY <3>1, <3>2, <4>1, Zenon
      <4>3. RegsType(eax, ebx, opStack, h0.made)
        BY <1>2, <4>1
      <4> QED
        BY <4>1, <4>2, <4>3
    <3>4. CASE i.fails = "throw"
      <4>1. ~IsObj(0)
        BY DEF IsObj
      <4>2. PICK en \in Ents : en = heap.ent[This]
        <5>1. This \in 0..heap.made /\ IsObj(This)
          BY <1>2 DEF HeapType, This, IsObj
        <5> QED
          BY <1>2, <5>1, EntitiesAre
      <4>3. e = Fresh(heap) /\ h0 = Allocate(heap, en)
        BY <3>4, <4>2, NextIsFresh DEF Dup
      <4> HIDE DEF e, h0, forgets
      <4>4. Apart(locals, Fresh(heap), FALSE, lost', retObj, Allocate(heap, en)) /\ IsObj(Fresh(heap))
        BY <3>2, <4>1, MadeForException
      <4>5. RegsType(eax, ebx, opStack, Allocate(heap, en).made)
        BY <1>2, MadeGrows
      <4>6. e # 0
        BY <4>3, <4>4 DEF IsObj
      <4> QED
        BY <3>1, <3>4, <4>3, <4>4, <4>5, <4>6
    <3> QED
      BY <2>3, <3>3, <3>4
  <2> QED
    BY <2>1, <2>2, <2>3
<1> HIDE DEF e, h0, new
<1> QED
  BY <1>1, <1>4, <1>5

\* What an init function leaves is of its type, and apart unless a handler of
\* its own gives an exception back that was given back before.
LEMMA ProcessedStays ==
  ASSUME NEW o, Ready(o), NEW i, opStack' = opStack, retObj' = retObj,
         i \in [fails : {"no", "status", "throw", "null"}, catch : {"no", "keep", "give"}, left : 1..(W - 1)],
         Processed(i)
  PROVE  /\ Kept(locals', excp', caught', lost', retObj', heap') /\ RegsType(eax', ebx', opStack', heap'.made)
         /\ Stays \/ (caught /\ i.catch = "give")
         /\ Continues
<1>1. PICK e, h0, given, c0 :
        /\ c0 \in BOOLEAN /\ (c0 => caught) /\ Apart(locals, e, c0, lost', retObj, h0)
        /\ RegsType(eax, ebx, opStack, h0.made) /\ (i.fails # "no" => e # 0) /\ (i.fails = "no" => e = excp)
        /\ given = (i.fails # "no" /\ i.catch = "give") /\ (given => IsObj(e))
        /\ excp' = e /\ caught' = (IF given THEN TRUE ELSE c0)
        /\ heap' = Popped(IF given THEN Deallocate(h0, e) ELSE h0)
  BY ProcessedRaises
<1>2. /\ locals' = <<>> /\ eax' \in {0, 1} /\ ebx' = ebx
      /\ ret' = "ok" /\ pc' = At(i.left) /\ failed' = (failed \/ i.fails # "no" \/ pc' = 0)
  BY DEF Processed, Sets
<1>4. PICK h1 : h1 = (IF given THEN Deallocate(h0, e) ELSE h0)
  OBVIOUS
<1>5. Kept(locals, e, c0, lost', retObj, h0) /\ Apart(locals, e, c0, lost', retObj, h0)
  BY <1>1 DEF Apart
<1>6. /\ Kept(locals, e, caught', lost', retObj, h1) /\ h1.made = h0.made
      /\ Apart(locals, e, caught', lost', retObj, h1) \/ (caught /\ i.catch = "give")
  <2>1. CASE ~given
    <3>1. h1 = h0 /\ caught' = c0
      BY <1>1, <1>4, <2>1
    <3> QED
      BY <1>5, <3>1
  <2>2. CASE given
    <3>1. h1 = Deallocate(h0, e) /\ caught' = TRUE /\ IsObj(e)
      BY <1>1, <1>4, <2>2
    <3>2. /\ Kept(locals, e, TRUE, lost', retObj, Deallocate(h0, e))
          /\ Apart(locals, e, FALSE, lost', retObj, h0) => Apart(locals, e, TRUE, lost', retObj, Deallocate(h0, e))
      BY <1>5, <3>1, ExceptionGivenBack
    <3>3. Deallocate(h0, e).made = h0.made
      <4>1. h0 \in [free : Seq(Nat), ent : Seq(Ents), made : Nat, refs : Int]
        BY <1>5 DEF Kept, HeapType
      <4> QED
        BY <4>1 DEF Deallocate
    <3>4. CASE c0 = FALSE
      BY <1>5, <3>1, <3>2, <3>3, <3>4
    <3>5. CASE c0 = TRUE
      BY <1>1, <1>4, <2>2, <3>1, <3>2, <3>3, <3>5
    <3> QED
      BY <1>1, <3>4, <3>5
  <2> QED
    BY <1>1, <2>1, <2>2
<1>7. heap' = Popped(h1) /\ excp' = e
  BY <1>1, <1>4
<1>8. Kept(<<>>, e, caught', lost', retObj, Popped(h1)) /\ Popped(h1).made = h1.made
  BY <1>6, FrameKept
<1>9. Kept(locals', excp', caught', lost', retObj', heap') /\ heap'.made = h0.made
  BY <1>2, <1>6, <1>7, <1>8
<1>10. RegsType(eax', ebx', opStack', heap'.made)
  <2>1. h0.made \in Nat /\ h0.made >= 2
    BY <1>5 DEF Kept, HeapType
  <2>2. eax' \in 0..h0.made
    BY <1>2, <2>1
  <2> QED
    BY <1>1, <1>2, <1>9, <2>2 DEF RegsType
<1>11. Stays \/ (caught /\ i.catch = "give")
  <2>1. CASE Apart(locals, e, caught', lost', retObj, h1)
    <3>1. Apart(<<>>, e, caught', lost', retObj, Popped(h1))
      BY <2>1, FrameLeft
    <3> QED
      BY <1>2, <1>7, <1>10, <3>1 DEF Stays
  <2> QED
    BY <1>6, <2>1
<1>12. Continues
  <2>1. i.left \in Nat
    BY CodeAssumption
  <2>2. PICK f \in BOOLEAN : f = (i.fails # "no")
    OBVIOUS
  <2>3. Ran("ok", i.left, f)
    BY <1>2, <2>2 DEF Ran
  <2>4. (excp' = excp /\ ~f) \/ (f /\ excp' # 0)
    BY <1>1, <2>2
  <2> QED
    BY <2>1, <2>3, <2>4 DEF Continues
<1> QED
  BY <1>9, <1>10, <1>11, <1>12

\* An operation keeps the types, and everything apart but for that case.
Follows == Kept(locals', excp', caught', lost', retObj', heap') /\ RegsType(eax', ebx', opStack', heap'.made)
Again(o) == caught /\ o.op = "AINIT" /\ initEnd.catch = "give"

LEMMA StaysFollows == Stays => Follows
  BY DEF Stays, Follows, Apart

LEMMA InitObjStays ==
  ASSUME NEW o, Ready(o), initEnd \in InitEnds, InitObj(o)
  PROVE  Follows /\ (Stays \/ Again(o)) /\ Continues
<1>1. o.op = "AINIT" /\ opStack' = opStack /\ retObj' = retObj /\ pc \in Nat
  BY ReadyTypes DEF InitObj
<1>2. CASE Raise(AccessNull) /\ Fails("access_null") /\ RegsKept /\ UNCHANGED <<locals, heap>>
  <2>1. Apart(locals, 1, FALSE, lost', retObj, heap)
    BY <1>2, RaiseReplaces DEF Ready
  <2>2. Continues
    BY <1>1, <1>2, EndContinues DEF Fails
  <2>3. RegsType(eax', ebx', opStack', heap.made)
    BY <1>1, <1>2, ReadyTypes DEF RegsKept, RegsType
  <2> QED
    BY <1>1, <1>2, <2>1, <2>2, <2>3, StaysFollows DEF Raise, AccessNull, Stays
<1>3. CASE Succeeds /\ Sets(0, ebx) /\ UNCHANGED locals /\ objVarsKept
  <2>1. RegsType(eax', ebx', opStack', heap.made)
    BY <1>1, <1>3, ReadyTypes DEF Sets, RegsType, Ints
  <2>2. Stays /\ excp' = excp
    BY <1>3, <2>1, UntouchedStays
  <2>3. Continues
    BY <1>1, <1>3, <2>2, EndContinues DEF Succeeds
  <2> QED
    BY <2>2, <2>3, StaysFollows
<1>4. CASE initEnd # NoInit /\ Processed(initEnd)
  <2>1. initEnd \in [fails : {"no", "status", "throw", "null"}, catch : {"no", "keep", "give"}, left : 1..(W - 1)]
    BY <1>4, CodeAssumption
  <2> QED
    BY <1>1, <1>4, <2>1, ProcessedStays DEF Follows, Again
<1> QED
  BY <1>2, <1>3, <1>4 DEF InitObj

LEMMA OperateStays ==
  ASSUME NEW o, Ready(o), initEnd \in InitEnds, Operate(o)
  PROVE  Follows /\ (Stays \/ Again(o)) /\ Continues
<1> USE StaysFollows
<1>1. CASE Move(o)
  BY <1>1, MoveStays
<1>2. CASE OnOpStack(o)
  BY <1>2, OnOpStackStays
<1>3. CASE Constant(o)
  BY <1>3, ConstantStays
<1>4. CASE StoreLocal(o)
  BY <1>4, StoreLocalStays
<1>5. CASE Arithmetic(o)
  BY <1>5, ArithmeticStays
<1>6. CASE Monitor(o)
  BY <1>6, MonitorStays
<1>7. CASE PushInt(o)
  BY <1>7, PushIntStays
<1>8. CASE PushObj(o)
  BY <1>8, PushObjStays
<1>9. CASE Throw(o)
  BY <1>9, ThrowStays
<1>10. CASE Jump(o)
  BY <1>10, JumpStays
<1>11. CASE Return(o)
  BY <1>11, ReturnStays
<1>12. CASE New(o)
  BY <1>12, NewStays
<1>13. CASE InitObj(o)
  BY <1>13, InitObjStays
<1> QED
  BY <1>1, <1>2, <1>3, <1>4, <1>5, <1>6, <1>7, <1>8, <1>9, <1>10, <1>11, <1>12, <1>13 DEF Operate

\* What the variables hold.
InterpType ==
  /\ code \in [1..Size -> Ops \cup {NoOp}] /\ handlers \in Handlers /\ initEnd \in InitEnds
  /\ pc \in 0..(W - 1)
  /\ Kept(locals, excp, caught, lost, retObj, heap)
  /\ RegsType(eax, ebx, opStack, heap.made)
  /\ failed \in BOOLEAN

\* While a function runs, a failure has left an exception or has led to
\* operation 0, and the result is RET_OK at any other place.
Tells ==
  /\ phase = "run" => /\ failed <=> (excp # 0 \/ pc = 0)
                      /\ pc # 0 => ret = "ok"
  /\ phase = "idle" => /\ failed <=> excp # 0
                       /\ pc > Size => (ret = "athrow" <=> excp # 0)
InterpInv == InterpType /\ Tells

LEMMA SmallestIs ==
  ASSUME NEW S, S \subseteq Nat, S # {}
  PROVE  Min(S) \in S
<1>1. PICK x \in S : \A y \in S : ~(<<y, x>> \in OpToRel(<, Nat))
  BY NatLessThanWellFounded, WFMin, Zenon
<1>2. \A y \in S : x <= y
  <2>1. ASSUME NEW y \in S PROVE x <= y
    <3>1. x \in Nat /\ y \in Nat
      OBVIOUS
    <3>2. ~(y < x)
      BY <1>1, <3>1 DEF OpToRel
    <3> QED
      BY <3>1, <3>2
  <2> QED
    BY <2>1
<1> QED
  BY <1>2 DEF Min

LEMMA PlacesAre ==
  ASSUME NEW p \in Nat
  PROVE  At(p) \in 0..(W - 1)
  BY CodeAssumption DEF At

LEMMA EndTells ==
  ASSUME InterpInv, phase = "run", pc # 0, phase' = "run", Continues
  PROVE  Tells' /\ pc' \in 0..(W - 1) /\ failed' \in BOOLEAN
<1>1. PICK r, p, f :
        /\ p \in Nat /\ f \in BOOLEAN /\ Ran(r, p, f)
        /\ (excp' = excp /\ ~f) \/ r # "ok" \/ (f /\ excp' # 0)
  BY DEF Continues
<1>2. Ran(r, p, f) /\ p \in Nat /\ f \in BOOLEAN
  BY <1>1, Zenon
<1>3. ret' = r /\ pc' = (IF r = "ok" THEN At(p) ELSE 0)
  BY <1>2, Zenon DEF Ran
<1>4. failed' = (failed \/ f \/ pc' = 0)
  BY <1>2, Zenon DEF Ran
<1>5. failed \in BOOLEAN /\ (failed <=> excp # 0)
  BY DEF InterpInv, InterpType, Tells
<1>6. pc' \in 0..(W - 1)
  BY <1>2, <1>3, PlacesAre, CodeAssumption
<1>7. failed' \in BOOLEAN /\ (failed' <=> failed \/ f \/ pc' = 0)
  BY <1>4
<1>8. r # "ok" => pc' = 0
  BY <1>3
<1>9. failed' <=> (excp' # 0 \/ pc' = 0)
  BY <1>1, <1>5, <1>7, <1>8
<1>10. pc' # 0 => ret' = "ok"
  BY <1>3
<1> QED
  BY <1>6, <1>7, <1>9, <1>10 DEF Tells

LEMMA ProcessKeeps ==
  ASSUME InterpInv, Once, Process
  PROVE  InterpInv' /\ (Once' \/ (caught /\ Catching))
<1>1. PICK o \in IF code[pc] = NoOp THEN Ops ELSE {code[pc]} : code' = [code EXCEPT ![pc] = o] /\ Operate(o)
  BY DEF Process
<1>2. /\ phase = "run" /\ phase' = "run" /\ pc \in 1..Size /\ handlers' = handlers /\ initEnd' = initEnd
      /\ pc \in Nat /\ pc # 0
  BY CodeAssumption DEF Process
<1>3. o \in Ops
  BY <1>1, <1>2 DEF InterpInv, InterpType
<1>4. code' \in [1..Size -> Ops \cup {NoOp}] /\ code'[pc] = o
  BY <1>1, <1>2, <1>3 DEF InterpInv, InterpType
<1>5. Ready(o) /\ initEnd \in InitEnds
  BY <1>2, <1>3, OnceMeans DEF InterpInv, InterpType, Apart, Ready
<1>6. Follows /\ (Stays \/ Again(o)) /\ Continues
  BY <1>1, <1>5, OperateStays
<1>7. Tells' /\ pc' \in 0..(W - 1) /\ failed' \in BOOLEAN
  BY <1>2, <1>6, EndTells
<1>8. Stays => Once'
  BY OnceMeansNext DEF Stays, Apart
<1>9. Again(o) => caught /\ Catching
  BY <1>2, <1>4 DEF Again, Catching
<1>10. handlers' \in Handlers /\ initEnd' \in InitEnds
  BY <1>2 DEF InterpInv, InterpType
<1>11. InterpType'
  BY <1>4, <1>6, <1>7, <1>10 DEF InterpType, Follows
<1> QED
  BY <1>6, <1>7, <1>8, <1>9, <1>11 DEF InterpInv

\* The steps of the caller
LEMMA FollowsKeeps ==
  ASSUME InterpInv, Stays, UNCHANGED <<code, handlers, initEnd, initEnd>>, pc' \in 0..(W - 1), failed' \in BOOLEAN
  PROVE  InterpType' /\ Once'
<1>1. Once'
  BY OnceMeansNext DEF Stays, Apart
<1> QED
  BY <1>1 DEF InterpInv, InterpType, Stays, Apart

LEMMA StateIsApart ==
  ASSUME InterpInv, Once
  PROVE  /\ Apart(locals, excp, caught, lost, retObj, heap) /\ HeapType(heap)
         /\ heap.made \in Nat /\ heap.made >= 2
         /\ 0 \in 0..heap.made /\ RegsType(eax, ebx, opStack, heap.made)
         /\ pc \in 0..(W - 1) /\ failed \in BOOLEAN
  BY OnceMeans DEF InterpInv, InterpType, Apart, Kept, HeapType

LEMMA CallKeeps ==
  ASSUME InterpInv, Once, Call
  PROVE  InterpInv' /\ Once'
<1>1. /\ phase = "idle" /\ phase' = "run" /\ pc' = 1 /\ ret' = "ok" /\ locals = <<>>
      /\ eax' = 0 /\ ebx' = 0 /\ opStack' = <<>>
      /\ UNCHANGED <<code, handlers, initEnd, retObj, excp, caught, lost, failed>>
  BY DEF Call
<1>2. \/ locals' = Append(locals, <<Fresh(heap), "obj">>) /\ heap' = Allocate(heap, heap.ent[This])
      \/ locals' = locals /\ heap' = heap
  <2>1. <<<<Fresh(heap), "obj">>>> = Append(<<>>, <<Fresh(heap), "obj">>)
    OBVIOUS
  <2> QED
    BY <1>1, <2>1, NextIsFresh DEF Call, Dup
<1>3. Apart(locals', excp', caught', lost', retObj', heap')
  <2>1. CASE locals' = Append(locals, <<Fresh(heap), "obj">>) /\ heap' = Allocate(heap, heap.ent[This])
    <3>1. heap.ent[This] \in Ents
      <4>1. This \in 0..heap.made /\ IsObj(This)
        BY StateIsApart DEF This, IsObj
      <4> QED
        BY <4>1, StateIsApart, EntitiesAre
    <3> QED
      BY <1>1, <2>1, <3>1, StateIsApart, MadeForLocal
  <2>2. CASE locals' = locals /\ heap' = heap
    BY <1>1, <2>2, StateIsApart
  <2> QED
    BY <1>2, <2>1, <2>2
<1>4. RegsType(eax', ebx', opStack', heap'.made)
  <2>1. heap'.made \in Nat
    BY <1>3 DEF Apart, Kept, HeapType
  <2>2. 0 \in 0..heap'.made
    BY <2>1
  <2> QED
    BY <1>1, <2>2, EmptySeq DEF RegsType
<1>5. InterpType' /\ Once'
  <2>1. 1 \in 0..(W - 1)
    BY CodeAssumption
  <2> QED
    BY <1>1, <1>3, <1>4, <2>1, StateIsApart, FollowsKeeps DEF Stays
<1>6. Tells'
  BY <1>1 DEF InterpInv, Tells
<1> QED
  BY <1>5, <1>6 DEF InterpInv

LEMMA ClearStackKeeps ==
  ASSUME InterpInv, Once, ClearStack
  PROVE  InterpInv' /\ Once'
<1>1. /\ phase = "idle" /\ phase' = "idle" /\ pc' = 0 /\ excp' = 0 /\ caught' = FALSE /\ failed' = FALSE
      /\ lost' = Forgotten(lost, excp, caught) /\ retObj' = "null"
      /\ heap' = [heap EXCEPT !.refs = @ - UserRefs(retObj, 1)]
      /\ UNCHANGED <<code, handlers, initEnd, eax, ebx, opStack, locals>>
  BY DEF ClearStack, Forgotten
<1>2. Apart(locals, 0, FALSE, lost', retObj, heap)
  BY <1>1, StateIsApart, ExceptionReplaced
<1>3. Apart(locals, 0, FALSE, lost', "null", heap') /\ heap'.made = heap.made
  <2>1. retObj' \in Ents /\ UserRefs(retObj', 1) = 0
    BY <1>1 DEF Ents, UserRefs
  <2>2. heap.refs + UserRefs(retObj', 1) - UserRefs(retObj, 1) = heap.refs - UserRefs(retObj, 1)
    <3>1. UserRefs(retObj, 1) \in Nat /\ heap.refs \in Int
      BY StateIsApart DEF UserRefs, HeapType
    <3> QED
      BY <2>1, <3>1
  <2>3. heap' = [heap EXCEPT !.refs = heap.refs + UserRefs(retObj', 1) - UserRefs(retObj, 1)]
    BY <1>1, <2>2
  <2>4. Apart(locals, excp', caught', lost', retObj, heap)
    BY <1>1, <1>2
  <2>5. Apart(locals, excp', caught', lost', retObj', heap') /\ heap'.made = heap.made
    BY <2>1, <2>3, <2>4, ResultChanges
  <2> QED
    BY <1>1, <2>5
<1>4. Stays
  BY <1>1, <1>3, StateIsApart DEF Stays
<1>5. InterpType' /\ Once'
  <2>1. 0 \in 0..(W - 1)
    BY CodeAssumption
  <2> QED
    BY <1>1, <1>4, <2>1, FollowsKeeps
<1>6. Tells'
  BY <1>1, CodeAssumption DEF Tells
<1> QED
  BY <1>5, <1>6 DEF InterpInv

LEMMA FinishKeeps ==
  ASSUME InterpInv, Once, Finish
  PROVE  InterpInv' /\ Once'
<1>1. /\ phase = "run" /\ pc > Size /\ phase' = "idle" /\ ret' = (IF excp # 0 THEN "athrow" ELSE ret)
      /\ locals' = <<>> /\ heap' = Popped(heap)
      /\ UNCHANGED <<code, handlers, initEnd, pc, eax, ebx, opStack, retObj, excp, caught, lost, failed>>
  BY DEF Finish
<1>2. Apart(<<>>, excp, caught, lost, retObj, heap')
  BY <1>1, StateIsApart, FrameLeft
<1>3. heap'.made = heap.made
  <2>1. LocalsType(locals, heap.made)
    BY StateIsApart DEF Apart, Kept
  <2> QED
    BY <1>1, <2>1, StateIsApart, PoppedReturns
<1>4. Stays
  BY <1>1, <1>2, <1>3, StateIsApart DEF Stays
<1>5. InterpType' /\ Once'
  BY <1>1, <1>4, StateIsApart, FollowsKeeps
<1>6. Tells'
  <2>1. pc # 0
    BY <1>1, CodeAssumption
  <2>2. ret = "ok" /\ (failed <=> excp # 0)
    BY <1>1, <2>1 DEF InterpInv, Tells
  <2>3. ret' = "athrow" <=> excp' # 0
    BY <1>1, <2>2
  <2> QED
    BY <1>1, <2>2, <2>3 DEF Tells
<1> QED
  BY <1>5, <1>6 DEF InterpInv

\* Where a handler goes on
LEMMA HandlersAre ==
  ASSUME InterpInv, NEW i \in DOMAIN handlers
  PROVE  handlers[i].entry \in Nat
<1>1. handlers \in Seq([type : STRING, from : Nat, to : Nat, entry : Nat, again : BOOLEAN])
  BY CodeAssumption DEF InterpInv, InterpType
<1>2. handlers[i] \in [type : STRING, from : Nat, to : Nat, entry : Nat, again : BOOLEAN]
  BY <1>1, LenProperties, ElementOfSeq
<1> QED
  BY <1>2

\* What Catch finds, the object it looks at and the heap it is in.
LEMMA CatchFinds ==
  ASSUME InterpInv, Catch
  PROVE  \E e, h0, p :
           /\ IF excp = 0 THEN e = Fresh(heap) /\ h0 = Allocate(heap, "inner") ELSE e = excp /\ h0 = heap
           /\ \/ heap' = h0 /\ caught' = caught
              \/ heap' = Deallocate(h0, e) /\ caught' = TRUE /\ IsObj(e)
           /\ excp' = e /\ p \in Nat /\ pc' = At(p)
<1> DEFINE fresh == excp = 0
           e == IF fresh THEN NextObj ELSE excp
           h0 == IF fresh THEN Allocate(heap, "inner") ELSE heap
           type == IF IsObj(e) THEN TypeOf(h0.ent[e]) ELSE "NULL"
           found == {i \in DOMAIN handlers : Matches(handlers[i], type)}
           looked == IF found = {} THEN DOMAIN handlers ELSE 1..Min(found)
           h == handlers[Min(found)]
           crashes == ~IsObj(e) /\ (\/ \E i \in looked : handlers[i].type # ""
                                    \/ found # {} /\ ~h.again)
           given == found # {} /\ ~h.again /\ ~crashes
           p == IF found = {} THEN Far ELSE h.entry
<1>1. /\ heap' = IF given THEN Deallocate(h0, e) ELSE h0
      /\ excp' = e /\ caught' = (caught \/ given) /\ pc' = At(p)
  BY Zenon DEF Catch
<1>2. IF excp = 0 THEN e = Fresh(heap) /\ h0 = Allocate(heap, "inner") ELSE e = excp /\ h0 = heap
  BY NextIsFresh
<1>3. given => IsObj(e)
  OBVIOUS
<1>4. p \in Nat
  <2>1. CASE found = {}
    BY <2>1, CodeAssumption DEF Far
  <2>2. CASE found # {}
    <3>1. found \subseteq Nat
      <4>1. DOMAIN handlers = 1..Len(handlers) /\ Len(handlers) \in Nat
        BY CodeAssumption, LenProperties DEF InterpInv, InterpType
      <4> QED
        BY <4>1
    <3>2. Min(found) \in DOMAIN handlers
      <4> HIDE DEF found
      <4>1. Min(found) \in found
        BY <2>2, <3>1, SmallestIs
      <4> QED
        BY <4>1 DEF found
    <3>3. h.entry \in Nat
      <4> HIDE DEF found
      <4> QED
        BY <3>2, HandlersAre
    <3> QED
      BY <2>2, <3>3
  <2> QED
    BY <2>1, <2>2
<1>5. caught \in BOOLEAN
  BY DEF InterpInv, InterpType, Kept
<1> HIDE DEF given, p, e, h0
<1>6. \/ heap' = h0 /\ caught' = caught
      \/ heap' = Deallocate(h0, e) /\ caught' = TRUE /\ IsObj(e)
  BY <1>1, <1>3, <1>5
<1> QED
  BY <1>1, <1>2, <1>4, <1>6

LEMMA CatchKeeps ==
  ASSUME InterpInv, Once, Catch
  PROVE  InterpInv' /\ (Once' \/ (caught /\ Catching))
<1>1. /\ phase = "run" /\ pc = 0 /\ ret' = "ok" /\ phase' \in {"dead", "run"}
      /\ UNCHANGED <<failed, code, handlers, initEnd, eax, ebx, opStack, locals, retObj, lost>>
  BY DEF Catch
<1>2. PICK e, h0, p :
           /\ IF excp = 0 THEN e = Fresh(heap) /\ h0 = Allocate(heap, "inner") ELSE e = excp /\ h0 = heap
           /\ \/ heap' = h0 /\ caught' = caught
              \/ heap' = Deallocate(h0, e) /\ caught' = TRUE /\ IsObj(e)
           /\ excp' = e /\ p \in Nat /\ pc' = At(p)
  BY CatchFinds
<1>3. Apart(locals, e, caught, lost, retObj, h0) /\ RegsType(eax, ebx, opStack, h0.made) /\ e # 0
  <2>1. CASE excp = 0
    <3>1. caught = FALSE /\ ~IsObj(excp)
      BY <2>1, StateIsApart DEF Apart, Kept, IsObj
    <3>2. e = Fresh(heap) /\ h0 = Allocate(heap, "inner") /\ "inner" \in Ents
      BY <1>2, <2>1 DEF Ents
    <3>3. Apart(locals, e, FALSE, lost, retObj, h0) /\ IsObj(e)
      BY <3>1, <3>2, StateIsApart, MadeForException
    <3>4. RegsType(eax, ebx, opStack, h0.made)
      BY <3>2, StateIsApart, MadeGrows
    <3>5. Apart(locals, e, caught, lost, retObj, h0)
      BY <3>1, <3>3
    <3>6. e # 0
      BY <3>3 DEF IsObj
    <3> QED
      BY <3>4, <3>5, <3>6
  <2>2. CASE excp # 0
    BY <1>2, <2>2, StateIsApart
  <2> QED
    BY <2>1, <2>2
<1>4. /\ Kept(locals, excp', caught', lost, retObj, heap')
      /\ heap'.made = h0.made
      /\ Apart(locals, excp', caught', lost, retObj, heap') \/ caught
  <2>1. Kept(locals, e, caught, lost, retObj, h0)
    BY <1>3 DEF Apart
  <2>2. CASE heap' = h0 /\ caught' = caught
    BY <1>2, <1>3, <2>1, <2>2
  <2>3. CASE heap' = Deallocate(h0, e) /\ caught' = TRUE /\ IsObj(e)
    <3>1. /\ Kept(locals, e, TRUE, lost, retObj, Deallocate(h0, e))
          /\ Apart(locals, e, FALSE, lost, retObj, h0) => Apart(locals, e, TRUE, lost, retObj, Deallocate(h0, e))
      BY <2>1, <2>3, ExceptionGivenBack
    <3>2. Deallocate(h0, e).made = h0.made
      <4>1. h0 \in [free : Seq(Nat), ent : Seq(Ents), made : Nat, refs : Int]
        BY <2>1 DEF Kept, HeapType
      <4> QED
        BY <4>1 DEF Deallocate
    <3>3. caught \in BOOLEAN
      BY <2>1 DEF Kept
    <3>4. CASE caught = FALSE
      BY <1>2, <1>3, <2>3, <3>1, <3>2, <3>4
    <3>5. CASE caught = TRUE
      BY <1>2, <2>3, <3>1, <3>2, <3>5
    <3> QED
      BY <3>3, <3>4, <3>5
  <2> QED
    BY <1>2, <2>2, <2>3
<1>5. Once' \/ (caught /\ Catching)
  <2>1. Apart(locals', excp', caught', lost', retObj', heap') \/ caught
    BY <1>1, <1>4
  <2> QED
    BY <1>1, <2>1, OnceMeansNext DEF Apart, Catching
<1>6. pc' \in 0..(W - 1)
  BY <1>2, PlacesAre
<1>7. RegsType(eax', ebx', opStack', heap'.made)
  BY <1>1, <1>3, <1>4
<1>8. Kept(locals', excp', caught', lost', retObj', heap')
  BY <1>1, <1>4
<1>9. InterpType'
  BY <1>1, <1>6, <1>7, <1>8 DEF InterpInv, InterpType
<1>10. Tells'
  <2>1. failed = TRUE
    BY <1>1 DEF InterpInv, InterpType, Tells
  <2> QED
    BY <1>1, <1>2, <1>3, <2>1 DEF Tells
<1> QED
  BY <1>5, <1>9, <1>10 DEF InterpInv

LEMMA InterpInitInv == InterpInit => InterpInv
<1> SUFFICES ASSUME InterpInit PROVE InterpInv
  OBVIOUS
<1>1. /\ code = [i \in 1..Size |-> NoOp] /\ handlers \in Handlers /\ initEnd \in InitEnds
      /\ phase = "idle" /\ pc = 0 /\ ret = "ok" /\ eax = 0 /\ ebx = 0 /\ opStack = <<>> /\ locals = <<>>
      /\ retObj = "null" /\ excp = 0 /\ caught = FALSE /\ lost = {} /\ failed = FALSE
  BY DEF InterpInit
<1>2. PICK e \in {"user", "null"} :
         heap = [free |-> <<>>, ent |-> <<"null", e>>, made |-> This, refs |-> IF e = "user" THEN 1 ELSE 0]
  BY DEF InterpInit
<1>3. HeapType(heap) /\ heap.made = 2
  <2>1. <<>> \in Seq(Nat) /\ <<"null", e>> \in Seq(Ents) /\ Len(<<"null", e>>) = 2
    BY DEF Ents
  <2>2. (IF e = "user" THEN 1 ELSE 0) \in Int
    OBVIOUS
  <2> QED
    BY <1>2, <2>1, <2>2 DEF HeapType, This
<1>4. LocalsType(<<>>, 2)
  BY DEF LocalsType
<1>5. Kept(locals, excp, caught, lost, retObj, heap)
  <2>1. LocalsType(locals, heap.made) /\ excp \in 0..heap.made /\ retObj \in Ents
    BY <1>1, <1>3, <1>4 DEF Ents
  <2>2. lost \subseteq 2..heap.made /\ caught \in BOOLEAN /\ (caught => IsObj(excp))
    BY <1>1
  <2> QED
    BY <1>3, <2>1, <2>2 DEF Kept
<1>6. RegsType(eax, ebx, opStack, heap.made)
  BY <1>1, <1>3, EmptySeq DEF RegsType
<1>7. code \in [1..Size -> Ops \cup {NoOp}] /\ pc \in 0..(W - 1)
  BY <1>1, CodeAssumption
<1> QED
  BY <1>1, <1>5, <1>6, <1>7, CodeAssumption DEF InterpInv, InterpType, Tells

LEMMA InterpStartsOnce == InterpInit => Once
<1> SUFFICES ASSUME InterpInit PROVE Once
  OBVIOUS
<1>1. locals = <<>> /\ retObj = "null" /\ excp = 0 /\ caught = FALSE /\ lost = {}
  BY DEF InterpInit
<1>2. PICK e \in {"user", "null"} :
         heap = [free |-> <<>>, ent |-> <<"null", e>>, made |-> 2, refs |-> IF e = "user" THEN 1 ELSE 0]
  BY DEF InterpInit, This
<1>3. heap.free = <<>> /\ heap.made = 2 /\ heap.ent[2] = e /\ heap.refs = (IF e = "user" THEN 1 ELSE 0)
  BY <1>2
<1>4. RaisedBy(excp, caught) = {} /\ ObjsIn(locals) = {} /\ AddressesIn(locals) = {} /\ ToSet(heap.free) = {}
  BY <1>1, <1>3 DEF RaisedBy, IsObj, ObjsIn, AddressesIn, ToSet
<1>5. 2..heap.made = {2} /\ Len(heap.free) = 0
  BY <1>3
<1>6. {o \in 2..heap.made : heap.ent[o] = "user"} = (IF e = "user" THEN {2} ELSE {})
  <2>1. \A o : o \in 2..heap.made <=> o = 2
    BY <1>5, Zenon
  <2> QED
    BY <1>3, <2>1
<1>7. Cardinality({}) = 0 /\ Cardinality({2}) = 1
  BY FS_EmptySet, FS_Singleton
<1>8. heap.refs = Cardinality({o \in 2..heap.made : heap.ent[o] = "user"}) + UserRefs(retObj, 1)
  <2>1. UserRefs(retObj, 1) = 0
    BY <1>1 DEF UserRefs
  <2>2. CASE e = "user"
    <3>1. {o \in 2..heap.made : heap.ent[o] = "user"} = {2}
      BY <1>6, <2>2, Zenon
    <3>2. heap.refs = 1
      BY <1>3, <2>2
    <3>3. Cardinality({o \in 2..heap.made : heap.ent[o] = "user"}) = 1
      BY <1>7, <3>1, Zenon
    <3>4. PICK q \in Nat : q = 1 /\ q = Cardinality({o \in 2..heap.made : heap.ent[o] = "user"})
      BY <3>3
    <3>5. heap.refs = q + UserRefs(retObj, 1)
      BY <2>1, <3>2, <3>4
    <3> QED
      BY <3>4, <3>5, Zenon
  <2>3. CASE e = "null"
    <3>1. {o \in 2..heap.made : heap.ent[o] = "user"} = {}
      BY <1>6, <2>3
    <3>2. heap.refs = 0
      BY <1>3, <2>3
    <3>3. Cardinality({o \in 2..heap.made : heap.ent[o] = "user"}) = 0
      BY <1>7, <3>1, Zenon
    <3>4. PICK q \in Nat : q = 0 /\ q = Cardinality({o \in 2..heap.made : heap.ent[o] = "user"})
      BY <3>3
    <3>5. heap.refs = q + UserRefs(retObj, 1)
      BY <2>1, <3>2, <3>4
    <3> QED
      BY <3>4, <3>5, Zenon
  <2> QED
    BY <1>2, <2>2, <2>3
<1>9. Len(heap.free) + Cardinality({}) + Cardinality({}) + Cardinality({}) + 1 = heap.made - 1
  BY <1>3, <1>5, <1>7
<1>10. {} \cup {} \cup {} \cup {} \cup {This} = 2..heap.made
  BY <1>5 DEF This
<1>11. OnceAt(heap, locals, RaisedBy(excp, caught), lost, retObj)
  BY <1>1, <1>4, <1>8, <1>9, <1>10, Zenon DEF OnceAt
<1> QED
  BY <1>11, OnceMeans

LEMMA InterpUnchanged ==
  ASSUME InterpInv, UNCHANGED interpVars
  PROVE  InterpInv'
  BY DEF InterpInv, InterpType, Tells, interpVars, Kept, RegsType, HeapType, LocalsType

LEMMA InterpStep ==
  ASSUME InterpInv, [InterpNext]_interpVars
  PROVE  InterpInv' /\ [Once' \/ (caught /\ Catching)]_interpVars
<1>1. CASE InterpNext
  <2>1. Once
    BY <1>1 DEF InterpNext
  <2>2. CASE Call
    BY <2>1, <2>2, CallKeeps
  <2>3. CASE ClearStack
    BY <2>1, <2>3, ClearStackKeeps
  <2>4. CASE Finish
    BY <2>1, <2>4, FinishKeeps
  <2>5. CASE Process
    BY <2>1, <2>5, ProcessKeeps
  <2>6. CASE Catch
    BY <2>1, <2>6, CatchKeeps
  <2> QED
    BY <1>1, <2>2, <2>3, <2>4, <2>5, <2>6 DEF InterpNext
<1>2. CASE UNCHANGED interpVars
  BY <1>2, InterpUnchanged
<1> QED
  BY <1>1, <1>2

LEMMA ToldOfInv == InterpInv => ResultTells
  BY DEF InterpInv, Tells, ResultTells

\* The registers, the op stack, the locals, the exception and the pool hold
\* integers and addresses of objs that were made, and pc is a place: the code
\* and the handlers may be any of those the assumption describes.
THEOREM InterpIsTyped == InterpSpec => []InterpType
<1>1. InterpInit => InterpInv
  BY InterpInitInv
<1>2. InterpInv /\ [InterpNext]_interpVars => InterpInv'
  BY InterpStep
<1>3. InterpInv => InterpType
  BY DEF InterpInv
<1> QED
  BY <1>1, <1>2, <1>3, PTL DEF InterpSpec

\* A call reports RET_ATHROW exactly if an operation failed, there or in an init
\* function, or an init function ended by RET, since the last clear.
THEOREM ResultIsTold == InterpSpec => []ResultTells
<1>1. InterpInit => InterpInv
  BY InterpInitInv
<1>2. InterpInv /\ [InterpNext]_interpVars => InterpInv'
  BY InterpStep
<1>3. InterpInv => ResultTells
  BY ToldOfInv
<1> QED
  BY <1>1, <1>2, <1>3, PTL DEF InterpSpec

\* Every obj is in one place at the start, and no step puts one in two places or
\* loses one that it does not forget, but that of a handler, of the function or of
\* its init function, that catches an exception which was given back before.
THEOREM ObjsAreInOnePlace == InterpSpec => Once /\ OnceUntilCaughtAgain
<1>1. InterpInit => InterpInv /\ Once
  BY InterpInitInv, InterpStartsOnce
<1>2. InterpInv /\ [InterpNext]_interpVars => InterpInv' /\ [Once' \/ (caught /\ Catching)]_interpVars
  BY InterpStep
<1> QED
  BY <1>1, <1>2, PTL DEF InterpSpec, OnceUntilCaughtAgain
=============================================================================
