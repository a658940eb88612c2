------------------------------ MODULE MemPool ------------------------------
(***************************************************************************)
(* be::zmem_pool (be/be_alloc.h), the pool behind every be::alloc size     *)
(* class: groupnum free lists, each under a spin lock that is only tried,  *)
(* and the chain memblocks of the buffers the destructor frees, extended   *)
(* by compare-and-exchange.  One action per access to what threads share;  *)
(* blocks go from one thread to another, so any thread may free any.       *)
(***************************************************************************)
EXTENDS Integers, Sequences, SequencesExt, FiniteSets

CONSTANTS PoolThreads, groupnum, escalate,
          MaxBufs          \* bound: buffers taken from the system

ASSUME PoolAssumption ==
  /\ IsFiniteSet(PoolThreads) /\ "none" \notin PoolThreads
  /\ groupnum \in Nat \ {0} /\ escalate \in Nat \ {0} /\ MaxBufs \in Nat

VARIABLES heads,           \* heads[g].head: the blocks of the free list
          owner,           \* heads[g].lock: the thread inside, or none
          index,           \* modulo groupnum, which is all that is read of it
          memblocks,       \* the first buffer of the chain
          chain,           \* block::next of every buffer
          nbufs,
          held,            \* the blocks callers have
          doing, grp, ret, buf, blocks   \* of each thread

poolVars == <<heads, owner, index, memblocks, chain, nbufs, held,
              doing, grp, ret, buf, blocks>>

Groups == 0..(groupnum - 1)
NoThread == "none"
NoBuf == 0
NoBlock == <<0, 0>>
Blocks == (1..MaxBufs) \X (1..escalate)

PoolInit ==
  /\ heads = [g \in Groups |-> <<>>] /\ owner = [g \in Groups |-> NoThread]
  /\ index = 0 /\ memblocks = NoBuf /\ chain = <<>> /\ nbufs = 0 /\ held = {}
  /\ doing = [t \in PoolThreads |-> "idle"]
  /\ grp = [t \in PoolThreads |-> 0]
  /\ ret = [t \in PoolThreads |-> NoBlock]
  /\ buf = [t \in PoolThreads |-> NoBuf] /\ blocks = [t \in PoolThreads |-> NoBuf]

\* Buffers the calls under way may still take
Pending == Cardinality({t \in PoolThreads : doing[t] \in {"tryAlloc", "inAlloc"}})

\* allocate(): the first group to try is read from the index
StartAlloc(t) ==
  /\ doing[t] = "idle" /\ nbufs + Pending < MaxBufs
  /\ doing' = [doing EXCEPT ![t] = "tryAlloc"]
  /\ grp' = [grp EXCEPT ![t] = index]
  /\ UNCHANGED <<heads, owner, index, memblocks, chain, nbufs, held, ret, buf, blocks>>

\* deallocate(pv)
StartFree(t, b) ==
  /\ doing[t] = "idle" /\ b \in held
  /\ held' = held \ {b}
  /\ ret' = [ret EXCEPT ![t] = b]
  /\ doing' = [doing EXCEPT ![t] = "tryFree"]
  /\ grp' = [grp EXCEPT ![t] = index]
  /\ UNCHANGED <<heads, owner, index, memblocks, chain, nbufs, buf, blocks>>

\* try_lock(idex): from idex to the last group, then from 0 to idex - 1, and
\* again from idex.  One compare-and-exchange of a lock.
TryLock(t) ==
  /\ doing[t] \in {"tryAlloc", "tryFree"}
  /\ IF owner[grp[t]] = NoThread
     THEN /\ owner' = [owner EXCEPT ![grp[t]] = t]
          /\ doing' = [doing EXCEPT ![t] = IF @ = "tryAlloc" THEN "inAlloc" ELSE "inFree"]
          /\ UNCHANGED grp
     ELSE /\ grp' = [grp EXCEPT ![t] = (@ + 1) % groupnum]
          /\ UNCHANGED <<owner, doing>>
  /\ UNCHANGED <<heads, index, memblocks, chain, nbufs, held, ret, buf, blocks>>

\* Inside the lock: the first block of the list, or a new buffer, of which the
\* first block is returned and the others become the list
TakeBlock(t) ==
  /\ doing[t] = "inAlloc"
  /\ IF heads[grp[t]] # <<>>
     THEN /\ ret' = [ret EXCEPT ![t] = heads[grp[t]][1]]
          /\ heads' = [heads EXCEPT ![grp[t]] = Tail(@)]
          /\ UNCHANGED <<nbufs, buf>>
     ELSE /\ nbufs' = nbufs + 1
          /\ buf' = [buf EXCEPT ![t] = nbufs']
          /\ ret' = [ret EXCEPT ![t] = <<nbufs', 1>>]
          /\ heads' = [heads EXCEPT ![grp[t]] = [n \in 1..(escalate - 1) |-> <<nbufs', n + 1>>]]
  /\ doing' = [doing EXCEPT ![t] = "outAlloc"]
  /\ UNCHANGED <<owner, index, memblocks, chain, held, grp, blocks>>

PutBlock(t) ==
  /\ doing[t] = "inFree"
  /\ heads' = [heads EXCEPT ![grp[t]] = <<ret[t]>> \o @]
  /\ ret' = [ret EXCEPT ![t] = NoBlock]
  /\ doing' = [doing EXCEPT ![t] = "outFree"]
  /\ UNCHANGED <<owner, index, memblocks, chain, nbufs, held, grp, buf, blocks>>

\* head->unlock()
Unlock(t) ==
  /\ doing[t] \in {"outAlloc", "outFree"}
  /\ owner' = [owner EXCEPT ![grp[t]] = NoThread]
  /\ grp' = [grp EXCEPT ![t] = 0]
  /\ doing' = [doing EXCEPT ![t] = IF @ = "outFree" THEN "idle" ELSE "index"]
  /\ UNCHANGED <<heads, index, memblocks, chain, nbufs, held, ret, buf, blocks>>

\* atomic_increment32(&index); a block without a new buffer is returned
Advance(t) ==
  /\ doing[t] = "index"
  /\ index' = (index + 1) % groupnum
  /\ IF buf[t] = NoBuf
     THEN /\ doing' = [doing EXCEPT ![t] = "idle"]
          /\ held' = held \cup {ret[t]} /\ ret' = [ret EXCEPT ![t] = NoBlock]
     ELSE doing' = [doing EXCEPT ![t] = "addMem"] /\ UNCHANGED <<held, ret>>
  /\ UNCHANGED <<heads, owner, memblocks, chain, nbufs, grp, buf, blocks>>

\* add_mem: read the first buffer and link the new one to it ...
AddMem(t) ==
  /\ doing[t] = "addMem"
  /\ blocks' = [blocks EXCEPT ![t] = memblocks]
  /\ chain' = [b \in DOMAIN chain \cup {buf[t]} |->
                 IF b = buf[t] THEN memblocks ELSE chain[b]]
  /\ doing' = [doing EXCEPT ![t] = "addCas"]
  /\ UNCHANGED <<heads, owner, index, memblocks, nbufs, held, grp, ret, buf>>

\* ... and make it the first, unless another thread was faster
\* Mutant: the buffer is made the first without looking.
AddCasBlind(t) ==
  /\ doing[t] = "addCas"
  /\ memblocks' = buf[t]
  /\ buf' = [buf EXCEPT ![t] = NoBuf] /\ blocks' = [blocks EXCEPT ![t] = NoBuf]
  /\ held' = held \cup {ret[t]} /\ ret' = [ret EXCEPT ![t] = NoBlock]
  /\ doing' = [doing EXCEPT ![t] = "idle"]
  /\ UNCHANGED <<heads, owner, index, chain, nbufs, grp>>
AddCas(t) ==
  /\ doing[t] = "addCas"
  /\ IF memblocks = blocks[t]
     THEN /\ memblocks' = buf[t]
          /\ buf' = [buf EXCEPT ![t] = NoBuf]
          /\ held' = held \cup {ret[t]} /\ ret' = [ret EXCEPT ![t] = NoBlock]
          /\ doing' = [doing EXCEPT ![t] = "idle"]
     ELSE doing' = [doing EXCEPT ![t] = "addMem"] /\ UNCHANGED <<memblocks, buf, held, ret>>
  /\ blocks' = [blocks EXCEPT ![t] = NoBuf]
  /\ UNCHANGED <<heads, owner, index, chain, nbufs, grp>>

PoolStep(t) == \/ TryLock(t) \/ TakeBlock(t) \/ PutBlock(t) \/ Unlock(t)
               \/ Advance(t) \/ AddMem(t) \/ AddCas(t)

PoolNext == \E t \in PoolThreads : StartAlloc(t) \/ (\E b \in held : StartFree(t, b)) \/ PoolStep(t)

PoolSpec == PoolInit /\ [][PoolNext]_poolVars

-----------------------------------------------------------------------------
(* Properties.                                                             *)

\* How often a block is on a free list, with a caller or in a call
PlacesOf(b) ==
  Cardinality({s \in Groups \X (1..(MaxBufs * escalate)) :
                 s[2] <= Len(heads[s[1]]) /\ heads[s[1]][s[2]] = b})
  + Cardinality({t \in PoolThreads : ret[t] = b})
  + (IF b \in held THEN 1 ELSE 0)

\* Every block of every buffer is in exactly one place: no block is handed out
\* twice and none is lost, and each buffer is found by the destructor or still
\* with the thread that allocated it.
Chained == LET at[n \in 0..nbufs] == IF n = 0 THEN memblocks
                                     ELSE IF at[n - 1] = NoBuf THEN NoBuf
                                     ELSE chain[at[n - 1]]
           IN  {at[n] : n \in 0..nbufs} \ {NoBuf}
EveryBlockOnce ==
  /\ \A b \in Blocks : PlacesOf(b) = IF b[1] <= nbufs THEN 1 ELSE 0
  /\ Chained \cup {buf[t] : t \in PoolThreads} \cup {NoBuf} = 0..nbufs
  /\ \A t \in PoolThreads : buf[t] \notin Chained
=============================================================================
