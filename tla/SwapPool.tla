------------------------------ MODULE SwapPool ------------------------------
(***************************************************************************)
(* be::swplfmem_pool (be/be_alloc.h): a pool without locks.  The free list *)
(* hangs on one of bucketnum buckets, and magic names it together with a   *)
(* count of the operations: an operation claims a bucket of its own, makes *)
(* its head what the list shall be, and exchanges magic if nobody else did *)
(* since it was read.  Reads of the bucket and of the blocks in between    *)
(* may be stale: a block another thread uses holds any pointer at all.     *)
(*                                                                         *)
(* The pool is a static object, as the one of be/be_test.cpp:214, so magic *)
(* and count start as zero; the constructor clears half of the buckets     *)
(* only (it takes the size of the pointer), the others start as they are.  *)
(* Numbers of blocks are positive and 0 is NULL.                           *)
(***************************************************************************)
EXTENDS Integers, FiniteSets, Sequences, SequencesExt

CONSTANTS SThreads,     \* threads of the pool
          bucketnum,    \* 128 in the code
          escal,        \* blocks of a chunk
          MaxChunks,    \* bound: chunks ever taken
          MaxOps        \* bound: calls ever made

VARIABLES magic,        \* <<count, bucket>>: in the code one word
          count,        \* calls begun
          sindex,       \* index: where the next bucket is looked for
          used, bhead,  \* each bucket
          bnext,        \* each block's next
          chunks,       \* memblocks: how many
          calls, sheld, \* calls made, blocks in the hands of the users
          sloc          \* each thread: where it is, and its locals

swapVars == <<magic, count, sindex, used, bhead, bnext, chunks, calls, sheld, sloc>>

Bucket_ == 0..(bucketnum - 1)
SwapBlocks == 1..(MaxChunks * escal)
Idle == [pc |-> "idle", op |-> "none", i |-> 0, pv |-> 0, new |-> <<0, 0>>, old |-> <<0, 0>>,
         buck |-> 0, head |-> 0, fresh |-> <<>>, target |-> 0]

SwapInit ==
  /\ magic = <<0, 0>> /\ count = 0 /\ sindex = 1
  /\ \E dirty \in SUBSET {b \in Bucket_ : 2 * b >= bucketnum} :
        used = [b \in Bucket_ |-> IF b = 0 \/ b \in dirty THEN 1 ELSE 0]
  /\ bhead = [b \in Bucket_ |-> 0]
  /\ bnext = [n \in SwapBlocks |-> 0]
  /\ chunks = 0 /\ calls = 0
  /\ sheld = [t \in SThreads |-> {}]
  /\ sloc = [t \in SThreads |-> Idle]

At(t, p) == sloc[t].pc = p
Goes(t, p) == sloc' = [sloc EXCEPT ![t].pc = p]

\* A call begins: deallocate counts before it looks for a bucket, allocate after.
SwapAllocate(t) ==
  /\ At(t, "idle") /\ calls < MaxOps
  /\ calls' = calls + 1
  /\ sloc' = [sloc EXCEPT ![t] = [Idle EXCEPT !.pc = "seek", !.op = "alloc"]]
  /\ UNCHANGED <<magic, count, sindex, used, bhead, bnext, chunks, sheld>>

SwapDeallocate(t) ==
  /\ At(t, "idle") /\ calls < MaxOps
  /\ calls' = calls + 1 /\ count' = count + 1
  /\ \E pv \in sheld[t] :
       /\ sloc' = [sloc EXCEPT ![t] = [Idle EXCEPT !.pc = "seek", !.op = "free", !.pv = pv]]
       /\ sheld' = [sheld EXCEPT ![t] = @ \ {pv}]
  /\ UNCHANGED <<magic, sindex, used, bhead, bnext, chunks>>

\* get_bucket: the index moves on, then the bucket there is claimed if unused.
SeekBucket(t) ==
  /\ At(t, "seek")
  /\ sindex' = (sindex + 1) % bucketnum
  /\ sloc' = [sloc EXCEPT ![t].pc = "claim", ![t].i = (sindex + 1) % bucketnum]
  /\ UNCHANGED <<magic, count, used, bhead, bnext, chunks, calls, sheld>>

ClaimBucket(t) ==
  /\ At(t, "claim")
  /\ IF used[sloc[t].i] = 1 THEN Goes(t, "seek") /\ UNCHANGED <<used, bhead>>
     ELSE /\ used' = [used EXCEPT ![sloc[t].i] = 1]
          /\ bhead' = IF sloc[t].op = "free" THEN [bhead EXCEPT ![sloc[t].i] = sloc[t].pv] ELSE bhead
          /\ Goes(t, IF sloc[t].op = "free" THEN "magic" ELSE "count")
  /\ UNCHANGED <<magic, count, sindex, bnext, chunks, calls, sheld>>

\* allocate counts, and makes its magic of what the count is by then.
CountCall(t) ==
  /\ At(t, "count")
  /\ count' = count + 1 /\ Goes(t, "number")
  /\ UNCHANGED <<magic, sindex, used, bhead, bnext, chunks, calls, sheld>>

NewMagic(i) == <<count, i>>

Number(t) ==
  /\ At(t, "number")
  /\ sloc' = [sloc EXCEPT ![t].new = NewMagic(sloc[t].i), ![t].pc = "magic"]
  /\ UNCHANGED <<magic, count, sindex, used, bhead, bnext, chunks, calls, sheld>>

\* The loop: magic is read, deallocate makes its own of the count, and magic is
\* read again for the bucket it names.
ReadMagic(t) ==
  /\ At(t, "magic")
  /\ sloc' = [sloc EXCEPT ![t].old = magic, ![t].pc = IF sloc[t].op = "free" THEN "renumber" ELSE "old"]
  /\ UNCHANGED <<magic, count, sindex, used, bhead, bnext, chunks, calls, sheld>>

Renumber(t) ==
  /\ At(t, "renumber")
  /\ sloc' = [sloc EXCEPT ![t].new = NewMagic(sloc[t].i), ![t].pc = "old"]
  /\ UNCHANGED <<magic, count, sindex, used, bhead, bnext, chunks, calls, sheld>>

OldBucket(t) ==
  /\ At(t, "old")
  /\ sloc' = [sloc EXCEPT ![t].buck = magic[2], ![t].pc = "head"]
  /\ UNCHANGED <<magic, count, sindex, used, bhead, bnext, chunks, calls, sheld>>

\* allocate looks at the head; when the list is empty it takes a chunk, which it
\* keeps when the exchange fails.
ReadHead(t) ==
  /\ At(t, "head") /\ sloc[t].op = "alloc"
  /\ LET h == bhead[sloc[t].buck]
         takes == h = 0 /\ sloc[t].fresh = <<>>
         new == [k \in 1..escal |-> (chunks * escal) + k]
     IN  /\ takes => chunks < MaxChunks
         /\ chunks' = IF takes THEN chunks + 1 ELSE chunks
         /\ bnext' = IF takes THEN [n \in SwapBlocks |-> IF n \in ToSet(new) THEN (IF n = Last(new) THEN 0 ELSE n + 1) ELSE bnext[n]]
                     ELSE bnext
         /\ sloc' = [sloc EXCEPT ![t].head = h, ![t].fresh = IF takes THEN new ELSE @, ![t].pc = "link"]
  /\ UNCHANGED <<magic, count, sindex, used, bhead, calls, sheld>>

\* A chunk goes in front of the old list (read again) and its first block is
\* taken; else the first block of the list, whose next another user may own.
InUse == UNION {sheld[t] : t \in SThreads}
LinkFresh(t) ==
  /\ At(t, "link") /\ sloc[t].op = "alloc" /\ sloc[t].fresh # <<>>
  /\ LET fresh == sloc[t].fresh
         linked == [bnext EXCEPT ![Last(fresh)] = bhead[sloc[t].buck]]
     IN  /\ bnext' = linked
         /\ bhead' = [bhead EXCEPT ![sloc[t].i] = linked[Head(fresh)]]
         /\ sloc' = [sloc EXCEPT ![t].target = Head(fresh), ![t].pc = "swap"]
  /\ UNCHANGED <<magic, count, sindex, used, chunks, calls, sheld>>

LinkOld(t) ==
  /\ At(t, "link") /\ sloc[t].op = "alloc" /\ sloc[t].fresh = <<>>
  /\ \E next \in IF sloc[t].head \in InUse THEN {0} \cup SwapBlocks ELSE {bnext[sloc[t].head]} :
       bhead' = [bhead EXCEPT ![sloc[t].i] = next]
  /\ sloc' = [sloc EXCEPT ![t].target = sloc[t].head, ![t].pc = "swap"]
  /\ UNCHANGED <<magic, count, sindex, used, bnext, chunks, calls, sheld>>

\* deallocate puts its block in front of the old list.
LinkFreed(t) ==
  /\ At(t, "head") /\ sloc[t].op = "free"
  /\ bnext' = [bnext EXCEPT ![sloc[t].pv] = bhead[sloc[t].buck]]
  /\ Goes(t, "swap")
  /\ UNCHANGED <<magic, count, sindex, used, bhead, chunks, calls, sheld>>

\* The exchange.
SwapMagic(t) ==
  /\ At(t, "swap")
  /\ IF magic = sloc[t].old
     THEN /\ magic' = sloc[t].new
          /\ sheld' = IF sloc[t].op = "alloc" THEN [sheld EXCEPT ![t] = @ \cup {sloc[t].target}] ELSE sheld
          /\ sloc' = [sloc EXCEPT ![t].pc = "release", ![t].fresh = <<>>, ![t].pv = 0]
     ELSE Goes(t, "magic") /\ UNCHANGED <<magic, sheld>>
  /\ UNCHANGED <<count, sindex, used, bhead, bnext, chunks, calls>>

\* The bucket that was the list's is given back.
ReleaseBucket(t) ==
  /\ At(t, "release")
  /\ used' = [used EXCEPT ![sloc[t].buck] = 0]
  /\ sloc' = [sloc EXCEPT ![t] = Idle]
  /\ UNCHANGED <<magic, count, sindex, bhead, bnext, chunks, calls, sheld>>

SwapNext == \E t \in SThreads :
  \/ SwapAllocate(t) \/ SwapDeallocate(t) \/ SeekBucket(t) \/ ClaimBucket(t)
  \/ CountCall(t) \/ Number(t) \/ ReadMagic(t) \/ Renumber(t) \/ OldBucket(t)
  \/ ReadHead(t) \/ LinkFresh(t) \/ LinkOld(t) \/ LinkFreed(t) \/ SwapMagic(t) \/ ReleaseBucket(t)

-----------------------------------------------------------------------------
(* Properties.                                                             *)

\* The free list: what hangs on the bucket magic names, as far as it does not
\* run in a circle.
FreeAfter[n \in 0..(Cardinality(SwapBlocks) + 1)] ==
  IF n = 0 THEN <<bhead[magic[2]]>>
  ELSE LET before == FreeAfter[n - 1]
       IN  IF Last(before) = 0 THEN before ELSE Append(before, bnext[Last(before)])
FreeList == LET all == FreeAfter[Cardinality(SwapBlocks) + 1] IN SelectSeq(all, LAMBDA n : n # 0)

\* Every block of every chunk is in one place: the free list, the hands of one
\* user, or a call that brings it; none is handed out twice and none is lost,
\* although a list may be exchanged by calls that read another one.  True of two
\* threads only: deallocate counts when it begins (:444) and makes its magic of
\* whatever the count is later (:455), so with four threads two calls may make
\* the same magic, and a third one, stalled since it read the first, exchanges
\* it for a list that is no longer there.
SwapBlockOnce ==
  LET bringing(t) == ToSet(sloc[t].fresh) \cup ({sloc[t].pv} \ {0})
      places == [t \in SThreads |-> sheld[t] \cup bringing(t)]
  IN  /\ Cardinality(ToSet(FreeList)) = Len(FreeList)
      /\ \A t \in SThreads : /\ sheld[t] \cap bringing(t) = {}
                             /\ places[t] \cap ToSet(FreeList) = {}
                             /\ \A u \in SThreads \ {t} : places[t] \cap places[u] = {}
      /\ ToSet(FreeList) \cup UNION {places[t] : t \in SThreads} = 1..(chunks * escal)
=============================================================================
