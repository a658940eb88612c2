-------------------------- MODULE GroupMainProofs --------------------------
(***************************************************************************)
(* What GroupDb keeps for any number of workers, any size of the queue and *)
(* any number of packets.  Counted: every queued message has its permit,   *)
(* in the semaphore, with a worker, or still owed by the thread that       *)
(* pushed it.  Ordered: empty messages come after all others, since they   *)
(* are pushed only when the network thread has ended.  Accounted: an       *)
(* accepted message is queued, in hand, or processed.                      *)
(*                                                                         *)
(* The whole program xylx, with its connection and its main(), implements  *)
(* GroupDb: what is shown of the queue and the workers holds for it, and   *)
(* from it follows that main() deletes nothing in use.  Watched: the timer *)
(* of an open connection is due in time to close a silent one.  Framed: it *)
(* stands before a whole piece of what its client sends, and has pushed    *)
(* the requests it has passed.                                             *)
(***************************************************************************)
EXTENDS GroupMain, FiniteSetTheorems, SequenceTheorems, WellFoundedInduction, TLAPS

Holders == {w \in Workers : wpc[w] = "permit"}
Owed == (IF netpc = "give" THEN 1 ELSE 0) + (IF mainpc = "give" THEN 1 ELSE 0)

Counted ==
    /\ m_size = Len(m_msglist)
    /\ Len(m_msglist) = m_semp + Cardinality(Holders) + Owed

Offering == {"offer", "give", "join", "stopped"}

Ordered ==
    /\ mainpc = "inited" => netpc = "none" /\ \A w \in Workers : wpc[w] = "none"
    /\ mainpc \in Offering => netpc = "ended"
    /\ mainpc \notin Offering => /\ \A i \in DOMAIN m_msglist : m_msglist[i] # Empty
                                 /\ \A w \in Workers : wpc[w] # "ended"
    /\ \A i, j \in DOMAIN m_msglist : i < j /\ m_msglist[i] = Empty => m_msglist[j] = Empty
    /\ NothingLeftBehind

Queued == {m_msglist[i] : i \in DOMAIN m_msglist}

Accounted ==
    /\ \A w \in Workers : wpc[w] = "have" => msg[w] \in accepted
    /\ \A m \in accepted : \/ m \in processed
                           \/ m \in Queued
                           \/ \E w \in Workers : wpc[w] = "have" /\ msg[w] = m
    /\ \A m \in Queued : m # Empty => m \in accepted
    /\ processed \subseteq accepted
    /\ Empty \notin accepted
    /\ mainpc = "stopped" => \A w \in Workers : wpc[w] = "ended"

IInv == TypeOK /\ Counted /\ Ordered /\ Accounted

-----------------------------------------------------------------------------
(* Lemmas *)

\* There are finitely many workers with a permit.
LEMMA HoldersFinite == IsFiniteSet(Holders) /\ Cardinality(Holders) \in Nat
<1>1. Holders \subseteq Workers
  BY DEF Holders
<1> QED
  BY <1>1, GroupDbAssumption, FS_Subset, FS_CardinalityType

\* A worker that gets a permit joins them, ...
LEMMA HolderJoins ==
  ASSUME NEW w \in Workers, TypeOK, wpc[w] # "permit", wpc' = [wpc EXCEPT ![w] = "permit"]
  PROVE  Cardinality(Holders') = Cardinality(Holders) + 1
<1>1. Holders' = Holders \cup {w} /\ w \notin Holders
  BY DEF Holders, TypeOK
<1> QED
  BY <1>1, HoldersFinite, FS_AddElement

\* ... and leaves them with the message it took.
LEMMA HolderLeaves ==
  ASSUME NEW w \in Workers, NEW v, v # "permit", TypeOK, wpc[w] = "permit",
         wpc' = [wpc EXCEPT ![w] = v]
  PROVE  Cardinality(Holders') = Cardinality(Holders) - 1
<1>1. Holders' = Holders \ {w} /\ w \in Holders
  BY DEF Holders, TypeOK
<1> QED
  BY <1>1, HoldersFinite, FS_RemoveElement

\* Where there is a holder, their number is not zero.
LEMMA SomeHolder ==
  ASSUME NEW w \in Workers, wpc[w] = "permit"
  PROVE  Cardinality(Holders) > 0
<1>1. w \in Holders
  BY DEF Holders
<1>2. Cardinality(Holders) # 0
  BY <1>1, HoldersFinite, FS_EmptySet
<1> QED
  BY <1>2, HoldersFinite

\* What a push does to the list.
LEMMA PushFacts ==
  ASSUME NEW m \in Message, TypeOK, Push(m)
  PROVE  /\ m_msglist' \in Seq(Message)
         /\ Len(m_msglist') = Len(m_msglist) + 1
         /\ DOMAIN m_msglist' = DOMAIN m_msglist \cup {Len(m_msglist) + 1}
         /\ Len(m_msglist) + 1 \notin DOMAIN m_msglist
         /\ \A i \in DOMAIN m_msglist : m_msglist'[i] = m_msglist[i]
         /\ m_msglist'[Len(m_msglist) + 1] = m
         /\ m_size' = m_size + 1
         /\ m_size' \in 0..(MaxMsgSize + 1)
  BY GroupDbAssumption DEF Push, TypeOK

\* What taking the front does to it.
LEMMA TailFacts ==
  ASSUME TypeOK, m_msglist # <<>>, m_msglist' = Tail(m_msglist)
  PROVE  /\ m_msglist' \in Seq(Message)
         /\ Len(m_msglist') = Len(m_msglist) - 1
         /\ Len(m_msglist) > 0
         /\ 1 \in DOMAIN m_msglist /\ Head(m_msglist) = m_msglist[1]
         /\ Head(m_msglist) \in Message
         /\ \A i \in DOMAIN m_msglist' : /\ i + 1 \in DOMAIN m_msglist
                                         /\ m_msglist'[i] = m_msglist[i + 1]
         /\ \A i \in DOMAIN m_msglist : i # 1 => /\ i - 1 \in DOMAIN m_msglist'
                                                 /\ m_msglist'[i - 1] = m_msglist[i]
  BY DEF TypeOK

-----------------------------------------------------------------------------
(* The invariant is inductive *)

LEMMA InitIInv == Init => IInv
<1> SUFFICES ASSUME Init PROVE IInv
  OBVIOUS
<1>0. Cardinality(Workers) \in Nat
  BY GroupDbAssumption, FS_CardinalityType
<1>1. TypeOK
  <2>1. m_msglist \in Seq(Message) /\ m_ops \in Seq(Message)
    BY DEF Init
  <2>2. /\ wpc \in [Workers -> {"none", "get", "permit", "have", "ended"}]
        /\ msg \in [Workers -> Message]
    BY GroupDbAssumption DEF Init, Message, Empty
  <2>3. m_size \in 0..(MaxMsgSize + 1) /\ offered \in 0..Cardinality(Workers)
        /\ packets \in 0..MaxPackets /\ exits \in 0..offered /\ m_semp \in Nat
    BY <1>0, GroupDbAssumption DEF Init
  <2> QED
    BY <2>1, <2>2, <2>3 DEF Init, TypeOK
<1>2. Holders = {}
  BY DEF Init, Holders
<1>3. Counted
  BY <1>2, FS_EmptySet DEF Init, Counted, Owed
<1>4. Ordered
  BY DEF Init, Ordered, NothingLeftBehind, Offering
<1>5. Accounted
  BY DEF Init, Accounted, Queued
<1> QED
  BY <1>1, <1>3, <1>4, <1>5 DEF IInv

-----------------------------------------------------------------------------
(* The steps *)

\* A step that leaves the queue and the permits alone keeps the count, as
\* long as nobody pays or owes a permit by it.
LEMMA CountStays ==
  ASSUME Counted, UNCHANGED queueVars, Holders' = Holders, Owed' = Owed
  PROVE  Counted'
  BY DEF Counted, queueVars

LEMMA NetPacketKeeps == ASSUME IInv, NetPacket PROVE IInv'
<1> USE DEF IInv
<1>0. packets' = packets + 1 /\ packets' \in Message /\ packets' # Empty
  BY GroupDbAssumption DEF NetPacket, TypeOK, Message, Empty
<1>1. CASE Full /\ UNCHANGED <<m_msglist, m_size, accepted, netpc>>
  <2>1. TypeOK'
    BY <1>0, <1>1, GroupDbAssumption DEF NetPacket, TypeOK
  <2>2. Counted'
    BY <1>1, CountStays DEF NetPacket, queueVars, Holders, Owed
  <2>3. Ordered'
    BY <1>1 DEF NetPacket, Ordered, NothingLeftBehind, Offering
  <2>4. Accounted'
    BY <1>1 DEF NetPacket, Accounted, Queued
  <2> QED
    BY <2>1, <2>2, <2>3, <2>4
<1>2. CASE /\ Push(packets')
           /\ accepted' = accepted \cup {packets'}
           /\ netpc' = "give"
  <2>0. /\ m_msglist' \in Seq(Message)
        /\ Len(m_msglist') = Len(m_msglist) + 1
        /\ DOMAIN m_msglist' = DOMAIN m_msglist \cup {Len(m_msglist) + 1}
        /\ \A i \in DOMAIN m_msglist : m_msglist'[i] = m_msglist[i]
        /\ m_msglist'[Len(m_msglist) + 1] = packets'
        /\ m_size' = m_size + 1
        /\ m_size' \in 0..(MaxMsgSize + 1)
    BY <1>0, <1>2, PushFacts
  <2>1. TypeOK'
    BY <1>0, <1>2, <2>0, GroupDbAssumption DEF NetPacket, TypeOK
  <2>2. Counted'
    <3>1. Holders' = Holders /\ Owed' = Owed + 1
      BY <1>2 DEF NetPacket, Holders, Owed
    <3> QED
      BY <3>1, <2>0, HoldersFinite DEF NetPacket, Counted, TypeOK, Owed
  <2>3. Ordered'
    <3>1. mainpc \notin Offering \cup {"inited"} /\ mainpc' = mainpc
      BY DEF NetPacket, Ordered
    <3>2. \A i \in DOMAIN m_msglist' : m_msglist'[i] # Empty
      BY <3>1, <2>0, <1>0 DEF Ordered
    <3>3. \A w \in Workers : wpc'[w] # "ended"
      BY <3>1 DEF NetPacket, Ordered
    <3> QED
      BY <3>1, <3>2, <3>3 DEF Ordered, NothingLeftBehind
  <2>4. Accounted'
    <3>1. Queued' = Queued \cup {packets'}
      BY <2>0 DEF Queued
    <3> QED
      BY <3>1, <1>0, <1>2 DEF NetPacket, Accounted
  <2> QED
    BY <2>1, <2>2, <2>3, <2>4
<1> QED
  BY <1>1, <1>2 DEF NetPacket

LEMMA NetKeeps == ASSUME IInv, NetStep PROVE IInv'
<1> USE DEF IInv
<1>1. CASE NetStart \/ NetLoop \/ NetOpsDone \/ NetCtl
  <2>1. TypeOK'
    BY <1>1 DEF NetStart, NetLoop, NetOpsDone, NetCtl, TypeOK, queueVars, history
  <2>2. Counted'
    BY <1>1, CountStays DEF NetStart, NetLoop, NetOpsDone, NetCtl, queueVars, Holders, Owed
  <2>3. Ordered'
    BY <1>1 DEF NetStart, NetLoop, NetOpsDone, NetCtl, queueVars, Ordered,
                NothingLeftBehind, Offering
  <2>4. Accounted'
    BY <1>1 DEF NetStart, NetLoop, NetOpsDone, NetCtl, queueVars, history, Accounted, Queued
  <2> QED
    BY <2>1, <2>2, <2>3, <2>4
<1>2. CASE NetOp
  <2>0. Head(m_ops) \in Message /\ Tail(m_ops) \in Seq(Message)
    BY <1>2 DEF NetOp, TypeOK
  <2>1. TypeOK'
    BY <1>2, <2>0 DEF NetOp, TypeOK, queueVars
  <2>2. Counted'
    BY <1>2, CountStays DEF NetOp, queueVars, Holders, Owed
  <2>3. Ordered'
    BY <1>2 DEF NetOp, queueVars, Ordered, NothingLeftBehind, Offering
  <2>4. Accounted'
    BY <1>2 DEF NetOp, queueVars, Accounted, Queued
  <2> QED
    BY <2>1, <2>2, <2>3, <2>4
<1>3. CASE NetPacket
  BY <1>3, NetPacketKeeps
<1>4. CASE NetGive
  <2>1. TypeOK'
    BY <1>4 DEF NetGive, TypeOK, history
  <2>2. Counted'
    <3>1. Holders' = Holders /\ Owed' = Owed - 1
      BY <1>4 DEF NetGive, Holders, Owed
    <3> QED
      BY <3>1, <1>4, HoldersFinite DEF NetGive, Counted, TypeOK, Owed
  <2>3. Ordered'
    BY <1>4 DEF NetGive, Ordered, NothingLeftBehind, Offering
  <2>4. Accounted'
    BY <1>4 DEF NetGive, history, Accounted, Queued
  <2> QED
    BY <2>1, <2>2, <2>3, <2>4
<1> QED
  BY <1>1, <1>2, <1>3, <1>4 DEF NetStep

LEMMA GetMsgKeeps == ASSUME IInv, NEW w \in Workers, GetMsg(w) PROVE IInv'
<1> USE DEF IInv
<1>0. /\ m_msglist' \in Seq(Message)
      /\ Len(m_msglist') = Len(m_msglist) - 1
      /\ Len(m_msglist) > 0
      /\ 1 \in DOMAIN m_msglist /\ Head(m_msglist) = m_msglist[1]
      /\ Head(m_msglist) \in Message
      /\ \A i \in DOMAIN m_msglist' : /\ i + 1 \in DOMAIN m_msglist
                                      /\ m_msglist'[i] = m_msglist[i + 1]
      /\ \A i \in DOMAIN m_msglist : i # 1 => /\ i - 1 \in DOMAIN m_msglist'
                                              /\ m_msglist'[i - 1] = m_msglist[i]
  BY TailFacts DEF GetMsg
<1>d. DOMAIN m_msglist \subseteq Nat /\ DOMAIN m_msglist' \subseteq Nat
      /\ \A i \in DOMAIN m_msglist : i >= 1
  BY <1>0 DEF TypeOK
<1> DEFINE m == Head(m_msglist)
           place == IF m = Empty THEN "ended" ELSE "have"
<1>m. msg' = [msg EXCEPT ![w] = m] /\ wpc' = [wpc EXCEPT ![w] = place] /\ wpc[w] = "permit"
  BY DEF GetMsg, TypeOK
<1>1. TypeOK'
  <2>1. m_size' \in 0..(MaxMsgSize + 1)
    BY <1>0, GroupDbAssumption DEF GetMsg, TypeOK, Counted
  <2> QED
    BY <2>1, <1>0, <1>m DEF GetMsg, TypeOK, history
<1>2. Counted'
  <2>1. Cardinality(Holders') = Cardinality(Holders) - 1 /\ Owed' = Owed
    BY <1>m, HolderLeaves DEF GetMsg, Owed
  <2> QED
    BY <2>1, <1>0, HoldersFinite DEF GetMsg, Counted, TypeOK, Owed
<1>3. Ordered'
  <2>1. CASE m = Empty
    <3>1. \A i \in DOMAIN m_msglist : m_msglist[i] = Empty
      <4> TAKE i \in DOMAIN m_msglist
      <4>1. m_msglist[1] = Empty /\ (i = 1 \/ 1 < i)
        BY <2>1, <1>0, <1>d
      <4> QED
        BY <4>1, <1>0 DEF Ordered
    <3>2. \A i \in DOMAIN m_msglist' : m_msglist'[i] = Empty
      BY <3>1, <1>0
    <3>3. mainpc \in Offering
      BY <2>1, <1>0 DEF Ordered
    <3> QED
      BY <3>2, <3>3 DEF GetMsg, Ordered, NothingLeftBehind, Offering
  <2>2. CASE m # Empty
    <3>1. \A i, j \in DOMAIN m_msglist' :
             i < j /\ m_msglist'[i] = Empty => m_msglist'[j] = Empty
      <4> TAKE i, j \in DOMAIN m_msglist'
      <4>1. i + 1 < j + 1 <=> i < j
        BY <1>d
      <4> QED
        BY <4>1, <1>0 DEF Ordered
    <3>2. \A v \in Workers : wpc'[v] = "ended" => wpc[v] = "ended"
      BY <2>2, <1>m DEF TypeOK
    <3>3. NothingLeftBehind'
      BY <3>2, <1>0 DEF Ordered, NothingLeftBehind
    <3>4. mainpc' \notin Offering => /\ \A i \in DOMAIN m_msglist' : m_msglist'[i] # Empty
                                    /\ \A v \in Workers : wpc'[v] # "ended"
      BY <3>2, <1>0 DEF GetMsg, Ordered
    <3> QED
      BY <3>1, <3>3, <3>4 DEF GetMsg, Ordered
  <2> QED
    BY <2>1, <2>2
<1>4. Accounted'
  <2>1. \A n \in Queued : n = m \/ n \in Queued'
    <3>1. ASSUME NEW i \in DOMAIN m_msglist, i # 1 PROVE m_msglist[i] \in Queued'
      <4>1. i - 1 \in DOMAIN m_msglist' /\ m_msglist'[i - 1] = m_msglist[i]
        BY <1>0, <3>1
      <4> QED
        BY <4>1 DEF Queued
    <3> QED
      BY <3>1, <1>0 DEF Queued
  <2>2. Queued' \subseteq Queued /\ m \in Queued
    <3>1. ASSUME NEW i \in DOMAIN m_msglist' PROVE m_msglist'[i] \in Queued
      BY <1>0 DEF Queued
    <3>2. Queued' \subseteq Queued
      BY <3>1 DEF Queued
    <3>3. m \in Queued
      BY <1>0 DEF Queued
    <3> QED
      BY <3>2, <3>3
  <2>3. \A v \in Workers : /\ v # w => wpc'[v] = wpc[v] /\ msg'[v] = msg[v]
                           /\ v = w => wpc'[v] = place /\ msg'[v] = m
    BY <1>m DEF TypeOK
  <2>4. UNCHANGED <<accepted, processed, mainpc>>
    BY DEF GetMsg, history
  <2>5. \A v \in Workers : wpc'[v] = "have" => msg'[v] \in accepted'
    BY <2>2, <2>3, <2>4 DEF Accounted
  <2>6. \A n \in accepted : \/ n \in processed
                            \/ n \in Queued'
                            \/ \E v \in Workers : wpc'[v] = "have" /\ msg'[v] = n
    <3> TAKE n \in accepted
    <3>1. CASE n \in Queued /\ n = m
      <4>1. n # Empty
        BY DEF Accounted
      <4>2. wpc'[w] = "have" /\ msg'[w] = n
        BY <4>1, <3>1, <2>3
      <4> QED
        BY <4>2
    <3>2. CASE \E v \in Workers : wpc[v] = "have" /\ msg[v] = n
      <4> PICK v \in Workers : wpc[v] = "have" /\ msg[v] = n
        BY <3>2
      <4>1. v # w
        BY <1>m
      <4> QED
        BY <4>1, <2>3
    <3> QED
      BY <3>1, <3>2, <2>1 DEF Accounted
  <2>7. mainpc' = "stopped" => \A v \in Workers : wpc'[v] = "ended"
    BY <1>m, <2>4 DEF Accounted
  <2> QED
    BY <2>2, <2>4, <2>5, <2>6, <2>7 DEF Accounted
<1> QED
  BY <1>1, <1>2, <1>3, <1>4

LEMMA WorkerKeeps == ASSUME IInv, NEW w \in Workers, WorkerStep(w) PROVE IInv'
<1> USE DEF IInv
<1>1. CASE GetTake(w)
  <2>1. TypeOK'
    BY <1>1 DEF GetTake, TypeOK, history
  <2>2. Counted'
    <3>1. Cardinality(Holders') = Cardinality(Holders) + 1 /\ Owed' = Owed
      BY <1>1, HolderJoins DEF GetTake, Owed
    <3>2. m_semp' = m_semp - 1 /\ UNCHANGED <<m_msglist, m_size>>
      BY <1>1 DEF GetTake
    <3>3. m_semp \in Nat /\ Owed \in Nat
      BY DEF TypeOK, Owed
    <3> QED
      BY <3>1, <3>2, <3>3, HoldersFinite DEF Counted
  <2>3. Ordered'
    BY <1>1 DEF GetTake, Ordered, NothingLeftBehind, Offering, TypeOK
  <2>4. Accounted'
    BY <1>1 DEF GetTake, history, Accounted, Queued, TypeOK
  <2> QED
    BY <2>1, <2>2, <2>3, <2>4
<1>2. CASE GetMsg(w)
  BY <1>2, GetMsgKeeps
<1>3. CASE Process(w)
  <2>0. \A v \in Workers : /\ v # w => wpc'[v] = wpc[v] /\ msg'[v] = msg[v]
                           /\ v = w => wpc'[v] = "get"
    BY <1>3 DEF Process, TypeOK
  <2>1. TypeOK'
    <3>1. msg[w] \in Message /\ Empty \in Message
      BY GroupDbAssumption DEF TypeOK, Message, Empty
    <3>2. m_ops' \in Seq(Message)
      BY <1>3, <3>1 DEF Process, TypeOK
    <3> QED
      BY <1>3, <3>1, <3>2 DEF Process, TypeOK, queueVars
  <2>2. Counted'
    BY <1>3, <2>0, CountStays DEF Process, queueVars, Holders, Owed
  <2>3. Ordered'
    BY <1>3, <2>0 DEF Process, queueVars, Ordered, NothingLeftBehind, Offering
  <2>4. Accounted'
    <3>1. Queued' = Queued /\ accepted' = accepted /\ processed' = processed \cup {msg[w]}
          /\ mainpc' = mainpc /\ wpc[w] = "have"
      BY <1>3 DEF Process, queueVars, Queued
    <3> QED
      BY <2>0, <3>1 DEF Accounted
  <2> QED
    BY <2>1, <2>2, <2>3, <2>4
<1> QED
  BY <1>1, <1>2, <1>3 DEF WorkerStep

LEMMA OfferKeeps == ASSUME IInv, OfferEmpty PROVE IInv'
<1> USE DEF IInv
<1>0. Empty \in Message /\ Cardinality(Workers) \in Nat
  BY GroupDbAssumption, FS_CardinalityType DEF Message, Empty
<1>1. CASE Full /\ UNCHANGED <<m_msglist, m_size, exits, mainpc>>
  <2>1. TypeOK'
    BY <1>0, <1>1 DEF OfferEmpty, TypeOK, OfferBound
  <2>2. Counted'
    BY <1>1, CountStays DEF OfferEmpty, queueVars, Holders, Owed
  <2>3. Ordered'
    BY <1>1 DEF OfferEmpty, Ordered, NothingLeftBehind, Offering
  <2>4. Accounted'
    BY <1>1 DEF OfferEmpty, Accounted, Queued
  <2> QED
    BY <2>1, <2>2, <2>3, <2>4
<1>2. CASE Push(Empty) /\ exits' = exits + 1 /\ mainpc' = "give"
  <2>0. /\ m_msglist' \in Seq(Message)
        /\ Len(m_msglist') = Len(m_msglist) + 1
        /\ DOMAIN m_msglist' = DOMAIN m_msglist \cup {Len(m_msglist) + 1}
        /\ Len(m_msglist) + 1 \notin DOMAIN m_msglist
        /\ \A i \in DOMAIN m_msglist : m_msglist'[i] = m_msglist[i]
        /\ m_msglist'[Len(m_msglist) + 1] = Empty
        /\ m_size' = m_size + 1
        /\ m_size' \in 0..(MaxMsgSize + 1)
    BY <1>0, <1>2, PushFacts
  <2>1. TypeOK'
    BY <1>0, <1>2, <2>0 DEF OfferEmpty, TypeOK, OfferBound
  <2>2. Counted'
    <3>1. Holders' = Holders /\ Owed' = Owed + 1
      BY <1>2 DEF OfferEmpty, Holders, Owed
    <3> QED
      BY <3>1, <2>0, HoldersFinite DEF OfferEmpty, Counted, TypeOK, Owed
  <2>3. Ordered'
    <3>1. netpc' = "ended" /\ mainpc' \in Offering /\ UNCHANGED wpc
      BY <1>2 DEF OfferEmpty, Ordered, Offering
    <3>2. \A i, j \in DOMAIN m_msglist' :
             i < j /\ m_msglist'[i] = Empty => m_msglist'[j] = Empty
      <4> TAKE i, j \in DOMAIN m_msglist'
      <4>1. CASE j = Len(m_msglist) + 1
        BY <4>1, <2>0
      <4>2. CASE j # Len(m_msglist) + 1
        <5>1. j \in DOMAIN m_msglist /\ j < Len(m_msglist) + 1
          BY <4>2, <2>0 DEF TypeOK
        <5>2. CASE i < j
          <6>1. i \in DOMAIN m_msglist
            BY <5>1, <5>2, <2>0 DEF TypeOK
          <6> QED
            BY <6>1, <5>1, <2>0 DEF Ordered
        <5> QED
          BY <5>2
      <4> QED
        BY <4>1, <4>2
    <3>3. NothingLeftBehind'
      BY <3>1, <2>0 DEF Ordered, NothingLeftBehind
    <3> QED
      BY <3>1, <3>2, <3>3 DEF Ordered, Offering
  <2>4. Accounted'
    <3>1. Queued' = Queued \cup {Empty}
      BY <2>0 DEF Queued
    <3> QED
      BY <3>1, <1>2 DEF OfferEmpty, Accounted
  <2> QED
    BY <2>1, <2>2, <2>3, <2>4
<1> QED
  BY <1>1, <1>2 DEF OfferEmpty

LEMMA MainKeeps == ASSUME IInv, Run \/ StopNet \/ StopStep PROVE IInv'
<1> USE DEF IInv
<1>1. CASE Run
  <2>1. TypeOK'
    BY <1>1 DEF Run, TypeOK, queueVars, history
  <2>2. Counted'
    <3>1. Holders' = Holders
      BY <1>1 DEF Run, Holders, Ordered
    <3>2. Owed' = Owed
      BY <1>1 DEF Run, Owed, Ordered
    <3> QED
      BY <1>1, <3>1, <3>2, CountStays DEF Run
  <2>3. Ordered'
    BY <1>1 DEF Run, queueVars, Ordered, NothingLeftBehind, Offering
  <2>4. Accounted'
    BY <1>1 DEF Run, queueVars, history, Accounted, Queued, Ordered
  <2> QED
    BY <2>1, <2>2, <2>3, <2>4
<1>2. CASE StopNet \/ JoinNet \/ OfferDone \/ JoinWorkers
  <2>1. TypeOK'
    BY <1>2 DEF StopNet, JoinNet, OfferDone, JoinWorkers, TypeOK, queueVars, history
  <2>2. Counted'
    BY <1>2, CountStays DEF StopNet, JoinNet, OfferDone, JoinWorkers, queueVars, Holders, Owed
  <2>3. Ordered'
    BY <1>2 DEF StopNet, JoinNet, OfferDone, JoinWorkers, queueVars, Ordered,
                NothingLeftBehind, Offering
  <2>4. Accounted'
    BY <1>2 DEF StopNet, JoinNet, OfferDone, JoinWorkers, queueVars, history, Accounted, Queued
  <2> QED
    BY <2>1, <2>2, <2>3, <2>4
<1>3. CASE OfferEmpty
  BY <1>3, OfferKeeps
<1>4. CASE OfferGive
  <2>1. TypeOK'
    BY <1>4 DEF OfferGive, TypeOK, history
  <2>2. Counted'
    <3>1. Holders' = Holders /\ Owed' = Owed - 1
      BY <1>4 DEF OfferGive, Holders, Owed
    <3> QED
      BY <3>1, <1>4, HoldersFinite DEF OfferGive, Counted, TypeOK, Owed
  <2>3. Ordered'
    BY <1>4 DEF OfferGive, Ordered, NothingLeftBehind, Offering
  <2>4. Accounted'
    BY <1>4 DEF OfferGive, history, Accounted, Queued
  <2> QED
    BY <2>1, <2>2, <2>3, <2>4
<1> QED
  BY <1>1, <1>2, <1>3, <1>4 DEF StopStep

LEMMA NextKeeps == IInv /\ [Next]_vars => IInv'
<1> SUFFICES ASSUME IInv, [Next]_vars PROVE IInv'
  OBVIOUS
<1>1. CASE NetStep
  BY <1>1, NetKeeps
<1>2. CASE \E w \in Workers : WorkerStep(w)
  BY <1>2, WorkerKeeps
<1>3. CASE Run \/ StopNet \/ StopStep
  BY <1>3, MainKeeps
<1>4. CASE UNCHANGED vars
  BY <1>4 DEF vars, queueVars, history, IInv, TypeOK, Counted, Holders, Owed, Ordered, Offering,
              NothingLeftBehind, Accounted, Queued
<1> QED
  BY <1>1, <1>2, <1>3, <1>4 DEF Next

-----------------------------------------------------------------------------
(* What follows *)

\* The invariant holds in every state.
THEOREM Invariance == Spec => []IInv
<1> QED
  BY InitIInv, NextKeeps, PTL DEF Spec

\* Every variable has its type; the list never holds more than m_max_size + 1
\* messages (msg_queue::push_msg).
THEOREM TypeCorrect == Spec => []TypeOK
<1>1. IInv => TypeOK
  BY DEF IInv
<1> QED
  BY <1>1, Invariance, PTL

\* A worker that got a permit finds a message: the assertion of
\* msg_queue::get_msg never fails.
THEOREM PermitSafe == Spec => []PermitFindsMessage
<1>1. IInv => PermitFindsMessage
  <2> SUFFICES ASSUME IInv, NEW w \in Workers, wpc[w] = "permit"
               PROVE  m_size > 0 /\ m_msglist # <<>>
    BY DEF PermitFindsMessage
  <2>1. Cardinality(Holders) > 0 /\ Cardinality(Holders) \in Nat
    BY SomeHolder, HoldersFinite
  <2>2. m_semp \in Nat /\ Owed \in Nat
    BY DEF IInv, TypeOK, Owed
  <2>3. Len(m_msglist) > 0 /\ m_size > 0
    BY <2>1, <2>2 DEF IInv, Counted
  <2> QED
    BY <2>3
<1> QED
  BY <1>1, Invariance, PTL

\* A worker leaves only when every accepted message has been taken out
\* (work_thread::run and group_db::stop).
THEOREM NothingLeft == Spec => []NothingLeftBehind
<1>1. IInv => NothingLeftBehind
  BY DEF IInv, Ordered
<1> QED
  BY <1>1, Invariance, PTL

\* When group_db::stop returns, what was accepted has been processed.
THEOREM StopProcessesAll == Spec => []StoppedAfterWork
<1>1. IInv => StoppedAfterWork
  <2> SUFFICES ASSUME IInv, mainpc = "stopped" PROVE processed = accepted
    BY DEF StoppedAfterWork
  <2>1. \A w \in Workers : wpc[w] = "ended"
    BY DEF IInv, Accounted
  <2>2. \A n \in Queued : n = Empty
    BY <2>1, GroupDbAssumption DEF IInv, Ordered, NothingLeftBehind, Queued
  <2>3. accepted \subseteq processed
    BY <2>1, <2>2 DEF IInv, Accounted
  <2> QED
    BY <2>3 DEF IInv, Accounted
<1> QED
  BY <1>1, Invariance, PTL

-----------------------------------------------------------------------------
(* The connection and main() around it *)

\* A step of the connection is a packet of GroupDb or changes nothing it has.
LEMMA ConnStepMaps ==
  ASSUME ConnStep \/ ClientStep \/ Tick
  PROVE  Next \/ UNCHANGED vars
<1>1. CASE OnCreate \/ ReadDone \/ LookAgain \/ HandleTimer
  BY <1>1 DEF OnCreate, ReadDone, LookAgain, HandleTimer
<1>2. CASE PushRequest
  BY <1>2 DEF PushRequest, Next, NetStep
<1>3. CASE ClientStep
  BY <1>3 DEF ClientStep, ReceiveEnd, Receive
<1>4. CASE Tick
  BY <1>4 DEF Tick
<1> QED
  BY <1>1, <1>2, <1>3, <1>4 DEF ConnStep

LEMMA StepMaps == [MainNext]_allVars => [Next]_vars
<1> SUFFICES ASSUME [MainNext]_allVars PROVE Next \/ UNCHANGED vars
  OBVIOUS
<1>1. CASE NetThread
  <2>1. CASE NetStart \/ NetLoop \/ NetOp \/ NetGive \/ NetOpsDone \/ NetCtl
    BY <2>1 DEF Next, NetStep
  <2>2. CASE ConnStep
    BY <2>2, ConnStepMaps
  <2> QED
    BY <1>1, <2>1, <2>2 DEF NetThread
<1>2. CASE \E w \in Workers : Worker(w)
  BY <1>2 DEF Worker, Next
<1>3. CASE Main
  <2>1. CASE InitDb \/ Fork \/ StartThread \/ Uninit
    BY <2>1 DEF InitDb, Fork, StartThread, Uninit, SameGroup
  <2>2. CASE RunDb
    BY <2>2 DEF RunDb, SameGroup, Next
  <2>3. CASE Stop \/ StopStep
    BY <2>3 DEF Stop, Next
  <2> QED
    BY <1>3, <2>1, <2>2, <2>3 DEF Main
<1>4. CASE World
  <2>1. CASE Signal
    BY <2>1 DEF Signal, SameGroup
  <2>2. CASE ClientStep \/ Tick
    BY <2>2, ConnStepMaps
  <2> QED
    BY <1>4, <2>1, <2>2 DEF World
<1>5. CASE UNCHANGED allVars
  BY <1>5 DEF allVars
<1> QED
  BY <1>1, <1>2, <1>3, <1>4, <1>5 DEF MainNext

\* Every behaviour of the program is one of GroupDb, for any clients, workers,
\* limits and periods.
THEOREM MainImplements == MainSpec => Spec
<1>1. MainInit => Init
  BY DEF MainInit
<1> QED
  BY <1>1, StepMaps, PTL DEF MainSpec, Spec

\* When xylx leaves group_db::stop, every request it accepted was processed.
THEOREM MainStopProcessesAll == MainSpec => []StoppedAfterWork
  BY MainImplements, StopProcessesAll, PTL

-----------------------------------------------------------------------------
(* Creation and deletion of the workers *)

Lifecycle ==
    /\ made \in {{}, Workers} /\ deleted \subseteq made
    /\ phase # "exited" => deleted = {}
    /\ phase \in {"init", "inited"} => made = {} /\ role = "only"
    /\ role \in {"only", "parent", "child", "negative"}
    /\ phase \in {"start", "run"} => role # "parent"
    /\ role = "parent" => made = {}
    /\ deleted # {} /\ role # "negative" => mainpc = "stopped"
    /\ wild => role \in {"parent", "negative"} \/ made = {}

\* A stop() that has returned is not undone.
LEMMA StoppedStays ==
  ASSUME [Next]_vars, mainpc = "stopped"
  PROVE  mainpc' = "stopped"
  BY DEF Next, vars, NetStep, WorkerStep, StopStep, NetStart, NetLoop, NetOp, NetOpsDone,
         NetPacket, NetGive, NetCtl, GetTake, GetMsg, Process, Run, StopNet, JoinNet,
         OfferEmpty, OfferGive, OfferDone, JoinWorkers

LEMMA LifecycleKeeps == Lifecycle /\ IInv /\ [MainNext]_allVars => Lifecycle'
<1> SUFFICES ASSUME Lifecycle, IInv, [MainNext]_allVars PROVE Lifecycle'
  OBVIOUS
<1>1. mainpc = "stopped" => mainpc' = "stopped"
  BY StepMaps, StoppedStays
<1>2. CASE UNCHANGED mainVars
  BY <1>1, <1>2 DEF Lifecycle, mainVars
<1>3. CASE InitDb
  BY <1>1, <1>3 DEF Lifecycle, InitDb
<1>4. CASE Fork
  BY <1>1, <1>4 DEF Lifecycle, Fork
<1>5. CASE StartThread /\ ~wild
  BY <1>1, <1>5 DEF Lifecycle, StartThread
<1>6. CASE RunDb /\ ~wild
  BY <1>1, <1>6 DEF Lifecycle, RunDb
<1>7. CASE Signal
  BY <1>1, <1>7 DEF Lifecycle, Signal
<1>8. CASE Uninit
  <2>1. role \in {"only", "child"} => mainpc = "stopped"
    BY <1>8 DEF Uninit, Stopped
  <2>2. mainpc = "stopped" => \A w \in Workers : wpc[w] = "ended"
    BY DEF IInv, Ordered, Accounted, Offering
  <2>3. wild' => role \in {"parent", "negative"} \/ made = {}
    BY <1>8, <2>1, <2>2 DEF Lifecycle, Uninit
  <2> QED
    BY <1>1, <1>8, <2>1, <2>3 DEF Lifecycle, Uninit
<1> QED
  BY <1>2, <1>3, <1>4, <1>5, <1>6, <1>7, <1>8
     DEF MainNext, NetThread, Worker, Main, World, Stop, allVars, mainVars

\* uninit deletes the workers only after stop() has joined their threads and
\* the network thread, unless the count of children is below 0; pointers never
\* set are used only by a parent, or where no net_thread could be made, and
\* objects in use deleted only with such a count (main.cpp, group_db::uninit).
THEOREM NothingDeleted == MainSpec => []NothingDeletedInUse
<1>1. MainInit => Lifecycle
  BY DEF MainInit, Init, Lifecycle
<1>2. Lifecycle /\ IInv => NothingDeletedInUse
  BY DEF Lifecycle, IInv, Ordered, Accounted, Offering, NothingDeletedInUse
<1>3. Spec => []IInv
  BY Invariance
<1> QED
  BY <1>1, <1>2, <1>3, LifecycleKeeps, MainImplements, PTL DEF MainSpec

-----------------------------------------------------------------------------
(* The silence of a client *)

Fields == DOMAIN NewConn

\* When a connection with this last look is due to be closed.
Limit(last, begun) == IF last = 0 THEN begun + Period ELSE last + 2 * Period

\* The timer of an open connection, at second n.
Watching(c, n) ==
    /\ DOMAIN c = Fields /\ c = [f \in Fields |-> c[f]]
    /\ c.state = "none" => c = NewConn
    /\ c.state = "open" =>
         /\ c.last \in Nat /\ c.due \in Nat /\ c.made \in Nat
         /\ n <= c.due /\ c.due <= n + Period
         /\ c.last <= n /\ c.due <= Limit(c.last, c.made)

Watched == now \in Nat /\ now >= Start /\ Watching(conn, now)

\* A connection that was just looked at is watched, whatever the look made of
\* what had arrived.
LEMMA LookKeeps ==
  ASSUME Watched, conn.state = "open", NEW c,
         DOMAIN c = Fields, c = [f \in Fields |-> c[f]],
         c.state = "open", c.last = now, c.due = conn.due, c.made = conn.made
  PROVE  Watching(c, now)
<1>1. now # 0 /\ now \in Nat /\ Period \in Nat
  BY ConnAssumption DEF Watched
<1>2. conn.due \in Nat /\ conn.due <= now + Period /\ now <= conn.due /\ conn.made \in Nat
  BY DEF Watched, Watching
<1> QED
  BY <1>1, <1>2 DEF Watching, Limit

\* A closed connection is watched.
LEMMA ClosedIsWatched == \A n : Watching(ClosedConn, n)
  BY DEF Watching, ClosedConn, NewConn, Fields

LEMMA WatchedKeeps == Watched /\ [MainNext]_allVars => Watched'
<1> SUFFICES ASSUME Watched, [MainNext]_allVars PROVE Watched'
  OBVIOUS
<1>1. CASE UNCHANGED <<conn, now>>
  BY <1>1 DEF Watched
<1>2. CASE OnCreate
  <2>1. conn = NewConn /\ now' = now /\ now \in Nat /\ Period \in Nat
    BY <1>2, ConnAssumption DEF OnCreate, Watched, Watching
  <2>2. conn' = [NewConn EXCEPT !.state = "open", !.due = now + Period, !.made = now]
    BY <1>2, <2>1 DEF OnCreate
  <2>3. /\ DOMAIN conn' = Fields /\ conn' = [f \in Fields |-> conn'[f]]
        /\ conn'.state = "open" /\ conn'.last = 0
        /\ conn'.due = now + Period /\ conn'.made = now
    BY <2>2 DEF NewConn, Fields
  <2>4. now >= Start
    BY DEF Watched
  <2> QED
    BY <2>1, <2>3, <2>4 DEF Watched, Watching, Limit
<1>3. ASSUME NEW n, Receive(n) PROVE Watched'
  BY <1>3 DEF Receive, InEvents, Watched, Watching, NewConn, Fields
<1>4. CASE ReceiveEnd
  BY <1>4, ClosedIsWatched DEF ReceiveEnd, Watched
<1>5. CASE ReadDone
  BY <1>5 DEF ReadDone, InEvents, Watched, Watching, NewConn, Fields
<1>6. CASE LookAgain
  <2>1. conn.state = "open" /\ now' = now
    BY <1>6 DEF LookAgain, InEvents
  <2>2. \/ conn' = ClosedConn
        \/ /\ DOMAIN conn' = Fields /\ conn' = [f \in Fields |-> conn'[f]]
           /\ conn'.state = "open" /\ conn'.last = now
           /\ conn'.due = conn.due /\ conn'.made = conn.made
    <3>1. /\ DOMAIN Looked = Fields /\ Looked = [f \in Fields |-> Looked[f]]
          /\ Looked.state = "open" /\ Looked.last = now
          /\ Looked.due = conn.due /\ Looked.made = conn.made
      BY <2>1 DEF Looked, Watched, Watching, NewConn, Fields
    <3>2. CASE conn' \in FindHead(Looked)
      BY <3>1, <3>2 DEF FindHead, NewConn, Fields
    <3>3. CASE conn' \in NoRequest(Looked)
      BY <3>1, <3>3 DEF NoRequest, NewConn, Fields
    <3> QED
      BY <1>6, <3>2, <3>3 DEF LookAgain
  <2>3. PICK c : c = conn'
    OBVIOUS
  <2>4. Watching(c, now)
    BY <2>1, <2>2, <2>3, LookKeeps, ClosedIsWatched
  <2> QED
    BY <2>1, <2>3, <2>4 DEF Watched
<1>7. CASE PushRequest
  <2>1. conn.state = "open" \/ conn.state # "open"
    OBVIOUS
  <2>2. now' = now /\ (conn' = ClosedConn \/ \E n : conn' = Taken(Looked, n))
    BY <1>7 DEF PushRequest
  <2>3. CASE conn' = ClosedConn
    BY <2>2, <2>3, ClosedIsWatched DEF Watched
  <2>4. ASSUME NEW n, conn' = Taken(Looked, n), conn.state = "open" PROVE Watched'
    <3>1. /\ DOMAIN conn' = Fields /\ conn' = [f \in Fields |-> conn'[f]]
          /\ conn'.state = "open" /\ conn'.last = now
          /\ conn'.due = conn.due /\ conn'.made = conn.made
      BY <2>4 DEF Taken, Looked, Watched, Watching, NewConn, Fields
    <3>2. PICK c : c = conn'
      OBVIOUS
    <3>3. Watching(c, now)
      BY <2>4, <3>1, <3>2, LookKeeps
    <3> QED
      BY <2>2, <3>2, <3>3 DEF Watched
  <2>5. ASSUME NEW n, conn' = Taken(Looked, n), conn.state # "open" PROVE Watched'
    <3>1. conn.state # "none"
      BY <1>7 DEF PushRequest, NewConn, Watched, Watching
    <3>2. /\ DOMAIN conn' = Fields /\ conn' = [f \in Fields |-> conn'[f]]
          /\ conn'.state = conn.state
      BY <2>5 DEF Taken, Looked, Watched, Watching, NewConn, Fields
    <3> QED
      BY <2>2, <2>5, <3>1, <3>2 DEF Watched, Watching
  <2> QED
    BY <2>2, <2>3, <2>4, <2>5
<1>8. CASE HandleTimer
  <2>1. conn.state = "open" /\ now' = now
    BY <1>8 DEF HandleTimer
  <2>2. CASE Silent
    BY <1>8, <2>1, <2>2, ClosedIsWatched DEF HandleTimer, Watched
  <2>3. CASE ~Silent
    <3>1. conn' = [conn EXCEPT !.due = now + Period]
      BY <1>8, <2>3 DEF HandleTimer
    <3>2. conn.last \in Nat /\ conn.made \in Nat /\ now \in Nat /\ now >= Start /\ conn.last <= now
      BY <2>1 DEF Watched, Watching
    <3>3. Period \in Nat /\ Start \in Nat /\ Start > Period
      BY ConnAssumption
    <3>4. now - conn.last <= Period
      BY <2>3, <3>2, <3>3 DEF Silent
    <3>5. conn.last # 0 /\ now + Period <= conn.last + 2 * Period
      BY <3>2, <3>3, <3>4
    <3>6. /\ DOMAIN conn' = Fields /\ conn' = [f \in Fields |-> conn'[f]]
          /\ conn'.state = "open" /\ conn'.last = conn.last
          /\ conn'.due = now + Period /\ conn'.made = conn.made
      BY <2>1, <3>1 DEF Watched, Watching, NewConn, Fields
    <3> QED
      BY <2>1, <3>2, <3>3, <3>5, <3>6 DEF Watched, Watching, Limit
  <2> QED
    BY <2>2, <2>3
<1>9. CASE Tick
  BY <1>9, ConnAssumption DEF Tick, Watched, Watching, Limit
<1> QED
  BY <1>1, <1>2, <1>3, <1>4, <1>5, <1>6, <1>7, <1>8, <1>9
     DEF MainNext, NetThread, Worker, Main, World, Stop, allVars, mainVars, connVars,
         ConnStep, ClientStep, InitDb, Fork, StartThread, RunDb, Signal, Uninit, SameGroup

\* A connection is closed at most two periods after the last look at what its
\* client sent: the timer looks once a period, and lets live only what was
\* looked at within one (g_connection::handle_timer).
THEOREM SilenceEnds == MainSpec => []SilentClosed
<1>1. MainInit => Watched
  BY ConnAssumption DEF MainInit, ConnInit, Watched, Watching, NewConn, Fields
<1>2. Watched => SilentClosed
  BY ConnAssumption DEF Watched, Watching, Limit, SilentClosed
<1> QED
  BY <1>1, <1>2, WatchedKeeps, PTL DEF MainSpec

-----------------------------------------------------------------------------
(* Framing.  A function defined by steps exists, which gives FlattenSeq its
   steps and the cells of a stream their places; an open connection always
   stands before a whole piece, with the requests it has passed pushed. *)

\* Induction over the naturals, for a set instead of a predicate.
LEMMA SetInduction ==
  ASSUME NEW Vals, 0 \in Vals, \A n \in Nat : n \in Vals => n + 1 \in Vals
  PROVE  Nat \subseteq Vals
<1> DEFINE T == Nat \ Vals
<1> SUFFICES ASSUME T # {} PROVE FALSE
  OBVIOUS
<1>1. PICK x \in T : \A y \in T : ~(<<y, x>> \in OpToRel(<, Nat))
  BY NatLessThanWellFounded, WFMin, Zenon
<1>2. x \in Nat /\ x # 0 /\ x \notin Vals
  OBVIOUS
<1>3. x - 1 \in Nat /\ x - 1 < x /\ (x - 1) + 1 = x
  BY <1>2
<1>4. x - 1 \notin T
  BY <1>1, <1>2, <1>3 DEF OpToRel
<1> QED
  BY <1>2, <1>3, <1>4

\* A function on 0..n is determined by its first value and by a table of steps.
Stepwise(n, b, step, g) == g[0] = b /\ \A i \in 1..n : g[i] = step[<<i, g[i - 1]>>]
Definable(n, Vals, b, step) == \E g \in [0..n -> Vals] : Stepwise(n, b, step, g)

\* A table of steps has a function that follows it.
LEMMA StepsDefine ==
  ASSUME NEW n \in Nat, NEW Vals, NEW b \in Vals, NEW step \in [(1..n) \X Vals -> Vals]
  PROVE  Definable(n, Vals, b, step)
<1> DEFINE P == {m \in Nat : m <= n => \E g \in [0..m -> Vals] :
                               g[0] = b /\ \A i \in 1..m : g[i] = step[<<i, g[i - 1]>>]}
<1>1. 0 \in P
  <2>1. [i \in 0..0 |-> b] \in [0..0 -> Vals]
    OBVIOUS
  <2>2. [i \in 0..0 |-> b][0] = b /\ 1..0 = {}
    OBVIOUS
  <2> QED
    BY <2>1, <2>2
<1>2. ASSUME NEW m \in Nat, m \in P PROVE m + 1 \in P
  <2> SUFFICES ASSUME m + 1 <= n
               PROVE \E g \in [0..(m + 1) -> Vals] :
                       g[0] = b /\ \A i \in 1..(m + 1) : g[i] = step[<<i, g[i - 1]>>]
    OBVIOUS
  <2>1. PICK g \in [0..m -> Vals] : g[0] = b /\ \A i \in 1..m : g[i] = step[<<i, g[i - 1]>>]
    BY <1>2
  <2>2. m \in 0..m /\ m + 1 \in 1..n /\ g[m] \in Vals
    OBVIOUS
  <2>3. step[<<m + 1, g[m]>>] \in Vals
    BY <2>2
  <2> DEFINE h == [i \in 0..(m + 1) |-> IF i = m + 1 THEN step[<<m + 1, g[m]>>] ELSE g[i]]
  <2>4. h \in [0..(m + 1) -> Vals]
    <3>1. \A i \in 0..(m + 1) : i # m + 1 => i \in 0..m
      OBVIOUS
    <3> QED
      BY <2>3, <3>1
  <2>5. h[0] = b
    BY <2>1
  <2>6. ASSUME NEW i \in 1..(m + 1) PROVE h[i] = step[<<i, h[i - 1]>>]
    <3>1. i - 1 \in 0..(m + 1) /\ i - 1 # m + 1
      OBVIOUS
    <3>2. h[i - 1] = g[i - 1]
      BY <3>1
    <3>3. CASE i = m + 1
      <4>1. h[i] = step[<<m + 1, g[m]>>] /\ i - 1 = m
        BY <3>3
      <4> QED
        BY <3>2, <3>3, <4>1
    <3>4. CASE i # m + 1
      <4>1. i \in 1..m /\ h[i] = g[i]
        BY <3>4
      <4> QED
        BY <2>1, <3>2, <4>1
    <3> QED
      BY <3>3, <3>4
  <2> HIDE DEF h
  <2> QED
    BY <2>4, <2>5, <2>6
<1>3. Nat \subseteq P
  <2> HIDE DEF P
  <2> QED
    BY <1>1, <1>2, SetInduction
<1>4. n \in P
  BY <1>3
<1> QED
  BY <1>4 DEF Definable, Stepwise

\* FlattenSeq joins from left to right.
Joining(n, seqs, g) == /\ g[0] = <<>>
                       /\ \A i \in 1..n : g[i] = g[i - 1] \o seqs[i]
                       /\ FlattenSeq(seqs) = g[n]
Joinable(n, Vals, seqs) == \E g \in [0..n -> Seq(Vals)] : Joining(n, seqs, g)

LEMMA FlattenSteps ==
  ASSUME NEW n \in Nat, NEW Vals, NEW seqs \in [1..n -> Seq(Vals)]
  PROVE  Joinable(n, Vals, seqs)
<1> DEFINE step == [p \in (1..n) \X Seq(Vals) |-> p[2] \o seqs[p[1]]]
<1>1. step \in [(1..n) \X Seq(Vals) -> Seq(Vals)]
  <2>1. \A p \in (1..n) \X Seq(Vals) : p[2] \in Seq(Vals) /\ seqs[p[1]] \in Seq(Vals)
    OBVIOUS
  <2>2. \A p \in (1..n) \X Seq(Vals) : p[2] \o seqs[p[1]] \in Seq(Vals)
    BY <2>1, ConcatProperties
  <2> QED
    BY <2>2
<1>2. <<>> \in Seq(Vals)
  OBVIOUS
<1>3. PICK g \in [0..n -> Seq(Vals)] : g[0] = <<>> /\ \A i \in 1..n : g[i] = step[<<i, g[i - 1]>>]
  <2> HIDE DEF step
  <2>1. Definable(n, Seq(Vals), <<>>, step)
    BY <1>1, <1>2, StepsDefine
  <2> QED
    BY <2>1 DEF Definable, Stepwise
<1>4. \A i \in 1..n : g[i] = g[i - 1] \o seqs[i]
  <2>1. \A i \in 1..n : i - 1 \in 0..n
    OBVIOUS
  <2>2. \A i \in 1..n : <<i, g[i - 1]>> \in (1..n) \X Seq(Vals)
    BY <2>1
  <2>3. \A i \in 1..n : step[<<i, g[i - 1]>>] = g[i - 1] \o seqs[i]
    BY <2>2
  <2> QED
    BY <1>3, <2>3
<1> HIDE DEF step
<1>5. Len(seqs) = n /\ DOMAIN seqs = 1..n
  <2>1. seqs \in Seq(Seq(Vals))
    BY SeqDef
  <2> QED
    BY <2>1, LenProperties
<1>6. CASE n = 0
  <2>1. seqs = <<>>
    BY <1>6
  <2>2. FlattenSeq(seqs) = <<>>
    BY <1>5, <1>6, <2>1 DEF FlattenSeq
  <2> QED
    BY <1>3, <1>4, <1>6, <2>2 DEF Joinable, Joining
<1>7. CASE n # 0
  <2> DEFINE F(f) == f = [i \in 1..Len(seqs) |-> IF i = 1 THEN seqs[i] ELSE f[i - 1] \o seqs[i]]
             f == CHOOSE h : F(h)
  <2>1. FlattenSeq(seqs) = f[Len(seqs)]
    BY <1>5, <1>7 DEF FlattenSeq
  <2>2. F([i \in 1..n |-> g[i]])
    <3> DEFINE h == [i \in 1..n |-> g[i]]
    <3>1. \A i \in 1..n : i # 1 => i - 1 \in 1..n
      OBVIOUS
    <3>2. \A i \in 1..n : i # 1 => h[i - 1] = g[i - 1]
      BY <3>1
    <3>3. 1 \in 1..n /\ g[1] = seqs[1]
      <4>1. 1 \in 1..n
        BY <1>7
      <4>2. g[1] = g[0] \o seqs[1]
        BY <1>4, <4>1, SMTT(20)
      <4>3. seqs[1] \in Seq(Vals)
        BY <4>1
      <4> QED
        BY <1>3, <4>1, <4>2, <4>3, ConcatEmptySeq
    <3>4. \A i \in 1..n : g[i] = IF i = 1 THEN seqs[i] ELSE h[i - 1] \o seqs[i]
      BY <1>4, <3>2, <3>3
    <3> QED
      BY <1>5, <3>4
  <2>3. F(f)
    BY <2>2, Zenon
  <2> HIDE DEF f
  <2> DEFINE P == {i \in Nat : i + 1 <= n => f[i + 1] = g[i + 1]}
  <2>4. 0 \in P
    <3>1. 1 \in 1..n
      BY <1>7
    <3>2. f[1] = seqs[1]
      BY <1>5, <2>3, <3>1
    <3>3. g[1] = g[0] \o seqs[1] /\ seqs[1] \in Seq(Vals)
      BY <1>4, <3>1, SMTT(20)
    <3>4. g[1] = seqs[1]
      BY <1>3, <3>3, ConcatEmptySeq
    <3> QED
      BY <3>2, <3>4
  <2>5. ASSUME NEW i \in Nat, i \in P PROVE i + 1 \in P
    <3> SUFFICES ASSUME i + 2 <= n PROVE f[i + 2] = g[i + 2]
      BY DEF P
    <3>1. i + 2 \in 1..n /\ i + 2 # 1 /\ (i + 2) - 1 = i + 1
      OBVIOUS
    <3>2. f[i + 2] = f[i + 1] \o seqs[i + 2]
      BY <1>5, <2>3, <3>1
    <3>3. g[i + 2] = g[i + 1] \o seqs[i + 2]
      BY <1>4, <3>1
    <3>4. f[i + 1] = g[i + 1]
      BY <2>5
    <3> QED
      BY <3>2, <3>3, <3>4
  <2>6. Nat \subseteq P
    <3> HIDE DEF P
    <3> QED
      BY <2>4, <2>5, SetInduction
  <2>7. f[n] = g[n]
    <3>1. n - 1 \in Nat /\ (n - 1) + 1 = n
      BY <1>7
    <3>2. n - 1 \in P
      BY <2>6, <3>1
    <3> QED
      BY <3>1, <3>2
  <2> QED
    BY <1>3, <1>4, <1>5, <2>1, <2>7 DEF Joinable, Joining
<1> QED
  BY <1>6, <1>7 DEF Joinable, Joining

\* The cells of a stream of pieces lie one piece after the other: the k-th
\* piece begins after place off[k].
Laid(str, cells, off) ==
    /\ off \in [1..(Len(str) + 1) -> Nat] /\ off[1] = 0
    /\ \A k \in 1..Len(str) : off[k + 1] = off[k] + str[k].len
    /\ \A a, b \in 1..(Len(str) + 1) : a < b => off[a] < off[b]
    /\ cells \in Seq(Nat \X Nat) /\ Len(cells) = off[Len(str) + 1]
    /\ \A k \in 1..Len(str) : \A i \in 1..str[k].len : cells[off[k] + i] = <<k, i>>
    /\ \A j \in 1..Len(cells) : \E k \in 1..Len(str) : \E i \in 1..str[k].len : j = off[k] + i

CellsIn(str) == FlattenSeq([k \in DOMAIN str |-> [i \in 1..str[k].len |-> <<k, i>>]])

\* What joining the first m pieces gives.
LaidTo(str, g, m) ==
    /\ \A a, b \in 0..m : a < b => Len(g[a]) < Len(g[b])
    /\ \A k \in 1..m : \A i \in 1..str[k].len : g[m][Len(g[k - 1]) + i] = <<k, i>>
    /\ \A j \in 1..Len(g[m]) : \E k \in 1..m : \E i \in 1..str[k].len : j = Len(g[k - 1]) + i

Layable(str) == \E off : Laid(str, CellsIn(str), off)
LEMMA StreamLaid ==
  ASSUME NEW str \in Seq(Pieces)
  PROVE  Layable(str)
<1> DEFINE n == Len(str)
           seqs == [k \in DOMAIN str |-> [i \in 1..str[k].len |-> <<k, i>>]]
<1>1. /\ n \in Nat /\ DOMAIN str = 1..n
      /\ \A k \in 1..n : str[k].len \in Nat /\ str[k].len # 0
  <2>1. n \in Nat /\ DOMAIN str = 1..n
    BY LenProperties
  <2>2. \A k \in 1..n : str[k] \in Pieces
    BY ElementOfSeq
  <2> QED
    BY <2>1, <2>2 DEF Pieces
<1>2. seqs \in [1..n -> Seq(Nat \X Nat)]
  <2>1. ASSUME NEW k \in 1..n PROVE [i \in 1..str[k].len |-> <<k, i>>] \in Seq(Nat \X Nat)
    <3>1. \A i \in 1..str[k].len : <<k, i>> \in Nat \X Nat
      BY <1>1
    <3> QED
      BY <1>1, <3>1, SeqDef
  <2> QED
    BY <1>1, <2>1
<1>3. \A k \in 1..n : /\ Len(seqs[k]) = str[k].len
                      /\ \A i \in 1..str[k].len : seqs[k][i] = <<k, i>>
  BY <1>1
<1>4. CellsIn(str) = FlattenSeq(seqs)
  BY DEF CellsIn
<1> HIDE DEF seqs, n
<1>5. PICK g \in [0..n -> Seq(Nat \X Nat)] : Joining(n, seqs, g)
  BY <1>1, <1>2, FlattenSteps DEF Joinable
<1>6. g[0] = <<>> /\ \A k \in 1..n : g[k] = g[k - 1] \o seqs[k]
  BY <1>5 DEF Joining
<1>7. ASSUME NEW k \in 1..n
      PROVE /\ Len(g[k]) = Len(g[k - 1]) + str[k].len
            /\ \A j \in 1..Len(g[k - 1]) : g[k][j] = g[k - 1][j]
            /\ \A i \in 1..str[k].len : g[k][Len(g[k - 1]) + i] = <<k, i>>
  <2>1. k - 1 \in 0..n
    BY <1>1
  <2>2. g[k - 1] \in Seq(Nat \X Nat) /\ seqs[k] \in Seq(Nat \X Nat) /\ g[k] = g[k - 1] \o seqs[k]
    BY <1>2, <1>6, <2>1
  <2>3. Len(g[k]) = Len(g[k - 1]) + Len(seqs[k])
    BY <2>2, ConcatProperties
  <2>4. \A j \in 1..Len(g[k]) : g[k][j] = IF j <= Len(g[k - 1]) THEN g[k - 1][j]
                                          ELSE seqs[k][j - Len(g[k - 1])]
    BY <2>2, ConcatProperties
  <2>5. Len(g[k - 1]) \in Nat /\ Len(seqs[k]) = str[k].len
    BY <1>3, <2>2, LenProperties
  <2>6. \A j \in 1..Len(g[k - 1]) : g[k][j] = g[k - 1][j]
    <3>1. ASSUME NEW j \in 1..Len(g[k - 1]) PROVE g[k][j] = g[k - 1][j]
      <4>1. str[k].len \in Nat
        BY <1>1
      <4>2. j \in 1..Len(g[k]) /\ j <= Len(g[k - 1])
        BY <2>3, <2>5, <4>1
      <4> QED
        BY <2>4, <4>2
    <3> QED
      BY <3>1
  <2>7. ASSUME NEW i \in 1..str[k].len PROVE g[k][Len(g[k - 1]) + i] = <<k, i>>
    <3>1. /\ Len(g[k - 1]) + i \in 1..Len(g[k]) /\ ~(Len(g[k - 1]) + i <= Len(g[k - 1]))
          /\ (Len(g[k - 1]) + i) - Len(g[k - 1]) = i
      <4>1. str[k].len \in Nat /\ i \in Nat /\ 1 <= i /\ i <= str[k].len
        BY <1>1
      <4> QED
        BY <2>3, <2>5, <4>1
    <3> QED
      BY <1>3, <2>4, <3>1
  <2> QED
    BY <2>3, <2>5, <2>6, <2>7
<1>8. \A k \in 0..n : Len(g[k]) \in Nat
  BY LenProperties
<1> DEFINE P == {m \in Nat : m <= n => LaidTo(str, g, m)}
<1>9. 0 \in P
  <2>1. Len(g[0]) = 0 /\ 1..0 = {} /\ \A a, b \in 0..0 : ~(a < b)
    BY <1>6
  <2> QED
    BY <2>1 DEF LaidTo
<1>10. ASSUME NEW m \in Nat, m \in P PROVE m + 1 \in P
  <2> SUFFICES ASSUME m + 1 <= n PROVE LaidTo(str, g, m + 1)
    BY DEF P
  <2>1. LaidTo(str, g, m)
    BY <1>1, <1>10
  <2>2. m + 1 \in 1..n /\ (m + 1) - 1 = m
    BY <1>1
  <2>3. /\ Len(g[m + 1]) = Len(g[m]) + str[m + 1].len
        /\ \A j \in 1..Len(g[m]) : g[m + 1][j] = g[m][j]
        /\ \A i \in 1..str[m + 1].len : g[m + 1][Len(g[m]) + i] = <<m + 1, i>>
    BY <1>7, <2>2, Zenon
  <2>4. Len(g[m]) \in Nat /\ str[m + 1].len \in Nat /\ str[m + 1].len # 0
    BY <1>1, <1>8, <2>2
  <2>5. ASSUME NEW a \in 0..(m + 1), NEW b \in 0..(m + 1), a < b PROVE Len(g[a]) < Len(g[b])
    <3>1. CASE b = m + 1
      <4>1. a \in 0..m /\ a \in 0..n /\ m \in 0..m
        BY <1>1, <2>2, <2>5, <3>1
      <4>2. Len(g[a]) <= Len(g[m])
        <5>1. CASE a = m
          BY <2>4, <5>1
        <5>2. CASE a # m
          <6>1. a < m
            BY <4>1, <5>2
          <6>2. Len(g[a]) < Len(g[m])
            BY <2>1, <4>1, <6>1, Zenon DEF LaidTo
          <6> QED
            BY <1>8, <2>4, <4>1, <6>2
        <5> QED
          BY <5>1, <5>2
      <4> QED
        BY <1>8, <2>3, <2>4, <3>1, <4>1, <4>2
    <3>2. CASE b # m + 1
      <4>1. a \in 0..m /\ b \in 0..m
        BY <2>5, <3>2
      <4> QED
        BY <2>1, <2>5, <4>1, Zenon DEF LaidTo
    <3> QED
      BY <3>1, <3>2
  <2>6. ASSUME NEW k \in 1..(m + 1), NEW i \in 1..str[k].len
        PROVE  g[m + 1][Len(g[k - 1]) + i] = <<k, i>>
    <3>1. CASE k = m + 1
      BY <2>2, <2>3, <2>6, <3>1
    <3>2. CASE k # m + 1
      <4>1. k \in 1..m /\ k \in 1..n /\ k - 1 \in 0..m /\ k \in 0..m /\ k - 1 \in 0..n /\ k \in 0..n
        BY <1>1, <2>2, <3>2
      <4>2. g[m][Len(g[k - 1]) + i] = <<k, i>>
        BY <2>1, <2>6, <4>1, Zenon DEF LaidTo
      <4>3. Len(g[k]) <= Len(g[m])
        <5>1. CASE k = m
          BY <2>4, <5>1
        <5>2. CASE k # m
          <6>1. k < m /\ m \in 0..m
            BY <4>1, <5>2
          <6>2. Len(g[k]) < Len(g[m])
            BY <2>1, <4>1, <6>1, Zenon DEF LaidTo
          <6> QED
            BY <1>8, <2>4, <4>1, <6>2
        <5> QED
          BY <5>1, <5>2
      <4>4. Len(g[k]) = Len(g[k - 1]) + str[k].len /\ Len(g[k - 1]) \in Nat /\ str[k].len \in Nat
        BY <1>1, <1>7, <1>8, <4>1
      <4>5. Len(g[k - 1]) + i \in 1..Len(g[m])
        <5>1. i \in Nat /\ 1 <= i /\ i <= str[k].len
          BY <2>6, <4>4
        <5> QED
          <6> DEFINE x == Len(g[k - 1])
                     y == Len(g[k])
                     z == Len(g[m])
                     w == str[k].len
          <6>1. y <= z /\ y = x + w /\ x \in Nat /\ w \in Nat /\ z \in Nat
            BY <2>4, <4>3, <4>4
          <6> HIDE DEF x, y, z, w
          <6>2. i <= w
            BY <5>1 DEF w
          <6>3. x + i \in 1..z
            BY <5>1, <6>1, <6>2
          <6> QED
            BY <6>3 DEF x, z
      <4> QED
        BY <2>3, <4>2, <4>5
    <3> QED
      BY <3>1, <3>2
  <2>7. ASSUME NEW j \in 1..Len(g[m + 1])
        PROVE  \E k \in 1..(m + 1) : \E i \in 1..str[k].len : j = Len(g[k - 1]) + i
    <3>1. CASE j \in 1..Len(g[m])
      <4>1. PICK k \in 1..m : \E i \in 1..str[k].len : j = Len(g[k - 1]) + i
        BY <2>1, <3>1, Zenon DEF LaidTo
      <4>2. k \in 1..(m + 1)
        OBVIOUS
      <4> QED
        BY <4>1, <4>2
    <3>2. CASE j \notin 1..Len(g[m])
      <4>1. j - Len(g[m]) \in 1..str[m + 1].len /\ j = Len(g[m]) + (j - Len(g[m]))
        BY <2>3, <2>4, <3>2
      <4>2. m + 1 \in 1..(m + 1)
        OBVIOUS
      <4> QED
        BY <2>2, <4>1, <4>2
    <3> QED
      BY <3>1, <3>2
  <2> QED
    BY <2>5, <2>6, <2>7 DEF LaidTo
<1>11. LaidTo(str, g, n)
  <2>1. Nat \subseteq P
    <3> HIDE DEF P
    <3> QED
      BY <1>9, <1>10, SetInduction
  <2> QED
    BY <1>1, <2>1
<1> DEFINE off == [k \in 1..(n + 1) |-> Len(g[k - 1])]
<1>12. off \in [1..(n + 1) -> Nat] /\ off[1] = 0
  <2>1. \A k \in 1..(n + 1) : k - 1 \in 0..n
    BY <1>1
  <2>2. 1 \in 1..(n + 1) /\ 1 - 1 = 0 /\ Len(g[0]) = 0
    BY <1>1, <1>6
  <2> QED
    BY <1>8, <2>1, <2>2
<1>13. \A k \in 1..n : /\ off[k + 1] = Len(g[k]) /\ off[k] = Len(g[k - 1])
                       /\ off[k + 1] = off[k] + str[k].len
  <2>1. \A k \in 1..n : k \in 1..(n + 1) /\ k + 1 \in 1..(n + 1) /\ (k + 1) - 1 = k
    BY <1>1
  <2> QED
    BY <1>7, <2>1
<1>14. \A a, b \in 1..(n + 1) : a < b => off[a] < off[b]
  <2>1. \A a \in 1..(n + 1) : a - 1 \in 0..n
    BY <1>1
  <2>2. \A a, b \in 1..(n + 1) : a < b => a - 1 < b - 1
    BY <1>1
  <2>3. \A a, b \in 0..n : a < b => Len(g[a]) < Len(g[b])
    BY <1>11, Zenon DEF LaidTo
  <2> QED
    BY <2>1, <2>2, <2>3
<1>15. CellsIn(str) = g[n] /\ g[n] \in Seq(Nat \X Nat) /\ Len(g[n]) = off[n + 1]
  <2>1. n + 1 \in 1..(n + 1) /\ (n + 1) - 1 = n /\ n \in 0..n
    BY <1>1
  <2> QED
    BY <1>4, <1>5, <2>1 DEF Joining
<1>16. \A k \in 1..n : \A i \in 1..str[k].len : g[n][off[k] + i] = <<k, i>>
  BY <1>11, <1>13 DEF LaidTo
<1>17. \A j \in 1..Len(g[n]) : \E k \in 1..n : \E i \in 1..str[k].len : j = off[k] + i
  <2> HIDE DEF off
  <2>1. \A j \in 1..Len(g[n]) : \E k \in 1..n : \E i \in 1..str[k].len : j = Len(g[k - 1]) + i
    BY <1>11, Zenon DEF LaidTo
  <2>2. ASSUME NEW j \in 1..Len(g[n])
        PROVE  \E k \in 1..n : \E i \in 1..str[k].len : j = off[k] + i
    <3>1. PICK k \in 1..n : \E i \in 1..str[k].len : j = Len(g[k - 1]) + i
      BY <2>1
    <3>2. PICK i \in 1..str[k].len : j = Len(g[k - 1]) + i
      BY <3>1
    <3>3. off[k] = Len(g[k - 1])
      BY <1>13
    <3> QED
      BY <3>2, <3>3
  <2> QED
    BY <2>2
<1> HIDE DEF off
<1>18. Laid(str, CellsIn(str), off)
  BY <1>12, <1>13, <1>14, <1>15, <1>16, <1>17 DEF Laid, n
<1> QED
  BY <1>18 DEF Layable

PieceCells(str, k) == [i \in 1..str[k].len |-> <<k, i>>]

\* The h-th piece brings the empty line of the head.
Opens(str, h) ==
    /\ h \in 1..Len(str) /\ str[h].kind = "head"
    /\ \A j \in 1..(h - 1) : str[j].kind = "text"

UpTo(cells, n) == SubSeq(cells, 1, n)

\* The messages are the requests between the head, which ends with the h-th
\* piece, and the k-th; h is 0 until there is a head.
SentBefore(p, str, cells, off, h, k) ==
    /\ k \in 1..(Len(str) + 1) /\ h \in Nat
    /\ p \in Seq(Seq(Nat \X Nat))
    /\ h = 0 => k = 1 /\ Len(p) = 0
    /\ h # 0 => /\ Opens(str, h) /\ h < k /\ Len(p) = k - 1 - h
                /\ \A j \in (h + 1)..(k - 1) : str[j].kind = "req"
                /\ \A i \in 1..Len(p) : p[i] = UpTo(cells, off[h + 1]) \o PieceCells(str, h + i)

\* What the notification length may be before the k-th piece.
Expected(str, off, h, k) ==
    IF h = 0 THEN {m \in Nat : \A x \in 1..Len(str) : Opens(str, x) => m <= off[x + 1]}
    ELSE IF k \in DOMAIN str /\ str[k].kind = "req" THEN {m \in Nat : m <= str[k].len}
    ELSE {m \in Nat : m <= HeaderLen}

\* The ring holds what arrived behind the first o cells.
Holds(b, got, cells, o) ==
    /\ got \in Nat /\ got <= Len(cells)
    /\ b \in Seq(Nat \X Nat) /\ o + Len(b) = got
    /\ \A i \in 1..Len(b) : b[i] = cells[o + i]

\* The connection c stands before the k-th piece.
StandsAt(c, str, cells, off, h, k) ==
    /\ Holds(c.buf, c.got, cells, off[k])
    /\ c.noti \in Nat /\ (~c.split => c.noti \in Expected(str, off, h, k))
    /\ c.head = IF h = 0 THEN <<>> ELSE UpTo(cells, off[h + 1])
    /\ c.reading \/ Len(c.buf) = 0 \/ Len(c.buf) < c.noti

Placed(c, p, str, cells, off, h, k) ==
    /\ Laid(str, cells, off)
    /\ SentBefore(p, str, cells, off, h, k)
    /\ c.state = "open" => StandsAt(c, str, cells, off, h, k)

Stands(c, p, str, cells) ==
    \E off : \E h \in Nat, k \in Nat : Placed(c, p, str, cells, off, h, k)

Shaped(c) ==
    /\ DOMAIN c = Fields /\ c = [f \in Fields |-> c[f]]
    /\ c.state = "open" \/ c = NewConn \/ c = ClosedConn

\* The ring is never overfull, and loses only of what is more than it holds.
Bounded(c, str, cells, gone) ==
    /\ c.got \in Nat /\ c.got <= Len(cells)
    /\ c.buf \in Seq(Nat \X Nat) /\ Len(c.buf) <= c.got /\ Len(c.buf) <= RingCap
    /\ \A j \in 1..Len(c.buf) : c.buf[j][1] \in 1..Len(str)
    /\ gone => RingCap < Len(cells)

Framed ==
    /\ client \in Clients
    /\ Shaped(conn)
    /\ lost \in BOOLEAN
    /\ Bounded(conn, stream, Cells, lost)
    /\ conn.state = "none" => pushed = <<>> /\ ~lost
    /\ ~lost => Stands(conn, pushed, stream, Cells)

LEMMA StreamFacts ==
  ASSUME client \in Clients
  PROVE  /\ stream \in Seq(Pieces) /\ Len(stream) \in Nat /\ DOMAIN stream = 1..Len(stream)
         /\ \A k \in 1..Len(stream) : /\ stream[k].len \in Nat /\ stream[k].len # 0
                                      /\ stream[k].kind = "req" => stream[k].len >= HeaderLen
<1>1. stream \in Seq(Pieces) /\ \A k \in DOMAIN stream : stream[k].kind = "req" => stream[k].len >= HeaderLen
  BY ClientsAssumption DEF stream
<1>2. Len(stream) \in Nat /\ DOMAIN stream = 1..Len(stream)
  BY <1>1, LenProperties
<1>3. \A k \in 1..Len(stream) : stream[k] \in Pieces
  BY <1>1, ElementOfSeq
<1> QED
  BY <1>1, <1>2, <1>3 DEF Pieces

LEMMA CellsLaid == client \in Clients => \E off : Laid(stream, Cells, off)
<1> SUFFICES ASSUME client \in Clients PROVE \E off : Laid(stream, Cells, off)
  OBVIOUS
<1>1. Cells = CellsIn(stream)
  BY DEF Cells, CellsOf, CellsIn
<1>2. Layable(stream)
  BY StreamFacts, StreamLaid
<1> QED
  BY <1>1, <1>2 DEF Layable

LEMMA CellsFacts ==
  ASSUME client \in Clients
  PROVE  Cells \in Seq(Nat \X Nat) /\ Len(Cells) \in Nat /\ \A j \in 1..Len(Cells) : Cells[j] \in Nat \X Nat
<1>1. Cells \in Seq(Nat \X Nat)
  BY CellsLaid DEF Laid
<1> QED
  BY <1>1, LenProperties, ElementOfSeq

\* Every cell is one of a piece.
LEMMA CellsOfPieces ==
  ASSUME client \in Clients
  PROVE  \A j \in 1..Len(Cells) : Cells[j][1] \in 1..Len(stream)
<1> SUFFICES ASSUME NEW j \in 1..Len(Cells) PROVE Cells[j][1] \in 1..Len(stream)
  OBVIOUS
<1>1. PICK off : Laid(stream, Cells, off)
  BY CellsLaid
<1>2. PICK k \in 1..Len(stream) : \E i \in 1..stream[k].len : j = off[k] + i
  BY <1>1 DEF Laid
<1>3. PICK i \in 1..stream[k].len : j = off[k] + i
  BY <1>2
<1>4. Cells[j] = <<k, i>>
  BY <1>1, <1>3 DEF Laid
<1> QED
  BY <1>4

\* Where pieces begin and end.
LEMMA LaidFacts ==
  ASSUME NEW off, Laid(stream, Cells, off), client \in Clients
  PROVE  /\ \A a \in 1..(Len(stream) + 1) : off[a] \in Nat
         /\ \A a, b \in 1..(Len(stream) + 1) : a < b => off[a] < off[b]
         /\ \A a \in 1..Len(stream) : off[a + 1] = off[a] + stream[a].len
         /\ Len(Cells) \in Nat /\ off[1] = 0 /\ off[Len(stream) + 1] = Len(Cells)
         /\ \A a \in 1..(Len(stream) + 1) : off[a] <= Len(Cells)
<1>1. /\ off \in [1..(Len(stream) + 1) -> Nat] /\ off[1] = 0 /\ Len(Cells) = off[Len(stream) + 1]
      /\ \A k \in 1..Len(stream) : off[k + 1] = off[k] + stream[k].len
      /\ \A a, b \in 1..(Len(stream) + 1) : a < b => off[a] < off[b]
  BY DEF Laid
<1>2. Len(stream) \in Nat
  BY StreamFacts
<1>3. \A a \in 1..(Len(stream) + 1) : a = Len(stream) + 1 \/ a < Len(stream) + 1
  BY <1>2
<1>4. Len(stream) + 1 \in 1..(Len(stream) + 1)
  BY <1>2
<1>5. \A a \in 1..(Len(stream) + 1) : off[a] \in Nat
  BY <1>1
<1>6. ASSUME NEW a \in 1..(Len(stream) + 1) PROVE off[a] <= Len(Cells)
  <2>1. CASE a = Len(stream) + 1
    BY <1>1, <1>5, <2>1
  <2>2. CASE a < Len(stream) + 1
    BY <1>1, <1>4, <1>5, <2>2
  <2> QED
    BY <1>3, <2>1, <2>2
<1> QED
  BY <1>1, <1>4, <1>5, <1>6

\* Where the cells of the r-th piece are.
LEMMA LastCellAt ==
  ASSUME NEW off, Laid(stream, Cells, off), client \in Clients,
         NEW r \in 1..Len(stream), NEW j \in 1..Len(Cells), Cells[j] = <<r, stream[r].len>>
  PROVE  j = off[r + 1]
<1>1. PICK k \in 1..Len(stream) : \E i \in 1..stream[k].len : j = off[k] + i
  BY DEF Laid
<1>2. PICK i \in 1..stream[k].len : j = off[k] + i
  BY <1>1
<1>3. Cells[j] = <<k, i>>
  BY <1>2 DEF Laid
<1>4. k = r /\ i = stream[r].len
  BY <1>3
<1> QED
  BY <1>2, <1>4 DEF Laid

\* ... and its last.
LEMMA LastCellIs ==
  ASSUME NEW off, Laid(stream, Cells, off), client \in Clients, NEW r \in 1..Len(stream)
  PROVE  off[r + 1] \in 1..Len(Cells) /\ Cells[off[r + 1]] = <<r, stream[r].len>>
<1>1. stream[r].len \in Nat /\ stream[r].len # 0 /\ Len(stream) \in Nat
  BY StreamFacts
<1>2. r + 1 \in 1..(Len(stream) + 1) /\ r \in 1..(Len(stream) + 1)
  BY <1>1
<1>3. off[r + 1] = off[r] + stream[r].len /\ off[r] \in Nat /\ off[r + 1] \in Nat /\ off[r + 1] <= Len(Cells)
      /\ Len(Cells) \in Nat
  BY <1>2, LaidFacts
<1>4. stream[r].len \in 1..stream[r].len
  BY <1>1
<1>5. Cells[off[r] + stream[r].len] = <<r, stream[r].len>>
  BY <1>4 DEF Laid
<1>6. PICK x \in Nat, y \in Nat, z \in Nat : x = off[r] /\ y = stream[r].len /\ z = off[r + 1]
  BY <1>1, <1>3
<1>7. z >= 1 /\ z <= Len(Cells)
  BY <1>1, <1>3, <1>6
<1> QED
  BY <1>3, <1>5, <1>6, <1>7

\* Only one piece opens a stream.
LEMMA OneOpens ==
  ASSUME NEW a, NEW b, Opens(stream, a), Opens(stream, b), client \in Clients
  PROVE  a = b
<1>1. a \in 1..Len(stream) /\ b \in 1..Len(stream) /\ Len(stream) \in Nat
  BY StreamFacts DEF Opens
<1>2. ~(a < b) /\ ~(b < a)
  <2>1. ASSUME a < b PROVE FALSE
    <3>1. a \in 1..(b - 1)
      BY <1>1, <2>1
    <3> QED
      BY <3>1 DEF Opens
  <2>2. ASSUME b < a PROVE FALSE
    <3>1. b \in 1..(a - 1)
      BY <1>1, <2>2
    <3> QED
      BY <3>1 DEF Opens
  <2> QED
    BY <2>1, <2>2
<1> QED
  BY <1>1, <1>2

LEMMA OpeningOpens == client \in Clients => \A h : h \in Opening <=> Opens(stream, h)
  BY StreamFacts DEF Opening, Opens

LEMMA StreamStays == UNCHANGED client => stream' = stream /\ Cells' = Cells
  BY DEF Cells, CellsOf, stream

-----------------------------------------------------------------------------
(* Sequences cut and joined, for any length *)

\* The first n of a sequence that holds what lies behind o, and the rest.
CutAt(b, got, cells, o, n) ==
    /\ Holds(SubSeq(b, n + 1, Len(b)), got, cells, o + n)
    /\ SubSeq(b, 1, n) \in Seq(Nat \X Nat)
    /\ Len(SubSeq(b, 1, n)) = n
    /\ \A i \in 1..n : SubSeq(b, 1, n)[i] = cells[o + i]

LEMMA CutHolds ==
  ASSUME NEW b, NEW got, NEW cells \in Seq(Nat \X Nat), NEW o \in Nat, Holds(b, got, cells, o),
         NEW n \in Nat, n <= Len(b)
  PROVE  CutAt(b, got, cells, o, n)
<1>1. b \in Seq(Nat \X Nat) /\ Len(b) \in Nat /\ \A i \in 1..Len(b) : b[i] \in Nat \X Nat
  BY LenProperties, ElementOfSeq DEF Holds
<1>2. PICK m \in Nat : m = Len(b)
  BY <1>1
<1>3. /\ SubSeq(b, 1, n) \in Seq(Nat \X Nat)
      /\ Len(SubSeq(b, 1, n)) = IF 1 <= n THEN n - 1 + 1 ELSE 0
      /\ \A i \in 1..(n - 1 + 1) : SubSeq(b, 1, n)[i] = b[1 + i - 1]
  <2>1. \A i \in 1..n : b[i] \in Nat \X Nat
    BY <1>1, <1>2
  <2> QED
    BY <2>1, SubSeqProperties
<1>4. Len(SubSeq(b, 1, n)) = n
  BY <1>3
<1>5. \A i \in 1..n : SubSeq(b, 1, n)[i] = cells[o + i]
  <2>1. ASSUME NEW i \in 1..n PROVE SubSeq(b, 1, n)[i] = cells[o + i]
    <3>1. i \in 1..(n - 1 + 1) /\ 1 + i - 1 = i /\ i \in 1..Len(b)
      BY <1>1
    <3>2. SubSeq(b, 1, n)[i] = b[i]
      BY <1>3, <3>1
    <3> QED
      BY <3>1, <3>2 DEF Holds
  <2> QED
    BY <2>1
<1> DEFINE r == SubSeq(b, n + 1, m)
<1>6. /\ r \in Seq(Nat \X Nat)
      /\ Len(r) = IF n + 1 <= m THEN m - (n + 1) + 1 ELSE 0
      /\ \A i \in 1..(m - (n + 1) + 1) : r[i] = b[(n + 1) + i - 1]
  <2>1. \A i \in (n + 1)..m : b[i] \in Nat \X Nat
    BY <1>1, <1>2
  <2> QED
    BY <2>1, SubSeqProperties
<1>7. Len(r) = m - n
  BY <1>2, <1>6
<1> HIDE DEF r
<1>8. ASSUME NEW i \in 1..Len(r) PROVE r[i] = cells[(o + n) + i]
  <2>1. i \in 1..(m - (n + 1) + 1) /\ (n + 1) + i - 1 = n + i /\ n + i \in 1..Len(b)
    BY <1>2, <1>7
  <2>2. r[i] = b[n + i]
    BY <1>6, <2>1
  <2>3. b[n + i] = cells[o + (n + i)] /\ o + (n + i) = (o + n) + i
    BY <2>1 DEF Holds
  <2> QED
    BY <2>2, <2>3
<1>9. (o + n) + Len(r) = got
  <2>1. o + m = got
    BY <1>2 DEF Holds
  <2> QED
    BY <1>7, <2>1
<1>10. Holds(r, got, cells, o + n)
  BY <1>6, <1>8, <1>9 DEF Holds
<1> QED
  BY <1>2, <1>3, <1>4, <1>5, <1>10 DEF r, CutAt

\* More that arrives is put behind.
LEMMA JoinHolds ==
  ASSUME NEW b, NEW got, NEW cells \in Seq(Nat \X Nat), NEW o \in Nat, Holds(b, got, cells, o),
         NEW n \in Nat, got + n <= Len(cells)
  PROVE  Holds(b \o SubSeq(cells, got + 1, got + n), got + n, cells, o)
<1>1. b \in Seq(Nat \X Nat) /\ Len(b) \in Nat /\ got \in Nat /\ Len(cells) \in Nat
  BY LenProperties DEF Holds
<1>2. PICK m \in Nat, g \in Nat, z \in Nat : m = Len(b) /\ g = got /\ z = Len(cells)
  BY <1>1
<1> DEFINE t == SubSeq(cells, g + 1, g + n)
<1>3. /\ t \in Seq(Nat \X Nat)
      /\ Len(t) = IF g + 1 <= g + n THEN (g + n) - (g + 1) + 1 ELSE 0
      /\ \A i \in 1..((g + n) - (g + 1) + 1) : t[i] = cells[(g + 1) + i - 1]
  <2>1. \A i \in (g + 1)..(g + n) : i \in 1..z
    BY <1>2
  <2>2. \A i \in (g + 1)..(g + n) : cells[i] \in Nat \X Nat
    BY <1>2, <2>1, ElementOfSeq
  <2> QED
    BY <2>2, SubSeqProperties
<1>4. Len(t) = n
  BY <1>3
<1>5. ASSUME NEW i \in 1..n PROVE t[i] = cells[g + i]
  <2>1. i \in 1..((g + n) - (g + 1) + 1) /\ (g + 1) + i - 1 = g + i
    OBVIOUS
  <2> QED
    BY <1>3, <2>1
<1> HIDE DEF t
<1> DEFINE j == b \o t
<1>6. /\ j \in Seq(Nat \X Nat) /\ Len(j) = m + n
      /\ \A i \in 1..(m + n) : j[i] = IF i <= m THEN b[i] ELSE t[i - m]
  BY <1>1, <1>2, <1>3, <1>4, ConcatProperties
<1> HIDE DEF j
<1>7. ASSUME NEW i \in 1..Len(j) PROVE j[i] = cells[o + i]
  <2>1. CASE i <= m
    <3>1. i \in 1..Len(b) /\ i \in 1..(m + n)
      BY <1>2, <1>6, <2>1
    <3> QED
      BY <1>6, <2>1, <3>1 DEF Holds
  <2>2. CASE ~(i <= m)
    <3>1. i - m \in 1..n /\ i \in 1..(m + n)
      BY <1>6, <2>2
    <3>2. j[i] = cells[g + (i - m)]
      BY <1>5, <1>6, <2>2, <3>1
    <3>3. o + m = g
      BY <1>2 DEF Holds
    <3>4. g + (i - m) = o + i
      BY <3>3
    <3> QED
      BY <3>2, <3>4
  <2> QED
    BY <2>1, <2>2
<1>8. o + Len(j) = g + n
  <2>1. o + Len(b) = got
    BY DEF Holds
  <2>2. o + m = g
    BY <1>2, <2>1
  <2>3. o + (m + n) = g + n
    BY <2>2
  <2> QED
    BY <1>6, <2>3
<1>9. Holds(j, g + n, cells, o)
  BY <1>1, <1>2, <1>6, <1>7, <1>8 DEF Holds
<1> QED
  BY <1>2, <1>9 DEF j, t

\* A sequence is a piece's cells when it is so place by place.
LEMMA CellsOfPiece ==
  ASSUME NEW str, NEW k, str[k].len \in Nat, NEW s \in Seq(Nat \X Nat), Len(s) = str[k].len,
         \A i \in 1..Len(s) : s[i] = <<k, i>>
  PROVE  s = PieceCells(str, k)
<1>1. DOMAIN s = 1..str[k].len /\ s = [i \in DOMAIN s |-> s[i]]
  BY LenProperties
<1> QED
  BY <1>1 DEF PieceCells

\* ... and a prefix of the cells.
LEMMA CellsUpTo ==
  ASSUME NEW cells \in Seq(Nat \X Nat), NEW n \in Nat, n <= Len(cells),
         NEW s \in Seq(Nat \X Nat), Len(s) = n, \A i \in 1..n : s[i] = cells[i]
  PROVE  s = UpTo(cells, n)
<1>1. \A i \in 1..n : i \in 1..Len(cells)
  BY LenProperties
<1>2. \A i \in 1..n : cells[i] \in Nat \X Nat
  BY <1>1, ElementOfSeq
<1>3. PICK t : t = SubSeq(cells, 1, n)
  OBVIOUS
<1>4. t \in Seq(Nat \X Nat) /\ Len(t) = n /\ \A i \in 1..n : t[i] = cells[i]
  <2>1. /\ SubSeq(cells, 1, n) \in Seq(Nat \X Nat)
        /\ Len(SubSeq(cells, 1, n)) = IF 1 <= n THEN n - 1 + 1 ELSE 0
        /\ \A i \in 1..(n - 1 + 1) : SubSeq(cells, 1, n)[i] = cells[1 + i - 1]
    BY <1>2, SubSeqProperties
  <2>2. \A i \in 1..n : i \in 1..(n - 1 + 1) /\ 1 + i - 1 = i
    OBVIOUS
  <2> QED
    BY <1>3, <2>1, <2>2
<1>5. s = [i \in 1..n |-> s[i]] /\ t = [i \in 1..n |-> t[i]]
  <2>1. DOMAIN s = 1..n /\ DOMAIN t = 1..n
    BY <1>4, LenProperties
  <2>2. s = [i \in DOMAIN s |-> s[i]] /\ t = [i \in DOMAIN t |-> t[i]]
    BY <1>4, LenProperties
  <2> QED
    BY <2>1, <2>2
<1>6. \A i \in 1..n : s[i] = t[i]
  BY <1>4
<1> QED
  BY <1>3, <1>5, <1>6 DEF UpTo

\* Their lengths, whatever they hold.
LEMMA PartLen ==
  ASSUME NEW s \in Seq(Nat \X Nat), NEW a \in Nat, NEW b \in Nat, b <= Len(s)
  PROVE  /\ SubSeq(s, a + 1, b) \in Seq(Nat \X Nat)
         /\ Len(SubSeq(s, a + 1, b)) = IF a <= b THEN b - a ELSE 0
<1>1. Len(s) \in Nat
  BY LenProperties
<1>2. \A i \in (a + 1)..b : i \in 1..Len(s)
  BY <1>1
<1>3. \A i \in (a + 1)..b : s[i] \in Nat \X Nat
  BY <1>2, ElementOfSeq
<1>4. /\ SubSeq(s, a + 1, b) \in Seq(Nat \X Nat)
      /\ Len(SubSeq(s, a + 1, b)) = IF a + 1 <= b THEN b - (a + 1) + 1 ELSE 0
  BY <1>3, SubSeqProperties
<1> QED
  BY <1>4

-----------------------------------------------------------------------------
(* The steps of the connection *)

\* Before any step.
LEMMA NoneStands ==
  ASSUME client \in Clients, NEW c, c.state # "open"
  PROVE  Stands(c, <<>>, stream, Cells)
<1>1. PICK off : Laid(stream, Cells, off)
  BY CellsLaid
<1>2. SentBefore(<<>>, stream, Cells, off, 0, 1)
  BY StreamFacts DEF SentBefore
<1>3. Placed(c, <<>>, stream, Cells, off, 0, 1)
  BY <1>1, <1>2 DEF Placed
<1> QED
  BY <1>3 DEF Stands

LEMMA NewShape ==
  /\ Shaped(NewConn) /\ Shaped(ClosedConn) /\ NewConn.state = "none" /\ ClosedConn.state = "closed"
  /\ NewConn.got = 0 /\ NewConn.buf = <<>> /\ ClosedConn.got = 0 /\ ClosedConn.buf = <<>>
  BY DEF Shaped, Fields, NewConn, ClosedConn

LEMMA FramedStart == ConnInit => Framed
<1> SUFFICES ASSUME ConnInit PROVE Framed
  OBVIOUS
<1>1. client \in Clients /\ conn = NewConn /\ pushed = <<>> /\ lost = FALSE
  BY DEF ConnInit
<1>2. Bounded(conn, stream, Cells, lost)
  BY <1>1, CellsFacts, NewShape, ConnAssumption DEF Bounded
<1> QED
  BY <1>1, <1>2, NoneStands, NewShape DEF Framed

\* A connection that closes keeps what it has pushed.
LEMMA ClosingKeeps ==
  ASSUME Framed, UNCHANGED <<client, pushed, lost>>, conn' = ClosedConn
  PROVE  Framed'
<1>1. stream' = stream /\ Cells' = Cells
  BY StreamStays
<1>2. ~lost => Stands(ClosedConn, pushed, stream, Cells)
  <2> SUFFICES ASSUME ~lost PROVE Stands(ClosedConn, pushed, stream, Cells)
    OBVIOUS
  <2>1. PICK off : \E h \in Nat, k \in Nat : Placed(conn, pushed, stream, Cells, off, h, k)
    BY DEF Framed, Stands
  <2>2. PICK h \in Nat, k \in Nat : Placed(conn, pushed, stream, Cells, off, h, k)
    BY <2>1
  <2>3. Placed(ClosedConn, pushed, stream, Cells, off, h, k)
    BY <2>2, NewShape DEF Placed
  <2> QED
    BY <2>3 DEF Stands
<1>3. Bounded(ClosedConn, stream, Cells, lost)
  BY CellsFacts, NewShape, ConnAssumption DEF Bounded, Framed
<1> QED
  BY <1>1, <1>2, <1>3, NewShape DEF Framed

LEMMA CreateKeeps == ASSUME Framed, OnCreate PROVE Framed'
<1>1. conn = NewConn /\ pushed = <<>> /\ client \in Clients /\ ~lost
  BY NewShape DEF OnCreate, Framed, Shaped
<1>2. stream' = stream /\ Cells' = Cells /\ pushed' = pushed /\ client' = client /\ lost' = lost
  BY StreamStays DEF OnCreate
<1>3. /\ Shaped(conn') /\ conn'.state = "open" /\ conn'.buf = <<>> /\ conn'.got = 0
      /\ conn'.noti = 0 /\ conn'.head = <<>>
  BY <1>1 DEF OnCreate, NewConn, Shaped, Fields
<1>4. PICK off : Laid(stream, Cells, off)
  BY <1>1, CellsLaid
<1>5. SentBefore(<<>>, stream, Cells, off, 0, 1)
  BY <1>1, StreamFacts DEF SentBefore
<1>6. off[1] = 0 /\ Len(Cells) \in Nat /\ \A x \in 1..Len(stream) : off[x + 1] \in Nat
  BY <1>1, <1>4, StreamFacts, LaidFacts
<1>7. 0 \in Expected(stream, off, 0, 1)
  BY <1>6 DEF Expected
<1>8. Holds(<<>>, 0, Cells, off[1])
  BY <1>6 DEF Holds
<1>9. StandsAt(conn', stream, Cells, off, 0, 1)
  BY <1>3, <1>7, <1>8 DEF StandsAt
<1>10. Placed(conn', pushed, stream, Cells, off, 0, 1)
  BY <1>1, <1>4, <1>5, <1>9 DEF Placed
<1>11. Stands(conn', pushed, stream, Cells)
  BY <1>10 DEF Stands
<1>12. Bounded(conn', stream, Cells, lost)
  BY <1>1, <1>3, <1>6, ConnAssumption DEF Bounded
<1> QED
  BY <1>1, <1>2, <1>3, <1>11, <1>12 DEF Framed

\* Facts of a connection that stands before the k-th piece.
LEMMA PlaceFacts ==
  ASSUME client \in Clients, conn.state = "open", NEW off, NEW h \in Nat, NEW k \in Nat,
         Placed(conn, pushed, stream, Cells, off, h, k)
  PROVE  /\ Laid(stream, Cells, off) /\ k \in 1..(Len(stream) + 1) /\ off[k] \in Nat
         /\ SentBefore(pushed, stream, Cells, off, h, k)
         /\ StandsAt(conn, stream, Cells, off, h, k)
         /\ Holds(Buffered, conn.got, Cells, off[k])
         /\ Buffered \in Seq(Nat \X Nat) /\ Len(Buffered) \in Nat /\ conn.noti \in Nat
         /\ conn.head = <<>> <=> h = 0
<1>1. /\ Laid(stream, Cells, off) /\ SentBefore(pushed, stream, Cells, off, h, k)
      /\ StandsAt(conn, stream, Cells, off, h, k)
  BY DEF Placed
<1>2. k \in 1..(Len(stream) + 1)
  BY <1>1 DEF SentBefore
<1>3. Holds(Buffered, conn.got, Cells, off[k]) /\ conn.noti \in Nat
  BY <1>1 DEF StandsAt, Buffered
<1>4. Buffered \in Seq(Nat \X Nat) /\ Len(Buffered) \in Nat
  BY <1>3, LenProperties DEF Holds
<1>5. off[k] \in Nat
  BY <1>1, <1>2, LaidFacts
<1>6. ASSUME h # 0 PROVE conn.head # <<>>
  <2>1. h \in 1..Len(stream) /\ conn.head = UpTo(Cells, off[h + 1])
    BY <1>1, <1>6 DEF SentBefore, Opens, StandsAt
  <2>2. off[h + 1] \in 1..Len(Cells) /\ Cells \in Seq(Nat \X Nat) /\ Len(Cells) \in Nat
    BY <1>1, <2>1, LastCellIs, CellsFacts
  <2>3. PICK n \in Nat : n = off[h + 1] /\ n # 0 /\ n <= Len(Cells)
    BY <2>2
  <2>4. Len(SubSeq(Cells, 0 + 1, n)) = n
    BY <2>2, <2>3, PartLen
  <2>5. Len(conn.head) # 0
    BY <2>1, <2>3, <2>4 DEF UpTo
  <2> QED
    BY <2>5
<1>7. h = 0 => conn.head = <<>>
  BY <1>1 DEF StandsAt
<1> QED
  BY <1>1, <1>2, <1>3, <1>4, <1>5, <1>6, <1>7

\* Until its bytes are looked at, more of them change nothing.
LEMMA ReceiveKeeps == ASSUME Framed, NEW n \in 1..Len(Cells), Receive(n) PROVE Framed'
<1>1. client \in Clients /\ Shaped(conn) /\ conn.state = "open" /\ Bounded(conn, stream, Cells, lost) /\ lost \in BOOLEAN
  BY DEF Framed, Receive, InEvents
<1>2. stream' = stream /\ Cells' = Cells /\ pushed' = pushed /\ client' = client
  BY StreamStays DEF Receive
<1>20. PICK f : f = Fitting(n)
  OBVIOUS
<1>21. PICK more : more = SubSeq(Cells, conn.got + 1, conn.got + f)
  OBVIOUS
<1>3. /\ Shaped(conn') /\ conn'.state = "open" /\ conn'.buf = conn.buf \o more /\ conn'.got = conn.got + n
      /\ conn'.noti = conn.noti /\ conn'.head = conn.head /\ conn'.split = conn.split /\ conn'.reading = TRUE
  BY <1>1, <1>20, <1>21 DEF Receive, NewConn, Shaped, Fields
<1>4. lost' = (lost \/ f < n) /\ conn.got + n <= Len(Cells)
  BY <1>20 DEF Receive
<1>5. /\ conn.got \in Nat /\ conn.buf \in Seq(Nat \X Nat) /\ Len(conn.buf) <= conn.got /\ Len(conn.buf) \in Nat
      /\ Len(conn.buf) <= RingCap /\ (lost => RingCap < Len(Cells)) /\ RingCap \in Nat
  BY <1>1, LenProperties, ConnAssumption DEF Bounded
<1>6. n \in Nat /\ n >= 1 /\ Len(Cells) \in Nat /\ Cells \in Seq(Nat \X Nat)
  BY <1>1, CellsFacts
<1>7. PICK g \in Nat, m \in Nat, z \in Nat : g = conn.got /\ m = Len(conn.buf) /\ z = Len(Cells)
  BY <1>5, <1>6
<1>24. PICK u \in Nat : u = n
  BY <1>6
<1>8. f \in Nat /\ f <= n /\ m + f <= RingCap /\ (f < n => f = RingCap - m)
  <2>1. f = IF n <= RingCap - m THEN n ELSE RingCap - m
    BY <1>7, <1>20 DEF Fitting, Room, Buffered
  <2>2. m <= RingCap
    BY <1>5, <1>7
  <2> QED
    BY <1>5, <1>6, <2>1, <2>2
<1>25. f \in Nat /\ g + f <= z /\ (f < u => f = RingCap - m) /\ f <= u /\ g + u <= z
  <2>1. g + u <= z
    BY <1>4, <1>7, <1>24
  <2>2. f \in Nat /\ f <= u /\ (f < u => f = RingCap - m)
    BY <1>8, <1>24
  <2> QED
    BY <2>1, <2>2
<1>9. more \in Seq(Nat \X Nat) /\ Len(more) = f
  <2>1. g + f \in Nat /\ g + f <= Len(Cells) /\ (IF g <= g + f THEN (g + f) - g ELSE 0) = f
    BY <1>8, <1>25, <1>7
  <2>2. more = SubSeq(Cells, g + 1, g + f)
    BY <1>7, <1>21
  <2> QED
    BY <1>6, <2>1, <2>2, PartLen
<1>10. /\ conn.buf \o more \in Seq(Nat \X Nat) /\ Len(conn.buf \o more) = m + f
       /\ \A i \in 1..(m + f) : (conn.buf \o more)[i] = IF i <= m THEN conn.buf[i] ELSE more[i - m]
  BY <1>5, <1>7, <1>9, ConcatProperties
<1>22. \A i \in 1..f : more[i] = Cells[g + i] /\ g + i \in 1..Len(Cells)
  <2>1. \A i \in (g + 1)..(g + f) : i \in 1..Len(Cells)
    <3>1. \A i \in (g + 1)..(g + f) : i \in 1..z
      BY <1>25
    <3> QED
      BY <1>7, <3>1
  <2>2. \A i \in (g + 1)..(g + f) : Cells[i] \in Nat \X Nat
    BY <1>6, <2>1, ElementOfSeq
  <2>3. \A i \in 1..((g + f) - (g + 1) + 1) : SubSeq(Cells, g + 1, g + f)[i] = Cells[(g + 1) + i - 1]
    <3>1. g + 1 \in Nat /\ g + f \in Nat /\ \A i \in (g + 1)..(g + f) : Cells[i] \in Nat \X Nat
      BY <1>25, <2>2
    <3> QED
      BY <3>1, SubSeqProperties
  <2>4. ASSUME NEW i \in 1..f PROVE more[i] = Cells[g + i] /\ g + i \in 1..Len(Cells)
    <3>1. i \in 1..((g + f) - (g + 1) + 1) /\ (g + 1) + i - 1 = g + i /\ g + i \in (g + 1)..(g + f)
      BY <1>25
    <3> QED
      BY <1>7, <1>21, <2>1, <2>3, <3>1
  <2> QED
    BY <2>4
<1>23. \A i \in 1..Len(conn'.buf) : conn'.buf[i][1] \in 1..Len(stream)
  <2>1. ASSUME NEW i \in 1..(m + f) PROVE (conn.buf \o more)[i][1] \in 1..Len(stream)
    <3>1. CASE i <= m
      <4>1. i \in 1..Len(conn.buf)
        BY <1>7, <3>1
      <4> QED
        BY <1>1, <1>10, <3>1, <4>1 DEF Bounded
    <3>2. CASE ~(i <= m)
      <4>1. i - m \in 1..f
        BY <1>7, <1>8, <3>2
      <4> QED
        BY <1>1, <1>10, <1>22, <3>2, <4>1, CellsOfPieces
    <3> QED
      BY <3>1, <3>2
  <2> QED
    BY <1>3, <1>10, <2>1
<1>11. Bounded(conn', stream, Cells, lost')
  <2>1. lost' => RingCap < z
    <3>1. CASE f < u
      <4>1. m <= g /\ f = RingCap - m
        BY <1>5, <1>7, <1>25, <3>1
      <4>2. RingCap - m < u
        BY <3>1, <4>1
      <4>3. RingCap < z
        BY <1>5, <1>25, <4>1, <4>2
      <4> QED
        BY <4>3
    <3>2. CASE ~(f < u)
      BY <1>4, <1>5, <1>7, <1>24, <3>2
    <3> QED
      BY <3>1, <3>2
  <2>2. conn'.got \in Nat /\ conn'.got <= Len(Cells)
    BY <1>3, <1>4, <1>5, <1>6
  <2>3. Len(conn'.buf) <= conn'.got /\ Len(conn'.buf) <= RingCap
    <3>1. m <= g /\ m + f <= g + u /\ m + f <= RingCap
      BY <1>5, <1>7, <1>8, <1>25
    <3>2. Len(conn'.buf) = m + f /\ conn'.got = g + u
      BY <1>3, <1>7, <1>10, <1>24
    <3> QED
      BY <3>1, <3>2
  <2> QED
    BY <1>3, <1>7, <1>10, <1>23, <2>1, <2>2, <2>3 DEF Bounded
<1>12. ASSUME ~lost' PROVE Stands(conn', pushed, stream, Cells)
  <2>1. ~lost /\ f = n
    <3>1. ~lost /\ ~(f < u)
      BY <1>4, <1>12, <1>24
    <3>2. f = u
      BY <1>25, <3>1
    <3> QED
      BY <1>24, <3>1, <3>2
  <2>2. PICK off : \E h \in Nat, k \in Nat : Placed(conn, pushed, stream, Cells, off, h, k)
    BY <2>1 DEF Framed, Stands
  <2>3. PICK h \in Nat, k \in Nat : Placed(conn, pushed, stream, Cells, off, h, k)
    BY <2>2
  <2>4. /\ Laid(stream, Cells, off) /\ off[k] \in Nat /\ SentBefore(pushed, stream, Cells, off, h, k)
        /\ StandsAt(conn, stream, Cells, off, h, k) /\ Holds(conn.buf, conn.got, Cells, off[k])
    BY <1>1, <2>3, PlaceFacts DEF Buffered
  <2>5. Holds(conn.buf \o SubSeq(Cells, conn.got + 1, conn.got + n), conn.got + n, Cells, off[k])
    BY <1>4, <1>6, <2>4, JoinHolds
  <2>6. Holds(conn'.buf, conn'.got, Cells, off[k])
    BY <1>3, <1>21, <2>1, <2>5
  <2>7. StandsAt(conn', stream, Cells, off, h, k)
    BY <1>3, <2>4, <2>6 DEF StandsAt
  <2>8. Placed(conn', pushed, stream, Cells, off, h, k)
    BY <2>4, <2>7 DEF Placed
  <2> QED
    BY <2>8 DEF Stands
<1>13. lost' \in BOOLEAN
  BY <1>1, <1>4
<1> QED
  BY <1>1, <1>2, <1>3, <1>11, <1>12, <1>13 DEF Framed

LEMMA ReadDoneKeeps == ASSUME Framed, ReadDone PROVE Framed'
<1>1. Shaped(conn) /\ conn.state = "open" /\ Bounded(conn, stream, Cells, lost)
  BY DEF Framed, ReadDone, InEvents
<1>2. UNCHANGED <<client, pushed, lost>>
  BY DEF ReadDone
<1>3. /\ Shaped(conn') /\ conn'.state = "open" /\ conn'.buf = conn.buf /\ conn'.got = conn.got
      /\ conn'.noti = conn.noti /\ conn'.head = conn.head /\ conn'.split = conn.split
  BY <1>1 DEF ReadDone, NewConn, Shaped, Fields
<1>4. ~lost => Len(conn.buf) = 0 \/ Len(conn.buf) < conn.noti
  <2> SUFFICES ASSUME ~lost PROVE Len(conn.buf) = 0 \/ Len(conn.buf) < conn.noti
    OBVIOUS
  <2>1. PICK off : \E h \in Nat, k \in Nat : Placed(conn, pushed, stream, Cells, off, h, k)
    BY DEF Framed, Stands
  <2>2. PICK h \in Nat, k \in Nat : Placed(conn, pushed, stream, Cells, off, h, k)
    BY <2>1
  <2>3. Len(Buffered) \in Nat /\ conn.noti \in Nat /\ Buffered \in Seq(Nat \X Nat)
    BY <1>1, <2>2, PlaceFacts DEF Framed
  <2>4. Buffered = <<>> \/ Len(Buffered) < conn.noti
    BY <2>3 DEF ReadDone, MorePacks
  <2> QED
    BY <2>4 DEF Buffered
<1>5. stream' = stream /\ Cells' = Cells
  BY <1>2, StreamStays
<1>6. Bounded(conn', stream, Cells, lost)
  BY <1>1, <1>3 DEF Bounded
<1>7. ASSUME ~lost PROVE Stands(conn', pushed, stream, Cells)
  <2>1. PICK off : \E h \in Nat, k \in Nat : Placed(conn, pushed, stream, Cells, off, h, k)
    BY <1>7 DEF Framed, Stands
  <2>2. PICK h \in Nat, k \in Nat : Placed(conn, pushed, stream, Cells, off, h, k)
    BY <2>1
  <2>3. StandsAt(conn', stream, Cells, off, h, k)
    BY <1>1, <1>3, <1>4, <1>7, <2>2 DEF Placed, StandsAt
  <2>4. Placed(conn', pushed, stream, Cells, off, h, k)
    BY <2>2, <2>3 DEF Placed
  <2> QED
    BY <2>4 DEF Stands
<1> QED
  BY <1>2, <1>3, <1>5, <1>6, <1>7 DEF Framed

\* The timer closes the connection or looks no further.
LEMMA TimerKeeps == ASSUME Framed, HandleTimer PROVE Framed'
<1>1. Shaped(conn) /\ conn.state = "open" /\ UNCHANGED <<client, pushed, lost>>
  BY DEF Framed, HandleTimer
<1>2. CASE Silent
  BY <1>1, <1>2, ClosingKeeps DEF HandleTimer
<1>3. CASE ~Silent
  <2>1. /\ Shaped(conn') /\ conn'.state = "open" /\ conn'.buf = conn.buf /\ conn'.got = conn.got
        /\ conn'.noti = conn.noti /\ conn'.head = conn.head /\ conn'.split = conn.split
        /\ conn'.reading = conn.reading
    BY <1>1, <1>3 DEF HandleTimer, NewConn, Shaped, Fields
  <2>2. stream' = stream /\ Cells' = Cells /\ Bounded(conn', stream, Cells, lost)
    BY <1>1, <2>1, StreamStays DEF Framed, Bounded
  <2>3. ASSUME ~lost PROVE Stands(conn', pushed, stream, Cells)
    <3>1. PICK off : \E h \in Nat, k \in Nat : Placed(conn, pushed, stream, Cells, off, h, k)
      BY <2>3 DEF Framed, Stands
    <3>2. PICK h \in Nat, k \in Nat : Placed(conn, pushed, stream, Cells, off, h, k)
      BY <3>1
    <3>3. StandsAt(conn', stream, Cells, off, h, k)
      BY <1>1, <2>1, <3>2 DEF Placed, StandsAt
    <3>4. Placed(conn', pushed, stream, Cells, off, h, k)
      BY <3>2, <3>3 DEF Placed
    <3> QED
      BY <3>4 DEF Stands
  <2> QED
    BY <1>1, <2>1, <2>2, <2>3 DEF Framed
<1> QED
  BY <1>2, <1>3

\* What is left behind the first n cells of the ring.
LEMMA BehindIs ==
  ASSUME Framed, NEW n \in Nat, NEW c, c.got = conn.got, c.buf = Behind(n)
  PROVE  Bounded(c, stream, Cells, lost)
<1>1. /\ conn.got \in Nat /\ conn.got <= Len(Cells) /\ Buffered \in Seq(Nat \X Nat)
      /\ Len(Buffered) <= conn.got /\ Len(Buffered) <= RingCap /\ (lost => RingCap < Len(Cells))
  BY DEF Framed, Bounded, Buffered
<1>2. PICK m \in Nat, r \in Nat : m = Len(Buffered) /\ r = RingCap
  BY <1>1, LenProperties, ConnAssumption
<1>3. Behind(n) \in Seq(Nat \X Nat) /\ Len(Behind(n)) = IF n <= m THEN m - n ELSE 0
  <2>1. PICK s \in Seq(Nat \X Nat) : s = Buffered
    BY <1>1
  <2>2. Behind(n) = SubSeq(s, n + 1, m) /\ m <= Len(s)
    BY <1>2, <2>1 DEF Behind
  <2>3. /\ SubSeq(s, n + 1, m) \in Seq(Nat \X Nat)
        /\ Len(SubSeq(s, n + 1, m)) = IF n <= m THEN m - n ELSE 0
    BY <2>2, PartLen
  <2> QED
    BY <2>2, <2>3
<1>4. Len(Behind(n)) <= m /\ Len(Behind(n)) \in Nat
  BY <1>3
<1>5. ASSUME NEW i \in 1..Len(Behind(n)) PROVE Behind(n)[i][1] \in 1..Len(stream)
  <2>1. i \in 1..(m - (n + 1) + 1) /\ (n + 1) + i - 1 = n + i /\ n + i \in 1..m
    BY <1>2, <1>3
  <2>2. \A j \in (n + 1)..m : Buffered[j] \in Nat \X Nat
    <3>1. \A j \in (n + 1)..m : j \in 1..Len(Buffered)
      BY <1>2
    <3> QED
      BY <1>1, <3>1, ElementOfSeq
  <2>3. \A j \in 1..(m - (n + 1) + 1) : SubSeq(Buffered, n + 1, m)[j] = Buffered[(n + 1) + j - 1]
    BY <1>2, <2>2, SubSeqProperties
  <2>4. Behind(n)[i] = Buffered[n + i]
    BY <1>2, <2>1, <2>3 DEF Behind
  <2>5. n + i \in 1..Len(conn.buf)
    BY <1>2, <2>1 DEF Buffered
  <2> QED
    BY <2>4, <2>5 DEF Framed, Bounded, Buffered
<1> QED
  BY <1>1, <1>2, <1>3, <1>4, <1>5 DEF Bounded

\* The empty line is the end of the piece that opens the stream.
LEMMA EmptyLineIs ==
  ASSUME client \in Clients, NEW off, Laid(stream, Cells, off), Holds(Buffered, conn.got, Cells, 0),
         NEW i \in 1..Len(Buffered), EmptyLineAt(i)
  PROVE  \E x \in 1..Len(stream) : Opens(stream, x) /\ i = off[x + 1]
<1>1. /\ Buffered \in Seq(Nat \X Nat) /\ Len(Buffered) \in Nat /\ Len(Buffered) <= Len(Cells)
      /\ \A j \in 1..Len(Buffered) : Buffered[j] = Cells[j]
  <2>1. Buffered \in Seq(Nat \X Nat) /\ Len(Buffered) \in Nat
    BY LenProperties DEF Holds
  <2>2. 0 + Len(Buffered) = conn.got /\ conn.got <= Len(Cells)
    BY DEF Holds
  <2>3. \A j \in 1..Len(Buffered) : Buffered[j] = Cells[0 + j] /\ 0 + j = j
    BY DEF Holds
  <2> QED
    BY <2>1, <2>2, <2>3
<1>2. i \in 1..Len(Cells) /\ Len(Cells) \in Nat /\ Len(stream) \in Nat
  BY <1>1, CellsFacts, StreamFacts
<1>3. PICK x \in 1..Len(stream) : \E y \in 1..stream[x].len : i = off[x] + y
  BY <1>2 DEF Laid
<1>4. PICK y \in 1..stream[x].len : i = off[x] + y
  BY <1>3
<1>5. Cells[i] = <<x, y>>
  BY <1>4 DEF Laid
<1>6. stream[x].kind = "head" /\ y = stream[x].len
  BY <1>1, <1>5 DEF EmptyLineAt, EndsHead
<1>7. i = off[x + 1]
  BY <1>4, <1>6 DEF Laid
<1>8. ASSUME NEW j \in 1..(x - 1) PROVE stream[j].kind = "text"
  <2>1. j \in 1..Len(stream) /\ j + 1 \in 1..(Len(stream) + 1) /\ x + 1 \in 1..(Len(stream) + 1) /\ j + 1 < x + 1
    BY <1>2
  <2>2. off[j + 1] \in 1..Len(Cells) /\ Cells[off[j + 1]] = <<j, stream[j].len>>
    BY <2>1, LastCellIs
  <2>3. off[j + 1] < i
    BY <1>7, <2>1, LaidFacts
  <2>4. off[j + 1] \in 1..(i - 1) /\ off[j + 1] \in 1..Len(Buffered)
    <3>1. PICK v \in Nat, w \in Nat, y2 \in Nat : v = off[j + 1] /\ w = Len(Buffered) /\ y2 = i
      BY <1>1, <2>2
    <3>2. v >= 1 /\ v < y2 /\ y2 <= w
      BY <2>2, <2>3, <3>1
    <3> QED
      BY <3>1, <3>2
  <2>5. Legible(Buffered[off[j + 1]]) /\ ~EndsHead(Buffered[off[j + 1]])
    BY <2>4 DEF EmptyLineAt
  <2>6. Buffered[off[j + 1]] = <<j, stream[j].len>>
    BY <1>1, <2>2, <2>4
  <2> QED
    BY <2>5, <2>6 DEF Legible, EndsHead
<1>9. Opens(stream, x)
  BY <1>6, <1>8 DEF Opens
<1> QED
  BY <1>7, <1>9

\* ... and is found once that has arrived.
LEMMA EmptyLineFound ==
  ASSUME client \in Clients, NEW off, Laid(stream, Cells, off), Holds(Buffered, conn.got, Cells, 0),
         NEW x \in 1..Len(stream), Opens(stream, x), off[x + 1] <= Len(Buffered)
  PROVE  off[x + 1] \in DOMAIN Buffered /\ EmptyLineAt(off[x + 1])
<1>1. /\ Buffered \in Seq(Nat \X Nat) /\ Len(Buffered) \in Nat /\ DOMAIN Buffered = 1..Len(Buffered)
      /\ \A j \in 1..Len(Buffered) : Buffered[j] = Cells[j]
      /\ Len(Buffered) <= Len(Cells)
  <2>1. Buffered \in Seq(Nat \X Nat) /\ Len(Buffered) \in Nat /\ DOMAIN Buffered = 1..Len(Buffered)
    BY LenProperties DEF Holds
  <2>2. 0 + Len(Buffered) = conn.got /\ conn.got <= Len(Cells)
    BY DEF Holds
  <2>3. \A j \in 1..Len(Buffered) : Buffered[j] = Cells[0 + j] /\ 0 + j = j
    BY DEF Holds
  <2> QED
    BY <2>1, <2>2, <2>3
<1>2. off[x + 1] \in 1..Len(Cells) /\ Cells[off[x + 1]] = <<x, stream[x].len>> /\ Len(Cells) \in Nat
      /\ Len(stream) \in Nat /\ stream[x].kind = "head"
  BY LastCellIs, CellsFacts, StreamFacts DEF Opens
<1>3. off[x + 1] \in 1..Len(Buffered)
  BY <1>1, <1>2
<1>4. EndsHead(Buffered[off[x + 1]])
  BY <1>1, <1>2, <1>3 DEF EndsHead
<1>5. ASSUME NEW j \in 1..(off[x + 1] - 1)
      PROVE  Legible(Buffered[j]) /\ ~EndsHead(Buffered[j])
  <2>1. j \in 1..Len(Cells) /\ j \in 1..Len(Buffered) /\ j < off[x + 1]
    BY <1>2, <1>3
  <2>2. PICK y \in 1..Len(stream) : \E i \in 1..stream[y].len : j = off[y] + i
    BY <2>1 DEF Laid
  <2>3. PICK i \in 1..stream[y].len : j = off[y] + i
    BY <2>2
  <2>4. Buffered[j] = <<y, i>>
    BY <1>1, <2>1, <2>3 DEF Laid
  <2>5. stream[y].len \in Nat /\ y \in 1..(Len(stream) + 1) /\ x + 1 \in 1..(Len(stream) + 1)
    BY <1>2, StreamFacts
  <2>6. off[y] \in Nat /\ off[x + 1] \in Nat /\ (x + 1 < y => off[x + 1] < off[y])
    BY <2>5, LaidFacts
  <2>7. off[y] < j
    BY <2>3, <2>5, <2>6
  <2>8. ~(x + 1 < y) /\ y # x + 1
    BY <2>1, <2>6, <2>7
  <2>9. y = x \/ y \in 1..(x - 1)
    BY <2>8
  <2>10. CASE y = x
    <3>1. off[x + 1] = off[x] + stream[x].len
      BY LaidFacts
    <3>2. i # stream[x].len
      BY <2>1, <2>3, <2>10, <3>1
    <3> QED
      BY <1>2, <2>4, <2>10, <3>2 DEF Legible, EndsHead
  <2>11. CASE y \in 1..(x - 1)
    <3>1. stream[y].kind = "text"
      BY <2>11 DEF Opens
    <3> QED
      BY <2>4, <3>1 DEF Legible, EndsHead
  <2> QED
    BY <2>9, <2>10, <2>11
<1> QED
  BY <1>1, <1>3, <1>4, <1>5 DEF EmptyLineAt

\* The head is kept, or more of it is waited for.
LEMMA FindHeadKeeps ==
  ASSUME Framed, UNCHANGED <<client, pushed, lost>>, conn.state = "open", conn.reading, MorePacks,
         conn.head = <<>>, conn' \in FindHead(Looked)
  PROVE  Framed'
<1>1. client \in Clients /\ Shaped(conn) /\ Bounded(conn, stream, Cells, lost)
  BY DEF Framed
<1>2. stream' = stream /\ Cells' = Cells
  BY StreamStays
<1>3. Buffered \in Seq(Nat \X Nat) /\ Len(Buffered) \in Nat /\ DOMAIN Buffered = 1..Len(Buffered)
  BY <1>1, LenProperties DEF Bounded, Buffered
<1>4. CASE conn' = ClosedConn
  BY <1>4, ClosingKeeps
<1>5. ASSUME NEW i \in DOMAIN Buffered, EmptyLineAt(i),
             conn' = [Looked EXCEPT !.head = SubSeq(Buffered, 1, i), !.buf = Behind(i), !.noti = HeaderLen]
      PROVE  Framed'
  <2>1. /\ Shaped(conn') /\ conn'.state = "open" /\ conn'.got = conn.got
        /\ conn'.buf = Behind(i) /\ conn'.noti = HeaderLen
        /\ conn'.head = SubSeq(Buffered, 1, i) /\ conn'.reading = TRUE
    BY <1>1, <1>5 DEF Looked, NewConn, Shaped, Fields
  <2>2. i \in Nat /\ i \in 1..Len(Buffered) /\ i <= Len(Buffered)
    BY <1>3
  <2>3. PICK c : c = conn'
    OBVIOUS
  <2>4. Bounded(c, stream, Cells, lost)
    BY <2>1, <2>2, <2>3, BehindIs
  <2>5. ASSUME ~lost PROVE Stands(c, pushed, stream, Cells)
    <3>1. PICK off : \E h \in Nat, k \in Nat : Placed(conn, pushed, stream, Cells, off, h, k)
      BY <2>5 DEF Framed, Stands
    <3>2. PICK h \in Nat, k \in Nat : Placed(conn, pushed, stream, Cells, off, h, k)
      BY <3>1
    <3>3. /\ Laid(stream, Cells, off) /\ off[k] \in Nat /\ h = 0
          /\ SentBefore(pushed, stream, Cells, off, h, k) /\ Holds(Buffered, conn.got, Cells, off[k])
      BY <1>1, <3>2, PlaceFacts
    <3>4. k = 1 /\ off[k] = 0 /\ pushed \in Seq(Seq(Nat \X Nat)) /\ Len(pushed) = 0
      BY <1>1, <3>3, LaidFacts DEF SentBefore
    <3>5. Cells \in Seq(Nat \X Nat) /\ Holds(Buffered, conn.got, Cells, 0)
      BY <1>1, <3>3, <3>4, CellsFacts
    <3>6. PICK x \in 1..Len(stream) : Opens(stream, x) /\ i = off[x + 1]
      BY <1>1, <1>5, <2>2, <3>3, <3>5, EmptyLineIs
    <3>7. /\ Holds(Behind(i), conn.got, Cells, 0 + i)
          /\ SubSeq(Buffered, 1, i) \in Seq(Nat \X Nat) /\ Len(SubSeq(Buffered, 1, i)) = i
          /\ \A j \in 1..i : SubSeq(Buffered, 1, i)[j] = Cells[0 + j]
      <4>1. PICK b : b = Buffered
        OBVIOUS
      <4>2. /\ Holds(SubSeq(b, i + 1, Len(b)), conn.got, Cells, 0 + i)
            /\ SubSeq(b, 1, i) \in Seq(Nat \X Nat) /\ Len(SubSeq(b, 1, i)) = i
            /\ \A j \in 1..i : SubSeq(b, 1, i)[j] = Cells[0 + j]
        <5>1. Holds(b, conn.got, Cells, 0) /\ i <= Len(b) /\ 0 \in Nat
          BY <2>2, <3>5, <4>1
        <5>2. PICK g : g = conn.got
          OBVIOUS
        <5>3. PICK cs \in Seq(Nat \X Nat) : cs = Cells
          BY <3>5
        <5>4. Holds(b, g, cs, 0)
          BY <5>1, <5>2, <5>3
        <5>5. CutAt(b, g, cs, 0, i)
          BY <2>2, <5>1, <5>3, <5>4, CutHolds
        <5> QED
          BY <5>2, <5>3, <5>5 DEF CutAt
      <4> QED
        BY <4>1, <4>2 DEF Behind
    <3>8. i <= Len(Cells)
      <4>1. 0 + Len(Buffered) = conn.got /\ conn.got <= Len(Cells) /\ Len(Cells) \in Nat /\ conn.got \in Nat
        BY <1>1, <3>5, LenProperties DEF Holds
      <4> QED
        BY <1>3, <2>2, <4>1
    <3>9. \A j \in 1..i : SubSeq(Buffered, 1, i)[j] = Cells[j]
      BY <3>7
    <3>10. SubSeq(Buffered, 1, i) = UpTo(Cells, i)
      BY <2>2, <3>5, <3>7, <3>8, <3>9, CellsUpTo
    <3>11. x + 1 \in 1..(Len(stream) + 1) /\ x \in Nat /\ x # 0 /\ x + 1 \in Nat
      BY <1>1, StreamFacts
    <3>12. SentBefore(pushed, stream, Cells, off, x, x + 1)
      <4>1. \A j \in (x + 1)..((x + 1) - 1) : stream[j].kind = "req"
        BY <3>11
      <4>2. Len(pushed) = (x + 1) - 1 - x /\ x < x + 1
        BY <3>4, <3>11
      <4>3. \A j \in 1..Len(pushed) : pushed[j] = UpTo(Cells, off[x + 1]) \o PieceCells(stream, x + j)
        BY <3>4
      <4> QED
        BY <3>4, <3>6, <3>11, <4>1, <4>2, <4>3 DEF SentBefore
    <3>13. HeaderLen \in Expected(stream, off, x, x + 1)
      <4>1. \A j \in 1..Len(stream) : stream[j].kind = "req" => HeaderLen <= stream[j].len
        BY <1>1, StreamFacts DEF HeaderLen
      <4> QED
        BY <1>1, <3>11, <4>1, StreamFacts DEF Expected, HeaderLen
    <3>14. Holds(Behind(i), conn.got, Cells, off[x + 1])
      BY <2>2, <3>6, <3>7
    <3>15. StandsAt(c, stream, Cells, off, x, x + 1)
      <4>1. c.buf = Behind(i) /\ c.got = conn.got /\ c.noti = HeaderLen /\ c.reading = TRUE
            /\ c.head = UpTo(Cells, off[x + 1])
        BY <2>1, <2>3, <3>6, <3>10
      <4>2. Holds(c.buf, c.got, Cells, off[x + 1]) /\ HeaderLen \in Nat
        BY <3>14, <4>1 DEF HeaderLen
      <4>3. c.head = IF x = 0 THEN <<>> ELSE UpTo(Cells, off[x + 1])
        BY <3>11, <4>1
      <4> QED
        BY <3>13, <4>1, <4>2, <4>3 DEF StandsAt
    <3>16. Placed(c, pushed, stream, Cells, off, x, x + 1)
      BY <3>3, <3>12, <3>15 DEF Placed
    <3> QED
      BY <3>11, <3>16 DEF Stands
  <2> QED
    BY <1>2, <2>1, <2>3, <2>4, <2>5 DEF Framed
<1>6. CASE /\ conn' = [Looked EXCEPT !.noti = Len(Buffered) + 1]
           /\ ~\E i \in DOMAIN Buffered : EmptyLineAt(i)
  <2>1. /\ Shaped(conn') /\ conn'.state = "open" /\ conn'.got = conn.got /\ conn'.buf = conn.buf
        /\ conn'.noti = Len(Buffered) + 1 /\ conn'.head = conn.head /\ conn'.reading = TRUE
    BY <1>1, <1>6 DEF Looked, NewConn, Shaped, Fields
  <2>2. Bounded(conn', stream, Cells, lost)
    BY <1>1, <2>1 DEF Bounded
  <2>3. ASSUME ~lost PROVE Stands(conn', pushed, stream, Cells)
    <3>1. PICK off : \E h \in Nat, k \in Nat : Placed(conn, pushed, stream, Cells, off, h, k)
      BY <2>3 DEF Framed, Stands
    <3>2. PICK h \in Nat, k \in Nat : Placed(conn, pushed, stream, Cells, off, h, k)
      BY <3>1
    <3>3. /\ Laid(stream, Cells, off) /\ h = 0 /\ off[k] \in Nat
          /\ SentBefore(pushed, stream, Cells, off, h, k) /\ Holds(Buffered, conn.got, Cells, off[k])
      BY <1>1, <3>2, PlaceFacts
    <3>4. k = 1 /\ off[k] = 0
      BY <1>1, <3>3, LaidFacts DEF SentBefore
    <3>5. Holds(Buffered, conn.got, Cells, 0)
      BY <3>3, <3>4
    <3>6. ASSUME NEW x \in 1..Len(stream), Opens(stream, x) PROVE Len(Buffered) + 1 <= off[x + 1]
      <4>1. ~(off[x + 1] <= Len(Buffered))
        BY <1>1, <1>6, <3>3, <3>5, <3>6, EmptyLineFound
      <4>2. off[x + 1] \in Nat
        BY <1>1, <3>3, LastCellIs
      <4> QED
        BY <1>3, <4>1, <4>2
    <3>7. Len(Buffered) + 1 \in Expected(stream, off, 0, k)
      BY <1>3, <3>6 DEF Expected
    <3>8. StandsAt(conn', stream, Cells, off, h, k)
      BY <1>3, <2>1, <3>3, <3>7 DEF StandsAt, Buffered
    <3>9. Placed(conn', pushed, stream, Cells, off, h, k)
      BY <3>3, <3>8 DEF Placed
    <3> QED
      BY <3>9 DEF Stands
  <2> QED
    BY <1>1, <1>2, <2>1, <2>2, <2>3 DEF Framed
<1> QED
  BY <1>4, <1>5, <1>6 DEF FindHead

\* Behind the head the ring begins with the next piece.
LEMMA NextPiece ==
  ASSUME client \in Clients, conn.state = "open", NEW off, NEW h \in Nat, NEW k \in Nat,
         Placed(conn, pushed, stream, Cells, off, h, k), Buffered # <<>>
  PROVE  /\ k \in 1..Len(stream) /\ First = <<k, 1>> /\ Piece = stream[k]
         /\ \A i \in 1..Len(Buffered) : i <= stream[k].len => Buffered[i] = <<k, i>>
<1>1. /\ Laid(stream, Cells, off) /\ k \in 1..(Len(stream) + 1) /\ off[k] \in Nat
      /\ Holds(Buffered, conn.got, Cells, off[k])
      /\ Buffered \in Seq(Nat \X Nat) /\ Len(Buffered) \in Nat
  BY PlaceFacts
<1>2. Len(Buffered) # 0 /\ Len(stream) \in Nat
  BY <1>1, EmptySeq, StreamFacts
<1>3. off[k] + Len(Buffered) <= Len(Cells)
  BY <1>1 DEF Holds
<1>4. k \in 1..Len(stream)
  <2>1. off[Len(stream) + 1] = Len(Cells) /\ Len(Cells) \in Nat
    BY <1>1, LaidFacts
  <2> QED
    BY <1>1, <1>2, <1>3, <2>1
<1>5. stream[k].len \in Nat /\ stream[k].len # 0
  BY <1>4, StreamFacts
<1>6. ASSUME NEW i \in 1..Len(Buffered), i <= stream[k].len PROVE Buffered[i] = <<k, i>>
  <2>1. i \in 1..stream[k].len
    BY <1>5, <1>6
  <2> QED
    BY <1>1, <1>4, <2>1 DEF Laid, Holds
<1>7. 1 \in 1..Len(Buffered) /\ 1 <= stream[k].len
  BY <1>1, <1>2, <1>5
<1>8. First = <<k, 1>>
  BY <1>6, <1>7 DEF First
<1> QED
  BY <1>4, <1>6, <1>8 DEF Piece

\* As long as nothing was lost, a header that is there is whole.
LEMMA HeaderShows ==
  ASSUME client \in Clients, conn.state = "open", NEW off, NEW h \in Nat, NEW k \in Nat,
         Placed(conn, pushed, stream, Cells, off, h, k), Buffered # <<>>, NEW n \in LenShown
  PROVE  \/ HeaderSplit /\ n \in Lens /\ ~(n <= Len(Buffered))
         \/ HeaderWhole /\ stream[k].kind = "req" /\ n = stream[k].len
<1>1. Len(Buffered) \in Nat /\ k \in 1..Len(stream) /\ First = <<k, 1>> /\ Piece = stream[k]
      /\ \A i \in 1..Len(Buffered) : i <= stream[k].len => Buffered[i] = <<k, i>>
  BY PlaceFacts, NextPiece
<1>2. CASE HeaderSplit
  <2>1. n \in Lens
    BY <1>2 DEF LenShown, HeaderWhole
  <2>2. n \in Nat /\ n >= HeaderLen
    BY <2>1 DEF Lens, HeaderLen
  <2> QED
    BY <1>1, <1>2, <2>1, <2>2 DEF HeaderSplit, HeaderLen
<1>3. CASE ~HeaderSplit
  <2>1. Magic
    BY <1>3 DEF LenShown, HeaderWhole, HeaderTorn
  <2>2. stream[k].kind = "req" /\ stream[k].len >= HeaderLen
    BY <1>1, <2>1, StreamFacts DEF Magic
  <2>3. 2 \in 1..Len(Buffered) /\ 2 <= stream[k].len
    BY <1>1, <1>3, <2>2 DEF HeaderSplit, HeaderLen
  <2>4. Buffered[2] = <<First[1], 2>>
    BY <1>1, <2>3
  <2>5. HeaderWhole
    BY <1>3, <2>1, <2>4 DEF HeaderWhole, HeaderTorn
  <2> QED
    BY <1>1, <2>2, <2>5 DEF LenShown
<1> QED
  BY <1>2, <1>3

\* A header that its request does not follow yet.
LEMMA NoRequestKeeps ==
  ASSUME Framed, UNCHANGED <<client, pushed, lost>>, conn.state = "open", conn.reading, MorePacks,
         conn.head # <<>>, conn' \in NoRequest(Looked)
  PROVE  Framed'
<1>1. client \in Clients /\ Shaped(conn) /\ Bounded(conn, stream, Cells, lost) /\ Buffered # <<>>
  BY DEF Framed, MorePacks
<1>2. stream' = stream /\ Cells' = Cells
  BY StreamStays
<1>3. CASE conn' = ClosedConn
  BY <1>3, ClosingKeeps
<1>4. ASSUME NEW n \in LenShown, Len(Buffered) < n,
             conn' = [Looked EXCEPT !.noti = n, !.split = @ \/ HeaderSplit]
      PROVE  Framed'
  <2>1. /\ Shaped(conn') /\ conn'.state = "open" /\ conn'.got = conn.got /\ conn'.buf = conn.buf
        /\ conn'.noti = n /\ conn'.head = conn.head /\ conn'.reading = TRUE
        /\ conn'.split = (conn.split \/ HeaderSplit)
    BY <1>1, <1>4 DEF Looked, NewConn, Shaped, Fields
  <2>2. Bounded(conn', stream, Cells, lost)
    BY <1>1, <2>1 DEF Bounded
  <2>3. ASSUME ~lost PROVE Stands(conn', pushed, stream, Cells)
    <3>1. PICK off : \E h \in Nat, k \in Nat : Placed(conn, pushed, stream, Cells, off, h, k)
      BY <2>3 DEF Framed, Stands
    <3>2. PICK h \in Nat, k \in Nat : Placed(conn, pushed, stream, Cells, off, h, k)
      BY <3>1
    <3>3. /\ Laid(stream, Cells, off) /\ h # 0 /\ StandsAt(conn, stream, Cells, off, h, k)
          /\ SentBefore(pushed, stream, Cells, off, h, k)
      BY <1>1, <3>2, PlaceFacts
    <3>4. \/ HeaderSplit /\ n \in Lens
          \/ stream[k].kind = "req" /\ n = stream[k].len
      BY <1>1, <1>4, <3>2, HeaderShows
    <3>5. k \in 1..Len(stream)
      BY <1>1, <3>2, NextPiece
    <3>6. n \in Nat /\ (~conn'.split => n \in Expected(stream, off, h, k))
      <4>1. CASE HeaderSplit /\ n \in Lens
        <5>1. conn'.split
          BY <2>1, <4>1 DEF Shaped, Fields
        <5>2. n \in Nat
          BY <4>1 DEF Lens, HeaderLen
        <5> QED
          BY <5>1, <5>2
      <4>2. CASE stream[k].kind = "req" /\ n = stream[k].len
        <5>1. n \in Nat /\ k \in DOMAIN stream
          BY <1>1, <3>5, <4>2, StreamFacts
        <5>2. n <= stream[k].len
          BY <4>2, <5>1
        <5>3. Expected(stream, off, h, k) = {m \in Nat : m <= stream[k].len}
          BY <3>3, <4>2, <5>1 DEF Expected
        <5> QED
          BY <5>1, <5>2, <5>3
      <4> QED
        BY <3>4, <4>1, <4>2
    <3>7. StandsAt(conn', stream, Cells, off, h, k)
      BY <2>1, <3>3, <3>6 DEF StandsAt
    <3>8. Placed(conn', pushed, stream, Cells, off, h, k)
      BY <3>3, <3>7 DEF Placed
    <3> QED
      BY <3>8 DEF Stands
  <2> QED
    BY <1>1, <1>2, <2>1, <2>2, <2>3 DEF Framed
<1> QED
  BY <1>3, <1>4 DEF NoRequest

\* The messages with one more, the k-th piece.
LEMMA OneMoreSent ==
  ASSUME client \in Clients, NEW off, Laid(stream, Cells, off), NEW h \in Nat, NEW k \in Nat, h # 0,
         NEW p, NEW q, NEW m \in Seq(Nat \X Nat), q = Append(p, m),
         SentBefore(p, stream, Cells, off, h, k), k \in 1..Len(stream), stream[k].kind = "req",
         m = UpTo(Cells, off[h + 1]) \o PieceCells(stream, k)
  PROVE  SentBefore(q, stream, Cells, off, h, k + 1)
<1>1. /\ p \in Seq(Seq(Nat \X Nat)) /\ Opens(stream, h) /\ h < k /\ Len(p) = k - 1 - h
      /\ \A j \in (h + 1)..(k - 1) : stream[j].kind = "req"
      /\ \A i \in 1..Len(p) : p[i] = UpTo(Cells, off[h + 1]) \o PieceCells(stream, h + i)
  BY DEF SentBefore
<1>2. /\ q \in Seq(Seq(Nat \X Nat)) /\ Len(q) = Len(p) + 1
      /\ \A i \in 1..Len(p) : q[i] = p[i]
      /\ q[Len(p) + 1] = m
  BY <1>1, AppendProperties
<1>3. k + 1 \in 1..(Len(stream) + 1) /\ h < k + 1 /\ Len(q) = (k + 1) - 1 - h
  BY <1>1, <1>2, StreamFacts
<1>4. \A j \in (h + 1)..((k + 1) - 1) : stream[j].kind = "req"
  <2>1. \A j \in (h + 1)..((k + 1) - 1) : j = k \/ j \in (h + 1)..(k - 1)
    OBVIOUS
  <2> QED
    BY <1>1, <2>1
<1>5. ASSUME NEW i \in 1..Len(q)
      PROVE  q[i] = UpTo(Cells, off[h + 1]) \o PieceCells(stream, h + i)
  <2>1. CASE i \in 1..Len(p)
    BY <1>1, <1>2, <2>1
  <2>2. CASE i \notin 1..Len(p)
    <3>1. Len(p) \in Nat
      BY <1>1, LenProperties
    <3>2. i = Len(p) + 1 /\ h + i = k
      BY <1>1, <1>2, <2>2, <3>1
    <3> QED
      BY <1>2, <3>2
  <2> QED
    BY <2>1, <2>2
<1> QED
  BY <1>1, <1>2, <1>3, <1>4, <1>5 DEF SentBefore

\* A request is pushed whole, or the connection is closed.
LEMMA PushKeepsFrames == ASSUME Framed, PushRequest PROVE Framed'
<1>1. client \in Clients /\ Shaped(conn) /\ Bounded(conn, stream, Cells, lost) /\ lost \in BOOLEAN
  BY DEF Framed
<1>2. stream' = stream /\ Cells' = Cells /\ client' = client /\ lost' = lost
  BY StreamStays DEF PushRequest
<1>3. PICK n \in LenShown :
        /\ n <= Len(Buffered)
        /\ \/ conn' = Taken(Looked, n) /\ pushed' = Append(pushed, conn.head \o SubSeq(Buffered, 1, n))
           \/ conn' = ClosedConn /\ UNCHANGED pushed
  BY DEF PushRequest
<1>4. conn.head # <<>> /\ Buffered # <<>> /\ conn.reading
  BY DEF PushRequest, MorePacks
<1>5. conn.state = "open"
  BY <1>1, <1>4 DEF Shaped, NewConn, ClosedConn
<1>8. conn.reading = TRUE
  BY <1>1, <1>4, <1>5
<1>6. CASE conn' = ClosedConn /\ UNCHANGED pushed
  BY <1>2, <1>6, ClosingKeeps
<1>7. CASE /\ conn' = Taken(Looked, n)
           /\ pushed' = Append(pushed, conn.head \o SubSeq(Buffered, 1, n))
  <2>1. /\ Shaped(conn') /\ conn'.state = "open" /\ conn'.got = conn.got
        /\ conn'.buf = Behind(n) /\ conn'.noti = 0 /\ conn'.head = conn.head
        /\ conn'.reading = conn.reading
    BY <1>1, <1>5, <1>7 DEF Taken, Looked, NewConn, Shaped, Fields
  <2>2. PICK c : c = conn'
    OBVIOUS
  <2>3. PICK q : q = pushed'
    OBVIOUS
  <2>4. n \in Nat
    <3>1. CASE HeaderWhole
      <4>1. Piece.kind = "req" /\ n = Piece.len
        BY <3>1 DEF LenShown, HeaderWhole, Magic
      <4>2. First \in Nat \X Nat /\ First[1] \in DOMAIN stream
        <5>1. Len(Buffered) \in Nat /\ Buffered \in Seq(Nat \X Nat)
          BY <1>1, LenProperties DEF Bounded, Buffered
        <5>2. 1 \in 1..Len(Buffered)
          BY <3>1, <5>1 DEF HeaderWhole, HeaderSplit, HeaderLen
        <5>3. First \in Nat \X Nat
          BY <5>1, <5>2, ElementOfSeq DEF First
        <5>4. First[1] \in DOMAIN stream
          BY <1>1, <5>2, StreamFacts DEF Bounded, Buffered, First
        <5> QED
          BY <5>3, <5>4
      <4> QED
        BY <1>1, <4>1, <4>2, StreamFacts DEF Piece
    <3>2. CASE ~HeaderWhole
      BY <3>2 DEF LenShown, Lens, HeaderLen
    <3> QED
      BY <3>1, <3>2
  <2>5. Bounded(c, stream, Cells, lost)
    BY <2>1, <2>2, <2>4, BehindIs
  <2>6. ASSUME ~lost PROVE Stands(c, q, stream, Cells)
    <3>1. PICK off : \E h \in Nat, k \in Nat : Placed(conn, pushed, stream, Cells, off, h, k)
      BY <2>6 DEF Framed, Stands
    <3>2. PICK h \in Nat, k \in Nat : Placed(conn, pushed, stream, Cells, off, h, k)
      BY <3>1
    <3>3. /\ Laid(stream, Cells, off) /\ h # 0 /\ StandsAt(conn, stream, Cells, off, h, k)
          /\ SentBefore(pushed, stream, Cells, off, h, k)
          /\ off[k] \in Nat /\ Holds(Buffered, conn.got, Cells, off[k])
      BY <1>1, <1>4, <1>5, <3>2, PlaceFacts
    <3>4. stream[k].kind = "req" /\ n = stream[k].len
      BY <1>1, <1>3, <1>4, <1>5, <3>2, HeaderShows
    <3>5. /\ k \in 1..Len(stream)
          /\ \A i \in 1..Len(Buffered) : i <= stream[k].len => Buffered[i] = <<k, i>>
      BY <1>1, <1>4, <1>5, <3>2, NextPiece
    <3>6. Cells \in Seq(Nat \X Nat) /\ Len(Buffered) \in Nat
      BY <1>1, <3>3, CellsFacts, LenProperties DEF Holds
    <3>7. /\ Holds(Behind(n), conn.got, Cells, off[k] + n)
          /\ SubSeq(Buffered, 1, n) \in Seq(Nat \X Nat) /\ Len(SubSeq(Buffered, 1, n)) = n
          /\ \A i \in 1..n : SubSeq(Buffered, 1, n)[i] = Cells[off[k] + i]
      <4>0. PICK b : b = Buffered
        OBVIOUS
      <4>1. PICK o \in Nat : b = Buffered /\ o = off[k]
        BY <3>3, <4>0
      <4>2. /\ Holds(SubSeq(b, n + 1, Len(b)), conn.got, Cells, o + n)
            /\ SubSeq(b, 1, n) \in Seq(Nat \X Nat) /\ Len(SubSeq(b, 1, n)) = n
            /\ \A i \in 1..n : SubSeq(b, 1, n)[i] = Cells[o + i]
        <5>1. Holds(b, conn.got, Cells, o) /\ n <= Len(b)
          BY <1>3, <3>3, <4>1
        <5>2. PICK g : g = conn.got
          OBVIOUS
        <5>3. PICK cs \in Seq(Nat \X Nat) : cs = Cells
          BY <3>6
        <5>4. Holds(b, g, cs, o)
          BY <5>1, <5>2, <5>3
        <5>5. CutAt(b, g, cs, o, n)
          BY <2>4, <4>1, <5>1, <5>3, <5>4, CutHolds
        <5> QED
          BY <5>2, <5>3, <5>5 DEF CutAt
      <4> QED
        BY <4>1, <4>2 DEF Behind
    <3>8. off[k] + n = off[k + 1]
      BY <1>1, <3>3, <3>4, <3>5, LaidFacts
    <3>9. SubSeq(Buffered, 1, n) = PieceCells(stream, k)
      <4>1. \A i \in 1..n : Cells[off[k] + i] = <<k, i>>
        BY <3>3, <3>4, <3>5 DEF Laid
      <4>2. PICK s : s = SubSeq(Buffered, 1, n)
        OBVIOUS
      <4>3. /\ s \in Seq(Nat \X Nat) /\ Len(s) = stream[k].len /\ stream[k].len \in Nat
            /\ \A i \in 1..Len(s) : s[i] = <<k, i>>
        BY <2>4, <3>4, <3>7, <4>1, <4>2
      <4> QED
        BY <4>2, <4>3, CellsOfPiece
    <3>10. h \in 1..Len(stream) /\ conn.head = UpTo(Cells, off[h + 1])
      BY <3>3 DEF StandsAt, SentBefore, Opens
    <3>11. UpTo(Cells, off[h + 1]) \in Seq(Nat \X Nat)
      <4>1. off[h + 1] \in Nat /\ off[h + 1] <= Len(Cells)
        BY <1>1, <3>3, <3>6, <3>10, LastCellIs, CellsFacts
      <4>2. SubSeq(Cells, 0 + 1, off[h + 1]) \in Seq(Nat \X Nat)
        BY <3>6, <4>1, PartLen
      <4> QED
        BY <4>2 DEF UpTo
    <3>12. PICK m : m = UpTo(Cells, off[h + 1]) \o PieceCells(stream, k)
      OBVIOUS
    <3>13. m \in Seq(Nat \X Nat)
      BY <3>7, <3>9, <3>11, <3>12, ConcatProperties
    <3>14. q = Append(pushed, m)
      BY <1>7, <2>3, <3>9, <3>10, <3>12
    <3>15. SentBefore(q, stream, Cells, off, h, k + 1)
      BY <1>1, <3>3, <3>4, <3>5, <3>12, <3>13, <3>14, OneMoreSent
    <3>16. 0 \in Expected(stream, off, h, k + 1)
      BY <1>1, <3>3, <3>5, StreamFacts DEF Expected, HeaderLen
    <3>17. Holds(Behind(n), conn.got, Cells, off[k + 1])
      BY <3>7, <3>8
    <3>18. StandsAt(c, stream, Cells, off, h, k + 1)
      <4>1. /\ c.buf = Behind(n) /\ c.got = conn.got /\ c.noti = 0 /\ c.reading = TRUE
            /\ c.head = UpTo(Cells, off[h + 1])
        BY <1>8, <2>1, <2>2, <3>10
      <4>2. Holds(c.buf, c.got, Cells, off[k + 1])
        BY <3>17, <4>1
      <4>3. c.head = IF h = 0 THEN <<>> ELSE UpTo(Cells, off[h + 1])
        BY <3>3, <4>1
      <4> QED
        BY <3>16, <4>1, <4>2, <4>3 DEF StandsAt
    <3>19. Placed(c, q, stream, Cells, off, h, k + 1)
      BY <3>3, <3>15, <3>18 DEF Placed
    <3> QED
      BY <3>19 DEF Stands
  <2> QED
    BY <1>1, <1>2, <2>1, <2>2, <2>3, <2>5, <2>6 DEF Framed
<1> QED
  BY <1>3, <1>6, <1>7

LEMMA FramesKeep == Framed /\ [MainNext]_allVars => Framed'
<1> SUFFICES ASSUME Framed, [MainNext]_allVars PROVE Framed'
  OBVIOUS
<1>1. CASE UNCHANGED <<client, conn, pushed, lost>>
  BY <1>1, StreamStays DEF Framed
<1>2. CASE LookAgain
  BY <1>2, FindHeadKeeps, NoRequestKeeps DEF LookAgain, InEvents
<1>3. CASE ReceiveEnd
  BY <1>3, ClosingKeeps DEF ReceiveEnd
<1>4. CASE Tick
  BY <1>4, <1>1 DEF Tick
<1> QED
  BY <1>1, <1>2, <1>3, <1>4, CreateKeeps, ReceiveKeeps, ReadDoneKeeps, PushKeepsFrames, TimerKeeps
     DEF MainNext, NetThread, Worker, Main, World, Stop, allVars, mainVars, connVars,
         ConnStep, ClientStep, InitDb, Fork, StartThread, RunDb, Signal, Uninit, SameGroup

\* The requests between the h-th piece and another.
LEMMA RequestsAre ==
  ASSUME client \in Clients, NEW h, Opens(stream, h)
  PROVE  /\ \A r : r \in Requests <=> r \in 1..Len(stream) /\ h < r /\ stream[r].kind = "req"
         /\ h \in Opening /\ h \in Nat
<1>1. Len(stream) \in Nat /\ DOMAIN stream = 1..Len(stream) /\ h \in 1..Len(stream) /\ h \in Opening
  BY StreamFacts, OpeningOpens DEF Opens
<1>2. \A x \in Opening : x = h
  BY OpeningOpens, OneOpens
<1> QED
  BY <1>1, <1>2 DEF Requests

LEMMA FramesAreWhole == Framed => RequestsWhole
<1> SUFFICES ASSUME Framed PROVE RequestsWhole
  OBVIOUS
<1>1. client \in Clients /\ Shaped(conn) /\ (lost => RingCap < Len(Cells))
  BY DEF Framed, Bounded
<1>2. CASE lost
  BY <1>1, <1>2 DEF RequestsWhole
<1>3. CASE ~lost
  <2>1. PICK off : \E h \in Nat, k \in Nat : Placed(conn, pushed, stream, Cells, off, h, k)
    BY <1>3 DEF Framed, Stands
  <2>2. PICK h \in Nat, k \in Nat : Placed(conn, pushed, stream, Cells, off, h, k)
    BY <2>1
  <2>3. Laid(stream, Cells, off) /\ SentBefore(pushed, stream, Cells, off, h, k)
    BY <2>2 DEF Placed
  <2>4. /\ Len(stream) \in Nat /\ DOMAIN stream = 1..Len(stream)
        /\ \A r \in 1..Len(stream) : /\ stream[r].len \in Nat /\ stream[r].len # 0
                                     /\ stream[r].kind = "req" => stream[r].len >= HeaderLen
    BY <1>1, StreamFacts
  <2>5. k \in 1..(Len(stream) + 1) /\ DOMAIN pushed = 1..Len(pushed) /\ Len(pushed) \in Nat
    BY <2>3, LenProperties DEF SentBefore
  <2>6. ASSUME NEW i \in DOMAIN pushed
        PROVE  \E r \in Requests :
                 /\ Cardinality(Earlier(r)) = i - 1
                 /\ \E x \in Opening, n \in 1..Len(Cells) :
                      EndsAt(n, x) /\ pushed[i] = SubSeq(Cells, 1, n) \o CellsOf(r)
    <3>1. /\ h # 0 /\ Opens(stream, h) /\ h < k /\ Len(pushed) = k - 1 - h
          /\ \A j \in (h + 1)..(k - 1) : stream[j].kind = "req"
          /\ pushed[i] = UpTo(Cells, off[h + 1]) \o PieceCells(stream, h + i)
      <4>1. i \in 1..Len(pushed) /\ Len(pushed) # 0 /\ h \in Nat
        BY <2>5
      <4>2. h # 0
        BY <2>3, <4>1 DEF SentBefore
      <4>3. /\ Opens(stream, h) /\ h < k /\ Len(pushed) = k - 1 - h
            /\ \A j \in (h + 1)..(k - 1) : stream[j].kind = "req"
        BY <2>3, <4>2 DEF SentBefore
      <4>4. pushed[i] = UpTo(Cells, off[h + 1]) \o PieceCells(stream, h + i)
        BY <2>3, <4>1, <4>2 DEF SentBefore
      <4> QED
        BY <4>2, <4>3, <4>4
    <3>2. /\ \A r : r \in Requests <=> r \in 1..Len(stream) /\ h < r /\ stream[r].kind = "req"
          /\ h \in Opening
      BY <1>1, <3>1, RequestsAre
    <3>3. i \in Nat /\ i >= 1 /\ h + i \in (h + 1)..(k - 1) /\ h + i \in 1..Len(stream)
      BY <2>4, <2>5, <3>1
    <3>4. h + i \in Requests
      BY <3>1, <3>2, <3>3
    <3>5. Earlier(h + i) = (h + 1)..(h + i - 1)
      <4>1. ASSUME NEW r \in (h + 1)..(h + i - 1) PROVE r \in Earlier(h + i)
        <5>1. r \in (h + 1)..(k - 1) /\ r \in 1..Len(stream) /\ r < h + i /\ h < r
          BY <2>4, <2>5, <3>1, <3>3
        <5> QED
          BY <3>1, <3>2, <5>1 DEF Earlier
      <4>2. ASSUME NEW r \in Earlier(h + i) PROVE r \in (h + 1)..(h + i - 1)
        <5>1. r \in Requests /\ r < h + i
          BY DEF Earlier
        <5> QED
          BY <3>2, <3>3, <5>1
      <4> QED
        BY <4>1, <4>2
    <3>6. Cardinality((h + 1)..(h + i - 1)) = i - 1
      <4>1. h + 1 \in Int /\ h + i - 1 \in Int
        BY <3>3
      <4>2. Cardinality((h + 1)..(h + i - 1)) = IF h + 1 > h + i - 1 THEN 0 ELSE (h + i - 1) - (h + 1) + 1
        BY <4>1, FS_Interval
      <4> QED
        BY <3>3, <4>2
    <3>7. h \in 1..Len(stream)
      BY <3>1 DEF Opens
    <3>8. off[h + 1] \in 1..Len(Cells) /\ EndsAt(off[h + 1], h)
      BY <1>1, <2>3, <3>7, LastCellIs DEF EndsAt
    <3>9. pushed[i] = SubSeq(Cells, 1, off[h + 1]) \o CellsOf(h + i)
      BY <3>1 DEF UpTo, PieceCells, CellsOf
    <3> QED
      BY <3>2, <3>4, <3>5, <3>6, <3>8, <3>9
  <2>7. ASSUME conn.state = "open", Idle, ~conn.split, NEW r \in Requests,
               NEW n \in 1..conn.got, EndsAt(n, r)
        PROVE  Cardinality(Earlier(r)) < Len(pushed)
    <3>1. /\ StandsAt(conn, stream, Cells, off, h, k)
          /\ Holds(Buffered, conn.got, Cells, off[k]) /\ Len(Buffered) \in Nat /\ conn.noti \in Nat
          /\ off[k] \in Nat
      BY <1>1, <2>2, <2>7, PlaceFacts
    <3>2. PICK x \in Opening : r \in DOMAIN stream /\ stream[r].kind = "req" /\ x < r
      BY <2>7 DEF Requests
    <3>3. Opens(stream, x) /\ x \in 1..Len(stream) /\ r \in 1..Len(stream)
      BY <1>1, <2>4, <3>2, OpeningOpens DEF Opens
    <3>4. /\ \A a \in 1..(Len(stream) + 1) : off[a] \in Nat
          /\ \A a, b \in 1..(Len(stream) + 1) : a < b => off[a] < off[b]
          /\ \A a \in 1..Len(stream) : off[a + 1] = off[a] + stream[a].len
          /\ Len(Cells) \in Nat /\ off[1] = 0
      BY <1>1, <2>3, LaidFacts
    <3>5. /\ conn.got \in Nat /\ off[k] + Len(Buffered) = conn.got
          /\ Len(Buffered) = 0 \/ Len(Buffered) < conn.noti
          /\ conn.noti \in Expected(stream, off, h, k)
      BY <2>7, <3>1 DEF StandsAt, Holds, Idle, Buffered
    <3>6. off[r + 1] <= conn.got
      BY <1>1, <2>3, <2>7, <3>3, LastCellAt DEF EndsAt
    <3>7. h # 0
      <4> SUFFICES ASSUME h = 0 PROVE FALSE
        OBVIOUS
      <4>1. k = 1 /\ off[k] = 0
        BY <2>3, <3>4 DEF SentBefore
      <4>2. conn.noti <= off[x + 1]
        BY <3>3, <3>5 DEF Expected
      <4>3. x + 1 \in 1..(Len(stream) + 1) /\ r + 1 \in 1..(Len(stream) + 1) /\ x + 1 < r + 1
        BY <2>4, <3>2, <3>3
      <4>4. off[x + 1] < off[r + 1] /\ off[x + 1] \in Nat /\ off[r + 1] \in Nat
        BY <3>4, <4>3
      <4> QED
        BY <3>1, <3>5, <3>6, <4>1, <4>2, <4>4
    <3>8. Opens(stream, h) /\ h < k /\ Len(pushed) = k - 1 - h /\ x = h
      BY <1>1, <2>3, <3>3, <3>7, OneOpens DEF SentBefore
    <3>9. r < k
      <4> SUFFICES ASSUME k <= r PROVE FALSE
        BY <2>5, <3>3
      <4>1. /\ k \in 1..Len(stream) /\ k \in 1..(Len(stream) + 1) /\ r \in 1..(Len(stream) + 1)
            /\ k + 1 \in 1..(Len(stream) + 1) /\ r + 1 \in 1..(Len(stream) + 1)
        BY <2>4, <2>5, <3>3
      <4>2. PICK u \in Nat, y \in Nat, v \in Nat, w \in Nat, g \in Nat, m \in Nat, a \in Nat, b \in Nat, l \in Nat :
              /\ u = off[k] /\ y = off[k + 1] /\ v = off[r] /\ w = off[r + 1]
              /\ g = conn.got /\ m = conn.noti /\ a = stream[k].len /\ b = stream[r].len
              /\ l = Len(Buffered)
        BY <2>4, <3>1, <3>3, <3>4, <3>5, <4>1
      <4>3. y = u + a /\ w = v + b /\ a # 0 /\ b >= HeaderLen
        BY <2>4, <3>2, <3>3, <3>4, <4>1, <4>2
      <4>4. w <= g /\ u + l = g /\ (l = 0 \/ l < m)
        BY <3>5, <3>6, <4>2
      <4>5. k = r \/ (k < r /\ k + 1 < r + 1)
        BY <4>1
      <4>6. k = r => u = v /\ y = w
        BY <4>2
      <4>7. k < r => u < v /\ y < w /\ y <= v
        <5>1. k < r => off[k] < off[r] /\ off[k + 1] < off[r + 1]
          BY <3>4, <4>1, <4>5
        <5>2. k < r => k + 1 = r \/ k + 1 < r
          BY <4>1
        <5>3. k < r => off[k + 1] = off[r] \/ off[k + 1] < off[r]
          BY <3>4, <4>1, <5>2
        <5> QED
          BY <4>2, <5>1, <5>3
      <4>8. y <= w
        BY <4>5, <4>6, <4>7
      <4>9. a < m
        BY <4>3, <4>4, <4>8
      <4>10. stream[k].kind # "req" /\ m <= HeaderLen
        <5>0. ~(m <= a)
          BY <4>2, <4>9
        <5>1. k \in DOMAIN stream /\ m \in Expected(stream, off, h, k) /\ ~(m <= stream[k].len)
          BY <2>4, <3>5, <4>1, <4>2, <5>0
        <5>2. stream[k].kind # "req"
          BY <3>7, <5>1 DEF Expected
        <5> QED
          BY <3>7, <5>1, <5>2 DEF Expected
      <4>11. k < r
        BY <3>2, <4>5, <4>10
      <4> QED
        BY <4>3, <4>4, <4>7, <4>10, <4>11 DEF HeaderLen
    <3>10. /\ \A s : s \in Requests <=> s \in 1..Len(stream) /\ h < s /\ stream[s].kind = "req"
           /\ h \in Nat
      BY <1>1, <3>8, RequestsAre
    <3>11. Earlier(r) \subseteq (h + 1)..(r - 1)
      <4>1. ASSUME NEW q \in Earlier(r) PROVE q \in (h + 1)..(r - 1)
        <5>1. q \in Requests /\ q < r
          BY DEF Earlier
        <5> QED
          BY <3>3, <3>10, <5>1
      <4> QED
        BY <4>1
    <3>12. IsFiniteSet((h + 1)..(r - 1)) /\ Cardinality((h + 1)..(r - 1)) = r - 1 - h
      <4>1. h + 1 \in Int /\ r - 1 \in Int /\ h < r
        BY <3>2, <3>3, <3>8, <3>10
      <4>2. IsFiniteSet((h + 1)..(r - 1))
        BY <4>1, FS_Interval
      <4>3. Cardinality((h + 1)..(r - 1)) = IF h + 1 > r - 1 THEN 0 ELSE (r - 1) - (h + 1) + 1
        BY <4>1, FS_Interval
      <4> QED
        BY <3>3, <3>10, <4>1, <4>2, <4>3
    <3>13. Cardinality(Earlier(r)) \in Nat /\ Cardinality(Earlier(r)) <= r - 1 - h
      BY <3>11, <3>12, FS_Subset, FS_CardinalityType
    <3> QED
      BY <2>5, <3>3, <3>8, <3>9, <3>10, <3>13
  <2> QED
    BY <1>3, <2>6, <2>7 DEF RequestsWhole
<1> QED
  BY <1>2, <1>3

\* In whatever pieces the bytes arrive, what group_db hands its workers are the
\* client's requests, in their order, each whole behind the head
\* (g_connection::handle_pack), and none that has arrived is left in the ring,
\* until bytes are lost in it, which a client that sends no more than the ring
\* holds never sees.
THEOREM RequestsArriveWhole == MainSpec => []RequestsWhole
<1>1. MainInit => Framed
  BY FramedStart DEF MainInit
<1> QED
  BY <1>1, FramesAreWhole, FramesKeep, PTL DEF MainSpec
=============================================================================
