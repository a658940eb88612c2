------------------------------- MODULE MCData -------------------------------
(***************************************************************************)
(* One TLC instance for the data structures, the codecs and the registry   *)
(* of jobs, which share no state: the initial state chooses the one that   *)
(* runs, the others stay as they are.                                      *)
(***************************************************************************)
EXTENDS HashList, BeVector, MemPool, SwapPool, LoopBuf, Base64, Des, Md5, Parallel, OpRecord

VARIABLE which

MCHash == <<0, 1, 2, 2, 4, 5>>
MCPrimes == <<3, 5, 7>>
MCNodes == 1..4
MCOps == {[m_cmd |-> 1, m_op_id |-> 3, m_log_file_id |-> 0, m_id |-> 5, m_cont |-> c] : c \in {<<>>, <<28, 0>>}}
         \cup {[m_cmd |-> 2, m_op_id |-> 4, m_log_file_id |-> 0, m_id |-> 5, m_cont |-> <<>>]}
MCWeakKeys == <<2, 4, 8, 14, 20>>

Init == /\ which \in {"map", "list", "vector", "pool", "swap", "ring", "base64", "des", "md5", "records", "jobs"}
        /\ MapInit
        /\ ListInit
        /\ VecInit
        /\ PoolInit
        /\ SwapInit
        /\ RingInit
        /\ B64Init
        /\ DesInit
        /\ MD5Init
        /\ ParInit
        /\ RecInit

Next == \/ which = "map" /\ MapNext /\ UNCHANGED <<which, listVars, vecVars, poolVars, swapVars, ringVars, b64Vars, desVars, md5Vars, parVars, recVars>>
        \/ which = "list" /\ ListNext /\ UNCHANGED <<which, hmapVars, vecVars, poolVars, swapVars, ringVars, b64Vars, desVars, md5Vars, parVars, recVars>>
        \/ which = "vector" /\ VecNext /\ UNCHANGED <<which, hmapVars, listVars, poolVars, swapVars, ringVars, b64Vars, desVars, md5Vars, parVars, recVars>>
        \/ which = "pool" /\ PoolNext /\ UNCHANGED <<which, hmapVars, listVars, vecVars, swapVars, ringVars, b64Vars, desVars, md5Vars, parVars, recVars>>
        \/ which = "swap" /\ SwapNext /\ UNCHANGED <<which, hmapVars, listVars, vecVars, poolVars, ringVars, b64Vars, desVars, md5Vars, parVars, recVars>>
        \/ which = "ring" /\ RingNext /\ UNCHANGED <<which, hmapVars, listVars, vecVars, poolVars, swapVars, b64Vars, desVars, md5Vars, parVars, recVars>>
        \/ which = "base64" /\ B64Next /\ UNCHANGED <<which, hmapVars, listVars, vecVars, poolVars, swapVars, ringVars, desVars, md5Vars, parVars, recVars>>
        \/ which = "des" /\ DesNext /\ UNCHANGED <<which, hmapVars, listVars, vecVars, poolVars, swapVars, ringVars, b64Vars, md5Vars, parVars, recVars>>
        \/ which = "md5" /\ Md5Next /\ UNCHANGED <<which, hmapVars, listVars, vecVars, poolVars, swapVars, ringVars, b64Vars, desVars, parVars, recVars>>
        \/ which = "jobs" /\ ParNext /\ UNCHANGED <<which, hmapVars, listVars, vecVars, poolVars, swapVars, ringVars, b64Vars, desVars, md5Vars, recVars>>
        \/ which = "records" /\ RecNext /\ UNCHANGED <<which, hmapVars, listVars, vecVars, poolVars, swapVars, ringVars, b64Vars, desVars, md5Vars, parVars>>

vars == <<which, hmapVars, listVars, vecVars, poolVars, swapVars, ringVars, b64Vars, desVars, md5Vars, parVars, recVars>>

Spec == Init /\ [][Next]_vars

\* What was put into a map, a list or a vector is what it holds, in its order,
\* and what iterating over the map sees; what two threads gave back to the pool
\* without locks is what its buckets hold.  But for what its parts except: growth
\* with a hash beyond the new table, insertions that lose elements, more threads.
ContainersAgree == FindsWhatWasPut /\ IteratesOnce /\ ListAgrees /\ KeepsSequence /\ SwapBlockOnce

\* What is encoded comes back: base64, DES and triple DES undo themselves for
\* every length, triple DES with its subkeys filled crosswise is encryption,
\* decryption and encryption with the keys in their turn, a digest does not
\* depend on the pieces of its message, and a log gives its records back.
CodersAgree == Base64Inverts /\ DesInverts /\ TripleIsEDE /\ DigestOfWhole /\ RecordsWhole
=============================================================================
