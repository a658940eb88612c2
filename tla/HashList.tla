------------------------------ MODULE HashList ------------------------------
(***************************************************************************)
(* be::hash_list (be/be_hash_list.h): a list of keys without duplicates,   *)
(* and the be::list (be/be_list.h) and be::hash_map it is made of.  The    *)
(* list is a ring of nodes around the head node 0, next and prev being its *)
(* pointers; the map holds, for each key, the node of the key.  An erased  *)
(* node waits in the cache of the list and is handed out again.            *)
(***************************************************************************)
EXTENDS HashMap, FiniteSets

CONSTANT Nodes        \* the blocks the allocator has for list nodes

m_head == 0

VARIABLES next, prev, \* of every node in use
          val,        \* its key
          lcache,     \* m_cache: the freed nodes the list keeps, last first
          lmap        \* m_map: key -> node

listVars == <<next, prev, val, lcache, lmap>>

\* front to back, and back to front
Walk(link) ==
  LET at[n \in 0..lmap.size] == IF n = 0 THEN link[m_head] ELSE link[at[n - 1]]
  IN  [n \in 1..lmap.size |-> at[n - 1]]

Linked == DOMAIN next \ {m_head}
Size == Cardinality(Linked)

\* The node an insertion gets: the last one put into the cache, or a new block
NewNode == IF lcache # <<>> THEN lcache[1]
           ELSE CHOOSE n \in Nodes : n \notin Linked

Restricted(f, S) == [x \in S |-> f[x]]

ListInit == /\ next = [n \in {m_head} |-> m_head] /\ prev = next
            /\ val = <<>> /\ lcache = <<>> /\ lmap = EmptyMap

\* list::insert(pos, x): before the node pos
link(pos, k) ==
  LET n == NewNode
      D == DOMAIN next \cup {n}
  IN  /\ next' = [d \in D |-> IF d = n THEN pos ELSE IF d = prev[pos] THEN n ELSE next[d]]
      /\ prev' = [d \in D |-> IF d = n THEN prev[pos] ELSE IF d = pos THEN n ELSE prev[d]]
      /\ val' = [d \in D \ {m_head} |-> IF d = n THEN k ELSE val[d]]
      /\ lcache' = IF lcache = <<>> THEN <<>> ELSE Tail(lcache)

\* list::erase(position): kept while the cache is smaller than the list
\* Mutant: the node behind keeps its pointer to the erased node.
unlinkNextOnly(n) ==
  LET D == DOMAIN next \ {n}
  IN  /\ next' = [d \in D |-> IF d = prev[n] THEN next[n] ELSE next[d]]
      /\ prev' = Restricted(prev, D)
      /\ val' = Restricted(val, D \ {m_head})
      /\ lcache' = IF Len(lcache) < Size THEN <<n>> \o lcache ELSE lcache
unlink(n) ==
  LET D == DOMAIN next \ {n}
  IN  /\ next' = [d \in D |-> IF d = prev[n] THEN next[n] ELSE next[d]]
      /\ prev' = [d \in D |-> IF d = next[n] THEN prev[n] ELSE prev[d]]
      /\ val' = Restricted(val, D \ {m_head})
      /\ lcache' = IF Len(lcache) < Size THEN <<n>> \o lcache ELSE lcache

\* push_back and push_front: nothing when the map finds the key
ListPush(k, pos) ==
  /\ find(lmap, k) = Absent
  /\ Size < Cardinality(Nodes)
  /\ link(pos, k)
  /\ lmap' = Index(lmap, k, NewNode)

\* pop_back and pop_front: the key leaves the map before its node is freed
ListPop(n) ==
  /\ Size > 0
  /\ lmap' = eraseKey(lmap, val[n])
  /\ unlink(n)

\* m_map[ky] of a key that is there: operator[] may grow the table all the same.
Subscript(m) == IF m.oob THEN m ELSE Grown(m)

\* find(key) that is there
ListFind(k) ==
  /\ find(lmap, k) # Absent
  /\ lmap' = Subscript(lmap)
  /\ UNCHANGED <<next, prev, val, lcache>>

\* erase(key): find and the node of the key read the map, each in this way; a key
\* that is not there is not erased
ListErase(k) ==
  /\ find(lmap, k) # Absent
  /\ LET m == Subscript(Subscript(lmap))
     IN  IF m.oob THEN lmap' = m /\ UNCHANGED <<next, prev, val, lcache>>
         ELSE /\ lmap' = eraseKey(m, k)
              /\ unlink(find(lmap, k))

ListNext == /\ ~lmap.oob
            /\ \/ \E k \in Keys : ListPush(k, m_head) \/ ListPush(k, next[m_head])
               \/ ListPop(prev[m_head]) \/ ListPop(next[m_head])
               \/ \E k \in Keys : ListFind(k) \/ ListErase(k)

-----------------------------------------------------------------------------
(* Properties.                                                             *)

\* List and map agree: every key of the list is found, at the node that holds
\* it, no key twice, the ring is the same in both directions, and a node in
\* the cache is not in the list.  Nothing is said once growing the map has written
\* past its new table.
ListAgrees ==
  ~lmap.oob =>
    /\ Size = lmap.size
    /\ Walk(prev) = Reverse(Walk(next))
    /\ {Walk(next)[i] : i \in 1..lmap.size} = Linked
    /\ \A n \in Linked : find(lmap, val[n]) = n
    /\ \A i \in DOMAIN lcache : lcache[i] \notin Linked
    /\ NodesOf(lmap)
=============================================================================
