------------------------------ MODULE HashMap ------------------------------
(***************************************************************************)
(* be::hash_map (be/be_hash_map.h): chained buckets, a table that grows to *)
(* the next prime, and the cache of erased nodes (be::mem_cache).  The     *)
(* operators work on a map as a value, so that hash_list (module HashList) *)
(* uses the same ones; the map of this module is the variable hmap.        *)
(*   tab    m_buck: the chain of each bucket, its head first               *)
(*   size   m_size           cache  m_cache.size()                         *)
(*   msx    m_msxsize        blocks nodes taken from the allocator         *)
(*   oob    resize wrote past the end of the new table: what follows is    *)
(*          undefined and nothing more is said of the map                  *)
(* An iterator is its node: the bucket and the place in its chain.         *)
(* Comparing maps and the table of a given first size are not modelled.    *)
(***************************************************************************)
EXTENDS Integers, Sequences, SequencesExt, FiniteSets

CONSTANTS Keys, Values, Hash, Primes,
          Absent           \* what find gives for a key that is not there

VARIABLES hmap,   \* the map
          dict    \* what the caller has put in and not erased (Absent: not)

hmapVars == <<hmap, dict>>

EmptyMap == [tab |-> <<>>, msx |-> 0, size |-> 0, cache |-> 0, blocks |-> 0,
             oob |-> FALSE]

\* hash_next_prime: the first prime of the table above n, or the last one
hash_next_prime(n) ==
  LET above == {i \in DOMAIN Primes : Primes[i] > n}
  IN  IF above = {} THEN Primes[Len(Primes)]
      ELSE Primes[CHOOSE i \in above : \A j \in above : i <= j]

-----------------------------------------------------------------------------
(* Chains.                                                                 *)

Bucket(m, k) == Hash[k] % m.msx

Stored(m, k) == m.msx > 0 /\ \E i \in DOMAIN m.tab[Bucket(m, k)] :
                                m.tab[Bucket(m, k)][i].key = k

find(m, k) ==
  IF m.size = 0 \/ ~Stored(m, k) THEN Absent
  ELSE LET c == m.tab[Bucket(m, k)]
       IN  c[CHOOSE i \in DOMAIN c : /\ c[i].key = k
                                     /\ \A j \in 1..(i-1) : c[j].key # k].val

\* Every bucket below m_size, its nodes in chain order, is moved to the head
\* of the bucket its hash names: taken modulo sz to read, not to write.
\* Mutant: the nodes of one bucket are lost, as if the loop began at 1.
resizeFromOne(m, sz) ==
  LET old == FlattenSeq([i \in 1..(m.size - 1) |-> m.tab[i]])
  IN  [m EXCEPT !.msx = sz,
         !.oob = @ \/ \E i \in DOMAIN old : Hash[old[i].key] >= sz,
         !.tab = [b \in 0..(sz - 1) |->
                    Reverse(SelectSeq(old, LAMBDA n : Hash[n.key] = b))]]
resize(m, sz) ==
  LET old == FlattenSeq([i \in 1..m.size |-> m.tab[i - 1]])
  IN  [m EXCEPT !.msx = sz,
         !.oob = @ \/ \E i \in DOMAIN old : Hash[old[i].key] >= sz,
         !.tab = [b \in 0..(sz - 1) |->
                    Reverse(SelectSeq(old, LAMBDA n : Hash[n.key] = b))]]

\* insert and operator[] grow a full table before they look for the key
Grown(m) == IF m.size + 1 > m.msx THEN resize(m, hash_next_prime(m.size + 1))
            ELSE m

\* mem_cache::allocate(t), or the allocator when the cache is empty
TakeNode(m) == IF m.cache = 0 THEN [m EXCEPT !.blocks = @ + 1]
               ELSE [m EXCEPT !.cache = @ - 1]

\* The new node goes to the front of its bucket
AddNode(m, k, v) ==
  [TakeNode(m) EXCEPT !.tab[Bucket(m, k)] = <<[key |-> k, val |-> v]>> \o @,
                      !.size = @ + 1]

insert(m, k, v) ==
  LET g == Grown(m) IN IF g.oob \/ Stored(g, k) THEN g ELSE AddNode(g, k, v)

\* map[k] = v
Index(m, k, v) ==
  LET g == Grown(m)
  IN  IF g.oob THEN g
      ELSE IF Stored(g, k)
      THEN [g EXCEPT !.tab[Bucket(g, k)] =
              [i \in DOMAIN @ |-> IF @[i].key = k THEN [key |-> k, val |-> v]
                                  ELSE @[i]]]
      ELSE AddNode(g, k, v)

\* A node leaves the map: into the cache while the free room of the table is
\* larger than the cache (an unsigned difference), to the allocator otherwise.
DropNode(m) ==
  IF m.cache >= m.msx - m.size
  THEN [m EXCEPT !.blocks = @ - 1, !.size = @ - 1]
  ELSE [m EXCEPT !.cache = @ + 1, !.size = @ - 1]

\* size_type erase(const key_type&): every node of the chain with the key
eraseKey(m, k) ==
  IF ~Stored(m, k) THEN m
  ELSE DropNode([m EXCEPT !.tab[Bucket(m, k)] =
                   SelectSeq(@, LAMBDA n : n.key # k)])

\* void erase(iterator): the bucket is the hash itself, not its remainder
eraseAt(m, k) == IF Hash[k] >= m.msx THEN [m EXCEPT !.oob = TRUE]
                 ELSE eraseKey(m, k)

\* erase_bucket(n, first, last): from the node of first to the end or to last
erase_bucket(m, b, i, j) ==
  LET n == j - i + 1
      drop[d \in 0..n] == IF d = 0 THEN m ELSE DropNode(drop[d - 1])
  IN  [drop[n] EXCEPT !.tab[b] = SubSeq(@, 1, i - 1) \o SubSeq(@, j + 1, Len(@))]

\* erase(first, last) with last in a later bucket, or end(): the rest of the
\* first bucket, the buckets between, the last bucket up to last
eraseRange(m, b, i, lb, j) ==
  LET cut[n \in b..lb] ==
        IF n = b THEN erase_bucket(m, b, i, Len(m.tab[b]))
        ELSE IF n = lb
        THEN IF lb = m.msx THEN cut[n - 1] ELSE erase_bucket(cut[n - 1], n, 1, j)
        ELSE erase_bucket(cut[n - 1], n, 1, Len(m.tab[n]))
  IN  cut[lb]

-----------------------------------------------------------------------------
(* Iterating and copying.                                                  *)

End == <<>>

\* begin looks at as many buckets as there are nodes, not at all of them.
begin(m) ==
  LET used == {b \in 0..(m.size - 1) : m.tab[b] # <<>>}
  IN  IF used = {} THEN End ELSE <<Min(used), 1>>

\* operator++: down the chain, then on from the bucket the hash of the key
\* names, which is not reduced.
Increment(m, it) ==
  LET chain == m.tab[it[1]]
      later == {b \in (Hash[chain[it[2]].key] + 1)..(m.msx - 1) : m.tab[b] # <<>>}
  IN  IF it[2] < Len(chain) THEN <<it[1], it[2] + 1>>
      ELSE IF later = {} THEN End ELSE <<Min(later), 1>>

\* for(itor = begin(); itor != end(); ++itor): the nodes seen
Visited(m) ==
  LET at[n \in 1..(m.size + 1)] ==
        IF n = 1 THEN begin(m) ELSE IF at[n - 1] = End THEN End ELSE Increment(m, at[n - 1])
      seen == SelectSeq([n \in 1..(m.size + 1) |-> at[n]], LAMBDA it : it # End)
  IN  [n \in DOMAIN seen |-> m.tab[seen[n][1]][seen[n][2]]]

\* hash_map(const hash_map&): a table for one more than other has, and the
\* nodes iteration sees
CopyOf(m) ==
  FoldLeft(LAMBDA c, n : insert(c, n.key, n.val),
           resize(EmptyMap, hash_next_prime(m.size + 1)), Visited(m))

\* m = m: the table is swapped with that of a copy, which is then destroyed; the
\* cache stays.
Assigned(m) == LET c == CopyOf(m)
               IN  [c EXCEPT !.cache = m.cache, !.blocks = c.size + m.cache]

-----------------------------------------------------------------------------
MapInit == hmap = EmptyMap /\ dict = [k \in Keys |-> Absent]

MapInsert(k, v) ==
  /\ hmap' = insert(hmap, k, v)
  /\ dict' = [dict EXCEPT ![k] = IF @ = Absent THEN v ELSE @]

MapIndex(k, v) ==
  /\ hmap' = Index(hmap, k, v)
  /\ dict' = [dict EXCEPT ![k] = v]

\* an empty table would divide by zero: the callers erase what they stored
MapErase(k) ==
  /\ hmap.msx > 0
  /\ hmap' = eraseKey(hmap, k)
  /\ dict' = [dict EXCEPT ![k] = Absent]

\* erase(find(k))
MapEraseAt(k) ==
  /\ Stored(hmap, k)
  /\ hmap' = eraseAt(hmap, k)
  /\ dict' = [dict EXCEPT ![k] = Absent]

\* Both ends are nodes whose hash names their bucket, or last is end().
MapEraseRange(b, i, lb, j) ==
  /\ b < lb
  /\ i \in DOMAIN hmap.tab[b]
  /\ IF lb = hmap.msx THEN j = 0 ELSE j + 1 \in DOMAIN hmap.tab[lb]
  /\ Hash[hmap.tab[b][i].key] = b
  /\ lb < hmap.msx => Hash[hmap.tab[lb][j + 1].key] = lb
  /\ hmap' = eraseRange(hmap, b, i, lb, j)
  /\ dict' = [k \in Keys |->
        IF \/ \E n \in i..Len(hmap.tab[b]) : hmap.tab[b][n].key = k
           \/ \E c \in (b+1)..(lb-1) :
                \E n \in DOMAIN hmap.tab[c] : hmap.tab[c][n].key = k
           \/ \E n \in 1..j : hmap.tab[lb][n].key = k
        THEN Absent ELSE dict[k]]

MapAssign ==
  /\ hmap' = Assigned(hmap)
  /\ dict' = [k \in Keys |-> IF \E n \in ToSet(Visited(hmap)) : n.key = k THEN dict[k] ELSE Absent]

MapNext ==
  /\ ~hmap.oob
  /\ \/ MapAssign
     \/ \E k \in Keys, v \in Values : MapInsert(k, v) \/ MapIndex(k, v)
     \/ \E k \in Keys : MapErase(k) \/ MapEraseAt(k)
     \/ \E b \in 0..(hmap.msx - 1), lb \in 1..hmap.msx :
          \E i \in DOMAIN hmap.tab[b], j \in 0..hmap.size :
            MapEraseRange(b, i, lb, j)

-----------------------------------------------------------------------------
(* Properties.                                                             *)

\* The nodes allocated are in the map or in the cache, and the table has room
\* for all of the map (else the unsigned difference in DropNode would wrap).
NodesOf(m) == m.blocks = m.size + m.cache /\ m.size <= m.msx

\* A key is found with the value last put for it, and only then, whatever
\* growth, collisions and erasures came between; and no node is lost or counted
\* twice; an assigned map has what iteration sees of the other.  Nothing is said
\* once resize has written past the new table, with a hash it does not reduce.
FindsWhatWasPut ==
  ~hmap.oob => /\ \A k \in Keys : find(hmap, k) = dict[k]
               /\ NodesOf(hmap)

\* Iteration sees no key twice and none that is not there, and it sees them all
\* where every hash is below the number of buckets and the first bucket in use
\* below the number of nodes (outside of that begin and ++ end too early).
IteratesOnce ==
  ~hmap.oob =>
    LET seen == Visited(hmap)
        present == {k \in Keys : dict[k] # Absent}
        used == {b \in 0..(hmap.msx - 1) : hmap.tab[b] # <<>>}
    IN  /\ \A i, j \in DOMAIN seen : seen[i].key = seen[j].key => i = j
        /\ {n.key : n \in ToSet(seen)} \subseteq present
        /\ (\A k \in present : Hash[k] < hmap.msx) /\ (\E b \in used : b < hmap.size)
             => Len(seen) = Cardinality(present)

\* Without the exception, which does not hold: a growing map stays in its table.
GrowsInTable == ~hmap.oob
=============================================================================
