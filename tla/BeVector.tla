------------------------------ MODULE BeVector ------------------------------
(***************************************************************************)
(* be::vector (be/be_vector.h): a buffer with room at both ends, and       *)
(* be::hash_vector, which stores each key with its hash in one.  The cells *)
(* of vbuf are 0 .. capacity-1, m_head is the offset head.  copy_pod and   *)
(* copy_pod_backward differ when source and destination overlap: memmove   *)
(* for the types of is_pod, element by element for the others.             *)
(* The copy constructor, assignment and clear() are not modelled: they end *)
(* in const end(), a swap without the capacities and a second deallocate.  *)
(***************************************************************************)
EXTENDS Integers, Sequences, SequencesExt

CONSTANTS Elems, MaxLen

VARIABLES pod,     \* is_pod of the element type
          vbuf,    \* m_buf: the cells of the buffer
          head,    \* m_head - m_buf
          vsize,   \* m_size
          vlost,   \* an insertion grew the buffer before its end (the cells from
                   \* its position on were not copied), or moved the cells of
                   \* a type that is no pod over one another: no longer a vector
          vref     \* what the caller has built, as a sequence

vecVars == <<pod, vbuf, head, vsize, vlost, vref>>

Raw == "raw"      \* what allocate_n leaves in a cell

Capacity(b) == Len(b)
Cell(b, i) == b[i + 1]

\* What the caller sees: m_head[0 .. m_size-1]
Content == SubSeq(vbuf, head + 1, head + vsize)

\* copy_pod: dst[i] = src[i] upwards; memmove for a pod
be_copy(b, dst, n, src) ==
  [c \in DOMAIN b |->
     LET i == c - 1 - dst IN
     IF i \notin 0..(n - 1) THEN b[c]
     ELSE IF pod \/ dst <= src \/ dst >= src + n THEN Cell(b, src + i)
     ELSE Cell(b, src + (i % (dst - src)))]

\* copy_pod_backward: downwards; memmove for a pod
be_copy_backward(b, dst, n, src) ==
  [c \in DOMAIN b |->
     LET i == c - 1 - dst IN
     IF i \notin 0..(n - 1) THEN b[c]
     ELSE IF pod \/ dst >= src \/ src >= dst + n THEN Cell(b, src + i)
     ELSE Cell(b, src + (n - 1 - ((n - 1 - i) % (src - dst))))]

Fill(b, at, n, x) == [c \in DOMAIN b |-> IF c - 1 \in at..(at + n - 1) THEN x ELSE b[c]]

\* A larger buffer: only the cells before the position are copied.
Buffer(n) == [i \in 1..n |-> Raw]
GrownAt(d, n) ==
  IF vsize + n <= Capacity(vbuf) THEN [b |-> vbuf, h |-> head]
  ELSE LET h == vsize \div 2
       IN  [b |-> [c \in 1..(vsize + vsize + n) |->
                     IF c - 1 \in h..(h + d - 1) THEN Cell(vbuf, head + c - 1 - h) ELSE Raw],
            h |-> h]

\* Where the elements go: room is made at the nearer end, in the middle of the
\* room that is left when one end has much more of it than the other.
\* Mutant: the tail is moved before the cells in front of it.
PlacedUp(b, h, d, n) ==
  LET t == Capacity(b) - (h + vsize)
      mid == (h + t - n) \div 2
      tail == vsize - d
  IN  IF h >= n
      THEN IF t > n /\ d > tail
           THEN [b |-> be_copy_backward(b, h + d + n, tail, h + d), h |-> h]
           ELSE [b |-> be_copy(b, h - n, d, h), h |-> h]
      ELSE [b |-> be_copy(be_copy_backward(b, mid + d + n, tail, h + d), mid, d, h),
            h |-> mid]
Placed(b, h, d, n) ==
  LET t == Capacity(b) - (h + vsize)
      mid == (h + t - n) \div 2
      tail == vsize - d
  IN  IF h >= n
      THEN IF t > n /\ d > tail
           THEN [b |-> be_copy_backward(b, h + d + n, tail, h + d), h |-> h]
           ELSE IF h - t > (vsize + n) \div 4
           THEN [b |-> be_copy(be_copy(b, mid, d, h), mid + d + n, tail, h + d), h |-> mid]
           ELSE [b |-> be_copy(b, h - n, d, h), h |-> h - n]
      ELSE IF t < n
      THEN [b |-> be_copy_backward(be_copy(b, mid, d, h), mid + d + n, tail, h + d),
            h |-> mid]
      ELSE IF t - h > (vsize + n) \div 4
      THEN [b |-> be_copy_backward(be_copy_backward(b, mid + d + n, tail, h + d), mid, d, h),
            h |-> mid]
      ELSE [b |-> be_copy_backward(b, h + d + n, tail, h + d), h |-> h]

VecInit == pod \in BOOLEAN /\ vbuf = <<>> /\ head = 0 /\ vsize = 0 /\ vlost = FALSE /\ vref = <<>>

\* insert(pos, sz, x); push_back and push_front insert one at end() or begin()
VecInsert(d, n, x) ==
  LET g == GrownAt(d, n)
      p == Placed(g.b, g.h, d, n)
  IN  /\ vsize + n <= MaxLen
      /\ UNCHANGED pod
      /\ vbuf' = Fill(p.b, p.h + d, n, x)
      /\ head' = p.h
      /\ vsize' = vsize + n
      /\ vlost' = \/ Capacity(vbuf) < vsize + n /\ d < vsize
                  \/ ~pod /\ n > 2
      /\ vref' = SubSeq(vref, 1, d) \o [i \in 1..n |-> x] \o SubSeq(vref, d + 1, vsize)

\* erase(first, last); pop_front and pop_back erase one when there is one
VecErase(d, n) ==
  /\ d + n <= vsize
  /\ IF vsize - (d + n) <= d
     THEN vbuf' = be_copy(vbuf, head + d, vsize - (d + n), head + d + n) /\ head' = head
     ELSE vbuf' = be_copy_backward(vbuf, head + n, d, head) /\ head' = head + n
  /\ vsize' = vsize - n
  /\ vref' = SubSeq(vref, 1, d) \o SubSeq(vref, d + n + 1, vsize)
  /\ UNCHANGED <<pod, vlost>>

\* resize: a buffer of newsz cells (the old one is freed as if it had as many)
VecResize(n) ==
  /\ n > vsize /\ n <= MaxLen
  /\ vbuf' = [c \in 1..n |-> IF c <= vsize THEN Cell(vbuf, head + c - 1) ELSE Raw]
  /\ head' = 0
  /\ UNCHANGED <<pod, vsize, vlost, vref>>

\* Elements that are not pods and are inserted three at once may overwrite the
\* cells in front of the position, which are moved from the last to the first.
VecNext == /\ ~vlost
           /\ \/ \E d \in 0..vsize, n \in 1..3, x \in Elems : VecInsert(d, n, x)
              \/ \E d \in 0..vsize, n \in 1..2 : VecErase(d, n)
              \/ \E n \in 1..MaxLen : VecResize(n)

-----------------------------------------------------------------------------
(* Properties.                                                             *)

\* The elements are those the caller put, in his order, wherever the room was
\* made; not after one of the two insertions that lose some: before the end of a
\* full vector, push_front among them, and of three at once that are no pods.
KeepsSequence == ~vlost => Content = vref

\* Without the exception, which does not hold: what vector_test of be_test.cpp
\* expects of push_front.
KeepsAlways == Content = vref

=============================================================================
