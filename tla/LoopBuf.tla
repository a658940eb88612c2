------------------------------ MODULE LoopBuf ------------------------------
(***************************************************************************)
(* ef::loop_buf (efnfw/ef_loop_buf.cpp), the ring in which a connection    *)
(* keeps what it received, and the two ways it is filled and emptied:      *)
(* connection::handle_read (receive, resize, write) and read_buf.  A byte  *)
(* is its number in the stream, so that a lost byte shows.                 *)
(***************************************************************************)
EXTENDS Integers, Sequences, SequencesExt

CONSTANTS m_cap,        \* the capacity the constructor is given
          MaxRecv,      \* sizeof(tmpbuf): the most one receive returns
          StreamLen     \* bound: bytes the peer sends

\* assert(cap)
ASSUME RingAssumption == m_cap \in Nat \ {0} /\ MaxRecv \in Nat

VARIABLES cells,        \* m_buf: offset -> byte
          start, size,  \* m_start, m_size
          received,     \* bytes taken from the socket
          consumed,     \* what read_buf returned, in order
          truncated     \* write had less room than it was given bytes

ringVars == <<cells, start, size, received, consumed, truncated>>

NoByte == 0
RingMin(a, b) == IF a < b THEN a ELSE b

RingInit == /\ cells = [o \in 0..(m_cap - 1) |-> NoByte] /\ start = 0 /\ size = 0
            /\ received = 0 /\ consumed = <<>> /\ truncated = FALSE

\* memmove of n bytes from offset o, in two pieces when the end is in between
Piece(r, o, n) ==
  LET first == m_cap - o
  IN  IF first < n
      THEN [k \in 1..n |-> IF k <= first THEN r.c[o + k - 1] ELSE r.c[k - 1 - first]]
      ELSE [k \in 1..n |-> r.c[o + k - 1]]

Ring == [c |-> cells, st |-> start, sz |-> size]

\* peek
Peek(r, len) == Piece(r, r.st, RingMin(r.sz, len))

\* read
\* Mutant: a piece that reaches the end of the buffer leaves m_start behind it.
AfterReadNoWrap(r, len) ==
  LET n == RingMin(r.sz, len)
  IN  [r EXCEPT !.sz = @ - n, !.st = IF r.sz - n <= 0 THEN 0 ELSE (@ + n) % (m_cap + 1)]
AfterRead(r, len) ==
  LET n == RingMin(r.sz, len)
      first == m_cap - r.st
  IN  [r EXCEPT !.sz = @ - n,
                !.st = IF r.sz - n <= 0 THEN 0
                       ELSE IF first < n THEN n - first ELSE @ + n]

\* write: what does not fit is left out
AfterWrite(r, bytes) ==
  LET n == RingMin(Len(bytes), m_cap - r.sz)
      stop == (r.st + r.sz) % m_cap
  IN  [r EXCEPT !.sz = @ + n,
                !.c = [o \in DOMAIN @ |->
                         LET k == ((o - stop) % m_cap) + 1
                         IN  IF o < m_cap /\ k <= n THEN bytes[k] ELSE @[o]]]

\* resize: the bytes move to the front of a buffer of cap cells; m_cap stays
AfterResize(r, cap) ==
  LET got == Peek(r, cap)
  IN  [c |-> [o \in 0..(cap - 1) |-> IF o < Len(got) THEN got[o + 1] ELSE NoByte],
       st |-> 0, sz |-> Len(got)]

SetRing(r) == cells' = r.c /\ start' = r.st /\ size' = r.sz

\* connection::handle_read, one receive of n bytes
HandleRead(n) ==
  LET bytes == [k \in 1..n |-> received + k]
      r == IF size + n > m_cap THEN AfterResize(Ring, m_cap + n) ELSE Ring
  IN  /\ n <= MaxRecv /\ received + n <= StreamLen
      /\ SetRing(AfterWrite(r, bytes))
      /\ received' = received + n
      /\ truncated' = (truncated \/ n > m_cap - r.sz)
      /\ UNCHANGED consumed

\* handle_pack takes what it peeked at: read_buf(out, len)
ReadBuf(len) ==
  /\ size > 0
  /\ consumed' = consumed \o Peek(Ring, len)
  /\ SetRing(AfterRead(Ring, len))
  /\ UNCHANGED <<received, truncated>>

RingNext == \/ \E n \in 1..MaxRecv : HandleRead(n)
            \/ \E n \in 1..m_cap : ReadBuf(n)

RingSpec == RingInit /\ [][RingNext]_ringVars

-----------------------------------------------------------------------------
(* Properties.                                                             *)

\* Read and buffered bytes are, in order, a beginning of the stream, and all
\* of it as long as every receive found room.
StreamInOrder ==
  LET all == consumed \o Peek(Ring, size)
  IN  ~truncated => all = [k \in 1..received |-> k]

=============================================================================
