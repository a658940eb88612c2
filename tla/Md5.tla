-------------------------------- MODULE Md5 --------------------------------
(***************************************************************************)
(* MD5 accumulation (be/be_md5.cpp, be/be_macmd5.cpp): a message arrives   *)
(* in pieces of any length, blocks of 64 bytes are digested as they fill,  *)
(* and the end is padded and numbered.  The digest is the sequence of the  *)
(* blocks it was made of: what MD5Transform does with a block is data, and *)
(* two sequences of blocks are never confused here.  A word has W bits     *)
(* (32 in the code), so that its carries happen on short messages.         *)
(***************************************************************************)
EXTENDS Integers, Sequences, SequencesExt

CONSTANTS W,            \* bits of a word, at least 9
          Lengths,      \* lengths of the pieces
          FileChunk,    \* bytes of a read of file_md5: 1024
          MaxMessage    \* bound: bytes of a message

VARIABLES mbuf,         \* ctx->buf: the blocks digested
          bits,         \* ctx->bits: the bits counted, two words
          in,           \* ctx->in
          total,        \* bytes given so far
          md5val        \* the digest, and <<>> before there is one

md5Vars == <<mbuf, bits, in, total, md5val>>

\* Byte i of the message is told apart from every other byte.
MessageByte(i) == 256 + i
Message(from, len) == [i \in 1..len |-> MessageByte(from + i)]

MD5Init == /\ mbuf = <<>> /\ bits = <<0, 0>> /\ in = [i \in 1..64 |-> 0]
           /\ total = 0 /\ md5val = <<>>

Ctx == [buf |-> mbuf, bits |-> bits, in |-> in]

\* memcpy(ctx->in + at, piece, Len(piece))
Copied(c, at, piece) ==
  [c EXCEPT !.in = [i \in 1..64 |-> IF i \in (at + 1)..(at + Len(piece)) THEN piece[i - at] ELSE @[i]]]

MD5Transform(c) == [c EXCEPT !.buf = Append(@, c.in)]

\* The count of bits: a carry out of the low word, and the bits of the length
\* that a shift by three loses.
\* Mutant: the sum is not compared with the old count.
CountedNoCarry(b, len) == <<(b[1] + (len * 8)) % (2^W), (b[2] + (len \div (2^(W - 3)))) % (2^W)>>
Counted(b, len) ==
  LET low == (b[1] + ((len * 8) % (2^W))) % (2^W)
  IN  <<low, (b[2] + (IF low < b[1] THEN 1 ELSE 0) + (len \div (2^(W - 3)))) % (2^W)>>

\* Whole blocks of a piece, and what remains, which stays in ctx->in
Blocks64(c, piece) ==
  LET whole == Len(piece) \div 64
      one(d, g) == MD5Transform(Copied(d, 0, SubSeq(piece, (64 * g) - 63, 64 * g)))
  IN  Copied(FoldLeft(one, c, [g \in 1..whole |-> g]), 0, SubSeq(piece, (64 * whole) + 1, Len(piece)))

Updated(c, piece) ==
  LET t == (c.bits[1] \div 8) % 64
      d == [c EXCEPT !.bits = Counted(c.bits, Len(piece))]
      room == 64 - t
  IN  IF t = 0 THEN Blocks64(d, piece)
      ELSE IF Len(piece) < room THEN Copied(d, t, piece)
      ELSE Blocks64(MD5Transform(Copied(d, t, SubSeq(piece, 1, room))), SubSeq(piece, room + 1, Len(piece)))

\* The words of the count as bytes, low byte first
WordBytes(w) == [k \in 1..4 |-> (w \div (256^(k - 1))) % 256]
Zeros(n) == [i \in 1..n |-> 0]

\* 0x80, zeros up to byte 56 of this block or, when there is no room, of another
\* one, and the count
Finished(c) ==
  LET used == (c.bits[1] \div 8) % 64
      marked == Copied(c, used, <<128>>)
      left == 63 - used
      padded == IF left < 8
                THEN Copied(MD5Transform(Copied(marked, used + 1, Zeros(left))), 0, Zeros(56))
                ELSE Copied(marked, used + 1, Zeros(left - 8))
  IN  MD5Transform(Copied(padded, 56, WordBytes(c.bits[1]) \o WordBytes(c.bits[2])))

Becomes(c) == mbuf' = c.buf /\ bits' = c.bits /\ in' = c.in

MD5Update(len) ==
  /\ md5val = <<>> /\ total + len <= MaxMessage
  /\ Becomes(Updated(Ctx, Message(total, len)))
  /\ total' = total + len
  /\ UNCHANGED md5val

MD5Final ==
  /\ md5val = <<>>
  /\ LET c == Finished(Ctx) IN Becomes(c) /\ md5val' = c.buf
  /\ UNCHANGED total

\* Md5Val and file_md5: a whole message at once, or as the reads of a file give it
PieceLengths(n, chunk) == [k \in 1..((n + chunk - 1) \div chunk) |-> IF k * chunk <= n THEN chunk ELSE n % chunk]
OfFile(n, chunk) ==
  LET piece(c, k) == Updated(c, Message((k - 1) * chunk, PieceLengths(n, chunk)[k]))
  IN  Finished(FoldLeft(piece, Ctx, [k \in 1..Len(PieceLengths(n, chunk)) |-> k]))
FileMd5(n) ==
  /\ md5val = <<>> /\ total = 0 /\ mbuf = <<>>
  /\ n <= MaxMessage
  /\ LET c == OfFile(n, FileChunk) IN Becomes(c) /\ md5val' = c.buf
  /\ total' = n

Md5Next == (\E len \in Lengths : MD5Update(len)) \/ MD5Final \/ \E n \in Lengths : FileMd5(n)

-----------------------------------------------------------------------------
(* Properties.                                                             *)

\* The digest is that of the message as a whole, padded once and followed by its
\* length in bits, whatever the pieces it came in.
DigestOfWhole ==
  md5val # <<>> =>
    LET zeros == (119 - (total % 64)) % 64
        length == WordBytes((8 * total) % (2^W)) \o WordBytes((8 * total) \div (2^W))
        all == Message(0, total) \o <<128>> \o Zeros(zeros) \o length
    IN  md5val = [g \in 1..(Len(all) \div 64) |-> SubSeq(all, (64 * g) - 63, 64 * g)]
=============================================================================
