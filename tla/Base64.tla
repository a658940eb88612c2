------------------------------- MODULE Base64 -------------------------------
(***************************************************************************)
(* elog::base64_encode and base64_decode (elog/base64.cpp).  A character   *)
(* is its place in ch64, 0..63; Pad is '='.  Bytes are 0..255.             *)
(***************************************************************************)
EXTENDS Integers, Sequences, SequencesExt

CONSTANTS Bytes, MaxBytes

VARIABLES src, enc, dec         \* a string, its encoding, and that decoded

b64Vars == <<src, enc, dec>>

Pad == 64

\* Three bytes make four characters
Quad(a, b, c) == <<a \div 4, ((a % 4) * 16) + (b \div 16), ((b % 16) * 4) + (c \div 64), c % 64>>

\* The last one or two bytes are completed by zero bits and pads.
TailQuad(r) ==
  IF Len(r) > 1 THEN SubSeq(Quad(r[1], r[2], 0), 1, 3) \o <<Pad>>
  ELSE SubSeq(Quad(r[1], 0, 0), 1, 2) \o <<Pad, Pad>>

base64_encode(s) ==
  LET n == Len(s)
      full == FlattenSeq([g \in 1..(n \div 3) |-> Quad(s[(3 * g) - 2], s[(3 * g) - 1], s[3 * g])])
  IN  IF n % 3 = 0 THEN full ELSE full \o TailQuad(SubSeq(s, n - (n % 3) + 1, n))

\* Four characters make three bytes; a pad counts as zero, and from the first
\* pad on it is remembered how many bytes there are too many.
Triple(q) == LET c == IF q[3] = Pad THEN 0 ELSE q[3]
                 d == IF q[3] = Pad \/ q[4] = Pad THEN 0 ELSE q[4]
             IN  <<((q[1] * 4) + (q[2] \div 16)) % 256,
                   (((q[2] % 16) * 16) + (c \div 4)) % 256,
                   (((c % 4) * 64) + d) % 256>>

base64_decode(s) ==
  LET groups == Len(s) \div 4
      quad(g) == SubSeq(s, (4 * g) - 3, 4 * g)
      all == FlattenSeq([g \in 1..groups |-> Triple(quad(g))])
      over == IF \E g \in 1..groups : quad(g)[3] = Pad THEN 2
              ELSE IF \E g \in 1..groups : quad(g)[4] = Pad THEN 1 ELSE 0
  IN  SubSeq(all, 1, Len(all) - over)

B64Init == src = <<>> /\ enc = <<>> /\ dec = <<>>

B64Append(b) == /\ Len(src) < MaxBytes
                /\ src' = Append(src, b)
                /\ enc' = base64_encode(src')
                /\ dec' = base64_decode(enc')

B64Next == \E b \in Bytes : B64Append(b)

-----------------------------------------------------------------------------
\* What is decoded is what was encoded, and the encoding has four characters
\* for every three bytes begun.
Base64Inverts == dec = src /\ Len(enc) = 4 * ((Len(src) + 2) \div 3)
=============================================================================
