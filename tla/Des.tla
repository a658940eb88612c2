-------------------------------- MODULE Des --------------------------------
(***************************************************************************)
(* DES and triple DES (be/be_des.cpp): the Feistel network, the order of   *)
(* the subkeys, the padding, and the search for weak keys.  A byte is      *)
(* 0..15, a block eight of them, a word four.  The S boxes, the bit        *)
(* permutations and the key schedule are fixed functions of the same shape *)
(* (their tables are data): what is checked holds for any such tables.     *)
(***************************************************************************)
EXTENDS Integers, Sequences, SequencesExt

CONSTANTS DesKeys,      \* raw keys, numbers
          WeakKeys,     \* weak_keys: the sorted table
          MaxMsg        \* bound: length of a message

VARIABLES cipher,       \* "none", "des", "2key" or "3key"
          ekeys, dkeys, \* encrypt_subkeys, decrypt_subkeys (even/odd pairs)
          weak,         \* what the key check answered: DESE_WEAK_KEY
          usedKeys,     \* the raw keys
          plain, crypt, back   \* a message, encrypted, and that decrypted

desVars == <<cipher, ekeys, dkeys, weak, usedKeys, plain, crypt, back>>

Byte == 0..15
Bit(x, k) == (x \div (2^k)) % 2
XorTable == [x \in Byte, y \in Byte |->
               LET b(k) == (Bit(x, k) + Bit(y, k)) % 2
               IN  b(0) + (2 * b(1)) + (4 * b(2)) + (8 * b(3))]
Xor(v, w) == <<XorTable[v[1], w[1]], XorTable[v[2], w[2]], XorTable[v[3], w[3]], XorTable[v[4], w[4]]>>

\* des_key_schedule: 16 subkeys of a key
KeySchedule(key) == [r \in 1..16 |-> [i \in 1..4 |-> ((key * r) + (r * r) + i) % 16]]

\* sbox1..sbox8 with the permutation P: any function will do
SBoxes(w) ==
  LET mix(i, j) == ((w[i] * w[i]) + (5 * w[j]) + 3) % 16
  IN  <<mix(1, 2), mix(2, 3), mix(3, 4), mix(4, 1)>>

\* What one DES_ROUND xors to the other half
RoundKeyed(from, k) == SBoxes(Xor(from, k))

\* INITIAL_PERMUTATION and FINAL_PERMUTATION, which undo one another
PermTable == <<2, 4, 6, 8, 1, 3, 5, 7>>
InitialPermutation(b) == [i \in 1..8 |-> b[PermTable[i]]]
FinalPermutation(b) == [i \in 1..8 |-> b[CHOOSE j \in 1..8 : PermTable[j] = i]]

\* READ_64BIT_DATA, the permutation, the rounds of keys, FINAL_PERMUTATION
\* (right, work, left), WRITE_64BIT_DATA(right, left).  An odd round changes
\* left, an even one right; the middle 16 of triple DES do the opposite.
LeftFirst(i) == (i % 2 = 1) # (i \in 17..32)

RECURSIVE Rounds(_, _, _, _)
Rounds(keys, i, left, right) ==
  IF i > Len(keys) THEN <<left, right>>
  ELSE IF LeftFirst(i)
       THEN LET new == Xor(left, RoundKeyed(right, keys[i])) IN Rounds(keys, i + 1, new, right)
       ELSE LET new == Xor(right, RoundKeyed(left, keys[i])) IN Rounds(keys, i + 1, left, new)

Crypt(keys, block) ==
  LET b == InitialPermutation(block)
      w == Rounds(keys, 1, SubSeq(b, 1, 4), SubSeq(b, 5, 8))
  IN  FinalPermutation(w[2] \o w[1])

\* The decryption keys are the encryption keys in reverse order; in triple DES
\* the middle third of either is a schedule reversed.
\* des_setkey
\* Mutant: decrypt_subkeys are left in the order of the schedule.
DesSubkeysInOrder(k) == [e |-> KeySchedule(k), d |-> KeySchedule(k)]
DesSubkeys(k) == [e |-> KeySchedule(k), d |-> Reverse(KeySchedule(k))]
\* tripledes_set3keys
Des3Subkeys(k1, k2, k3) ==
  LET s1 == KeySchedule(k1)
      s2 == KeySchedule(k2)
      s3 == KeySchedule(k3)
  IN  [e |-> s1 \o Reverse(s2) \o s3, d |-> Reverse(s3) \o s2 \o Reverse(s1)]
\* tripledes_set2keys: the third key is the first
Des2Subkeys(k1, k2) ==
  LET s1 == KeySchedule(k1)
      s2 == KeySchedule(k2)
  IN  [e |-> s1 \o Reverse(s2) \o s1, d |-> Reverse(s1) \o s2 \o Reverse(s1)]

\* is_weak_key: a binary search for the key without its parity bit
RECURSIVE Search(_, _, _)
Search(work, lo, hi) ==
  LET middle == (lo + hi) \div 2
  IN  /\ lo <= hi
      /\ \/ work = WeakKeys[middle + 1]
         \/ work > WeakKeys[middle + 1] /\ Search(work, middle + 1, hi)
         \/ work < WeakKeys[middle + 1] /\ Search(work, lo, middle - 1)
IsWeakKey(key) == Search((key \div 2) * 2, 0, Len(WeakKeys) - 1)

PADDING == [n \in 1..8 |-> [i \in 1..n |-> n]]

\* DesEncrypt, Des3Encrypt: the last block holds what remains and n bytes n
Encrypt(keys, m) ==
  LET padded == m \o PADDING[8 - (Len(m) % 8)]
  IN  FlattenSeq([g \in 1..(Len(padded) \div 8) |-> Crypt(keys, SubSeq(padded, (8*g) - 7, 8*g))])

\* DesDecrypt, Des3Decrypt: <<-1>> when the length or the padding is wrong
Refused == <<-1>>
Decrypt(keys, c) ==
  LET all == FlattenSeq([g \in 1..(Len(c) \div 8) |-> Crypt(keys, SubSeq(c, (8*g) - 7, 8*g))])
      pad == all[Len(all)]
  IN  IF Len(c) % 8 # 0 \/ Len(c) = 0 THEN Refused
      ELSE IF pad \notin 1..8 \/ SubSeq(all, Len(all) - pad + 1, Len(all)) # PADDING[pad] THEN Refused
      ELSE SubSeq(all, 1, Len(all) - pad)

DesInit == /\ cipher = "none" /\ ekeys = <<>> /\ dkeys = <<>> /\ weak = FALSE /\ usedKeys = <<>>
           /\ plain = <<>> /\ crypt = <<>> /\ back = <<>>

SetKeys(kind, keys, subkeys, checks) ==
  /\ cipher = "none" /\ cipher' = kind
  /\ ekeys' = subkeys.e /\ dkeys' = subkeys.d
  /\ usedKeys' = keys
  /\ weak' = (checks /\ \E i \in DOMAIN keys : IsWeakKey(keys[i]))
  /\ UNCHANGED <<plain, crypt, back>>

DesSetKey(k) == SetKeys("des", <<k>>, DesSubkeys(k), FALSE)
Des3Set2Key(k1, k2) == SetKeys("2key", <<k1, k2>>, Des2Subkeys(k1, k2), TRUE)
Des3Set3Key(k1, k2, k3) == SetKeys("3key", <<k1, k2, k3>>, Des3Subkeys(k1, k2, k3), TRUE)

\* Encrypt a message and decrypt what came out
DesRoundTrip(n, a, b) ==
  /\ cipher # "none" /\ crypt = <<>>
  /\ plain' = [i \in 1..n |-> ((a * i) + b) % 16]
  /\ crypt' = Encrypt(ekeys, plain')
  /\ back' = Decrypt(dkeys, crypt')
  /\ UNCHANGED <<cipher, ekeys, dkeys, weak, usedKeys>>

DesNext == \/ \E k1 \in DesKeys : DesSetKey(k1)
           \/ \E k1, k2 \in DesKeys : Des3Set2Key(k1, k2)
           \/ \E k1, k2, k3 \in DesKeys : Des3Set3Key(k1, k2, k3)
           \/ \E n \in 0..MaxMsg, a \in {0, 1, 5}, b \in {1, 8} : DesRoundTrip(n, a, b)

-----------------------------------------------------------------------------
(* Properties.                                                             *)

\* Decrypting undoes encrypting, for each of the three ways to set the keys and
\* whatever the length of the message.
DesInverts == crypt # <<>> => back = plain

\* The 48 rounds of triple DES are three DES operations, encrypting with the
\* first key, decrypting with the second and encrypting with the third (the
\* first again when there are two), and a weak key is reported exactly when one
\* of the keys is in the table up to its parity bit.  (When a message is
\* encrypted the keys stay as they were set.)
TripleIsEDE ==
  cipher \in {"2key", "3key"} /\ crypt = <<>> =>
    LET third == IF cipher = "2key" THEN usedKeys[1] ELSE usedKeys[3]
        block == <<1, 2, 3, 5, 8, 13, 0, 9>>
        first == Crypt(DesSubkeys(usedKeys[1]).e, block)
        second == Crypt(DesSubkeys(usedKeys[2]).d, first)
    IN  /\ Crypt(ekeys, block) = Crypt(DesSubkeys(third).e, second)
        /\ weak = \E k \in ToSet(usedKeys), w \in ToSet(WeakKeys) : k \div 2 = w \div 2
=============================================================================
