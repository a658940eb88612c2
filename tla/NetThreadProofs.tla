--------------------------- MODULE NetThreadProofs ---------------------------
(***************************************************************************)
(* One net_thread, for any number of connections, messages of any length   *)
(* and any timers.  Of every connection: what its peer has got and what is *)
(* left in m_msgs are together the messages accepted (Sent), and it is     *)
(* watched as its loop needs (Watched).  Of the loop's tables: an entry of *)
(* m_con_map or of the timer map names a connection of this thread, under  *)
(* the key the connection itself would compute (Tied), so that detaching   *)
(* the connection finds every entry that names it.  A batch of events      *)
(* names only connections that were made (Events).                         *)
(***************************************************************************)
EXTENDS NetThread, FiniteSetTheorems, SequenceTheorems, WellFoundedInduction, TLAPS

Msgs == {"send"} \X Nat
Fields == DOMAIN NewCon

IsRec(r) == r = [f \in Fields |-> r[f]]

\* a are the messages accepted for the connection r.
Sent(r, a) ==
    /\ a \in Seq(Msgs) /\ r.msgs \in Seq(Msgs) /\ r.out \in Seq(Msgs \X Nat)
    /\ r.start \in 0..(MsgLen - 1)
    /\ r.msgs = <<>> => r.start = 0
    /\ Len(r.msgs) <= Len(a)
    /\ \A i \in 1..Len(r.msgs) : r.msgs[i] = a[Len(a) - Len(r.msgs) + i]
    /\ Len(r.out) = (Len(a) - Len(r.msgs)) * MsgLen + r.start
    /\ \A j \in 1..Len(r.out) : r.out[j] = <<a[1 + ((j - 1) \div MsgLen)], (j - 1) % MsgLen>>

\* The kernel watches the descriptor for what m_noti says, or for everything
\* once the connection has been detached.
Wired(r) ==
    /\ r.life \in {"none", "live", "freed"} /\ r.thr \in BOOLEAN
    /\ r.life # "live" => ~r.thr /\ r.epoll = {}
    /\ r.life = "live" /\ r.thr => "R" \in r.noti /\ r.epoll = r.noti
    /\ r.life = "live" /\ ~r.thr => r.epoll = {"R", "W"}

Watched(r) == Wired(r) /\ (r.life = "live" /\ r.thr /\ r.msgs # <<>> => "W" \in r.noti)

Good(r, a) == /\ IsRec(r) /\ Sent(r, a) /\ Watched(r)
              /\ r.life = "none" => r = NewCon /\ a = <<>>

\* What sending does not touch
Same(r, s) == r.life = s.life /\ r.thr = s.thr /\ r.id = s.id /\ r.timers = s.timers

-----------------------------------------------------------------------------
(* Sending *)

LEMMA Products == ASSUME NEW a \in Int, NEW b \in Int, NEW c \in Int
                  PROVE (a + b) * c = a * c + b * c /\ (a - b) * c = a * c - b * c
  OBVIOUS

LEMMA Cut ==
  ASSUME NEW p \in Nat, NEW len \in Nat \ {0}
  PROVE  /\ p \div len \in Nat /\ p % len \in 0..(len - 1)
         /\ p = (p \div len) * len + (p % len)
<1>1. p \div len \in Nat
  OBVIOUS
<1>2. p % len \in 0..(len - 1)
  OBVIOUS
<1>3. p = (p \div len) * len + (p % len)
  OBVIOUS
<1> QED
  BY <1>1, <1>2, <1>3

\* Bytes are cut into messages from any message on alike.
LEMMA CutAnywhere ==
  ASSUME NEW q \in Nat, NEW p \in Nat, NEW len \in Nat \ {0}
  PROVE  /\ (q * len + p) \div len = q + (p \div len)
         /\ (q * len + p) % len = p % len
<1>1. (q * len + p) \div len = q + (p \div len)
  OBVIOUS
<1>2. PICK d \in Nat, m \in Nat : d = p \div len /\ m = p % len /\ p = d * len + m
  BY Cut
<1>3. PICK x \in Nat, y \in Nat : y = q * len /\ x = y + p
  OBVIOUS
<1>4. PICK e \in Nat, n \in Nat : e = x \div len /\ n = x % len /\ x = e * len + n
  BY Cut
<1>5. e = q + d
  BY <1>1, <1>2, <1>3, <1>4
<1>6. e * len = y + d * len
  BY <1>3, <1>5, Products
<1>7. n = m
  <2>1. PICK z \in Nat : z = d * len
    OBVIOUS
  <2> QED
    BY <2>1, <1>2, <1>3, <1>4, <1>6
<1> QED
  BY <1>1, <1>2, <1>3, <1>4, <1>7

\* k bytes end at most at the end of the n messages.
LEMMA CutWithin ==
  ASSUME NEW n \in Nat, NEW p \in Nat, NEW len \in Nat \ {0}, p <= n * len
  PROVE  /\ p \div len <= n
         /\ p \div len = n => p % len = 0
         /\ p < n * len => p \div len < n
<1>1. p = (p \div len) * len + (p % len) /\ p \div len \in Nat /\ p % len \in 0..(len - 1)
  BY Cut
<1>2. PICK q \in Nat, r \in 0..(len - 1) : q = p \div len /\ r = p % len /\ p = q * len + r
  BY <1>1
<1>3. q > n => (q - n) * len >= len
  OBVIOUS
<1>4. (q - n) * len = q * len - n * len
  BY <1>2, Products
<1>5. q <= n
  BY <1>2, <1>3, <1>4
<1>6. q = n => r = 0
  BY <1>2, <1>4
<1> QED
  BY <1>2, <1>5, <1>6

LEMMA AfterSendKeeps ==
  ASSUME NEW r, NEW a, IsRec(r), Sent(r, a), NEW k \in 0..Unsent(r)
  PROVE  /\ IsRec(AfterSend(r, k)) /\ Sent(AfterSend(r, k), a) /\ Same(AfterSend(r, k), r)
         /\ AfterSend(r, k).noti = r.noti /\ AfterSend(r, k).epoll = r.epoll
         /\ AfterSend(r, k).flag = r.flag
         /\ r.msgs = <<>> => AfterSend(r, k).msgs = <<>>
<1>1. PICK len \in Nat \ {0} : len = MsgLen
  BY NetConstants
<1>2. PICK m \in Nat, all \in Nat, outs \in Nat : m = Len(r.msgs) /\ all = Len(a) /\ outs = Len(r.out) /\ m <= all
  BY LenProperties DEF Sent
<1>3. PICK base \in Nat : base = all - m
  BY <1>2
<1>4. PICK st \in 0..(len - 1) : st = r.start
  BY <1>1 DEF Sent
<1>5. /\ r.msgs \in Seq(Msgs) /\ a \in Seq(Msgs) /\ r.out \in Seq(Msgs \X Nat)
      /\ \A i \in 1..m : r.msgs[i] = a[base + i] /\ r.msgs[i] \in Msgs
      /\ outs = base * len + st
      /\ \A j \in 1..outs : r.out[j] = <<a[1 + ((j - 1) \div len)], (j - 1) % len>>
  <2>1. \A i \in 1..m : r.msgs[i] = a[base + i]
    BY <1>2, <1>3 DEF Sent
  <2>2. \A i \in 1..m : r.msgs[i] \in Msgs
    BY <1>2, ElementOfSeq DEF Sent
  <2> QED
    BY <2>1, <2>2, <1>1, <1>2, <1>3, <1>4 DEF Sent
<1>6. PICK p \in Nat : p = st + k /\ p <= m * len /\ k \in Nat
  <2>1. m * len \in Nat
    BY <1>1
  <2>2. k \in 0..(m * len - st)
    BY <1>1, <1>2, <1>4 DEF Unsent
  <2> QED
    BY <2>1, <2>2, <1>4
<1>7. PICK q \in 0..m, rem \in 0..(len - 1) :
        q = p \div len /\ rem = p % len /\ p = q * len + rem /\ (q = m => rem = 0)
  <2>1. /\ p \div len \in Nat /\ p % len \in 0..(len - 1) /\ p = (p \div len) * len + (p % len)
    BY Cut
  <2>2. p \div len <= m /\ (p \div len = m => p % len = 0)
    BY <1>6, CutWithin
  <2>3. p \div len \in 0..m
    BY <2>1, <2>2
  <2> QED
    BY <2>1, <2>2, <2>3
<1>8. PICK s : s = AfterSend(r, k)
  OBVIOUS
<1>9. /\ s.out = r.out \o Bytes(r, k) /\ s.msgs = SubSeq(r.msgs, 1 + q, m) /\ s.start = rem
      /\ IsRec(s) /\ Same(s, r) /\ s.noti = r.noti /\ s.epoll = r.epoll /\ s.flag = r.flag
  <2>1. s = [r EXCEPT !.out = @ \o Bytes(r, k), !.msgs = SubSeq(@, 1 + q, Len(@)), !.start = rem]
    BY <1>1, <1>4, <1>6, <1>7, <1>8 DEF AfterSend
  <2> QED
    BY <2>1, <1>2 DEF IsRec, Fields, NewCon, Same
<1>10. /\ s.msgs \in Seq(Msgs) /\ Len(s.msgs) = m - q
       /\ \A i \in 1..(m - q) : s.msgs[i] = r.msgs[q + i]
  <2>1. \A i \in (1 + q)..m : r.msgs[i] \in Msgs
    BY <1>5
  <2>2. /\ SubSeq(r.msgs, 1 + q, m) \in Seq(Msgs)
        /\ Len(SubSeq(r.msgs, 1 + q, m)) = IF 1 + q <= m THEN m - (1 + q) + 1 ELSE 0
        /\ \A i \in 1..(m - (1 + q) + 1) : SubSeq(r.msgs, 1 + q, m)[i] = r.msgs[1 + q + i - 1]
    BY <2>1, SubSeqProperties
  <2>3. m - (1 + q) + 1 = m - q /\ \A i \in 1..(m - q) : 1 + q + i - 1 = q + i
    OBVIOUS
  <2>4. Len(SubSeq(r.msgs, 1 + q, m)) = m - q
    BY <2>2
  <2>5. \A i \in 1..(m - q) : SubSeq(r.msgs, 1 + q, m)[i] = r.msgs[q + i]
    BY <2>2, <2>3
  <2> QED
    BY <2>2, <2>4, <2>5, <1>9
<1>11. \A i \in 1..(m - q) : s.msgs[i] = a[all - (m - q) + i]
  <2> SUFFICES ASSUME NEW i \in 1..(m - q) PROVE s.msgs[i] = a[all - (m - q) + i]
    OBVIOUS
  <2>1. q + i \in 1..m
    OBVIOUS
  <2>2. base + (q + i) = all - (m - q) + i
    BY <1>3
  <2> QED
    BY <2>1, <2>2, <1>5, <1>10
<1>12. /\ Len(Bytes(r, k)) = k /\ Bytes(r, k) \in Seq(Msgs \X Nat)
       /\ \A i \in 1..k : Bytes(r, k)[i] =
             <<a[1 + ((outs + i - 1) \div len)], (outs + i - 1) % len>>
  <2>1. ASSUME NEW i \in 1..k
        PROVE  /\ r.msgs[1 + ((st + i - 1) \div len)] \in Msgs
               /\ r.msgs[1 + ((st + i - 1) \div len)] = a[1 + ((outs + i - 1) \div len)]
               /\ (st + i - 1) % len = (outs + i - 1) % len
               /\ (st + i - 1) % len \in Nat
    <3>1. PICK x \in Nat : x = st + i - 1 /\ x < p
      BY <1>6
    <3>2. x \div len < m /\ x \div len \in Nat /\ x % len \in Nat
      <4>1. m * len \in Nat
        OBVIOUS
      <4>2. x < m * len
        BY <4>1, <3>1, <1>6
      <4>3. x \div len < m
        BY <4>2, CutWithin
      <4>4. x \div len \in Nat /\ x % len \in 0..(len - 1)
        BY Cut
      <4> QED
        BY <4>3, <4>4
    <3>3. (base * len + x) \div len = base + (x \div len) /\ (base * len + x) % len = x % len
      BY CutAnywhere
    <3>4. PICK y \in Nat : y = x \div len /\ y < m
      BY <3>2
    <3>5. base * len + x = outs + i - 1
      <4>1. base * len \in Nat
        OBVIOUS
      <4> QED
        BY <4>1, <3>1, <1>5
    <3>6. 1 + y \in 1..m
      BY <3>4
    <3>7. r.msgs[1 + y] = a[base + (1 + y)] /\ r.msgs[1 + y] \in Msgs
      BY <3>6, <1>5
    <3>8. base + (1 + y) = 1 + (base + y)
      OBVIOUS
    <3> QED
      BY <3>1, <3>2, <3>3, <3>4, <3>5, <3>7, <3>8
  <2>2. Bytes(r, k) = [i \in 1..k |-> <<r.msgs[1 + ((st + i - 1) \div len)], (st + i - 1) % len>>]
    BY <1>1, <1>4 DEF Bytes
  <2>3. Bytes(r, k) \in [1..k -> Msgs \X Nat]
    <3>1. \A i \in 1..k : <<r.msgs[1 + ((st + i - 1) \div len)], (st + i - 1) % len>> \in Msgs \X Nat
      BY <2>1
    <3> QED
      BY <3>1, <2>2
  <2>4. Bytes(r, k) \in Seq(Msgs \X Nat)
    BY <2>3, <1>6, SeqDef
  <2>5. Len(Bytes(r, k)) = k
    BY <2>3, <2>4, <1>6, LenProperties
  <2> QED
    BY <2>1, <2>2, <2>4, <2>5
<1> DEFINE b == Bytes(r, k)
<1> HIDE DEF b
<1>13. /\ s.out \in Seq(Msgs \X Nat) /\ Len(s.out) = outs + k
       /\ \A j \in 1..(outs + k) : s.out[j] = <<a[1 + ((j - 1) \div len)], (j - 1) % len>>
  <2>0. /\ b \in Seq(Msgs \X Nat) /\ Len(b) = k /\ s.out = r.out \o b
        /\ \A i \in 1..k : b[i] = <<a[1 + ((outs + i - 1) \div len)], (outs + i - 1) % len>>
    BY <1>9, <1>12 DEF b
  <2>1. /\ r.out \o b \in Seq(Msgs \X Nat)
        /\ Len(r.out \o b) = Len(r.out) + Len(b)
        /\ \A j \in 1..(Len(r.out) + Len(b)) : (r.out \o b)[j] =
              IF j <= Len(r.out) THEN r.out[j] ELSE b[j - Len(r.out)]
    <3>1. PICK T : T = Msgs \X Nat
      OBVIOUS
    <3>2. r.out \in Seq(T) /\ b \in Seq(T)
      BY <2>0, <1>5, <3>1
    <3>3. \A x, y \in Seq(T) :
             /\ x \o y \in Seq(T)
             /\ Len(x \o y) = Len(x) + Len(y)
             /\ \A j \in 1..(Len(x) + Len(y)) : (x \o y)[j] = IF j <= Len(x) THEN x[j] ELSE y[j - Len(x)]
      BY ConcatProperties
    <3> QED
      BY <3>1, <3>2, <3>3
  <2>2. /\ s.out \in Seq(Msgs \X Nat) /\ Len(s.out) = outs + k
        /\ \A j \in 1..(outs + k) : s.out[j] = IF j <= outs THEN r.out[j] ELSE b[j - outs]
    BY <2>0, <2>1, <1>2
  <2>3. ASSUME NEW j \in 1..(outs + k)
        PROVE  s.out[j] = <<a[1 + ((j - 1) \div len)], (j - 1) % len>>
    <3>1. CASE j > outs
      <4>1. PICK i \in 1..k : i = j - outs
        BY <3>1, <1>6
      <4>2. s.out[j] = b[i]
        BY <3>1, <4>1, <2>2
      <4>3. outs + i - 1 = j - 1
        BY <4>1
      <4> QED
        BY <4>2, <4>3, <2>0
    <3>2. CASE j <= outs
      <4>1. j \in 1..outs
        BY <3>2, <1>6
      <4> QED
        BY <4>1, <3>2, <2>2, <1>5
    <3>3. j \in Int
      BY <1>6
    <3> QED
      BY <3>1, <3>2, <3>3
  <2> QED
    BY <2>2, <2>3
<1>14. outs + k = (all - (m - q)) * len + rem
  <2>1. all - (m - q) = base + q
    BY <1>3
  <2>2. (base + q) * len = base * len + q * len
    BY Products
  <2>3. PICK u \in Nat, v \in Nat : u = base * len /\ v = q * len
    OBVIOUS
  <2>4. outs = u + st /\ st + k = v + rem
    BY <2>3, <1>5, <1>6, <1>7
  <2>5. outs + k = u + v + rem
    BY <2>4, <1>6
  <2> QED
    BY <2>1, <2>2, <2>3, <2>5
<1>15. s.msgs = <<>> => s.start = 0
  BY <1>7, <1>9, <1>10, EmptySeq
<1>16. r.msgs = <<>> => s.msgs = <<>>
  <2>1. SUFFICES ASSUME r.msgs = <<>> PROVE s.msgs = <<>>
    OBVIOUS
  <2>2. m = 0
    BY <2>1, <1>2, EmptySeq
  <2>3. q = 0
    BY <2>2
  <2>4. Len(s.msgs) = 0
    BY <2>2, <2>3, <1>10
  <2> QED
    BY <2>4, <1>10, EmptySeq
<1>17. Sent(s, a)
  <2>1. s.start \in 0..(MsgLen - 1)
    BY <1>1, <1>7, <1>9
  <2>2. m - q <= all
    BY <1>2
  <2> QED
    BY <2>1, <2>2, <1>1, <1>2, <1>5, <1>9, <1>10, <1>11, <1>13, <1>14, <1>15 DEF Sent
<1> QED
  BY <1>8, <1>9, <1>16, <1>17

LEMMA Outcomes ==
  ASSUME NEW r, Unsent(r) \in Int, NEW o \in SendOutcomes(r)
  PROVE  o[1] \in 0..Unsent(r) /\ o[2] \in BOOLEAN
<1>1. CASE o \in {<<k, FALSE>> : k \in 0..Unsent(r)}
  <2>1. PICK k \in 0..Unsent(r) : o = <<k, FALSE>>
    BY <1>1
  <2> QED
    BY <2>1
<1>2. CASE o \in {<<k, TRUE>> : k \in {j \in 0..(Unsent(r) - 1) : (r.start + j) % MsgLen = 0 \/ j = 0}}
  <2>1. PICK k \in 0..(Unsent(r) - 1) : o = <<k, TRUE>>
    BY <1>2
  <2>2. o[1] = k /\ o[2] = TRUE
    BY <2>1
  <2>3. k \in 0..Unsent(r)
    BY Unsent(r) \in Int
  <2> QED
    BY <2>2, <2>3
<1> QED
  BY <1>1, <1>2 DEF SendOutcomes

\* do_send asks for the rest to be sent, unless the connection is to be deleted.
Fits(t, a, r) == IsRec(t) /\ Sent(t, a) /\ Wired(t) /\ Same(t, r)
Done(d, a, r) == /\ Fits(d.r, a, r) /\ d.ret \in {-2, -1, 0}
                 /\ d.ret = 0 \/ ~r.thr => Watched(d.r)

LEMMA UnsentIsInt == ASSUME NEW r, NEW a, Sent(r, a) PROVE Unsent(r) \in Int
<1>1. Len(r.msgs) \in Nat /\ r.start \in Int /\ MsgLen \in Nat
  BY LenProperties, NetConstants DEF Sent
<1>2. Len(r.msgs) * MsgLen \in Nat
  BY <1>1
<1> QED
  BY <1>1, <1>2 DEF Unsent

LEMMA DoSendKeeps ==
  ASSUME NEW r, NEW a, IsRec(r), Sent(r, a), Wired(r), NEW o \in SendOutcomes(r)
  PROVE  Done(DoSend(r, o[1], o[2]), a, r)
<1>1. PICK k, err : k = o[1] /\ err = o[2] /\ k \in 0..Unsent(r) /\ err \in BOOLEAN
  BY Outcomes, UnsentIsInt
<1>2. PICK s : s = AfterSend(r, k)
  OBVIOUS
<1>3. /\ IsRec(s) /\ Sent(s, a) /\ Same(s, r) /\ s.noti = r.noti /\ s.epoll = r.epoll
      /\ Wired(s)
  BY <1>1, <1>2, AfterSendKeeps DEF Wired, Same
<1>4. ASSUME NEW bits, "R" \in bits, bits = s.noti \cup {"W"} \/ (bits = s.noti \ {"W"} /\ s.msgs = <<>>), s.thr
      PROVE  Fits(ConSetNotify(s, bits), a, r) /\ Watched(ConSetNotify(s, bits))
  <3>1. s.life = "live" /\ "R" \in s.noti /\ s.epoll = s.noti
    BY <1>3, <1>4 DEF Wired
  <3>2. SetNotify(s, bits) = [s EXCEPT !.epoll = bits]
    <4>1. bits # {} /\ s.epoll # {}
      BY <1>4, <3>1
    <4> QED
      BY <3>1, <4>1 DEF SetNotify
  <3>3. ConSetNotify(s, bits) = [s EXCEPT !.epoll = bits, !.noti = bits]
    BY <1>4, <3>2, <1>3 DEF ConSetNotify, IsRec, Fields, NewCon
  <3>4. PICK t : t = ConSetNotify(s, bits)
    OBVIOUS
  <3>5. /\ IsRec(t) /\ t.epoll = bits /\ t.noti = bits /\ Same(t, s)
        /\ t.msgs = s.msgs /\ t.out = s.out /\ t.start = s.start
    BY <3>3, <3>4, <1>3 DEF IsRec, Fields, NewCon, Same
  <3>6. Sent(t, a)
    BY <3>5, <1>3 DEF Sent
  <3>7. Watched(t)
    <4>1. t.life = "live" /\ t.thr /\ t.thr \in BOOLEAN
      BY <3>5, <3>1, <1>4, <1>3 DEF Same, Wired
    <4>2. t.msgs # <<>> => "W" \in t.noti
      BY <3>5, <1>4
    <4> QED
      BY <4>1, <4>2, <3>5, <1>4 DEF Watched, Wired
  <3> QED
    BY <3>4, <3>5, <3>6, <3>7, <1>3 DEF Same, Fits, Watched
<1>5. ~s.thr => Watched(s)
  BY <1>3 DEF Watched
<1>6. s.thr => "R" \in s.noti
  BY <1>3 DEF Wired
<1>7. s.thr = r.thr /\ Fits(s, a, r)
  BY <1>3 DEF Same, Fits
<1>8. PICK d : d = DoSend(r, k, err)
  OBVIOUS
<1> SUFFICES Done(d, a, r)
  BY <1>1, <1>8
<1>9. CASE err
  <2>1. d.r = s /\ d.ret = -1
    BY <1>2, <1>8, <1>9 DEF DoSend
  <2> QED
    BY <2>1, <1>5, <1>7 DEF Done
<1>10. CASE ~err /\ s.msgs # <<>>
  <2>1. d.r = (IF "W" \in s.noti THEN s ELSE ConSetNotify(s, s.noti \cup {"W"})) /\ d.ret = 0
    BY <1>2, <1>8, <1>10 DEF DoSend
  <2>2. CASE "W" \in s.noti
    BY <2>1, <2>2, <1>3, <1>7 DEF Watched, Done
  <2>3. CASE "W" \notin s.noti /\ s.thr
    BY <2>1, <2>3, <1>4, <1>6 DEF Done
  <2>4. CASE "W" \notin s.noti /\ ~s.thr
    BY <2>1, <2>4, <1>5, <1>7 DEF ConSetNotify, Done
  <2> QED
    BY <2>2, <2>3, <2>4
<1>11. CASE ~err /\ s.msgs = <<>> /\ s.flag
  <2>1. d.r = s /\ d.ret = -2
    BY <1>2, <1>8, <1>11 DEF DoSend
  <2> QED
    BY <2>1, <1>5, <1>7 DEF Done
<1>12. CASE ~err /\ s.msgs = <<>> /\ ~s.flag
  <2>1. d.r = (IF "W" \in s.noti THEN ConSetNotify(s, s.noti \ {"W"}) ELSE s) /\ d.ret = 0
    BY <1>2, <1>8, <1>12 DEF DoSend
  <2>2. CASE "W" \notin s.noti
    BY <2>1, <2>2, <1>3, <1>7, <1>12 DEF Watched, Done
  <2>3. CASE "W" \in s.noti /\ s.thr
    BY <2>1, <2>3, <1>4, <1>6, <1>12 DEF Done
  <2>4. CASE "W" \in s.noti /\ ~s.thr
    BY <2>1, <2>4, <1>5, <1>7 DEF ConSetNotify, Done
  <2> QED
    BY <2>2, <2>3, <2>4
<1> QED
  BY <1>1, <1>9, <1>10, <1>11, <1>12

\* A message is accepted at the end.
LEMMA AppendKeeps ==
  ASSUME NEW r, NEW a, IsRec(r), Sent(r, a), NEW m \in Msgs
  PROVE  LET s == [r EXCEPT !.msgs = Append(@, m)]
         IN IsRec(s) /\ Sent(s, Append(a, m)) /\ Same(s, r) /\ (Wired(r) => Wired(s))
<1>1. PICK n \in Nat, all \in Nat : n = Len(r.msgs) /\ all = Len(a) /\ n <= all
  BY LenProperties DEF Sent
<1>2. PICK s : s = [r EXCEPT !.msgs = Append(@, m)]
  OBVIOUS
<1>3. /\ IsRec(s) /\ Same(s, r) /\ s.msgs = Append(r.msgs, m) /\ s.start = r.start /\ s.out = r.out
      /\ s.noti = r.noti /\ s.epoll = r.epoll
  BY <1>2 DEF IsRec, Fields, NewCon, Same
<1>4. r.msgs \in Seq(Msgs) /\ a \in Seq(Msgs)
  BY DEF Sent
<1>5. /\ s.msgs \in Seq(Msgs) /\ Len(s.msgs) = n + 1
      /\ \A i \in 1..n : s.msgs[i] = r.msgs[i]
      /\ s.msgs[n + 1] = m
  BY <1>1, <1>3, <1>4, AppendProperties
<1>6. PICK b : b = Append(a, m)
  OBVIOUS
<1>7. /\ b \in Seq(Msgs) /\ Len(b) = all + 1
      /\ \A i \in 1..all : b[i] = a[i]
      /\ b[all + 1] = m
  BY <1>1, <1>4, <1>6, AppendProperties
<1>8. \A i \in 1..(n + 1) : s.msgs[i] = b[all + 1 - (n + 1) + i]
  <2> SUFFICES ASSUME NEW i \in 1..(n + 1) PROVE s.msgs[i] = b[all + 1 - (n + 1) + i]
    OBVIOUS
  <2>1. CASE i = n + 1
    <3>1. all + 1 - (n + 1) + i = all + 1
      BY <2>1
    <3> QED
      BY <2>1, <3>1, <1>5, <1>7
  <2>2. CASE i \in 1..n
    <3>1. PICK j \in 1..all : j = all - n + i /\ j = all + 1 - (n + 1) + i
      BY <2>2, <1>1
    <3>2. r.msgs[i] = a[j]
      BY <2>2, <3>1, <1>1 DEF Sent
    <3> QED
      BY <2>2, <3>1, <3>2, <1>5, <1>7
  <2> QED
    BY <2>1, <2>2
<1>9. \A j \in 1..Len(r.out) : r.out[j] = <<b[1 + ((j - 1) \div MsgLen)], (j - 1) % MsgLen>>
  <2> SUFFICES ASSUME NEW j \in 1..Len(r.out)
               PROVE  r.out[j] = <<b[1 + ((j - 1) \div MsgLen)], (j - 1) % MsgLen>>
    OBVIOUS
  <2>1. r.out[j] = <<a[1 + ((j - 1) \div MsgLen)], (j - 1) % MsgLen>>
    BY DEF Sent
  <2>a. PICK len \in Nat \ {0} : len = MsgLen
    BY NetConstants
  <2>b. PICK st \in 0..(len - 1) : st = r.start
    BY <2>a DEF Sent
  <2>c. PICK base \in Nat : base = all - n
    <3>1. all - n \in Nat
      BY <1>1
    <3> QED
      BY <3>1
  <2>2. len = MsgLen /\ st = r.start /\ st < len /\ base = all - n
    BY <2>a, <2>b, <2>c
  <2>3. PICK x \in Nat : x = j - 1 /\ x < base * len + st
    <3>1. Len(r.out) = base * len + st
      BY <1>1, <2>2 DEF Sent
    <3>2. base * len \in Nat
      OBVIOUS
    <3> QED
      BY <3>1, <3>2
  <2>4. (x \div len) \in Nat /\ (x \div len) < all
    <3>1. x \div len \in Nat
      BY Cut
    <3>2. CASE n = 0
      <4>1. r.msgs = <<>>
        BY <3>2, <1>1, EmptySeq DEF Sent
      <4>2. st = 0
        BY <4>1, <2>2 DEF Sent
      <4>3. base = all
        BY <3>2, <2>2
      <4>4. base * len \in Nat
        OBVIOUS
      <4>5. x < all * len
        BY <4>2, <4>3, <4>4, <2>3
      <4> QED
        BY <4>5, CutWithin, <3>1
    <3>3. CASE n # 0
      <4>1. base + 1 <= all
        BY <3>3, <2>2
      <4>2. (base + 1) * len = base * len + len
        BY Products
      <4>3. base * len \in Nat
        OBVIOUS
      <4>4. x < (base + 1) * len
        <5>1. PICK u \in Nat : u = base * len
          BY <4>3
        <5>2. x < u + st
          BY <5>1, <2>3
        <5>3. x < u + len
          BY <5>2, <2>2
        <5> QED
          BY <4>2, <5>1, <5>3
      <4>5. base + 1 \in Nat /\ x <= (base + 1) * len
        <5>1. PICK u \in Nat : u = base * len
          BY <4>3
        <5>2. (base + 1) * len = u + len
          BY <4>2, <5>1
        <5> QED
          BY <4>4, <5>2
      <4>6. (x \div len) < base + 1
        BY <4>4, <4>5, CutWithin
      <4> QED
        BY <4>1, <4>6, <3>1
    <3> QED
      BY <3>2, <3>3
  <2>5. 1 + (x \div len) \in 1..all
    BY <2>4
  <2>6. b[1 + (x \div len)] = a[1 + (x \div len)]
    BY <2>5, <1>7
  <2> QED
    BY <2>1, <2>2, <2>3, <2>6
<1>10. Len(r.out) = (all + 1 - (n + 1)) * MsgLen + r.start
  <2>1. all + 1 - (n + 1) = all - n
    OBVIOUS
  <2> QED
    BY <2>1, <1>1 DEF Sent
<1>11. Sent(s, b)
  <2>1. s.msgs # <<>>
    BY <1>5, EmptySeq
  <2>2. /\ r.out \in Seq(Msgs \X Nat) /\ r.start \in 0..(MsgLen - 1)
    BY DEF Sent
  <2>3. Len(s.out) = (Len(b) - Len(s.msgs)) * MsgLen + s.start
    BY <1>3, <1>5, <1>7, <1>10
  <2>4. \A i \in 1..Len(s.msgs) : s.msgs[i] = b[Len(b) - Len(s.msgs) + i]
    BY <1>5, <1>7, <1>8
  <2>5. Len(s.msgs) <= Len(b)
    BY <1>1, <1>5, <1>7
  <2> QED
    BY <2>1, <2>2, <2>3, <2>4, <2>5, <1>3, <1>5, <1>7, <1>9 DEF Sent
<1>12. Wired(r) => Wired(s)
  BY <1>3 DEF Wired, Same
<1> QED
  BY <1>2, <1>3, <1>6, <1>11, <1>12

-----------------------------------------------------------------------------
(* The tables of the loop *)

Shape(n) == /\ n = [f \in {"con", "map", "timers", "threadTimers"} |-> n[f]]
            /\ n.con = [c \in Conns |-> n.con[c]]
            /\ n.map = [i \in DOMAIN n.map |-> n.map[i]]
            /\ \A c \in Conns : IsRec(n.con[c])

Tied(n) ==
    /\ \A i \in DOMAIN n.map : i \in Nat /\ n.map[i] \in Conns
    /\ \A i \in DOMAIN n.map : n.con[n.map[i]].thr /\ n.con[n.map[i]].id = i
    /\ \A k \in DOMAIN n.timers : n.timers[k] \in Conns =>
          /\ n.con[n.timers[k]].thr
          /\ \E tm \in n.con[n.timers[k]].timers : k = TimerKey(n, n.timers[k], tm)

SameMade(n, g) == \A d \in Conns : g.con[d].life = "none" <=> n.con[d].life = "none"
SameOthers(n, g, c) == \A d \in Conns \ {c} : g.con[d] = n.con[d]

LEMMA SetConTied ==
  ASSUME NEW n, Shape(n), NEW c \in Conns, NEW r, IsRec(r)
  PROVE  /\ Shape(SetCon(n, c, r)) /\ SetCon(n, c, r).con[c] = r
         /\ SameOthers(n, SetCon(n, c, r), c)
         /\ SetCon(n, c, r).map = n.map /\ SetCon(n, c, r).timers = n.timers
         /\ Tied(n) /\ Same(r, n.con[c]) => Tied(SetCon(n, c, r))
<1>1. PICK g : g = SetCon(n, c, r)
  OBVIOUS
<1>2. /\ g.con = [n.con EXCEPT ![c] = r] /\ g.map = n.map /\ g.timers = n.timers
      /\ g = [f \in {"con", "map", "timers", "threadTimers"} |-> g[f]]
  BY <1>1 DEF SetCon, Shape
<1>3. g.con[c] = r /\ SameOthers(n, g, c) /\ g.con = [d \in Conns |-> g.con[d]]
  BY <1>2 DEF Shape, SameOthers
<1>4. Shape(g)
  BY <1>2, <1>3 DEF Shape, SameOthers
<1>5. ASSUME Tied(n), Same(r, n.con[c]) PROVE Tied(g)
  <2>1. \A d \in Conns : Same(g.con[d], n.con[d])
    BY <1>3, <1>5 DEF SameOthers, Same
  <2>2. \A d \in Conns : \A tm : TimerKey(g, d, tm) = TimerKey(n, d, tm)
    BY <2>1 DEF TimerKey, Con, Same
  <2>3. \A k \in DOMAIN g.timers : g.timers[k] \in Conns =>
          /\ g.con[g.timers[k]].thr
          /\ \E tm \in g.con[g.timers[k]].timers : k = TimerKey(g, g.timers[k], tm)
    BY <1>2, <1>5, <2>1, <2>2 DEF Tied, Same
  <2> QED
    BY <1>2, <1>5, <2>1, <2>3 DEF Tied, Same
<1> QED
  BY <1>1, <1>2, <1>3, <1>4, <1>5

\* Entries may be taken from the tables.
Fewer(n, S, T) == [n EXCEPT !.map = Restrict(n.map, DOMAIN n.map \ S),
                            !.timers = Restrict(n.timers, DOMAIN n.timers \ T)]

LEMMA FewerTied ==
  ASSUME NEW n, Shape(n), Tied(n), NEW S, NEW T
  PROVE  Shape(Fewer(n, S, T)) /\ Tied(Fewer(n, S, T)) /\ Fewer(n, S, T).con = n.con
<1>1. PICK g : g = Fewer(n, S, T)
  OBVIOUS
<1>2. PICK map, timers : map = Restrict(n.map, DOMAIN n.map \ S) /\ timers = Restrict(n.timers, DOMAIN n.timers \ T)
  OBVIOUS
<1>3. g = [n EXCEPT !.map = map, !.timers = timers]
  BY <1>1, <1>2 DEF Fewer
<1>4. /\ g.con = n.con /\ g = [f \in {"con", "map", "timers", "threadTimers"} |-> g[f]]
      /\ g.map = map /\ g.timers = timers
  BY <1>3 DEF Shape
<1>5. /\ DOMAIN g.map \subseteq DOMAIN n.map /\ \A i \in DOMAIN g.map : g.map[i] = n.map[i]
      /\ DOMAIN g.timers \subseteq DOMAIN n.timers /\ \A k \in DOMAIN g.timers : g.timers[k] = n.timers[k]
      /\ g.map = [i \in DOMAIN g.map |-> g.map[i]]
  BY <1>2, <1>4 DEF Restrict
<1>6. Shape(g)
  BY <1>4, <1>5 DEF Shape
<1>7. \A d, tm : TimerKey(g, d, tm) = TimerKey(n, d, tm)
  BY <1>4 DEF TimerKey, Con
<1>8. \A k \in DOMAIN g.timers : g.timers[k] \in Conns =>
          /\ g.con[g.timers[k]].thr
          /\ \E tm \in g.con[g.timers[k]].timers : k = TimerKey(g, g.timers[k], tm)
  BY <1>4, <1>5, <1>7 DEF Tied
<1>9. Tied(g)
  BY <1>4, <1>5, <1>8 DEF Tied
<1> QED
  BY <1>1, <1>4, <1>6, <1>9

\* Detaching a connection leaves no entry of it.
LEMMA DetachTied ==
  ASSUME NEW n, Shape(n), Tied(n), NEW c \in Conns
  PROVE  /\ Shape(Detach(n, c)) /\ Tied(Detach(n, c)) /\ SameOthers(n, Detach(n, c), c)
         /\ Detach(n, c).con[c] = [n.con[c] EXCEPT !.timers = {}, !.thr = FALSE]
<1>1. PICK S, T : S = {n.con[c].id} /\ T = {TimerKey(n, c, tm) : tm \in n.con[c].timers}
  OBVIOUS
<1>2. PICK g : g = Fewer(n, S, T)
  OBVIOUS
<1>3. Shape(g) /\ Tied(g) /\ g.con = n.con
  BY <1>2, FewerTied
<1>4. /\ g.map = Restrict(n.map, DOMAIN n.map \ S) /\ g.timers = Restrict(n.timers, DOMAIN n.timers \ T)
  BY <1>2 DEF Shape, Fewer
<1>5. DelConnection(DelTimers(n, c), c) = g
  <2>1. DelTimers(n, c) = [n EXCEPT !.timers = Restrict(@, DOMAIN @ \ T)]
    BY <1>1 DEF DelTimers, Con
  <2>2. DelTimers(n, c).con = n.con /\ DelTimers(n, c).map = n.map
    BY <2>1 DEF Shape
  <2> QED
    BY <1>1, <1>2, <2>1, <2>2 DEF DelConnection, Con, Shape, Fewer
<1>6. PICK h : h = Detach(n, c)
  OBVIOUS
<1>7. h = [g EXCEPT !.con[c].timers = {}, !.con[c].thr = FALSE]
  BY <1>5, <1>6 DEF Detach
<1>8. h = SetCon(g, c, [n.con[c] EXCEPT !.timers = {}, !.thr = FALSE])
  BY <1>3, <1>7 DEF SetCon, Shape
<1>9. PICK r : r = [n.con[c] EXCEPT !.timers = {}, !.thr = FALSE]
  OBVIOUS
<1>10. IsRec(r) /\ r.id = n.con[c].id
  BY <1>9 DEF IsRec, Shape, Fields, NewCon
<1>11. Shape(h) /\ h.con[c] = r /\ SameOthers(g, h, c) /\ h.map = g.map /\ h.timers = g.timers
  BY <1>3, <1>8, <1>9, <1>10, SetConTied
<1>12. \A i \in DOMAIN h.map : h.map[i] # c
  <2> SUFFICES ASSUME NEW i \in DOMAIN h.map, h.map[i] = c PROVE FALSE
    OBVIOUS
  <2>1. i \in DOMAIN n.map /\ i \notin S /\ n.map[i] = c
    BY <1>4, <1>11 DEF Restrict
  <2> QED
    BY <2>1, <1>1 DEF Tied
<1>13. \A k \in DOMAIN h.timers : h.timers[k] # c
  <2> SUFFICES ASSUME NEW k \in DOMAIN h.timers, h.timers[k] = c PROVE FALSE
    OBVIOUS
  <2>1. k \in DOMAIN n.timers /\ k \notin T /\ n.timers[k] = c
    BY <1>4, <1>11 DEF Restrict
  <2> QED
    BY <2>1, <1>1 DEF Tied
<1>14. \A d \in Conns \ {c} : h.con[d] = g.con[d] /\ \A tm : TimerKey(h, d, tm) = TimerKey(g, d, tm)
  BY <1>11 DEF SameOthers, TimerKey, Con
<1>15. Tied(h)
  <2>1. \A i \in DOMAIN h.map : i \in Nat /\ h.map[i] \in Conns /\ h.con[h.map[i]].thr /\ h.con[h.map[i]].id = i
    BY <1>3, <1>11, <1>12, <1>14 DEF Tied
  <2>2. ASSUME NEW k \in DOMAIN h.timers, h.timers[k] \in Conns
        PROVE  /\ h.con[h.timers[k]].thr
               /\ \E tm \in h.con[h.timers[k]].timers : k = TimerKey(h, h.timers[k], tm)
    <3>1. PICK d \in Conns \ {c} : d = g.timers[k] /\ d = h.timers[k] /\ k \in DOMAIN g.timers
      BY <2>2, <1>11, <1>13
    <3>2. g.con[d].thr /\ \E tm \in g.con[d].timers : k = TimerKey(g, d, tm)
      <4>1. \A x \in DOMAIN g.timers : g.timers[x] \in Conns =>
              g.con[g.timers[x]].thr /\ \E tm \in g.con[g.timers[x]].timers : x = TimerKey(g, g.timers[x], tm)
        BY <1>3 DEF Tied
      <4> QED
        BY <3>1, <4>1
    <3> QED
      BY <3>1, <3>2, <1>14
  <2> QED
    BY <2>1, <2>2 DEF Tied
<1> QED
  BY <1>3, <1>6, <1>9, <1>11, <1>15 DEF SameOthers

\* A connection that is in no table may change as it likes.
LEMMA SetConFree ==
  ASSUME NEW n, Shape(n), Tied(n), NEW c \in Conns, ~n.con[c].thr, NEW r, IsRec(r)
  PROVE  Tied(SetCon(n, c, r))
<1>1. PICK g : g = SetCon(n, c, r)
  OBVIOUS
<1>2. g.con[c] = r /\ SameOthers(n, g, c) /\ g.map = n.map /\ g.timers = n.timers
  BY <1>1, SetConTied
<1>3. \A d \in Conns \ {c} : g.con[d] = n.con[d] /\ \A tm : TimerKey(g, d, tm) = TimerKey(n, d, tm)
  BY <1>2 DEF SameOthers, TimerKey, Con
<1>4. /\ \A i \in DOMAIN n.map : n.map[i] # c
      /\ \A k \in DOMAIN n.timers : n.timers[k] # c
  BY DEF Tied
<1>5. \A i \in DOMAIN g.map : i \in Nat /\ g.map[i] \in Conns /\ g.con[g.map[i]].thr /\ g.con[g.map[i]].id = i
  BY <1>2, <1>3, <1>4 DEF Tied
<1>6. ASSUME NEW k \in DOMAIN g.timers, g.timers[k] \in Conns
      PROVE  /\ g.con[g.timers[k]].thr
             /\ \E tm \in g.con[g.timers[k]].timers : k = TimerKey(g, g.timers[k], tm)
  <2>1. PICK d \in Conns \ {c} : d = n.timers[k] /\ d = g.timers[k] /\ k \in DOMAIN n.timers
    BY <1>2, <1>4, <1>6
  <2>2. n.con[d].thr /\ \E tm \in n.con[d].timers : k = TimerKey(n, d, tm)
    <3>1. \A x \in DOMAIN n.timers : n.timers[x] \in Conns =>
            n.con[n.timers[x]].thr /\ \E tm \in n.con[n.timers[x]].timers : x = TimerKey(n, n.timers[x], tm)
      BY DEF Tied
    <3> QED
      BY <2>1, <3>1
  <2> QED
    BY <2>1, <2>2, <1>3
<1> QED
  BY <1>1, <1>5, <1>6 DEF Tied

Tables(n, acc) == Shape(n) /\ Tied(n) /\ \A c \in Conns : Good(n.con[c], acc[c])

\* All but c is as it should be, and c may want to be watched for writing.
Loose(n, acc, c) == /\ Shape(n) /\ Tied(n)
                    /\ \A d \in Conns \ {c} : Good(n.con[d], acc[d])
                    /\ Sent(n.con[c], acc[c]) /\ Wired(n.con[c]) /\ n.con[c].life # "none"

\* A connection that is recycled leaves the tables and the epoll set.
LEMMA RecycleKeeps ==
  ASSUME NEW n, NEW acc, NEW c \in Conns, Loose(n, acc, c)
  PROVE  Tables(Recycle(n, c), acc) /\ SameMade(n, Recycle(n, c))
<1>1. PICK r : r = n.con[c] /\ IsRec(r)
  BY DEF Loose, Shape
<1>2. PICK x : x = IF r.noti # {} THEN SetNotify(r, {}) ELSE r
  OBVIOUS
<1>3. PICK m : m = SetCon(n, c, x)
  OBVIOUS
<1>4. PICK gone : gone = IF r.thr THEN Detach(m, c) ELSE n
  OBVIOUS
<1>5. Recycle(n, c) = SetCon(gone, c, Freed(gone.con[c]))
  BY <1>1, <1>2, <1>3, <1>4 DEF Recycle, Con
<1>6. /\ Shape(gone) /\ Tied(gone) /\ SameOthers(n, gone, c) /\ IsRec(gone.con[c])
      /\ gone.con[c].thr = FALSE
      /\ gone.con[c].msgs = r.msgs /\ gone.con[c].out = r.out /\ gone.con[c].start = r.start
  <2>1. CASE r.thr
    <3>1. IsRec(x) /\ Same(x, r) /\ x.msgs = r.msgs /\ x.out = r.out /\ x.start = r.start
      BY <1>1, <1>2 DEF SetNotify, IsRec, Fields, NewCon, Same
    <3>2. Shape(m) /\ Tied(m) /\ m.con[c] = x /\ SameOthers(n, m, c)
      BY <1>1, <1>3, <3>1, SetConTied DEF Loose
    <3>3. /\ Shape(gone) /\ Tied(gone) /\ SameOthers(m, gone, c)
          /\ gone.con[c] = [x EXCEPT !.timers = {}, !.thr = FALSE]
      BY <2>1, <1>4, <3>2, DetachTied
    <3>4. /\ gone.con[c].msgs = x.msgs /\ gone.con[c].out = x.out /\ gone.con[c].start = x.start
          /\ gone.con[c].thr = FALSE
      BY <3>1, <3>3 DEF IsRec, Fields, NewCon
    <3> QED
      BY <3>1, <3>2, <3>3, <3>4 DEF SameOthers, Shape
  <2>2. CASE ~r.thr
    BY <2>2, <1>1, <1>4 DEF Loose, SameOthers, Wired
  <2> QED
    BY <2>1, <2>2
<1>7. PICK f : f = Freed(gone.con[c])
  OBVIOUS
<1>8. /\ IsRec(f) /\ f.life = "freed" /\ f.epoll = {} /\ f.thr = FALSE
      /\ f.msgs = r.msgs /\ f.out = r.out /\ f.start = r.start
  BY <1>6, <1>7 DEF Freed, IsRec, Fields, NewCon
<1>9. Good(f, acc[c])
  <2>1. Sent(f, acc[c])
    BY <1>1, <1>8 DEF Sent, Loose
  <2>2. Watched(f)
    BY <1>8 DEF Watched, Wired
  <2> QED
    BY <2>1, <2>2, <1>8 DEF Good
<1>10. PICK g : g = SetCon(gone, c, f)
  OBVIOUS
<1>11. Shape(g) /\ g.con[c] = f /\ SameOthers(gone, g, c)
  BY <1>6, <1>8, <1>10, SetConTied
<1>12. Tied(g)
  BY <1>6, <1>8, <1>10, SetConFree
<1>13. \A d \in Conns \ {c} : g.con[d] = n.con[d]
  BY <1>6, <1>11 DEF SameOthers
<1>14. Tables(g, acc)
  BY <1>9, <1>11, <1>12, <1>13 DEF Tables, Loose
<1>15. SameMade(n, g)
  BY <1>1, <1>8, <1>11, <1>13 DEF SameMade, Loose
<1> QED
  BY <1>5, <1>7, <1>10, <1>14, <1>15

\* What a callback does to something that is no connection changes none.
LEMMA RecycleOutside ==
  ASSUME NEW n, NEW acc, NEW c, c \notin Conns, Tables(n, acc)
  PROVE  Tables(Recycle(n, c), acc) /\ Recycle(n, c).con = n.con
<1>1. \A m, r : Shape(m) => SetCon(m, c, r) = m
  BY DEF SetCon, Shape
<1>2. PICK S, T : S = {n.con[c].id} /\ T = {TimerKey(n, c, tm) : tm \in n.con[c].timers}
  OBVIOUS
<1>3. PICK g : g = Fewer(n, S, T)
  OBVIOUS
<1>4. Shape(g) /\ Tied(g) /\ g.con = n.con
  BY <1>3, FewerTied DEF Tables
<1>5. Detach(n, c) = g
  <2>1. DelTimers(n, c) = [n EXCEPT !.timers = Restrict(@, DOMAIN @ \ T)]
    BY <1>2 DEF DelTimers, Con
  <2>2. DelTimers(n, c).con = n.con /\ DelTimers(n, c).map = n.map
    BY <2>1 DEF Shape, Tables
  <2>3. DelConnection(DelTimers(n, c), c) = g
    BY <1>2, <1>3, <2>1, <2>2 DEF DelConnection, Con, Shape, Fewer, Tables
  <2>4. [g EXCEPT !.con[c].timers = {}, !.con[c].thr = FALSE] = g
    BY <1>4 DEF Shape
  <2> QED
    BY <2>3, <2>4 DEF Detach
<1>6. Recycle(n, c) = IF Con(n, c).thr THEN g ELSE n
  BY <1>1, <1>4, <1>5 DEF Recycle, Tables
<1> QED
  BY <1>4, <1>6 DEF Tables

\* The same, with its key replaced in the timer map by one that names it.
LEMMA StartTimerKeeps ==
  ASSUME NEW n, NEW acc, NEW c, Tables(n, acc), c \in Conns => n.con[c].thr,
         NEW id, NEW t
  PROVE  Tables(StartTimer(n, c, id, t), acc) /\ SameMade(n, StartTimer(n, c, id, t))
<1>1. PICK tm : tm = [id |-> id, tv |-> ExpiryOf(t)]
  OBVIOUS
<1>2. PICK old : old = {x \in n.con[c].timers : x.id = id}
  OBVIOUS
<1>3. PICK keys : keys = {TimerKey(n, c, x) : x \in old}
  OBVIOUS
<1>4. PICK f : f = FindDelTimer(n, c, id)
  OBVIOUS
<1>5. PICK g : g = StartTimer(n, c, id, t)
  OBVIOUS
<1>6. f = [n EXCEPT !.con[c].timers = @ \ old, !.timers = Restrict(@, DOMAIN @ \ keys)]
  BY <1>2, <1>3, <1>4 DEF FindDelTimer, Con
<1>7. /\ f.con = [n.con EXCEPT ![c].timers = @ \ old] /\ f.map = n.map
      /\ f.timers = Restrict(n.timers, DOMAIN n.timers \ keys)
      /\ f = [x \in {"con", "map", "timers", "threadTimers"} |-> f[x]]
  BY <1>6 DEF Shape, Tables
<1>8. PICK key : key = TimerKey(f, c, tm)
  OBVIOUS
<1>9. /\ g.con = [f.con EXCEPT ![c].timers = @ \cup {tm}] /\ g.map = n.map
      /\ g.timers = Put(f.timers, key, c)
      /\ g = [x \in {"con", "map", "timers", "threadTimers"} |-> g[x]]
  <2>1. g = [AddTimer(f, c, tm) EXCEPT !.con[c].timers = @ \cup {tm}]
    BY <1>1, <1>4, <1>5 DEF StartTimer
  <2>2. AddTimer(f, c, tm) = [f EXCEPT !.timers = Put(f.timers, key, c)]
    BY <1>8 DEF AddTimer
  <2> QED
    BY <2>1, <2>2, <1>7
<1>10. /\ g.con = [d \in Conns |-> g.con[d]] /\ SameOthers(n, g, c)
       /\ c \in Conns => /\ g.con[c] = [n.con[c] EXCEPT !.timers = (@ \ old) \cup {tm}]
                         /\ f.con[c].id = n.con[c].id
  <2>1. n.con = [d \in Conns |-> n.con[d]]
    BY DEF Tables, Shape
  <2>2. f.con = [d \in Conns |-> f.con[d]] /\ g.con = [d \in Conns |-> g.con[d]]
    BY <2>1, <1>7, <1>9
  <2>3. SameOthers(n, g, c)
    BY <2>1, <2>2, <1>7, <1>9 DEF SameOthers
  <2>4. ASSUME c \in Conns
        PROVE  /\ g.con[c] = [n.con[c] EXCEPT !.timers = (@ \ old) \cup {tm}]
               /\ f.con[c].id = n.con[c].id
    <3>1. PICK r : r = n.con[c] /\ IsRec(r)
      BY <2>4 DEF Tables, Shape
    <3>2. PICK less, more : less = r.timers \ old /\ more = less \cup {tm}
      OBVIOUS
    <3>3. f.con[c] = [r EXCEPT !.timers = less]
      BY <2>1, <2>4, <3>1, <3>2, <1>7
    <3>4. f.con[c].timers = less /\ f.con[c].id = r.id /\ IsRec(f.con[c])
      BY <3>1, <3>3 DEF IsRec, Fields, NewCon
    <3>5. g.con[c] = [f.con[c] EXCEPT !.timers = more]
      BY <2>2, <2>4, <3>2, <3>4, <1>9
    <3>6. g.con[c] = [r EXCEPT !.timers = more]
      BY <3>1, <3>3, <3>5 DEF IsRec, Fields, NewCon
    <3> QED
      BY <3>1, <3>2, <3>4, <3>6
  <2> QED
    BY <2>2, <2>3, <2>4
<1>11. c \in Conns => /\ IsRec(g.con[c]) /\ Good(g.con[c], acc[c]) /\ g.con[c].timers = (n.con[c].timers \ old) \cup {tm}
                      /\ g.con[c].thr /\ g.con[c].id = n.con[c].id /\ g.con[c].life = n.con[c].life
  <2> SUFFICES ASSUME c \in Conns
               PROVE /\ IsRec(g.con[c]) /\ Good(g.con[c], acc[c]) /\ g.con[c].timers = (n.con[c].timers \ old) \cup {tm}
                     /\ g.con[c].thr /\ g.con[c].id = n.con[c].id /\ g.con[c].life = n.con[c].life
    OBVIOUS
  <2>1. PICK r, s : r = n.con[c] /\ s = g.con[c] /\ IsRec(r) /\ Good(r, acc[c]) /\ r.thr
    BY DEF Tables, Good
  <2>2. s = [r EXCEPT !.timers = (@ \ old) \cup {tm}]
    BY <2>1, <1>10
  <2>3. /\ IsRec(s) /\ s.timers = (r.timers \ old) \cup {tm} /\ s.thr = r.thr /\ s.id = r.id /\ s.life = r.life
        /\ s.msgs = r.msgs /\ s.out = r.out /\ s.start = r.start /\ s.noti = r.noti /\ s.epoll = r.epoll
    <3>1. PICK more : more = (r.timers \ old) \cup {tm}
      OBVIOUS
    <3>2. s = [r EXCEPT !.timers = more]
      BY <2>2, <3>1
    <3>3. IsRec(r)
      BY <2>1
    <3>4. IsRec(s) /\ s.timers = more
      BY <3>2, <3>3 DEF IsRec, Fields, NewCon
    <3>5. s.thr = r.thr /\ s.id = r.id /\ s.life = r.life
      BY <3>2, <3>3 DEF IsRec, Fields, NewCon
    <3>6. s.msgs = r.msgs /\ s.out = r.out /\ s.start = r.start /\ s.noti = r.noti /\ s.epoll = r.epoll
      BY <3>2, <3>3 DEF IsRec, Fields, NewCon
    <3> QED
      BY <3>1, <3>4, <3>5, <3>6
  <2>4. r.life = "live"
    BY <2>1 DEF Good, Watched, Wired
  <2>5. Good(s, acc[c])
    <3>1. Sent(s, acc[c])
      <4>1. Sent(r, acc[c])
        BY <2>1 DEF Good
      <4> QED
        BY <4>1, <2>3 DEF Sent
    <3>2. Watched(s)
      BY <2>1, <2>3 DEF Good, Watched, Wired
    <3> QED
      BY <2>3, <2>4, <3>1, <3>2 DEF Good
  <2> QED
    BY <2>1, <2>3, <2>5
<1>12. Shape(g) /\ \A d \in Conns : Good(g.con[d], acc[d])
  <2>1. g.map = [i \in DOMAIN g.map |-> g.map[i]]
    BY <1>9 DEF Tables, Shape
  <2> QED
    BY <2>1, <1>9, <1>10, <1>11 DEF Shape, Tables, SameOthers
<1>13. \A d \in Conns : g.con[d].thr = n.con[d].thr /\ g.con[d].id = n.con[d].id /\ g.con[d].life = n.con[d].life
  <2>1. c \in Conns => n.con[c].thr = TRUE /\ g.con[c].thr = TRUE
    BY <1>11, <1>12 DEF Tables, Good, Watched, Wired
  <2> QED
    BY <2>1, <1>10, <1>11 DEF SameOthers
<1>14. \A d \in Conns : \A x : TimerKey(g, d, x) = TimerKey(n, d, x)
  BY <1>13 DEF TimerKey, Con
<1>15. c \in Conns => key = TimerKey(g, c, tm)
  BY <1>8, <1>10, <1>13 DEF TimerKey, Con
<1>16. \A i \in DOMAIN g.map : i \in Nat /\ g.map[i] \in Conns /\ g.con[g.map[i]].thr /\ g.con[g.map[i]].id = i
  BY <1>9, <1>13 DEF Tables, Tied
<1>17. ASSUME NEW k \in DOMAIN g.timers, g.timers[k] \in Conns
       PROVE  /\ g.con[g.timers[k]].thr
              /\ \E x \in g.con[g.timers[k]].timers : k = TimerKey(g, g.timers[k], x)
  <2>1. CASE k = key
    <3>1. g.timers[k] = c
      BY <1>9, <2>1 DEF Put
    <3> QED
      BY <3>1, <2>1, <1>11, <1>15, <1>17
  <2>2. CASE k # key
    <3>1. k \in DOMAIN n.timers /\ k \notin keys /\ g.timers[k] = n.timers[k]
      BY <1>7, <1>9, <2>2 DEF Put, Restrict
    <3>2. PICK d \in Conns : d = n.timers[k]
      BY <3>1, <1>17
    <3>3. n.con[d].thr /\ \E x \in n.con[d].timers : k = TimerKey(n, d, x)
      BY <3>1, <3>2 DEF Tables, Tied
    <3>4. PICK x \in n.con[d].timers : k = TimerKey(n, d, x)
      BY <3>3
    <3>5. x \in g.con[d].timers
      <4>1. CASE d = c
        <5>1. x \notin old
          BY <4>1, <3>1, <3>4, <1>3
        <5> QED
          BY <4>1, <5>1, <3>2, <3>4, <1>11
      <4>2. CASE d # c
        BY <4>2, <3>4, <1>10 DEF SameOthers
      <4> QED
        BY <4>1, <4>2
    <3> QED
      BY <3>1, <3>2, <3>3, <3>4, <3>5, <1>13, <1>14
  <2> QED
    BY <2>1, <2>2
<1>18. Tied(g)
  BY <1>16, <1>17 DEF Tied
<1> QED
  BY <1>5, <1>12, <1>13, <1>18 DEF Tables, SameMade

LEMMA OutcomesSame ==
  ASSUME NEW r, NEW s, Len(r.msgs) = Len(s.msgs), r.start = s.start
  PROVE  SendOutcomes(r) = SendOutcomes(s)
<1>1. Unsent(r) = Unsent(s)
  BY DEF Unsent
<1> QED
  BY <1>1 DEF SendOutcomes

\* The handlers that send, and recycle the connection when do_send tells them to
Sending(n, c, d) == IF d.ret < 0 THEN Recycle(SetCon(n, c, d.r), c) ELSE SetCon(n, c, d.r)

LEMMA SendingKeeps ==
  ASSUME NEW n, NEW acc, NEW c \in Conns, Shape(n), Tied(n),
         \A d \in Conns \ {c} : Good(n.con[d], acc[d]), n.con[c].life # "none",
         NEW r, IsRec(r), Sent(r, acc[c]), Wired(r), Same(r, n.con[c]),
         NEW o \in SendOutcomes(r)
  PROVE  LET d == DoSend(r, o[1], o[2])
         IN Tables(Sending(n, c, d), acc) /\ SameMade(n, Sending(n, c, d))
<1>1. PICK d : d = DoSend(r, o[1], o[2])
  OBVIOUS
<1>2. Done(d, acc[c], r)
  BY <1>1, DoSendKeeps
<1>3. PICK m : m = SetCon(n, c, d.r)
  OBVIOUS
<1>4. /\ IsRec(d.r) /\ Sent(d.r, acc[c]) /\ Wired(d.r) /\ Same(d.r, n.con[c])
      /\ d.ret \in {-2, -1, 0} /\ (d.ret = 0 => Watched(d.r))
  BY <1>2 DEF Done, Fits, Same
<1>5. Shape(m) /\ Tied(m) /\ m.con[c] = d.r /\ SameOthers(n, m, c)
  BY <1>3, <1>4, SetConTied
<1>6. \A x \in Conns \ {c} : m.con[x] = n.con[x] /\ Good(m.con[x], acc[x])
  BY <1>5 DEF SameOthers
<1>7. m.con[c].life # "none" /\ SameMade(n, m)
  BY <1>4, <1>5, <1>6 DEF Same, SameMade
<1>8. CASE d.ret < 0
  <2>1. Loose(m, acc, c)
    BY <1>4, <1>5, <1>6, <1>7 DEF Loose
  <2>2. Tables(Recycle(m, c), acc) /\ SameMade(m, Recycle(m, c))
    BY <2>1, RecycleKeeps
  <2>3. Sending(n, c, d) = Recycle(m, c)
    BY <1>3, <1>8 DEF Sending
  <2> QED
    BY <1>1, <1>7, <2>2, <2>3 DEF SameMade
<1>9. CASE ~(d.ret < 0)
  <2>1. d.ret = 0
    BY <1>4, <1>9
  <2>2. Good(m.con[c], acc[c])
    BY <2>1, <1>4, <1>5, <1>7 DEF Good
  <2>3. Tables(m, acc)
    BY <2>2, <1>5, <1>6 DEF Tables
  <2>4. Sending(n, c, d) = m
    BY <1>3, <1>9 DEF Sending
  <2> QED
    BY <1>1, <1>7, <2>3, <2>4
<1> QED
  BY <1>8, <1>9

\* A connection closed with something to send leaves the tables, not the epoll set.
LEMMA SafeCloseKeeps ==
  ASSUME NEW n, NEW acc, Tables(n, acc), NEW c \in Conns, n.con[c].thr,
         NEW o \in SendOutcomes(n.con[c])
  PROVE  Tables(SafeClose(n, c, o), acc) /\ SameMade(n, SafeClose(n, c, o))
<1>1. PICK r : r = n.con[c] /\ IsRec(r) /\ Good(r, acc[c]) /\ r.thr
  BY DEF Tables, Shape
<1>2. /\ r.life = "live" /\ "R" \in r.noti /\ r.epoll = r.noti /\ r.thr = TRUE
      /\ Sent(r, acc[c]) /\ Wired(r)
  BY <1>1 DEF Good, Watched, Wired
<1>3. CASE r.msgs = <<>>
  <2>1. Loose(n, acc, c)
    BY <1>1, <1>2 DEF Loose, Tables
  <2> QED
    BY <2>1, <1>1, <1>3, RecycleKeeps DEF SafeClose, Con
<1>4. CASE r.msgs # <<>>
  <2>1. PICK x : x = SetNotify(r, {"R", "W"})
    OBVIOUS
  <2>2. x = [r EXCEPT !.epoll = {"R", "W"}]
    <3>1. r.epoll # {}
      BY <1>2
    <3> QED
      BY <2>1, <3>1, <1>2 DEF SetNotify
  <2>3. IsRec(x) /\ Same(x, r) /\ x.msgs = r.msgs /\ x.out = r.out /\ x.start = r.start /\ x.epoll = {"R", "W"}
    BY <2>2, <1>1 DEF IsRec, Fields, NewCon, Same
  <2>4. PICK m : m = SetCon(n, c, x)
    OBVIOUS
  <2>5. Shape(m) /\ Tied(m) /\ m.con[c] = x /\ SameOthers(n, m, c)
    BY <2>3, <2>4, <1>1, SetConTied DEF Tables
  <2>6. PICK q : q = Detach(m, c)
    OBVIOUS
  <2>7. /\ Shape(q) /\ Tied(q) /\ SameOthers(m, q, c)
        /\ q.con[c] = [x EXCEPT !.timers = {}, !.thr = FALSE]
    BY <2>5, <2>6, DetachTied
  <2>8. PICK y : y = [q.con[c] EXCEPT !.flag = TRUE]
    OBVIOUS
  <2>9. /\ IsRec(y) /\ y.msgs = r.msgs /\ y.out = r.out /\ y.start = r.start /\ y.epoll = {"R", "W"}
        /\ y.thr = FALSE /\ y.life = "live" /\ Same(y, q.con[c])
    BY <2>3, <2>7, <2>8, <1>2 DEF IsRec, Fields, NewCon, Same
  <2>10. Sent(y, acc[c])
    BY <2>9, <1>2 DEF Sent
  <2>11. Wired(y)
    BY <2>9 DEF Wired
  <2>12. o \in SendOutcomes(y)
    BY <2>9, <1>1, OutcomesSame
  <2>13. PICK d : d = DoSend(y, o[1], o[2])
    OBVIOUS
  <2>14. Done(d, acc[c], y)
    BY <2>9, <2>10, <2>11, <2>12, <2>13, DoSendKeeps
  <2>15. IsRec(d.r) /\ Sent(d.r, acc[c]) /\ Watched(d.r) /\ Same(d.r, q.con[c]) /\ d.r.life = "live"
    BY <2>9, <2>14 DEF Done, Fits, Same
  <2>16. PICK g : g = SetCon(q, c, d.r)
    OBVIOUS
  <2>17. Shape(g) /\ Tied(g) /\ g.con[c] = d.r /\ SameOthers(q, g, c)
    BY <2>7, <2>15, <2>16, SetConTied
  <2>18. SafeClose(n, c, o) = g
    BY <1>1, <1>2, <1>4, <2>1, <2>4, <2>6, <2>8, <2>13, <2>16 DEF SafeClose, Con
  <2>19. \A z \in Conns \ {c} : g.con[z] = n.con[z]
    BY <2>5, <2>7, <2>17 DEF SameOthers
  <2>20. Tables(g, acc)
    BY <2>15, <2>17, <2>19 DEF Tables, Good
  <2>21. SameMade(n, g)
    BY <2>15, <2>17, <2>19, <1>1, <1>2 DEF SameMade
  <2> QED
    BY <2>18, <2>20, <2>21
<1> QED
  BY <1>3, <1>4

\* A new connection is watched for reading, and in m_con_map if it has an id.
LEMMA OnCreateKeeps ==
  ASSUME NEW n, NEW acc, Tables(n, acc), NEW c \in Conns, n.con[c].life = "none", NEW id \in Nat
  PROVE  LET r == [NewCon EXCEPT !.life = "live", !.thr = TRUE, !.id = id]
             m == SetCon(IF id = 0 THEN SetCon(n, c, r) ELSE AddConnection(SetCon(n, c, r), c),
                         c, ConSetNotify(r, {"R"}))
         IN /\ Tables(m, acc) /\ m.con[c].thr /\ m.con[c].life = "live"
            /\ SameOthers(n, m, c)
<1>1. PICK r : r = [NewCon EXCEPT !.life = "live", !.thr = TRUE, !.id = id]
  OBVIOUS
<1>2. PICK x : x = SetCon(n, c, r)
  OBVIOUS
<1>3. PICK y : y = IF id = 0 THEN x ELSE AddConnection(x, c)
  OBVIOUS
<1>4. PICK t : t = ConSetNotify(r, {"R"})
  OBVIOUS
<1>5. PICK m : m = SetCon(y, c, t)
  OBVIOUS
<1>6. IsRec(r) /\ r.thr = TRUE /\ r.life = "live" /\ r.id = id /\ r.noti = {} /\ r.epoll = {}
  BY <1>1 DEF IsRec, Fields, NewCon
<1>7. t = [NewCon EXCEPT !.life = "live", !.thr = TRUE, !.id = id, !.epoll = {"R"}, !.noti = {"R"}]
  <2>1. SetNotify(r, {"R"}) = [r EXCEPT !.epoll = {"R"}]
    BY <1>6 DEF SetNotify
  <2> QED
    BY <2>1, <1>1, <1>4, <1>6 DEF ConSetNotify, NewCon
<1>8. /\ IsRec(t) /\ t.thr = TRUE /\ t.life = "live" /\ t.id = id /\ t.epoll = {"R"} /\ t.noti = {"R"}
      /\ t.msgs = <<>> /\ t.out = <<>> /\ t.start = 0 /\ t.timers = {} /\ Same(t, r)
  <2>1. IsRec(t)
    BY <1>7 DEF IsRec, Fields, NewCon
  <2>2. /\ t.thr = TRUE /\ t.life = "live" /\ t.id = id /\ t.epoll = {"R"} /\ t.noti = {"R"}
        /\ t.msgs = <<>> /\ t.out = <<>> /\ t.start = 0 /\ t.timers = {}
    BY <1>7 DEF NewCon
  <2>3. r.timers = {}
    BY <1>1 DEF NewCon
  <2> QED
    BY <1>6, <2>1, <2>2, <2>3 DEF Same
<1>9. n.con[c] = NewCon /\ acc[c] = <<>> /\ n.con[c].thr = FALSE
  BY DEF Tables, Good, NewCon
<1>10. Shape(x) /\ Tied(x) /\ x.con[c] = r /\ SameOthers(n, x, c) /\ x.map = n.map
  BY <1>2, <1>6, <1>9, SetConTied, SetConFree DEF Tables
<1>11. Shape(y) /\ Tied(y) /\ y.con = x.con
  <2>1. CASE id = 0 \/ id \in DOMAIN x.map
    <3>1. y = x
      BY <2>1, <1>3, <1>6, <1>10 DEF AddConnection, Con
    <3> QED
      BY <3>1, <1>10
  <2>2. CASE id # 0 /\ id \notin DOMAIN x.map
    <3>1. PICK map : map = Put(x.map, id, c)
      OBVIOUS
    <3>2. y = [x EXCEPT !.map = map]
      BY <2>2, <3>1, <1>3, <1>6, <1>10 DEF AddConnection, Con
    <3>3. /\ y.con = x.con /\ y.map = map /\ y.timers = x.timers
          /\ y = [f \in {"con", "map", "timers", "threadTimers"} |-> y[f]]
      BY <3>2, <1>10 DEF Shape
    <3>4. /\ DOMAIN map = DOMAIN x.map \cup {id} /\ map[id] = c
          /\ \A i \in DOMAIN x.map : i # id => map[i] = x.map[i]
          /\ map = [i \in DOMAIN map |-> map[i]]
      BY <3>1 DEF Put
    <3>5. Shape(y)
      BY <3>3, <3>4, <1>10 DEF Shape
    <3>6. \A d, tm : TimerKey(y, d, tm) = TimerKey(x, d, tm)
      BY <3>3 DEF TimerKey, Con
    <3>7. \A i \in DOMAIN y.map : i \in Nat /\ y.map[i] \in Conns /\ y.con[y.map[i]].thr /\ y.con[y.map[i]].id = i
      BY <3>3, <3>4, <1>6, <1>10 DEF Tied
    <3>8. \A k \in DOMAIN y.timers : y.timers[k] \in Conns =>
             /\ y.con[y.timers[k]].thr
             /\ \E tm \in y.con[y.timers[k]].timers : k = TimerKey(y, y.timers[k], tm)
      BY <3>3, <3>6, <1>10 DEF Tied
    <3> QED
      BY <3>3, <3>5, <3>7, <3>8 DEF Tied
  <2> QED
    BY <2>1, <2>2
<1>12. /\ Shape(m) /\ m.con[c] = t /\ SameOthers(y, m, c) /\ Tied(m)
  <2>1. Same(t, y.con[c])
    BY <1>8, <1>10, <1>11
  <2> QED
    BY <2>1, <1>5, <1>8, <1>11, SetConTied
<1>13. SameOthers(n, m, c)
  BY <1>10, <1>11, <1>12 DEF SameOthers
<1>14. Good(t, acc[c])
  <2>1. Sent(t, <<>>)
    <3>1. /\ <<>> \in Seq(Msgs) /\ <<>> \in Seq(Msgs \X Nat) /\ Len(<<>>) = 0
      BY EmptySeq
    <3>2. MsgLen \in Nat \ {0}
      BY NetConstants
    <3>3. (0 - 0) * MsgLen + 0 = 0 /\ 0 \in 0..(MsgLen - 1)
      BY <3>2
    <3> QED
      BY <3>1, <3>3, <1>8 DEF Sent
  <2>2. Watched(t)
    BY <1>8 DEF Watched, Wired
  <2> QED
    BY <2>1, <2>2, <1>8, <1>9 DEF Good
<1>15. Tables(m, acc)
  BY <1>12, <1>13, <1>14 DEF Tables, SameOthers
<1> QED
  BY <1>1, <1>2, <1>3, <1>4, <1>5, <1>8, <1>12, <1>13, <1>15

-----------------------------------------------------------------------------
(* The invariant *)

Plan == [registers: BOOLEAN, sends: Nat, closes: Nat, packs: Nat, fins: Nat, timers: Nat,
         threadTimers: Nat, signals: Nat, ticks: Nat, clients: Nat]
Counts == {"sends", "closes", "packs", "fins", "timers", "threadTimers", "signals", "ticks", "clients"}

Ops == [k: {"send"}, id: Nat, n: Msgs] \cup [k: {"close"}, id: Nat, n: {"close"} \X Nat]

MadeOf(n) == {c \in Conns : n.con[c].life # "none"}

\* What epoll_wait may say when n is the loop's state: a connection it names has been made.
Events(n) == (MadeOf(n) \X {"R", "W"}) \cup {<<NoCon, "ctl">>, <<NoCon, "accept">>}

Held(n, acc) == Tables(n, acc) /\ acc = [c \in Conns |-> acc[c]] /\ IsFiniteSet(MadeOf(n))

IInv == /\ Held(net, accepted) /\ left \in Plan /\ ops \in Seq(Ops)
        /\ batch \in Seq(Events(net))

\* Nothing made, nothing unmade: what is waiting in the batch keeps its sense.
LEMMA MadeStay ==
  ASSUME NEW n, NEW g, SameMade(n, g)
  PROVE  MadeOf(g) = MadeOf(n) /\ Events(g) = Events(n)
  BY DEF SameMade, MadeOf, Events

LEMMA HeldStays ==
  ASSUME NEW n, NEW a, NEW g, NEW b, Held(n, a), Tables(g, b), b = [c \in Conns |-> b[c]],
         SameMade(n, g)
  PROVE  Held(g, b) /\ Events(g) = Events(n)
  BY MadeStay DEF Held

LEMMA MadeIsMade == Made = MadeOf(net) /\ Ids \subseteq Nat
  BY DEF Made, MadeOf, Con, Ids

\* A count of the plan that is spent stays a count.
LEMMA SpendKeeps ==
  ASSUME left \in Plan, NEW what \in Counts, Spend(what)
  PROVE  left' \in Plan /\ left[what] \in Nat
<1>1. PICK p : p = left
  OBVIOUS
<1>2. PICK q : q = left'
  OBVIOUS
<1>3. p \in Plan /\ p[what] > 0 /\ q = [p EXCEPT ![what] = @ - 1]
  BY <1>1, <1>2 DEF Spend
<1>4. p[what] \in Nat
  BY <1>3 DEF Plan, Counts
<1>5. PICK v \in Nat : v = p[what] - 1
  BY <1>3, <1>4
<1>6. q = [p EXCEPT ![what] = v]
  BY <1>3, <1>5
<1>7. q \in Plan
  BY <1>3, <1>6 DEF Plan, Counts
<1> QED
  BY <1>1, <1>2, <1>4, <1>7

LEMMA InitHolds == Init => IInv
<1> SUFFICES ASSUME Init PROVE IInv
  OBVIOUS
<1>1. PICK n : n = net
  OBVIOUS
<1>2. /\ n = [con |-> [c \in Conns |-> NewCon], map |-> <<>>, timers |-> <<>>, threadTimers |-> <<>>]
      /\ accepted = [c \in Conns |-> <<>>] /\ ops = <<>> /\ batch = <<>> /\ left \in Plans
  BY <1>1 DEF Init
<1>3. /\ \A c \in Conns : n.con[c] = NewCon
      /\ n.con = [c \in Conns |-> n.con[c]] /\ n.map = <<>> /\ n.timers = <<>>
      /\ n = [f \in {"con", "map", "timers", "threadTimers"} |-> n[f]]
  BY <1>2
<1>4. DOMAIN n.map = {} /\ DOMAIN n.timers = {} /\ n.map = [i \in DOMAIN n.map |-> n.map[i]]
  BY <1>3
<1>5. IsRec(NewCon)
  BY DEF IsRec, Fields, NewCon
<1>6. Shape(n)
  BY <1>3, <1>4, <1>5 DEF Shape
<1>7. Tied(n)
  BY <1>4 DEF Tied
<1>8. Good(NewCon, <<>>)
  <2>1. /\ <<>> \in Seq(Msgs) /\ <<>> \in Seq(Msgs \X Nat) /\ Len(<<>>) = 0
    BY EmptySeq
  <2>2. MsgLen \in Nat \ {0}
    BY NetConstants
  <2>3. (0 - 0) * MsgLen + 0 = 0 /\ 0 \in 0..(MsgLen - 1)
    BY <2>2
  <2>4. Sent(NewCon, <<>>)
    BY <2>1, <2>3 DEF Sent, NewCon
  <2>5. Watched(NewCon)
    BY DEF Watched, Wired, NewCon
  <2> QED
    BY <2>4, <2>5, <1>5 DEF Good
<1>9. Tables(n, accepted)
  BY <1>2, <1>3, <1>6, <1>7, <1>8 DEF Tables
<1>10. MadeOf(n) = {}
  BY <1>3 DEF MadeOf, NewCon
<1>11. Held(n, accepted)
  BY <1>2, <1>9, <1>10, FS_EmptySet DEF Held
<1>12. left \in Plan /\ ops \in Seq(Ops) /\ batch \in Seq(Events(n))
  BY <1>2, NetConstants, EmptySeq DEF Plan
<1> QED
  BY <1>1, <1>11, <1>12 DEF IInv

-----------------------------------------------------------------------------
(* The steps that leave connections and tables alone *)

LEMMA QuietKeeps ==
  ASSUME IInv, UNCHANGED <<net, accepted>>, left' \in Plan, ops' \in Seq(Ops),
         batch' \in Seq(Events(net))
  PROVE  IInv'
<1>1. PICK n, a : n = net /\ a = accepted
  OBVIOUS
<1>2. net' = n /\ accepted' = a /\ Held(n, a) /\ batch' \in Seq(Events(n))
  BY <1>1 DEF IInv
<1> QED
  BY <1>2 DEF IInv

LEMMA PostsKeep == ASSUME IInv, send_message \/ close_connection PROVE IInv'
<1>0. left \in Plan /\ ops \in Seq(Ops) /\ batch \in Seq(Events(net))
  BY DEF IInv
<1>1. CASE send_message
  <2>1. PICK i \in Ids : Spend("sends") /\ Push([k |-> "send", id |-> i, n |-> <<"send", left.sends>>])
    BY <1>1 DEF send_message
  <2>2. left' \in Plan /\ left["sends"] \in Nat
    BY <2>1, <1>0, SpendKeeps DEF Counts
  <2>3. PICK op : op = [k |-> "send", id |-> i, n |-> <<"send", left.sends>>]
    OBVIOUS
  <2>4. op \in Ops
    BY <2>2, <2>3, MadeIsMade DEF Ops, Msgs
  <2>5. ops' \in Seq(Ops) /\ UNCHANGED <<net, accepted, batch>>
    <3>1. Append(ops, op) \in Seq(Ops)
      BY <2>4, <1>0, AppendProperties
    <3> QED
      BY <3>1, <2>1, <2>3 DEF Push
  <2> QED
    BY <2>2, <2>5, <1>0, QuietKeeps
<1>2. CASE close_connection
  <2>1. PICK i \in Ids : Spend("closes") /\ Push([k |-> "close", id |-> i, n |-> <<"close", left.closes>>])
    BY <1>2 DEF close_connection
  <2>2. left' \in Plan /\ left["closes"] \in Nat
    BY <2>1, <1>0, SpendKeeps DEF Counts
  <2>3. PICK op : op = [k |-> "close", id |-> i, n |-> <<"close", left.closes>>]
    OBVIOUS
  <2>4. op \in Ops
    BY <2>2, <2>3, MadeIsMade DEF Ops
  <2>5. ops' \in Seq(Ops) /\ UNCHANGED <<net, accepted, batch>>
    <3>1. Append(ops, op) \in Seq(Ops)
      BY <2>4, <1>0, AppendProperties
    <3> QED
      BY <3>1, <2>1, <2>3 DEF Push
  <2> QED
    BY <2>2, <2>5, <1>0, QuietKeeps
<1> QED
  BY <1>1, <1>2

\* epoll_wait reports descriptors that are in the epoll set, so of connections made.
LEMMA WaitReturnsKeeps == ASSUME IInv, WaitReturns PROVE IInv'
<1>0. left \in Plan /\ ops \in Seq(Ops) /\ batch \in Seq(Events(net)) /\ IsFiniteSet(MadeOf(net))
  BY DEF IInv, Held
<1>1. PICK w \in SUBSET Writable : batch' \in SetToSeqs(Readable \cup w)
  BY DEF WaitReturns
<1>2. PICK S : S = Readable \cup w
  OBVIOUS
<1>3. S \subseteq Events(net)
  <2>1. Live \subseteq MadeOf(net)
    BY DEF Live, MadeOf, Con
  <2>2. PICK some : some = {d \in Live : "R" \in Con(net, d).epoll /\ (Con(net, d).in > 0 \/ Con(net, d).fin)}
    OBVIOUS
  <2>3. PICK others : others = {d \in Live : "W" \in Con(net, d).epoll /\ <<d, "R">> \notin Readable}
    OBVIOUS
  <2>4. some \subseteq MadeOf(net) /\ others \subseteq MadeOf(net)
    BY <2>1, <2>2, <2>3
  <2>5. \A e \in Readable : e \in {<<c, "R">> : c \in some} \/ e = <<NoCon, "ctl">> \/ e = <<NoCon, "accept">>
    BY <2>2 DEF Readable
  <2>6. Writable = {<<c, "W">> : c \in others}
    BY <2>3 DEF Writable
  <2>7. \A e \in Readable : e \in Events(net)
    BY <2>4, <2>5 DEF Events
  <2>8. \A e \in Writable : e \in Events(net)
    BY <2>4, <2>6 DEF Events
  <2> QED
    BY <2>7, <2>8, <1>2
<1>4. IsFiniteSet(Events(net))
  <2>1. PICK M : M = MadeOf(net) /\ IsFiniteSet(M)
    BY <1>0
  <2>2. IsFiniteSet({"R"} \cup {"W"}) /\ {"R"} \cup {"W"} = {"R", "W"}
    BY FS_Singleton, FS_Union
  <2>3. IsFiniteSet(M \X {"R", "W"})
    BY <2>1, <2>2, FS_Product
  <2>4. PICK x, y : x = <<NoCon, "ctl">> /\ y = <<NoCon, "accept">>
    OBVIOUS
  <2>5. IsFiniteSet({x} \cup {y}) /\ {x} \cup {y} = {x, y}
    BY FS_Singleton, FS_Union
  <2>6. IsFiniteSet((M \X {"R", "W"}) \cup {x, y})
    BY <2>3, <2>5, FS_Union
  <2> QED
    BY <2>1, <2>4, <2>6 DEF Events
<1>5. IsFiniteSet(S)
  BY <1>3, <1>4, FS_Subset
<1>6. PICK m \in Nat : m = Cardinality(S)
  BY <1>5, FS_CardinalityType
<1>7. batch' \in [1..m -> S]
  BY <1>1, <1>2, <1>6 DEF SetToSeqs
<1>8. batch' \in [1..m -> Events(net)]
  BY <1>3, <1>7
<1>9. batch' \in Seq(Events(net))
  BY <1>8, SeqDef
<1> QED
  BY <1>0, <1>9, QuietKeeps DEF WaitReturns

LEMMA QuietStepsKeep ==
  ASSUME IInv,
         \/ send_ctl \/ stop \/ Run \/ Test \/ OpsDone \/ Scan \/ WaitTimesOut \/ Tick
         \/ Interrupted \/ CtlEvent \/ EventsDone
  PROVE  IInv'
<1>0. left \in Plan /\ ops \in Seq(Ops) /\ batch \in Seq(Events(net))
  BY DEF IInv
<1>1. CASE send_ctl \/ stop \/ Run \/ Test \/ OpsDone \/ Scan \/ WaitTimesOut \/ EventsDone
  <2>1. UNCHANGED <<net, accepted, left, ops, batch>>
    BY <1>1 DEF send_ctl, stop, Run, Test, OpsDone, Scan, WaitTimesOut, EventsDone
  <2> QED
    BY <2>1, <1>0, QuietKeeps
<1>2. CASE Tick
  <2>1. left' \in Plan
    BY <1>2, <1>0, SpendKeeps DEF Tick, Counts
  <2> QED
    BY <2>1, <1>0, <1>2, QuietKeeps DEF Tick
<1>3. CASE Interrupted
  <2>1. left' \in Plan
    BY <1>3, <1>0, SpendKeeps DEF Interrupted, Counts
  <2> QED
    BY <2>1, <1>0, <1>3, QuietKeeps DEF Interrupted
<1>4. CASE CtlEvent
  <2>1. batch # <<>> /\ batch' = Tail(batch) /\ UNCHANGED <<net, accepted, left, ops>>
    BY <1>4 DEF CtlEvent, Event
  <2>2. batch' \in Seq(Events(net))
    BY <2>1, <1>0, HeadTailProperties
  <2> QED
    BY <2>1, <2>2, <1>0, QuietKeeps
<1> QED
  BY <1>1, <1>2, <1>3, <1>4

-----------------------------------------------------------------------------
(* The steps that change connections and tables *)

\* What is left to show of a step that changes the loop's own state
LEMMA StepKeeps ==
  ASSUME IInv, NEW g, NEW b, net' = g, accepted' = b, Tables(g, b), b = [c \in Conns |-> b[c]],
         SameMade(net, g), left' \in Plan, ops' \in Seq(Ops),
         batch' \in Seq(Events(net))
  PROVE  IInv'
<1>1. PICK n, a : n = net /\ a = accepted
  OBVIOUS
<1>2. Held(n, a) /\ SameMade(n, g) /\ batch' \in Seq(Events(n))
  BY <1>1 DEF IInv
<1>3. Held(g, b) /\ Events(g) = Events(n)
  BY <1>2, HeldStays
<1> QED
  BY <1>2, <1>3 DEF IInv

\* A connection of which only "in" and "fin" change
LEMMA PeerKeeps ==
  ASSUME NEW n, NEW acc, Tables(n, acc), NEW c \in Conns, NEW x, NEW y, n.con[c].life # "none"
  PROVE  LET g == SetCon(n, c, [n.con[c] EXCEPT !.in = x, !.fin = y])
         IN Tables(g, acc) /\ SameMade(n, g)
<1>1. PICK r : r = n.con[c] /\ IsRec(r) /\ Good(r, acc[c])
  BY DEF Tables, Shape
<1>2. PICK s : s = [r EXCEPT !.in = x, !.fin = y]
  OBVIOUS
<1>3. /\ IsRec(s) /\ Same(s, r) /\ s.msgs = r.msgs /\ s.out = r.out /\ s.start = r.start
      /\ s.noti = r.noti /\ s.epoll = r.epoll
  BY <1>1, <1>2 DEF IsRec, Fields, NewCon, Same
<1>4. Sent(s, acc[c])
  <2>1. Sent(r, acc[c])
    BY <1>1 DEF Good
  <2> QED
    BY <2>1, <1>3 DEF Sent
<1>5. Watched(s)
  BY <1>1, <1>3 DEF Good, Watched, Wired, Same
<1>6. s.life # "none" /\ Good(s, acc[c])
  BY <1>1, <1>3, <1>4, <1>5 DEF Good, Same
<1>7. PICK g : g = SetCon(n, c, s)
  OBVIOUS
<1>8. Shape(g) /\ g.con[c] = s /\ SameOthers(n, g, c) /\ Tied(g)
  BY <1>1, <1>3, <1>7, SetConTied DEF Tables
<1>9. Tables(g, acc)
  BY <1>6, <1>8 DEF Tables, SameOthers
<1>10. SameMade(n, g)
  BY <1>1, <1>6, <1>8 DEF SameMade, SameOthers
<1> QED
  BY <1>1, <1>2, <1>7, <1>9, <1>10

LEMMA PeersKeep == ASSUME IInv, PeerSends \/ PeerCloses PROVE IInv'
<1>0. /\ left \in Plan /\ ops \in Seq(Ops) /\ batch \in Seq(Events(net))
      /\ accepted = [c \in Conns |-> accepted[c]]
  BY DEF IInv, Held
<1>1. PICK n, a : n = net /\ a = accepted /\ Tables(n, a)
  BY DEF IInv, Held
<1>2. PICK c, x, y, g : /\ c \in Conns /\ n.con[c].life # "none" /\ net' = g /\ left' \in Plan
                        /\ g = SetCon(n, c, [n.con[c] EXCEPT !.in = x, !.fin = y])
                        /\ UNCHANGED <<ops, batch, accepted>>
  <2>1. CASE PeerSends
    <3>1. PICK c \in Live : Spend("packs") /\ net' = [net EXCEPT !.con[c].in = @ + 1]
                            /\ UNCHANGED <<ops, batch, accepted>>
      BY <2>1 DEF PeerSends
    <3>2. c \in Conns /\ n.con[c].life = "live" /\ IsRec(n.con[c])
      BY <3>1, <1>1 DEF Live, Con, Tables, Shape
    <3>3. left' \in Plan
      BY <3>1, <1>0, SpendKeeps DEF Counts
    <3>4. PICK r, x, y : r = n.con[c] /\ x = r.in + 1 /\ y = r.fin
      OBVIOUS
    <3>5. [r EXCEPT !.in = @ + 1] = [r EXCEPT !.in = x, !.fin = y]
      BY <3>2, <3>4 DEF IsRec, Fields, NewCon
    <3>6. n.con = [d \in Conns |-> n.con[d]]
      BY <1>1 DEF Tables, Shape
    <3>7. net' = [n EXCEPT !.con[c] = [r EXCEPT !.in = @ + 1]]
      BY <3>1, <3>2, <3>4, <3>6, <1>1
    <3>8. net' = SetCon(n, c, [n.con[c] EXCEPT !.in = x, !.fin = y])
      BY <3>4, <3>5, <3>7 DEF SetCon
    <3> QED
      BY <3>1, <3>2, <3>3, <3>8
  <2>2. CASE PeerCloses
    <3>1. PICK c \in Live : Spend("fins") /\ net' = [net EXCEPT !.con[c].fin = TRUE]
                            /\ UNCHANGED <<ops, batch, accepted>>
      BY <2>2 DEF PeerCloses
    <3>2. c \in Conns /\ n.con[c].life = "live" /\ IsRec(n.con[c])
      BY <3>1, <1>1 DEF Live, Con, Tables, Shape
    <3>3. left' \in Plan
      BY <3>1, <1>0, SpendKeeps DEF Counts
    <3>4. PICK r, x, y : r = n.con[c] /\ x = r.in /\ y = TRUE
      OBVIOUS
    <3>5. [r EXCEPT !.fin = TRUE] = [r EXCEPT !.in = x, !.fin = y]
      BY <3>2, <3>4 DEF IsRec, Fields, NewCon
    <3>6. n.con = [d \in Conns |-> n.con[d]]
      BY <1>1 DEF Tables, Shape
    <3>7. net' = [n EXCEPT !.con[c] = [r EXCEPT !.fin = TRUE]]
      BY <3>1, <3>2, <3>4, <3>6, <1>1
    <3>8. net' = SetCon(n, c, [n.con[c] EXCEPT !.in = x, !.fin = y])
      BY <3>4, <3>5, <3>7 DEF SetCon
    <3> QED
      BY <3>1, <3>2, <3>3, <3>8
  <2> QED
    BY <2>1, <2>2
<1>3. Tables(g, a) /\ SameMade(n, g)
  BY <1>1, <1>2, PeerKeeps
<1>4. accepted' = a /\ SameMade(net, g)
  BY <1>1, <1>2, <1>3
<1> QED
  BY <1>0, <1>1, <1>2, <1>3, <1>4, StepKeeps

\* A timer of the thread names no connection.
LEMMA ThreadTimersKeep == ASSUME IInv, start_timer PROVE IInv'
<1>0. /\ left \in Plan /\ ops \in Seq(Ops) /\ batch \in Seq(Events(net))
      /\ accepted = [c \in Conns |-> accepted[c]]
  BY DEF IInv, Held
<1>1. PICK n, a : n = net /\ a = accepted /\ Tables(n, a)
  BY DEF IInv, Held
<1>2. PICK id \in TimerIds, t \in Timeouts :
        /\ Spend("threadTimers")
        /\ IF id \in DOMAIN net.threadTimers THEN Crash
           ELSE LET tm == [id |-> id, tv |-> ExpiryOf(t)]
                IN /\ net' = [AddTimer(net, NoCon, tm) EXCEPT !.threadTimers = Put(@, id, tm)]
                   /\ UNCHANGED <<ops, ctl, owed, run, lpc, batch, expired, called, wake, now, accepted>>
  BY DEF start_timer
<1>3. left' \in Plan
  BY <1>0, <1>2, SpendKeeps DEF Counts
<1>4. CASE Crash
  BY <1>0, <1>3, <1>4, QuietKeeps DEF Crash
<1>5. CASE ~Crash
  <2>1. PICK tm : tm = [id |-> id, tv |-> ExpiryOf(t)]
    OBVIOUS
  <2>2. PICK key : key = TimerKey(n, NoCon, tm)
    OBVIOUS
  <2>3. PICK timers, mine : timers = Put(n.timers, key, NoCon) /\ mine = Put(n.threadTimers, id, tm)
    OBVIOUS
  <2>4. PICK g : g = [n EXCEPT !.timers = timers, !.threadTimers = mine]
    OBVIOUS
  <2>5. n = [f \in {"con", "map", "timers", "threadTimers"} |-> n[f]]
    BY <1>1 DEF Tables, Shape
  <2>6. net' = g /\ UNCHANGED <<ops, batch, accepted>>
    <3>1. net' = [AddTimer(net, NoCon, tm) EXCEPT !.threadTimers = Put(@, id, tm)]
          /\ UNCHANGED <<ops, batch, accepted>>
      BY <1>2, <1>5, <2>1
    <3>2. AddTimer(net, NoCon, tm) = [n EXCEPT !.timers = timers]
      BY <1>1, <2>2, <2>3 DEF AddTimer
    <3>3. [n EXCEPT !.timers = timers].threadTimers = n.threadTimers
      BY <2>5
    <3>4. net' = [[n EXCEPT !.timers = timers] EXCEPT !.threadTimers = mine]
      BY <3>1, <3>2, <3>3, <2>3, <2>5
    <3> QED
      BY <3>1, <3>4, <2>4, <2>5
  <2>7. /\ g.con = n.con /\ g.map = n.map /\ g.timers = timers
        /\ g = [f \in {"con", "map", "timers", "threadTimers"} |-> g[f]]
    BY <2>4, <2>5
  <2>8. Shape(g)
    BY <2>7, <1>1 DEF Tables, Shape
  <2>9. \A d, x : TimerKey(g, d, x) = TimerKey(n, d, x)
    BY <2>7 DEF TimerKey, Con
  <2>10. \A k \in DOMAIN timers : timers[k] \in Conns => k \in DOMAIN n.timers /\ timers[k] = n.timers[k]
    BY <2>3, NetConstants DEF Put
  <2>11. \A k \in DOMAIN g.timers : g.timers[k] \in Conns =>
          /\ g.con[g.timers[k]].thr
          /\ \E x \in g.con[g.timers[k]].timers : k = TimerKey(g, g.timers[k], x)
    BY <2>7, <2>9, <2>10, <1>1 DEF Tables, Tied
  <2>12. \A i \in DOMAIN g.map : i \in Nat /\ g.map[i] \in Conns /\ g.con[g.map[i]].thr /\ g.con[g.map[i]].id = i
    BY <2>7, <1>1 DEF Tables, Tied
  <2>13. Tied(g)
    BY <2>11, <2>12 DEF Tied
  <2>14. Tables(g, a) /\ SameMade(n, g)
    BY <2>7, <2>8, <2>13, <1>1 DEF Tables, SameMade
  <2> QED
    BY <1>0, <1>1, <1>3, <2>6, <2>14, StepKeeps
<1> QED
  BY <1>4, <1>5

\* Erasing the keys of the timers called leaves a table with fewer entries.
LEMMA EraseKeeps == ASSUME IInv, EraseCalled PROVE IInv'
<1>0. /\ left \in Plan /\ ops \in Seq(Ops) /\ batch \in Seq(Events(net))
      /\ accepted = [c \in Conns |-> accepted[c]]
  BY DEF IInv, Held
<1>1. PICK n, a : n = net /\ a = accepted /\ Tables(n, a)
  BY DEF IInv, Held
<1>2. PICK T : T = called
  OBVIOUS
<1>3. PICK g : g = Fewer(n, {}, T)
  OBVIOUS
<1>4. Shape(n) /\ Tied(n)
  BY <1>1 DEF Tables
<1>5. Shape(g) /\ Tied(g) /\ g.con = n.con
  BY <1>3, <1>4, FewerTied
<1>6. net' = g
  <2>1. Restrict(n.map, DOMAIN n.map \ {}) = n.map
    BY <1>4 DEF Shape, Restrict
  <2>2. g = [n EXCEPT !.timers = Restrict(n.timers, DOMAIN n.timers \ T)]
    BY <1>3, <1>4, <2>1 DEF Fewer, Shape
  <2> QED
    BY <2>2, <1>1, <1>2 DEF EraseCalled
<1>7. Tables(g, a) /\ SameMade(n, g)
  BY <1>1, <1>5 DEF Tables, SameMade
<1> QED
  BY <1>0, <1>1, <1>6, <1>7, StepKeeps DEF EraseCalled

\* A message accepted for c is sent as far as it goes.
LEMMA TakingKeeps ==
  ASSUME NEW n, NEW acc, Tables(n, acc), acc = [c \in Conns |-> acc[c]],
         NEW c \in Conns, n.con[c].life # "none",
         NEW r, IsRec(r), Sent(r, acc[c]), Wired(r), Same(r, n.con[c]), NEW m \in Msgs,
         NEW o \in SendOutcomes([r EXCEPT !.msgs = Append(@, m)])
  PROVE  LET d == SendMessage(r, m, o)
             b == [acc EXCEPT ![c] = Append(@, m)]
         IN /\ Tables(Sending(n, c, d), b) /\ SameMade(n, Sending(n, c, d))
            /\ b = [x \in Conns |-> b[x]]
<1>1. PICK s : s = [r EXCEPT !.msgs = Append(@, m)]
  OBVIOUS
<1>2. IsRec(s) /\ Sent(s, Append(acc[c], m)) /\ Same(s, r) /\ Wired(s)
  BY <1>1, AppendKeeps
<1>3. PICK b : b = [acc EXCEPT ![c] = Append(@, m)]
  OBVIOUS
<1>4. /\ b = [x \in Conns |-> b[x]] /\ b[c] = Append(acc[c], m)
      /\ \A x \in Conns \ {c} : b[x] = acc[x]
  BY <1>3
<1>5. Shape(n) /\ Tied(n) /\ \A x \in Conns \ {c} : Good(n.con[x], b[x])
  BY <1>4 DEF Tables
<1>6. Sent(s, b[c]) /\ Same(s, n.con[c])
  BY <1>2, <1>4 DEF Same
<1>7. PICK d : d = DoSend(s, o[1], o[2])
  OBVIOUS
<1>8. o \in SendOutcomes(s)
  BY <1>1
<1>9. Tables(Sending(n, c, d), b) /\ SameMade(n, Sending(n, c, d))
  BY <1>2, <1>5, <1>6, <1>7, <1>8, SendingKeeps
<1>10. SendMessage(r, m, o) = d
  BY <1>1, <1>7 DEF SendMessage
<1> QED
  BY <1>3, <1>4, <1>9, <1>10

LEMMA OpsKeep == ASSUME IInv, ProcessOp PROVE IInv'
<1>0. /\ left \in Plan /\ ops \in Seq(Ops) /\ batch \in Seq(Events(net))
  BY DEF IInv
<1>1. PICK n, a : n = net /\ a = accepted /\ Tables(n, a) /\ a = [c \in Conns |-> a[c]]
  BY DEF IInv, Held
<1>2. PICK op : op = Head(ops) /\ op \in Ops /\ ops' = Tail(ops) /\ Tail(ops) \in Seq(Ops)
  BY <1>0, HeadTailProperties DEF ProcessOp
<1>3. PICK id, m : id = op.id /\ m = op.n
  OBVIOUS
<1>4. UNCHANGED <<batch, left>>
  BY DEF ProcessOp
<1>5. CASE UNCHANGED <<net, accepted>>
  BY <1>0, <1>2, <1>4, <1>5, QuietKeeps
<1>6. CASE op.k = "send" /\ ~UNCHANGED <<net, accepted>>
  <2>1. DoSendMessage(id, m)
    BY <1>2, <1>3, <1>6 DEF ProcessOp
  <2>2. m \in Msgs
    BY <1>2, <1>3, <1>6 DEF Ops
  <2>3. id \in DOMAIN net.map
    BY <2>1, <1>6 DEF DoSendMessage
  <2>4. PICK c \in Conns : c = n.map[id] /\ n.con[c].thr
    BY <2>3, <1>1 DEF Tables, Tied
  <2>5. PICK r : r = n.con[c] /\ IsRec(r) /\ Good(r, a[c])
    BY <2>4, <1>1 DEF Tables, Shape
  <2>6. Sent(r, a[c]) /\ Wired(r) /\ Same(r, r) /\ r.life # "none"
    BY <2>4, <2>5 DEF Good, Watched, Wired, Same
  <2>7. PICK b : b = [a EXCEPT ![c] = Append(@, m)]
    OBVIOUS
  <2>8. /\ accepted' = b
        /\ \E o \in SendOutcomes([r EXCEPT !.msgs = Append(@, m)]) : net' = Sending(n, c, SendMessage(r, m, o))
    BY <2>1, <2>3, <2>4, <2>5, <2>7, <1>1 DEF DoSendMessage, Con, Sending
  <2>9. PICK o \in SendOutcomes([r EXCEPT !.msgs = Append(@, m)]) : net' = Sending(n, c, SendMessage(r, m, o))
    BY <2>8
  <2>10. PICK g : g = Sending(n, c, SendMessage(r, m, o))
    OBVIOUS
  <2>11. Tables(g, b) /\ SameMade(n, g) /\ b = [x \in Conns |-> b[x]]
    BY <2>2, <2>5, <2>6, <2>7, <2>10, <1>1, TakingKeeps
  <2>12. net' = g
    BY <2>9, <2>10
  <2>13. SameMade(net, g)
    BY <2>11, <1>1
  <2> QED
    BY <1>0, <1>2, <1>4, <2>8, <2>11, <2>12, <2>13, StepKeeps
<1>7. CASE op.k = "close" /\ ~UNCHANGED <<net, accepted>>
  <2>1. DoCloseConnection(id)
    BY <1>2, <1>3, <1>7 DEF ProcessOp
  <2>2. accepted' = a
    BY <2>1, <1>1 DEF DoCloseConnection
  <2>3. id \in DOMAIN net.map
    BY <2>1, <1>7 DEF DoCloseConnection
  <2>4. PICK c \in Conns : c = n.map[id] /\ n.con[c].thr
    BY <2>3, <1>1 DEF Tables, Tied
  <2>5. PICK o \in SendOutcomes(n.con[c]) : net' = SafeClose(n, c, o)
    BY <2>1, <2>3, <2>4, <1>1 DEF DoCloseConnection, Con
  <2>6. PICK g : g = SafeClose(n, c, o)
    OBVIOUS
  <2>7. Tables(g, a) /\ SameMade(n, g)
    BY <2>4, <2>6, <1>1, SafeCloseKeeps
  <2>8. net' = g /\ SameMade(net, g)
    BY <2>5, <2>6, <2>7, <1>1
  <2> QED
    BY <1>0, <1>1, <1>2, <1>4, <2>2, <2>7, <2>8, StepKeeps
<1>8. op.k \in {"send", "close"}
  BY <1>2 DEF Ops
<1> QED
  BY <1>5, <1>6, <1>7, <1>8

\* A connection the loop still has can be recycled.
LEMMA AttachedKeeps ==
  ASSUME NEW n, NEW acc, NEW c \in Conns, Tables(n, acc), n.con[c].life # "none"
  PROVE  Tables(Recycle(n, c), acc) /\ SameMade(n, Recycle(n, c))
<1>1. Loose(n, acc, c)
  BY DEF Tables, Loose, Good, Watched
<1> QED
  BY <1>1, RecycleKeeps

\* The copy of an expired timer may name a connection that has been detached,
\* which then does nothing, or none that was ever made.
LEMMA FireKeeps == ASSUME IInv, Fire PROVE IInv'
<1>0. left \in Plan /\ ops \in Seq(Ops) /\ batch \in Seq(Events(net))
  BY DEF IInv
<1>1. PICK n, a : n = net /\ a = accepted /\ Tables(n, a) /\ a = [c \in Conns |-> a[c]]
  BY DEF IInv, Held
<1>2. PICK c, id : c = Head(expired).con /\ id = Head(expired).key.id
  OBVIOUS
<1>3. UNCHANGED <<ops, batch, accepted>>
  BY DEF Fire, Crash
<1>4. CASE UNCHANGED net
  <2>1. left' \in Plan
    BY <1>0, SpendKeeps DEF Fire, Counts
  <2> QED
    BY <2>1, <1>0, <1>3, <1>4, QuietKeeps
<1>5. CASE net' = Recycle(n, c) /\ n.con[c].thr /\ UNCHANGED left
  <2>1. PICK g : g = Recycle(n, c)
    OBVIOUS
  <2>2. Tables(g, a) /\ SameMade(n, g)
    <3>1. CASE c \in Conns
      <4>1. n.con[c].life # "none"
        BY <3>1, <1>1, <1>5 DEF Tables, Good, Watched, Wired
      <4> QED
        BY <3>1, <4>1, <2>1, <1>1, AttachedKeeps
    <3>2. CASE c \notin Conns
      <4>1. Tables(g, a) /\ g.con = n.con
        BY <3>2, <2>1, <1>1, RecycleOutside
      <4> QED
        BY <4>1 DEF SameMade
    <3> QED
      BY <3>1, <3>2
  <2>3. net' = g /\ accepted' = a /\ SameMade(net, g)
    BY <2>1, <2>2, <1>1, <1>3, <1>5
  <2> QED
    BY <1>0, <1>1, <1>3, <1>5, <2>2, <2>3, StepKeeps
<1>6. ASSUME NEW t \in Timeouts, n.con[c].thr, Spend("timers"), net' = StartTimer(n, c, id, t)
      PROVE  IInv'
  <2>1. PICK g : g = StartTimer(n, c, id, t)
    OBVIOUS
  <2>2. Tables(g, a) /\ SameMade(n, g)
    BY <2>1, <1>1, <1>6, StartTimerKeeps
  <2>3. left' \in Plan
    BY <1>0, <1>6, SpendKeeps DEF Counts
  <2>4. net' = g /\ accepted' = a /\ SameMade(net, g)
    BY <2>1, <2>2, <1>1, <1>3, <1>6
  <2> QED
    BY <1>0, <1>1, <1>3, <2>2, <2>3, <2>4, StepKeeps
<1>7. \/ UNCHANGED net
      \/ net' = Recycle(n, c) /\ n.con[c].thr /\ UNCHANGED left
      \/ \E t \in Timeouts : n.con[c].thr /\ Spend("timers") /\ net' = StartTimer(n, c, id, t)
  BY <1>1, <1>2 DEF Fire, Crash, Con
<1> QED
  BY <1>4, <1>5, <1>6, <1>7

LEMMA EventTaken ==
  ASSUME IInv, NEW kind, Event(kind)
  PROVE  /\ batch' \in Seq(Events(net))
         /\ kind \in {"R", "W"} => Here \in Conns /\ net.con[Here].life # "none"
<1>1. batch \in Seq(Events(net)) /\ batch # <<>> /\ batch' = Tail(batch) /\ Head(batch)[2] = kind
  BY DEF IInv, Event
<1>2. Head(batch) \in Events(net) /\ Tail(batch) \in Seq(Events(net))
  BY <1>1, HeadTailProperties
<1>3. kind \in {"R", "W"} => Head(batch)[1] \in MadeOf(net)
  BY <1>1, <1>2 DEF Events
<1> QED
  BY <1>1, <1>2, <1>3 DEF MadeOf, Here

LEMMA WriteKeeps == ASSUME IInv, WriteEvent PROVE IInv'
<1>0. left \in Plan /\ ops \in Seq(Ops)
  BY DEF IInv
<1>1. PICK n, a : n = net /\ a = accepted /\ Tables(n, a) /\ a = [c \in Conns |-> a[c]]
  BY DEF IInv, Held
<1>2. batch' \in Seq(Events(net)) /\ Here \in Conns /\ n.con[Here].life # "none"
  BY <1>1, EventTaken DEF WriteEvent
<1>3. UNCHANGED <<ops, left, accepted>>
  BY DEF WriteEvent
<1>4. CASE net' = net
  BY <1>0, <1>2, <1>3, <1>4, QuietKeeps
<1>5. CASE net' # net
  <2>1. PICK c \in Conns : c = Here /\ n.con[c].life # "none"
    BY <1>2
  <2>2. PICK o \in SendOutcomes(n.con[c]) : net' = Sending(n, c, DoSend(n.con[c], o[1], o[2]))
    BY <2>1, <1>1, <1>5 DEF WriteEvent, Con, Sending
  <2>3. PICK g : g = Sending(n, c, DoSend(n.con[c], o[1], o[2]))
    OBVIOUS
  <2>4. PICK r : r = n.con[c] /\ IsRec(r) /\ Good(r, a[c])
    BY <1>1 DEF Tables, Shape
  <2>5. Sent(r, a[c]) /\ Wired(r) /\ Same(r, n.con[c])
    BY <2>4 DEF Good, Watched, Same
  <2>6. Tables(g, a) /\ SameMade(n, g)
    BY <2>1, <2>3, <2>4, <2>5, <1>1, SendingKeeps DEF Tables
  <2>7. net' = g /\ accepted' = a /\ SameMade(net, g)
    BY <2>2, <2>3, <2>6, <1>1, <1>3
  <2> QED
    BY <1>0, <1>1, <1>2, <1>3, <2>6, <2>7, StepKeeps
<1> QED
  BY <1>4, <1>5

LEMMA ReadKeeps == ASSUME IInv, ReadEvent PROVE IInv'
<1>0. left \in Plan /\ ops \in Seq(Ops)
  BY DEF IInv
<1>1. PICK n, a : n = net /\ a = accepted /\ Tables(n, a) /\ a = [c \in Conns |-> a[c]]
  BY DEF IInv, Held
<1>2. batch' \in Seq(Events(net)) /\ Here \in Conns /\ n.con[Here].life # "none"
  BY <1>1, EventTaken DEF ReadEvent
<1>3. UNCHANGED ops
  BY DEF ReadEvent
<1>4. PICK c \in Conns : c = Here /\ n.con[c].life # "none"
  BY <1>2
<1>5. PICK r : r = [n.con[c] EXCEPT !.in = 0]
  OBVIOUS
<1>6. PICK q : q = n.con[c] /\ IsRec(q) /\ Good(q, a[c])
  BY <1>1 DEF Tables, Shape
<1>7. /\ IsRec(r) /\ Same(r, n.con[c]) /\ r.msgs = q.msgs /\ r.out = q.out /\ r.start = q.start
      /\ r.noti = q.noti /\ r.epoll = q.epoll /\ r = [q EXCEPT !.in = 0, !.fin = q.fin] /\ r.fin = q.fin
  BY <1>5, <1>6 DEF IsRec, Fields, NewCon, Same
<1>8. Sent(r, a[c]) /\ Wired(r)
  <2>1. Sent(q, a[c]) /\ Wired(q)
    BY <1>6 DEF Good, Watched
  <2>2. Sent(r, a[c])
    BY <2>1, <1>7 DEF Sent
  <2>3. Wired(r)
    BY <2>1, <1>6, <1>7 DEF Wired, Same
  <2> QED
    BY <2>2, <2>3
<1>9. \/ UNCHANGED <<net, accepted, left>>
      \/ net' = Recycle(n, c) /\ UNCHANGED <<accepted, left>>
      \/ net' = SetCon(n, c, r) /\ UNCHANGED <<accepted, left>>
      \/ /\ Spend("sends") /\ accepted' = [a EXCEPT ![c] = Append(@, <<"send", left.sends>>)]
         /\ \E o \in SendOutcomes([r EXCEPT !.msgs = Append(@, 0)]) :
               net' = Sending(n, c, SendMessage(r, <<"send", left.sends>>, o))
  BY <1>1, <1>4, <1>5 DEF ReadEvent, Con, Sending
<1>10. CASE UNCHANGED <<net, accepted, left>>
  BY <1>0, <1>2, <1>3, <1>10, QuietKeeps
<1>11. CASE net' = Recycle(n, c) /\ UNCHANGED <<accepted, left>>
  <2>1. PICK g : g = Recycle(n, c)
    OBVIOUS
  <2>2. Tables(g, a) /\ SameMade(n, g)
    BY <2>1, <1>1, <1>4, AttachedKeeps
  <2>3. net' = g /\ accepted' = a /\ SameMade(net, g)
    BY <2>1, <2>2, <1>1, <1>11
  <2> QED
    BY <1>0, <1>1, <1>2, <1>3, <1>11, <2>2, <2>3, StepKeeps
<1>12. CASE net' = SetCon(n, c, r) /\ UNCHANGED <<accepted, left>>
  <2>1. PICK g : g = SetCon(n, c, r)
    OBVIOUS
  <2>2. Tables(g, a) /\ SameMade(n, g)
    BY <2>1, <1>1, <1>4, <1>6, <1>7, PeerKeeps
  <2>3. net' = g /\ accepted' = a /\ SameMade(net, g)
    BY <2>1, <2>2, <1>1, <1>12
  <2> QED
    BY <1>0, <1>1, <1>2, <1>3, <1>12, <2>2, <2>3, StepKeeps
<1>13. CASE /\ Spend("sends") /\ accepted' = [a EXCEPT ![c] = Append(@, <<"send", left.sends>>)]
            /\ \E o \in SendOutcomes([r EXCEPT !.msgs = Append(@, 0)]) :
                  net' = Sending(n, c, SendMessage(r, <<"send", left.sends>>, o))
  <2>1. left' \in Plan /\ left["sends"] \in Nat
    BY <1>0, <1>13, SpendKeeps DEF Counts
  <2>2. PICK m \in Msgs : m = <<"send", left.sends>>
    BY <2>1 DEF Msgs
  <2>3. PICK o : o \in SendOutcomes([r EXCEPT !.msgs = Append(@, 0)]) /\ net' = Sending(n, c, SendMessage(r, m, o))
    BY <1>13, <2>2
  <2>4. SendOutcomes([r EXCEPT !.msgs = Append(@, 0)]) = SendOutcomes([r EXCEPT !.msgs = Append(@, m)])
    <3>1. PICK T : T = Msgs \cup {0}
      OBVIOUS
    <3>2. r.msgs \in Seq(T)
      <4>1. r.msgs \in Seq(Msgs)
        BY <1>8 DEF Sent
      <4> QED
        BY <3>1, <4>1, SeqMonotonic
    <3>3. Len(Append(r.msgs, 0)) = Len(Append(r.msgs, m))
      BY <3>1, <3>2, AppendProperties
    <3>4. PICK x, y : x = [r EXCEPT !.msgs = Append(@, 0)] /\ y = [r EXCEPT !.msgs = Append(@, m)]
      OBVIOUS
    <3>5. x.msgs = Append(r.msgs, 0) /\ y.msgs = Append(r.msgs, m) /\ x.start = y.start
      BY <3>4, <1>7 DEF IsRec, Fields, NewCon
    <3> QED
      BY <3>3, <3>4, <3>5, OutcomesSame
  <2>5. PICK b : b = [a EXCEPT ![c] = Append(@, m)]
    OBVIOUS
  <2>6. PICK g : g = Sending(n, c, SendMessage(r, m, o))
    OBVIOUS
  <2>7. Tables(g, b) /\ SameMade(n, g) /\ b = [x \in Conns |-> b[x]]
    BY <2>3, <2>4, <2>5, <2>6, <1>1, <1>4, <1>7, <1>8, TakingKeeps
  <2>8. net' = g /\ accepted' = b /\ SameMade(net, g)
    BY <2>2, <2>3, <2>5, <2>6, <2>7, <1>1, <1>13
  <2> QED
    BY <1>0, <1>2, <1>3, <2>1, <2>7, <2>8, StepKeeps
<1> QED
  BY <1>9, <1>10, <1>11, <1>12, <1>13

\* The destructor takes the first connection of m_con_map; an empty map is <<>>.
LEMMA DestroyKeeps == ASSUME IInv, Destroy PROVE IInv'
<1>0. left \in Plan /\ ops \in Seq(Ops) /\ batch \in Seq(Events(net))
  BY DEF IInv
<1>1. PICK n, a : n = net /\ a = accepted /\ Tables(n, a) /\ a = [c \in Conns |-> a[c]]
  BY DEF IInv, Held
<1>2. UNCHANGED <<ops, batch, left, accepted>>
  BY DEF Destroy
<1>3. CASE n.map = <<>>
  BY <1>0, <1>1, <1>2, <1>3, QuietKeeps DEF Destroy
<1>4. CASE n.map # <<>>
  <2>1. PICK D : D = DOMAIN n.map
    OBVIOUS
  <2>2. D # {}
    <3>1. SUFFICES ASSUME D = {} PROVE FALSE
      OBVIOUS
    <3>2. n.map = [i \in D |-> n.map[i]]
      BY <2>1, <1>1 DEF Tables, Shape
    <3>3. n.map = <<>>
      BY <3>1, <3>2
    <3> QED
      BY <3>3, <1>4
  <2>3. D \subseteq Nat
    BY <2>1, <1>1 DEF Tables, Tied
  <2>4. \E i \in D : \A j \in D : i <= j
    <3>1. PICK i \in D : \A j \in D : <<j, i>> \notin OpToRel(<, Nat)
      BY <2>2, <2>3, NatLessThanWellFounded, WFMin
    <3>2. \A j \in D : ~(j < i)
      BY <3>1, <2>3 DEF OpToRel
    <3> QED
      BY <3>2, <2>3
  <2>5. PICK first : first = CHOOSE i \in D : \A j \in D : i <= j
    OBVIOUS
  <2>6. first \in D
    BY <2>4, <2>5
  <2>7. PICK c \in Conns : c = n.map[first] /\ n.con[c].thr
    BY <2>1, <2>6, <1>1 DEF Tables, Tied
  <2>8. PICK g : g = Recycle(n, c)
    OBVIOUS
  <2>9. n.con[c].life # "none"
    BY <2>7, <1>1 DEF Tables, Good, Watched, Wired
  <2>10. Tables(g, a) /\ SameMade(n, g)
    BY <2>8, <2>9, <1>1, AttachedKeeps
  <2>11. net' = g /\ accepted' = a /\ SameMade(net, g)
    BY <2>1, <2>5, <2>7, <2>8, <2>10, <1>1, <1>4 DEF Destroy
  <2> QED
    BY <1>0, <1>1, <1>2, <2>10, <2>11, StepKeeps
<1> QED
  BY <1>3, <1>4

\* A new connection joins those made, and its timer, if on_create starts one, the map.
LEMMA AcceptKeeps == ASSUME IInv, AcceptEvent PROVE IInv'
<1>0. left \in Plan /\ ops \in Seq(Ops) /\ IsFiniteSet(MadeOf(net))
  BY DEF IInv, Held
<1>1. PICK n, a : n = net /\ a = accepted /\ Tables(n, a) /\ a = [c \in Conns |-> a[c]]
  BY DEF IInv, Held
<1>2. batch' \in Seq(Events(net)) /\ UNCHANGED <<ops, accepted>>
  BY EventTaken DEF AcceptEvent
<1>3. left' \in Plan
  <2>1. CASE Spend("clients")
    BY <2>1, <1>0, SpendKeeps DEF Counts
  <2>2. CASE /\ left.clients > 0 /\ left.timers > 0
             /\ left' = [left EXCEPT !.clients = @ - 1, !.timers = @ - 1]
    <3>1. PICK x \in Nat, y \in Nat : x = left.clients - 1 /\ y = left.timers - 1
      <4>1. left.clients \in Nat /\ left.timers \in Nat
        BY <1>0 DEF Plan
      <4> QED
        BY <4>1, <2>2
    <3>2. left' = [left EXCEPT !.clients = x, !.timers = y]
      BY <2>2, <3>1, <1>0 DEF Plan
    <3> QED
      BY <3>2, <1>0 DEF Plan
  <2> QED
    BY <2>1, <2>2 DEF AcceptEvent
<1>4. CASE net' = net
  BY <1>0, <1>2, <1>3, <1>4, QuietKeeps
<1>5. CASE net' # net
  <2>0. PICK id0 : id0 = IF left.registers THEN 1 + Cardinality(Made) ELSE 0
    OBVIOUS
  <2>1. PICK c \in Conns \ Made :
          \/ net' = OnCreate(c, id0)
          \/ \E id \in TimerIds, t \in Timeouts : net' = StartTimer(OnCreate(c, id0), c, id, t)
    BY <1>5, <2>0 DEF AcceptEvent
  <2>2. id0 \in Nat
    <3>1. Cardinality(Made) \in Nat
      BY <1>0, MadeIsMade, FS_CardinalityType
    <3> QED
      BY <2>0, <3>1
  <2>3. n.con[c].life = "none" /\ c \in Conns
    BY <2>1, <1>1, MadeIsMade DEF MadeOf
  <2>4. PICK m : m = OnCreate(c, id0)
    OBVIOUS
  <2>5. Tables(m, a) /\ m.con[c].thr /\ m.con[c].life = "live" /\ SameOthers(n, m, c)
    BY <2>2, <2>3, <2>4, <1>1, OnCreateKeeps DEF OnCreate
  <2>6. PICK g : g = net'
    OBVIOUS
  <2>7. Tables(g, a) /\ SameMade(m, g)
    <3>1. CASE g = m
      BY <3>1, <2>5 DEF SameMade
    <3>2. CASE g # m
      <4>1. PICK id, t : g = StartTimer(m, c, id, t)
        BY <3>2, <2>1, <2>4, <2>6
      <4> QED
        BY <4>1, <2>5, StartTimerKeeps
    <3> QED
      BY <3>1, <3>2
  <2>8. MadeOf(g) = MadeOf(n) \cup {c}
    BY <2>3, <2>5, <2>7 DEF MadeOf, SameMade, SameOthers
  <2>9. IsFiniteSet(MadeOf(g))
    <3>1. PICK M : M = MadeOf(n) /\ IsFiniteSet(M)
      BY <1>0, <1>1
    <3>2. IsFiniteSet(M \cup {c})
      BY <3>1, FS_AddElement
    <3> QED
      BY <2>8, <3>1, <3>2
  <2>10. batch' \in Seq(Events(g))
    <3>1. Events(n) \subseteq Events(g)
      BY <2>8 DEF Events
    <3>2. batch' \in Seq(Events(n))
      BY <1>1, <1>2
    <3> QED
      BY <3>1, <3>2, SeqMonotonic
  <2>11. net' = g /\ accepted' = a /\ Held(g, a)
    BY <2>6, <2>7, <2>9, <1>1, <1>2 DEF Held
  <2>12. ops' \in Seq(Ops)
    BY <1>0, <1>2 DEF IInv
  <2> QED
    BY <2>10, <2>11, <2>12, <1>3 DEF IInv
<1> QED
  BY <1>4, <1>5

LEMMA Invariance == Spec => []IInv
<1>1. IInv /\ [Next]_vars => IInv'
  <2> SUFFICES ASSUME IInv, [Next]_vars PROVE IInv'
    OBVIOUS
  <2>1. CASE Others
    BY <2>1, PostsKeep, QuietStepsKeep, ThreadTimersKeep, PeersKeep DEF Others
  <2>2. CASE Loop
    BY <2>2, QuietStepsKeep, OpsKeep, FireKeeps, EraseKeeps, WaitReturnsKeeps, AcceptKeeps,
       ReadKeeps, WriteKeeps DEF Loop
  <2>3. CASE Destroy
    BY <2>3, DestroyKeeps
  <2>4. CASE UNCHANGED vars
    BY <2>4, QuietKeeps DEF vars, IInv
  <2> QED
    BY <2>1, <2>2, <2>3, <2>4 DEF Next
<1> QED
  BY <1>1, InitHolds, PTL DEF Spec

-----------------------------------------------------------------------------
(* What follows *)

\* Every connection that has been deleted is in no table of the loop and not in
\* the epoll set, whatever connections and timers the application has started.
THEOREM NothingLeftDangling == Spec => []NothingDangling
<1>1. IInv => NothingDangling
  <2> SUFFICES ASSUME IInv PROVE NothingDangling
    OBVIOUS
  <2>1. PICK n : n = net /\ Tables(n, accepted)
    BY DEF IInv, Held
  <2>2. SUFFICES ASSUME NEW c \in Conns, n.con[c].life # "live"
                 PROVE  c \notin Range(n.map) /\ c \notin Range(n.timers) /\ n.con[c].epoll = {}
    BY <2>1 DEF NothingDangling, Live, Con
  <2>3. ~n.con[c].thr /\ n.con[c].epoll = {}
    BY <2>1, <2>2 DEF Tables, Good, Watched, Wired
  <2>4. \A i \in DOMAIN n.map : n.con[n.map[i]].thr
    BY <2>1 DEF Tables, Tied
  <2>5. \A k \in DOMAIN n.timers : n.timers[k] \in Conns => n.con[n.timers[k]].thr
    BY <2>1 DEF Tables, Tied
  <2> QED
    BY <2>3, <2>4, <2>5 DEF Range
<1> QED
  BY <1>1, Invariance, PTL

\* The bytes a peer has got are the first bytes of the messages accepted for its
\* connection.
LEMMA PrefixSent ==
  ASSUME NEW r, NEW a, Sent(r, a)
  PROVE  IsPrefix(r.out, [i \in 1..(Len(a) * MsgLen) |->
                            <<a[1 + ((i - 1) \div MsgLen)], (i - 1) % MsgLen>>])
<1>1. PICK len \in Nat \ {0} : len = MsgLen
  BY NetConstants
<1>2. PICK m \in Nat, all \in Nat, outs \in Nat :
        m = Len(r.msgs) /\ all = Len(a) /\ outs = Len(r.out) /\ m <= all
  BY LenProperties DEF Sent
<1>3. PICK base \in Nat, st \in 0..(len - 1) : base = all - m /\ st = r.start
  <2>1. r.start \in 0..(len - 1)
    BY <1>1 DEF Sent
  <2>2. all - m \in Nat
    BY <1>2
  <2> QED
    BY <2>1, <2>2
<1>4. outs = base * len + st /\ \A j \in 1..outs : r.out[j] = <<a[1 + ((j - 1) \div len)], (j - 1) % len>>
  BY <1>1, <1>2, <1>3 DEF Sent
<1>5. outs <= all * len
  <2>1. PICK u \in Nat : u = base * len
    OBVIOUS
  <2>2. CASE m = 0
    <3>1. st = 0
      <4>1. r.msgs = <<>>
        BY <2>2, <1>2, EmptySeq DEF Sent
      <4> QED
        BY <4>1, <1>3 DEF Sent
    <3>2. base = all
      BY <2>2, <1>3
    <3> QED
      BY <3>1, <3>2, <2>1, <1>4
  <2>3. CASE m # 0
    <3>1. PICK x \in Nat : x = m - 1
      BY <2>3
    <3>2. all = (base + 1) + x
      BY <3>1, <1>2, <1>3
    <3>3. all * len = (base + 1) * len + x * len /\ (base + 1) * len = base * len + 1 * len
      BY <3>2, Products
    <3>4. PICK v \in Nat : v = x * len
      OBVIOUS
    <3>5. all * len = u + len + v
      BY <3>3, <3>4, <2>1
    <3>6. outs = u + st
      BY <2>1, <1>4
    <3> QED
      BY <3>5, <3>6
  <2> QED
    BY <2>2, <2>3
<1>6. PICK w : w = [i \in 1..(all * len) |-> <<a[1 + ((i - 1) \div len)], (i - 1) % len>>]
  OBVIOUS
<1>7. all * len \in Nat
  OBVIOUS
<1>8. PICK bytes \in Nat : bytes = all * len
  BY <1>7
<1>9. Len(w) = bytes /\ \A i \in 1..bytes : w[i] = <<a[1 + ((i - 1) \div len)], (i - 1) % len>>
  BY <1>6, <1>8
<1>10. \A i \in 1..outs : w[i] = r.out[i]
  <2> SUFFICES ASSUME NEW i \in 1..outs PROVE w[i] = r.out[i]
    OBVIOUS
  <2>1. outs <= bytes
    BY <1>5, <1>8
  <2>2. i \in 1..bytes
    BY <2>1
  <2>3. w[i] = <<a[1 + ((i - 1) \div len)], (i - 1) % len>>
    BY <2>2, <1>9
  <2>4. r.out[i] = <<a[1 + ((i - 1) \div len)], (i - 1) % len>>
    BY <1>4
  <2> QED
    BY <2>3, <2>4
<1>11. PICK T : T = Msgs \X Nat
  OBVIOUS
<1>12. r.out \in Seq(T) /\ \A i \in 1..outs : r.out[i] \in T
  BY <1>2, <1>11, ElementOfSeq DEF Sent
<1>13. SubSeq(r.out, 1, outs) = SubSeq(w, 1, outs)
  BY <1>10
<1> QED
  BY <1>1, <1>2, <1>5, <1>6, <1>8, <1>9, <1>13 DEF IsPrefix

\* Every peer gets the bytes of the accepted messages, each whole, once and in
\* order, however the socket cuts them, and what is left is always watched for.
THEOREM BytesInOrder == Spec => []InOrder
<1>1. IInv => InOrder
  <2> SUFFICES ASSUME IInv PROVE InOrder
    OBVIOUS
  <2>1. PICK n, acc : n = net /\ acc = accepted /\ Tables(n, acc)
    BY DEF IInv, Held
  <2>2. ASSUME NEW c \in Made
        PROVE  IsPrefix(n.con[c].out, [i \in 1..(Len(acc[c]) * MsgLen) |->
                            <<acc[c][1 + ((i - 1) \div MsgLen)], (i - 1) % MsgLen>>])
    <3>1. c \in Conns
      BY DEF Made
    <3>2. PICK r, a : r = n.con[c] /\ a = acc[c] /\ Sent(r, a)
      BY <3>1, <2>1 DEF Tables, Good
    <3> QED
      BY <3>2, PrefixSent
  <2>3. ASSUME NEW c \in Live, n.con[c].msgs # <<>> PROVE "W" \in n.con[c].epoll
    <3>1. c \in Conns /\ n.con[c].life = "live" /\ Good(n.con[c], acc[c])
      BY <2>1 DEF Live, Con, Tables
    <3> QED
      BY <3>1, <2>3 DEF Good, Watched, Wired
  <2> QED
    BY <2>1, <2>2, <2>3 DEF InOrder, Con
<1> QED
  BY <1>1, Invariance, PTL
=============================================================================
