---------------------------- MODULE ServersProofs ----------------------------
(***************************************************************************)
(* connection_server, for any number of connections, threads and messages. *)
(*                                                                         *)
(* Tables: whoever is in the table of sessions or has a timer exists; a    *)
(* connection has at most the timer its key names, so recycling it leaves  *)
(* none behind, but for one whose on_create has not noted the key yet.     *)
(* Streams: the buffer of a connection begins where a message does         *)
(* (Boundary), whatever part of the stream has arrived, until something is *)
(* lost.  Watched: a client's timer is due between now and two periods     *)
(* after its last message, and a pass of process_timer leaves one only     *)
(* when there are more clients than it handles.                            *)
(*                                                                         *)
(* Processor: at each place of a request, what its worker knows is true of *)
(* the table of messages, which only grows, and it holds one result for    *)
(* each query it has not freed (ProcInv).                                  *)
(***************************************************************************)
EXTENDS ConnectionServer, Processor, SequenceTheorems, FiniteSetTheorems, TLAPS

Fields == DOMAIN NewCon
Gone(a) == [NewCon EXCEPT !.stage = "gone", !.at = a]
Keys == Nat \X Nat
Msg == ClientCmds \cup ServerCmds

RecTyped(r) == /\ DOMAIN r = Fields
               /\ r.stage \in {"none", "created", "notified", "gone"}
               /\ r.thr \in NetThreads
               /\ r.at \in {"no", "watched", "noted", "added", "done"}
               /\ r.timer \in Keys \cup {<<>>}
               /\ r.key = IF r.at = "done" THEN r.timer ELSE <<>>
               /\ r.at \in {"no", "watched", "noted"} => r.timer = <<>>
               /\ r.stage = "none" => r = NewCon
ConTyped == con = [c \in Conns |-> con[c]] /\ \A c \in Conns : RecTyped(con[c])
TimersTyped == /\ timers = [t \in NetThreads |-> timers[t]]
               /\ \A t \in NetThreads : \A k \in DOMAIN timers[t] :
                     timers[t][k] \in Conns /\ k \in Keys

RestTyped == /\ nextId \in [{"client", "server"} -> Nat]
             /\ busy \in [NetThreads -> Conns \cup {NoCon}]
             /\ accepting \in Conns \cup {NoCon}
             /\ now \in Nat
\* The record of the connection of the timer k of thread t.
Entered(r, t, k) == \/ r.stage \in {"created", "notified"} /\ r.thr = t /\ r.timer = k
                    \/ r.stage = "gone" /\ r.at = "added"

Typed == ConTyped /\ TimersTyped /\ RestTyped

InTables ==
    /\ \A s \in DOMAIN group : /\ group[s] \in Conns
                               /\ Alive(group[s]) /\ con[group[s]].sess = s
    /\ \A t \in NetThreads : \A k \in DOMAIN timers[t] : Entered(con[timers[t][k]], t, k)
    /\ \A t \in NetThreads : busy[t] # NoCon =>
          con[busy[t]].stage = "notified" /\ con[busy[t]].thr = t

Tables == Typed /\ InTables

\* The L cells x of the N messages s: each is of one of them ...
InMessages(s, N, x, L) ==
    \A i \in 1..L : x[i][1] \in 1..N /\ x[i][2] \in 1..(s[x[i][1]].len)
\* ... which is there as a whole ...
Wholes(s, x, L) ==
    \A i \in 1..L : \A j \in 1..(s[x[i][1]].len) :
        i - x[i][2] + j \in 1..L /\ x[i - x[i][2] + j] = <<x[i][1], j>>
\* ... the next one follows ...
Follows(s, N, x, L) ==
    \A i \in 1..L : x[i][2] = s[x[i][1]].len =>
        IF i < L THEN x[i + 1] = <<x[i][1] + 1, 1>> ELSE x[i][1] = N
\* ... and none comes twice.
Ascends(x, L) ==
    \A i, j \in 1..L : i < j => x[i][1] < x[j][1] \/ (x[i][1] = x[j][1] /\ x[i][2] < x[j][2])

Cells(s, x) ==
    /\ s \in Seq(Msg) /\ x \in Seq(Nat \X Nat)
    /\ InMessages(s, Len(s), x, Len(x)) /\ Wholes(s, x, Len(x))
    /\ Follows(s, Len(s), x, Len(x)) /\ Ascends(x, Len(x))

\* The messages h are handled, n cells taken.
Boundary(s, x, h, n) ==
    /\ h \in Seq(Msg) /\ Len(h) <= Len(s)
    /\ \A k \in 1..Len(h) : h[k] = s[k]
    /\ IF n < Len(x) THEN x[n + 1] = <<Len(h) + 1, 1>> ELSE Len(h) = Len(s)

Waits(r) == \/ r.noti = 0
            \/ Len(r.handled) < Len(r.sent) /\ r.noti = r.sent[Len(r.handled) + 1].len

Stream(r) ==
    /\ Cells(r.sent, r.cells)
    /\ Boundary(r.sent, r.cells, r.handled, r.taken)
    /\ r.rcvd \in 0..Len(r.cells) /\ r.taken \in 0..r.rcvd /\ r.noti \in Nat
    /\ ~r.split => Waits(r)

\* Until something of it is lost, which the ring has no room for, the stream of a
\* connection is all that was sent.
Kept(r) == /\ r.lost \in BOOLEAN /\ r.count \in Nat
           /\ r.lost => RingCap < r.count
           /\ ~r.lost => Stream(r) /\ Len(r.cells) = r.count

\* When no event of it runs, a connection has no complete message that it knows of.
Drained(r) == r.rcvd = r.taken \/ r.rcvd - r.taken < r.noti

Streams ==
    \A c \in Conns :
       /\ Kept(con[c])
       /\ Alive(c) /\ busy[con[c].thr] # c /\ ~con[c].split /\ ~con[c].lost => Drained(con[c])

\* Every client that exists is done with on_create, but the one on_create runs for,
\* whose timer is not due.
Noted ==
    /\ now > Period
    /\ \A c \in Conns : con[c].last \in Nat /\ con[c].last <= now /\ con[c].made \in Nat
    /\ \A c \in Conns : con[c].stage = "created" => c = accepting /\ con[c].at = "no"
    /\ \A c \in Clients : Alive(c) /\ c # accepting => con[c].at = "done"
    /\ \A c \in Servers : con[c].at \in {"no", "watched", "noted"}
    /\ accepting # NoCon /\ Alive(accepting) =>
         /\ con[accepting].made = now /\ con[accepting].last \in {0, now}
         /\ con[accepting].at # "done" /\ (accepting \in Servers => con[accepting].at # "noted")
         /\ con[accepting].at = "added" => con[accepting].timer[1] = now + Period

HasTimer(c) == /\ con[c].timer \in DOMAIN timers[con[c].thr]
               /\ timers[con[c].thr][con[c].timer] = c

\* When the timer of a client is due.
DueIn(c) == /\ now <= con[c].timer[1] + pass[con[c].thr].late
            /\ con[c].timer[1] <= now + Period
            /\ con[c].timer[1] <= IF con[c].last = 0 THEN con[c].made + Period
                                                     ELSE con[c].last + 2 * Period

\* on_create has added the timer.
HasAdded(r) == r.stage \in {"created", "notified"} /\ r.at \in {"added", "done"}
Timed == \A c \in Clients : HasAdded(con[c]) => HasTimer(c) /\ DueIn(c)

\* With no more clients than a pass handles, a thread never waits with a timer due:
\* whose timer the pass has handled has none that is due.
PassOf(t) ==
    /\ DOMAIN pass[t] = {"done", "rest", "late"}
    /\ pass[t].done \in SUBSET Clients /\ IsFiniteSet(pass[t].done)
    /\ Cardinality(pass[t].done) <= TimerMax
    /\ pass[t].rest \in Nat /\ pass[t].late \in Nat
    /\ ~Crowded => /\ pass[t].rest = 0 /\ pass[t].late = 0
                   /\ ~crashed => \A k \in DOMAIN timers[t] :
                                     timers[t][k] \in pass[t].done => k[1] > now
Passes == pass = [t \in NetThreads |-> pass[t]] /\ \A t \in NetThreads : PassOf(t)

Watched == Noted /\ Passes /\ (~collided => Timed)
-----------------------------------------------------------------------------
(* Lemmas about the connections and the tables                             *)

\* What is found by, and the stream, of a connection stays.
SameEntry(r, q) == /\ r.thr = q.thr /\ r.sess = q.sess
                   /\ r.timer = q.timer /\ r.key = q.key /\ r.at = q.at
SameStream(r, q) ==
    /\ r.sent = q.sent /\ r.cells = q.cells /\ r.rcvd = q.rcvd /\ r.taken = q.taken
    /\ r.noti = q.noti /\ r.split = q.split /\ r.handled = q.handled
    /\ r.count = q.count /\ r.lost = q.lost

\* The fields of a connection.
LEMMA FieldsAre ==
  /\ Fields = {"stage", "at", "thr", "sess", "made", "last", "timer", "key", "sent", "count",
               "cells", "rcvd", "taken", "noti", "split", "lost", "handled", "closed"}
  /\ NewCon.stage = "none" /\ NewCon.thr = 0 /\ NewCon.key = <<>> /\ NewCon.last = 0
  /\ NewCon.at = "no" /\ NewCon.timer = <<>> /\ NewCon.made = 0
  BY DEF Fields, NewCon

LEMMA GoneIs ==
  ASSUME NEW a
  PROVE  /\ DOMAIN Gone(a) = Fields /\ Gone(a).stage = "gone" /\ Gone(a).at = a
         /\ Gone(a).thr = 0 /\ Gone(a).key = <<>> /\ Gone(a).timer = <<>>
         /\ Gone(a).last = 0 /\ Gone(a).made = 0 /\ SameStream(Gone(a), NewCon)
  BY DEF Fields, NewCon, Gone, SameStream

\* A connection becomes r, the others stay.
Becomes(c, r) == con'[c] = r /\ \A d \in Conns : d # c => con'[d] = con[d]

LEMMA ConChanges ==
  ASSUME ConTyped, NEW c \in Conns, NEW r, RecTyped(r), con' = [con EXCEPT ![c] = r]
  PROVE  ConTyped' /\ Becomes(c, r)
<1>1. con' = [d \in Conns |-> IF d = c THEN r ELSE con[d]]
  BY DEF ConTyped
<1>2. Becomes(c, r) /\ con' = [d \in Conns |-> con'[d]]
  BY <1>1 DEF Becomes
<1>3. \A d \in Conns : RecTyped(con'[d])
  BY <1>2 DEF ConTyped, Becomes
<1> QED
  BY <1>2, <1>3 DEF ConTyped, RecTyped

\* An entry taken out of a table.
LEMMA WithoutEntry ==
  ASSUME NEW f, NEW x
  PROVE  /\ DOMAIN Without(f, x) = DOMAIN f \ {x}
         /\ \A k \in DOMAIN f \ {x} : Without(f, x)[k] = f[k]
  BY DEF Without, Restrict

\* No step but those of the tables: who has an entry keeps what it is found by.
LEMMA QuietTables ==
  ASSUME Tables, Typed', group' = group, timers' = timers,
         \A c \in Conns : Alive(c) => /\ Alive(c)' /\ con'[c].thr = con[c].thr
                                      /\ con'[c].sess = con[c].sess
                                      /\ con'[c].timer = con[c].timer,
         \A c \in Conns : Orphan(c) => Orphan(c)',
         \A t \in NetThreads : busy'[t] # NoCon =>
            con'[busy'[t]].stage = "notified" /\ con'[busy'[t]].thr = t
  PROVE  Tables'
<1>1. \A s \in DOMAIN group : group[s] \in Conns /\ Alive(group[s])' /\ con'[group[s]].sess = s
  BY DEF Tables, InTables
<1>2. \A t \in NetThreads : \A k \in DOMAIN timers[t] : Entered(con'[timers[t][k]], t, k)
  BY DEF Tables, Typed, TimersTyped, InTables, Entered, Alive, Orphan
<1> QED
  BY <1>1, <1>2 DEF Tables, InTables

\* Recycling a connection takes it out of both tables.
LEMMA RecycleTables ==
  ASSUME Tables, NEW c \in Conns, Alive(c), Recycle(c),
         \A t \in NetThreads : busy'[t] = busy[t] \/ busy'[t] = NoCon,
         \A t \in NetThreads : busy'[t] # c,
         RestTyped'
  PROVE  Tables' /\ Becomes(c, Gone(con[c].at))
<1>0. PICK at, g : at = con[c].at /\ g = Gone(at)
  OBVIOUS
<1>1. /\ con' = [con EXCEPT ![c] = g]
      /\ timers' = [timers EXCEPT ![con[c].thr] = Without(@, con[c].key)]
      /\ group' = Without(group, con[c].sess)
  BY <1>0 DEF Recycle, Gone, DelTimer, Destroyed
<1>2. /\ RecTyped(con[c]) /\ at \in {"no", "watched", "noted", "added", "done"}
      /\ con[c].key = IF at = "done" THEN con[c].timer ELSE <<>>
      /\ at \in {"no", "watched", "noted"} => con[c].timer = <<>>
      /\ g.stage = "gone" /\ g.at = at /\ g.key = <<>> /\ g.timer = <<>>
      /\ g.thr = 0 /\ DOMAIN g = Fields
  BY <1>0, GoneIs DEF Tables, Typed, ConTyped, RecTyped
<1>2b. RecTyped(g)
  BY <1>2, ServerAssumption DEF RecTyped, NetThreads
<1>3. ConTyped' /\ Becomes(c, g)
  BY <1>1, <1>2b, ConChanges DEF Tables, Typed
<1>4. PICK h : h = con[c].thr /\ h \in NetThreads
  BY DEF Tables, Typed, ConTyped, RecTyped
<1>5. PICK w : w = Without(timers[h], con[c].key)
  OBVIOUS
<1>6. /\ timers' = [t \in NetThreads |-> IF t = h THEN w ELSE timers[t]]
      /\ DOMAIN w = DOMAIN timers[h] \ {con[c].key}
      /\ \A k \in DOMAIN w : w[k] = timers[h][k]
  <2>1. timers = [t \in NetThreads |-> timers[t]]
    BY DEF Tables, Typed, TimersTyped
  <2>2. timers' = [timers EXCEPT ![h] = w]
    BY <1>1, <1>4, <1>5, <2>1
  <2>3. PICK tm, k0 : tm = timers[h] /\ k0 = con[c].key
    OBVIOUS
  <2>4. w = Without(tm, k0)
    BY <1>5, <2>3
  <2>5. DOMAIN w = DOMAIN tm \ {k0} /\ \A k \in DOMAIN w : w[k] = tm[k]
    BY <2>4, WithoutEntry
  <2>6. timers' = [t \in NetThreads |-> IF t = h THEN w ELSE timers[t]]
    BY <2>1, <2>2
  <2> QED
    BY <2>3, <2>5, <2>6
<1>7. \A t \in NetThreads : \A k \in DOMAIN timers'[t] :
         /\ k \in DOMAIN timers[t] /\ timers'[t][k] = timers[t][k]
         /\ ~(t = h /\ k = con[c].key)
  BY <1>6
<1>8. TimersTyped'
  BY <1>6, <1>7 DEF TimersTyped, Tables, Typed
<1>9. \A t \in NetThreads : \A k \in DOMAIN timers'[t] : timers'[t][k] = c => at = "added"
  <2> SUFFICES ASSUME NEW t \in NetThreads, NEW k \in DOMAIN timers'[t], timers'[t][k] = c,
                      at # "added"
               PROVE  FALSE
    OBVIOUS
  <2>1. k \in DOMAIN timers[t] /\ timers[t][k] = c /\ ~(t = h /\ k = con[c].key)
    BY <1>7
  <2>2. Entered(con[c], t, k) /\ k \in Keys
    BY <2>1 DEF Tables, Typed, TimersTyped, InTables
  <2>3. con[c].thr = t /\ con[c].timer = k
    BY <2>2 DEF Entered, Alive
  <2>4. k # <<>>
    BY <2>2 DEF Keys
  <2>5. at = "done"
    BY <1>2, <2>3, <2>4
  <2> QED
    BY <1>2, <1>4, <2>1, <2>3, <2>5
<1>10. /\ DOMAIN group' = DOMAIN group \ {con[c].sess}
       /\ \A s \in DOMAIN group' : group'[s] = group[s]
  <2>1. PICK gr, s0 : gr = group /\ s0 = con[c].sess
    OBVIOUS
  <2>2. group' = Without(gr, s0)
    BY <1>1, <2>1
  <2>3. DOMAIN group' = DOMAIN gr \ {s0} /\ \A s \in DOMAIN group' : group'[s] = gr[s]
    BY <2>2, WithoutEntry
  <2> QED
    BY <2>1, <2>3
<1>11. \A s \in DOMAIN group' : group'[s] # c
  BY <1>10 DEF Tables, InTables
<1>12. InTables'
  <2>1. ASSUME NEW s \in DOMAIN group'
        PROVE  /\ group'[s] \in Conns
               /\ con'[group'[s]].stage \in {"created", "notified"} /\ con'[group'[s]].sess = s
    <3>1. /\ s \in DOMAIN group /\ group'[s] = group[s] /\ group[s] # c
      BY <1>10, <1>11
    <3>2. /\ group[s] \in Conns
          /\ con[group[s]].stage \in {"created", "notified"} /\ con[group[s]].sess = s
      BY <3>1 DEF Tables, InTables, Alive
    <3>3. con'[group[s]] = con[group[s]]
      BY <1>3, <3>1, <3>2 DEF Becomes
    <3> QED
      BY <3>1, <3>2, <3>3
  <2>2. ASSUME NEW t \in NetThreads, NEW k \in DOMAIN timers'[t]
        PROVE  Entered(con'[timers'[t][k]], t, k)
    <3>1. PICK d : d = timers[t][k]
      OBVIOUS
    <3>2. k \in DOMAIN timers[t] /\ timers'[t][k] = d /\ (d = c => at = "added")
      BY <1>7, <1>9, <3>1
    <3>3. d \in Conns /\ Entered(con[d], t, k)
      BY <3>1, <3>2 DEF Tables, Typed, TimersTyped, InTables
    <3>4. CASE d = c
      BY <1>2, <1>3, <3>2, <3>4 DEF Becomes, Entered
    <3>5. CASE d # c
      BY <1>3, <3>2, <3>3, <3>5 DEF Becomes
    <3> QED
      BY <3>4, <3>5
  <2>3. \A t \in NetThreads : busy'[t] # NoCon =>
           con'[busy'[t]].stage = "notified" /\ con'[busy'[t]].thr = t
    BY <1>3 DEF Tables, Typed, RestTyped, InTables, Becomes
  <2> QED
    BY <2>1, <2>2, <2>3 DEF InTables, Alive
<1>13. Typed'
  BY <1>3, <1>8 DEF Typed
<1> QED
  BY <1>0, <1>3, <1>12, <1>13 DEF Tables

\* A connection becomes r, and what it is found by stays.
LEMMA QuietCon ==
  ASSUME Tables, NEW c \in Conns, NEW r, RecTyped(r), con' = [con EXCEPT ![c] = r],
         Alive(c) => /\ r.stage \in {"created", "notified"} /\ r.thr = con[c].thr
                     /\ r.sess = con[c].sess /\ r.timer = con[c].timer,
         Orphan(c) => r.stage = "gone" /\ r.at = "added",
         con[c].stage = "notified" => r.stage = "notified",
         group' = group, timers' = timers, RestTyped',
         \A t \in NetThreads : \/ busy'[t] = busy[t] \/ busy'[t] = NoCon
                               \/ busy'[t] = c /\ r.stage = "notified" /\ r.thr = t
  PROVE  Tables' /\ Becomes(c, r)
<1>1. ConTyped' /\ Becomes(c, r)
  BY ConChanges DEF Tables, Typed
<1>2. TimersTyped'
  BY DEF Tables, Typed, TimersTyped
<1>3. \A d \in Conns : Alive(d) => /\ Alive(d)' /\ con'[d].thr = con[d].thr
                                   /\ con'[d].sess = con[d].sess
                                   /\ con'[d].timer = con[d].timer
  BY <1>1 DEF Becomes, Alive
<1>3b. \A d \in Conns : Orphan(d) => Orphan(d)'
  BY <1>1 DEF Becomes, Orphan
<1>4. \A t \in NetThreads : busy'[t] # NoCon =>
         con'[busy'[t]].stage = "notified" /\ con'[busy'[t]].thr = t
  <2>1. SUFFICES ASSUME NEW t \in NetThreads, busy'[t] # NoCon
                 PROVE  con'[busy'[t]].stage = "notified" /\ con'[busy'[t]].thr = t
    OBVIOUS
  <2>2. CASE busy'[t] = c /\ r.stage = "notified" /\ r.thr = t
    BY <1>1, <2>2 DEF Becomes
  <2>3. CASE busy'[t] = busy[t]
    <3>1. PICK d : d = busy[t]
      OBVIOUS
    <3>2. d \in Conns /\ con[d].stage = "notified" /\ con[d].thr = t
      BY <2>1, <2>3, <3>1 DEF Tables, Typed, RestTyped, InTables
    <3>3. con'[d].stage = "notified" /\ con'[d].thr = t
      BY <1>1, <1>3, <3>2 DEF Becomes, Alive
    <3> QED
      BY <2>3, <3>1, <3>3
  <2> QED
    BY <2>1, <2>2, <2>3
<1>5. Typed'
  BY <1>1, <1>2 DEF Typed
<1> QED
  BY <1>1, <1>3, <1>3b, <1>4, <1>5, QuietTables

\* A timer that is started replaces the one the connection had.
Restarted(c, h, key) ==
    /\ \A t \in NetThreads : t # h => timers'[t] = timers[t]
    /\ DOMAIN timers'[h] = (DOMAIN timers[h] \ {con[c].key}) \cup {key}
    /\ timers'[h][key] = c
    /\ \A k \in DOMAIN timers[h] \ {con[c].key} : k # key => timers'[h][k] = timers[h][k]

\* The map w of a thread h after it.
TimerPut(c, h, key, w) ==
    /\ timers' = [timers EXCEPT ![h] = w]
    /\ DOMAIN w = (DOMAIN timers[h] \ {con[c].key}) \cup {key}
    /\ \A k \in DOMAIN w : w[k] = IF k = key THEN c ELSE timers[h][k]

LEMMA PutTables ==
  ASSUME Tables, NEW c \in Conns, Alive(c), con[c].key = con[c].timer,
         NEW key \in Keys, NEW r, RecTyped(r), con' = [con EXCEPT ![c] = r],
         r.stage = con[c].stage, r.thr = con[c].thr, r.sess = con[c].sess, r.timer = key,
         NEW w, TimerPut(c, con[c].thr, key, w), group' = group, busy' = busy, RestTyped'
  PROVE  /\ Tables' /\ Becomes(c, r) /\ Restarted(c, con[c].thr, key)
<1>1. PICK h : h = con[c].thr /\ h \in NetThreads
  BY DEF Tables, Typed, ConTyped, RecTyped
<1>2. timers' = [t \in NetThreads |-> IF t = h THEN w ELSE timers[t]]
  <2>1. timers = [t \in NetThreads |-> timers[t]]
    BY DEF Tables, Typed, TimersTyped
  <2>2. timers' = [timers EXCEPT ![h] = w]
    BY <1>1 DEF TimerPut
  <2> QED
    BY <2>1, <2>2
<1>3. ConTyped' /\ Becomes(c, r)
  BY ConChanges DEF Tables, Typed
<1>4. PICK tm, k0 : tm = timers[h] /\ k0 = con[c].key
  OBVIOUS
<1>5. /\ DOMAIN w = (DOMAIN tm \ {k0}) \cup {key}
      /\ \A k \in DOMAIN w : w[k] = IF k = key THEN c ELSE tm[k]
  BY <1>1, <1>4 DEF TimerPut
<1>6. Restarted(c, h, key)
  BY <1>1, <1>2, <1>4, <1>5 DEF Restarted
<1>7. \A t \in NetThreads : \A k \in DOMAIN timers'[t] :
         \/ t = h /\ k = key /\ timers'[t][k] = c
         \/ k \in DOMAIN timers[t] /\ timers'[t][k] = timers[t][k] /\ ~(t = h /\ k = k0)
  BY <1>2, <1>4, <1>5
<1>8. TimersTyped'
  BY <1>2, <1>7 DEF TimersTyped, Tables, Typed
<1>9. ASSUME NEW t \in NetThreads, NEW k \in DOMAIN timers'[t]
      PROVE  Entered(con'[timers'[t][k]], t, k)
  <2>1. CASE t = h /\ k = key /\ timers'[t][k] = c
    BY <1>1, <1>3, <2>1 DEF Becomes, Alive, Entered
  <2>2. CASE k \in DOMAIN timers[t] /\ timers'[t][k] = timers[t][k] /\ ~(t = h /\ k = k0)
    <3>1. PICK d : d = timers[t][k]
      OBVIOUS
    <3>2. d \in Conns /\ Entered(con[d], t, k)
      BY <2>2, <3>1 DEF Tables, Typed, TimersTyped, InTables
    <3>3. d # c
      BY <1>1, <1>4, <2>2, <3>2 DEF Entered, Alive
    <3>4. con'[d] = con[d]
      BY <1>3, <3>2, <3>3 DEF Becomes
    <3> QED
      BY <2>2, <3>1, <3>2, <3>4
  <2> QED
    BY <1>7, <2>1, <2>2
<1>10. \A d \in Conns : con'[d].stage = con[d].stage /\ con'[d].thr = con[d].thr
                         /\ con'[d].sess = con[d].sess
  BY <1>3 DEF Becomes
<1>11. \A s \in DOMAIN group : /\ group[s] \in Conns
         /\ con'[group[s]].stage \in {"created", "notified"} /\ con'[group[s]].sess = s
  BY <1>10 DEF Tables, InTables, Alive
<1>12. \A t \in NetThreads : busy[t] # NoCon =>
          con'[busy[t]].stage = "notified" /\ con'[busy[t]].thr = t
  BY <1>10 DEF Tables, Typed, RestTyped, InTables
<1>13. InTables'
  BY <1>9, <1>11, <1>12 DEF InTables, Alive
<1> QED
  BY <1>1, <1>3, <1>6, <1>8, <1>13 DEF Tables, Typed

\* The key of a timer started now.
LEMMA KeyNow ==
  ASSUME Tables, NEW us \in Micros PROVE <<now + Period, us>> \in Keys
<1>1. now + Period \in Nat /\ us \in Nat
  BY ServerAssumption DEF Tables, Typed, RestTyped, Micros
<1> QED
  BY <1>1 DEF Keys

LEMMA StartTables ==
  ASSUME Tables, NEW c \in Conns, Alive(c), con[c].at = "done",
         NEW us \in Micros, StartTimer(c, us), group' = group, busy' = busy, RestTyped'
  PROVE  /\ Tables'
         /\ \E r : /\ Becomes(c, r) /\ r.stage = con[c].stage /\ r.thr = con[c].thr
                   /\ r.sess = con[c].sess /\ r.at = "done" /\ SameStream(r, con[c])
                   /\ r.timer = <<now + Period, us>> /\ r.key = <<now + Period, us>>
                   /\ r.last = con[c].last /\ r.made = con[c].made
         /\ Restarted(c, con[c].thr, <<now + Period, us>>)
         /\ ~collided' => /\ ~collided
                          /\ <<now + Period, us>> \notin
                               DOMAIN timers[con[c].thr] \ {con[c].key}
<1>1. PICK h : h = con[c].thr /\ h \in NetThreads
  BY DEF Tables, Typed, ConTyped, RecTyped
<1>2. PICK key : key = <<now + Period, us>> /\ key \in Keys
  BY KeyNow
<1>3. PICK tm, k0 : tm = timers[h] /\ k0 = con[c].key
  OBVIOUS
<1>4. PICK r : r = [con[c] EXCEPT !.timer = key, !.key = key]
  OBVIOUS
<1>5. RecTyped(con[c])
  BY DEF Tables, Typed, ConTyped
<1>6. /\ DOMAIN r = Fields /\ r.stage = con[c].stage /\ r.thr = con[c].thr
      /\ r.sess = con[c].sess /\ r.at = con[c].at /\ r.timer = key /\ r.key = key
      /\ r.last = con[c].last /\ r.made = con[c].made /\ SameStream(r, con[c])
  BY <1>4, <1>5, FieldsAre DEF RecTyped, SameStream
<1>7. RecTyped(r) /\ k0 = con[c].timer
  BY <1>2, <1>3, <1>5, <1>6 DEF RecTyped, Alive
<1>8. PICK old : old = Without(tm, k0)
  OBVIOUS
<1>9. DOMAIN old = DOMAIN tm \ {k0} /\ \A k \in DOMAIN old : old[k] = tm[k]
  BY <1>8, WithoutEntry
<1>10. PICK w : w = [k \in DOMAIN old \cup {key} |-> IF k = key THEN c ELSE old[k]]
  OBVIOUS
<1>11. timers' = [timers EXCEPT ![h] = w] /\ con' = [con EXCEPT ![c].timer = key, ![c].key = key]
  BY <1>1, <1>2, <1>3, <1>8, <1>10 DEF StartTimer, DelTimer, AddTimer
<1>12. con' = [con EXCEPT ![c] = r]
  BY <1>4, <1>11 DEF Tables, Typed, ConTyped
<1>13. TimerPut(c, con[c].thr, key, w)
  BY <1>1, <1>3, <1>9, <1>10, <1>11 DEF TimerPut
<1>14. Tables' /\ Becomes(c, r) /\ Restarted(c, con[c].thr, key)
  BY <1>2, <1>3, <1>6, <1>7, <1>12, <1>13, PutTables
<1>15. ~collided' => ~collided /\ key \notin DOMAIN old
  BY <1>1, <1>2, <1>3, <1>8 DEF StartTimer, DelTimer
<1> QED
  BY <1>1, <1>2, <1>3, <1>6, <1>9, <1>14, <1>15
-----------------------------------------------------------------------------
(* Every step keeps the tables                                             *)

LEMMA InitTables == Init => Tables
<1> SUFFICES ASSUME Init PROVE Tables
  OBVIOUS
<1>1. ConTyped
  <2>1. 0 \in NetThreads
    BY ServerAssumption DEF NetThreads
  <2>2. RecTyped(NewCon)
    BY <2>1, FieldsAre DEF RecTyped, Fields
  <2> QED
    BY <2>2 DEF Init, ConTyped
<1>2. RestTyped
  BY ServerAssumption DEF Init, RestTyped
<1>3. TimersTyped /\ InTables
  BY DEF Init, TimersTyped, InTables
<1> QED
  BY <1>1, <1>2, <1>3 DEF Tables, Typed

LEMMA AcceptTables ==
  ASSUME Tables, NEW c \in Conns, Accept(c)
  PROVE  /\ Tables' /\ con[c] = NewCon
         /\ \E r : /\ Becomes(c, r) /\ r.stage = "created" /\ SameStream(r, NewCon)
                   /\ r.at = "no" /\ r.key = <<>> /\ r.last = 0 /\ r.made = now
<1>1. PICK kind \in {"client", "server"} : nextId' = [nextId EXCEPT ![kind] = @ + 1]
        /\ con' = [con EXCEPT ![c].stage = "created",
                              ![c].thr = nextId[kind] % ThreadCount, ![c].made = now,
                              ![c].sess = IF c \in Clients THEN session + 1 ELSE 0]
  BY DEF Accept
<1>2. PICK th, se : /\ th = nextId[kind] % ThreadCount
                    /\ se = IF c \in Clients THEN session + 1 ELSE 0
  OBVIOUS
<1>3. th \in NetThreads
  BY <1>2, ServerAssumption DEF Tables, Typed, RestTyped, NetThreads
<1>4. PICK r : r = [con[c] EXCEPT !.stage = "created", !.thr = th, !.made = now, !.sess = se]
  OBVIOUS
<1>5. con[c].stage = "none" /\ RecTyped(con[c])
  BY DEF Accept, Tables, Typed, ConTyped
<1>6. con[c] = NewCon
  BY <1>5 DEF RecTyped
<1>7. /\ DOMAIN r = Fields /\ r.stage = "created" /\ r.thr = th /\ r.at = "no"
      /\ r.timer = <<>> /\ r.key = <<>> /\ r.last = 0 /\ r.made = now /\ SameStream(r, NewCon)
  BY <1>4, <1>6, FieldsAre DEF SameStream, NewCon, Fields
<1>8. RecTyped(r)
  BY <1>3, <1>7 DEF RecTyped
<1>9. con' = [con EXCEPT ![c] = r]
  BY <1>1, <1>2, <1>4 DEF Tables, Typed, ConTyped
<1>10. RestTyped'
  BY <1>1 DEF Accept, Tables, Typed, RestTyped
<1>11. group' = group /\ timers' = timers /\ busy' = busy
  BY DEF Accept
<1>12. Tables' /\ Becomes(c, r)
  BY <1>5, <1>8, <1>9, <1>10, <1>11, QuietCon DEF Alive, Orphan
<1> QED
  BY <1>6, <1>7, <1>12

LEMMA SetNotifyTables ==
  ASSUME Tables, Noted, SetNotify
  PROVE  /\ Tables'
         /\ \E c \in Conns : \E r :
              /\ c = accepting /\ con[c].stage = "created" /\ Becomes(c, r)
              /\ r.stage = "notified" /\ r.at = "watched" /\ SameStream(r, con[c])
              /\ r.thr = con[c].thr /\ r.last = con[c].last /\ r.made = con[c].made
<1>1. PICK c \in Conns : c = accepting
  BY DEF SetNotify, Tables, Typed, RestTyped
<1>2. PICK r : r = [con[c] EXCEPT !.stage = "notified", !.at = "watched"]
  OBVIOUS
<1>3. con[c].stage = "created" /\ RecTyped(con[c]) /\ con[c].at = "no"
  BY <1>1 DEF SetNotify, Tables, Typed, ConTyped, Noted
<1>4. /\ DOMAIN r = Fields /\ r.stage = "notified" /\ r.at = "watched" /\ r.thr = con[c].thr
      /\ r.sess = con[c].sess /\ r.timer = con[c].timer /\ r.key = con[c].key
      /\ SameStream(r, con[c]) /\ r.last = con[c].last /\ r.made = con[c].made
  BY <1>2, <1>3, FieldsAre DEF RecTyped, SameStream
<1>5. RecTyped(r)
  BY <1>3, <1>4 DEF RecTyped
<1>6. con' = [con EXCEPT ![c] = r]
  BY <1>1, <1>2 DEF SetNotify, Tables, Typed, ConTyped
<1>7. RestTyped' /\ group' = group /\ timers' = timers /\ busy' = busy
  BY DEF SetNotify, Tables, Typed, RestTyped
<1>8. Tables' /\ Becomes(c, r)
  BY <1>3, <1>4, <1>5, <1>6, <1>7, QuietCon DEF Alive, Orphan
<1> QED
  BY <1>1, <1>3, <1>4, <1>8

LEMMA NotiWrittenTables ==
  ASSUME Tables, NotiWritten
  PROVE  /\ Tables'
         /\ \E c \in Conns : \E r :
              /\ c = accepting /\ con[c].at = "watched" /\ Becomes(c, r)
              /\ r.stage = con[c].stage /\ r.at = "noted" /\ SameStream(r, con[c])
              /\ r.key = con[c].key /\ r.thr = con[c].thr
              /\ r.last = con[c].last /\ r.made = con[c].made
<1>1. PICK c \in Conns : c = accepting
  BY DEF NotiWritten, Tables, Typed, RestTyped
<1>2. PICK r : r = [con[c] EXCEPT !.at = "noted"]
  OBVIOUS
<1>3. RecTyped(con[c]) /\ con[c].at = "watched"
  BY <1>1 DEF NotiWritten, Tables, Typed, ConTyped
<1>4. /\ DOMAIN r = Fields /\ r.stage = con[c].stage /\ r.at = "noted" /\ r.thr = con[c].thr
      /\ r.sess = con[c].sess /\ r.timer = con[c].timer /\ r.key = con[c].key
      /\ SameStream(r, con[c]) /\ r.last = con[c].last /\ r.made = con[c].made
  BY <1>2, <1>3, FieldsAre DEF RecTyped, SameStream
<1>5. con[c].stage # "none"
  BY <1>3, FieldsAre DEF RecTyped
<1>6. RecTyped(r)
  BY <1>3, <1>4, <1>5 DEF RecTyped
<1>7. con' = [con EXCEPT ![c] = r]
  BY <1>1, <1>2 DEF NotiWritten, Tables, Typed, ConTyped
<1>8. group' = group /\ timers' = timers /\ busy' = busy /\ RestTyped'
  BY DEF NotiWritten, Tables, Typed, RestTyped
<1>9. Tables' /\ Becomes(c, r)
  BY <1>3, <1>4, <1>6, <1>7, <1>8, QuietCon DEF Alive, Orphan
<1> QED
  BY <1>1, <1>3, <1>4, <1>9

\* The timer of a client that on_create runs for is its first.
LEMMA OnCreateTimerTables ==
  ASSUME Tables, NEW us \in Micros, OnCreateTimer(us)
  PROVE  /\ Tables'
         /\ \E c \in Conns : c = accepting /\ con[c].at = "noted" /\
              \/ con' = con /\ timers' = timers /\ collided' = collided
              \/ /\ Alive(c) /\ Restarted(c, con[c].thr, <<now + Period, us>>)
                 /\ \E r : /\ Becomes(c, r) /\ r.stage = con[c].stage /\ r.thr = con[c].thr
                           /\ r.at = "added" /\ SameStream(r, con[c])
                           /\ r.timer = <<now + Period, us>> /\ r.key = <<>>
                           /\ r.last = con[c].last /\ r.made = con[c].made
                 /\ ~collided' => /\ ~collided
                                  /\ <<now + Period, us>> \notin
                                       DOMAIN timers[con[c].thr] \ {con[c].key}
<1>1. PICK c \in Conns : c = accepting
  BY DEF OnCreateTimer, Tables, Typed, RestTyped
<1>2. con[c].at = "noted" /\ RecTyped(con[c])
  BY <1>1 DEF OnCreateTimer, Tables, Typed, ConTyped
<1>3. RestTyped' /\ group' = group /\ busy' = busy
  BY DEF OnCreateTimer, Tables, Typed, RestTyped
<1>4. CASE ~Alive(c)
  <2>1. con' = con /\ timers' = timers /\ collided' = collided
    BY <1>1, <1>4 DEF OnCreateTimer
  <2>2. ConTyped' /\ TimersTyped'
    BY <2>1 DEF Tables, Typed, ConTyped, TimersTyped, RecTyped
  <2>3. InTables'
    BY <1>3, <2>1 DEF Tables, InTables, Alive
  <2> QED
    BY <1>1, <1>2, <1>3, <2>1, <2>2, <2>3 DEF Tables, Typed
<1>5. CASE Alive(c)
  <2>1. PICK key : key = <<now + Period, us>> /\ key \in Keys
    BY KeyNow
  <2>2. PICK r : r = [con[c] EXCEPT !.timer = key, !.at = "added"]
    OBVIOUS
  <2>3. /\ DOMAIN r = Fields /\ r.stage = con[c].stage /\ r.thr = con[c].thr
        /\ r.sess = con[c].sess /\ r.at = "added" /\ r.timer = key /\ r.key = con[c].key
        /\ r.last = con[c].last /\ r.made = con[c].made /\ SameStream(r, con[c])
    BY <1>2, <2>2, FieldsAre DEF RecTyped, SameStream
  <2>4. RecTyped(r) /\ con[c].key = <<>> /\ con[c].timer = <<>>
    BY <1>2, <1>5, <2>1, <2>3 DEF RecTyped, Alive
  <2>5. PICK h : h = con[c].thr /\ h \in NetThreads
    BY <1>2 DEF RecTyped
  <2>6. PICK tm : tm = timers[h]
    OBVIOUS
  <2>7. PICK w : w = [k \in DOMAIN tm \cup {key} |-> IF k = key THEN c ELSE tm[k]]
    OBVIOUS
  <2>8. /\ timers' = [timers EXCEPT ![h] = w]
        /\ con' = [con EXCEPT ![c].timer = key, ![c].at = "added"]
        /\ collided' = (collided \/ key \in DOMAIN tm)
    BY <1>1, <1>5, <2>1, <2>5, <2>6, <2>7 DEF OnCreateTimer, AddTimer
  <2>9. con' = [con EXCEPT ![c] = r]
    BY <2>2, <2>8 DEF Tables, Typed, ConTyped
  <2>10. DOMAIN tm \ {<<>>} = DOMAIN tm
    <3>1. \A k \in DOMAIN tm : k # <<>>
      BY <2>5, <2>6 DEF Tables, Typed, TimersTyped, Keys
    <3> QED
      BY <3>1
  <2>11. TimerPut(c, con[c].thr, key, w)
    BY <2>4, <2>5, <2>6, <2>7, <2>8, <2>10 DEF TimerPut
  <2>12. Tables' /\ Becomes(c, r) /\ Restarted(c, con[c].thr, key)
    BY <1>3, <1>5, <2>1, <2>3, <2>4, <2>9, <2>11, PutTables
  <2>13. ~collided' => ~collided /\ key \notin DOMAIN timers[con[c].thr] \ {con[c].key}
    BY <2>5, <2>6, <2>8
  <2> QED
    BY <1>1, <1>2, <1>5, <2>1, <2>3, <2>4, <2>12, <2>13
<1> QED
  BY <1>4, <1>5

LEMMA OnCreateEndsTables ==
  ASSUME Tables, OnCreateEnds
  PROVE  /\ Tables'
         /\ \E c \in Conns : c = accepting /\ con[c].at = "added" /\
              \/ con' = con /\ ~Alive(c)
              \/ \E r : /\ Becomes(c, r) /\ Alive(c) /\ r.stage = con[c].stage
                        /\ r.thr = con[c].thr /\ r.at = "done" /\ SameStream(r, con[c])
                        /\ r.timer = con[c].timer /\ r.key = con[c].timer
                        /\ r.last = con[c].last /\ r.made = con[c].made
<1>1. PICK c \in Conns : c = accepting
  BY DEF OnCreateEnds, Tables, Typed, RestTyped
<1>2. con[c].at = "added" /\ RecTyped(con[c])
  BY <1>1 DEF OnCreateEnds, Tables, Typed, ConTyped
<1>3. RestTyped' /\ group' = group /\ busy' = busy /\ timers' = timers
  BY DEF OnCreateEnds, Tables, Typed, RestTyped
<1>4. CASE ~Alive(c)
  <2>1. con' = con
    BY <1>1, <1>4 DEF OnCreateEnds
  <2>2. ConTyped' /\ TimersTyped'
    BY <1>3, <2>1 DEF Tables, Typed, ConTyped, TimersTyped, RecTyped
  <2>3. InTables'
    BY <1>3, <2>1 DEF Tables, InTables, Alive
  <2> QED
    BY <1>1, <1>2, <1>3, <1>4, <2>1, <2>2, <2>3 DEF Tables, Typed
<1>5. CASE Alive(c)
  <2>1. PICK key : key = con[c].timer
    OBVIOUS
  <2>2. PICK r : r = [con[c] EXCEPT !.key = key, !.at = "done"]
    OBVIOUS
  <2>3. /\ DOMAIN r = Fields /\ r.stage = con[c].stage /\ r.thr = con[c].thr
        /\ r.sess = con[c].sess /\ r.at = "done" /\ r.timer = con[c].timer /\ r.key = key
        /\ r.last = con[c].last /\ r.made = con[c].made /\ SameStream(r, con[c])
    BY <1>2, <2>2, FieldsAre DEF RecTyped, SameStream
  <2>4. RecTyped(r)
    BY <1>2, <1>5, <2>1, <2>3 DEF RecTyped, Alive
  <2>5. con' = [con EXCEPT ![c].key = key, ![c].at = "done"]
    BY <1>1, <1>5, <2>1 DEF OnCreateEnds
  <2>6. con' = [con EXCEPT ![c] = r]
    BY <2>2, <2>5 DEF Tables, Typed, ConTyped
  <2>7. Tables' /\ Becomes(c, r)
    BY <1>3, <1>5, <2>3, <2>4, <2>6, QuietCon DEF Alive, Orphan
  <2> QED
    BY <1>1, <1>2, <1>5, <2>1, <2>3, <2>7
<1> QED
  BY <1>4, <1>5

\* The peers and the events that only move data.
LEMMA DataTables ==
  ASSUME Tables, NEW c \in Conns, NEW r,
         con[c].stage = "notified",
         DOMAIN r = Fields, r.stage = "notified", SameEntry(r, con[c]),
         con' = [con EXCEPT ![c] = r],
         group' = group, timers' = timers, nextId' = nextId, accepting' = accepting, now' = now,
         busy' = busy \/ busy' = [busy EXCEPT ![con[c].thr] = c]
  PROVE  Tables' /\ Becomes(c, r)
<1>1. RecTyped(con[c])
  BY DEF Tables, Typed, ConTyped
<1>2. RecTyped(r)
  BY <1>1 DEF RecTyped, SameEntry
<1>3. PICK h : h = con[c].thr /\ h \in NetThreads
  BY <1>1 DEF RecTyped
<1>4. busy' \in [NetThreads -> Conns \cup {NoCon}]
      /\ \A t \in NetThreads : busy'[t] = busy[t] \/ (busy'[t] = c /\ r.thr = t)
  BY <1>3 DEF Tables, Typed, RestTyped, SameEntry
<1>5. RestTyped'
  BY <1>4 DEF Tables, Typed, RestTyped
<1> QED
  BY <1>2, <1>4, <1>5, QuietCon DEF Alive, Orphan, SameEntry

\* The cells of a message that is sent on the connection q.
CellsOf(q, m) == [i \in 1..m.len |-> <<Len(q.sent) + 1, i>>]

SentTo(q, m, r) ==
    /\ r.stage = "notified" /\ SameEntry(r, q) /\ r.last = q.last /\ r.made = q.made
    /\ r.sent = Append(q.sent, m) /\ r.cells = q.cells \o CellsOf(q, m)
    /\ r.count = q.count + m.len /\ r.lost = q.lost
    /\ r.rcvd = q.rcvd /\ r.taken = q.taken /\ r.noti = q.noti
    /\ r.split = q.split /\ r.handled = q.handled

LEMMA PeerSendsTables ==
  ASSUME Tables, NEW c \in Conns, NEW m, PeerSends(c, m)
  PROVE  /\ Tables' /\ con[c].stage = "notified"
         /\ \E r : Becomes(c, r) /\ SentTo(con[c], m, r)
<1>1. PICK x, r : /\ x = con[c].cells \o [i \in 1..m.len |-> <<Len(con[c].sent) + 1, i>>]
                  /\ r = [con[c] EXCEPT !.sent = Append(@, m), !.count = @ + m.len, !.cells = x]
  OBVIOUS
<1>2. con' = [con EXCEPT ![c] = r]
  BY <1>1 DEF PeerSends, Tables, Typed, ConTyped
<1>3. DOMAIN con[c] = Fields /\ con[c].stage = "notified"
  BY DEF Tables, Typed, ConTyped, RecTyped, PeerSends
<1>4. DOMAIN r = Fields /\ r.stage = "notified" /\ SameEntry(r, con[c])
  BY <1>1, <1>3, FieldsAre DEF SameEntry
<1>5. Tables' /\ Becomes(c, r)
  BY <1>2, <1>3, <1>4, DataTables DEF PeerSends
<1>6. /\ r.sent = Append(con[c].sent, m) /\ r.cells = x
      /\ r.last = con[c].last /\ r.made = con[c].made
      /\ r.count = con[c].count + m.len /\ r.lost = con[c].lost
      /\ x = con[c].cells \o CellsOf(con[c], m)
      /\ r.rcvd = con[c].rcvd /\ r.taken = con[c].taken /\ r.noti = con[c].noti
      /\ r.split = con[c].split /\ r.handled = con[c].handled
  BY <1>1, <1>3, FieldsAre DEF CellsOf
<1> QED
  BY <1>3, <1>4, <1>5, <1>6 DEF SentTo

LEMMA PeerClosesTables ==
  ASSUME Tables, NEW c \in Conns, PeerCloses(c)
  PROVE  /\ Tables' /\ con[c].stage = "notified"
         /\ \E r : /\ Becomes(c, r) /\ r.stage = "notified" /\ SameEntry(r, con[c])
                   /\ SameStream(r, con[c]) /\ r.last = con[c].last /\ r.made = con[c].made
<1>1. PICK r : r = [con[c] EXCEPT !.closed = TRUE]
  OBVIOUS
<1>2. con' = [con EXCEPT ![c] = r]
  BY <1>1 DEF PeerCloses, Tables, Typed, ConTyped
<1>3. DOMAIN con[c] = Fields /\ con[c].stage = "notified"
  BY DEF Tables, Typed, ConTyped, RecTyped, PeerCloses
<1>4. DOMAIN r = Fields /\ r.stage = "notified" /\ SameEntry(r, con[c])
  BY <1>1, <1>3, FieldsAre DEF SameEntry
<1>5. Tables' /\ Becomes(c, r)
  BY <1>2, <1>3, <1>4, DataTables DEF PeerCloses
<1>6. SameStream(r, con[c]) /\ r.last = con[c].last /\ r.made = con[c].made
  BY <1>1, <1>3, FieldsAre DEF SameStream
<1> QED
  BY <1>3, <1>4, <1>5, <1>6

\* The n cells that have arrived on the connection q: those that find room.
ArrivedAt(c, q, n, r) ==
    /\ r.stage = "notified" /\ SameEntry(r, q) /\ r.last = q.last /\ r.made = q.made
    /\ r.sent = q.sent /\ r.count = q.count /\ r.taken = q.taken /\ r.noti = q.noti
    /\ r.split = q.split /\ r.handled = q.handled
    /\ r.rcvd = q.rcvd + Fitting(c, n)
    /\ r.cells = SubSeq(q.cells, 1, r.rcvd) \o SubSeq(q.cells, q.rcvd + n + 1, Len(q.cells))
    /\ r.lost = (q.lost \/ Fitting(c, n) < n)

LEMMA ReceiveTables ==
  ASSUME Tables, NEW c \in Conns, NEW n, Receive(c, n)
  PROVE  /\ Tables' /\ con[c].stage = "notified" /\ con[c].thr \in NetThreads
         /\ \E r : Becomes(c, r) /\ ArrivedAt(c, con[c], n, r)
<1>1. PICK x, end, l, y, r :
         /\ x = con[c].cells /\ end = con[c].rcvd + Fitting(c, n)
         /\ l = (con[c].lost \/ Fitting(c, n) < n)
         /\ y = SubSeq(x, 1, end) \o SubSeq(x, con[c].rcvd + n + 1, Len(x))
         /\ r = [con[c] EXCEPT !.rcvd = end, !.cells = y, !.lost = l]
  OBVIOUS
<1>2. con' = [con EXCEPT ![c] = r]
  <2>1. con' = [con EXCEPT ![c].rcvd = end, ![c].cells = y, ![c].lost = l]
    BY <1>1 DEF Receive
  <2> QED
    BY <1>1, <2>1 DEF Tables, Typed, ConTyped
<1>3. DOMAIN con[c] = Fields /\ con[c].stage = "notified" /\ con[c].thr \in NetThreads
  BY DEF Tables, Typed, ConTyped, RecTyped, Receive
<1>4. DOMAIN r = Fields /\ r.stage = "notified" /\ SameEntry(r, con[c])
  BY <1>1, <1>3, FieldsAre DEF SameEntry
<1>5. Tables' /\ Becomes(c, r)
  BY <1>2, <1>3, <1>4, DataTables DEF Receive
<1>6. /\ r.sent = con[c].sent /\ r.cells = y /\ r.rcvd = end /\ r.lost = l
      /\ r.last = con[c].last /\ r.made = con[c].made /\ r.count = con[c].count
      /\ r.taken = con[c].taken /\ r.noti = con[c].noti
      /\ r.split = con[c].split /\ r.handled = con[c].handled
  BY <1>1, <1>3, FieldsAre
<1>7. ArrivedAt(c, con[c], n, r)
  BY <1>1, <1>4, <1>6 DEF ArrivedAt
<1> QED
  BY <1>3, <1>5, <1>7

LEMMA ReceiveEndTables ==
  ASSUME Tables, NEW c \in Conns, ReceiveEnd(c) PROVE Tables' /\ Becomes(c, Gone(con[c].at))
<1>1. Alive(c) /\ Recycle(c) /\ busy' = busy
  BY DEF ReceiveEnd, Alive
<1>2. \A t \in NetThreads : busy[t] # c
  <2>1. ASSUME NEW t \in NetThreads, busy[t] = c PROVE FALSE
    <3>1. c # NoCon
      BY ServerAssumption DEF Conns, NoCon
    <3>2. con[c].thr = t
      BY <2>1, <3>1 DEF Tables, InTables
    <3> QED
      BY <2>1, <3>1, <3>2 DEF ReceiveEnd, Idle
  <2> QED
    BY <2>1
<1>3. RestTyped'
  BY DEF ReceiveEnd, Tables, Typed, RestTyped
<1> QED
  BY <1>1, <1>2, <1>3, RecycleTables DEF RestTyped

\* handle_pack: the connection is recycled ...
LEMMA FailPackTables ==
  ASSUME Tables, NEW c \in Conns, busy[con[c].thr] = c, FailPack(c),
         nextId' = nextId, accepting' = accepting, now' = now
  PROVE  Tables' /\ Becomes(c, Gone(con[c].at))
<1>1. con[c].thr \in NetThreads /\ c # NoCon
  BY ServerAssumption DEF Tables, Typed, ConTyped, RecTyped, Conns, NoCon
<1>2. Alive(c)
  BY <1>1 DEF Tables, InTables, Alive
<1>3. PICK h : h = con[c].thr /\ h \in NetThreads
  BY <1>1
<1>4. busy' = [busy EXCEPT ![h] = NoCon]
  BY <1>3 DEF FailPack
<1>5. /\ busy' \in [NetThreads -> Conns \cup {NoCon}]
      /\ \A t \in NetThreads : busy'[t] = busy[t] \/ busy'[t] = NoCon
      /\ \A t \in NetThreads : t # h => busy'[t] = busy[t]
      /\ busy'[h] = NoCon
  BY <1>3, <1>4 DEF Tables, Typed, RestTyped
<1>6. \A t \in NetThreads : busy'[t] # c
  BY <1>1, <1>3, <1>5 DEF Tables, InTables
<1>7. RestTyped'
  BY <1>5 DEF Tables, Typed, RestTyped
<1> QED
  BY <1>2, <1>5, <1>6, <1>7, RecycleTables DEF FailPack, RestTyped

\* ... or it has read, and the table of sessions stays ...
LEMMA PackTables ==
  ASSUME Tables, NEW c \in Conns, busy[con[c].thr] = c, NEW r, PackIs(c, r),
         DOMAIN r = Fields, r.stage = con[c].stage, SameEntry(r, con[c]), group' = group,
         nextId' = nextId, accepting' = accepting, now' = now
  PROVE  Tables' /\ Becomes(c, [r EXCEPT !.last = IF c \in Clients THEN now ELSE @])
<1>1. con[c].thr \in NetThreads /\ c # NoCon
  BY ServerAssumption DEF Tables, Typed, ConTyped, RecTyped, Conns, NoCon
<1>2. con[c].stage = "notified"
  BY <1>1 DEF Tables, InTables
<1>3. PICK q : q = [r EXCEPT !.last = IF c \in Clients THEN now ELSE @]
  OBVIOUS
<1>4. DOMAIN q = Fields /\ q.stage = "notified" /\ SameEntry(q, con[c])
  BY <1>2, <1>3, FieldsAre DEF SameEntry
<1>5. con' = [con EXCEPT ![c] = q] /\ timers' = timers /\ busy' = busy
  BY <1>3 DEF PackIs
<1> QED
  BY <1>2, <1>3, <1>4, <1>5, DataTables

\* ... or it has logged in.
LEMMA LoginTables ==
  ASSUME Tables, NEW c \in Conns, busy[con[c].thr] = c, NEW r, PackIs(c, r),
         DOMAIN r = Fields, r.stage = con[c].stage, SameEntry(r, con[c]),
         group' = [s \in DOMAIN group \cup {con[c].sess} |->
                     IF s = con[c].sess THEN c ELSE group[s]],
         nextId' = nextId, accepting' = accepting, now' = now
  PROVE  Tables' /\ Becomes(c, [r EXCEPT !.last = IF c \in Clients THEN now ELSE @])
<1>1. con[c].thr \in NetThreads /\ c # NoCon
  BY ServerAssumption DEF Tables, Typed, ConTyped, RecTyped, Conns, NoCon
<1>2. con[c].stage = "notified"
  BY <1>1 DEF Tables, InTables
<1>3. PICK q : q = [r EXCEPT !.last = IF c \in Clients THEN now ELSE @]
  OBVIOUS
<1>4. DOMAIN q = Fields /\ q.stage = "notified" /\ SameEntry(q, con[c])
  BY <1>2, <1>3, FieldsAre DEF SameEntry
<1>5. con' = [con EXCEPT ![c] = q] /\ timers' = timers /\ busy' = busy
  BY <1>3 DEF PackIs
<1>6. RecTyped(q)
  BY <1>1, <1>2, <1>4 DEF RecTyped, SameEntry, Tables, Typed, ConTyped
<1>7. ConTyped' /\ Becomes(c, q)
  BY <1>5, <1>6, ConChanges DEF Tables, Typed
<1>8. RestTyped' /\ TimersTyped'
  BY <1>5 DEF Tables, Typed, RestTyped, TimersTyped
<1>9. \A d \in Conns : con'[d].stage = con[d].stage /\ con'[d].thr = con[d].thr
                        /\ con'[d].sess = con[d].sess /\ con'[d].timer = con[d].timer
                        /\ con'[d].at = con[d].at
  BY <1>2, <1>4, <1>7 DEF Becomes, SameEntry
<1>10. ASSUME NEW s \in DOMAIN group'
       PROVE  /\ group'[s] \in Conns
              /\ con'[group'[s]].stage \in {"created", "notified"} /\ con'[group'[s]].sess = s
  <2>1. PICK s0 : s0 = con[c].sess
    OBVIOUS
  <2>2. CASE s = s0
    BY <1>2, <1>9, <2>1, <2>2
  <2>3. CASE s # s0
    <3>1. s \in DOMAIN group /\ group'[s] = group[s]
      BY <2>1, <2>3
    <3>2. /\ group[s] \in Conns
          /\ con[group[s]].stage \in {"created", "notified"} /\ con[group[s]].sess = s
      BY <3>1 DEF Tables, InTables, Alive
    <3> QED
      BY <1>9, <3>1, <3>2
  <2> QED
    BY <2>2, <2>3
<1>11. \A t \in NetThreads : \A k \in DOMAIN timers[t] : Entered(con'[timers[t][k]], t, k)
  BY <1>9 DEF Tables, Typed, TimersTyped, InTables, Entered
<1>12. \A t \in NetThreads : busy[t] # NoCon =>
          con'[busy[t]].stage = "notified" /\ con'[busy[t]].thr = t
  BY <1>9 DEF Tables, Typed, RestTyped, InTables
<1>13. InTables'
  BY <1>5, <1>10, <1>11, <1>12 DEF InTables, Alive
<1> QED
  BY <1>3, <1>7, <1>8, <1>13 DEF Tables, Typed

\* The buffer of a connection is the part of its cells that came and is not taken.
LEMMA BufferIs ==
  ASSUME NEW c \in Conns, Stream(con[c])
  PROVE  /\ Len(Buffered(c)) = con[c].rcvd - con[c].taken
         /\ \A i \in Nat : 0 < i /\ con[c].taken + i <= con[c].rcvd =>
               Buffered(c)[i] = con[c].cells[con[c].taken + i]
         /\ Buffered(c) = <<>> <=> con[c].rcvd = con[c].taken
<1>1. PICK x, n, k : x = con[c].cells /\ n = con[c].taken /\ k = con[c].rcvd
  OBVIOUS
<1>2. x \in Seq(Nat \X Nat) /\ k \in 0..Len(x) /\ n \in 0..k
  BY <1>1 DEF Stream, Cells
<1>3. Len(SubSeq(x, n + 1, k)) = k - n
  BY <1>2
<1>4. \A i \in Nat : 0 < i /\ n + i <= k => SubSeq(x, n + 1, k)[i] = x[n + i]
  <2> SUFFICES ASSUME NEW i \in Nat, 0 < i, n + i <= k
               PROVE  SubSeq(x, n + 1, k)[i] = x[n + i]
    OBVIOUS
  <2>1. i \in 1..(k - n)
    BY <1>2
  <2> QED
    BY <1>2, <2>1
<1>5. SubSeq(x, n + 1, k) = <<>> <=> k = n
  <2>1. SubSeq(x, n + 1, k) \in Seq(Nat \X Nat)
    BY <1>2
  <2>2. SubSeq(x, n + 1, k) = <<>> <=> Len(SubSeq(x, n + 1, k)) = 0
    BY <2>1, EmptySeq
  <2> QED
    BY <1>2, <1>3, <2>2
<1> QED
  BY <1>1, <1>3, <1>4, <1>5 DEF Buffered

\* Nothing lost: a header of which two cells are there is that of the message sent.
LEMMA ShownIs ==
  ASSUME NEW c \in Conns, Stream(con[c]), Len(Buffered(c)) > 1
  PROVE  /\ con[c].taken \in Nat /\ con[c].rcvd \in Nat /\ con[c].taken + 1 < con[c].rcvd
         /\ First(c) = con[c].cells[con[c].taken + 1]
         /\ Message(c) \in Msg /\ Message(c).len \in Nat /\ ~Torn(c)
<1>1. PICK x, s, n, k, h : /\ x = con[c].cells /\ s = con[c].sent /\ n = con[c].taken
                           /\ k = con[c].rcvd /\ h = Len(con[c].handled)
  OBVIOUS
<1>2. x \in Seq(Nat \X Nat) /\ k \in 0..Len(x) /\ n \in 0..k /\ h \in Nat
  BY <1>1 DEF Stream, Cells, Boundary
<1>3. k - n > 1
  BY <1>1, BufferIs
<1>4. n + 1 < k /\ n + 1 \in 1..Len(x) /\ n + 2 <= k /\ n + 2 \in 1..Len(x) /\ n < Len(x)
  BY <1>2, <1>3
<1>5. Buffered(c)[1] = x[n + 1] /\ Buffered(c)[2] = x[n + 2]
  <2>1. \A i \in Nat : 0 < i /\ n + i <= k => Buffered(c)[i] = x[n + i]
    BY <1>1, BufferIs
  <2>2. 1 \in Nat /\ 0 < 1 /\ n + 1 <= k /\ 2 \in Nat /\ 0 < 2
    BY <1>2, <1>4
  <2>3. Buffered(c)[1] = x[n + 1]
    BY <2>1, <2>2
  <2>4. Buffered(c)[2] = x[n + 2]
    BY <1>4, <2>1, <2>2
  <2> QED
    BY <2>3, <2>4
<1>6. x[n + 1] = <<h + 1, 1>>
  BY <1>1, <1>4 DEF Stream, Boundary
<1>7. s \in Seq(Msg) /\ x[n + 1][1] \in 1..Len(s)
  BY <1>1, <1>4 DEF Stream, Cells, InMessages
<1>8. PICK m : m = s[x[n + 1][1]] /\ m \in Msg
  BY <1>7
<1>9. m.len \in Nat /\ m.len >= 2
  BY <1>8, ServerAssumption DEF Msg
<1>10. x[n + 2] = <<h + 1, 2>>
  <2>1. PICK i : i = n + 1
    OBVIOUS
  <2>2. i \in 1..Len(x) /\ x[i][1] = h + 1 /\ x[i][2] = 1 /\ m = s[x[i][1]]
    BY <1>4, <1>6, <1>8, <2>1
  <2>3. 2 \in 1..(s[x[i][1]].len)
    BY <1>9, <2>2
  <2>4. x[i - x[i][2] + 2] = <<x[i][1], 2>>
    BY <1>1, <2>2, <2>3 DEF Stream, Cells, Wholes
  <2> QED
    BY <1>2, <2>1, <2>2, <2>4
<1>11. ~Torn(c)
  BY <1>5, <1>6, <1>10 DEF Torn, First
<1>12. First(c) = x[n + 1] /\ Message(c) = m
  BY <1>1, <1>5, <1>8 DEF First, Message
<1> QED
  BY <1>1, <1>2, <1>4, <1>8, <1>9, <1>11, <1>12

\* What handle_pack makes of the connection q that it does not recycle: it has seen
\* a part of a header, waits for a message, or has taken the message.
Packed(q, r) ==
    /\ r.sent = q.sent /\ r.cells = q.cells /\ r.rcvd = q.rcvd
    /\ \/ /\ r.split /\ r.noti \in Nat /\ r.taken = q.taken /\ r.handled = q.handled
       \/ \E m : /\ q.taken + 1 < q.rcvd /\ q.cells[q.taken + 1][2] = 1
                 /\ m = q.sent[q.cells[q.taken + 1][1]] /\ r.split = q.split
                 /\ \/ r.noti = m.len /\ r.taken = q.taken /\ r.handled = q.handled
                    \/ /\ q.taken + m.len <= q.rcvd
                       /\ r.noti = 0 /\ r.taken = q.taken + m.len
                       /\ r.handled = Append(q.handled, m)

\* What it keeps, even of a stream of which something is lost.
SameRest(q, r) == /\ r.stage = q.stage /\ SameEntry(r, q) /\ r.made = q.made
                  /\ r.count = q.count /\ r.lost = q.lost
                  /\ r.sent = q.sent /\ r.cells = q.cells /\ r.rcvd = q.rcvd

\* The record r of handle_pack, before it notes the time.
PackedTo(c, r) ==
    /\ PackIs(c, r) /\ DOMAIN r = Fields /\ r.last = con[c].last /\ SameRest(con[c], r)
    /\ ~con[c].lost => Packed(con[c], r)
    /\ \/ group' = group
       \/ group' = [s \in DOMAIN group \cup {con[c].sess} |->
                      IF s = con[c].sess THEN c ELSE group[s]]

LEMMA HandlePackIs ==
  ASSUME Tables, NEW c \in Conns, HandlePack(c), ~con[c].lost => Stream(con[c])
  PROVE  /\ busy[con[c].thr] = c /\ (FailPack(c) \/ \E r : PackedTo(c, r))
         /\ nextId' = nextId /\ accepting' = accepting /\ now' = now /\ pass' = pass
         /\ collided' = collided /\ crashed' = crashed
<1>1. /\ busy[con[c].thr] = c /\ MorePacks(c)
      /\ nextId' = nextId /\ accepting' = accepting /\ now' = now /\ pass' = pass
      /\ collided' = collided /\ crashed' = crashed
  BY DEF HandlePack
<1>2. DOMAIN con[c] = Fields
  BY DEF Tables, Typed, ConTyped, RecTyped
<1>3. CASE Len(Buffered(c)) = 1 /\ SplitHeader(c) /\ ~FailPack(c)
  <2>1. PICK n \in Lens : PackIs(c, [con[c] EXCEPT !.noti = n, !.split = TRUE]) /\ group' = group
    BY <1>3 DEF SplitHeader
  <2>2. PICK r : r = [con[c] EXCEPT !.noti = n, !.split = TRUE]
    OBVIOUS
  <2>3. n \in Nat
    BY DEF Lens
  <2>4. DOMAIN r = Fields /\ r.last = con[c].last /\ SameRest(con[c], r)
    BY <1>2, <2>2, FieldsAre DEF SameEntry, SameRest
  <2>5. Packed(con[c], r)
    BY <1>2, <2>2, <2>3, FieldsAre DEF Packed
  <2>6. PackedTo(c, r)
    BY <2>1, <2>2, <2>4, <2>5 DEF PackedTo
  <2> QED
    BY <1>1, <2>6
<1>4. ASSUME Len(Buffered(c)) > 1, ~BadMagic(c), ~FailPack(c), NEW m \in Shown(c),
             \/ WaitForPack(c, m)
             \/ Len(Buffered(c)) >= m.len /\ (HandleClient(c, m) \/ HandleServer(c, m))
      PROVE  \E r : PackedTo(c, r)
  <2>1. First(c)[2] = 1
    BY <1>4 DEF BadMagic
  <2>2. ASSUME ~con[c].lost
        PROVE  /\ con[c].taken + 1 < con[c].rcvd /\ con[c].cells[con[c].taken + 1][2] = 1
               /\ m = con[c].sent[con[c].cells[con[c].taken + 1][1]]
               /\ m.len \in Nat /\ con[c].taken \in Nat /\ con[c].rcvd \in Nat
    <3>1. Stream(con[c])
      BY <2>2
    <3>2. m = Message(c)
      BY <1>4, <3>1, ShownIs DEF Shown
    <3> QED
      BY <1>4, <2>1, <3>1, <3>2, ShownIs DEF Message
  <2>3. CASE WaitForPack(c, m)
    <3>1. PICK r : r = [con[c] EXCEPT !.noti = m.len]
      OBVIOUS
    <3>2. PackIs(c, r) /\ group' = group
      BY <2>3, <3>1 DEF WaitForPack
    <3>3. DOMAIN r = Fields /\ r.last = con[c].last /\ SameRest(con[c], r)
      BY <1>2, <3>1, FieldsAre DEF SameEntry, SameRest
    <3>4. /\ r.sent = con[c].sent /\ r.cells = con[c].cells /\ r.rcvd = con[c].rcvd
          /\ r.noti = m.len /\ r.taken = con[c].taken /\ r.handled = con[c].handled
          /\ r.split = con[c].split
      BY <1>2, <3>1, FieldsAre
    <3>5. ~con[c].lost => Packed(con[c], r)
      BY <2>2, <3>4 DEF Packed
    <3>6. PackedTo(c, r)
      BY <3>2, <3>3, <3>5 DEF PackedTo
    <3> QED
      BY <3>6
  <2>4. CASE Len(Buffered(c)) >= m.len /\ (HandleClient(c, m) \/ HandleServer(c, m))
    <3>1. PICK r : r = Taken(con[c], m)
      OBVIOUS
    <3>2. HandleClient(c, m) =>
            \/ FailPack(c)
            \/ /\ PackIs(c, r)
               /\ \/ group' = group
                  \/ group' = [s \in DOMAIN group \cup {con[c].sess} |->
                                 IF s = con[c].sess THEN c ELSE group[s]]
      BY <3>1 DEF HandleClient
    <3>3. HandleServer(c, m) => FailPack(c) \/ (PackIs(c, r) /\ group' = group)
      BY <3>1 DEF HandleServer
    <3>4. /\ PackIs(c, r)
          /\ \/ group' = group
             \/ group' = [s \in DOMAIN group \cup {con[c].sess} |->
                            IF s = con[c].sess THEN c ELSE group[s]]
      BY <1>4, <2>4, <3>2, <3>3
    <3>5. DOMAIN r = Fields /\ r.last = con[c].last /\ SameRest(con[c], r)
      BY <1>2, <3>1, FieldsAre DEF SameEntry, SameRest, Taken
    <3>6. /\ r.sent = con[c].sent /\ r.cells = con[c].cells /\ r.rcvd = con[c].rcvd
          /\ r.noti = 0 /\ r.taken = con[c].taken + m.len /\ r.handled = Append(con[c].handled, m)
          /\ r.split = con[c].split
      BY <1>2, <3>1, FieldsAre DEF Taken
    <3>7. ASSUME ~con[c].lost PROVE con[c].taken + m.len <= con[c].rcvd
      BY <2>2, <2>4, <3>7, BufferIs
    <3>8. ~con[c].lost => Packed(con[c], r)
      BY <2>2, <3>6, <3>7 DEF Packed
    <3>9. PackedTo(c, r)
      BY <3>4, <3>5, <3>8 DEF PackedTo
    <3> QED
      BY <3>9
  <2> QED
    BY <1>4, <2>3, <2>4
<1>5. \/ FailPack(c)
      \/ Len(Buffered(c)) = 1 /\ SplitHeader(c)
      \/ /\ Len(Buffered(c)) > 1 /\ ~BadMagic(c)
         /\ \E m \in Shown(c) :
              \/ WaitForPack(c, m)
              \/ Len(Buffered(c)) >= m.len /\ (HandleClient(c, m) \/ HandleServer(c, m))
  BY DEF HandlePack
<1>6. FailPack(c) \/ \E r : PackedTo(c, r)
  BY <1>3, <1>4, <1>5
<1> QED
  BY <1>1, <1>6

LEMMA HandlePackTables ==
  ASSUME Tables, NEW c \in Conns, HandlePack(c), ~con[c].lost => Stream(con[c])
  PROVE  /\ Tables' /\ busy[con[c].thr] = c
         /\ \/ Becomes(c, Gone(con[c].at)) /\ FailPack(c)
            \/ \E r : /\ Becomes(c, r) /\ SameRest(con[c], r)
                      /\ ~con[c].lost => Packed(con[c], r)
                      /\ busy' = busy /\ timers' = timers
                      /\ c \in Clients => r.last = now
                      /\ c \notin Clients => r.last = con[c].last
<1>1. /\ busy[con[c].thr] = c /\ (FailPack(c) \/ \E r : PackedTo(c, r))
      /\ nextId' = nextId /\ accepting' = accepting /\ now' = now
  BY HandlePackIs
<1>2. CASE FailPack(c)
  BY <1>1, <1>2, FailPackTables
<1>3. ASSUME NEW q, PackedTo(c, q)
      PROVE  /\ Tables'
             /\ \E r : /\ Becomes(c, r) /\ SameRest(con[c], r)
                       /\ ~con[c].lost => Packed(con[c], r)
                       /\ busy' = busy /\ timers' = timers
                       /\ c \in Clients => r.last = now
                       /\ c \notin Clients => r.last = con[c].last
  <2>1. PackIs(c, q) /\ DOMAIN q = Fields /\ q.stage = con[c].stage /\ SameEntry(q, con[c])
    BY <1>3 DEF PackedTo, SameRest
  <2>2. PICK r : r = [q EXCEPT !.last = IF c \in Clients THEN now ELSE @]
    OBVIOUS
  <2>3. ASSUME group' = group PROVE Tables' /\ Becomes(c, r)
    BY <1>1, <2>1, <2>2, <2>3, PackTables
  <2>4. ASSUME group' = [s \in DOMAIN group \cup {con[c].sess} |->
                           IF s = con[c].sess THEN c ELSE group[s]]
        PROVE  Tables' /\ Becomes(c, r)
    BY <1>1, <2>1, <2>2, <2>4, LoginTables
  <2>5. Tables' /\ Becomes(c, r)
    BY <1>3, <2>3, <2>4 DEF PackedTo
  <2>6. /\ c \in Clients => r.last = now
        /\ c \notin Clients => r.last = con[c].last
    BY <1>3, <2>1, <2>2, FieldsAre DEF PackedTo
  <2>7. /\ SameRest(q, r)
        /\ r.sent = q.sent /\ r.cells = q.cells /\ r.rcvd = q.rcvd /\ r.split = q.split
        /\ r.noti = q.noti /\ r.taken = q.taken /\ r.handled = q.handled
    BY <2>1, <2>2, FieldsAre DEF SameRest, SameEntry
  <2>8. ~con[c].lost => Packed(con[c], r)
    BY <1>3, <2>7 DEF Packed, PackedTo
  <2>9. SameRest(con[c], r)
    BY <1>3, <2>7 DEF SameRest, SameEntry, PackedTo
  <2>10. busy' = busy /\ timers' = timers
    BY <2>1 DEF PackIs
  <2> QED
    BY <2>5, <2>6, <2>8, <2>9, <2>10
<1> QED
  BY <1>1, <1>2, <1>3

\* The steps of a thread that leave the connections alone.
LEMMA SameTables ==
  ASSUME Tables, con' = con, group' = group, timers' = timers, nextId' = nextId,
         accepting' = accepting, now' \in Nat,
         busy' = busy \/ \E t \in NetThreads : busy' = [busy EXCEPT ![t] = NoCon]
  PROVE  Tables'
<1>1. ConTyped' /\ TimersTyped'
  BY DEF Tables, Typed, ConTyped, TimersTyped, RecTyped
<1>2. busy' \in [NetThreads -> Conns \cup {NoCon}]
      /\ \A t \in NetThreads : busy'[t] # NoCon => busy'[t] = busy[t]
  BY DEF Tables, Typed, RestTyped
<1>3. RestTyped'
  BY <1>2 DEF Tables, Typed, RestTyped
<1>4. InTables'
  BY <1>2 DEF Tables, InTables, Alive
<1> QED
  BY <1>1, <1>3, <1>4 DEF Tables, Typed

LEMMA ReadDoneTables == ASSUME Tables, NEW c \in Conns, ReadDone(c) PROVE Tables'
<1>1. con[c].thr \in NetThreads /\ now \in Nat
  BY DEF Tables, Typed, ConTyped, RecTyped, RestTyped
<1> QED
  BY <1>1, SameTables DEF ReadDone

LEMMA ProcessOpTables == ASSUME Tables, NEW t \in NetThreads, ProcessOp(t) PROVE Tables'
<1>1. now \in Nat
  BY DEF Tables, Typed, RestTyped
<1> QED
  BY <1>1, SameTables DEF ProcessOp

LEMMA NextPassTables == ASSUME Tables, NEW t \in NetThreads, NextPass(t) PROVE Tables'
<1>1. now \in Nat
  BY DEF Tables, Typed, RestTyped
<1> QED
  BY <1>1, SameTables DEF NextPass

LEMMA TickTables == ASSUME Tables, Tick PROVE Tables'
<1>1. now' = now + 1 /\ now \in Nat /\ con' = con /\ group' = group /\ timers' = timers
      /\ nextId' = nextId /\ accepting' = accepting /\ busy' = busy
  BY DEF Tick, Tables, Typed, RestTyped
<1> QED
  BY <1>1, SameTables

LEMMA KeyIs == ASSUME NEW k \in Keys PROVE k # <<>> /\ k[1] \in Nat /\ k[2] \in Nat
  BY DEF Keys

\* An expired timer is that of a deleted client, or of a connection that exists,
\* on this thread, and is no longer being created.
TimedOut(t, us, c, k) ==
    /\ k \in Due(t) /\ c = timers[t][k] /\ pass' = [pass EXCEPT ![t].done = @ \cup {c}]
    /\ ~FullPass(t)
    /\ \/ /\ ~Alive(c) /\ crashed' = TRUE
          /\ con' = con /\ timers' = timers /\ group' = group /\ collided' = collided
       \/ /\ Alive(c) /\ c # accepting /\ con[c].at = "done" /\ con[c].thr = t /\ con[c].key = k
          /\ \A h \in NetThreads : busy[h] # c
          /\ IF TooLong(c) THEN Recycle(c) /\ collided' = collided
                           ELSE StartTimer(c, us) /\ group' = group

LEMMA HandleTimerIs ==
  ASSUME Tables, Noted, NEW t \in NetThreads, NEW us, HandleTimer(t, us)
  PROVE  /\ \E c \in Clients : \E k : TimedOut(t, us, c, k)
         /\ nextId' = nextId /\ accepting' = accepting /\ busy' = busy /\ now' = now
<1>1. PICK k \in DOMAIN timers[t] :
         LET c == timers[t][k]
         IN  /\ Earliest(t, k)
             /\ \/ ~Alive(c) /\ crashed' = TRUE /\ UNCHANGED <<con, timers, group, collided>>
                \/ Alive(c) /\ TooLong(c) /\ Recycle(c) /\ UNCHANGED <<crashed, collided>>
                \/ Alive(c) /\ ~TooLong(c) /\ StartTimer(c, us) /\ UNCHANGED <<crashed, group>>
             /\ pass' = [pass EXCEPT ![t].done = @ \cup {c}]
  BY DEF HandleTimer
<1>2. PICK c : c = timers[t][k]
  OBVIOUS
<1>3. /\ Earliest(t, k) /\ pass' = [pass EXCEPT ![t].done = @ \cup {c}]
      /\ \/ /\ ~Alive(c) /\ crashed' = TRUE
            /\ con' = con /\ timers' = timers /\ group' = group /\ collided' = collided
         \/ Alive(c) /\ IF TooLong(c) THEN Recycle(c) /\ collided' = collided
                                      ELSE StartTimer(c, us) /\ group' = group
  BY <1>1, <1>2
<1>4. k \in Due(t) /\ k[1] <= now /\ k \in Keys
  BY <1>1, <1>3 DEF Earliest, Due, Tables, Typed, TimersTyped
<1>5. c \in Conns /\ Entered(con[c], t, k) /\ RecTyped(con[c])
  BY <1>1, <1>2 DEF Tables, Typed, TimersTyped, InTables, ConTyped
<1>6. ~FullPass(t) /\ busy[t] = NoCon
        /\ nextId' = nextId /\ accepting' = accepting /\ busy' = busy /\ now' = now
  BY DEF HandleTimer, Idle
<1>7. c \in Clients
  <2> SUFFICES ASSUME c \in Servers PROVE FALSE
    BY <1>5 DEF Conns
  <2>1. con[c].at \in {"no", "watched", "noted"}
    BY DEF Noted
  <2>2. con[c].timer = <<>> /\ con[c].timer = k
    BY <1>5, <2>1 DEF RecTyped, Entered
  <2> QED
    BY <1>4, <2>2, KeyIs
<1>8. CASE ~Alive(c)
  BY <1>2, <1>3, <1>4, <1>6, <1>7, <1>8 DEF TimedOut
<1>9. CASE Alive(c)
  <2>1. con[c].thr = t /\ con[c].timer = k
    BY <1>5, <1>9 DEF Entered, Alive
  <2>2. k # <<>> /\ k[1] \in Nat
    BY <1>4, KeyIs
  <2>3. con[c].at \in {"added", "done"}
    BY <1>5, <2>1, <2>2 DEF RecTyped
  <2>4. c # accepting
    <3> SUFFICES ASSUME c = accepting PROVE FALSE
      OBVIOUS
    <3>1. c # NoCon
      BY <1>5, ServerAssumption DEF Conns, NoCon
    <3>2. con[c].at # "done" /\ (con[c].at = "added" => con[c].timer[1] = now + Period)
      BY <1>9, <3>1 DEF Noted
    <3>3. k[1] = now + Period
      BY <2>1, <2>3, <3>2
    <3>4. now \in Nat
      BY DEF Tables, Typed, RestTyped
    <3> QED
      BY <1>4, <2>2, <3>3, <3>4, ServerAssumption
  <2>5. con[c].at = "done"
    BY <1>7, <1>9, <2>4 DEF Noted
  <2>6. con[c].key = k
    BY <1>5, <2>1, <2>5 DEF RecTyped
  <2>7. \A h \in NetThreads : busy[h] # c
    <3>1. c # NoCon
      BY <1>5, ServerAssumption DEF Conns, NoCon
    <3> QED
      BY <1>6, <2>1, <3>1 DEF Tables, InTables
  <2> QED
    BY <1>2, <1>3, <1>4, <1>6, <1>7, <1>9, <2>1, <2>4, <2>5, <2>6, <2>7 DEF TimedOut
<1> QED
  BY <1>6, <1>8, <1>9

LEMMA HandleTimerTables ==
  ASSUME Tables, Noted, NEW t \in NetThreads, NEW us \in Micros, HandleTimer(t, us) PROVE Tables'
<1>0. PICK c \in Clients : \E k : TimedOut(t, us, c, k)
  BY HandleTimerIs
<1>1. PICK k : TimedOut(t, us, c, k)
  BY <1>0
<1>2. /\ nextId' = nextId /\ accepting' = accepting /\ busy' = busy /\ now' = now
      /\ c \in Conns
  BY HandleTimerIs DEF Conns
<1>3. RestTyped'
  BY <1>2 DEF Tables, Typed, RestTyped
<1>4. CASE ~Alive(c)
  <2>1. now' \in Nat
    BY <1>2 DEF Tables, Typed, RestTyped
  <2> QED
    BY <1>1, <1>2, <1>4, <2>1, SameTables DEF TimedOut
<1>5. CASE Alive(c) /\ TooLong(c)
  BY <1>1, <1>2, <1>3, <1>5, RecycleTables DEF TimedOut, RestTyped
<1>6. CASE Alive(c) /\ ~TooLong(c)
  BY <1>1, <1>2, <1>3, <1>6, StartTables DEF TimedOut
<1> QED
  BY <1>4, <1>5, <1>6

-----------------------------------------------------------------------------
(* The stream of a connection                                              *)

\* A message of l cells is put behind the L cells x of the N messages s.
Puts(s, N, x, L, l, t, y) ==
    /\ \A k \in 1..N : t[k] = s[k]
    /\ t[N + 1].len = l
    /\ \A i \in 1..L : y[i] = x[i]
    /\ \A i \in 1..l : y[L + i] = <<N + 1, i>>

\* A cell is one of the old ones or one of the new message.
LEMMA CellIs ==
  ASSUME NEW N \in Nat, NEW L \in Nat, NEW l \in Nat, NEW s, NEW x, NEW t, NEW y,
         Puts(s, N, x, L, l, t, y), InMessages(s, N, x, L), NEW i \in 1..(L + l)
  PROVE  \/ /\ i \in 1..L /\ y[i] = x[i] /\ x[i][1] \in 1..N
            /\ x[i][2] \in 1..(s[x[i][1]].len) /\ t[x[i][1]] = s[x[i][1]]
         \/ /\ i > L /\ i - L \in 1..l
            /\ y[i][1] = N + 1 /\ y[i][2] = i - L /\ t[y[i][1]].len = l
<1>1. CASE i \in 1..L
  BY <1>1 DEF Puts, InMessages
<1>2. CASE i > L
  <2>1. PICK j \in 1..l : i = L + j
    <3>1. i - L \in 1..l /\ i = L + (i - L)
      BY <1>2
    <3> QED
      BY <3>1
  <2>2. y[i] = <<N + 1, j>>
    BY <2>1 DEF Puts
  <2>3. j = i - L
    BY <2>1
  <2> QED
    BY <1>2, <2>2, <2>3 DEF Puts
<1> QED
  BY <1>1, <1>2

LEMMA PutIn ==
  ASSUME NEW N \in Nat, NEW L \in Nat, NEW l \in Nat, NEW s, NEW x, NEW t, NEW y,
         Puts(s, N, x, L, l, t, y), InMessages(s, N, x, L)
  PROVE  InMessages(t, N + 1, y, L + l)
<1> SUFFICES ASSUME NEW i \in 1..(L + l)
             PROVE  y[i][1] \in 1..(N + 1) /\ y[i][2] \in 1..(t[y[i][1]].len)
  BY DEF InMessages
<1>1. CASE i \in 1..L /\ y[i] = x[i] /\ x[i][1] \in 1..N
           /\ x[i][2] \in 1..(s[x[i][1]].len) /\ t[x[i][1]] = s[x[i][1]]
  BY <1>1
<1>2. CASE i - L \in 1..l /\ y[i][1] = N + 1 /\ y[i][2] = i - L /\ t[y[i][1]].len = l
  BY <1>2
<1> QED
  BY <1>1, <1>2, CellIs

LEMMA PutWhole ==
  ASSUME NEW N \in Nat, NEW L \in Nat, NEW l \in Nat, NEW s, NEW x, NEW t, NEW y,
         Puts(s, N, x, L, l, t, y), InMessages(s, N, x, L), Wholes(s, x, L)
  PROVE  Wholes(t, y, L + l)
<1> SUFFICES ASSUME NEW i \in 1..(L + l), NEW j \in 1..(t[y[i][1]].len)
             PROVE  i - y[i][2] + j \in 1..(L + l) /\ y[i - y[i][2] + j] = <<y[i][1], j>>
  BY DEF Wholes
<1>1. CASE i \in 1..L /\ y[i] = x[i] /\ x[i][1] \in 1..N
           /\ x[i][2] \in 1..(s[x[i][1]].len) /\ t[x[i][1]] = s[x[i][1]]
  <2>1. PICK a : a = i - x[i][2] + j
    OBVIOUS
  <2>2. a \in 1..L /\ x[a] = <<x[i][1], j>>
    BY <1>1, <2>1 DEF Wholes
  <2>3. a \in 1..(L + l) /\ y[a] = x[a]
    BY <2>2 DEF Puts
  <2> QED
    BY <1>1, <2>1, <2>2, <2>3
<1>2. CASE i > L /\ i - L \in 1..l /\ y[i][1] = N + 1 /\ y[i][2] = i - L /\ t[y[i][1]].len = l
  <2>1. j \in 1..l
    BY <1>2
  <2>2. i - (i - L) + j = L + j
    BY <1>2, <2>1
  <2>3. L + j \in 1..(L + l) /\ y[L + j] = <<N + 1, j>>
    BY <2>1 DEF Puts
  <2> QED
    BY <1>2, <2>2, <2>3
<1> QED
  BY <1>1, <1>2, CellIs

LEMMA PutFollows ==
  ASSUME NEW N \in Nat, NEW L \in Nat, NEW l \in Nat \ {0}, NEW s, NEW x, NEW t, NEW y,
         Puts(s, N, x, L, l, t, y), InMessages(s, N, x, L), Follows(s, N, x, L)
  PROVE  Follows(t, N + 1, y, L + l)
<1> SUFFICES ASSUME NEW i \in 1..(L + l), y[i][2] = t[y[i][1]].len
             PROVE  IF i < L + l THEN y[i + 1] = <<y[i][1] + 1, 1>> ELSE y[i][1] = N + 1
  BY DEF Follows
<1>1. CASE i \in 1..L /\ y[i] = x[i] /\ x[i][1] \in 1..N
           /\ x[i][2] \in 1..(s[x[i][1]].len) /\ t[x[i][1]] = s[x[i][1]]
  <2>1. IF i < L THEN x[i + 1] = <<x[i][1] + 1, 1>> ELSE x[i][1] = N
    BY <1>1 DEF Follows
  <2>2. i < L + l
    BY <1>1
  <2>3. CASE i < L
    <3>1. i + 1 \in 1..L
      BY <2>3
    <3>2. y[i + 1] = x[i + 1]
      BY <3>1 DEF Puts
    <3> QED
      BY <1>1, <2>1, <2>2, <2>3, <3>2
  <2>4. CASE ~(i < L)
    <3>1. i = L /\ 1 \in 1..l
      BY <1>1, <2>4
    <3>2. y[L + 1] = <<N + 1, 1>>
      BY <3>1 DEF Puts
    <3> QED
      BY <1>1, <2>1, <2>2, <2>4, <3>1, <3>2
  <2> QED
    BY <2>3, <2>4
<1>2. CASE i > L /\ i - L \in 1..l /\ y[i][1] = N + 1 /\ y[i][2] = i - L /\ t[y[i][1]].len = l
  <2>1. ~(i < L + l)
    BY <1>2
  <2> QED
    BY <1>2, <2>1
<1> QED
  BY <1>1, <1>2, CellIs

LEMMA PutAscends ==
  ASSUME NEW N \in Nat, NEW L \in Nat, NEW l \in Nat, NEW s, NEW x, NEW t, NEW y,
         Puts(s, N, x, L, l, t, y), InMessages(s, N, x, L), Ascends(x, L)
  PROVE  Ascends(y, L + l)
<1> SUFFICES ASSUME NEW i \in 1..(L + l), NEW j \in 1..(L + l), i < j
             PROVE  y[i][1] < y[j][1] \/ (y[i][1] = y[j][1] /\ y[i][2] < y[j][2])
  BY DEF Ascends
<1>1. \/ i \in 1..L /\ y[i] = x[i] /\ x[i][1] \in 1..N
      \/ i > L /\ y[i][1] = N + 1 /\ y[i][2] = i - L
  BY CellIs
<1>2. \/ j \in 1..L /\ y[j] = x[j]
      \/ j > L /\ y[j][1] = N + 1 /\ y[j][2] = j - L
  BY CellIs
<1>3. CASE i \in 1..L /\ j \in 1..L
  <2>1. x[i][1] < x[j][1] \/ (x[i][1] = x[j][1] /\ x[i][2] < x[j][2])
    BY <1>3 DEF Ascends
  <2> QED
    BY <1>3, <2>1 DEF Puts
<1>4. CASE i \in 1..L /\ j > L
  <2>1. y[i][1] \in 1..N /\ y[j][1] = N + 1
    BY <1>1, <1>2, <1>4
  <2> QED
    BY <2>1
<1>5. CASE i > L /\ j > L
  BY <1>1, <1>2, <1>5
<1>6. i \in 1..L \/ i > L
  OBVIOUS
<1>7. j \in 1..L \/ j > L
  OBVIOUS
<1>8. ~(i > L /\ j \in 1..L)
  OBVIOUS
<1> QED
  BY <1>3, <1>4, <1>5, <1>6, <1>7, <1>8

\* What is behind the cells is the next message, also when one more is sent.
LEMMA PutBoundary ==
  ASSUME NEW s, NEW x, NEW t, NEW y, NEW l \in Nat \ {0}, Len(s) \in Nat, Len(x) \in Nat,
         Puts(s, Len(s), x, Len(x), l, t, y), Len(t) = Len(s) + 1, Len(y) = Len(x) + l,
         NEW h, NEW n \in 0..Len(x), Boundary(s, x, h, n)
  PROVE  Boundary(t, y, h, n)
<1>1. PICK N, L, H : N = Len(s) /\ L = Len(x) /\ H = Len(h)
  OBVIOUS
<1>2. N \in Nat /\ L \in Nat /\ H \in Nat /\ H <= N /\ h \in Seq(Msg) /\ n \in 0..L
  BY <1>1 DEF Boundary
<1>3. \A k \in 1..H : h[k] = t[k]
  <2>1. \A k \in 1..H : h[k] = s[k] /\ k \in 1..N
    BY <1>1, <1>2 DEF Boundary
  <2> QED
    BY <1>1, <2>1 DEF Puts
<1>4. y[n + 1] = <<H + 1, 1>>
  <2>1. CASE n < L
    <3>1. x[n + 1] = <<H + 1, 1>> /\ n + 1 \in 1..L
      BY <1>1, <1>2, <2>1 DEF Boundary
    <3> QED
      BY <1>1, <3>1 DEF Puts
  <2>2. CASE ~(n < L)
    <3>1. n = L /\ 1 \in 1..l
      BY <1>2, <2>2
    <3>2. H = N
      BY <1>1, <3>1, <1>2 DEF Boundary
    <3> QED
      BY <1>1, <3>1, <3>2 DEF Puts
  <2> QED
    BY <2>1, <2>2
<1>5. H <= N + 1 /\ n < L + l
  BY <1>2
<1> QED
  BY <1>1, <1>2, <1>3, <1>4, <1>5 DEF Boundary

\* A peer sends one more message.
LEMMA StreamGrows ==
  ASSUME NEW s, NEW x, NEW m \in Msg, Cells(s, x), NEW y,
         y = x \o [i \in 1..m.len |-> <<Len(s) + 1, i>>]
  PROVE  /\ Cells(Append(s, m), y) /\ Len(y) = Len(x) + m.len
         /\ \A h : \A n \in 0..Len(x) :
               Boundary(s, x, h, n) => Boundary(Append(s, m), y, h, n)
<1>1. PICK N, L, l, z, t : /\ N = Len(s) /\ L = Len(x) /\ l = m.len /\ t = Append(s, m)
                           /\ z = [i \in 1..m.len |-> <<Len(s) + 1, i>>]
  OBVIOUS
<1>2. l \in Nat \ {0}
  BY <1>1, ServerAssumption DEF Msg
<1>3. s \in Seq(Msg) /\ x \in Seq(Nat \X Nat) /\ N \in Nat /\ L \in Nat
  BY <1>1 DEF Cells
<1>4. z \in Seq(Nat \X Nat) /\ Len(z) = l /\ \A i \in 1..l : z[i] = <<N + 1, i>>
  <2>1. z = [i \in 1..l |-> <<N + 1, i>>]
    BY <1>1
  <2>2. z \in [1..l -> Nat \X Nat]
    BY <1>2, <1>3, <2>1
  <2> QED
    BY <1>2, <2>1, <2>2
<1>5. y = x \o z
  BY <1>1
<1>6. /\ y \in Seq(Nat \X Nat) /\ Len(y) = L + l
      /\ \A i \in 1..L : y[i] = x[i]
      /\ \A i \in 1..l : y[L + i] = z[i]
  <2> DEFINE S == Nat \X Nat
  <2>0. x \in Seq(S) /\ z \in Seq(S) /\ Len(x) = L /\ Len(z) = l
    BY <1>1, <1>3, <1>4
  <2> HIDE DEF S
  <2>1. /\ x \o z \in Seq(S) /\ Len(x \o z) = L + l
        /\ \A i \in 1..(L + l) : (x \o z)[i] = IF i <= L THEN x[i] ELSE z[i - L]
    BY <2>0, ConcatProperties
  <2> USE DEF S
  <2>2. \A i \in 1..(L + l) : y[i] = IF i <= L THEN x[i] ELSE z[i - L]
    BY <1>5, <2>1
  <2>3. ASSUME NEW i \in 1..L PROVE y[i] = x[i]
    <3>1. i \in 1..(L + l) /\ i <= L
      BY <1>2, <1>3
    <3> QED
      BY <2>2, <3>1
  <2>4. ASSUME NEW i \in 1..l PROVE y[L + i] = z[i]
    <3>1. L + i \in 1..(L + l) /\ ~(L + i <= L) /\ (L + i) - L = i
      BY <1>2, <1>3
    <3>2. y[L + i] = z[(L + i) - L]
      BY <2>2, <3>1
    <3> QED
      BY <3>1, <3>2
  <2> QED
    BY <1>5, <2>1, <2>3, <2>4
<1>7. t \in Seq(Msg) /\ Len(t) = N + 1 /\ t[N + 1] = m /\ \A k \in 1..N : t[k] = s[k]
  BY <1>1, <1>3
<1>8. Puts(s, N, x, L, l, t, y)
  BY <1>1, <1>4, <1>6, <1>7 DEF Puts
<1>9. InMessages(s, N, x, L) /\ Wholes(s, x, L) /\ Follows(s, N, x, L) /\ Ascends(x, L)
  BY <1>1 DEF Cells
<1>10. /\ InMessages(t, N + 1, y, L + l) /\ Wholes(t, y, L + l)
       /\ Follows(t, N + 1, y, L + l) /\ Ascends(y, L + l)
  BY <1>2, <1>3, <1>8, <1>9, PutIn, PutWhole, PutFollows, PutAscends
<1>11. Cells(t, y)
  BY <1>6, <1>7, <1>10 DEF Cells
<1>12. ASSUME NEW h, NEW n \in 0..Len(x), Boundary(s, x, h, n)
       PROVE  Boundary(t, y, h, n)
  BY <1>1, <1>2, <1>3, <1>6, <1>7, <1>8, <1>12, PutBoundary
<1> QED
  BY <1>1, <1>6, <1>11, <1>12

\* The stream of a connection nothing was sent to.
LEMMA EmptyStream ==
  ASSUME NEW r, SameStream(r, NewCon)
  PROVE  Stream(r) /\ Drained(r)
<1>1. /\ r.sent = <<>> /\ r.cells = <<>> /\ r.rcvd = 0 /\ r.taken = 0 /\ r.noti = 0
      /\ r.handled = <<>>
  BY DEF SameStream, NewCon
<1>2. <<>> \in Seq(Msg) /\ <<>> \in Seq(Nat \X Nat) /\ Len(<<>>) = 0
  BY EmptySeq
<1>3. Cells(r.sent, r.cells)
  BY <1>1, <1>2 DEF Cells, InMessages, Wholes, Follows, Ascends
<1>4. Boundary(r.sent, r.cells, r.handled, r.taken)
  BY <1>1, <1>2 DEF Boundary
<1> QED
  BY <1>1, <1>2, <1>3, <1>4 DEF Stream, Waits, Drained

\* The stream depends on nothing else.
LEMMA StreamStays ==
  ASSUME NEW r, NEW q, Stream(q), SameStream(r, q)
  PROVE  Stream(r) /\ (Drained(q) => Drained(r))
  BY DEF Stream, SameStream, Waits, Drained

\* A message at a boundary is the next one; behind it is a boundary again.
Comes(s, x, n, m) == n < Len(x) /\ m = s[x[n + 1][1]]

LEMMA TakesMessage ==
  ASSUME NEW s, NEW x, NEW h, NEW n \in Nat, NEW m, Cells(s, x), Boundary(s, x, h, n),
         Comes(s, x, n, m)
  PROVE  /\ Len(h) < Len(s) /\ m = s[Len(h) + 1] /\ m \in Msg /\ m.len \in Nat /\ m.len >= 2
         /\ \A j \in 1..m.len : n + j \in 1..Len(x) /\ x[n + j] = <<Len(h) + 1, j>>
         /\ Boundary(s, x, Append(h, m), n + m.len)
<1>1. PICK N, L, H : N = Len(s) /\ L = Len(x) /\ H = Len(h)
  OBVIOUS
<1>2. /\ s \in Seq(Msg) /\ x \in Seq(Nat \X Nat) /\ h \in Seq(Msg)
      /\ N \in Nat /\ L \in Nat /\ H \in Nat /\ H <= N /\ \A k \in 1..H : h[k] = s[k]
      /\ n + 1 \in 1..L /\ x[n + 1] = <<H + 1, 1>>
  BY <1>1 DEF Cells, Boundary, Comes
<1>3. x[n + 1][1] = H + 1 /\ x[n + 1][2] = 1
  BY <1>2
<1>4. H + 1 \in 1..N /\ m = s[H + 1]
  BY <1>1, <1>2, <1>3 DEF Cells, InMessages, Comes
<1>5. m \in Msg
  BY <1>1, <1>2, <1>4
<1>6. m.len \in Nat /\ m.len >= 2
  BY <1>5, ServerAssumption DEF Msg
<1>7. ASSUME NEW j \in 1..m.len PROVE n + j \in 1..L /\ x[n + j] = <<H + 1, j>>
  <2>1. (n + 1) - x[n + 1][2] + j \in 1..L
        /\ x[(n + 1) - x[n + 1][2] + j] = <<x[n + 1][1], j>>
    BY <1>1, <1>2, <1>3, <1>4 DEF Cells, Wholes
  <2>2. (n + 1) - x[n + 1][2] + j = n + j
    BY <1>3
  <2> QED
    BY <1>3, <2>1, <2>2
<1>8. PICK e : e = n + m.len
  OBVIOUS
<1>9. e \in 1..L /\ x[e] = <<H + 1, m.len>>
  <2>1. m.len \in 1..m.len
    BY <1>6
  <2> QED
    BY <1>7, <1>8, <2>1
<1>10. IF e < L THEN x[e + 1] = <<H + 2, 1>> ELSE H + 1 = N
  <2>1. x[e][1] = H + 1 /\ x[e][2] = s[x[e][1]].len
    BY <1>4, <1>9
  <2>2. IF e < L THEN x[e + 1] = <<x[e][1] + 1, 1>> ELSE x[e][1] = N
    BY <1>1, <1>9, <2>1 DEF Cells, Follows
  <2>3. (H + 1) + 1 = H + 2
    BY <1>2
  <2> QED
    BY <2>1, <2>2, <2>3
<1>11. PICK g : g = Append(h, m)
  OBVIOUS
<1>12. g \in Seq(Msg) /\ Len(g) = H + 1 /\ \A k \in 1..(H + 1) : g[k] = s[k]
  <2>1. g \in Seq(Msg) /\ Len(g) = H + 1 /\ g[H + 1] = m /\ \A k \in 1..H : g[k] = h[k]
    BY <1>1, <1>2, <1>5, <1>11
  <2>2. \A k \in 1..(H + 1) : k \in 1..H \/ k = H + 1
    BY <1>2
  <2> QED
    BY <1>2, <1>4, <2>1, <2>2
<1>13. Boundary(s, x, g, e)
  <2>1. Len(g) <= N /\ (H + 1) + 1 = H + 2
    BY <1>2, <1>4, <1>12
  <2> QED
    BY <1>1, <1>10, <1>12, <2>1 DEF Boundary
<1>14. H < N
  BY <1>2, <1>4
<1> QED
  BY <1>1, <1>4, <1>5, <1>6, <1>7, <1>8, <1>11, <1>13, <1>14

\* The commands handled are those the peer sent.
LEMMA HandledIsSent ==
  ASSUME NEW r, Stream(r)
  PROVE  IsPrefix(r.handled, r.sent)
<1>1. PICK h, s : h = r.handled /\ s = r.sent
  OBVIOUS
<1>2. /\ h \in Seq(Msg) /\ s \in Seq(Msg) /\ Len(h) \in Nat /\ Len(s) \in Nat
      /\ Len(h) <= Len(s) /\ \A k \in 1..Len(h) : h[k] = s[k]
  BY <1>1 DEF Stream, Cells, Boundary
<1>3. SubSeq(h, 1, Len(h)) = SubSeq(s, 1, Len(h))
  <2>1. PICK a, b : a = SubSeq(h, 1, Len(h)) /\ b = SubSeq(s, 1, Len(h))
    OBVIOUS
  <2>2. /\ a \in Seq(Msg) /\ Len(a) = Len(h) /\ \A k \in 1..Len(h) : a[k] = h[k]
    BY <1>2, <2>1
  <2>3. /\ b \in Seq(Msg) /\ Len(b) = Len(h) /\ \A k \in 1..Len(h) : b[k] = s[k]
    BY <1>2, <2>1
  <2>4. \A k \in 1..Len(a) : a[k] = b[k]
    BY <1>2, <2>2, <2>3
  <2> QED
    BY <2>1, <2>2, <2>3, <2>4, SeqEqual
<1> QED
  BY <1>1, <1>2, <1>3 DEF IsPrefix

\* A message of which all has come is handled, when the connection is drained.
LEMMA ArrivedIsHandled ==
  ASSUME NEW r, Stream(r), ~r.split, Drained(r), NEW k \in DOMAIN r.sent, NEW i \in 1..r.rcvd,
         r.cells[i] = <<k, r.sent[k].len>>
  PROVE  k <= Len(r.handled)
<1>1. PICK s, x, h, n, v : s = r.sent /\ x = r.cells /\ h = r.handled /\ n = r.taken /\ v = r.rcvd
  OBVIOUS
<1>2. PICK N, L, H : N = Len(s) /\ L = Len(x) /\ H = Len(h)
  OBVIOUS
<1>3. Cells(s, x) /\ Boundary(s, x, h, n) /\ v \in 0..L /\ n \in 0..v /\ r.noti \in Nat
  BY <1>1, <1>2 DEF Stream
<1>4. s \in Seq(Msg) /\ x \in Seq(Nat \X Nat) /\ h \in Seq(Msg) /\ H <= N
  BY <1>2, <1>3 DEF Cells, Boundary
<1>5. N \in Nat /\ L \in Nat /\ H \in Nat /\ v \in Nat /\ n \in Nat
  BY <1>2, <1>3, <1>4
<1>6. k \in 1..N /\ i \in 1..v /\ i \in 1..L /\ x[i] = <<k, s[k].len>>
  <2>1. i \in 1..v /\ x[i] = <<k, s[k].len>>
    BY <1>1
  <2>2. k \in DOMAIN s /\ DOMAIN s = 1..N
    BY <1>1, <1>2, <1>4
  <2>3. i \in 1..L
    BY <1>3, <1>5, <2>1
  <2> QED
    BY <2>1, <2>2, <2>3
<1>7. SUFFICES ASSUME k > H PROVE FALSE
  BY <1>1, <1>2, <1>5, <1>6
<1>8. H < N
  BY <1>5, <1>6, <1>7
<1>9. n < L /\ x[n + 1] = <<H + 1, 1>>
  <2>1. IF n < L THEN x[n + 1] = <<H + 1, 1>> ELSE H = N
    BY <1>2, <1>3 DEF Boundary
  <2> QED
    BY <1>5, <1>8, <2>1
<1>10. PICK m : m = s[x[n + 1][1]]
  OBVIOUS
<1>11. /\ m = s[H + 1] /\ m.len \in Nat /\ m.len >= 2
       /\ \A j \in 1..m.len : n + j \in 1..L /\ x[n + j] = <<H + 1, j>>
  <2>1. n \in Nat /\ Comes(s, x, n, m)
    BY <1>2, <1>5, <1>9, <1>10 DEF Comes
  <2>2. Cells(s, x) /\ Boundary(s, x, h, n)
    BY <1>3
  <2>3. /\ m = s[Len(h) + 1] /\ m.len \in Nat /\ m.len >= 2
        /\ \A j \in 1..m.len : n + j \in 1..Len(x) /\ x[n + j] = <<Len(h) + 1, j>>
    BY <2>1, <2>2, TakesMessage
  <2> QED
    BY <1>2, <2>3
<1>12. ~(i <= n)
  <2>1. ASSUME i <= n PROVE FALSE
    <3>1. n + 1 \in 1..L /\ i < n + 1
      BY <1>5, <1>6, <1>9, <2>1
    <3>2. x[i][1] < x[n + 1][1] \/ (x[i][1] = x[n + 1][1] /\ x[i][2] < x[n + 1][2])
      BY <1>2, <1>3, <1>6, <3>1 DEF Cells, Ascends
    <3>3. x[i][1] = k /\ x[i][2] = s[k].len /\ x[n + 1][1] = H + 1 /\ x[n + 1][2] = 1
      BY <1>6, <1>9
    <3>4. s[k] \in Msg
      BY <1>2, <1>4, <1>6
    <3>5. s[k].len \in Nat /\ s[k].len >= 2
      BY <3>4, ServerAssumption DEF Msg
    <3>6. k < H + 1 \/ s[k].len < 1
      BY <3>2, <3>3
    <3> QED
      BY <1>5, <1>6, <1>7, <3>5, <3>6
  <2> QED
    BY <2>1
<1>13. r.noti = m.len /\ v - n < m.len
  <2>1. v # n
    BY <1>5, <1>6, <1>12
  <2>2. v - n < r.noti
    BY <1>1, <2>1 DEF Drained
  <2>3. r.noti # 0
    BY <1>3, <1>5, <2>2
  <2> QED
    BY <1>1, <1>2, <1>11, <2>2, <2>3 DEF Stream, Waits
<1>14. i - n \in 1..m.len /\ n + (i - n) = i /\ i - n < m.len
  BY <1>5, <1>6, <1>11, <1>12, <1>13
<1>15. x[i] = <<H + 1, i - n>>
  BY <1>11, <1>14
<1>16. k = H + 1 /\ s[k].len = i - n
  BY <1>6, <1>15
<1> QED
  BY <1>11, <1>14, <1>16

-----------------------------------------------------------------------------
(* Every step keeps the streams                                            *)

\* handle_pack keeps the boundary.
LEMMA PackedStream ==
  ASSUME NEW q, NEW r, Stream(q), Packed(q, r)
  PROVE  Stream(r)
<1>1. PICK s, x, h, n, v : s = q.sent /\ x = q.cells /\ h = q.handled /\ n = q.taken /\ v = q.rcvd
  OBVIOUS
<1>2. Cells(s, x) /\ Boundary(s, x, h, n) /\ v \in 0..Len(x) /\ n \in 0..v
  BY <1>1 DEF Stream
<1>3. r.sent = s /\ r.cells = x /\ r.rcvd = v
  BY <1>1 DEF Packed
<1>4. CASE r.split /\ r.noti \in Nat /\ r.taken = n /\ r.handled = h
  BY <1>2, <1>3, <1>4 DEF Stream
<1>5. ASSUME NEW m, n + 1 < v, m = s[x[n + 1][1]],
             \/ r.noti = m.len /\ r.taken = n /\ r.handled = h
             \/ n + m.len <= v /\ r.noti = 0 /\ r.taken = n + m.len /\ r.handled = Append(h, m)
      PROVE  Stream(r)
  <2>1. n \in Nat /\ Comes(s, x, n, m)
    <3>1. x \in Seq(Nat \X Nat) /\ n \in Nat /\ v \in Nat
      BY <1>2 DEF Cells
    <3> QED
      BY <1>2, <1>5, <3>1 DEF Comes
  <2>2. /\ Len(h) < Len(s) /\ m = s[Len(h) + 1] /\ m.len \in Nat
        /\ Boundary(s, x, Append(h, m), n + m.len)
    BY <1>2, <2>1, TakesMessage
  <2>3. CASE r.noti = m.len /\ r.taken = n /\ r.handled = h
    BY <1>2, <1>3, <2>2, <2>3 DEF Stream, Waits
  <2>4. CASE /\ n + m.len <= v /\ r.noti = 0 /\ r.taken = n + m.len
             /\ r.handled = Append(h, m)
    <3>1. n + m.len \in 0..v
      BY <1>2, <2>1, <2>2, <2>4
    <3> QED
      BY <1>2, <1>3, <2>2, <2>4, <3>1 DEF Stream, Waits
  <2> QED
    BY <1>5, <2>3, <2>4
<1> QED
  BY <1>1, <1>4, <1>5 DEF Packed

\* A message sent behind the others.
LEMMA SentStream ==
  ASSUME NEW q, NEW r, NEW m \in Msg, Stream(q),
         r.sent = Append(q.sent, m),
         r.cells = q.cells \o CellsOf(q, m),
         r.rcvd = q.rcvd, r.taken = q.taken, r.noti = q.noti, r.split = q.split,
         r.handled = q.handled
  PROVE  Stream(r) /\ (Drained(q) => Drained(r))
<1>1. PICK s, x, h, n, v : s = q.sent /\ x = q.cells /\ h = q.handled /\ n = q.taken /\ v = q.rcvd
  OBVIOUS
<1>2. PICK y : y = x \o [i \in 1..m.len |-> <<Len(s) + 1, i>>]
  OBVIOUS
<1>3. Cells(s, x) /\ Boundary(s, x, h, n) /\ v \in 0..Len(x) /\ n \in 0..v /\ q.noti \in Nat
  BY <1>1 DEF Stream
<1>4. /\ Cells(Append(s, m), y) /\ Len(y) = Len(x) + m.len
      /\ \A g : \A k \in 0..Len(x) :
            Boundary(s, x, g, k) => Boundary(Append(s, m), y, g, k)
  BY <1>2, <1>3, StreamGrows
<1>5. m.len \in Nat
  BY ServerAssumption DEF Msg
<1>6. Len(x) \in Nat /\ s \in Seq(Msg) /\ Len(h) \in Nat /\ Len(h) <= Len(s)
  <2>1. s \in Seq(Msg) /\ x \in Seq(Nat \X Nat)
    BY <1>3 DEF Cells
  <2>2. h \in Seq(Msg) /\ Len(h) <= Len(s)
    BY <1>3 DEF Boundary
  <2> QED
    BY <2>1, <2>2
<1>7. v \in 0..Len(y) /\ n \in 0..Len(x)
  BY <1>3, <1>4, <1>5, <1>6
<1>8. Boundary(Append(s, m), y, h, n)
  BY <1>3, <1>4, <1>7
<1>9. r.sent = Append(s, m) /\ r.cells = y
  BY <1>1, <1>2 DEF CellsOf
<1>10. ~r.split => Waits(r)
  <2>1. SUFFICES ASSUME ~r.split, q.noti # 0 PROVE Waits(r)
    BY DEF Waits
  <2>2. Len(h) < Len(s) /\ q.noti = s[Len(h) + 1].len
    BY <1>1, <2>1 DEF Stream, Waits
  <2>3. PICK t : t = Append(s, m)
    OBVIOUS
  <2>4. Len(t) = Len(s) + 1 /\ \A k \in 1..Len(s) : t[k] = s[k]
    BY <1>6, <2>3
  <2>5. Len(h) + 1 \in 1..Len(s) /\ Len(h) < Len(t)
    BY <1>6, <2>2, <2>4
  <2> QED
    BY <1>1, <1>9, <2>2, <2>3, <2>4, <2>5 DEF Waits
<1>11. Stream(r)
  BY <1>1, <1>3, <1>4, <1>7, <1>8, <1>9, <1>10 DEF Stream
<1> QED
  BY <1>11 DEF Drained

\* One connection changes.
LEMMA OneStream ==
  ASSUME Tables, Streams, NEW c \in Conns, NEW r, Becomes(c, r), Kept(r),
         \A d \in Conns \ {c} : \A h \in NetThreads : busy[h] = d => busy'[h] = d,
         r.stage \in {"created", "notified"} /\ busy'[r.thr] # c /\ ~r.split /\ ~r.lost =>
            Drained(r)
  PROVE  Streams'
<1> SUFFICES ASSUME NEW d \in Conns
             PROVE  /\ Kept(con'[d])
                    /\ Alive(d)' /\ busy'[con'[d].thr] # d /\ ~con'[d].split /\ ~con'[d].lost =>
                          Drained(con'[d])
  BY DEF Streams, Stream, Drained, Kept
<1>1. CASE d = c
  BY <1>1 DEF Becomes, Alive
<1>2. CASE d # c
  <2>1. con'[d] = con[d] /\ (Alive(d)' <=> Alive(d))
    BY <1>2 DEF Becomes, Alive
  <2>2. con[d].thr \in NetThreads
    BY DEF Tables, Typed, ConTyped, RecTyped
  <2> QED
    BY <1>2, <2>1, <2>2 DEF Streams
<1> QED
  BY <1>1, <1>2

\* Of a connection nothing was sent to, nothing is lost.
LEMMA EmptyKept ==
  ASSUME NEW r, SameStream(r, NewCon)
  PROVE  Kept(r) /\ Drained(r) /\ ~r.lost
<1>1. Stream(r) /\ Drained(r)
  BY EmptyStream
<1>2. r.cells = <<>> /\ r.count = 0 /\ r.lost = FALSE
  BY DEF SameStream, NewCon
<1>3. Len(<<>>) = 0
  BY EmptySeq
<1>4. r.lost \in BOOLEAN /\ r.count \in Nat /\ ~r.lost
  <2>1. r.count \in Nat
    BY <1>2
  <2>2. r.lost \in BOOLEAN /\ ~r.lost
    BY <1>2, Zenon
  <2> QED
    BY <2>1, <2>2
<1>5. Len(r.cells) = r.count
  BY <1>2, <1>3
<1>6. Kept(r)
  BY <1>1, <1>4, <1>5 DEF Kept
<1> QED
  BY <1>1, <1>4, <1>6

LEMMA RecycleStreams ==
  ASSUME Tables, Streams, NEW c \in Conns, NEW a, Becomes(c, Gone(a)),
         \A d \in Conns \ {c} : \A h \in NetThreads : busy[h] = d => busy'[h] = d
  PROVE  Streams'
<1>1. PICK r : r = Gone(a)
  OBVIOUS
<1>2. Kept(r) /\ r.stage = "gone"
  BY <1>1, GoneIs, EmptyKept
<1> QED
  BY <1>1, <1>2, OneStream

\* The steps that keep the stream of the connection they change, and busy.
LEMMA QuietStreams ==
  ASSUME Tables, Streams, NEW c \in Conns, NEW r, Becomes(c, r), busy' = busy,
         SameStream(r, con[c]), r.stage \in {"created", "notified"} => Alive(c),
         r.thr = con[c].thr
  PROVE  Streams'
<1>1. PICK q : q = con[c]
  OBVIOUS
<1>2. Kept(q) /\ SameStream(r, q)
  BY <1>1 DEF Streams
<1>3. r.lost = q.lost /\ r.count = q.count /\ r.cells = q.cells /\ r.split = q.split
  BY <1>2 DEF SameStream
<1>4. Stream(q) => Stream(r) /\ (Drained(q) => Drained(r))
  BY <1>2, StreamStays
<1>5. Kept(r)
  BY <1>2, <1>3, <1>4 DEF Kept
<1>6. r.stage \in {"created", "notified"} /\ busy'[r.thr] # c /\ ~r.split /\ ~r.lost => Drained(r)
  BY <1>1, <1>2, <1>3, <1>4 DEF Streams, Kept
<1> QED
  BY <1>5, <1>6, OneStream

LEMMA InitStreams == Init => Streams
<1>1. Kept(NewCon) /\ Drained(NewCon)
  BY EmptyKept DEF SameStream
<1> QED
  BY <1>1 DEF Init, Streams

LEMMA AcceptStreams ==
  ASSUME Tables, Streams, NEW c \in Conns, Accept(c)
  PROVE  Streams'
<1>1. PICK r : Becomes(c, r) /\ SameStream(r, NewCon)
  BY AcceptTables
<1>2. Kept(r) /\ Drained(r) /\ busy' = busy
  BY <1>1, EmptyKept DEF Accept
<1> QED
  BY <1>1, <1>2, OneStream

LEMMA SameStreams ==
  ASSUME Tables, Streams, con' = con, busy' = busy
  PROVE  Streams'
  BY DEF Streams, Alive

\* The steps of on_create leave the stream alone.
LEMMA SetNotifyStreams ==
  ASSUME Tables, Noted, Streams, SetNotify
  PROVE  Streams'
<1>0. PICK c \in Conns : \E r :
         /\ c = accepting /\ con[c].stage = "created" /\ Becomes(c, r)
         /\ r.stage = "notified" /\ r.at = "watched" /\ SameStream(r, con[c])
         /\ r.thr = con[c].thr /\ r.last = con[c].last /\ r.made = con[c].made
  BY SetNotifyTables
<1>1. PICK r : /\ con[c].stage = "created" /\ Becomes(c, r)
               /\ r.thr = con[c].thr /\ SameStream(r, con[c])
  BY <1>0
<1>2. busy' = busy /\ Alive(c)
  BY <1>1 DEF SetNotify, Alive
<1> QED
  BY <1>1, <1>2, QuietStreams

LEMMA NotiWrittenStreams ==
  ASSUME Tables, Streams, NotiWritten
  PROVE  Streams'
<1>0. PICK c \in Conns : \E r : /\ Becomes(c, r) /\ r.stage = con[c].stage
                                /\ r.thr = con[c].thr /\ SameStream(r, con[c])
  BY NotiWrittenTables
<1>1. PICK r : /\ Becomes(c, r) /\ r.stage = con[c].stage
               /\ r.thr = con[c].thr /\ SameStream(r, con[c])
  BY <1>0
<1>2. busy' = busy
  BY DEF NotiWritten
<1> QED
  BY <1>1, <1>2, QuietStreams DEF Alive

LEMMA OnCreateTimerStreams ==
  ASSUME Tables, Streams, NEW us \in Micros, OnCreateTimer(us)
  PROVE  Streams'
<1>1. busy' = busy
  BY DEF OnCreateTimer
<1>2. CASE con' = con
  BY <1>1, <1>2, SameStreams
<1>3. CASE con' # con
  <2>1. PICK c \in Conns : \E r : /\ Becomes(c, r) /\ r.stage = con[c].stage
                                  /\ r.thr = con[c].thr /\ SameStream(r, con[c])
    BY <1>3, OnCreateTimerTables
  <2>2. PICK r : /\ Becomes(c, r) /\ r.stage = con[c].stage
                 /\ r.thr = con[c].thr /\ SameStream(r, con[c])
    BY <2>1
  <2> QED
    BY <1>1, <2>2, QuietStreams DEF Alive
<1> QED
  BY <1>2, <1>3

LEMMA OnCreateEndsStreams ==
  ASSUME Tables, Streams, OnCreateEnds
  PROVE  Streams'
<1>1. busy' = busy
  BY DEF OnCreateEnds
<1>2. CASE con' = con
  BY <1>1, <1>2, SameStreams
<1>3. CASE con' # con
  <2>1. PICK c \in Conns : \E r : /\ Becomes(c, r) /\ r.stage = con[c].stage
                                  /\ r.thr = con[c].thr /\ SameStream(r, con[c])
    BY <1>3, OnCreateEndsTables
  <2>2. PICK r : /\ Becomes(c, r) /\ r.stage = con[c].stage
                 /\ r.thr = con[c].thr /\ SameStream(r, con[c])
    BY <2>1
  <2> QED
    BY <1>1, <2>2, QuietStreams DEF Alive
<1> QED
  BY <1>2, <1>3

LEMMA PeerSendsStreams ==
  ASSUME Tables, Streams, NEW c \in Conns, NEW m \in Msg, PeerSends(c, m)
  PROVE  Streams'
<1>1. con[c].stage = "notified" /\ busy' = busy
  BY DEF PeerSends
<1>2. PICK r : Becomes(c, r) /\ SentTo(con[c], m, r)
  BY PeerSendsTables
<1>3. PICK q : q = con[c]
  OBVIOUS
<1>4. Kept(q)
  BY <1>3 DEF Streams
<1>5. r.cells = q.cells \o CellsOf(q, m)
  BY <1>2, <1>3 DEF SentTo
<1>6. /\ r.sent = Append(q.sent, m) /\ r.rcvd = q.rcvd /\ r.taken = q.taken
      /\ r.noti = q.noti /\ r.split = q.split /\ r.handled = q.handled
      /\ r.count = q.count + m.len /\ r.lost = q.lost
      /\ r.stage = "notified" /\ SameEntry(r, con[c])
  BY <1>2, <1>3 DEF SentTo
<1>7. Stream(q) => Stream(r) /\ (Drained(q) => Drained(r))
  BY <1>5, <1>6, SentStream
<1>8. m.len \in Nat
  BY ServerAssumption DEF Msg
<1>9. ASSUME ~q.lost PROVE Len(r.cells) = r.count
  <2>1. Stream(q) /\ Len(q.cells) = q.count
    BY <1>4, <1>9 DEF Kept
  <2>2. PICK x, y : x = q.cells /\ y = CellsOf(q, m)
    OBVIOUS
  <2>3. x \in Seq(Nat \X Nat) /\ q.sent \in Seq(Msg)
    BY <2>1, <2>2 DEF Stream, Cells
  <2>4. y \in Seq(Nat \X Nat) /\ Len(y) = m.len
    <3>1. PICK k : k = Len(q.sent) + 1 /\ k \in Nat
      BY <2>3
    <3>2. y = [i \in 1..m.len |-> <<k, i>>]
      BY <2>2, <3>1 DEF CellsOf
    <3> QED
      BY <1>8, <3>1, <3>2
  <2>5. Len(x \o y) = Len(x) + Len(y)
    BY <2>3, <2>4, ConcatProperties
  <2> QED
    BY <1>5, <1>6, <2>1, <2>2, <2>4, <2>5
<1>10. Kept(r)
  BY <1>4, <1>6, <1>7, <1>8, <1>9, ServerAssumption DEF Kept
<1>11. busy'[r.thr] # c /\ ~r.split /\ ~r.lost => Drained(r)
  BY <1>1, <1>2, <1>3, <1>4, <1>6, <1>7 DEF Streams, SameEntry, Alive, Kept
<1> QED
  BY <1>1, <1>2, <1>10, <1>11, OneStream

LEMMA PeerClosesStreams ==
  ASSUME Tables, Streams, NEW c \in Conns, PeerCloses(c)
  PROVE  Streams'
<1>1. Alive(c) /\ busy' = busy
  BY DEF PeerCloses, Alive
<1>2. PICK r : Becomes(c, r) /\ SameEntry(r, con[c]) /\ SameStream(r, con[c])
  BY PeerClosesTables
<1> QED
  BY <1>1, <1>2, QuietStreams DEF SameEntry

\* A sequence cut and put together again.
LEMMA CutAndJoined ==
  ASSUME NEW S, NEW x \in Seq(S), NEW e \in 0..Len(x)
  PROVE  SubSeq(x, 1, e) \o SubSeq(x, e + 1, Len(x)) = x
<1>1. 1 \in 1..(Len(x) + 1) /\ e \in (1 - 1)..Len(x) /\ Len(x) \in e..Len(x)
  OBVIOUS
<1>2. SubSeq(x, 1, e) \o SubSeq(x, e + 1, Len(x)) = SubSeq(x, 1, Len(x))
  BY <1>1, ConcatAdjacentSubSeq
<1>3. SubSeq(x, 1, Len(x)) = x
  OBVIOUS
<1> QED
  BY <1>2, <1>3

\* What arrives finds room, or the peer has sent more than the ring holds.
LEMMA ArrivedKept ==
  ASSUME NEW c \in Conns, Kept(con[c]), NEW n \in Nat, con[c].rcvd + n <= Len(con[c].cells),
         NEW r, ArrivedAt(c, con[c], n, r)
  PROVE  Kept(r)
<1>1. PICK q : q = con[c]
  OBVIOUS
<1>2. CASE q.lost
  BY <1>1, <1>2 DEF Kept, ArrivedAt
<1>3. CASE ~q.lost
  <2>1. Stream(q) /\ Len(q.cells) = q.count /\ q.count \in Nat
    BY <1>1, <1>3 DEF Kept
  <2>2. PICK x, v, k : x = q.cells /\ v = q.rcvd /\ k = q.taken
    OBVIOUS
  <2>3. x \in Seq(Nat \X Nat) /\ v \in 0..Len(x) /\ k \in 0..v /\ v + n <= Len(x)
    BY <1>1, <2>1, <2>2 DEF Stream, Cells
  <2>4. PICK f, b : f = Fitting(c, n) /\ b = Len(Buffered(c)) /\ b = v - k
    BY <1>1, <2>1, <2>2, BufferIs
  <2>5. f = IF n <= RingCap - b THEN n ELSE RingCap - b
    BY <2>4 DEF Fitting, Room
  <2>6. r.lost = (q.lost \/ f < n) /\ r.count = q.count /\ q.lost \in BOOLEAN
    BY <1>1, <2>4 DEF ArrivedAt, Kept
  <2>7. CASE n <= RingCap - b
    <3>1. f = n /\ r.lost = FALSE
      BY <1>3, <2>5, <2>6, <2>7
    <3>2. PICK e : e = v + n /\ e \in 0..Len(x)
      BY <2>3
    <3>3. r.rcvd = e /\ r.cells = SubSeq(x, 1, e) \o SubSeq(x, e + 1, Len(x))
      BY <1>1, <2>2, <2>4, <3>1, <3>2 DEF ArrivedAt
    <3>4. r.cells = x
      BY <2>3, <3>2, <3>3, CutAndJoined
    <3>5. k \in 0..e
      BY <2>3, <3>2
    <3>6. /\ r.sent = q.sent /\ r.taken = k /\ r.noti = q.noti
          /\ r.split = q.split /\ r.handled = q.handled
      BY <1>1, <2>2 DEF ArrivedAt
    <3>7. Stream(r)
      BY <2>1, <2>2, <3>2, <3>3, <3>4, <3>5, <3>6 DEF Stream, Waits
    <3> QED
      BY <2>1, <2>2, <2>6, <3>1, <3>4, <3>7 DEF Kept
  <2>8. CASE ~(n <= RingCap - b)
    <3>1. RingCap < v + n
      BY <2>3, <2>4, <2>8, ServerAssumption
    <3>2. RingCap < q.count
      BY <2>1, <2>2, <2>3, <3>1, ServerAssumption
    <3>3. f < n
      BY <2>3, <2>4, <2>5, <2>8, ServerAssumption
    <3> QED
      BY <2>1, <2>6, <3>2, <3>3 DEF Kept
  <2> QED
    BY <2>7, <2>8
<1> QED
  BY <1>2, <1>3

LEMMA ReceiveStreams ==
  ASSUME Tables, Streams, NEW c \in Conns, NEW n \in Nat, Receive(c, n)
  PROVE  Streams'
<1>1. PICK r : Becomes(c, r) /\ ArrivedAt(c, con[c], n, r)
  BY ReceiveTables
<1>2. PICK h \in NetThreads : h = con[c].thr
  BY ReceiveTables
<1>3. busy[h] = NoCon /\ con[c].rcvd + n <= Len(con[c].cells) /\ busy' = [busy EXCEPT ![h] = c]
  BY <1>2 DEF Receive, Idle
<1>4. Kept(r)
  BY <1>1, <1>3, ArrivedKept DEF Streams
<1>5. busy'[r.thr] = c /\ \A t \in NetThreads \ {h} : busy'[t] = busy[t]
  BY <1>1, <1>2, <1>3 DEF ArrivedAt, SameEntry, Tables, Typed, RestTyped
<1>6. \A d \in Conns \ {c} : \A t \in NetThreads : busy[t] = d => busy'[t] = d
  BY <1>3, <1>5, ServerAssumption DEF NoCon, Conns
<1> QED
  BY <1>1, <1>4, <1>5, <1>6, OneStream

LEMMA ReadDoneStreams ==
  ASSUME Tables, Streams, NEW c \in Conns, ReadDone(c)
  PROVE  Streams'
<1>1. PICK h \in NetThreads : h = con[c].thr
  BY DEF Tables, Typed, ConTyped, RecTyped
<1>2. busy[h] = c /\ busy' = [busy EXCEPT ![h] = NoCon] /\ ~MorePacks(c) /\ con' = con
  BY <1>1 DEF ReadDone
<1>3. Kept(con[c])
  BY DEF Streams
<1>4. ~con[c].lost => Drained(con[c])
  <2> SUFFICES ASSUME ~con[c].lost PROVE Drained(con[c])
    OBVIOUS
  <2>0. Stream(con[c])
    BY <1>3 DEF Kept
  <2>1. PICK v, n, k : v = con[c].rcvd /\ n = con[c].taken /\ k = con[c].noti
    OBVIOUS
  <2>2. v = n \/ ~(v - n >= k)
    BY <1>2, <2>0, <2>1, BufferIs DEF MorePacks
  <2>3. v \in Nat /\ n \in Nat /\ k \in Nat
    BY <2>0, <2>1 DEF Stream, Cells
  <2> QED
    BY <2>1, <2>2, <2>3 DEF Drained
<1>5. \A d \in Conns \ {c} : \A t \in NetThreads : busy[t] = d => busy'[t] = d
  BY <1>1, <1>2 DEF Tables, Typed, RestTyped
<1>6. Becomes(c, con[c])
  BY <1>2 DEF Becomes
<1> QED
  BY <1>3, <1>4, <1>5, <1>6, OneStream

LEMMA HandlePackStreams ==
  ASSUME Tables, Streams, NEW c \in Conns, HandlePack(c)
  PROVE  Streams'
<1>1. Kept(con[c]) /\ (~con[c].lost => Stream(con[c]))
  BY DEF Streams, Kept
<1>2. busy[con[c].thr] = c
  BY <1>1, HandlePackTables
<1>3. CASE Becomes(c, Gone(con[c].at)) /\ FailPack(c)
  <2>1. PICK h \in NetThreads : h = con[c].thr
    BY DEF Tables, Typed, ConTyped, RecTyped
  <2>2. busy' = [busy EXCEPT ![h] = NoCon] /\ busy[h] = c
    BY <1>2, <1>3, <2>1 DEF FailPack
  <2>3. \A d \in Conns \ {c} : \A t \in NetThreads : busy[t] = d => busy'[t] = d
    BY <2>1, <2>2 DEF Tables, Typed, RestTyped
  <2> QED
    BY <1>3, <2>3, RecycleStreams
<1>4. ASSUME NEW r, Becomes(c, r), SameRest(con[c], r), ~con[c].lost => Packed(con[c], r),
             busy' = busy
      PROVE  Streams'
  <2>1. ~con[c].lost => Stream(r)
    BY <1>1, <1>4, PackedStream
  <2>2. Kept(r)
    BY <1>1, <1>4, <2>1 DEF Kept, SameRest
  <2>3. busy'[r.thr] = c
    BY <1>2, <1>4 DEF SameEntry, SameRest
  <2> QED
    BY <1>4, <2>2, <2>3, OneStream
<1> QED
  BY <1>1, <1>3, <1>4, HandlePackTables

LEMMA HandleTimerStreams ==
  ASSUME Tables, Noted, Streams, NEW t \in NetThreads, NEW us \in Micros, HandleTimer(t, us)
  PROVE  Streams'
<1>0. PICK c \in Clients : \E k : TimedOut(t, us, c, k)
  BY HandleTimerIs
<1>1. PICK k : TimedOut(t, us, c, k)
  BY <1>0
<1>2. /\ nextId' = nextId /\ accepting' = accepting /\ busy' = busy /\ now' = now
      /\ c \in Conns
  BY HandleTimerIs DEF Conns
<1>3. RestTyped'
  BY <1>2 DEF Tables, Typed, RestTyped
<1>4. CASE ~Alive(c)
  BY <1>1, <1>2, <1>4, SameStreams DEF TimedOut
<1>5. CASE Alive(c) /\ TooLong(c)
  <2>1. Becomes(c, Gone(con[c].at))
    BY <1>1, <1>2, <1>3, <1>5, RecycleTables DEF TimedOut, RestTyped
  <2> QED
    BY <1>2, <2>1, RecycleStreams
<1>6. CASE Alive(c) /\ ~TooLong(c)
  <2>1. con[c].at = "done" /\ StartTimer(c, us) /\ group' = group
    BY <1>1, <1>6 DEF TimedOut
  <2>2. PICK r : /\ Becomes(c, r) /\ r.stage = con[c].stage /\ r.thr = con[c].thr
                 /\ SameStream(r, con[c])
    BY <1>2, <1>3, <1>6, <2>1, StartTables
  <2> QED
    BY <1>2, <2>2, QuietStreams DEF Alive
<1> QED
  BY <1>4, <1>5, <1>6

\* One connection changes, and so does whether on_create runs for it.
LEMMA NotedOne ==
  ASSUME Tables, Noted, NEW c \in Conns, NEW r, Becomes(c, r), now' = now,
         \/ accepting' = accepting
         \/ accepting = c /\ accepting' = NoCon
         \/ accepting = NoCon /\ accepting' = c,
         r.last \in {con[c].last, 0, now}, r.made \in {con[c].made, 0, now},
         r.stage = "created" => c = accepting' /\ r.at = "no",
         c \in Clients /\ r.stage \in {"created", "notified"} /\ c # accepting' => r.at = "done",
         c \in Servers => r.at \in {"no", "watched", "noted"},
         c = accepting' /\ r.stage \in {"created", "notified"} =>
            /\ r.made = now /\ r.last \in {0, now} /\ r.at # "done"
            /\ c \in Servers => r.at # "noted"
            /\ r.at = "added" => r.timer[1] = now + Period
  PROVE  Noted'
<1>1. now \in Nat /\ c # NoCon /\ accepting \in Conns \cup {NoCon}
  BY ServerAssumption DEF Tables, Typed, RestTyped, Conns, NoCon
<1>2. \A d \in Conns : d # c =>
         con'[d] = con[d] /\ (d = accepting' <=> d = accepting) /\ d # NoCon
  BY <1>1, ServerAssumption DEF Becomes, Conns, NoCon
<1>3. con'[c] = r
  BY DEF Becomes
<1>4. \A d \in Conns : con'[d].last \in Nat /\ con'[d].last <= now /\ con'[d].made \in Nat
  <2> SUFFICES ASSUME NEW d \in Conns
               PROVE  con'[d].last \in Nat /\ con'[d].last <= now /\ con'[d].made \in Nat
    OBVIOUS
  <2>1. con[d].last \in Nat /\ con[d].last <= now /\ con[d].made \in Nat
    BY DEF Noted
  <2>2. CASE d = c
    BY <1>1, <1>3, <2>1, <2>2
  <2>3. CASE d # c
    BY <1>2, <2>1, <2>3
  <2> QED
    BY <2>2, <2>3
<1>5. \A d \in Conns : con'[d].stage = "created" => d = accepting' /\ con'[d].at = "no"
  BY <1>2, <1>3 DEF Noted
<1>6. \A d \in Clients : Alive(d)' /\ d # accepting' => con'[d].at = "done"
  BY <1>2, <1>3 DEF Noted, Alive, Conns
<1>7. \A d \in Servers : con'[d].at \in {"no", "watched", "noted"}
  BY <1>2, <1>3 DEF Noted, Conns
<1>8. ASSUME accepting' # NoCon, Alive(accepting)'
      PROVE  /\ con'[accepting'].made = now /\ con'[accepting'].last \in {0, now}
             /\ con'[accepting'].at # "done"
             /\ accepting' \in Servers => con'[accepting'].at # "noted"
             /\ con'[accepting'].at = "added" => con'[accepting'].timer[1] = now + Period
  <2>1. CASE accepting' = c
    BY <1>3, <1>8, <2>1 DEF Alive
  <2>2. CASE accepting' # c
    <3>1. PICK d : d = accepting' /\ d \in Conns /\ d = accepting /\ con'[d] = con[d]
      BY <1>1, <1>2, <1>8, <2>2
    <3> QED
      BY <1>8, <3>1 DEF Noted, Alive
  <2> QED
    BY <2>1, <2>2
<1>9. now' > Period
  BY DEF Noted
<1> QED
  BY <1>4, <1>5, <1>6, <1>7, <1>8, <1>9 DEF Noted

\* The passes of the threads: a new timer is not due.
LEMMA PassesStay ==
  ASSUME Passes, pass' = pass, now' = now, ~crashed,
         \A t \in NetThreads : \A k \in DOMAIN timers'[t] :
            \/ k \in DOMAIN timers[t] /\ timers'[t][k] = timers[t][k]
            \/ k[1] > now
  PROVE  Passes'
<1> SUFFICES ASSUME NEW t \in NetThreads PROVE PassOf(t)'
  BY DEF Passes
<1>1. PassOf(t)
  BY DEF Passes
<1>2. Crowded' = Crowded
  BY DEF Crowded
<1>3. ASSUME ~Crowded
      PROVE  \A k \in DOMAIN timers'[t] : timers'[t][k] \in pass[t].done => k[1] > now
  BY <1>1, <1>3 DEF PassOf
<1> QED
  BY <1>1, <1>2, <1>3 DEF PassOf

\* The timers of the other clients.
LEMMA TimedOne ==
  ASSUME Tables, ~collided => Timed, ~collided' => ~collided, now' = now,
         \A t \in NetThreads : pass'[t].late = pass[t].late,
         NEW c \in Conns, NEW r, Becomes(c, r),
         ~collided' => \A t \in NetThreads : \A k \in DOMAIN timers[t] :
                          timers[t][k] # c => k \in DOMAIN timers'[t] /\ timers'[t][k] = timers[t][k],
         ~collided' /\ c \in Clients /\ HasAdded(r) => HasTimer(c)' /\ DueIn(c)'
  PROVE  ~collided' => Timed'
<1> SUFFICES ASSUME ~collided', NEW d \in Clients, HasAdded(con'[d])
             PROVE  HasTimer(d)' /\ DueIn(d)'
  BY DEF Timed
<1>1. d \in Conns
  BY DEF Conns
<1>2. CASE d = c
  BY <1>2 DEF Becomes
<1>3. CASE d # c
  <2>1. con'[d] = con[d] /\ HasTimer(d) /\ DueIn(d)
    BY <1>1, <1>3 DEF Becomes, Timed
  <2>2. PICK t, k : t = con[d].thr /\ k = con[d].timer
    OBVIOUS
  <2>3. t \in NetThreads /\ k \in DOMAIN timers[t] /\ timers[t][k] = d
    BY <1>1, <2>1, <2>2 DEF HasTimer, Tables, Typed, ConTyped, RecTyped
  <2>4. k \in DOMAIN timers'[t] /\ timers'[t][k] = d
    BY <1>3, <2>3
  <2>5. HasTimer(d)'
    BY <2>1, <2>2, <2>4 DEF HasTimer
  <2>6. DueIn(d)'
    BY <2>1, <2>2, <2>3 DEF DueIn
  <2> QED
    BY <2>5, <2>6
<1> QED
  BY <1>2, <1>3

\* The key in m_timers is that of no other client.
LEMMA OwnKey ==
  ASSUME Tables, Noted, Timed, NEW c \in Conns, Alive(c),
         con[c].key \in DOMAIN timers[con[c].thr]
  PROVE  timers[con[c].thr][con[c].key] = c
<1>1. RecTyped(con[c]) /\ con[c].thr \in NetThreads
  BY DEF Tables, Typed, ConTyped, RecTyped
<1>2. con[c].key \in Keys
  BY <1>1 DEF Tables, Typed, TimersTyped
<1>3. con[c].key # <<>>
  BY <1>2, KeyIs
<1>4. con[c].at = "done" /\ con[c].key = con[c].timer
  BY <1>1, <1>3 DEF RecTyped
<1>5. c \in Clients
  BY <1>4 DEF Noted, Conns
<1>6. HasTimer(c)
  BY <1>4, <1>5 DEF Timed, HasAdded, Alive
<1> QED
  BY <1>4, <1>6 DEF HasTimer

\* A connection that is recycled takes no timer but its own.
LEMMA RecycleNoted ==
  ASSUME Tables, Noted, NEW c \in Conns, Becomes(c, Gone(con[c].at)),
         now' = now, accepting' = accepting
  PROVE  Noted'
<1>1. PICK r : r = Gone(con[c].at)
  OBVIOUS
<1>2. r.stage = "gone" /\ r.last = 0 /\ r.made = 0 /\ r.at = con[c].at
  BY <1>1, GoneIs
<1>3. c \in Servers => r.at \in {"no", "watched", "noted"}
  BY <1>2 DEF Noted
<1> QED
  BY <1>1, <1>2, <1>3, NotedOne

LEMMA RecycledTimers ==
  ASSUME Tables, NEW c \in Conns, Recycle(c)
  PROVE  /\ \A t \in NetThreads : DOMAIN timers'[t] =
              IF t = con[c].thr THEN DOMAIN timers[t] \ {con[c].key} ELSE DOMAIN timers[t]
         /\ \A t \in NetThreads : \A k \in DOMAIN timers'[t] : timers'[t][k] = timers[t][k]
<1>1. PICK h \in NetThreads : h = con[c].thr
  BY DEF Tables, Typed, ConTyped, RecTyped
<1>2. PICK tm, k0, w : tm = timers[h] /\ k0 = con[c].key /\ w = Without(tm, k0)
  OBVIOUS
<1>3. timers' = [timers EXCEPT ![h] = w]
  BY <1>1, <1>2 DEF Recycle, DelTimer
<1>4. DOMAIN w = DOMAIN tm \ {k0} /\ \A k \in DOMAIN w : w[k] = tm[k]
  <2>1. DOMAIN w = DOMAIN tm \ {k0}
    BY <1>2, WithoutEntry
  <2>2. \A k \in DOMAIN tm \ {k0} : Without(tm, k0)[k] = tm[k]
    BY WithoutEntry
  <2> QED
    BY <1>2, <2>1, <2>2
<1>5. timers' = [t \in NetThreads |-> IF t = h THEN w ELSE timers[t]]
  BY <1>3 DEF Tables, Typed, TimersTyped
<1> QED
  BY <1>1, <1>2, <1>4, <1>5

LEMMA RecycleTimed ==
  ASSUME Tables, Noted, ~collided => Timed, NEW c \in Conns, Alive(c), Recycle(c),
         Becomes(c, Gone(con[c].at)), now' = now, collided' = collided,
         \A t \in NetThreads : pass'[t].late = pass[t].late
  PROVE  ~collided' => Timed'
<1>1. PICK r : r = Gone(con[c].at)
  OBVIOUS
<1>2. ~HasAdded(r) /\ Becomes(c, r)
  BY <1>1, GoneIs DEF HasAdded
<1>3. ASSUME ~collided', NEW t \in NetThreads, NEW k \in DOMAIN timers[t], timers[t][k] # c
      PROVE  k \in DOMAIN timers'[t] /\ timers'[t][k] = timers[t][k]
  <2>1. ~(t = con[c].thr /\ k = con[c].key)
    BY <1>3, OwnKey
  <2>2. k \in DOMAIN timers'[t]
    BY <2>1, RecycledTimers
  <2> QED
    BY <2>2, RecycledTimers
<1> QED
  BY <1>2, <1>3, TimedOne

LEMMA RecycleWatched ==
  ASSUME Tables, Watched, NEW c \in Conns, Alive(c), Recycle(c), ~crashed,
         Becomes(c, Gone(con[c].at)), now' = now, accepting' = accepting, collided' = collided,
         pass' = pass
  PROVE  Watched'
<1>1. Noted'
  BY RecycleNoted DEF Watched
<1>2. ~collided' => Timed'
  BY RecycleTimed DEF Watched
<1>3. Passes'
  <2>1. \A t \in NetThreads : \A k \in DOMAIN timers'[t] :
           k \in DOMAIN timers[t] /\ timers'[t][k] = timers[t][k]
    BY RecycledTimers
  <2> QED
    BY <2>1, PassesStay DEF Watched
<1> QED
  BY <1>1, <1>2, <1>3 DEF Watched

\* No time passes and no timer changes: the connection may have got a message.
LEMMA QuietWatched ==
  ASSUME Tables, Watched, NEW c \in Conns, NEW r, Becomes(c, r), ~crashed,
         SameEntry(r, con[c]), r.stage = con[c].stage, r.made = con[c].made,
         r.last \in {con[c].last, now},
         timers' = timers, now' = now, accepting' = accepting, collided' = collided, pass' = pass
  PROVE  Watched'
<1>1. now \in Nat /\ Period \in Nat
  BY ServerAssumption DEF Tables, Typed, RestTyped
<1>2. Noted'
  <2>1. /\ r.at = con[c].at /\ r.timer = con[c].timer
        /\ c \in Servers => con[c].at \in {"no", "watched", "noted"}
        /\ con[c].stage = "created" => c = accepting /\ con[c].at = "no"
        /\ c \in Clients /\ Alive(c) /\ c # accepting => con[c].at = "done"
    BY DEF SameEntry, Watched, Noted
  <2>2. c = accepting /\ Alive(c) =>
           /\ con[c].made = now /\ con[c].last \in {0, now} /\ con[c].at # "done"
           /\ c \in Servers => con[c].at # "noted"
           /\ con[c].at = "added" => con[c].timer[1] = now + Period
    <3>1. c # NoCon
      BY ServerAssumption DEF Conns, NoCon
    <3> QED
      BY <3>1 DEF Watched, Noted
  <2> QED
    BY <2>1, <2>2, NotedOne DEF Alive, Watched
<1>3. Passes'
  BY PassesStay DEF Watched
<1>4. ASSUME ~collided, c \in Clients, HasAdded(r)
      PROVE  HasTimer(c)' /\ DueIn(c)'
  <2>1. HasAdded(con[c]) /\ con'[c] = r
    BY <1>4 DEF HasAdded, SameEntry, Becomes
  <2>2. HasTimer(c) /\ DueIn(c)
    BY <1>4, <2>1 DEF Watched, Timed
  <2>3. r.timer = con[c].timer /\ r.thr = con[c].thr
    BY DEF SameEntry
  <2>4. HasTimer(c)'
    BY <2>1, <2>2, <2>3 DEF HasTimer
  <2>5. PICK k, l, m : /\ k = con[c].timer[1] /\ l = con[c].last /\ m = con[c].made
                       /\ k \in Nat
    <3>1. con[c].timer \in Keys
      <4>1. con[c].thr \in NetThreads
        BY DEF Tables, Typed, ConTyped, RecTyped
      <4> QED
        BY <2>2, <4>1 DEF HasTimer, Tables, Typed, TimersTyped
    <3> QED
      BY <3>1, KeyIs
  <2>6. k <= now + Period /\ (k <= IF l = 0 THEN m + Period ELSE l + 2 * Period)
        /\ now > Period
    BY <2>2, <2>5 DEF DueIn, Watched, Noted
  <2>7. k <= IF r.last = 0 THEN m + Period ELSE r.last + 2 * Period
    <3>1. CASE r.last = l
      BY <2>6, <3>1
    <3>2. CASE r.last = now
      BY <1>1, <2>5, <2>6, <3>2
    <3> QED
      BY <2>5, <3>1, <3>2
  <2>8. DueIn(c)'
    BY <2>1, <2>2, <2>3, <2>5, <2>7 DEF DueIn
  <2> QED
    BY <2>4, <2>8
<1>5. ~collided' => Timed'
  BY <1>4, TimedOne DEF Watched
<1> QED
  BY <1>2, <1>3, <1>5 DEF Watched

\* The steps that change no connection.
LEMMA SameWatched ==
  ASSUME Watched, con' = con, timers' = timers, accepting' = accepting, now' = now,
         collided' = collided, pass' = pass, ~crashed
  PROVE  Watched'
<1>1. Noted'
  BY DEF Watched, Noted, Alive
<1>2. Passes'
  BY PassesStay DEF Watched
<1>3. ~collided' => Timed'
  BY DEF Watched, Timed, HasTimer, DueIn
<1> QED
  BY <1>1, <1>2, <1>3 DEF Watched

LEMMA InitWatched == Init => Watched
<1> SUFFICES ASSUME Init PROVE Watched
  OBVIOUS
<1>1. \A c \in Conns : con[c] = NewCon
  BY DEF Init
<1>2. accepting = NoCon /\ now = Start /\ now \in Nat
  BY ServerAssumption DEF Init
<1>3. Noted
  BY <1>1, <1>2, FieldsAre, ServerAssumption DEF Noted, Conns, Alive
<1>4. Passes
  <2>1. timers = [t \in NetThreads |-> <<>>] /\ pass = [t \in NetThreads |-> NewPass]
    BY DEF Init
  <2>2. 0 <= TimerMax
    BY ServerAssumption
  <2> QED
    BY <2>1, <2>2, FS_EmptySet DEF Passes, PassOf, NewPass
<1>5. Timed
  BY <1>1, FieldsAre DEF Timed, HasAdded, Conns
<1> QED
  BY <1>3, <1>4, <1>5 DEF Watched

LEMMA AcceptWatched ==
  ASSUME Tables, Watched, ~crashed, NEW c \in Conns, Accept(c)
  PROVE  Watched'
<1>1. PICK r : /\ Becomes(c, r) /\ r.stage = "created" /\ r.at = "no" /\ r.last = 0 /\ r.made = now
  BY AcceptTables
<1>2. /\ accepting = NoCon /\ accepting' = c /\ timers' = timers /\ now' = now
      /\ collided' = collided /\ pass' = pass
  BY DEF Accept, Idle
<1>3. Noted'
  BY <1>1, <1>2, NotedOne DEF Watched
<1>4. Passes'
  BY <1>2, PassesStay DEF Watched
<1>5. ~HasAdded(r)
  BY <1>1 DEF HasAdded
<1>6. ~collided' => Timed'
  BY <1>1, <1>2, <1>5, TimedOne DEF Watched
<1> QED
  BY <1>3, <1>4, <1>6 DEF Watched

LEMMA SetNotifyWatched ==
  ASSUME Tables, Watched, ~crashed, SetNotify
  PROVE  Watched'
<1>0. PICK c \in Conns : \E r :
         /\ c = accepting /\ con[c].stage = "created" /\ Becomes(c, r)
         /\ r.stage = "notified" /\ r.at = "watched" /\ SameStream(r, con[c])
         /\ r.thr = con[c].thr /\ r.last = con[c].last /\ r.made = con[c].made
  BY SetNotifyTables DEF Watched
<1>1. PICK r : /\ c = accepting /\ con[c].stage = "created" /\ Becomes(c, r)
               /\ r.stage = "notified" /\ r.at = "watched"
               /\ r.last = con[c].last /\ r.made = con[c].made
  BY <1>0
<1>2. /\ accepting' = accepting /\ timers' = timers /\ now' = now
      /\ collided' = collided /\ pass' = pass
  BY DEF SetNotify
<1>3. con[c].made = now /\ con[c].last \in {0, now}
  <2>1. accepting # NoCon /\ Alive(accepting)
    BY <1>1 DEF SetNotify, Alive
  <2> QED
    BY <1>1, <2>1 DEF Watched, Noted
<1>4. Noted'
  BY <1>1, <1>2, <1>3, NotedOne DEF Watched
<1>5. Passes'
  BY <1>2, PassesStay DEF Watched
<1>6. ~HasAdded(r)
  BY <1>1 DEF HasAdded
<1>7. ~collided' => Timed'
  BY <1>1, <1>2, <1>6, TimedOne DEF Watched
<1> QED
  BY <1>4, <1>5, <1>7 DEF Watched

LEMMA NotiWrittenWatched ==
  ASSUME Tables, Watched, ~crashed, NotiWritten
  PROVE  Watched'
<1>0. PICK c \in Conns : \E r :
         /\ c = accepting /\ con[c].at = "watched" /\ Becomes(c, r)
         /\ r.stage = con[c].stage /\ r.at = "noted" /\ SameStream(r, con[c])
         /\ r.key = con[c].key /\ r.thr = con[c].thr
         /\ r.last = con[c].last /\ r.made = con[c].made
  BY NotiWrittenTables
<1>1. PICK r : /\ c = accepting /\ con[c].at = "watched" /\ Becomes(c, r)
               /\ r.stage = con[c].stage /\ r.at = "noted"
               /\ r.last = con[c].last /\ r.made = con[c].made
  BY <1>0
<1>2. /\ accepting' = IF c \in Servers THEN NoCon ELSE accepting
      /\ timers' = timers /\ now' = now /\ collided' = collided /\ pass' = pass
  BY <1>1 DEF NotiWritten
<1>3. /\ Alive(c) => con[c].made = now /\ con[c].last \in {0, now}
      /\ con[c].stage # "created" /\ accepting # NoCon
  <2>1. accepting # NoCon
    BY DEF NotiWritten
  <2> QED
    BY <1>1, <2>1 DEF Watched, Noted
<1>4. Noted'
  <2>1. \/ accepting' = accepting
        \/ accepting = c /\ accepting' = NoCon /\ c \notin Clients
    BY <1>1, <1>2, ServerAssumption
  <2>2. c \in Clients => accepting' = c
    BY <1>1, <2>1
  <2> QED
    BY <1>1, <1>2, <1>3, <2>1, <2>2, NotedOne DEF Watched, Alive
<1>5. Passes'
  BY <1>2, PassesStay DEF Watched
<1>6. ~HasAdded(r)
  BY <1>1 DEF HasAdded
<1>7. ~collided' => Timed'
  BY <1>1, <1>2, <1>6, TimedOne DEF Watched
<1> QED
  BY <1>4, <1>5, <1>7 DEF Watched

\* A timer that is started takes none from another client, when no key is met twice.
LEMMA StartedTimed ==
  ASSUME Tables, Noted, ~collided => Timed, NEW c \in Clients, Alive(c), NEW us \in Micros,
         NEW r, Becomes(c, r), r.thr = con[c].thr, r.timer = <<now + Period, us>>,
         r.last \in Nat, r.made \in Nat,
         r.last = 0 => r.made = now, r.last # 0 => now - r.last <= Period,
         Restarted(c, con[c].thr, <<now + Period, us>>),
         ~collided' => /\ ~collided
                       /\ <<now + Period, us>> \notin DOMAIN timers[con[c].thr] \ {con[c].key},
         now' = now, \A t \in NetThreads : pass'[t].late = pass[t].late, Passes
  PROVE  ~collided' => Timed'
<1>1. now \in Nat /\ Period \in Nat /\ c \in Conns
  BY ServerAssumption DEF Tables, Typed, RestTyped, Conns
<1>2. PICK h \in NetThreads : h = con[c].thr
  BY <1>1 DEF Tables, Typed, ConTyped, RecTyped
<1>3. PICK key, k0 : key = <<now + Period, us>> /\ k0 = con[c].key
  OBVIOUS
<1>4. /\ \A t \in NetThreads : t # h => timers'[t] = timers[t]
      /\ DOMAIN timers'[h] = (DOMAIN timers[h] \ {k0}) \cup {key}
      /\ timers'[h][key] = c
      /\ \A k \in DOMAIN timers[h] \ {k0} : k # key => timers'[h][k] = timers[h][k]
  BY <1>2, <1>3 DEF Restarted
<1>5. ASSUME ~collided', NEW t \in NetThreads, NEW k \in DOMAIN timers[t], timers[t][k] # c
      PROVE  k \in DOMAIN timers'[t] /\ timers'[t][k] = timers[t][k]
  <2>1. CASE t # h
    BY <1>4, <2>1
  <2>2. CASE t = h
    <3>1. k # k0
      BY <1>1, <1>2, <1>3, <1>5, <2>2, OwnKey
    <3>2. k # key
      BY <1>2, <1>3, <1>5, <2>2, <3>1
    <3> QED
      BY <1>4, <2>2, <3>1, <3>2
  <2> QED
    BY <2>1, <2>2
<1>6. HasTimer(c)' /\ DueIn(c)'
  <2>1. con'[c] = r
    BY DEF Becomes
  <2>2. HasTimer(c)'
    BY <1>2, <1>3, <1>4, <2>1 DEF HasTimer
  <2>3. r.timer[1] = now + Period
    OBVIOUS
  <2>4. pass'[h].late \in Nat
    BY <1>2 DEF Passes, PassOf
  <2>5. now <= r.timer[1] + pass'[h].late /\ r.timer[1] <= now + Period
    BY <1>1, <2>3, <2>4
  <2>6. r.timer[1] <= IF r.last = 0 THEN r.made + Period ELSE r.last + 2 * Period
    BY <1>1, <2>3
  <2>7. DueIn(c)'
    BY <1>2, <2>1, <2>5, <2>6 DEF DueIn
  <2> QED
    BY <2>2, <2>7
<1> QED
  BY <1>1, <1>5, <1>6, TimedOne

\* It is not due.
LEMMA StartedTimers ==
  ASSUME Tables, NEW c \in Conns, NEW us \in Micros,
         Restarted(c, con[c].thr, <<now + Period, us>>)
  PROVE  \A t \in NetThreads : \A k \in DOMAIN timers'[t] :
            \/ /\ k \in DOMAIN timers[t] /\ timers'[t][k] = timers[t][k]
               /\ t = con[c].thr => k # con[c].key
            \/ k[1] > now
<1>1. PICK key, k0 : key = <<now + Period, us>> /\ k0 = con[c].key
  OBVIOUS
<1>2. key[1] > now
  BY <1>1, ServerAssumption DEF Tables, Typed, RestTyped
<1>3. PICK h \in NetThreads : h = con[c].thr
  BY DEF Tables, Typed, ConTyped, RecTyped
<1>4. /\ \A t \in NetThreads : t # h => timers'[t] = timers[t]
      /\ DOMAIN timers'[h] = (DOMAIN timers[h] \ {k0}) \cup {key}
      /\ \A k \in DOMAIN timers[h] \ {k0} : k # key => timers'[h][k] = timers[h][k]
  BY <1>1, <1>3 DEF Restarted
<1>5. ASSUME NEW t \in NetThreads, NEW k \in DOMAIN timers'[t], k # key
      PROVE  /\ k \in DOMAIN timers[t] /\ timers'[t][k] = timers[t][k]
             /\ t = h => k # k0
  BY <1>4, <1>5
<1> QED
  BY <1>1, <1>2, <1>3, <1>5

LEMMA OnCreateTimerWatched ==
  ASSUME Tables, Watched, ~crashed, NEW us \in Micros, OnCreateTimer(us)
  PROVE  Watched'
<1>1. accepting' = accepting /\ now' = now /\ pass' = pass /\ accepting # NoCon
  BY DEF OnCreateTimer
<1>2. CASE con' = con /\ timers' = timers /\ collided' = collided
  BY <1>1, <1>2, SameWatched
<1>3. CASE ~(con' = con /\ timers' = timers /\ collided' = collided)
  <2>0. PICK c \in Conns :
          /\ c = accepting /\ Alive(c) /\ con[c].at = "noted"
          /\ Restarted(c, con[c].thr, <<now + Period, us>>)
          /\ \E r : /\ Becomes(c, r) /\ r.stage = con[c].stage /\ r.thr = con[c].thr
                    /\ r.at = "added" /\ SameStream(r, con[c])
                    /\ r.timer = <<now + Period, us>> /\ r.key = <<>>
                    /\ r.last = con[c].last /\ r.made = con[c].made
          /\ ~collided' => /\ ~collided
                           /\ <<now + Period, us>> \notin DOMAIN timers[con[c].thr] \ {con[c].key}
    BY <1>3, OnCreateTimerTables
  <2>1. PICK r : /\ Becomes(c, r) /\ r.stage = con[c].stage /\ r.thr = con[c].thr
                 /\ r.at = "added" /\ r.timer = <<now + Period, us>>
                 /\ r.last = con[c].last /\ r.made = con[c].made
    BY <2>0
  <2>2. con[c].made = now /\ con[c].last \in {0, now} /\ now \in Nat
    BY <1>1, <2>0 DEF Watched, Noted, Tables, Typed, RestTyped
  <2>3. c \notin Servers
    \* on_create of a server starts no timer.
    BY <1>1, <2>0 DEF Watched, Noted
  <2>4. CASE c \in Clients
    <3>1. con[c].stage # "created" /\ r.timer[1] = now + Period
      BY <2>0, <2>1 DEF Watched, Noted
    <3>2. Noted'
      BY <1>1, <2>0, <2>1, <2>2, <2>4, <3>1, ServerAssumption, NotedOne DEF Watched, Alive
    <3>3. r.last \in Nat /\ r.made \in Nat /\ (r.last = 0 => r.made = now)
          /\ (r.last # 0 => now - r.last <= Period)
      BY <2>1, <2>2, ServerAssumption
    <3>4. ~collided' => Timed'
      BY <1>1, <2>0, <2>1, <2>4, <3>3, StartedTimed DEF Watched
    <3>5. \A t \in NetThreads : \A k \in DOMAIN timers'[t] :
             \/ k \in DOMAIN timers[t] /\ timers'[t][k] = timers[t][k]
             \/ k[1] > now
      BY <2>0, StartedTimers
    <3>6. Passes'
      BY <1>1, <3>5, PassesStay DEF Watched
    <3> QED
      BY <3>2, <3>4, <3>6 DEF Watched
  <2> QED
    BY <2>3, <2>4 DEF Conns
<1> QED
  BY <1>2, <1>3

LEMMA OnCreateEndsWatched ==
  ASSUME Tables, Watched, ~crashed, OnCreateEnds
  PROVE  Watched'
<1>1. /\ accepting' = NoCon /\ now' = now /\ pass' = pass /\ accepting # NoCon
      /\ timers' = timers /\ collided' = collided
  BY DEF OnCreateEnds
<1>2. Passes'
  BY <1>1, PassesStay DEF Watched
<1>0. PICK c \in Conns : c = accepting /\ con[c].at = "added" /\
              \/ con' = con /\ ~Alive(c)
              \/ \E r : /\ Becomes(c, r) /\ Alive(c) /\ r.stage = con[c].stage
                        /\ r.thr = con[c].thr /\ r.at = "done" /\ SameStream(r, con[c])
                        /\ r.timer = con[c].timer /\ r.key = con[c].timer
                        /\ r.last = con[c].last /\ r.made = con[c].made
  BY OnCreateEndsTables
<1>3. c \in Clients
  BY <1>0 DEF Watched, Noted, Conns
<1>4. CASE con' = con /\ ~Alive(c)
  <2>1. Noted'
    <3>1. \A d \in Clients : Alive(d) => d # accepting
      BY <1>0, <1>4
    <3>2. \A d \in Conns : con[d].stage = "created" => d # accepting
      BY <1>0, <1>4 DEF Alive
    <3> QED
      BY <1>1, <1>4, <3>1, <3>2 DEF Watched, Noted, Alive
  <2>2. ~collided' => Timed'
    BY <1>1, <1>4 DEF Watched, Timed, HasTimer, DueIn
  <2> QED
    BY <1>2, <2>1, <2>2 DEF Watched
<1>5. ASSUME NEW r, Becomes(c, r), Alive(c), r.stage = con[c].stage, r.thr = con[c].thr,
             r.at = "done", r.timer = con[c].timer, r.last = con[c].last, r.made = con[c].made
      PROVE  Watched'
  <2>1. con[c].stage # "created"
    BY <1>0 DEF Watched, Noted
  <2>2. Noted'
    <3>1. c # NoCon /\ c \notin Servers
      BY <1>3, ServerAssumption DEF NoCon, Conns
    <3> QED
      BY <1>0, <1>1, <1>5, <2>1, <3>1, NotedOne DEF Watched
  <2>3. ASSUME ~collided PROVE HasTimer(c)' /\ DueIn(c)'
    <3>1. HasTimer(c) /\ DueIn(c)
      BY <1>0, <1>3, <1>5, <2>3 DEF Watched, Timed, HasAdded, Alive
    <3>2. con'[c] = r
      BY <1>5 DEF Becomes
    <3> QED
      BY <1>1, <1>5, <3>1, <3>2 DEF HasTimer, DueIn
  <2>4. ~collided' => Timed'
    BY <1>1, <1>5, <2>3, TimedOne DEF Watched
  <2> QED
    BY <1>2, <2>2, <2>4 DEF Watched
<1> QED
  BY <1>0, <1>4, <1>5

LEMMA HandlePackWatched ==
  ASSUME Tables, Watched, ~crashed, NEW c \in Conns, ~con[c].lost => Stream(con[c]), HandlePack(c)
  PROVE  Watched'
<1>1. /\ busy[con[c].thr] = c
      /\ accepting' = accepting /\ now' = now /\ collided' = collided /\ pass' = pass
  BY HandlePackIs
<1>2. CASE Becomes(c, Gone(con[c].at)) /\ FailPack(c)
  <2>1. con[c].thr \in NetThreads /\ c # NoCon
    BY ServerAssumption DEF Tables, Typed, ConTyped, RecTyped, Conns, NoCon
  <2>2. Alive(c)
    BY <1>1, <2>1 DEF Tables, InTables, Alive
  <2> QED
    BY <1>1, <1>2, <2>2, RecycleWatched DEF FailPack
<1>3. ASSUME NEW r, Becomes(c, r), SameRest(con[c], r),
             timers' = timers, c \in Clients => r.last = now,
             c \notin Clients => r.last = con[c].last
      PROVE  Watched'
  BY <1>1, <1>3, QuietWatched DEF SameRest
<1> QED
  BY <1>2, <1>3, HandlePackTables

\* The pass has handled the timer of c.
LEMMA PassesHandled ==
  ASSUME Passes, ~crashed, now' = now, NEW t \in NetThreads, NEW c \in Clients, ~FullPass(t),
         pass' = [pass EXCEPT ![t].done = @ \cup {c}],
         ~crashed' => \A h \in NetThreads : \A k \in DOMAIN timers'[h] :
            \/ /\ k \in DOMAIN timers[h] /\ timers'[h][k] = timers[h][k]
               /\ h = t => timers[h][k] # c
            \/ k[1] > now
  PROVE  Passes' /\ \A h \in NetThreads : pass'[h].late = pass[h].late
<1>1. PICK q, D : q = pass[t] /\ D = q.done \cup {c}
  OBVIOUS
<1>2. PassOf(t) /\ q = pass[t] /\ DOMAIN q = {"done", "rest", "late"} /\ IsFiniteSet(q.done)
      /\ q.done \in SUBSET Clients
  BY <1>1 DEF Passes, PassOf
<1>3. PICK p : p = [q EXCEPT !.done = D]
  OBVIOUS
<1>4. /\ pass' = [h \in NetThreads |-> IF h = t THEN p ELSE pass[h]]
      /\ DOMAIN p = {"done", "rest", "late"}
      /\ p.done = D /\ p.rest = q.rest /\ p.late = q.late
  <2>1. pass = [h \in NetThreads |-> pass[h]]
    BY DEF Passes
  <2>2. pass' = [pass EXCEPT ![t] = p]
    BY <1>1, <1>3
  <2> QED
    BY <1>2, <1>3, <2>1, <2>2
<1>5. D \in SUBSET Clients /\ IsFiniteSet(D) /\ Cardinality(D) <= TimerMax
  <2>1. PICK S : S = q.done
    OBVIOUS
  <2>2. PICK a, b : a = Cardinality(S) /\ b = Cardinality(S \cup {c})
    OBVIOUS
  <2>3. IsFiniteSet(S \cup {c}) /\ b = (IF c \in S THEN a ELSE a + 1) /\ a \in Nat
    BY <1>2, <2>1, <2>2, FS_AddElement, FS_CardinalityType
  <2>4. a < TimerMax
    BY <1>1, <2>1, <2>2, <2>3, ServerAssumption DEF FullPass
  <2>5. b <= TimerMax
    BY <2>3, <2>4, ServerAssumption
  <2>6. D \in SUBSET Clients
    BY <1>1, <1>2
  <2> QED
    BY <1>1, <2>1, <2>2, <2>3, <2>5, <2>6
<1>6. Crowded' = Crowded
  BY DEF Crowded
<1>7. ASSUME NEW h \in NetThreads PROVE PassOf(h)'
  <2>0. PassOf(h)
    BY DEF Passes
  <2>1. CASE h = t
    <3>1. ASSUME ~Crowded, ~crashed', NEW k \in DOMAIN timers'[t], timers'[t][k] \in D
          PROVE  k[1] > now
      <4>1. CASE k[1] > now
        BY <4>1
      <4>2. CASE k \in DOMAIN timers[t] /\ timers'[t][k] = timers[t][k] /\ timers[t][k] # c
        <5>1. timers[t][k] \in pass[t].done
          BY <1>1, <3>1, <4>2
        <5> QED
          BY <1>2, <3>1, <4>2, <5>1 DEF PassOf
      <4> QED
        BY <3>1, <4>1, <4>2
    <3>2. pass'[h] = p /\ ~Crowded => p.rest = 0 /\ p.late = 0
      BY <1>1, <1>2, <1>4 DEF PassOf
    <3>3. pass'[h] = p /\ p.rest \in Nat /\ p.late \in Nat
      BY <1>1, <1>2, <1>4, <2>1 DEF PassOf
    <3> QED
      BY <1>4, <1>5, <1>6, <2>1, <3>1, <3>2, <3>3 DEF PassOf
  <2>2. CASE h # t
    <3>1. pass'[h] = pass[h]
      BY <1>4, <2>2
    <3>2. ASSUME ~Crowded, ~crashed', NEW k \in DOMAIN timers'[h], timers'[h][k] \in pass[h].done
          PROVE  k[1] > now
      BY <2>0, <3>2 DEF PassOf
    <3> QED
      BY <1>6, <2>0, <3>1, <3>2 DEF PassOf
  <2> QED
    BY <2>1, <2>2
<1>8. pass' = [h \in NetThreads |-> pass'[h]]
  BY <1>4
<1>9. \A h \in NetThreads : pass'[h].late = pass[h].late
  BY <1>1, <1>4
<1> QED
  BY <1>7, <1>8, <1>9 DEF Passes

LEMMA HandleTimerWatched ==
  ASSUME Tables, Watched, ~crashed, NEW t \in NetThreads, NEW us \in Micros, HandleTimer(t, us)
  PROVE  Watched'
<1>0. PICK c \in Clients : \E k : TimedOut(t, us, c, k)
  BY HandleTimerIs DEF Watched
<1>1. PICK k : TimedOut(t, us, c, k)
  BY <1>0
<1>2. /\ nextId' = nextId /\ accepting' = accepting /\ busy' = busy /\ now' = now
      /\ c \in Conns /\ c # NoCon
  BY HandleTimerIs, ServerAssumption DEF Watched, Conns, NoCon
<1>3. /\ ~FullPass(t) /\ pass' = [pass EXCEPT ![t].done = @ \cup {c}] /\ Passes /\ Noted
      /\ ~collided => Timed
  BY <1>1 DEF TimedOut, Watched
<1>4. CASE ~Alive(c)
  <2>1. crashed' = TRUE /\ con' = con /\ timers' = timers /\ collided' = collided
    BY <1>1, <1>4 DEF TimedOut
  <2>2. Passes' /\ \A h \in NetThreads : pass'[h].late = pass[h].late
    BY <1>2, <1>3, <2>1, PassesHandled
  <2>3. Noted'
    BY <1>2, <1>3, <2>1 DEF Noted, Alive
  <2>4. Becomes(c, con[c])
    BY <2>1 DEF Becomes
  <2>5. ASSUME ~collided, HasAdded(con[c]) PROVE HasTimer(c)' /\ DueIn(c)'
    BY <1>4, <2>5 DEF HasAdded, Alive
  <2>6. ~collided' => Timed'
    BY <1>2, <1>3, <2>1, <2>2, <2>4, <2>5, TimedOne
  <2> QED
    BY <2>2, <2>3, <2>6 DEF Watched
<1>5. ASSUME Alive(c)
      PROVE  \A h \in NetThreads : \A j \in DOMAIN timers[h] :
               /\ timers[h][j] = c => h = con[c].thr /\ j = con[c].key
               /\ c # accepting /\ con[c].at = "done" /\ con[c].thr = t
  <2>1. c # accepting /\ con[c].at = "done" /\ con[c].thr = t
    BY <1>1, <1>5 DEF TimedOut
  <2>2. con[c].key = con[c].timer
    BY <1>2, <2>1 DEF Tables, Typed, ConTyped, RecTyped
  <2> QED
    BY <1>2, <1>5, <2>1, <2>2 DEF Tables, InTables, Entered, Alive
<1>6. CASE Alive(c) /\ TooLong(c)
  <2>1. Recycle(c) /\ collided' = collided /\ RestTyped'
    BY <1>1, <1>2, <1>6 DEF TimedOut, Tables, Typed, RestTyped
  <2>2. Becomes(c, Gone(con[c].at))
    <3>1. \A h \in NetThreads : busy[h] # c
      BY <1>1, <1>6 DEF TimedOut
    <3> QED
      BY <1>2, <1>6, <2>1, <3>1, RecycleTables
  <2>3. \A h \in NetThreads : \A j \in DOMAIN timers'[h] :
           /\ j \in DOMAIN timers[h] /\ timers'[h][j] = timers[h][j]
           /\ h = con[c].thr => j # con[c].key
    BY <1>2, <2>1, RecycledTimers
  <2>4. \A h \in NetThreads : \A j \in DOMAIN timers'[h] :
           /\ j \in DOMAIN timers[h] /\ timers'[h][j] = timers[h][j] /\ timers[h][j] # c
    BY <1>5, <1>6, <2>3
  <2>5. Passes' /\ \A h \in NetThreads : pass'[h].late = pass[h].late
    <3>1. \A h \in NetThreads : \A j \in DOMAIN timers'[h] :
             \/ /\ j \in DOMAIN timers[h] /\ timers'[h][j] = timers[h][j]
                /\ timers[h][j] # c
             \/ j[1] > now
      BY <2>4
    <3> QED
      BY <1>2, <1>3, <3>1, PassesHandled
  <2>6. Noted'
    BY <1>2, <1>3, <2>2, RecycleNoted
  <2>7. ~collided' => Timed'
    BY <1>2, <1>3, <1>6, <2>1, <2>2, <2>5, RecycleTimed
  <2> QED
    BY <2>5, <2>6, <2>7 DEF Watched
<1>7. CASE Alive(c) /\ ~TooLong(c)
  <2>1. /\ StartTimer(c, us) /\ group' = group /\ con[c].at = "done" /\ RestTyped'
        /\ c # accepting
    BY <1>1, <1>2, <1>7 DEF TimedOut, Tables, Typed, RestTyped
  <2>2. PICK r : /\ Becomes(c, r) /\ r.stage = con[c].stage /\ r.thr = con[c].thr
                 /\ r.at = "done" /\ r.timer = <<now + Period, us>>
                 /\ r.last = con[c].last /\ r.made = con[c].made
    BY <1>2, <1>7, <2>1, StartTables
  <2>3. /\ Restarted(c, con[c].thr, <<now + Period, us>>)
        /\ ~collided' => /\ ~collided
                         /\ <<now + Period, us>> \notin DOMAIN timers[con[c].thr] \ {con[c].key}
    BY <1>2, <1>7, <2>1, StartTables
  <2>4. now > Period /\ now - con[c].last <= Period /\ con[c].last \in Nat /\ con[c].made \in Nat
        /\ now \in Nat
    BY <1>2, <1>3, <1>7, ServerAssumption DEF TooLong, Noted, Tables, Typed, RestTyped
  <2>5. con[c].last # 0
    BY <2>4, ServerAssumption
  <2>6. \A h \in NetThreads : \A j \in DOMAIN timers'[h] :
            \/ /\ j \in DOMAIN timers[h] /\ timers'[h][j] = timers[h][j]
               /\ h = con[c].thr => j # con[c].key
            \/ j[1] > now
    BY <1>2, <2>3, StartedTimers
  <2>7. \A h \in NetThreads : \A j \in DOMAIN timers'[h] :
            \/ /\ j \in DOMAIN timers[h] /\ timers'[h][j] = timers[h][j]
               /\ timers[h][j] # c
            \/ j[1] > now
    BY <1>5, <1>7, <2>6
  <2>8. Passes' /\ \A h \in NetThreads : pass'[h].late = pass[h].late
    BY <1>2, <1>3, <2>7, PassesHandled
  <2>9. Noted'
    <3>1. con[c].stage # "created" /\ c \notin Servers
      BY <1>2, <1>3, <2>1, ServerAssumption DEF Noted
    <3> QED
      BY <1>2, <1>3, <2>1, <2>2, <3>1, NotedOne
  <2>10. ~collided' => Timed'
    BY <1>2, <1>3, <1>7, <2>2, <2>3, <2>4, <2>5, <2>8, StartedTimed
  <2> QED
    BY <2>8, <2>9, <2>10 DEF Watched
<1> QED
  BY <1>4, <1>6, <1>7

LEMMA NextPassWatched ==
  ASSUME Tables, Watched, ~crashed, NEW t \in NetThreads, NextPass(t)
  PROVE  Watched'
<1>1. PICK q, p : q = pass[t] /\ p = [q EXCEPT !.done = {}, !.rest = 0]
  OBVIOUS
<1>2. PassOf(t) /\ DOMAIN q = {"done", "rest", "late"} /\ pass = [h \in NetThreads |-> pass[h]]
  BY <1>1 DEF Watched, Passes, PassOf
<1>3. /\ con' = con /\ timers' = timers /\ accepting' = accepting /\ now' = now
      /\ collided' = collided /\ crashed' = crashed
      /\ pass' = [h \in NetThreads |-> IF h = t THEN p ELSE pass[h]]
  BY <1>1, <1>2 DEF NextPass
<1>4. p.done = {} /\ p.rest = 0 /\ p.late = q.late /\ DOMAIN p = {"done", "rest", "late"}
  BY <1>1, <1>2
<1>5. IsFiniteSet({}) /\ Cardinality({}) = 0
  BY FS_EmptySet
<1>6. Crowded' = Crowded
  BY DEF Crowded
<1>7. ASSUME NEW h \in NetThreads PROVE PassOf(h)'
  <2>1. PassOf(h)
    BY DEF Watched, Passes
  <2>2. CASE h = t
    <3>1. pass'[h] = p
      BY <1>3, <2>2
    <3>2. q.late \in Nat /\ (~Crowded => q.late = 0)
      BY <1>1, <1>2 DEF PassOf
    <3>3. /\ p.done \in SUBSET Clients /\ IsFiniteSet(p.done) /\ Cardinality(p.done) <= TimerMax
          /\ \A d : d \notin p.done
      BY <1>4, <1>5, ServerAssumption
    <3>4. p.rest \in Nat /\ p.late \in Nat /\ (~Crowded => p.rest = 0 /\ p.late = 0)
      BY <1>4, <3>2
    <3> QED
      BY <1>4, <1>6, <3>1, <3>3, <3>4 DEF PassOf
  <2>3. CASE h # t
    <3>1. pass'[h] = pass[h]
      BY <1>3, <2>3
    <3> QED
      BY <1>3, <1>6, <2>1, <3>1 DEF PassOf
  <2> QED
    BY <2>2, <2>3
<1>8. Passes'
  BY <1>3, <1>7 DEF Passes
<1>9. Noted'
  BY <1>3 DEF Watched, Noted, Alive
<1>10. \A h \in NetThreads : pass'[h].late = pass[h].late
  BY <1>1, <1>3, <1>4
<1>11. ~collided' => Timed'
  <2> SUFFICES ASSUME ~collided, NEW c \in Clients, HasAdded(con[c])
               PROVE  HasTimer(c)' /\ DueIn(c)'
    BY <1>3 DEF Timed
  <2>1. HasTimer(c) /\ DueIn(c)
    BY DEF Watched, Timed
  <2>2. con[c].thr \in NetThreads
    BY DEF Conns, Tables, Typed, ConTyped, RecTyped
  <2>3. PICK h : h = con[c].thr
    OBVIOUS
  <2>4. pass'[h].late = pass[h].late
    BY <1>10, <2>2, <2>3
  <2> QED
    BY <1>3, <2>1, <2>3, <2>4 DEF HasTimer, DueIn
<1> QED
  BY <1>8, <1>9, <1>11 DEF Watched

\* An entry of a thread is that of a client.
LEMMA EntryOfClient ==
  ASSUME Tables, Noted, NEW t \in NetThreads, NEW k \in DOMAIN timers[t]
  PROVE  timers[t][k] \in Clients
<1>1. PICK d : d = timers[t][k]
  OBVIOUS
<1>2. d \in Conns /\ k \in Keys /\ Entered(con[d], t, k)
  BY <1>1 DEF Tables, Typed, TimersTyped, InTables
<1>3. RecTyped(con[d]) /\ k # <<>>
  BY <1>2, KeyIs DEF Tables, Typed, ConTyped
<1>4. con[d].at \notin {"no", "watched", "noted"}
  BY <1>2, <1>3 DEF Entered, RecTyped
<1>5. d \notin Servers
  BY <1>4 DEF Noted
<1> QED
  BY <1>1, <1>2, <1>5 DEF Conns

\* With no more clients than a pass handles, a thread whose pass is full has no
\* timer that is due.
LEMMA FullIsDone ==
  ASSUME Tables, Watched, ~crashed, ~Crowded, NEW t \in NetThreads, FullPass(t)
  PROVE  Due(t) = {}
<1> SUFFICES ASSUME NEW k \in DOMAIN timers[t], k[1] <= now
             PROVE  FALSE
  BY DEF Due
<1>1. PICK S, d : S = pass[t].done /\ d = timers[t][k]
  OBVIOUS
<1>2. /\ S \in SUBSET Clients /\ IsFiniteSet(S) /\ Cardinality(S) <= TimerMax
      /\ d \in S => k[1] > now
  BY <1>1 DEF Watched, Passes, PassOf
<1>3. d \in Clients
  BY <1>1, EntryOfClient DEF Watched
<1>4. k[1] \in Nat /\ now \in Nat
  <2>1. k \in Keys
    BY DEF Tables, Typed, TimersTyped
  <2> QED
    BY <2>1, KeyIs DEF Tables, Typed, RestTyped
<1>5. d \notin S
  BY <1>2, <1>4
<1>6. PICK a, b : a = Cardinality(S) /\ b = Cardinality(S \cup {d})
  OBVIOUS
<1>7. b = a + 1 /\ a \in Nat
  BY <1>2, <1>5, <1>6, FS_AddElement, FS_CardinalityType
<1>8. a = TimerMax
  BY <1>1, <1>2, <1>6, <1>7, ServerAssumption DEF FullPass
<1>9. S \cup {d} \in SUBSET Clients /\ Cardinality(S \cup {d}) = TimerMax + 1
  BY <1>2, <1>3, <1>6, <1>7, <1>8
<1> QED
  BY <1>9 DEF Crowded

LEMMA TickWatched ==
  ASSUME Tables, Watched, ~crashed, Tick
  PROVE  Watched'
<1>1. /\ con' = con /\ timers' = timers /\ accepting = NoCon /\ accepting' = NoCon
      /\ collided' = collided /\ crashed' = crashed /\ now' = now + 1 /\ now \in Nat
      /\ \A t \in NetThreads : Due(t) = {} \/ FullPass(t)
      /\ \A t \in NetThreads : pass'[t] = (IF Due(t) = {} THEN NewPass
                                     ELSE [pass[t] EXCEPT !.rest = @ + 1, !.late = @ + 1])
      /\ pass' = [t \in NetThreads |-> pass'[t]]
  BY DEF Tick, Resting, Tables, Typed, RestTyped
<1>2. Crowded' = Crowded
  BY DEF Crowded
<1>3. ASSUME NEW t \in NetThreads PROVE PassOf(t)'
  <2>1. CASE Due(t) = {}
    <3>1. /\ pass'[t].done = {} /\ pass'[t].rest = 0 /\ pass'[t].late = 0
          /\ DOMAIN pass'[t] = {"done", "rest", "late"}
      <4>1. pass'[t] = NewPass
        BY <1>1, <2>1
      <4> QED
        BY <4>1 DEF NewPass
    <3>2. IsFiniteSet({}) /\ Cardinality({}) = 0
      BY FS_EmptySet
    <3> QED
      BY <3>1, <3>2, ServerAssumption DEF PassOf
  <2>2. CASE Due(t) # {}
    <3>1. Crowded
      BY <1>1, <2>2, FullIsDone
    <3>2. PassOf(t)
      BY DEF Watched, Passes
    <3>3. PICK q : q = pass[t]
      OBVIOUS
    <3>4. DOMAIN q = {"done", "rest", "late"} /\ pass'[t] = [q EXCEPT !.rest = @ + 1, !.late = @ + 1]
      BY <1>1, <2>2, <3>2, <3>3 DEF PassOf
    <3>5. /\ pass'[t].done = q.done /\ pass'[t].rest = q.rest + 1 /\ pass'[t].late = q.late + 1
          /\ DOMAIN pass'[t] = {"done", "rest", "late"}
      BY <3>4
    <3> QED
      BY <1>2, <3>1, <3>2, <3>3, <3>5 DEF PassOf
  <2> QED
    BY <2>1, <2>2
<1>4. Passes'
  BY <1>1, <1>3 DEF Passes
<1>5. Noted'
  <2>1. now' > Period /\ \A c \in Conns : con[c].last \in Nat /\ con[c].last <= now'
                                         /\ con[c].made \in Nat
    <3>1. now > Period /\ \A c \in Conns : con[c].last \in Nat /\ con[c].last <= now
                                          /\ con[c].made \in Nat
      BY DEF Watched, Noted
    <3>2. now' = now + 1 /\ now \in Nat /\ Period \in Nat
      BY <1>1, ServerAssumption
    <3>3. ASSUME NEW c \in Conns PROVE con[c].last <= now'
      <4>1. PICK l : l = con[c].last
        OBVIOUS
      <4>2. l \in Nat /\ l <= now
        BY <3>1, <4>1
      <4>3. l <= now'
        BY <3>2, <4>2
      <4> QED
        BY <4>1, <4>3
    <3>4. now' > Period
      BY <3>1, <3>2
    <3> QED
      BY <3>1, <3>3, <3>4
  <2> QED
    BY <1>1, <2>1 DEF Watched, Noted, Alive
<1>6. ~collided' => Timed'
  <2> SUFFICES ASSUME ~collided, NEW c \in Clients, HasAdded(con[c])
               PROVE  HasTimer(c)' /\ DueIn(c)'
    BY <1>1 DEF Timed
  <2>1. HasTimer(c) /\ DueIn(c)
    BY DEF Watched, Timed
  <2>2. PICK t, k : t = con[c].thr /\ k = con[c].timer
    OBVIOUS
  <2>3. t \in NetThreads /\ k \in DOMAIN timers[t] /\ k \in Keys
    BY <2>1, <2>2 DEF HasTimer, Conns, Tables, Typed, ConTyped, RecTyped, TimersTyped
  <2>4. k[1] \in Nat /\ pass[t].late \in Nat
    BY <2>3, KeyIs DEF Watched, Passes, PassOf
  <2>5. PICK n, K : n = pass'[t].late /\ K = k[1]
    OBVIOUS
  <2>n. now \in Nat /\ K \in Nat /\ Period \in Nat
    BY <1>1, <2>4, <2>5, ServerAssumption
  <2>6. now + 1 <= K + n
    <3>1. CASE Due(t) = {}
      <4>1. pass'[t] = NewPass
        BY <1>1, <2>3, <3>1
      <4>2. n = 0
        BY <2>5, <4>1 DEF NewPass
      <4>3. ~(K <= now)
        BY <2>3, <2>5, <3>1 DEF Due
      <4> QED
        BY <2>n, <4>2, <4>3
    <3>2. CASE Due(t) # {}
      <4>1. PICK q : q = pass[t]
        OBVIOUS
      <4>2. DOMAIN q = {"done", "rest", "late"}
        BY <2>3, <4>1 DEF Watched, Passes, PassOf
      <4>3. pass'[t] = [q EXCEPT !.rest = @ + 1, !.late = @ + 1]
        BY <1>1, <2>3, <3>2, <4>1
      <4>4. n = q.late + 1
        BY <2>5, <4>2, <4>3
      <4>5. PICK l : l = q.late
        OBVIOUS
      <4>6. now <= K + l /\ l \in Nat /\ n = l + 1
        BY <2>1, <2>2, <2>4, <2>5, <4>1, <4>4, <4>5 DEF DueIn
      <4> QED
        BY <2>n, <4>6
    <3> QED
      BY <3>1, <3>2
  <2>7. K <= now + Period
    BY <2>1, <2>2, <2>5 DEF DueIn
  <2>8. K <= now + 1 + Period
    BY <2>n, <2>7
  <2>9. HasTimer(c)' /\ con' = con /\ now' = now + 1
    BY <1>1, <2>1 DEF HasTimer
  <2> QED
    BY <2>1, <2>2, <2>5, <2>6, <2>8, <2>9 DEF DueIn
<1> QED
  BY <1>4, <1>5, <1>6 DEF Watched

IInv == Tables /\ Streams /\ Watched

\* A crash stays: no step follows it.
LEMMA StutterWatched == ASSUME Watched, UNCHANGED vars PROVE Watched'
<1>1. /\ con' = con /\ timers' = timers /\ accepting' = accepting /\ now' = now
      /\ collided' = collided /\ pass' = pass /\ crashed' = crashed
  BY DEF vars
<1>2. Noted'
  BY <1>1 DEF Watched, Noted, Alive
<1>3. Passes'
  BY <1>1 DEF Watched, Passes, PassOf, Crowded
<1>4. ~collided' => Timed'
  BY <1>1 DEF Watched, Timed, HasTimer, DueIn
<1> QED
  BY <1>2, <1>3, <1>4 DEF Watched

LEMMA StepKeeps == ASSUME IInv, Next PROVE IInv'
<1> Tables /\ Streams /\ Watched /\ Noted /\ ~crashed
  BY DEF IInv, Watched, Next
<1>1. ASSUME NEW c \in Conns, Accept(c) PROVE IInv'
  BY <1>1, AcceptTables, AcceptStreams, AcceptWatched DEF IInv
<1>2. ASSUME NEW c \in Conns, PeerCloses(c) PROVE IInv'
  <2>1. PICK r : Becomes(c, r) /\ r.stage = "notified" /\ SameEntry(r, con[c]) /\ r.last = con[c].last
               /\ r.made = con[c].made
    BY <1>2, PeerClosesTables
  <2>2. /\ con[c].stage = "notified" /\ timers' = timers /\ now' = now /\ accepting' = accepting
        /\ collided' = collided /\ pass' = pass
    BY <1>2 DEF PeerCloses
  <2>3. Watched'
    BY <2>1, <2>2, QuietWatched
  <2> QED
    BY <1>2, <2>3, PeerClosesTables, PeerClosesStreams DEF IInv
<1>3. ASSUME NEW c \in Conns, ReceiveEnd(c) PROVE IInv'
  <2>1. Alive(c) /\ Recycle(c) /\ Becomes(c, Gone(con[c].at)) /\ Tables'
    BY <1>3, ReceiveEndTables DEF ReceiveEnd, Alive
  <2>2. busy' = busy /\ now' = now /\ accepting' = accepting /\ collided' = collided /\ pass' = pass
    BY <1>3 DEF ReceiveEnd
  <2> QED
    BY <2>1, <2>2, RecycleStreams, RecycleWatched DEF IInv
<1>4. ASSUME NEW c \in Conns, ReadDone(c) PROVE IInv'
  <2>1. Watched'
    BY <1>4, SameWatched DEF ReadDone
  <2> QED
    BY <1>4, <2>1, ReadDoneTables, ReadDoneStreams DEF IInv
<1>5. ASSUME NEW c \in Conns, HandlePack(c) PROVE IInv'
  <2>1. ~con[c].lost => Stream(con[c])
    BY DEF Streams, Kept
  <2> QED
    BY <1>5, <2>1, HandlePackTables, HandlePackStreams, HandlePackWatched DEF IInv
<1>5b. ASSUME NotiWritten PROVE IInv'
  BY <1>5b, NotiWrittenTables, NotiWrittenStreams, NotiWrittenWatched DEF IInv
<1>5c. ASSUME OnCreateEnds PROVE IInv'
  BY <1>5c, OnCreateEndsTables, OnCreateEndsStreams, OnCreateEndsWatched DEF IInv
<1>5d. ASSUME NEW t \in NetThreads, NextPass(t) PROVE IInv'
  <2>1. Streams'
    BY <1>5d, SameStreams DEF NextPass
  <2> QED
    BY <1>5d, <2>1, NextPassTables, NextPassWatched DEF IInv
<1>6. ASSUME SetNotify PROVE IInv'
  BY <1>6, SetNotifyTables, SetNotifyStreams, SetNotifyWatched DEF IInv
<1>7. ASSUME NEW us \in Micros, OnCreateTimer(us) PROVE IInv'
  BY <1>7, OnCreateTimerTables, OnCreateTimerStreams, OnCreateTimerWatched DEF IInv
<1>8. ASSUME NEW c \in Conns, NEW m \in Msg, PeerSends(c, m) PROVE IInv'
  <2>1. PICK r : Becomes(c, r) /\ SentTo(con[c], m, r)
    BY <1>8, PeerSendsTables
  <2>2. /\ con[c].stage = "notified" /\ timers' = timers /\ now' = now /\ accepting' = accepting
        /\ collided' = collided /\ pass' = pass
    BY <1>8 DEF PeerSends
  <2>3. Watched'
    BY <2>1, <2>2, QuietWatched DEF SentTo
  <2> QED
    BY <1>8, <2>3, PeerSendsTables, PeerSendsStreams DEF IInv
<1>9. ASSUME NEW c \in Conns, NEW n \in Nat, Receive(c, n) PROVE IInv'
  <2>1. PICK r : Becomes(c, r) /\ ArrivedAt(c, con[c], n, r)
    BY <1>9, ReceiveTables
  <2>2. /\ con[c].stage = "notified" /\ timers' = timers /\ now' = now /\ accepting' = accepting
        /\ collided' = collided /\ pass' = pass
    BY <1>9 DEF Receive
  <2>3. Watched'
    BY <2>1, <2>2, QuietWatched DEF ArrivedAt
  <2> QED
    BY <1>9, <2>3, ReceiveTables, ReceiveStreams DEF IInv
<1>10. ASSUME NEW t \in NetThreads, ProcessOp(t) PROVE IInv'
  <2>1. Watched' /\ Streams'
    BY <1>10, SameWatched, SameStreams DEF ProcessOp
  <2> QED
    BY <1>10, <2>1, ProcessOpTables DEF IInv
<1>11. ASSUME NEW t \in NetThreads, NEW us \in Micros, HandleTimer(t, us) PROVE IInv'
  BY <1>11, HandleTimerTables, HandleTimerStreams, HandleTimerWatched DEF IInv
<1>12. ASSUME Tick PROVE IInv'
  <2>1. Streams'
    BY <1>12, SameStreams DEF Tick
  <2> QED
    BY <1>12, <2>1, TickTables, TickWatched DEF IInv
<1>13. /\ \A c \in Conns : 1..Len(con[c].cells) \subseteq Nat
       /\ ClientCmds \subseteq Msg /\ ServerCmds \subseteq Msg
       /\ Clients \subseteq Conns /\ Servers \subseteq Conns
  BY DEF Msg, Conns
<1> QED
  BY <1>1, <1>2, <1>3, <1>4, <1>5, <1>5b, <1>5c, <1>5d, <1>6, <1>7, <1>8, <1>9, <1>10, <1>11,
     <1>12, <1>13
  DEF Next

LEMMA NextKeeps == ASSUME IInv, [Next]_vars PROVE IInv'
<1>1. ASSUME UNCHANGED vars PROVE IInv'
  <2>1. /\ con' = con /\ group' = group /\ timers' = timers /\ nextId' = nextId /\ busy' = busy
        /\ accepting' = accepting /\ now' = now /\ now \in Nat
    BY <1>1 DEF vars, IInv, Tables, Typed, RestTyped
  <2> QED
    BY <1>1, <2>1, SameTables, SameStreams, StutterWatched DEF IInv
<1> QED
  BY <1>1, StepKeeps

\* The tables, the streams and the timers are as they should be in every state.
THEOREM Invariance == Spec => []IInv
<1>1. Init => IInv
  BY InitTables, InitStreams, InitWatched DEF IInv
<1>2. IInv /\ [Next]_vars => IInv'
  BY NextKeeps
<1> QED
  BY <1>1, <1>2, PTL DEF Spec

\* No table of connection_server holds a deleted connection: send_to and
\* process_timer use only what exists, and on the thread it belongs to.  But for
\* the timer of a client deleted between add_timer and push_back of start_timer.
THEOREM TablesHoldTheLiving == Spec => []SessionsAlive
<1>1. IInv => SessionsAlive
  <2> SUFFICES ASSUME IInv PROVE SessionsAlive
    OBVIOUS
  <2>1. \A s \in DOMAIN group : Alive(group[s]) /\ con[group[s]].sess = s
    BY DEF IInv, Tables, InTables
  <2>2. ASSUME NEW t \in NetThreads, NEW k \in DOMAIN timers[t]
        PROVE  \/ Alive(timers[t][k]) /\ con[timers[t][k]].thr = t
               \/ Orphan(timers[t][k])
    <3>1. Entered(con[timers[t][k]], t, k)
      BY DEF IInv, Tables, InTables
    <3> QED
      BY <3>1 DEF Entered, Alive, Orphan
  <2> QED
    BY <2>1, <2>2 DEF SessionsAlive
<1> QED
  BY <1>1, Invariance, PTL

\* What handle_read gives to handle_command is what the peer sent, and once an
\* event is over nothing complete is left in the buffer.  Until bytes find no room
\* in the ring, which a peer that sends no more than it holds never sees.
THEOREM NothingLeftBehind == Spec => []CommandsHandled
<1>1. IInv => CommandsHandled
  <2> SUFFICES ASSUME IInv, NEW c \in Conns
               PROVE  /\ ~con[c].lost => IsPrefix(con[c].handled, con[c].sent)
                      /\ Alive(c) /\ busy[con[c].thr] # c /\ ~con[c].split /\ ~con[c].lost =>
                           \A k \in DOMAIN con[c].sent :
                             (\E i \in 1..con[c].rcvd :
                                con[c].cells[i] = <<k, con[c].sent[k].len>>)
                               => k <= Len(con[c].handled)
                      /\ con[c].lost => RingCap < con[c].count
    BY DEF CommandsHandled
  <2>1. /\ Kept(con[c])
        /\ Alive(c) /\ busy[con[c].thr] # c /\ ~con[c].split /\ ~con[c].lost => Drained(con[c])
    BY DEF IInv, Streams
  <2>2. ~con[c].lost => Stream(con[c])
    BY <2>1 DEF Kept
  <2>3. ~con[c].lost => IsPrefix(con[c].handled, con[c].sent)
    BY <2>2, HandledIsSent
  <2>4. ASSUME Alive(c), busy[con[c].thr] # c, ~con[c].split, ~con[c].lost,
               NEW k \in DOMAIN con[c].sent, NEW i \in 1..con[c].rcvd,
               con[c].cells[i] = <<k, con[c].sent[k].len>>
        PROVE  k <= Len(con[c].handled)
    BY <2>1, <2>2, <2>4, ArrivedIsHandled
  <2>5. con[c].lost => RingCap < con[c].count
    BY <2>1 DEF Kept
  <2> QED
    BY <2>3, <2>4, <2>5
<1> QED
  BY <1>1, Invariance, PTL

\* CHECK_TIMER closes a client two periods after its last message at the latest,
\* and one that never sent a period after it was made, unless two timers of a
\* thread got the same key; later only by what its thread waits behind full passes
\* of process_timer, which it does only with more clients than a pass holds.
THEOREM SilenceEnds == Spec => []SilentClosed
<1>1. IInv => SilentClosed
  <2> SUFFICES ASSUME IInv PROVE SilentClosed
    OBVIOUS
  <2>1. ASSUME ~collided, NEW c \in Clients \ {accepting}, Alive(c)
        PROVE  /\ con[c].key # <<>>
               /\ now <= pass[con[c].thr].late
                         + (IF con[c].last = 0 THEN con[c].made + Period
                                               ELSE con[c].last + 2 * Period)
    <3>1. c \in Conns /\ con[c].at = "done"
      BY <2>1 DEF IInv, Watched, Noted, Conns
    <3>2. HasTimer(c) /\ DueIn(c)
      BY <2>1, <3>1 DEF IInv, Watched, Timed, HasAdded, Alive
    <3>3. PICK t, k, n : t = con[c].thr /\ k = con[c].timer /\ n = pass[t].late
      OBVIOUS
    <3>4. t \in NetThreads /\ k \in Keys /\ con[c].key = k /\ n \in Nat /\ now \in Nat
      <4>1. t \in NetThreads /\ con[c].key = k /\ now \in Nat
        BY <3>1, <3>3 DEF IInv, Tables, Typed, ConTyped, RecTyped, RestTyped
      <4>2. k \in Keys /\ n \in Nat
        BY <3>2, <3>3, <4>1 DEF HasTimer, IInv, Tables, Typed, TimersTyped, Watched, Passes, PassOf
      <4> QED
        BY <4>1, <4>2
    <3>5. k # <<>> /\ k[1] \in Nat
      BY <3>4, KeyIs
    <3>6. PICK K, l, m : K = k[1] /\ l = con[c].last /\ m = con[c].made
      OBVIOUS
    <3>7. l \in Nat /\ m \in Nat /\ K \in Nat /\ Period \in Nat
      BY <3>1, <3>5, <3>6, ServerAssumption DEF IInv, Watched, Noted
    <3>8. now <= K + n /\ K <= IF l = 0 THEN m + Period ELSE l + 2 * Period
      BY <3>2, <3>3, <3>6 DEF DueIn
    <3>9. now <= n + (IF l = 0 THEN m + Period ELSE l + 2 * Period)
      BY <3>4, <3>7, <3>8
    <3> QED
      BY <3>3, <3>4, <3>5, <3>6, <3>9
  <2>2. \A t \in NetThreads : pass[t].late > 0 => Crowded
    BY DEF IInv, Watched, Passes, PassOf
  <2> QED
    BY <2>1, <2>2 DEF SilentClosed
<1> QED
  BY <1>1, Invariance, PTL

-----------------------------------------------------------------------------
(* The worker of xylx: what it knows of the table T, in the record k of    *)
(* its request, stays true however the table grows.                        *)

\* rest is what is left to free.
Owned(k) == k.results = {k.rest} \ {NoResult}

\* The persons found are admirers of the one who asks, all that were known among them.
Found(k, T) ==
    /\ IsFiniteSet(DOMAIN k.persons) /\ k.rsp.mark = Cardinality(DOMAIN k.persons)
    /\ \A f \in DOMAIN k.persons :
         \E r \in T : r.from = f /\ r.to = k.req.phone /\ r.message = k.persons[f]
    /\ ~k.unstored => \A r \in k.known : r.to = k.req.phone => r.from \in DOMAIN k.persons

Mutual(k, T) == \A p \in k.rsp.list :
    /\ \E r \in Rows(p.phone, k.req.phone, T) : r.message = p.message
    /\ \E r \in Rows(k.req.phone, p.phone, T) : r.message = p.sendmsg
    /\ k.rsp.mark >= Cardinality({q.phone : q \in k.rsp.list})

AllKnown(k) ==
    LET fans == {r.from : r \in {x \in k.known : x.to = k.req.phone}}
    IN  /\ Cardinality(fans) <= k.rsp.mark
        /\ \A f \in fans : Rows(k.req.phone, f, k.known) # {} => \E p \in k.rsp.list : p.phone = f

AnswerTrue(k, T) ==
    /\ k.req.cmd = "charm" => /\ Mutual(k, T)
                              /\ k.rsp.status = "SUCCESS" /\ ~k.unstored => AllKnown(k)
                              /\ k.rsp.status = "DB_FAIL" => k.rsp.list = {}
    /\ k.req.cmd = "interest" /\ k.rsp.status = "SUCCESS" => k.added # {}

Works(k, T) ==
    /\ DOMAIN k = DOMAIN Idling /\ DOMAIN k.rsp = DOMAIN NoAnswer
    /\ k.at \in {"get", "first", "second", "insert", "respone"}
    /\ Owned(k) /\ k.added \subseteq T /\ k.known \subseteq T
    /\ k.at = "first" => /\ k.req.cmd = "charm" /\ k.rsp.list = {} /\ k.rsp.status = "SUCCESS"
                         /\ ~k.unstored
    /\ k.at = "second" => /\ k.req.cmd = "charm" /\ k.rsp.list = {} /\ k.rsp.status = "SUCCESS"
                          /\ Found(k, T)
    /\ k.at = "insert" => k.req.cmd = "interest" /\ k.rsp.status = "SUCCESS"
    /\ k.at = "respone" => AnswerTrue(k, T)

ProcInv ==
    /\ IsFiniteSet(interest_t) /\ acked \subseteq interest_t /\ wrongFree = FALSE
    /\ work = [w \in DBWorkers |-> work[w]]
    /\ \A w \in DBWorkers : Works(work[w], interest_t)

\* The fields of a request that is worked on.
LEMMA WorkFields ==
  /\ DOMAIN Idling = {"at", "req", "persons", "rsp", "rest", "results", "known", "unstored", "added"}
  /\ DOMAIN NoAnswer = {"cmd", "status", "mark", "list"}
  BY DEF Idling, NoAnswer

LEMMA TableGrows ==
  ASSUME NEW k, NEW T, NEW U, T \subseteq U, Works(k, T)
  PROVE  Works(k, U)
<1>1. Found(k, T) => Found(k, U)
  BY DEF Found
<1>2. Mutual(k, T) => Mutual(k, U)
  BY DEF Mutual, Rows
<1>3. AnswerTrue(k, T) => AnswerTrue(k, U)
  BY <1>2 DEF AnswerTrue
<1> QED
  BY <1>1, <1>3 DEF Works

\* One worker makes a step, the table may grow.
LEMMA OneWorks ==
  ASSUME ProcInv, NEW w \in DBWorkers, NEW k, work' = [work EXCEPT ![w] = k],
         interest_t \subseteq interest_t', IsFiniteSet(interest_t'), acked' \subseteq interest_t',
         wrongFree' = FALSE, Works(k, interest_t')
  PROVE  ProcInv'
<1>1. work' = [v \in DBWorkers |-> IF v = w THEN k ELSE work[v]]
  BY DEF ProcInv
<1>2. \A v \in DBWorkers : Works(work'[v], interest_t')
  <2>1. ASSUME NEW v \in DBWorkers PROVE Works(work'[v], interest_t')
    <3>1. PICK T, U, q : T = interest_t /\ U = interest_t' /\ q = work[v]
      OBVIOUS
    <3>2. Works(q, T) /\ T \subseteq U
      BY <3>1 DEF ProcInv
    <3>3. Works(q, U)
      BY <3>2, TableGrows
    <3> QED
      BY <1>1, <3>1, <3>3
  <2> QED
    BY <2>1
<1> QED
  BY <1>1, <1>2 DEF ProcInv

LEMMA ProcessKeeps == ASSUME ProcInv, NEW w \in DBWorkers, Process(w) PROVE ProcInv'
<1>1. PICK q \in Requests :
        work' = [work EXCEPT ![w] = [Idling EXCEPT !.at = Dispatch(q).at, !.rsp = Dispatch(q).rsp,
                                                   !.req = q, !.known = KnownTo(q)]]
  BY DEF Process
<1>2. PICK d, K, k : /\ d = Dispatch(q) /\ K = KnownTo(q)
                     /\ k = [Idling EXCEPT !.at = d.at, !.rsp = d.rsp, !.req = q, !.known = K]
  OBVIOUS
<1>3. /\ DOMAIN k = DOMAIN Idling /\ k.at = d.at /\ k.rsp = d.rsp /\ k.req = q /\ k.known = K
      /\ k.rest = NoResult /\ k.results = {} /\ ~k.unstored /\ k.added = {}
  BY <1>2, WorkFields DEF Idling
<1>4. \/ q.cmd = "charm" /\ d = [at |-> "first", rsp |-> Success("charm")]
      \/ q.cmd = "interest" /\ d = [at |-> "insert", rsp |-> Success("interest")]
      \/ q.cmd \notin {"charm", "interest"} /\ d.at = "respone"
         /\ d.rsp \in {Success("recommend"), Success("unset"), NoAnswer}
  BY <1>2 DEF Dispatch
<1>5. K \subseteq interest_t
  BY <1>2 DEF KnownTo, ProcInv
<1>6. \A c : /\ DOMAIN Success(c) = DOMAIN NoAnswer /\ Success(c).list = {}
             /\ Success(c).status = "SUCCESS"
  BY WorkFields DEF Success, NoAnswer
<1>7. DOMAIN k.rsp = DOMAIN NoAnswer /\ k.at \in {"first", "insert", "respone"}
  BY <1>3, <1>4, <1>6
<1>8. Works(k, interest_t)
  BY <1>3, <1>4, <1>5, <1>6, <1>7 DEF Works, Owned, AnswerTrue, NoResult
<1>9. interest_t' = interest_t /\ acked' = acked /\ wrongFree' = wrongFree
      /\ work' = [work EXCEPT ![w] = k]
  BY <1>1, <1>2 DEF Process
<1> QED
  BY <1>8, <1>9, OneWorks DEF ProcInv

LEMMA ResponeKeeps == ASSUME ProcInv, NEW w \in DBWorkers, Respone(w) PROVE ProcInv'
<1>1. Works(Idling, interest_t)
  BY DEF Works, Owned, Idling, NoAnswer, NoResult
<1>2. Works(work[w], interest_t)
  BY DEF ProcInv
<1>3. ~FreesGone(work[w])
  BY <1>2 DEF FreesGone, Works, Owned
<1>4. /\ interest_t' = interest_t /\ acked' \subseteq interest_t /\ wrongFree' = FALSE
      /\ work' = [work EXCEPT ![w] = Idling]
  BY <1>2, <1>3 DEF Respone, ProcInv, Works
<1> QED
  BY <1>1, <1>4, OneWorks DEF ProcInv

\* A statement that fails lists nobody and claims nothing.
LEMMA FailsKeeps ==
  ASSUME ProcInv, NEW w \in DBWorkers, work[w].at \in {"first", "second", "insert"},
         QueryFails(w, Fails(work[w].rsp))
  PROVE  ProcInv'
<1>1. PICK q, r, k : /\ q = work[w] /\ r = Fails(work[w].rsp)
                     /\ k = [work[w] EXCEPT !.at = "respone", !.rsp = r]
  OBVIOUS
<1>2. Works(q, interest_t) /\ (q.rsp.list = {} \/ q.req.cmd = "interest")
  <2>1. Works(q, interest_t) /\ q.at \in {"first", "second", "insert"}
    BY <1>1 DEF ProcInv
  <2> QED
    BY <2>1 DEF Works
<1>3. /\ DOMAIN r = DOMAIN NoAnswer /\ r.status = "DB_FAIL" /\ r.list = q.rsp.list
  BY <1>1, <1>2, WorkFields DEF Fails, Works
<1>4. /\ DOMAIN k = DOMAIN Idling /\ k.at = "respone" /\ k.rsp = r /\ k.req = q.req
      /\ k.rest = q.rest /\ k.results = q.results /\ k.known = q.known /\ k.added = q.added
  BY <1>1, <1>2, WorkFields DEF Works
<1>5. AnswerTrue(k, interest_t)
  BY <1>2, <1>3, <1>4 DEF AnswerTrue, Mutual
<1>6. Works(k, interest_t)
  BY <1>2, <1>3, <1>4, <1>5 DEF Works, Owned
<1>7. /\ interest_t' = interest_t /\ acked' = acked /\ wrongFree' = wrongFree
      /\ work' = [work EXCEPT ![w] = k]
  BY <1>1 DEF QueryFails, Responds
<1> QED
  BY <1>6, <1>7, OneWorks DEF ProcInv

LEMMA InsertKeeps == ASSUME ProcInv, NEW w \in DBWorkers, Insert_t(w) PROVE ProcInv'
<1>1. PICK q, row : q = work[w] /\ row = RowOf(work[w].req)
  OBVIOUS
<1>2. PICK r \in {q.rsp, Fails(q.rsp)} :
        work' = [work EXCEPT ![w] = [Responds(w, r) EXCEPT !.added = {row}]]
  BY <1>1 DEF Insert_t
<1>3. PICK k : k = [q EXCEPT !.at = "respone", !.rsp = r, !.added = {row}]
  OBVIOUS
<1>4. q.at = "insert" /\ Works(q, interest_t) /\ q.req.cmd = "interest"
  BY <1>1 DEF Insert_t, At, ProcInv, Works
<1>5. DOMAIN r = DOMAIN NoAnswer
  BY <1>4 DEF Works, Fails
<1>6. /\ DOMAIN k = DOMAIN Idling /\ k.at = "respone" /\ k.rsp = r /\ k.req = q.req
      /\ k.rest = q.rest /\ k.results = q.results /\ k.known = q.known /\ k.added = {row}
  BY <1>3, <1>4, WorkFields DEF Works
<1>7. /\ interest_t' = interest_t \cup {row} /\ acked' = acked /\ wrongFree' = wrongFree
      /\ work' = [work EXCEPT ![w] = k]
  <2>1. [Responds(w, r) EXCEPT !.added = {row}] = k
    BY <1>1, <1>3, <1>4, WorkFields DEF Responds, Works
  <2> QED
    BY <1>1, <1>2, <2>1 DEF Insert_t
<1>8. Works(k, interest_t \cup {row})
  BY <1>4, <1>5, <1>6 DEF Works, Owned, AnswerTrue
<1>9. IsFiniteSet(interest_t \cup {row})
  BY FS_AddElement DEF ProcInv
<1>10. acked \subseteq interest_t \cup {row} /\ wrongFree = FALSE
  BY DEF ProcInv
<1> QED
  BY <1>7, <1>8, <1>9, <1>10, OneWorks

\* The senders of the rows are finitely many, and no sender is none.
LEMMA Senders ==
  ASSUME NEW R, IsFiniteSet(R)
  PROVE  IsFiniteSet({r.from : r \in R})
<1>1. PICK f : f = [r \in R |-> r.from]
  OBVIOUS
<1>2. f \in Surjection(R, {r.from : r \in R})
  BY <1>1 DEF Surjection
<1> QED
  BY <1>2, FS_Surjection

\* What the library gives for a query, and the record after it.
LEMMA StoredIs ==
  ASSUME NEW q, NEW k, NEW n \in {1, 2}, k \in Stored(q, n), Owned(q),
         DOMAIN q = DOMAIN Idling
  PROVE  /\ Owned(k) /\ DOMAIN k = DOMAIN Idling /\ k.rsp = q.rsp /\ k.req = q.req
         /\ k.persons = q.persons /\ k.known = q.known /\ k.added = q.added
         /\ ~k.unstored => ~q.unstored /\ k.rest # NoResult
         /\ k.unstored => q.unstored \/ k.rest = NoResult
<1>1. PICK n0 \in {0, 1, 2} :
        /\ k.rest = n0 /\ k.results = (q.results \ {q.rest}) \cup ({n0} \ {0})
        /\ DOMAIN k = DOMAIN Idling /\ k.rsp = q.rsp /\ k.req = q.req
        /\ k.persons = q.persons /\ k.known = q.known /\ k.added = q.added
        /\ \/ (k.unstored <=> q.unstored) /\ n0 = n
           \/ k.unstored /\ n0 = 0
  <2>1. CASE k = Assign(q, n)
    BY <2>1, WorkFields DEF Assign, NoResult
  <2>2. CASE k = [Assign(q, NoResult) EXCEPT !.unstored = TRUE]
    <3>1. PICK a : a = Assign(q, NoResult)
      OBVIOUS
    <3>2. DOMAIN a = DOMAIN Idling /\ a.rest = 0 /\ a.results = (q.results \ {q.rest}) \cup ({0} \ {0})
          /\ a.rsp = q.rsp /\ a.req = q.req /\ a.persons = q.persons /\ a.known = q.known
          /\ a.added = q.added
      BY <3>1, WorkFields DEF Assign, NoResult
    <3>3. k = [a EXCEPT !.unstored = TRUE]
      BY <2>2, <3>1
    <3>4. DOMAIN k = DOMAIN Idling /\ k.rest = 0 /\ k.results = (q.results \ {q.rest}) \cup ({0} \ {0})
          /\ k.rsp = q.rsp /\ k.req = q.req /\ k.persons = q.persons /\ k.known = q.known
          /\ k.added = q.added /\ k.unstored
      BY <3>2, <3>3, WorkFields
    <3> QED
      BY <3>4
  <2> QED
    BY <2>1, <2>2 DEF Stored
<1>2. Owned(k)
  <2>1. k.results = {n0} \ {0}
    BY <1>1 DEF Owned, NoResult
  <2> QED
    BY <1>1, <2>1 DEF Owned, NoResult
<1>3. ~k.unstored => ~q.unstored /\ k.rest # NoResult
  BY <1>1 DEF NoResult
<1>4. k.unstored => q.unstored \/ k.rest = NoResult
  BY <1>1 DEF NoResult
<1> QED
  BY <1>1, <1>2, <1>3, <1>4

LEMMA FirstQueryKeeps == ASSUME ProcInv, NEW w \in DBWorkers, FirstQuery(w) PROVE ProcInv'
<1>1. PICK q, T : q = work[w] /\ T = interest_t
  OBVIOUS
<1>2. /\ Works(q, T) /\ q.at = "first" /\ q.req.cmd = "charm" /\ q.rsp.list = {}
      /\ q.rsp.status = "SUCCESS" /\ ~q.unstored /\ IsFiniteSet(T)
  BY <1>1 DEF FirstQuery, At, ProcInv, Works
<1>3. PICK k \in Stored(q, 1) :
        \E p \in PersonsOf(IF k.rest = NoResult THEN {} ELSE Admirers(w)) :
          work' = [work EXCEPT ![w] = [k EXCEPT !.at = IF p = <<>> THEN "respone" ELSE "second",
                                                !.persons = p,
                                                !.rsp.mark = Cardinality(DOMAIN p)]]
  BY <1>1 DEF FirstQuery
<1>0. PICK p \in PersonsOf(IF k.rest = NoResult THEN {} ELSE Admirers(w)) :
        work' = [work EXCEPT ![w] = [k EXCEPT !.at = IF p = <<>> THEN "respone" ELSE "second",
                                              !.persons = p,
                                              !.rsp.mark = Cardinality(DOMAIN p)]]
  BY <1>3
<1>4. PICK at, j : /\ at = IF p = <<>> THEN "respone" ELSE "second"
                   /\ j = [k EXCEPT !.at = at, !.persons = p, !.rsp.mark = Cardinality(DOMAIN p)]
  OBVIOUS
<1>5. /\ Owned(k) /\ DOMAIN k = DOMAIN Idling /\ k.rsp = q.rsp /\ k.req = q.req
      /\ k.known = q.known /\ k.added = q.added
      /\ ~k.unstored => k.rest # NoResult
  BY <1>2, StoredIs DEF Works
<1>6. /\ DOMAIN j = DOMAIN Idling /\ DOMAIN j.rsp = DOMAIN NoAnswer /\ j.at = at /\ j.persons = p
      /\ j.rsp.mark = Cardinality(DOMAIN p) /\ j.rsp.list = {} /\ j.rsp.status = "SUCCESS"
      /\ j.req = q.req /\ j.known = q.known /\ j.added = q.added /\ j.unstored = k.unstored
      /\ j.rest = k.rest /\ j.results = k.results
  BY <1>2, <1>4, <1>5, WorkFields DEF Works
<1>7. PICK R : R = IF k.rest = NoResult THEN {} ELSE Admirers(w)
  OBVIOUS
<1>8. /\ R \subseteq T /\ \A r \in R : r.to = q.req.phone
      /\ k.rest # NoResult => \A r \in T : r.to = q.req.phone => r \in R
  BY <1>1, <1>7 DEF Admirers, Asker
<1>9. /\ DOMAIN p = {r.from : r \in R}
      /\ \A f \in DOMAIN p : \E r \in R : r.from = f /\ r.message = p[f]
  BY <1>7 DEF PersonsOf
<1>10. IsFiniteSet(DOMAIN p)
  <2>1. IsFiniteSet(R)
    BY <1>2, <1>8, FS_Subset
  <2> QED
    BY <1>9, <2>1, Senders
<1>11. \A r \in q.known : r.to = q.req.phone /\ ~k.unstored => r.from \in DOMAIN p
  BY <1>2, <1>5, <1>8, <1>9 DEF Works
<1>12. Found(j, T)
  BY <1>6, <1>8, <1>9, <1>10, <1>11 DEF Found
<1>13. p = <<>> => AnswerTrue(j, T)
  <2> SUFFICES ASSUME p = <<>> PROVE AnswerTrue(j, T)
    OBVIOUS
  <2>1. DOMAIN p = {}
    OBVIOUS
  <2>2. Mutual(j, T)
    BY <1>6 DEF Mutual
  <2>3. ~j.unstored => AllKnown(j)
    <3> SUFFICES ASSUME ~j.unstored PROVE AllKnown(j)
      OBVIOUS
    <3>1. PICK fans : fans = {r.from : r \in {x \in j.known : x.to = j.req.phone}}
      OBVIOUS
    <3>2. fans = {}
      BY <1>6, <1>11, <2>1, <3>1
    <3>3. Cardinality(fans) <= j.rsp.mark
      BY <1>6, <2>1, <3>2, FS_EmptySet
    <3> QED
      BY <3>1, <3>2, <3>3 DEF AllKnown
  <2> QED
    BY <1>2, <1>6, <2>2, <2>3 DEF AnswerTrue
<1>14. Works(j, T)
  <2>1. Owned(j) /\ j.added \subseteq T /\ j.known \subseteq T
    BY <1>2, <1>5, <1>6 DEF Owned, Works
  <2>2. (at = "respone" /\ p = <<>>) \/ at = "second"
    BY <1>4
  <2> QED
    BY <1>2, <1>6, <1>12, <1>13, <2>1, <2>2 DEF Works
<1>15. /\ interest_t' = interest_t /\ acked' = acked /\ wrongFree' = wrongFree
       /\ work' = [work EXCEPT ![w] = j]
  BY <1>0, <1>4 DEF FirstQuery
<1> QED
  BY <1>1, <1>14, <1>15, OneWorks DEF ProcInv

LEMMA SecondQueryKeeps == ASSUME ProcInv, NEW w \in DBWorkers, SecondQuery(w) PROVE ProcInv'
<1>1. PICK q, T : q = work[w] /\ T = interest_t
  OBVIOUS
<1>2. /\ Works(q, T) /\ q.at = "second" /\ q.req.cmd = "charm" /\ q.rsp.list = {}
      /\ q.rsp.status = "SUCCESS" /\ Found(q, T)
  BY <1>1 DEF SecondQuery, At, ProcInv, Works
<1>3. PICK k \in Stored(q, 2) :
        work' = [work EXCEPT ![w] =
                  [k EXCEPT !.at = "respone",
                            !.rsp.list = IF k.rest = NoResult THEN {} ELSE {Person(w, r) : r \in Returned(w)}]]
  BY <1>1 DEF SecondQuery
<1>4. PICK list, j : /\ list = IF k.rest = NoResult THEN {} ELSE {Person(w, r) : r \in Returned(w)}
                     /\ j = [k EXCEPT !.at = "respone", !.rsp.list = list]
  OBVIOUS
<1>5. /\ Owned(k) /\ DOMAIN k = DOMAIN Idling /\ k.rsp = q.rsp /\ k.req = q.req
      /\ k.persons = q.persons /\ k.known = q.known /\ k.added = q.added
      /\ ~k.unstored => ~q.unstored /\ k.rest # NoResult
  BY <1>2, StoredIs DEF Works
<1>6. /\ DOMAIN j = DOMAIN Idling /\ DOMAIN j.rsp = DOMAIN NoAnswer /\ j.at = "respone"
      /\ j.rsp.list = list /\ j.rsp.mark = Cardinality(DOMAIN q.persons)
      /\ j.rsp.status = "SUCCESS" /\ j.req = q.req /\ j.known = q.known /\ j.added = q.added
      /\ j.unstored = k.unstored /\ j.rest = k.rest /\ j.results = k.results
  BY <1>2, <1>4, <1>5, WorkFields DEF Works, Found
<1>7. PICK D, a : D = DOMAIN q.persons /\ a = q.req.phone
  OBVIOUS
<1>8. \A r \in Returned(w) : /\ r \in T /\ r.from = a /\ r.to \in D
                             /\ Person(w, r).phone = r.to /\ Person(w, r).sendmsg = r.message
                             /\ Person(w, r).message = q.persons[r.to]
  BY <1>1, <1>7 DEF Returned, Asker, Person
<1>9. \A x \in list : /\ x.phone \in D
                      /\ \E r \in Rows(x.phone, a, T) : r.message = x.message
                      /\ \E r \in Rows(a, x.phone, T) : r.message = x.sendmsg
  <2>1. ASSUME NEW x \in list
        PROVE  /\ x.phone \in D
               /\ \E r \in Rows(x.phone, a, T) : r.message = x.message
               /\ \E r \in Rows(a, x.phone, T) : r.message = x.sendmsg
    <3>1. PICK r \in Returned(w) : x = Person(w, r)
      BY <1>4
    <3>2. x.phone \in D /\ x.message = q.persons[x.phone] /\ r \in Rows(a, x.phone, T)
          /\ r.message = x.sendmsg
      BY <1>8, <3>1 DEF Rows
    <3>3. \E y \in T : y.from = x.phone /\ y.to = a /\ y.message = x.message
      BY <1>2, <1>7, <3>2 DEF Found
    <3> QED
      BY <3>2, <3>3 DEF Rows
  <2> QED
    BY <2>1
<1>10. IsFiniteSet(D)
  BY <1>2, <1>7 DEF Found
<1>11. \A S \in SUBSET D : Cardinality(S) <= Cardinality(D)
  BY <1>10, FS_Subset
<1>12. Mutual(j, T)
  <2>1. PICK phones : phones = {x.phone : x \in list}
    OBVIOUS
  <2>2. phones \in SUBSET D
    BY <1>9, <2>1
  <2>3. Cardinality(phones) <= Cardinality(D) /\ Cardinality(phones) \in Nat /\ Cardinality(D) \in Nat
    BY <1>10, <1>11, <2>2, FS_Subset, FS_CardinalityType
  <2>4. j.rsp.mark >= Cardinality({x.phone : x \in j.rsp.list})
    BY <1>6, <1>7, <2>1, <2>3
  <2> QED
    BY <1>6, <1>7, <1>9, <2>4 DEF Mutual
<1>13. ~j.unstored => AllKnown(j)
  <2> SUFFICES ASSUME ~j.unstored PROVE AllKnown(j)
    OBVIOUS
  <2>1. PICK fans : fans = {r.from : r \in {x \in j.known : x.to = j.req.phone}}
    OBVIOUS
  <2>2. ~q.unstored /\ k.rest # NoResult
    BY <1>5, <1>6
  <2>3. fans \in SUBSET D
    BY <1>2, <1>6, <1>7, <2>1, <2>2 DEF Found
  <2>4. Cardinality(fans) <= j.rsp.mark
    BY <1>6, <1>7, <1>11, <2>3
  <2>5. ASSUME NEW f \in fans, Rows(a, f, q.known) # {}
        PROVE  \E x \in j.rsp.list : x.phone = f
    <3>1. PICK r \in q.known : r.from = a /\ r.to = f
      BY <2>5 DEF Rows
    <3>2. r \in T /\ f \in D
      BY <1>2, <2>3, <3>1 DEF Works
    <3>3. r \in Returned(w)
      BY <1>1, <1>7, <3>1, <3>2 DEF Returned, Asker
    <3>4. Person(w, r) \in list /\ Person(w, r).phone = f
      BY <1>4, <1>8, <2>2, <3>1, <3>3
    <3> QED
      BY <1>6, <3>4
  <2> QED
    BY <1>6, <1>7, <2>1, <2>4, <2>5 DEF AllKnown
<1>14. Works(j, T)
  <2>1. Owned(j) /\ j.added \subseteq T /\ j.known \subseteq T
    BY <1>2, <1>5, <1>6 DEF Owned, Works
  <2>2. AnswerTrue(j, T)
    BY <1>2, <1>6, <1>12, <1>13 DEF AnswerTrue
  <2> QED
    BY <1>6, <2>1, <2>2 DEF Works
<1>15. ~FreesGone(work[w])
  BY <1>1, <1>2 DEF FreesGone, Works, Owned
<1>16. /\ interest_t' = interest_t /\ acked' = acked /\ wrongFree' = FALSE
       /\ work' = [work EXCEPT ![w] = j]
  BY <1>3, <1>4, <1>15 DEF SecondQuery, ProcInv
<1> QED
  BY <1>1, <1>14, <1>16, OneWorks DEF ProcInv

\* What a worker answers is true of the table, whatever the others insert
\* between its queries, and it frees every result of MySQL once.
THEOREM AnswersHold == ProcSpec => []AnswersTrue
<1>1. ProcInit => ProcInv
  <2>1. \A T : Works(Idling, T)
    BY DEF Works, Owned, Idling, NoAnswer, NoResult
  <2> QED
    BY <2>1, FS_EmptySet DEF ProcInit, ProcInv
<1>2. ProcInv /\ [ProcNext]_procVars => ProcInv'
  <2> SUFFICES ASSUME ProcInv, [ProcNext]_procVars PROVE ProcInv'
    OBVIOUS
  <2>1. ASSUME NEW w \in DBWorkers, CharmFails(w) PROVE ProcInv'
    BY <2>1, FailsKeeps DEF CharmFails, At
  <2>2. ASSUME NEW w \in DBWorkers, InsertFails(w) PROVE ProcInv'
    BY <2>2, FailsKeeps DEF InsertFails, At
  <2>3. ASSUME UNCHANGED procVars PROVE ProcInv'
    BY <2>3 DEF procVars, ProcInv
  <2> QED
    BY <2>1, <2>2, <2>3, ProcessKeeps, ResponeKeeps, FirstQueryKeeps, SecondQueryKeeps,
       InsertKeeps DEF ProcNext
<1>3. ProcInv => AnswersTrue
  <2> SUFFICES ASSUME ProcInv, NEW w \in DBWorkers, At(w, "respone")
               PROVE  /\ work[w].req.cmd = "charm" =>
                           /\ ListsMutual(w)
                           /\ work[w].rsp.status = "SUCCESS" /\ ~work[w].unstored => ListsKnown(w)
                           /\ work[w].rsp.status = "DB_FAIL" => work[w].rsp.list = {}
                      /\ work[w].req.cmd = "interest" /\ work[w].rsp.status = "SUCCESS" =>
                           work[w].added # {} /\ work[w].added \subseteq interest_t
                      /\ Freed(work[w]).results = {}
    BY DEF AnswersTrue, ProcInv
  <2>1. PICK k, T : k = work[w] /\ T = interest_t
    OBVIOUS
  <2>2. Works(k, T) /\ AnswerTrue(k, T)
    BY <2>1 DEF ProcInv, Works, At
  <2>3. Mutual(k, T) => ListsMutual(w)
    BY <2>1 DEF Mutual, ListsMutual, Asker
  <2>4. AllKnown(k) => ListsKnown(w)
    BY <2>1 DEF AllKnown, ListsKnown, Asker
  <2>5. Freed(k).results = {}
    BY <2>2, WorkFields DEF Freed, Works, Owned
  <2> QED
    BY <2>1, <2>2, <2>3, <2>4, <2>5 DEF AnswerTrue, Works
<1> QED
  BY <1>1, <1>2, <1>3, PTL DEF ProcSpec
=============================================================================
