------------------------------- MODULE NetThread -------------------------------
(***************************************************************************)
(* efnfw: one net_thread with its event loop, the operations other threads *)
(* post to it, its timers, and the connections it serves (ef_net_thread,   *)
(* ef_connection, ef_timer, ef_operator, ef_acceptor).                     *)
(*                                                                         *)
(* The state only the loop's thread touches is one record, net; a handler  *)
(* is an operator that maps it to its next value.  Time passes only while  *)
(* the loop waits in epoll_wait.  A use of a deleted connection ends in    *)
(* the state "crashed".                                                    *)
(***************************************************************************)
EXTENDS Integers, FiniteSets, Sequences, SequencesExt, Functions

CONSTANTS
    Conns,        \* connection objects, each allocated at most once
    NoCon,       \* the NULL connection of a timer of the thread
    MsgLen,      \* bytes of a message
    TimerIds,    \* ids an application gives its timers
    Timeouts,    \* timeouts it asks for, in ticks
    Second,      \* ticks of a second (tv_usec wraps there)
    MaxWait,     \* ticks epoll_wait waits when no timer is known (2000 ms)
    MaxOneLoop,  \* max_timer_one_loop
    Plans        \* what the application and the peers may do: records of bounds

ASSUME NetConstants ==
    /\ NoCon \notin Conns /\ MsgLen \in Nat \ {0} /\ Second \in Nat \ {0} /\ MaxWait \in Nat \ {0}
    /\ MaxOneLoop \in Nat \ {0} /\ Timeouts \subseteq Nat
    /\ Plans \subseteq [registers: BOOLEAN, sends: Nat, closes: Nat, packs: Nat, fins: Nat,
                        timers: Nat, threadTimers: Nat, signals: Nat, ticks: Nat, clients: Nat]

VARIABLES
    net,      \* the loop's own state: con, map (m_con_map), timers (m_timer_map), threadTimers (m_timers)
    ops,      \* m_ops, with the numbers of the operations
    ctl,      \* datagrams waiting at m_ctlfd
    owed,     \* posters between their push to m_ops and their send_ctl
    run,      \* m_run
    lpc,      \* where the loop is
    batch,    \* events epoll_wait returned, not yet handled
    expired,  \* timeouts[], the copy of the expired timers: those still to call
    called,   \* ... and those already called, whose keys are erased at the end
    wake,     \* when the present epoll_wait gives up
    now,      \* the clock, in ticks
    left,     \* what is left of the plan
    accepted  \* messages send_message took, per connection in their order (history)

vars == <<net, ops, ctl, owed, run, lpc, batch, expired, called, wake, now, left, accepted>>

-----------------------------------------------------------------------------
\* Times.  A timer's tv is (sec, usec) with usec possibly past a second.

TvCmp(s, t) == IF s[1] # t[1] THEN s[1] - t[1] ELSE s[2] - t[2]

TvDiff(s, t) == IF s[2] < t[2] THEN <<s[1] - t[1] - 1, s[2] + Second - t[2]>>
                               ELSE <<s[1] - t[1], s[2] - t[2]>>

Ticks(tv) == tv[1] * Second + tv[2]
Clock(n)  == <<n \div Second, n % Second>>

\* tv_sec += timeout / 1000; tv_usec += timeout % 1000 * 1000, not normalised.
ExpiryOf(timeout) == <<Clock(now)[1] + (timeout \div Second), Clock(now)[2] + (timeout % Second)>>

KeyLess(k, l) == \/ TvCmp(k.tv, l.tv) < 0
                 \/ k.tv = l.tv /\ (k.con < l.con \/ (k.con = l.con /\ k.id < l.id))

-----------------------------------------------------------------------------
\* net_thread on its connections and timers.

Con(n, c) == n.con[c]
SetCon(n, c, r) == [n EXCEPT !.con[c] = r]

Put(m, k, v) == [x \in DOMAIN m \cup {k} |-> IF x = k THEN v ELSE m[x]]

AddConnection(n, c) == IF Con(n, c).id \in DOMAIN n.map THEN n
                       ELSE [n EXCEPT !.map = Put(@, Con(n, c).id, c)]

DelConnection(n, c) == [n EXCEPT !.map = Restrict(@, DOMAIN @ \ {Con(n, c).id})]

TimerKey(n, c, tm) == [tv |-> tm.tv, con |-> IF c = NoCon THEN 0 ELSE Con(n, c).id, id |-> tm.id]

AddTimer(n, c, tm) == [n EXCEPT !.timers = Put(@, TimerKey(n, c, tm), c)]

DelTimer(n, c, tm) == [n EXCEPT !.timers = Restrict(@, DOMAIN @ \ {TimerKey(n, c, tm)})]

\* epoll_ctl: MOD when the old notification has the bit of EPOLLIN, else ADD,
\* which the kernel refuses for a descriptor it knows; DEL for none.
SetNotify(r, noti) ==
    IF noti # {} THEN IF ("R" \in r.noti) <=> (r.epoll # {}) THEN [r EXCEPT !.epoll = noti] ELSE r
    ELSE IF "R" \in r.noti THEN [r EXCEPT !.epoll = {}] ELSE r

-----------------------------------------------------------------------------
\* connection.

ConSetNotify(r, noti) == IF r.thr THEN [SetNotify(r, noti) EXCEPT !.noti = noti] ELSE r

DelTimers(n, c) == [n EXCEPT !.timers =
    Restrict(@, DOMAIN @ \ {TimerKey(n, c, tm) : tm \in Con(n, c).timers})]

\* Mutant: the timers stay in the map.
DetachKeepsTimers(n, c) == [DelConnection(n, c) EXCEPT !.con[c].timers = {}, !.con[c].thr = FALSE]

\* Leaves m_timers, the timer map and m_con_map; m_thread becomes NULL.
Detach(n, c) == [DelConnection(DelTimers(n, c), c) EXCEPT
                    !.con[c].timers = {}, !.con[c].thr = FALSE]

Freed(r) == [r EXCEPT !.life = "freed", !.noti = {}, !.epoll = {}, !.id = 0]

\* delete this: the destructor runs clear(), which closes the descriptor.
Recycle(n, c) ==
    LET gone == IF Con(n, c).thr
                THEN Detach(SetCon(n, c, IF Con(n, c).noti # {} THEN SetNotify(Con(n, c), {})
                                                               ELSE Con(n, c)), c)
                ELSE n
    IN SetCon(gone, c, Freed(Con(gone, c)))

Unsent(r) == Len(r.msgs) * MsgLen - r.start

\* Bytes the peer gets when the next k bytes of m_msgs are sent.
Bytes(r, k) == [i \in 1..k |-> LET p == r.start + i - 1
                               IN <<r.msgs[1 + (p \div MsgLen)], p % MsgLen>>]

\* Mutant: m_cur_msg_start is not reset when a message is complete.
AfterSendNoReset(r, k) == [r EXCEPT !.out = @ \o Bytes(r, k),
                                    !.msgs = SubSeq(@, 1 + ((r.start + k) \div MsgLen), Len(@)),
                                    !.start = IF (r.start + k) % MsgLen = 0 THEN @ ELSE (r.start + k) % MsgLen]

AfterSend(r, k) == [r EXCEPT !.out = @ \o Bytes(r, k),
                             !.msgs = SubSeq(@, 1 + ((r.start + k) \div MsgLen), Len(@)),
                             !.start = (r.start + k) % MsgLen]

\* do_send: the socket takes k bytes and then blocks (err FALSE), or fails at the
\* start of a message (err TRUE).  The result is the connection and the return value.
DoSend(r, k, err) ==
    LET s == AfterSend(r, k)
    IN IF err THEN [r |-> s, ret |-> -1]
       ELSE IF s.msgs # <<>>
            THEN [r |-> IF "W" \in s.noti THEN s ELSE ConSetNotify(s, s.noti \cup {"W"}), ret |-> 0]
       ELSE IF s.flag THEN [r |-> s, ret |-> -2]
       ELSE [r |-> IF "W" \in s.noti THEN ConSetNotify(s, s.noti \ {"W"}) ELSE s, ret |-> 0]

SendOutcomes(r) == {<<k, FALSE>> : k \in 0..Unsent(r)}
                   \cup {<<k, TRUE>> : k \in {j \in 0..(Unsent(r) - 1) : (r.start + j) % MsgLen = 0
                                                                        \/ j = 0}}

SendMessage(r, m, o) == DoSend([r EXCEPT !.msgs = Append(@, m)], o[1], o[2])

\* m_noti | DEL_READ has every bit, the one for reading too.
SafeClose(n, c, o) ==
    IF Con(n, c).msgs = <<>> THEN Recycle(n, c)
    ELSE LET r == Con(n, c)
             quiet == IF r.thr THEN Detach(SetCon(n, c, IF "R" \in r.noti THEN SetNotify(r, {"R", "W"})
                                                                          ELSE r), c)
                      ELSE n
         IN SetCon(quiet, c, DoSend([Con(quiet, c) EXCEPT !.flag = TRUE], o[1], o[2]).r)

\* start_timer: a timer of the same id is deleted first.
FindDelTimer(n, c, id) ==
    LET old == {tm \in Con(n, c).timers : tm.id = id}
    IN [n EXCEPT !.con[c].timers = @ \ old,
                 !.timers = Restrict(@, DOMAIN @ \ {TimerKey(n, c, tm) : tm \in old})]

StartTimer(n, c, id, timeout) ==
    LET tm == [id |-> id, tv |-> ExpiryOf(timeout)]
    IN [AddTimer(FindDelTimer(n, c, id), c, tm) EXCEPT !.con[c].timers = @ \cup {tm}]

-----------------------------------------------------------------------------
NewCon == [life |-> "none", thr |-> FALSE, id |-> 0, noti |-> {}, epoll |-> {}, msgs |-> <<>>,
           start |-> 0, flag |-> FALSE, timers |-> {}, in |-> 0, fin |-> FALSE, out |-> <<>>]

Made  == {c \in Conns : Con(net, c).life # "none"}
Live  == {c \in Conns : Con(net, c).life = "live"}
Ids   == {0} \cup 1..Cardinality(Made)

Init ==
    /\ net = [con |-> [c \in Conns |-> NewCon], map |-> <<>>, timers |-> <<>>, threadTimers |-> <<>>]
    /\ ops = <<>> /\ ctl = 0 /\ owed = 0
    /\ run = FALSE /\ lpc = "new" /\ batch = <<>> /\ expired = <<>> /\ called = {}
    /\ wake = 0 /\ now = 0
    /\ left \in Plans
    /\ accepted = [c \in Conns |-> <<>>]

Spend(what) == left[what] > 0 /\ left' = [left EXCEPT ![what] = @ - 1]

Crash == lpc' = "crashed" /\ UNCHANGED <<net, ops, ctl, owed, run, batch, expired, called, wake, now,
                                         accepted>>
Up == lpc \notin {"crashed", "closing", "gone"}

-----------------------------------------------------------------------------
\* Other threads: post an operation (push, then a datagram, which may be dropped),
\* start a timer of the thread, stop the loop.

Push(op) == ops' = Append(ops, op) /\ owed' = owed + 1
            /\ UNCHANGED <<net, ctl, run, lpc, batch, expired, called, wake, now, accepted>>

send_message == Up /\ \E i \in Ids : /\ Spend("sends")
                                     /\ Push([k |-> "send", id |-> i, n |-> <<"send", left.sends>>])

close_connection == Up /\ \E i \in Ids : /\ Spend("closes")
                                         /\ Push([k |-> "close", id |-> i, n |-> <<"close", left.closes>>])

send_ctl == /\ Up /\ owed > 0
            /\ owed' = owed - 1
            /\ ctl' \in {ctl, ctl + 1}
            /\ UNCHANGED <<net, ops, run, lpc, batch, expired, called, wake, now, left, accepted>>

\* A second start under an id finds the first timer and deletes it through its
\* connection, which a timer of the thread does not have.
start_timer == Up /\ \E id \in TimerIds, t \in Timeouts :
    /\ Spend("threadTimers")
    /\ IF id \in DOMAIN net.threadTimers THEN Crash
       ELSE LET tm == [id |-> id, tv |-> ExpiryOf(t)]
            IN /\ net' = [AddTimer(net, NoCon, tm) EXCEPT !.threadTimers = Put(@, id, tm)]
               /\ UNCHANGED <<ops, ctl, owed, run, lpc, batch, expired, called, wake, now, accepted>>

stop == /\ Up /\ run
        /\ run' = FALSE
        /\ UNCHANGED <<net, ops, ctl, owed, lpc, batch, expired, called, wake, now, left, accepted>>

-----------------------------------------------------------------------------
\* The peers, at any time.

PeerSends == \E c \in Live : /\ Up /\ ~Con(net, c).fin /\ Spend("packs")
                             /\ net' = [net EXCEPT !.con[c].in = @ + 1]
                             /\ UNCHANGED <<ops, ctl, owed, run, lpc, batch, expired, called, wake, now,
                                            accepted>>

PeerCloses == \E c \in Live : /\ Up /\ ~Con(net, c).fin /\ Spend("fins")
                              /\ net' = [net EXCEPT !.con[c].fin = TRUE]
                              /\ UNCHANGED <<ops, ctl, owed, run, lpc, batch, expired, called, wake, now,
                                             accepted>>

-----------------------------------------------------------------------------
\* The loop: operations.

Run == /\ lpc = "new"
       /\ run' = TRUE /\ lpc' = "test"
       /\ UNCHANGED <<net, ops, ctl, owed, batch, expired, called, wake, now, left, accepted>>

\* while(m_run), and the recvfrom of process_op, which takes one datagram.
Test == /\ lpc = "test"
        /\ IF run THEN lpc' = "op" /\ ctl' = IF ctl > 0 THEN ctl - 1 ELSE 0
                  ELSE lpc' = "ended" /\ ctl' = ctl
        /\ UNCHANGED <<net, ops, owed, run, batch, expired, called, wake, now, left, accepted>>

DoSendMessage(id, n) ==
    IF id \notin DOMAIN net.map THEN UNCHANGED <<net, accepted>>
    ELSE LET c == net.map[id]
             r == Con(net, c)
         IN /\ accepted' = [accepted EXCEPT ![c] = Append(@, n)]
            /\ \E o \in SendOutcomes([r EXCEPT !.msgs = Append(@, n)]) :
                  LET d == SendMessage(r, n, o)
                  IN net' = IF d.ret < 0 THEN Recycle(SetCon(net, c, d.r), c) ELSE SetCon(net, c, d.r)

DoCloseConnection(id) ==
    /\ UNCHANGED accepted
    /\ IF id \notin DOMAIN net.map THEN UNCHANGED net
       ELSE LET c == net.map[id]
            IN \E o \in SendOutcomes(Con(net, c)) : net' = SafeClose(net, c, o)

ProcessOp == /\ lpc \in {"op", "evop"} /\ ops # <<>>
             /\ ops' = Tail(ops)
             /\ CASE Head(ops).k = "send"  -> DoSendMessage(Head(ops).id, Head(ops).n)
                  [] Head(ops).k = "close" -> DoCloseConnection(Head(ops).id)
             /\ UNCHANGED <<ctl, owed, run, lpc, batch, expired, called, wake, now, left>>

OpsDone == /\ lpc \in {"op", "evop"} /\ ops = <<>>
           /\ lpc' = IF lpc = "op" THEN "timer" ELSE "events"
           /\ UNCHANGED <<net, ops, ctl, owed, run, batch, expired, called, wake, now, left, accepted>>

-----------------------------------------------------------------------------
\* The loop: timers.

Due == {k \in DOMAIN net.timers : TvCmp(Clock(now), k.tv) >= 0}

\* Mutant: without a timer to wait for, epoll_wait waits for ever.
ScanForever == /\ lpc = "timer"
               /\ LET due  == SetToSortSeq(Due, KeyLess)
                      rest == SetToSortSeq(DOMAIN net.timers \ Due, KeyLess)
                      took == SubSeq(due, 1, IF Len(due) < MaxOneLoop THEN Len(due) ELSE MaxOneLoop)
                      diff == IF Len(due) < MaxOneLoop /\ rest # <<>>
                              THEN Ticks(TvDiff(rest[1].tv, Clock(now))) ELSE 0
                  IN /\ expired' = [i \in 1..Len(took) |-> [key |-> took[i], con |-> net.timers[took[i]]]]
                     /\ wake' = now + (IF diff > 0 THEN diff ELSE 100 * MaxWait)
               /\ called' = {} /\ lpc' = "fire"
               /\ UNCHANGED <<net, ops, ctl, owed, run, batch, now, left, accepted>>

\* The scan ends at the first timer that is not due, or when the array is full;
\* only in the first case does it say how long to wait.
Scan == /\ lpc = "timer"
        /\ LET due  == SetToSortSeq(Due, KeyLess)
               rest == SetToSortSeq(DOMAIN net.timers \ Due, KeyLess)
               took == SubSeq(due, 1, IF Len(due) < MaxOneLoop THEN Len(due) ELSE MaxOneLoop)
               diff == IF Len(due) < MaxOneLoop /\ rest # <<>>
                       THEN Ticks(TvDiff(rest[1].tv, Clock(now))) ELSE 0
           IN /\ expired' = [i \in 1..Len(took) |-> [key |-> took[i], con |-> net.timers[took[i]]]]
              /\ wake' = now + (IF diff > 0 THEN diff ELSE MaxWait)
        /\ called' = {} /\ lpc' = "fire"
        /\ UNCHANGED <<net, ops, ctl, owed, run, batch, now, left, accepted>>

\* timeouts[j].tm.timeout(): the application restarts the timer, gives the
\* connection up, or does nothing; a timer of the thread has a handler of its own.
Fire == /\ lpc = "fire" /\ expired # <<>>
        /\ LET c  == Head(expired).con
               id == Head(expired).key.id
           IN IF c # NoCon /\ Con(net, c).life = "freed" THEN Crash /\ UNCHANGED left
              ELSE /\ \/ net' = net /\ UNCHANGED left
                      \/ c # NoCon /\ Con(net, c).thr /\ net' = Recycle(net, c) /\ UNCHANGED left
                      \/ \E t \in Timeouts : /\ c # NoCon /\ Con(net, c).thr /\ Spend("timers")
                                             /\ net' = StartTimer(net, c, id, t)
                   /\ expired' = Tail(expired) /\ called' = called \cup {Head(expired).key}
                   /\ UNCHANGED <<ops, ctl, owed, run, lpc, batch, wake, now, accepted>>

EraseCalled == /\ lpc = "fire" /\ expired = <<>>
               /\ net' = [net EXCEPT !.timers = Restrict(@, DOMAIN @ \ called)]
               /\ called' = {} /\ lpc' = "wait"
               /\ UNCHANGED <<ops, ctl, owed, run, batch, expired, wake, now, left, accepted>>

-----------------------------------------------------------------------------
\* The loop: epoll_wait.  Everything readable is reported, in any order, and what
\* is writable if the peer lets it.

Readable == {<<c, "R">> : c \in {d \in Live : "R" \in Con(net, d).epoll
                                             /\ (Con(net, d).in > 0 \/ Con(net, d).fin)}}
            \cup (IF ctl > 0 THEN {<<NoCon, "ctl">>} ELSE {})
            \cup (IF left.clients > 0 THEN {<<NoCon, "accept">>} ELSE {})

Writable == {<<c, "W">> : c \in {d \in Live : "W" \in Con(net, d).epoll /\ <<d, "R">> \notin Readable}}

WaitReturns == /\ lpc = "wait"
               /\ \E w \in SUBSET Writable : /\ Readable \cup w # {}
                                             /\ batch' \in SetToSeqs(Readable \cup w)
               /\ lpc' = "events" /\ wake' = 0
               /\ UNCHANGED <<net, ops, ctl, owed, run, expired, called, now, left, accepted>>

WaitTimesOut == /\ lpc = "wait" /\ Readable = {} /\ (now >= wake \/ left.ticks = 0)
                /\ lpc' = "test" /\ wake' = 0
                /\ UNCHANGED <<net, ops, ctl, owed, run, batch, expired, called, now, left,
                               accepted>>

Tick == /\ lpc = "wait" /\ Readable = {} /\ now < wake /\ Spend("ticks")
        /\ now' = now + 1
        /\ UNCHANGED <<net, ops, ctl, owed, run, lpc, batch, expired, called, wake, accepted>>

\* Mutant: any error of epoll_wait ends the loop.
InterruptedBreaks == /\ lpc = "wait" /\ Spend("signals")
                     /\ lpc' = "ended" /\ wake' = 0
                     /\ UNCHANGED <<net, ops, ctl, owed, run, batch, expired, called, now, accepted>>

\* A signal: nfds < 0 with EINTR handles no event and goes round again.
Interrupted == /\ lpc = "wait" /\ Spend("signals")
               /\ lpc' = "test" /\ wake' = 0
               /\ UNCHANGED <<net, ops, ctl, owed, run, batch, expired, called, now, accepted>>

-----------------------------------------------------------------------------
\* The loop: events.

Event(kind) == lpc = "events" /\ batch # <<>> /\ Head(batch)[2] = kind /\ batch' = Tail(batch)
Here == Head(batch)[1]

CtlEvent == /\ Event("ctl")
            /\ lpc' = "evop" /\ ctl' = ctl - 1
            /\ UNCHANGED <<net, ops, owed, run, expired, called, wake, now, left, accepted>>

\* accept_connect: the connection's on_create registers it if the application
\* uses ids, asks for reading and may start a timer.
OnCreate(c, id) ==
    LET r == [NewCon EXCEPT !.life = "live", !.thr = TRUE, !.id = id]
        n == IF id = 0 THEN SetCon(net, c, r) ELSE AddConnection(SetCon(net, c, r), c)
    IN SetCon(n, c, ConSetNotify(r, {"R"}))

AcceptEvent ==
    /\ Event("accept")
    /\ \/ net' = net /\ Spend("clients")              \* accept or the factory failed
       \/ \E c \in Conns \ Made :
            LET n == OnCreate(c, IF left.registers THEN 1 + Cardinality(Made) ELSE 0)
            IN \/ net' = n /\ Spend("clients")
               \/ \E id \in TimerIds, t \in Timeouts : /\ left.clients > 0 /\ left.timers > 0
                                                       /\ left' = [left EXCEPT !.clients = @ - 1, !.timers = @ - 1]
                                                       /\ net' = StartTimer(n, c, id, t)
    /\ UNCHANGED <<ops, ctl, owed, run, lpc, expired, called, wake, now, accepted>>

\* handle_read: tcp_nb_receive answers -1 when it meets the end of the stream, also
\* after bytes it has read, which nobody then looks at.  Otherwise every pack is
\* handled: taken silently, answered, or refused.
ReadEvent ==
    /\ Event("R")
    /\ IF Con(net, Here).life = "freed"
       THEN lpc' = "crashed" /\ UNCHANGED <<net, accepted, left>>
       ELSE LET c == Here
                r == [Con(net, c) EXCEPT !.in = 0]
            IN /\ lpc' = lpc
               /\ \/ /\ net' = IF r.fin THEN Recycle(net, c) ELSE SetCon(net, c, r)
                     /\ UNCHANGED <<accepted, left>>
                  \/ /\ ~r.fin /\ Con(net, c).in > 0
                     /\ net' = Recycle(net, c) /\ UNCHANGED <<accepted, left>>
                  \/ /\ ~r.fin /\ Con(net, c).in > 0 /\ Spend("sends")
                     /\ accepted' = [accepted EXCEPT ![c] = Append(@, <<"send", left.sends>>)]
                     /\ \E o \in SendOutcomes([r EXCEPT !.msgs = Append(@, 0)]) :
                          LET d == SendMessage(r, <<"send", left.sends>>, o)
                              n == SetCon(net, c, d.r)
                          IN net' = IF d.ret < 0 THEN Recycle(n, c) ELSE n
    /\ UNCHANGED <<ops, ctl, owed, run, expired, called, wake, now>>

WriteEvent ==
    /\ Event("W")
    /\ IF Con(net, Here).life = "freed" THEN lpc' = "crashed" /\ UNCHANGED net
       ELSE /\ lpc' = lpc
            /\ \E o \in SendOutcomes(Con(net, Here)) :
                 LET d == DoSend(Con(net, Here), o[1], o[2])
                     n == SetCon(net, Here, d.r)
                 IN net' = IF d.ret < 0 THEN Recycle(n, Here) ELSE n
    /\ UNCHANGED <<ops, ctl, owed, run, expired, called, wake, now, left, accepted>>

EventsDone == /\ lpc = "events" /\ batch = <<>>
              /\ lpc' = "test"
              /\ UNCHANGED <<net, ops, ctl, owed, run, batch, expired, called, wake, now, left,
                             accepted>>

-----------------------------------------------------------------------------
\* The destructor, after the loop: every connection in m_con_map is recycled.

Destroy == /\ lpc \in {"ended", "closing"}
           /\ IF net.map = <<>> THEN lpc' = "gone" /\ net' = net
              ELSE /\ lpc' = "closing"
                   /\ LET first == CHOOSE i \in DOMAIN net.map : \A j \in DOMAIN net.map : i <= j
                      IN net' = Recycle(net, net.map[first])
           /\ UNCHANGED <<ops, ctl, owed, run, batch, expired, called, wake, now, left, accepted>>

Others == send_message \/ close_connection \/ send_ctl \/ start_timer \/ stop \/ PeerSends \/ PeerCloses
Loop == Run \/ Test \/ ProcessOp \/ OpsDone \/ Scan \/ Fire \/ EraseCalled \/ WaitReturns \/ WaitTimesOut
        \/ Tick \/ Interrupted \/ CtlEvent \/ AcceptEvent \/ ReadEvent \/ WriteEvent \/ EventsDone
Next == Others \/ Loop \/ Destroy

Spec == Init /\ [][Next]_vars /\ WF_vars(Loop)

-----------------------------------------------------------------------------
\* Properties.

TypeOK ==
    /\ lpc \in {"new", "test", "op", "evop", "timer", "fire", "wait", "events", "ended", "closing",
                "gone", "crashed"}
    /\ \A c \in Conns : /\ Con(net, c).life \in {"none", "live", "freed"}
                       /\ Con(net, c).noti \cup Con(net, c).epoll \subseteq {"R", "W"}
                       /\ Con(net, c).start \in 0..(MsgLen - 1)
    /\ DOMAIN net.map \subseteq Ids /\ Range(net.map) \subseteq Conns
    /\ Range(net.timers) \subseteq Conns \cup {NoCon}
    /\ now \in Nat /\ ctl \in Nat /\ owed \in Nat /\ run \in BOOLEAN

\* A deleted connection is left in no structure that outlives a turn of the loop:
\* not in m_con_map, the timer map or the epoll set (only the batch and the copy of
\* the expired timers may still name it).
NothingDangling ==
    \A c \in Conns \ Live : /\ c \notin Range(net.map)
                           /\ c \notin Range(net.timers)
                           /\ Con(net, c).epoll = {}

\* The peer gets the bytes of the accepted messages, each whole, once and in order,
\* however send cuts them; and a connection with something left to send is watched
\* for writing whenever the loop waits, as nothing else would make it send the rest.
InOrder ==
    /\ \A c \in Made :
         LET all == [i \in 1..(Len(accepted[c]) * MsgLen) |->
                        <<accepted[c][1 + ((i - 1) \div MsgLen)], (i - 1) % MsgLen>>]
         IN IsPrefix(Con(net, c).out, all)
    /\ lpc = "wait" => \A c \in Live : Con(net, c).msgs # <<>> => "W" \in Con(net, c).epoll

\* How late a timer fires is bounded: callbacks, and other threads, start timers the
\* present wait does not know of, and that wait lasts as long as the first timer it
\* knew of, or 2 seconds; so the longest timeout in use or 2 seconds is the bound.
\* A timer whose tv_usec was not normalised compares wrongly with the clock and
\* fires early, but never by a second or more.  The bound is one for the timers a
\* few turns can take: a turn calls at most MaxOneLoop of them and then waits, so
\* many more that fall due together wait for one another.
LongestWait == CHOOSE w \in Timeouts \cup {MaxWait} : \A t \in Timeouts \cup {MaxWait} : t <= w
TimersOnTime ==
    /\ \A k \in DOMAIN net.timers : now - Ticks(k.tv) <= LongestWait
    /\ \A i \in DOMAIN expired : Ticks(expired[i].key.tv) - now < Second

\* Posted operations do not stay in m_ops while the loop runs, whatever becomes of
\* their datagrams and of signals: the queue is empty again and again.
PostedOpsRun == []<>(ops = <<>> \/ ~run \/ lpc = "crashed")

\* "close after all send buf has send": a connection in FLAG_SAFE_CLOSE is deleted
\* by its loop only when m_msgs is empty or its socket failed.
ClosedWhenSent ==
    [][\A c \in Conns : (/\ Con(net, c).flag /\ Con(net, c).life = "live" /\ lpc = "events" /\ Here = c
                        /\ Head(batch)[2] = "R" /\ Con(net', c).life = "freed")
                       => Con(net, c).msgs = <<>>]_vars
=============================================================================
