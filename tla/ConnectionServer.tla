-------------------------- MODULE ConnectionServer --------------------------
(***************************************************************************)
(* connection_server: the acceptors on net thread 0, the connections of    *)
(* clients and of servers on the threads the factories give them, the      *)
(* table of logged-in sessions all threads share, and the operations a     *)
(* server's answer posts to the thread of a client.                        *)
(*                                                                         *)
(* A handler is one action: what it shares with other threads it reaches   *)
(* under the mutex of a session group or of a thread.  on_create is one    *)
(* action for each of its writes, because it runs on thread 0 while the    *)
(* connection's own thread may have its first event.  A use of a deleted   *)
(* connection may end in crashed.                                          *)
(* A message is a header of two cells, so that it may arrive in part, and  *)
(* a body.  server_manager never has a server (add_server has no caller).  *)
(***************************************************************************)
EXTENDS Integers, FiniteSets, Sequences, SequencesExt, Functions

CONSTANTS Clients, Servers,  \* connection objects, each created at most once
          ThreadCount,       \* m_netthreadcnt
          Period,            \* 5 seconds: of CHECK_TIMER, and of silence allowed
          TimerMax,          \* 256: timers of one pass of process_timer
          WaitMax,           \* 2 seconds: of epoll_wait behind a full pass
          RingCap,           \* 8192: m_cap of a connection's loop_buf
          ClientCmds, ServerCmds,  \* messages the peers send
          Start,             \* time(NULL) when the server starts
          Plans              \* bounds of a run: [conns |-> the connections accepted,
                             \* msgs |-> messages of all peers, ticks |-> seconds]

ASSUME ServerAssumption ==
    /\ ThreadCount \in Nat \ {0} /\ RingCap \in Nat
    /\ Period \in Nat \ {0} /\ TimerMax \in Nat /\ WaitMax \in Nat
    \* time(NULL) counts the seconds since 1970.
    /\ Start \in Nat /\ Start > Period
    /\ Clients \cap Servers = {} /\ "none" \notin Clients \cup Servers
    \* no message is shorter than its header
    /\ \A m \in ClientCmds \cup ServerCmds : m.len \in Nat /\ m.len >= 2

VARIABLES
    con,       \* the connections
    nextId,    \* m_idx of the two factories
    session,   \* the counter of get_session_id
    group,     \* client_manager: session -> connection
    accepting, \* the connection on_create runs for, or NoCon
    busy,      \* of each thread: the connection whose handle_read runs, or NoCon
    timers,    \* m_timer_map of each thread: key -> connection
    pass,      \* of each thread: the clients whose timers its pass has handled, and,
               \* with timers left over, the seconds of this wait and of all since
    ops,       \* m_ops of each thread: send_message_op
    now,
    crashed,
    collided,  \* a timer took the key of another (history)
    plan,      \* the plan of this run
    msgs,      \* messages sent so far
    dropped    \* clients that exist, an answer to which found no connection (history)

vars == <<con, nextId, session, group, accepting, busy, timers, pass, ops, now, crashed,
          collided, plan, msgs, dropped>>

Conns == Clients \cup Servers
NetThreads == 0..(ThreadCount - 1)
NoCon == "none"
Micros == {0, 1}         \* tv_usec of a timer

\* Commands of the header, with what the model needs of the message
LOGIN == [cmd |-> "CLIENT_LOGIN_REQ", len |-> 2]
REQ == [cmd |-> "CLIENT_REQ_REQ", len |-> 3]
KEEP_ALIVE == [cmd |-> "KEEP_ALIVE_REQ", len |-> 2]
BAD == [cmd |-> "bad", len |-> 2]                         \* wrong magic or length
SERVER_LOGIN == [cmd |-> "SERVER_LOGIN_REQ", len |-> 2]
RSP(s) == [cmd |-> "CLIENT_REQ_RSP", len |-> 3, sessid |-> s]
UNKNOWN == [cmd |-> "other", len |-> 2]
Lens == {2, 9}

\* at is how far on_create is; timer is the timer started last and key that of
\* m_timers; made, count, split and lost are history.
NewCon == [stage |-> "none", at |-> "no", thr |-> 0, sess |-> 0, made |-> 0, last |-> 0,
           timer |-> <<>>, key |-> <<>>,
           sent |-> <<>>, count |-> 0, cells |-> <<>>, rcvd |-> 0, taken |-> 0, noti |-> 0,
           split |-> FALSE, lost |-> FALSE, handled |-> <<>>, closed |-> FALSE]

Alive(c) == con[c].stage \in {"created", "notified"}

NewPass == [done |-> {}, rest |-> 0, late |-> 0]

Init == /\ con = [c \in Conns |-> NewCon]
        /\ nextId = [client |-> 0, server |-> 0] /\ session = 0
        /\ group = <<>> /\ accepting = NoCon
        /\ busy = [t \in NetThreads |-> NoCon] /\ timers = [t \in NetThreads |-> <<>>]
        /\ ops = [t \in NetThreads |-> <<>>]
        /\ pass = [t \in NetThreads |-> NewPass]
        /\ now = Start /\ crashed = FALSE /\ collided = FALSE /\ plan \in Plans /\ msgs = 0 /\ dropped = {}

Without(f, x) == Restrict(f, DOMAIN f \ {x})

\* What a thread may do now: thread 0 is busy while on_create runs.
Idle(t) == busy[t] = NoCon /\ ~(t = 0 /\ accepting # NoCon)

-----------------------------------------------------------------------------
(* Threads and timers (ef_net_thread, ef_connection).                      *)

\* All connections have id 0, so the key of a timer is its time alone.
AddTimer(m, key, c) == [k \in DOMAIN m \cup {key} |-> IF k = key THEN c ELSE m[k]]
DelTimer(m, c) == Without(m, con[c].key)

\* add_connection has no caller: m_con_map is empty, and get_connection finds
\* none, whatever the id.
get_connection(t, id) == {}

\* delete this: the client leaves the table, the timer of m_timers the thread's map
\* Mutant: the destructor does not take the client out of the table.
DestroyedKeepsSession(c) == UNCHANGED group
Destroyed(c) == group' = Without(group, con[c].sess)

Recycle(c) ==
  /\ con' = [con EXCEPT ![c] = [NewCon EXCEPT !.stage = "gone", !.at = con[c].at]]
  /\ timers' = [timers EXCEPT ![con[c].thr] = DelTimer(@, c)]
  /\ Destroyed(c)

-----------------------------------------------------------------------------
(* Accepting, on thread 0.                                                 *)

\* c_con_factory and s_con_factory::create_connection
Accept(c) ==
  /\ c \in plan.conns /\ Idle(0) /\ con[c].stage = "none"
  /\ LET kind == IF c \in Clients THEN "client" ELSE "server"
     IN  /\ con' = [con EXCEPT ![c].stage = "created",
                               ![c].thr = nextId[kind] % ThreadCount, ![c].made = now,
                               ![c].sess = IF c \in Clients THEN session + 1 ELSE 0]
         /\ nextId' = [nextId EXCEPT ![kind] = @ + 1]
  /\ session' = IF c \in Clients THEN session + 1 ELSE session
  /\ accepting' = c
  /\ UNCHANGED <<group, busy, timers, ops, now, crashed, collided, pass, plan, msgs, dropped>>

\* on_create: set_notify(ADD_READ) calls epoll_ctl; from here the thread has its
\* events ...
SetNotify ==
  /\ accepting # NoCon /\ con[accepting].stage = "created"
  /\ con' = [con EXCEPT ![accepting].stage = "notified", ![accepting].at = "watched"]
  /\ UNCHANGED <<nextId, session, group, accepting, busy, timers, ops, now, crashed, collided, pass, plan, msgs, dropped>>

\* A write to a deleted connection may go unnoticed.
MayCrash == crashed' \in BOOLEAN

\* ... and writes m_noti.
NotiWritten ==
  /\ accepting # NoCon /\ con[accepting].at = "watched"
  /\ IF Alive(accepting) THEN UNCHANGED crashed ELSE MayCrash
  /\ con' = [con EXCEPT ![accepting].at = "noted"]
  /\ accepting' = IF accepting \in Servers THEN NoCon ELSE accepting
  /\ UNCHANGED <<nextId, session, group, busy, timers, ops, now, collided, pass, plan, msgs, dropped>>

\* start_timer on the thread of the connection; the microseconds are numbered as
\* the timers need them
StartTimer(c, us) ==
  LET key == <<now + Period, us>>
      t == con[c].thr
      old == DelTimer(timers[t], c)
  IN  /\ us = 0 \/ <<now + Period, 0>> \in DOMAIN old
      /\ timers' = [timers EXCEPT ![t] = AddTimer(old, key, c)]
      /\ con' = [con EXCEPT ![c].timer = key, ![c].key = key]
      /\ collided' = (collided \/ key \in DOMAIN old)

\* ... and start_timer(CHECK_TIMER, 5000) in on_create: add_timer for the thread of
\* the connection, by m_thread, which is NULL when it is deleted
OnCreateTimer(us) ==
  /\ accepting # NoCon /\ con[accepting].at = "noted"
  /\ LET key == <<now + Period, us>>
         t == con[accepting].thr
     IN  IF ~Alive(accepting)
         THEN crashed' = TRUE /\ UNCHANGED <<con, timers, collided>>
         ELSE /\ us = 0 \/ <<now + Period, 0>> \in DOMAIN timers[t]
              /\ timers' = [timers EXCEPT ![t] = AddTimer(@, key, accepting)]
              /\ con' = [con EXCEPT ![accepting].timer = key, ![accepting].at = "added"]
              /\ collided' = (collided \/ key \in DOMAIN timers[t])
              /\ UNCHANGED crashed
  /\ UNCHANGED <<nextId, session, group, accepting, busy, ops, now, pass, plan, msgs, dropped>>

\* ... and m_timers.push_back
OnCreateEnds ==
  /\ accepting # NoCon /\ con[accepting].at = "added"
  /\ IF Alive(accepting)
     THEN /\ con' = [con EXCEPT ![accepting].key = con[accepting].timer, ![accepting].at = "done"]
          /\ UNCHANGED crashed
     ELSE MayCrash /\ UNCHANGED con
  /\ accepting' = NoCon
  /\ UNCHANGED <<nextId, session, group, busy, timers, ops, now, collided, pass, plan, msgs, dropped>>

-----------------------------------------------------------------------------
(* The peers.                                                              *)

PeerSends(c, m) ==
  /\ con[c].stage = "notified" /\ ~con[c].closed /\ msgs < plan.msgs
  /\ con' = [con EXCEPT ![c].sent = Append(@, m), ![c].count = @ + m.len,
                        ![c].cells = @ \o [i \in 1..m.len |-> <<Len(con[c].sent) + 1, i>>]]
  /\ msgs' = msgs + 1
  /\ UNCHANGED <<nextId, session, group, accepting, busy, timers, ops, now, crashed, collided, pass, plan, dropped>>

PeerCloses(c) ==
  /\ con[c].stage = "notified" /\ ~con[c].closed
  /\ con' = [con EXCEPT ![c].closed = TRUE]
  /\ UNCHANGED <<nextId, session, group, accepting, busy, timers, ops, now, crashed, collided, pass, plan, msgs, dropped>>

-----------------------------------------------------------------------------
(* Events of a connection, on its thread.                                  *)

Buffered(c) == SubSeq(con[c].cells, con[c].taken + 1, con[c].rcvd)

\* resize leaves m_cap as it is, and write drops what does not fit.
Room(c) == RingCap - Len(Buffered(c))
Fitting(c, n) == IF n <= Room(c) THEN n ELSE Room(c)

\* handle_read: n cells have arrived, and tcp_nb_receive finds no more; those
\* that find no room are cut out of cells
Receive(c, n) ==
  /\ con[c].stage = "notified" /\ Idle(con[c].thr) /\ ~con[c].closed
  /\ con[c].rcvd + n <= Len(con[c].cells)
  /\ LET x == con[c].cells
         end == con[c].rcvd + Fitting(c, n)
     IN  con' = [con EXCEPT ![c].rcvd = end,
                            ![c].cells = SubSeq(x, 1, end) \o SubSeq(x, con[c].rcvd + n + 1, Len(x)),
                            ![c].lost = @ \/ Fitting(c, n) < n]
  /\ busy' = [busy EXCEPT ![con[c].thr] = c]
  /\ UNCHANGED <<nextId, session, group, accepting, timers, ops, now, crashed, collided, pass, plan, msgs, dropped>>

\* ... or the end of the stream: the event fails, whatever came before the end in
\* the same tcp_nb_receive is dropped, and the connection is deleted
ReceiveEnd(c) ==
  /\ con[c].stage = "notified" /\ Idle(con[c].thr) /\ con[c].closed
  /\ Recycle(c)
  /\ UNCHANGED <<nextId, session, accepting, busy, ops, now, crashed, collided, pass, plan, msgs, dropped>>

\* The loop of handle_read: while m_buf.size() && m_buf.size() >= m_noti_len
MorePacks(c) == Buffered(c) # <<>> /\ Len(Buffered(c)) >= con[c].noti

ReadDone(c) ==
  /\ busy[con[c].thr] = c /\ ~MorePacks(c)
  /\ busy' = [busy EXCEPT ![con[c].thr] = NoCon]
  /\ UNCHANGED <<con, nextId, session, group, accepting, timers, ops, now, crashed, collided, pass, plan, msgs, dropped>>

\* handle_pack failed: the loop leaves handle_read and recycles the connection
FailPack(c) ==
  /\ Recycle(c)
  /\ busy' = [busy EXCEPT ![con[c].thr] = NoCon]
  /\ UNCHANGED ops

\* handle_pack sets m_last_time (of a client); r is the connection after it
PackIs(c, r) ==
  /\ con' = [con EXCEPT ![c] = [r EXCEPT !.last = IF c \in Clients THEN now ELSE @]]
  /\ UNCHANGED <<busy, timers>>

\* A header of which only a part is there is peeked at all the same, the rest
\* of it being whatever the stack held: the magic or the length may be wrong,
\* or the length be any other.
SplitHeader(c) ==
  /\ Len(Buffered(c)) = 1
  /\ \/ FailPack(c)
     \/ \E n \in Lens : /\ PackIs(c, [con[c] EXCEPT !.noti = n, !.split = TRUE])
                        /\ UNCHANGED <<group, ops>>

\* The header is there, the message is not: set_notify_pack(len)
WaitForPack(c, m) ==
  /\ Len(Buffered(c)) < m.len
  /\ PackIs(c, [con[c] EXCEPT !.noti = m.len])
  /\ UNCHANGED <<group, ops>>

\* The message is taken from the buffer; set_notify_pack(0) after handle_command
\* Mutant: the notification length stays that of the message.
TakenKeepsLen(r, m) == [r EXCEPT !.taken = @ + m.len, !.handled = Append(@, m)]
Taken(r, m) == [r EXCEPT !.taken = @ + m.len, !.noti = 0, !.handled = Append(@, m)]

\* handle_command of a client: a login enters the session unless it is there;
\* a login and a request (for which there is never a server) are answered
Login(c) == con[c].sess \notin DOMAIN group
Answered(m) == m.cmd \in {"CLIENT_LOGIN_REQ", "CLIENT_REQ_REQ"}

HandleClient(c, m) ==
  /\ c \in Clients
  /\ \/ /\ PackIs(c, Taken(con[c], m))
        /\ group' = IF m.cmd = "CLIENT_LOGIN_REQ" /\ Login(c)
                    THEN [s \in DOMAIN group \cup {con[c].sess} |->
                            IF s = con[c].sess THEN c ELSE group[s]]
                    ELSE group
        /\ UNCHANGED ops
     \/ Answered(m) /\ con[c].closed /\ FailPack(c)   \* send fails

\* handle_command of a server; send_to posts the answer to the client's thread
HandleServer(c, m) ==
  /\ c \in Servers
  /\ IF m.cmd = "other" THEN FailPack(c)
     ELSE /\ PackIs(c, Taken(con[c], m))
          /\ UNCHANGED group
          /\ ops' = IF m.cmd = "CLIENT_REQ_RSP" /\ m.sessid \in DOMAIN group
                    THEN LET cli == group[m.sessid]
                         IN  [ops EXCEPT ![con[cli].thr] = Append(@, [id |-> 0, for |-> cli])]
                    ELSE ops

First(c) == Buffered(c)[1]
Message(c) == con[c].sent[First(c)[1]]

\* After a loss a part of a header may be followed by what arrived later, which
\* may be taken for any length and command.
Torn(c) == Buffered(c)[2] # <<First(c)[1], 2>>
Garbled(c) == {[m EXCEPT !.len = n] : m \in {x \in ClientCmds : c \in Clients}
                                        \cup {x \in ServerCmds : c \in Servers /\ x.cmd # "bad"},
                                      n \in Lens}
Shown(c) == IF Torn(c) THEN Garbled(c) ELSE {Message(c)}

BadMagic(c) == First(c)[2] # 1 \/ Message(c).cmd = "bad"

HandlePack(c) ==
  /\ busy[con[c].thr] = c /\ MorePacks(c)
  /\ \/ Len(Buffered(c)) = 1 /\ SplitHeader(c)
     \/ Len(Buffered(c)) > 1 /\ BadMagic(c) /\ FailPack(c)
     \/ Len(Buffered(c)) > 1 /\ Torn(c) /\ FailPack(c)
     \/ /\ Len(Buffered(c)) > 1 /\ ~BadMagic(c)
        /\ \E m \in Shown(c) :
             \/ WaitForPack(c, m)
             \/ Len(Buffered(c)) >= m.len /\ (HandleClient(c, m) \/ HandleServer(c, m))
  /\ UNCHANGED <<nextId, session, accepting, now, crashed, collided, pass, plan, msgs, dropped>>

-----------------------------------------------------------------------------
(* What else a thread does between two waits.                              *)

\* process_op: do_send_message to the connection the id names
ProcessOp(t) ==
  /\ Idle(t) /\ ops[t] # <<>>
  /\ LET op == ops[t][1]
     IN  dropped' = IF get_connection(t, op.id) = {} /\ Alive(op.for)
                    THEN dropped \cup {op.for} ELSE dropped
  /\ ops' = [ops EXCEPT ![t] = Tail(@)]
  /\ UNCHANGED <<con, nextId, session, group, accepting, busy, timers, now, crashed, collided, pass, plan, msgs>>

Due(t) == {k \in DOMAIN timers[t] : k[1] <= now}
Earliest(t, k) == k \in Due(t) /\ \A j \in Due(t) : k[1] < j[1] \/ (k[1] = j[1] /\ k[2] <= j[2])

\* One pass of process_timer handles no more; then epoll_wait has 2 seconds,
\* since no later timer was looked at.
FullPass(t) == Cardinality(pass[t].done) >= TimerMax

\* process_timer calls handle_timer of the connection of an expired timer
\* Mutant: a client that never sent is not closed, another a period late.
TooLongNever(c) == con[c].last # 0 /\ now - con[c].last > 2 * Period
TooLong(c) == now - con[c].last > Period

HandleTimer(t, us) ==
  /\ Idle(t) /\ ~FullPass(t)
  /\ \E k \in DOMAIN timers[t] :
       LET c == timers[t][k]
       IN  /\ Earliest(t, k)
           /\ \/ ~Alive(c) /\ crashed' = TRUE /\ UNCHANGED <<con, timers, group, collided>>
              \/ Alive(c) /\ TooLong(c) /\ Recycle(c) /\ UNCHANGED <<crashed, collided>>
              \/ Alive(c) /\ ~TooLong(c) /\ StartTimer(c, us) /\ UNCHANGED <<crashed, group>>
           /\ pass' = [pass EXCEPT ![t].done = @ \cup {c}]
  /\ UNCHANGED <<nextId, session, accepting, busy, ops, now, plan, msgs, dropped>>

\* epoll_wait returns, and process_timer looks again.
NextPass(t) ==
  /\ Idle(t) /\ FullPass(t)
  /\ pass' = [pass EXCEPT ![t].done = {}, ![t].rest = 0]
  /\ UNCHANGED <<con, nextId, session, group, accepting, busy, timers, ops, now, crashed, collided, plan, msgs, dropped>>

\* A second passes when no thread has anything to do, or only what its pass left.
Resting(t) == FullPass(t) /\ pass[t].rest < WaitMax
Tick ==
  /\ accepting = NoCon /\ now < Start + plan.ticks
  /\ \A t \in NetThreads : Idle(t) /\ ops[t] = <<>> /\ (Due(t) = {} \/ Resting(t))
  /\ now' = now + 1
  /\ pass' = [t \in NetThreads |->
                IF Due(t) = {} THEN NewPass
                ELSE [pass[t] EXCEPT !.rest = @ + 1, !.late = @ + 1]]
  /\ UNCHANGED <<con, nextId, session, group, accepting, busy, timers, ops, crashed, collided, plan, msgs, dropped>>

Next ==
  /\ ~crashed
  /\ \/ \E c \in Conns : Accept(c) \/ PeerCloses(c) \/ ReceiveEnd(c) \/ ReadDone(c) \/ HandlePack(c)
     \/ SetNotify \/ NotiWritten \/ (\E us \in Micros : OnCreateTimer(us)) \/ OnCreateEnds
     \/ \E c \in Clients, m \in ClientCmds : PeerSends(c, m)
     \/ \E c \in Servers, m \in ServerCmds : PeerSends(c, m)
     \/ \E c \in Conns : \E n \in 1..Len(con[c].cells) : Receive(c, n)
     \/ \E t \in NetThreads : ProcessOp(t) \/ NextPass(t) \/ \E us \in Micros : HandleTimer(t, us)
     \/ Tick

Spec == Init /\ [][Next]_vars

-----------------------------------------------------------------------------
(* Properties.                                                             *)

\* A session of the table, and a timer of a thread, belong to a connection that
\* exists, each session to the client that has it: send_to and process_timer
\* never use a deleted connection.  But for the timer of a client that is deleted
\* while start_timer in on_create has put it in the map and not yet in m_timers.
Orphan(c) == con[c].stage = "gone" /\ con[c].at = "added"
SessionsAlive ==
  /\ \A s \in DOMAIN group : Alive(group[s]) /\ con[group[s]].sess = s
  /\ \A t \in NetThreads : \A k \in DOMAIN timers[t] :
       LET c == timers[t][k]
       IN  (Alive(c) /\ con[c].thr = t) \/ Orphan(c)

\* A client is closed two check periods after its last message at the latest, and
\* one after it was made when it sends none: later only by the seconds its thread
\* waited since it last had no timer due, and a thread waits so only when there
\* are more clients than one pass handles.  Not when two timers of a thread got
\* the same key, which may leave a client without any.
Crowded == \E S \in SUBSET Clients : Cardinality(S) = TimerMax + 1
SilentClosed ==
  /\ ~collided =>
       \A c \in Clients \ {accepting} : Alive(c) =>
          /\ con[c].key # <<>>
          /\ now <= pass[con[c].thr].late
                    + (IF con[c].last = 0 THEN con[c].made + Period
                                          ELSE con[c].last + 2 * Period)
  /\ \A t \in NetThreads : pass[t].late > 0 => Crowded

\* The commands handled are the messages the peer sent, in their order and each
\* once; and when the thread is done with an event, all that have arrived
\* completely, unless a header was looked at before all of it was there.  This is
\* so until bytes find no room in the ring, which happens only to a peer that
\* sends more than it holds.
CommandsHandled ==
  \A c \in Conns :
    /\ ~con[c].lost => IsPrefix(con[c].handled, con[c].sent)
    /\ Alive(c) /\ busy[con[c].thr] # c /\ ~con[c].split /\ ~con[c].lost =>
         \A k \in DOMAIN con[c].sent :
           (\E i \in 1..con[c].rcvd : con[c].cells[i] = <<k, con[c].sent[k].len>>)
             => k <= Len(con[c].handled)
    /\ con[c].lost => RingCap < con[c].count

\* Without these exceptions, which do not hold: a timer leads to what exists, a
\* client has its timer, and nothing that arrives is lost.
TimersAlive == \A t \in NetThreads : \A k \in DOMAIN timers[t] : Alive(timers[t][k])
TimerKept ==
  \A c \in Clients \ {accepting} : Alive(c) =>
     \E k \in DOMAIN timers[con[c].thr] : timers[con[c].thr][k] = c
NothingLost == \A c \in Conns : ~con[c].lost

\* The answer of a server to a client that is logged in reaches it.
AnswersDelivered == dropped = {}
=============================================================================
