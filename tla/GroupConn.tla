----------------------------- MODULE GroupConn -----------------------------
(***************************************************************************)
(* A client's connection to group_db (group::g_connection) in front of the *)
(* queue and the workers of GroupDb: the bytes a client sends arrive in    *)
(* pieces; the first is an HTTP head, which is kept and put in front of    *)
(* every request that follows; each whole request is pushed, which is a    *)
(* NetPacket of GroupDb.  What arrives goes through a ring of RingCap      *)
(* bytes, and what finds no room in it is lost.  A timer closes a          *)
(* connection on which nothing was looked at for more than Period seconds. *)
(*                                                                         *)
(* A piece of a stream is cut in cells: a head has 2, of which the last is *)
(* its empty line; a request a header of HeaderLen cells and a body.       *)
(***************************************************************************)
EXTENDS GroupDb, Integers, SequencesExt

CONSTANTS Clients,   \* bounds of a run: [stream |-> the pieces a client sends,
                     \*                   ticks |-> the seconds that pass]
          RingCap,   \* 8192: m_cap of the connection's loop_buf
          PeekMax,   \* 4096: what handle_pack peeks at to find the head
          Period,    \* 5 seconds: of CHECK_TIMER and of silence allowed
          Start      \* time(NULL) when the program starts

\* time(NULL) counts the seconds since 1970.
ASSUME ConnAssumption ==
    /\ RingCap \in Nat /\ PeekMax \in Nat /\ PeekMax <= RingCap
    /\ Period \in Nat
    /\ Start \in Nat /\ Start > Period

VARIABLES client,    \* the client of this run
          conn,      \* the g_connection
          now,
          pushed,    \* history: the messages accepted, as cells
          lost       \* history: cells found no room in the ring

connVars == <<client, conn, now, pushed, lost>>

HEAD == [kind |-> "head", len |-> 2]
TEXT(n) == [kind |-> "text", len |-> n]     \* no empty line, no magic and no 0
REQ(n) == [kind |-> "req", len |-> n]       \* a length has a 0; a body, no magic
BAD == [kind |-> "bad", len |-> 2]          \* a header with a wrong magic or length
HeaderLen == 2
Lens == {HeaderLen, 9}                      \* lengths a header may show that is not whole

\* Pieces are not empty, and a request has a whole header.
Pieces == [kind : {"head", "text", "req", "bad"}, len : Nat \ {0}]
ASSUME ClientsAssumption ==
    \A c \in Clients :
        /\ c.stream \in Seq(Pieces)
        /\ \A k \in DOMAIN c.stream : c.stream[k].kind = "req" => c.stream[k].len >= HeaderLen

stream == client.stream
CellsOf(k) == [i \in 1..stream[k].len |-> <<k, i>>]
Cells == FlattenSeq([k \in DOMAIN stream |-> CellsOf(k)])

\* g_connection::g_connection; split and made are history.
NewConn == [state |-> "none", got |-> 0, buf |-> <<>>, noti |-> 0, head |-> <<>>,
            reading |-> FALSE, last |-> 0, due |-> 0, split |-> FALSE, made |-> 0]
ClosedConn == [NewConn EXCEPT !.state = "closed"]

ConnInit == /\ client \in Clients
            /\ conn = NewConn
            /\ now = Start
            /\ pushed = <<>>
            /\ lost = FALSE

Buffered == conn.buf
Behind(n) == SubSeq(Buffered, n + 1, Len(Buffered))

InEvents == netpc = "events" /\ conn.state = "open"
Idle == ~conn.reading

-----------------------------------------------------------------------------
(* Events of the connection, inside a batch of the network thread          *)

\* on_create, from the acceptor's event
OnCreate ==
    /\ netpc = "events" /\ conn.state = "none"
    /\ conn' = [conn EXCEPT !.state = "open", !.due = now + Period, !.made = now]
    /\ UNCHANGED <<vars, client, now, pushed, lost>>

\* resize leaves m_cap as it is, and write drops what does not fit.
Room == RingCap - Len(Buffered)
Fitting(n) == IF n <= Room THEN n ELSE Room

\* handle_read: n more cells have arrived.
Receive(n) ==
    /\ InEvents /\ Idle
    /\ conn.got + n <= Len(Cells)
    /\ conn' = [conn EXCEPT !.got = @ + n, !.reading = TRUE,
                            !.buf = @ \o SubSeq(Cells, conn.got + 1, conn.got + Fitting(n))]
    /\ lost' = (lost \/ Fitting(n) < n)
    /\ UNCHANGED <<vars, client, now, pushed>>

\* The client has closed; what came with the end of the stream is dropped.
ReceiveEnd ==
    /\ InEvents /\ Idle
    /\ conn' = ClosedConn
    /\ UNCHANGED <<vars, client, now, pushed, lost>>

\* while(m_buf.size() && m_buf.size() >= m_noti_len)
MorePacks == Buffered # <<>> /\ Len(Buffered) >= conn.noti

ReadDone ==
    /\ InEvents /\ conn.reading /\ ~MorePacks
    /\ conn' = [conn EXCEPT !.reading = FALSE]
    /\ UNCHANGED <<vars, client, now, pushed, lost>>

-----------------------------------------------------------------------------
(* g_connection::handle_pack                                               *)

\* strstr: the first empty line behind what has no 0 in it, which is text.
EndsHead(c) == stream[c[1]].kind = "head" /\ c[2] = stream[c[1]].len
Legible(c) == stream[c[1]].kind \in {"head", "text"}
EmptyLineAt(i) ==
    /\ i \in DOMAIN Buffered /\ EndsHead(Buffered[i])
    /\ \A j \in 1..(i - 1) : Legible(Buffered[j]) /\ ~EndsHead(Buffered[j])

\* Looking for the head.  PeekMax cells or more are refused, also when the head
\* is among them.
FindHead(c) ==
    IF Len(Buffered) >= PeekMax THEN {ClosedConn}
    ELSE IF \E i \in DOMAIN Buffered : EmptyLineAt(i)
         THEN {[c EXCEPT !.head = SubSeq(Buffered, 1, i), !.buf = Behind(i), !.noti = HeaderLen] :
                  i \in {j \in DOMAIN Buffered : EmptyLineAt(j)}}
    ELSE {[c EXCEPT !.noti = Len(Buffered) + 1]}

First == Buffered[1]
Piece == stream[First[1]]

Magic == First[2] = 1 /\ Piece.kind = "req"

\* A header is looked at also when only a part of it is there, the rest being
\* what the stack holds, or, after a loss, what arrived in its place.
HeaderSplit == Len(Buffered) < HeaderLen
HeaderTorn == ~HeaderSplit /\ Magic /\ Buffered[2] # <<First[1], 2>>
HeaderWhole == ~HeaderSplit /\ Magic /\ ~HeaderTorn

\* The lengths it may show that are let pass.
LenShown == IF HeaderWhole THEN {Piece.len}
            ELSE IF HeaderSplit \/ HeaderTorn THEN Lens
            ELSE {}

\* The connection after a header that is not followed by its whole request.
NoRequest(c) ==
    (IF HeaderWhole THEN {} ELSE {ClosedConn})
    \cup {[c EXCEPT !.noti = n, !.split = @ \/ HeaderSplit] :
             n \in {m \in LenShown : Len(Buffered) < m}}

\* m_last_time is set by every look.
Looked == [conn EXCEPT !.last = now]

LookAgain ==
    /\ InEvents /\ conn.reading /\ MorePacks
    /\ conn' \in (IF conn.head = <<>> THEN FindHead(Looked) ELSE NoRequest(Looked))
    /\ UNCHANGED <<vars, client, now, pushed, lost>>

\* The n cells of a request are read and set_notify_pack(0)
\* Mutant: the notification length stays that of the last request.
TakenKeepsNoti(c, n) == [c EXCEPT !.buf = Behind(n)]
Taken(c, n) == [c EXCEPT !.buf = Behind(n), !.noti = 0]

\* ... and pushed with the head in front; a full queue closes the connection.
PushRequest ==
    /\ conn.reading /\ MorePacks /\ conn.head # <<>>
    /\ \E n \in LenShown :
          /\ n <= Len(Buffered)
          /\ NetPacket
          /\ IF accepted' # accepted
             THEN /\ conn' = Taken(Looked, n)
                  /\ pushed' = Append(pushed, conn.head \o SubSeq(Buffered, 1, n))
             ELSE conn' = ClosedConn /\ UNCHANGED pushed
    /\ UNCHANGED <<client, now, lost>>

-----------------------------------------------------------------------------
(* g_connection::handle_timer, between the operations and the events       *)

\* Mutant: a connection that never sent is left alone.
SilentOnceHeard == conn.last # 0 /\ now - conn.last > Period
Silent == now - conn.last > Period

HandleTimer ==
    /\ netpc = "ops" /\ m_ops = <<>>
    /\ conn.state = "open" /\ conn.due <= now
    /\ conn' = IF Silent THEN ClosedConn ELSE [conn EXCEPT !.due = now + Period]
    /\ UNCHANGED <<vars, client, now, pushed, lost>>

\* A second passes while the network thread waits in epoll_wait.
Tick ==
    /\ netpc = "events" /\ Idle
    /\ conn.state = "open" /\ conn.due > now
    /\ now < Start + client.ticks
    /\ now' = now + 1
    /\ UNCHANGED <<vars, client, conn, pushed, lost>>

ConnStep == OnCreate \/ ReadDone \/ LookAgain \/ PushRequest \/ HandleTimer

ClientStep == ReceiveEnd \/ \E n \in 1..Len(Cells) : Receive(n)

-----------------------------------------------------------------------------
(* Properties                                                              *)

\* The piece that brings the empty line of the head: the first that is not
\* text.  The requests of the client are those behind it.
Opening == {h \in DOMAIN stream : /\ stream[h].kind = "head"
                                  /\ \A j \in 1..(h - 1) : stream[j].kind = "text"}
Requests == {k \in DOMAIN stream : stream[k].kind = "req" /\ \E h \in Opening : h < k}
Earlier(k) == {r \in Requests : r < k}

\* The first n cells end with the k-th piece.
EndsAt(n, k) == n \in 1..Len(Cells) /\ Cells[n] = <<k, stream[k].len>>

\* processor.cpp asserts hd->len == rq.size() - (body - rq.data() + 4) of every
\* message it takes: in whatever pieces the stream arrives, the messages are
\* the client's requests in their order, each once and whole behind all that
\* came up to the empty line; and when the thread is done with an event every
\* request that has arrived was pushed, unless a header was looked at before
\* all of it was there.  This is so until bytes find no room in the ring, which
\* happens only to a client that sends more than it holds.
RequestsWhole ==
    /\ ~lost => \A i \in DOMAIN pushed : \E k \in Requests :
          /\ Cardinality(Earlier(k)) = i - 1
          /\ \E h \in Opening, n \in 1..Len(Cells) :
                EndsAt(n, h) /\ pushed[i] = SubSeq(Cells, 1, n) \o CellsOf(k)
    /\ conn.state = "open" /\ Idle /\ ~conn.split /\ ~lost =>
         \A k \in Requests :
            (\E n \in 1..conn.got : EndsAt(n, k)) => Cardinality(Earlier(k)) < Len(pushed)
    /\ lost => RingCap < Len(Cells)

\* A connection is closed at most two periods after the last look at what its
\* client sent, one after it was made when the client sends nothing.
SilentClosed ==
    conn.state = "open" =>
        now <= (IF conn.last = 0 THEN conn.made + Period ELSE conn.last + 2 * Period)
=============================================================================
