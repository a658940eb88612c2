------------------------------- MODULE SockIo -------------------------------
(***************************************************************************)
(* The blocking calls of ef_sock.cpp on one connection: a sender that      *)
(* connects and calls tcp_send, a receiver that calls tcp_receive,         *)
(* tcp_nb_receive and sock_read_ready, and the buffer of the kernel        *)
(* between them.  A call is a record that goes from "io" (send or recv)    *)
(* over "check" (the clock) to "wait" (epoll_wait or select) and back,     *)
(* until it is "done"; signals, faults of epoll and the end of either      *)
(* side may come at any point.  Bytes are numbered in the order the        *)
(* caller hands them over.  The clock counts halves of a millisecond.      *)
(***************************************************************************)
EXTENDS Integers, Sequences, SequencesExt, FiniteSetsExt

CONSTANTS
  Total,      \* bytes the sender has to send, over all its calls
  Sizes,      \* the lengths calls are made with
  Room,       \* bytes the kernel buffers
  Waits,      \* the values of waitms
  SecMs,      \* milliseconds in a second
  MaxTime,    \* bound on the clock
  MaxFaults   \* bound on failures of epoll_create, epoll_ctl and epoll_wait

ASSUME SockAssumption == /\ Total \in Nat /\ Room \in Nat /\ SecMs \in Nat \ {0}
                         /\ Sizes \subseteq Int /\ Waits \subseteq Int

VARIABLES
  sock,       \* the sender's socket: none, connecting, refused, open, closed
  nonblock,   \* the sender's socket is nonblocking
  listening,  \* tcp_server_create succeeded
  peer,       \* the receiver's socket: none, open, closed
  wire,       \* what the kernel holds for the receiver
  now,
  S, R,       \* the call of the sender and of the receiver
  sent,       \* bytes the calls of the sender reported as sent
  rbuf,       \* the buffer of the receiver's call
  got,        \* what the receiver has taken from its buffers
  faults

sockVars == <<sock, nonblock, listening, peer, wire, now, S, R, sent, rbuf, got, faults>>

Forever == -1   \* restms when waitms <= 0

Idle == [op |-> "none", at |-> "done", n |-> 0, rest |-> 0, pos |-> 0, act |-> 0,
         wait |-> 0, start |-> 0, until |-> 0, ep |-> FALSE, ret |-> 0]
Started(op, n, w) == [Idle EXCEPT !.op = op, !.at = "io", !.n = n, !.rest = n, !.wait = w, !.start = now]
Refused(op, n) == [Idle EXCEPT !.op = op, !.n = n, !.ret = -1]

\* gettimeofday, and the milliseconds between two readings
TimeOfDay(t) == [sec |-> t \div (2 * SecMs), half |-> t % (2 * SecMs)]
CastMs(t0, t1) ==
  LET usval == TimeOfDay(t1).half - TimeOfDay(t0).half
      sval == TimeOfDay(t1).sec - TimeOfDay(t0).sec
  IN  IF usval < 0 THEN ((sval - 1) * SecMs) + ((usval + (2 * SecMs)) \div 2)
      ELSE (sval * SecMs) + (usval \div 2)

\* Mutant: every wait gets the whole of waitms.
RestMsWhole(c) == IF c.wait > 0 THEN c.wait ELSE Forever
\* What is left of waitms, taken anew for every wait
RestMs(c) == IF c.wait > 0 THEN c.wait - CastMs(c.start, now) ELSE Forever
Due(c) == c.wait > 0 /\ RestMs(c) <= 0

\* The end of a call: the epoll descriptor is closed; all done or not decides
\* what is returned.
Closed(c) == [c EXCEPT !.at = "done", !.ep = FALSE, !.start = 0, !.until = 0, !.pos = 0, !.wait = 0]
Returns(c, r) == [Closed(c) EXCEPT !.ret = IF c.rest # 0 THEN r ELSE c.n]
Waiting(c) == [c EXCEPT !.at = "wait", !.ep = TRUE,
                        !.until = IF RestMs(c) = Forever THEN Forever ELSE now + (2 * RestMs(c))]
TimedOut(c) == c.until # Forever /\ now >= c.until
\* Mutant: the buffer pointer stays where it was.
MovedNoPos(c, k) == [c EXCEPT !.rest = @ - k, !.act = @ + k]
Moved(c, k) == [c EXCEPT !.rest = @ - k, !.pos = @ + k, !.act = @ + k]

SocketInit ==
  /\ sock = "none" /\ nonblock = FALSE /\ listening = FALSE /\ peer = "none"
  /\ wire = <<>> /\ now = 0 /\ S = Idle /\ R = Idle
  /\ sent = 0 /\ rbuf = <<>> /\ got = <<>> /\ faults = 0

-----------------------------------------------------------------------------
(* Setting up.                                                             *)

\* tcp_server_create: socket, bind and listen
Listen == /\ ~listening /\ listening' = TRUE
          /\ UNCHANGED <<sock, nonblock, peer, wire, now, S, R, sent, rbuf, got, faults>>

\* socket, setsockopt, connect; one that fails at once closes the descriptor
\* again and leaves everything as it was
Connecting(nb, state) ==
  /\ sock = "none" /\ sock' = state /\ nonblock' = nb
  /\ peer' = IF state = "open" THEN "open" ELSE "none"
  /\ UNCHANGED <<listening, wire, now, S, R, sent, rbuf, got, faults>>

\* tcp_connect returns when the connection is there
TcpConnect == listening /\ Connecting(FALSE, "open")

\* tcp_nb_connect and tcp_nb_connect2 may return before, and say 0 in both cases
TcpNbConnect == \/ listening /\ Connecting(TRUE, "open")
                \/ Connecting(TRUE, "connecting")

\* The network answers a connect under way
Answer == /\ sock = "connecting"
          /\ \/ listening /\ sock' = "open" /\ peer' = "open"
             \/ ~listening /\ sock' = "refused" /\ UNCHANGED peer
          /\ UNCHANGED <<nonblock, listening, wire, now, S, R, sent, rbuf, got, faults>>

\* Either side closes between two calls
SenderCloses == /\ sock = "open" /\ S.at = "done" /\ sock' = "closed"
                /\ UNCHANGED <<nonblock, listening, peer, wire, now, S, R, sent, rbuf, got, faults>>
ReceiverCloses == /\ peer = "open" /\ R.at = "done" /\ peer' = "closed"
                  /\ UNCHANGED <<sock, nonblock, listening, wire, now, S, R, sent, rbuf, got, faults>>

Tick == /\ now < MaxTime /\ now' = now + 1
        /\ UNCHANGED <<sock, nonblock, listening, peer, wire, S, R, sent, rbuf, got, faults>>

-----------------------------------------------------------------------------
(* tcp_send.                                                               *)

sendUnchanged == <<sock, nonblock, listening, peer, wire, now, R, rbuf, got>>
S_Done(c) == S' = c /\ sent' = sent + c.act

\* The arguments are tested, and the clock read if there is a limit
SendCall(n, w) ==
  /\ S.at = "done" /\ sock # "none" /\ sock # "closed" /\ sent < Total
  /\ S' = IF n <= 0 THEN Refused("send", n) ELSE Started("send", n, w)
  /\ UNCHANGED <<sent, faults>> /\ UNCHANGED sendUnchanged

\* send takes k bytes: at the last one the call is over
SendSome(k) ==
  /\ S.at = "io" /\ sock = "open" /\ k <= S.rest /\ Len(wire) + k <= Room
  /\ wire' = wire \o [i \in 1..k |-> sent + S.pos + i]
  /\ LET c == Moved(S, k)
     IN IF c.rest = 0 THEN S_Done(Returns(c, 0)) ELSE S' = c /\ UNCHANGED sent
  /\ UNCHANGED <<sock, nonblock, listening, peer, now, R, rbuf, got, faults>>

\* EAGAIN, of a nonblocking socket that has no room or is not connected yet;
\* a blocking one waits inside send.  EINTR calls send again at once.
SendAgain ==
  /\ S.at = "io" /\ nonblock
  /\ sock = "connecting" \/ (sock = "open" /\ peer = "open" /\ Len(wire) = Room)
  /\ S' = [S EXCEPT !.at = "check"]
  /\ UNCHANGED <<sent, faults>> /\ UNCHANGED sendUnchanged

\* Any other error: the connection was refused or is gone
SendFails ==
  /\ S.at = "io" /\ (sock = "refused" \/ peer = "closed")
  /\ S_Done(Returns(S, -1))
  /\ UNCHANGED faults /\ UNCHANGED sendUnchanged

\* The time is up, or what is left of it is the limit of the next wait
SendCheck ==
  /\ S.at = "check"
  /\ IF Due(S) THEN S_Done(Returns(S, 0)) ELSE S' = Waiting(S) /\ UNCHANGED sent
  /\ UNCHANGED faults /\ UNCHANGED sendUnchanged

Writable == sock = "refused" \/ peer = "closed" \/ (sock = "open" /\ Len(wire) < Room)

\* The wait ends: room, a signal (both go back to send), or the limit
SendWaitEnds ==
  /\ S.at = "wait" /\ S.op = "send"
  /\ \/ S' = [S EXCEPT !.at = "io"] /\ UNCHANGED sent
     \/ ~Writable /\ TimedOut(S) /\ S_Done(Returns(S, 0))
  /\ UNCHANGED faults /\ UNCHANGED sendUnchanged

\* epoll_create or epoll_ctl fails before the first wait, or the wait itself
SendFault ==
  /\ faults < MaxFaults /\ faults' = faults + 1
  /\ S.op = "send" /\ ((S.at = "check" /\ ~S.ep /\ ~Due(S)) \/ S.at = "wait")
  /\ S_Done(Returns(S, -1))
  /\ UNCHANGED sendUnchanged

-----------------------------------------------------------------------------
(* tcp_receive, tcp_nb_receive and sock_read_ready.                        *)

recvUnchanged == <<sock, nonblock, listening, peer, now, S, sent>>
Ended == sock = "closed"
\* The caller takes the bytes the call reports, whatever it returns.
R_Done(c, buf) == R' = c /\ got' = got \o SubSeq(buf, 1, c.act) /\ rbuf' = <<>>
R_Goes(c) == R' = c /\ UNCHANGED <<got, rbuf>>

RecvCall(op, n, w) ==
  /\ R.at = "done" /\ peer = "open"
  /\ R' = IF n <= 0 THEN Refused(op, n) ELSE Started(op, n, w)
  /\ rbuf' = [i \in 1..n |-> 0]
  /\ UNCHANGED <<wire, got, faults>> /\ UNCHANGED recvUnchanged

\* tcp_nb_receive reads what is there
NbCall(n) == RecvCall("nb", n, 0)

\* recv delivers k bytes to where the pointer stands
Filled(k) == [i \in DOMAIN rbuf |-> IF i \in (R.pos + 1)..(R.pos + k) THEN wire[i - R.pos] ELSE rbuf[i]]
RecvSome(k) ==
  /\ R.at = "io" /\ k <= R.rest /\ k <= Len(wire)
  /\ wire' = SubSeq(wire, k + 1, Len(wire))
  /\ LET c == Moved(R, k)
     IN IF c.rest = 0 THEN R_Done(Returns(c, 0), Filled(k)) ELSE R' = c /\ rbuf' = Filled(k) /\ UNCHANGED got
  /\ UNCHANGED faults /\ UNCHANGED recvUnchanged

\* Mutant: the end of the stream is taken for nothing to read yet.
RecvEndAgain ==
  /\ R.at = "io" /\ wire = <<>> /\ Ended
  /\ R_Goes([R EXCEPT !.at = "check"])
  /\ UNCHANGED <<wire, faults>> /\ UNCHANGED recvUnchanged

\* recv returns 0, the end of the stream
RecvEnd ==
  /\ R.at = "io" /\ wire = <<>> /\ Ended
  /\ R_Done(Returns(R, -1), rbuf)
  /\ UNCHANGED <<wire, faults>> /\ UNCHANGED recvUnchanged
\* EAGAIN: the socket was made nonblocking.  A signal is treated like it.
RecvAgain ==
  /\ R.at = "io" /\ R.op = "receive" /\ wire = <<>> /\ ~Ended /\ R_Goes([R EXCEPT !.at = "check"])
  /\ UNCHANGED <<wire, faults>> /\ UNCHANGED recvUnchanged

\* tcp_nb_receive returns what it has when there is no more
NbAgain ==
  /\ R.at = "io" /\ R.op = "nb" /\ wire = <<>> /\ ~Ended
  /\ R_Done(Returns(R, R.act), rbuf)
  /\ UNCHANGED <<wire, faults>> /\ UNCHANGED recvUnchanged

RecvCheck ==
  /\ R.at = "check"
  /\ IF Due(R) THEN R_Done(Returns(R, 0), rbuf) ELSE R_Goes(Waiting(R))
  /\ UNCHANGED <<wire, faults>> /\ UNCHANGED recvUnchanged

Readable == wire # <<>> \/ Ended

RecvWaitEnds ==
  /\ R.at = "wait" /\ R.op = "receive"
  /\ \/ R_Goes([R EXCEPT !.at = "io"])
     \/ ~Readable /\ TimedOut(R) /\ R_Done(Returns(R, 0), rbuf)
  /\ UNCHANGED <<wire, faults>> /\ UNCHANGED recvUnchanged

RecvFault ==
  /\ faults < MaxFaults /\ faults' = faults + 1
  /\ R.op = "receive" /\ ((R.at = "check" /\ ~R.ep /\ ~Due(R)) \/ R.at = "wait")
  /\ R_Done(Returns(R, -1), rbuf)
  /\ UNCHANGED <<wire>> /\ UNCHANGED recvUnchanged

-----------------------------------------------------------------------------
(* sock_read_ready and sock_write_ready: one wait, 1 or 0.                 *)

Polling(op, ms) == [Idle EXCEPT !.op = op, !.at = "wait", !.wait = ms, !.ep = TRUE, !.start = now,
                                !.until = IF ms < 0 THEN Forever ELSE now + (2 * ms)]
Answers(c, r) == [Closed(c) EXCEPT !.ret = r]

ReadReady(ms) ==
  /\ R.at = "done" /\ peer = "open" /\ R' = Polling("read_ready", ms)
  /\ UNCHANGED <<rbuf, got, wire, faults>> /\ UNCHANGED recvUnchanged
WriteReady(ms) ==
  /\ S.at = "done" /\ sock \notin {"none", "closed"} /\ S' = Polling("write_ready", ms)
  /\ UNCHANGED <<sent, faults>> /\ UNCHANGED sendUnchanged

\* 0 also for a signal, and when there is no descriptor for epoll
ReadReadyEnds ==
  /\ R.at = "wait" /\ R.op = "read_ready"
  /\ \/ Readable /\ R' = Answers(R, 1) /\ UNCHANGED faults
     \/ ~Readable /\ TimedOut(R) /\ R' = Answers(R, 0) /\ UNCHANGED faults
     \/ faults < MaxFaults /\ faults' = faults + 1 /\ R' = Answers(R, 0)
  /\ UNCHANGED <<rbuf, got, wire>> /\ UNCHANGED recvUnchanged
WriteReadyEnds ==
  /\ S.at = "wait" /\ S.op = "write_ready"
  /\ \/ Writable /\ S' = Answers(S, 1) /\ UNCHANGED faults
     \/ ~Writable /\ TimedOut(S) /\ S' = Answers(S, 0) /\ UNCHANGED faults
     \/ faults < MaxFaults /\ faults' = faults + 1 /\ S' = Answers(S, 0)
  /\ UNCHANGED sent /\ UNCHANGED sendUnchanged

-----------------------------------------------------------------------------
InTime(w) == w <= 0 \/ now + (2 * w) + 1 <= MaxTime

SenderStep == \/ \E k \in 1..Room : SendSome(k)
              \/ SendAgain \/ SendFails \/ SendCheck \/ SendWaitEnds \/ WriteReadyEnds
ReceiverStep == \/ \E k \in 1..Room : RecvSome(k)
                \/ RecvEnd \/ RecvAgain \/ NbAgain \/ RecvCheck \/ RecvWaitEnds \/ ReadReadyEnds

Next == \/ Listen \/ TcpConnect \/ TcpNbConnect \/ Answer \/ SenderCloses \/ ReceiverCloses \/ Tick
        \/ \E w \in Waits : /\ InTime(w)
                            /\ \/ \E n \in Sizes : SendCall(Min({n, Total - sent}), w)
                               \/ \E n \in Sizes : RecvCall("receive", n, w)
                               \/ ReadReady(w) \/ WriteReady(w)
        \/ \E n \in Sizes : NbCall(n)
        \/ SenderStep \/ ReceiverStep \/ SendFault \/ RecvFault

Spec == SocketInit /\ [][Next]_sockVars

\* Threads run and time passes; callers, signals and the network are free.
FairSpec == /\ Spec
            /\ WF_sockVars(SenderStep) /\ WF_sockVars(ReceiverStep)
            /\ WF_sockVars(Tick) /\ WF_sockVars(Answer)

-----------------------------------------------------------------------------
(* Properties.                                                             *)

\* What was read, what the running call has read and what the kernel holds are
\* the bytes handed over, each once and in order, however calls were cut short
\* by limits, faults and the end of the other side, provided the callers go on
\* from *actsndnum and *actrcvnum.  A positive result means that all was moved,
\* 0 and -1 that it was not; tcp_nb_receive returns what it moved, or -1; a
\* socket reported as ready is.  No call leaves its epoll descriptor open.
StreamKept ==
  LET onTheWay == got \o SubSeq(rbuf, 1, IF R.at = "done" THEN 0 ELSE R.act) \o wire
      handed == sent + (IF S.at = "done" THEN 0 ELSE S.act)
  IN  /\ onTheWay = [i \in 1..handed |-> i]
      /\ \A c \in {S, R} : c.at = "done" =>
           /\ ~c.ep
           /\ c.op \in {"send", "receive"} /\ c.n > 0 => (c.ret = c.n <=> c.act = c.n) /\ c.ret \in {-1, 0, c.n}
           /\ c.op = "nb" => c.ret \in {-1, c.act}
      /\ S.at = "done" /\ S.op = "write_ready" /\ S.ret = 1 => Writable \/ sock = "closed"
      /\ R.at = "done" /\ R.op = "read_ready" /\ R.ret = 1 => Readable

\* Signals and readiness without data do not lengthen the limit of a call: each
\* wait ends half a millisecond after waitms at the latest, and no call gives
\* up before waitms has passed, also when the second changes in between.
WaitsInTime ==
  \A c \in {S, R} : c.op \in {"send", "receive"} /\ c.wait > 0 =>
    /\ c.at = "wait" => c.until - c.start \in (2 * c.wait)..((2 * c.wait) + 1)
    /\ c.at = "check" => (Due(c) <=> now - c.start >= 2 * c.wait)

\* A call with a limit returns (of tcp_send this needs a nonblocking socket,
\* which it does not see to itself), and so does every read once the other side
\* has closed.
CallsReturn ==
  /\ (S.at # "done" /\ S.wait > 0 /\ nonblock) ~> S.at = "done"
  /\ (R.at # "done" /\ (R.wait > 0 \/ R.op = "nb" \/ Ended)) ~> R.at = "done"
=============================================================================
