------------------------------ MODULE GroupDb ------------------------------
(***************************************************************************)
(* group::group_db (src/xylx): the network thread turns packets into       *)
(* messages and pushes them into an ef::msg_queue (src/efnfw); workers     *)
(* take them out and answer through the network thread's operation queue.  *)
(* stop() stops and joins the network thread, then offers each worker an   *)
(* empty message, the sign to leave, and joins the workers.                *)
(*                                                                         *)
(* As in ep::task_queue the permit is taken outside the lock and the       *)
(* element inside it; here it is also GIVEN outside it.  A message is the  *)
(* number of the packet it came from; 0 is the empty message.              *)
(***************************************************************************)
EXTENDS Naturals, Sequences, FiniteSets

CONSTANTS Workers,     \* the work threads
          MaxMsgSize,  \* msg_queue::m_max_size
          MaxPackets   \* bound of the model: packets received

ASSUME GroupDbAssumption ==
    /\ IsFiniteSet(Workers) /\ Workers # {}
    /\ MaxMsgSize \in Nat /\ MaxPackets \in Nat

VARIABLES
    m_msglist, m_size, m_semp,   \* the msg_queue
    m_run,                       \* net_thread::m_run
    m_ops,                       \* net_thread::m_ops: the answers to be sent
    netpc, wpc, mainpc,          \* where the threads are
    msg,                         \* the message each worker works on
    offered,                     \* stop(): empty messages offered so far
    packets,                     \* packets received
    accepted, processed, sent,   \* history: messages pushed, processed, answers sent
    exits                        \* history: empty messages pushed

queueVars == <<m_msglist, m_size, m_semp>>
history == <<packets, accepted, processed, sent, exits>>
vars == <<queueVars, m_run, m_ops, netpc, wpc, mainpc, msg, offered, history>>

Empty == 0

Init ==
    /\ m_msglist = <<>> /\ m_size = 0 /\ m_semp = 0
    /\ m_run = FALSE
    /\ m_ops = <<>>
    /\ netpc = "none" /\ mainpc = "inited"
    /\ wpc = [w \in Workers |-> "none"]
    /\ msg = [w \in Workers |-> Empty]
    /\ offered = 0
    /\ packets = 0 /\ accepted = {} /\ processed = {} /\ sent = {} /\ exits = 0

-----------------------------------------------------------------------------
(* msg_queue::push_msg, up to be_sem_give *)

\* One more than m_max_size fits.
Push(m) ==
    /\ m_size <= MaxMsgSize
    /\ m_msglist' = Append(m_msglist, m)
    /\ m_size' = m_size + 1

Full == m_size > MaxMsgSize

-----------------------------------------------------------------------------
(* The network thread: net_thread::run, and g_connection::handle_pack *)

NetStart ==
    /\ netpc = "created"
    /\ m_run' = TRUE
    /\ netpc' = "loop"
    /\ UNCHANGED <<queueVars, m_ops, wpc, mainpc, msg, offered, history>>

NetLoop ==
    /\ netpc = "loop"
    /\ netpc' = IF m_run THEN "ops" ELSE "ended"
    /\ UNCHANGED <<queueVars, m_run, m_ops, wpc, mainpc, msg, offered, history>>

\* process_op goes on until there is no operation left.
NetOp ==
    /\ netpc = "ops"
    /\ m_ops # <<>>
    /\ sent' = sent \cup {Head(m_ops)}
    /\ m_ops' = Tail(m_ops)
    /\ UNCHANGED <<queueVars, m_run, netpc, wpc, mainpc, msg, offered, packets, accepted,
                   processed, exits>>
NetOpsDone ==
    /\ netpc = "ops"
    /\ m_ops = <<>>
    /\ netpc' = "events"
    /\ UNCHANGED <<queueVars, m_run, m_ops, wpc, mainpc, msg, offered, history>>

\* A packet is complete and is pushed; a full queue refuses it, and its
\* connection is recycled.
NetPacket ==
    /\ netpc = "events"
    /\ packets < MaxPackets
    /\ packets' = packets + 1
    /\ \/ /\ Push(packets')
          /\ accepted' = accepted \cup {packets'}
          /\ netpc' = "give"
       \/ /\ Full
          /\ UNCHANGED <<m_msglist, m_size, accepted, netpc>>
    /\ UNCHANGED <<m_semp, m_run, m_ops, wpc, mainpc, msg, offered, processed, sent, exits>>

NetGive ==
    /\ netpc = "give"
    /\ m_semp' = m_semp + 1
    /\ netpc' = "events"
    /\ UNCHANGED <<m_msglist, m_size, m_run, m_ops, wpc, mainpc, msg, offered, history>>

\* The control socket's event inside the batch, and the end of the batch.
NetCtl ==
    /\ netpc = "events"
    /\ netpc' \in {"ops", "loop"}
    /\ UNCHANGED <<queueVars, m_run, m_ops, wpc, mainpc, msg, offered, history>>

-----------------------------------------------------------------------------
(* work_thread::run *)

\* be_sem_take in get_msg.
GetTake(w) ==
    /\ wpc[w] = "get"
    /\ m_semp > 0
    /\ m_semp' = m_semp - 1
    /\ wpc' = [wpc EXCEPT ![w] = "permit"]
    /\ UNCHANGED <<m_msglist, m_size, m_run, m_ops, netpc, mainpc, msg, offered, history>>

\* Mutant: front() without pop_front().
GetMsgPeeks(w) ==
    /\ wpc[w] = "permit"
    /\ m_msglist # <<>>
    /\ m_size' = m_size - 1
    /\ msg' = [msg EXCEPT ![w] = Head(m_msglist)]
    /\ wpc' = [wpc EXCEPT ![w] = IF msg'[w] = Empty THEN "ended" ELSE "have"]
    /\ UNCHANGED <<m_msglist, m_semp, m_run, m_ops, netpc, mainpc, offered, history>>

\* The rest of get_msg under m_cs, after assert(m_size > 0), which is
\* PermitFindsMessage; an empty message ends the worker.
GetMsg(w) ==
    /\ wpc[w] = "permit"
    /\ m_msglist # <<>>
    /\ m_msglist' = Tail(m_msglist)
    /\ m_size' = m_size - 1
    /\ msg' = [msg EXCEPT ![w] = Head(m_msglist)]
    /\ wpc' = [wpc EXCEPT ![w] = IF msg'[w] = Empty THEN "ended" ELSE "have"]
    /\ UNCHANGED <<m_semp, m_run, m_ops, netpc, mainpc, offered, history>>

\* process, and respone: the answer is queued for the network thread.
Process(w) ==
    /\ wpc[w] = "have"
    /\ processed' = processed \cup {msg[w]}
    /\ m_ops' = Append(m_ops, msg[w])
    /\ wpc' = [wpc EXCEPT ![w] = "get"]
    /\ msg' = [msg EXCEPT ![w] = Empty]
    /\ UNCHANGED <<queueVars, m_run, netpc, mainpc, offered, packets, accepted, sent, exits>>

-----------------------------------------------------------------------------
(* group_db::run and stop *)

Run ==
    /\ mainpc = "inited"
    /\ netpc' = "created"
    /\ wpc' = [w \in Workers |-> "get"]
    /\ mainpc' = "running"
    /\ UNCHANGED <<queueVars, m_run, m_ops, msg, offered, history>>

StopNet ==
    /\ mainpc = "running"
    /\ m_run' = FALSE
    /\ mainpc' = "join_net"
    /\ UNCHANGED <<queueVars, m_ops, netpc, wpc, msg, offered, history>>

\* Mutant: the empty messages are pushed while the network thread still runs.
JoinNetNot ==
    /\ mainpc = "join_net"
    /\ mainpc' = "offer"
    /\ UNCHANGED <<queueVars, m_run, m_ops, netpc, wpc, msg, offered, history>>

JoinNet ==
    /\ mainpc = "join_net"
    /\ netpc = "ended"
    /\ mainpc' = "offer"
    /\ UNCHANGED <<queueVars, m_run, m_ops, netpc, wpc, msg, offered, history>>

\* One for each worker.
OfferBound == Cardinality(Workers)

\* push_msg of an empty message, whose refusal is not looked at.
OfferEmpty ==
    /\ mainpc = "offer"
    /\ offered < OfferBound
    /\ offered' = offered + 1
    /\ \/ /\ Push(Empty)
          /\ exits' = exits + 1
          /\ mainpc' = "give"
       \/ /\ Full
          /\ UNCHANGED <<m_msglist, m_size, exits, mainpc>>
    /\ UNCHANGED <<m_semp, m_run, m_ops, netpc, wpc, msg, packets, accepted, processed, sent>>

OfferGive ==
    /\ mainpc = "give"
    /\ m_semp' = m_semp + 1
    /\ mainpc' = "offer"
    /\ UNCHANGED <<m_msglist, m_size, m_run, m_ops, netpc, wpc, msg, offered, history>>

OfferDone ==
    /\ mainpc = "offer"
    /\ offered = OfferBound
    /\ mainpc' = "join"
    /\ UNCHANGED <<queueVars, m_run, m_ops, netpc, wpc, msg, offered, history>>

\* Mutant: the workers are not waited for.
JoinWorkersNot ==
    /\ mainpc = "join"
    /\ mainpc' = "stopped"
    /\ UNCHANGED <<queueVars, m_run, m_ops, netpc, wpc, msg, offered, history>>

\* The joins, in order, return when the last worker has ended.
JoinWorkers ==
    /\ mainpc = "join"
    /\ \A w \in Workers : wpc[w] = "ended"
    /\ mainpc' = "stopped"
    /\ UNCHANGED <<queueVars, m_run, m_ops, netpc, wpc, msg, offered, history>>

NetStep == \/ NetStart \/ NetLoop \/ NetOp \/ NetOpsDone \/ NetPacket \/ NetGive \/ NetCtl
WorkerStep(w) == GetTake(w) \/ GetMsg(w) \/ Process(w)
StopStep == JoinNet \/ OfferEmpty \/ OfferGive \/ OfferDone \/ JoinWorkers

Next == \/ NetStep
        \/ \E w \in Workers : WorkerStep(w)
        \/ Run \/ StopNet
        \/ StopStep

Spec == Init /\ [][Next]_vars

\* Threads that are not blocked go on, and epoll_wait returns; nobody has to
\* send a packet or to stop.
FairSpec == /\ Spec
            /\ WF_vars(NetStep)
            /\ \A w \in Workers : WF_vars(WorkerStep(w))
            /\ WF_vars(StopStep)

-----------------------------------------------------------------------------
(* Properties *)

Message == 0..MaxPackets

TypeOK ==
    /\ m_msglist \in Seq(Message)
    /\ m_size \in 0..(MaxMsgSize + 1)
    /\ m_semp \in Nat
    /\ m_run \in BOOLEAN
    /\ m_ops \in Seq(Message)
    /\ netpc \in {"none", "created", "loop", "ops", "events", "give", "ended"}
    /\ wpc \in [Workers -> {"none", "get", "permit", "have", "ended"}]
    /\ mainpc \in {"inited", "running", "join_net", "offer", "give", "join", "stopped"}
    /\ msg \in [Workers -> Message]
    /\ offered \in 0..Cardinality(Workers)
    /\ packets \in 0..MaxPackets
    /\ accepted \subseteq Message /\ processed \subseteq Message /\ sent \subseteq Message
    /\ exits \in 0..offered

\* assert(m_size > 0) in get_msg, tested without the lock: whoever has a
\* permit finds a message, also with others between their permits and the
\* lock and with pushes between the lock and their permit.
PermitFindsMessage ==
    \A w \in Workers : wpc[w] = "permit" => m_size > 0 /\ m_msglist # <<>>

\* No worker leaves while an accepted message is still queued: the network
\* thread is joined before the first empty message is pushed, and the queue is
\* first in, first out.
NothingLeftBehind ==
    (\E w \in Workers : wpc[w] = "ended") => \A i \in DOMAIN m_msglist : m_msglist[i] = Empty

\* When stop() returns every message accepted has been processed.
StoppedAfterWork == mainpc = "stopped" => processed = accepted

-----------------------------------------------------------------------------
(* What the program counts on, and the code does not do *)

\* main.cpp:90-93 stops the program and goes on to uninit: once the network
\* thread is joined, stop() returns.
StopReturns == mainpc = "offer" ~> mainpc = "stopped"
=============================================================================
