----------------------------- MODULE MCNetThread -----------------------------
(* Instances of NetThread: one plan per question, so that the traffic, the     *)
(* timers and the posted operations each get bounds in which they happen.      *)
EXTENDS NetThread

CONSTANTS c1, c2

Plan(reg, ids, traffic, timers) ==
    [registers |-> reg, clients |-> ids, sends |-> traffic[1], closes |-> traffic[2],
     packs |-> traffic[3], fins |-> traffic[4], signals |-> traffic[5],
     timers |-> timers[1], threadTimers |-> timers[2], ticks |-> timers[3]]

TrafficPlans == {Plan(TRUE, 1, <<2, 0, 1, 0, 0>>, <<0, 0, 0>>),
                 Plan(TRUE, 1, <<1, 1, 1, 1, 1>>, <<0, 0, 0>>),
                 Plan(FALSE, 1, <<1, 0, 0, 1, 0>>, <<1, 0, 1>>),
                 Plan(FALSE, 2, <<0, 0, 0, 0, 0>>, <<3, 0, 8>>),
                 Plan(TRUE, 1, <<0, 1, 0, 0, 0>>, <<2, 0, 4>>),
                 Plan(FALSE, 1, <<0, 0, 0, 0, 0>>, <<2, 1, 7>>),
                 Plan(FALSE, 0, <<0, 0, 0, 0, 0>>, <<0, 2, 5>>)}

=============================================================================
