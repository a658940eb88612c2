------------------------------- MODULE MCJob -------------------------------
(* Three children without retries on two workers, and two with a retry, deleted *)
(* by the owner; two children with a retry in a job that destroys itself.       *)
EXTENDS Job

CONSTANTS c1, c2, c3, w1, w2

MCPlans ==
    { [children |-> {c1, c2, c3}, workers |-> {w1, w2}, retries |-> 0, auto |-> FALSE],
      [children |-> {c1, c2}, workers |-> {w1, w2}, retries |-> 1, auto |-> FALSE],
      [children |-> {c1, c2}, workers |-> {w1, w2}, retries |-> 1, auto |-> TRUE] }
=============================================================================
