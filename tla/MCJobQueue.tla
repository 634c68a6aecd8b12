------------------------------- MODULE MCJobQueue -------------------------------
(***************************************************************************)
(* JobQueue with small constants.                                           *)
(***************************************************************************)
EXTENDS JobQueue, TLC

CONSTANTS j1, j2, c1, c2, c3

Enq(j, p, d) == [op |-> "enqueue", jobs |-> {j}, prio |-> p, delay |-> d]
Deq == [op |-> "dequeue", jobs |-> {}, prio |-> 0, delay |-> 0]
Can(op, js) == [op |-> op, jobs |-> js, prio |-> 0, delay |-> 0]

\* Low, normal and high jobs, at once or after a delay; a cancel of one job and
\* of a session; a shutdown.
MixedCalls ==
    {Enq(j1, 1, 0), Enq(j1, 1, 1), Enq(j2, 1, 0), Enq(j2, 2, 1), Enq(j1, 0, 0), Deq,
     Can("cancel", {j1}), Can("cancel_session", {j1, j2}), Can("shutdown", {})}

CallerSymmetry == Permutations(Callers)
================================================================================
