-------------------------- MODULE MCAgentScheduler --------------------------
(* Small instances of AgentScheduler for TLC. *)
EXTENDS AgentScheduler

CONSTANTS t1, t2, e1, n1

\* t1 takes one slot every two, t2 a slot and a bit every four and a bit: its
\* duration is rounded up, its interval down.  A status check takes one slot.
MCDuration == [a \in Tasks |-> IF a = t1 THEN TicksPerSlot ELSE TicksPerSlot + 1]
MCCheckDuration == [a \in Tasks |-> TicksPerSlot]
MCInterval ==
    [a \in Tasks |-> IF a = t1 THEN 2 * TicksPerSlot ELSE 5 * TicksPerSlot - 1]

MCRequestBases == {0, 3}

Request(name, first, slots) == [name |-> name, slots |-> slots, first |-> first]
\* One block; two, the second listed backwards; one without slots.
MCRequests == {<<Request(n1, 0, {0})>>,
               <<Request(n1, 0, {0}), Request(n1, 2, {1, 2})>>,
               <<Request(n1, 0, {})>>}
MCNoRequests == {}

\* One block that takes all that is free, at the start of the window.
MCWholeWindow == {<<Request(n1, 0, 0 .. W - 1)>>}
MCBaseZero == {0}
=============================================================================
