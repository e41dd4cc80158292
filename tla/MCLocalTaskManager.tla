------------------------- MODULE MCLocalTaskManager -------------------------
(* Small instances of LocalTaskManager for TLC. *)
EXTENDS LocalTaskManager

CONSTANTS a, b, c

MCTaskList == <<c, b, a>>

\* The tasks are listed in an order that is not topological.
Depend(pa, pb, pc0) == [t \in Tasks |-> IF t = a THEN pa ELSE IF t = b THEN pb ELSE pc0]
Chain == Depend({Root}, {a}, {b})
Join == Depend({Root}, {}, {a, b})
SelfLoop == Depend({Root}, {b}, {a})
Cycle == Depend({c}, {a}, {b})
Dangling == Depend({Root}, {a, Unknown}, {})
Selected == {Chain, Join, SelfLoop, Cycle, Dangling}

\* The selected graphs with faults; without, every graph over the tasks in which a
\* task depends on the root or on other tasks.
MCConfigurations == Selected \cup [Tasks -> {{Root}} \cup (SUBSET Tasks \ {{}})]
MCTooFrequent ==
    [d \in MCConfigurations |-> IF d = Depend({Root}, {a}, {a}) THEN {b} ELSE {}]
MCMaxFaults ==
    [d \in MCConfigurations |-> IF d = Join THEN 1 ELSE IF d \in Selected THEN 2 ELSE 0]
=============================================================================
