----------------------------- MODULE TaskGraph -----------------------------
(***************************************************************************)
(* The calibration DAG of the local task manager                           *)
(* (hal/local_task_manager.py): the graph built from the configured        *)
(* dependencies and the order in which every pass visits its nodes.        *)
(***************************************************************************)
EXTENDS Integers, Sequences, FiniteSets

CONSTANTS
    Root,      \* node 0 of the graph
    TaskList,  \* the ids of the configured tasks, in the order of the file
    Unknown    \* an id that a "Dependency" names and that no task has

Tasks == {TaskList[i] : i \in DOMAIN TaskList}
Ids == Tasks \cup {Root, Unknown}

\* add_task refuses an id that the graph already has.
ASSUME GraphAssumption ==
    /\ TaskList \in Seq(Tasks)
    /\ \A i, j \in DOMAIN TaskList : TaskList[i] = TaskList[j] => i = j
    /\ Root \notin Tasks /\ Unknown \notin Tasks /\ Root # Unknown

\* "Dependency" of each task once None has become [0].
Dependencies == [Tasks -> SUBSET Ids]

Parents(dep, n) == IF n \in Tasks THEN dep[n] ELSE {}

\* G.nodes in insertion order: add_edge creates a node it does not find.
Nodes(dep) ==
    <<Root>> \o TaskList \o
        (IF \E t \in Tasks : Unknown \in dep[t] THEN <<Unknown>> ELSE <<>>)

-----------------------------------------------------------------------------
(* Kahn's algorithm, as the code runs it *)

\* The elements of s that are in S, in the order of s.
Select(s, S) ==
    LET upTo[i \in 0 .. Len(s)] ==
            IF i = 0 THEN <<>>
            ELSE IF s[i] \in S THEN Append(upTo[i - 1], s[i]) ELSE upTo[i - 1]
    IN  upTo[Len(s)]

\* Fault: nodes with a single parent start in the queue.
KahnStartLoose(dep) ==
    [degree |-> [n \in Ids |-> Cardinality(Parents(dep, n))],
     queue  |-> Select(Nodes(dep), {n \in Ids : Cardinality(Parents(dep, n)) < 2}),
     order  |-> <<>>]

KahnStart(dep) ==
    [degree |-> [n \in Ids |-> Cardinality(Parents(dep, n))],
     queue  |-> Select(Nodes(dep), {n \in Ids : Parents(dep, n) = {}}),
     order  |-> <<>>]

\* One iteration: take the first node, lower the degree of its successors,
\* queue those that have become free.
KahnStep(dep, s) ==
    LET n == Head(s.queue)
        next == {v \in Ids : n \in Parents(dep, v)}
    IN  [degree |-> [v \in Ids |-> s.degree[v] - (IF v \in next THEN 1 ELSE 0)],
         queue  |-> Tail(s.queue) \o Select(Nodes(dep), {v \in next : s.degree[v] = 1}),
         order  |-> Append(s.order, n)]

KahnStates == [degree : [Ids -> Int], queue : Seq(Ids), order : Seq(Ids)]

KahnOrder(dep) ==
    LET loop[s \in KahnStates] ==
            IF s.queue = <<>> THEN s.order ELSE loop[KahnStep(dep, s)]
    IN  loop[KahnStart(dep)]

\* The ValueError of kahn_topological_sort.
HasCycle(dep) == Len(KahnOrder(dep)) # Len(Nodes(dep))

-----------------------------------------------------------------------------
(* What the algorithm is for, stated without it *)

\* No set of tasks in which each depends on another of the set.
Acyclic(dep) ==
    \A S \in (SUBSET Tasks) \ {{}} : \E t \in S : dep[t] \cap S = {}

\* Every node once, each after its parents.
IsTopological(dep, order) ==
    /\ Len(order) = Len(Nodes(dep))
    /\ {order[i] : i \in DOMAIN order} = {Nodes(dep)[i] : i \in DOMAIN Nodes(dep)}
    /\ \A i, j \in DOMAIN order : order[i] \in Parents(dep, order[j]) => i < j

\* The tasks that t depends on, directly or not.
Ancestors(dep, t) ==
    {a \in Tasks : \A S \in SUBSET Tasks :
        (\A s \in S \cup {t} : dep[s] \cap Tasks \subseteq S) => a \in S}
=============================================================================
