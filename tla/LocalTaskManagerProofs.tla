----------------------- MODULE LocalTaskManagerProofs -----------------------
(***************************************************************************)
(* The local task manager, for every list of tasks, every dependency       *)
(* between them and every order in which passes and jobs meet.             *)
(***************************************************************************)
EXTENDS LocalTaskManager, TaskGraphProofs

\* What kahn_topological_sort returns, or raises, on the configured graphs.
LEMMA TopoOrderSorts ==
    ASSUME NEW d \in Configurations
    PROVE  /\ TopoOrder[d] \in Seq(Ids) /\ Once(TopoOrder[d])
           /\ Acyclic(d) <=> ~HasCycle(d)
           /\ ~HasCycle(d) => IsTopological(d, TopoOrder[d]) /\ TopoOrder[d][1] = Root
BY KahnSorts, ManagerAssumption DEF TopoOrder

\* Every node that a pass visits, after the root, is a task.
Visited == {order[i] : i \in 2 .. Len(order)}

\* serve was started: every node of the order has its interpreter.
Started == pc \notin {"start", "book", "refused"}

\* The loop is at a node, and not past the last.
AtNode == pc \in {"inspect", "announce", "lock"}

\* A task is in or out of spec; only the root is partially so.
Shape ==
    /\ TypeOK
    /\ \A t \in Tasks : nodeState[t] \in {"out", "in"}
    /\ IF pc = "start" THEN pos = 1 ELSE order = TopoOrder[dep]
    /\ pc \notin {"start", "refused"} => ~HasCycle(dep) /\ pos >= 2
    /\ pc \in {"book", "refused"} => \A i \in 2 .. pos - 1 : order[i] \in Tasks
    /\ Started => Visited \subseteq Tasks
    /\ AtNode => pos <= Len(order)

-----------------------------------------------------------------------------
(* The shape of a pass *)

LEMMA ShapeInit == Init => Shape
<1> SUFFICES ASSUME Init PROVE Shape
  OBVIOUS
<1>1. order \in Seq(Ids)
  BY DEF Init
<1>2. faults \in 0 .. MaxFaults[dep]
  BY ManagerAssumption DEF Init
<1>3. nodeState \in [Tasks \cup {Root} -> {"out", "partial", "in"}]
  BY DEF Init
<1>4. TypeOK
  BY <1>1, <1>2, <1>3 DEF Init, TypeOK, Suspended, Entries
<1> QED
  BY <1>4 DEF Init, Shape, Started, AtNode

\* A fault is counted; nothing else is.
LEMMA FaultCounts ==
    ASSUME TypeOK, dep' = dep, UNCHANGED faults \/ Fault
    PROVE  faults' \in 0 .. MaxFaults[dep]
BY ManagerAssumption DEF TypeOK, Fault

LEMMA BookingTypes ==
    ASSUME TypeOK, NEW t \in Tasks, RunImmediately(t)
    PROVE  /\ booked' \subseteq Tasks /\ failing' \subseteq Tasks
           /\ UNCHANGED <<exec, failed>>
           /\ UNCHANGED faults \/ Fault
BY DEF TypeOK, RunImmediately

\* The jobs of the scheduler touch nothing of serve but the clock of the pass.
LEMMA EnvironmentTypes ==
    ASSUME TypeOK, NEW t \in Tasks,
           JobBegins(t) \/ JobFails(t) \/ WindowMoves(t) \/ Expire(t) \/ NameTaken(t)
    PROVE  /\ TypeOK'
           /\ UNCHANGED <<dep, order, pc, pos, nodeState, reported, resched, found, agentState>>
           /\ \A u \in Tasks : exec[u] # "never" => exec'[u] # "never"
<1> USE DEF TypeOK
<1>1. CASE JobBegins(t)
  BY <1>1, FaultCounts DEF JobBegins
<1>2. CASE JobFails(t)
  BY <1>2, FaultCounts DEF JobFails, managerVars
<1>3. CASE WindowMoves(t)
  BY <1>3, FaultCounts DEF WindowMoves, managerVars
<1>4. CASE Expire(t)
  BY <1>4, FaultCounts DEF Expire, managerVars
<1>5. CASE NameTaken(t)
  BY <1>5, FaultCounts DEF NameTaken, managerVars, jobVars, Entries
<1> QED
  BY <1>1, <1>2, <1>3, <1>4, <1>5

\* The node at which the loop stands is a task.
LEMMA NodeIsTask ==
    ASSUME Shape, Started, pos \in 2 .. Len(order)
    PROVE  order[pos] \in Tasks
BY DEF Shape, Visited

LEMMA ShapeStart ==
    ASSUME Shape, Start \/ Book \/ Serve \/ BeginPass
    PROVE  Shape'
<1> USE DEF Shape
<1>0. /\ dep \in Configurations /\ TypeOK
      /\ TopoOrder[dep] \in Seq(Ids)
  BY TopoOrderSorts DEF TypeOK
<1>1. CASE Start
  <2>1. TypeOK'
    BY <1>0, <1>1, FaultCounts DEF Start, TypeOK, jobVars, Suspended
  <2> QED
    BY <1>1, <2>1 DEF Start, Started, AtNode
<1>2. CASE Book
  <2>1. CASE order[pos] \in Tasks \ TooFrequent[dep]
    <3>1. RunImmediately(order[pos]) /\ pos' = pos + 1 /\ pc' = "book" /\ pos \in Nat
      BY <1>2, <2>1 DEF Book, TypeOK
    <3>2. TypeOK'
      BY <1>2, <2>1, <3>1, BookingTypes, FaultCounts DEF Book, TypeOK
    <3> QED
      BY <1>2, <2>1, <3>1, <3>2 DEF Book, Started, AtNode
  <2>2. CASE order[pos] \notin Tasks \ TooFrequent[dep]
    <3>1. TypeOK'
      BY <1>2, <2>2, FaultCounts DEF Book, TypeOK, jobVars, Suspended
    <3> QED
      BY <1>2, <2>2, <3>1 DEF Book, Started, AtNode
  <2> QED
    BY <2>1, <2>2
<1>3. CASE Serve
  <2>1. TypeOK'
    BY <1>3, FaultCounts DEF Serve, TypeOK, jobVars, Working
  <2>2. Visited' \subseteq Tasks
    BY <1>3 DEF Serve, Visited, TypeOK
  <2> QED
    BY <1>3, <2>1, <2>2 DEF Serve, Started, AtNode
<1>4. CASE BeginPass
  <2>1. TypeOK'
    BY <1>0, <1>4, FaultCounts DEF BeginPass, TypeOK, jobVars, Working
  <2>2. Visited' = Visited
    BY <1>4 DEF BeginPass, Visited
  <2> QED
    BY <1>4, <2>1, <2>2 DEF BeginPass, Started, AtNode
<1> QED
  BY <1>1, <1>2, <1>3, <1>4

LEMMA ShapeEvaluate ==
    ASSUME Shape, InheritFailure \/ Evaluate \/ EvaluateOther \/ Inspected \/ EndEvaluation
    PROVE  Shape'
<1>0. TypeOK /\ Started /\ UNCHANGED <<dep, order>> /\ Visited' = Visited /\ pos \in Nat
  BY DEF Shape, InheritFailure, Evaluate, EvaluateOther, Inspected, EndEvaluation, Started, Visited,
         Die, TypeOK
<1>1. CASE InheritFailure
  <2>1. nodeState' \in [Tasks \cup {Root} -> {"out", "partial", "in"}]
    BY <1>0, <1>1 DEF InheritFailure, TypeOK
  <2>2. \A t \in Tasks : nodeState'[t] \in {"out", "in"}
    BY <1>1 DEF InheritFailure, Shape, TypeOK
  <2>3. TypeOK'
    BY <1>0, <1>1, <2>1, FaultCounts DEF InheritFailure, TypeOK, jobVars
  <2> QED
    BY <1>0, <1>1, <2>2, <2>3 DEF Shape, InheritFailure, Started, AtNode
<1>2. CASE Evaluate
  <2>0. Verdict(order[pos]) \in {"out", "in"}
    BY DEF Verdict
  <2>1. nodeState' \in [Tasks \cup {Root} -> {"out", "partial", "in"}]
    BY <1>0, <1>2, <2>0 DEF Evaluate, TypeOK
  <2>2. \A t \in Tasks : nodeState'[t] \in {"out", "in"}
    BY <1>2, <2>0 DEF Evaluate, Shape, TypeOK
  <2>3. resched' \subseteq Tasks /\ pos' \in Nat /\ pc' \in Suspended \cup Working
    BY <1>0, <1>2 DEF Evaluate, TypeOK, Suspended
  <2>4. TypeOK'
    BY <1>0, <1>2, <2>1, <2>3, FaultCounts DEF Evaluate, TypeOK, jobVars
  <2> QED
    BY <1>0, <1>2, <2>2, <2>4 DEF Shape, Evaluate, Started, AtNode
<1>3. CASE Die
  <2>1. TypeOK'
    BY <1>0, <1>3, FaultCounts DEF Die, TypeOK, jobVars, Suspended
  <2> QED
    BY <1>0, <1>3, <2>1 DEF Shape, Die, Started, AtNode
<1>4. CASE Inspected /\ ~Die
  <2>1. order[pos] \in Tasks
    BY <1>0, <1>4, NodeIsTask DEF Inspected, Shape, AtNode, Started
  <2>2. reported' \in [Tasks -> {"none", "out", "in"}]
    BY <1>4, <2>1 DEF Inspected, Shape, TypeOK
  <2>3. TypeOK'
    BY <1>0, <1>4, <2>2, FaultCounts DEF Inspected, TypeOK, jobVars, Working
  <2> QED
    BY <1>0, <1>4, <2>3 DEF Shape, Inspected, Started, AtNode
<1>5. CASE EndEvaluation
  <2>1. TypeOK'
    BY <1>0, <1>5, FaultCounts DEF EndEvaluation, TypeOK, jobVars, Working
  <2> QED
    BY <1>0, <1>5, <2>1 DEF Shape, EndEvaluation, Started, AtNode
<1> QED
  BY <1>1, <1>2, <1>3, <1>4, <1>5 DEF EvaluateOther

LEMMA ShapeFrontier ==
    ASSUME Shape, VisitFrontier \/ Announced \/ Reschedule \/ UpdateRoot
    PROVE  Shape'
<1>0. TypeOK /\ Started /\ UNCHANGED <<dep, order>> /\ Visited' = Visited /\ pos \in Nat
  BY DEF Shape, VisitFrontier, Announced, Reschedule, UpdateRoot, Started, Visited, Die, TypeOK
<1>1. CASE VisitFrontier
  <2>1. CASE Frontier(order[pos])
    <3>1. order[pos] \in Tasks
      BY <1>0, <1>1, NodeIsTask DEF VisitFrontier, Shape, Started
    <3>2. TypeOK'
      BY <1>0, <1>1, <2>1, <3>1, FaultCounts DEF VisitFrontier, TypeOK, jobVars, Suspended
    <3> QED
      BY <1>0, <1>1, <2>1, <3>2 DEF Shape, VisitFrontier, Started, AtNode
  <2>2. CASE ~Frontier(order[pos])
    <3>1. TypeOK'
      BY <1>0, <1>1, <2>2, FaultCounts DEF VisitFrontier, TypeOK, jobVars
    <3> QED
      BY <1>0, <1>1, <2>2, <3>1 DEF Shape, VisitFrontier, Started, AtNode
  <2> QED
    BY <2>1, <2>2
<1>2. CASE Die
  <2>1. TypeOK'
    BY <1>0, <1>2, FaultCounts DEF Die, TypeOK, jobVars, Suspended
  <2> QED
    BY <1>0, <1>2, <2>1 DEF Shape, Die, Started, AtNode
<1>3. CASE Announced /\ ~Die
  <2>1. order[pos] \in Tasks
    BY <1>0, <1>3, NodeIsTask DEF Announced, Shape, AtNode, Started
  <2>2. TypeOK'
    BY <1>0, <1>3, <2>1, FaultCounts DEF Announced, TypeOK, jobVars, Suspended
  <2> QED
    BY <1>0, <1>3, <2>2 DEF Shape, Announced, Started, AtNode
<1>4. CASE Reschedule /\ ~Die
  <2>1. order[pos] \in Tasks
    BY <1>0, <1>4, NodeIsTask DEF Reschedule, Shape, AtNode, Started
  <2>2. /\ booked' \subseteq Tasks /\ failing' \subseteq Tasks
        /\ UNCHANGED <<exec, failed>>
        /\ UNCHANGED faults \/ Fault
    BY <1>0, <1>4, <2>1, BookingTypes DEF Reschedule, jobVars, TypeOK
  <2>3. TypeOK'
    BY <1>0, <1>4, <2>2, FaultCounts DEF Reschedule, TypeOK, Working, Entries
  <2> QED
    BY <1>0, <1>4, <2>3 DEF Shape, Reschedule, Started, AtNode
<1>5. CASE UpdateRoot
  <2>1. RootState \in {"in", "out", "partial"}
    BY DEF RootState
  <2>2. TypeOK'
    BY <1>0, <1>5, <2>1, FaultCounts DEF UpdateRoot, TypeOK, jobVars, Suspended
  <2>3. \A t \in Tasks : nodeState'[t] = nodeState[t]
    BY <1>5, GraphAssumption DEF UpdateRoot, TypeOK, Shape
  <2> QED
    BY <1>0, <1>5, <2>2, <2>3 DEF Shape, UpdateRoot, Started, AtNode
<1> QED
  BY <1>1, <1>2, <1>3, <1>4, <1>5

LEMMA ShapeServe ==
    ASSUME Shape, EndDelay \/ ReportAgent \/ Wake
    PROVE  Shape'
<1>0. TypeOK /\ Started /\ UNCHANGED <<dep, order>> /\ Visited' = Visited /\ pos \in Nat
  BY DEF Shape, EndDelay, ReportAgent, Wake, Started, Visited, Die, TypeOK
<1>1. CASE EndDelay
  <2>1. TypeOK'
    BY <1>0, <1>1, FaultCounts DEF EndDelay, TypeOK, jobVars, Suspended
  <2> QED
    BY <1>0, <1>1, <2>1 DEF Shape, EndDelay, Started, AtNode
<1>2. CASE ReportAgent
  <2>1. nodeState[Root] \in {"out", "partial", "in"}
    BY <1>0 DEF TypeOK
  <2>2. TypeOK'
    BY <1>0, <1>2, <2>1, FaultCounts DEF ReportAgent, Die, TypeOK, jobVars, Suspended
  <2> QED
    BY <1>0, <1>2, <2>2 DEF Shape, ReportAgent, Die, Started, AtNode
<1>3. CASE Wake
  <2>1. TypeOK'
    BY <1>0, <1>3, FaultCounts DEF Wake, TypeOK, jobVars, Working
  <2> QED
    BY <1>0, <1>3, <2>1 DEF Shape, Wake, Started, AtNode
<1> QED
  BY <1>1, <1>2, <1>3

LEMMA ShapeNext == Shape /\ [Next]_vars => Shape'
<1> SUFFICES ASSUME Shape, [Next]_vars PROVE Shape'
  OBVIOUS
<1>1. CASE Environment
  <2>1. TypeOK' /\ UNCHANGED <<dep, order, pc, pos, nodeState>>
    BY <1>1, EnvironmentTypes DEF Environment, Shape
  <2> QED
    BY <2>1 DEF Shape, Visited, Started, AtNode
<1>2. CASE UNCHANGED vars
  BY <1>2 DEF vars, managerVars, jobVars, Shape, TypeOK, Visited, Started, AtNode
<1> QED
  BY <1>1, <1>2, ShapeStart, ShapeEvaluate, ShapeFrontier, ShapeServe DEF Next, Manager

\* The types of the manager and of the jobs hold in every state, for every task
\* graph that the configuration gives and every order in which jobs and passes meet.
THEOREM TypesHold ==
    Spec => []TypeOK
<1>1. Shape /\ [Next]_vars => Shape'
  BY ShapeNext
<1>2. Shape => TypeOK
  BY DEF Shape
<1> QED
  BY <1>1, <1>2, ShapeInit, PTL DEF Spec

-----------------------------------------------------------------------------
(* The graph *)

\* Parents come before their children, so a node visited now or later is no parent
\* of one visited before.
LEMMA LaterIsNoParent ==
    ASSUME Shape, Started, NEW i \in 2 .. Len(order), NEW j \in 2 .. Len(order), i <= j
    PROVE  order[i] \in Tasks /\ order[j] \notin dep[order[i]]
<1>1. order[i] \in Tasks /\ order[j] \in Tasks
  BY DEF Shape, Visited
<1>2. order \in Seq(Ids) /\ IsTopological(dep, order)
  BY TopoOrderSorts DEF Shape, Started, TypeOK, Ids
<1>3. order[j] \in Parents(dep, order[i]) => j < i
  BY <1>2 DEF IsTopological
<1> QED
  BY <1>1, <1>3 DEF Parents

\* Once serve runs every task is visited and every dependency is known.
LEMMA GraphIsComplete ==
    ASSUME Shape, Started
    PROVE  /\ \A t \in Tasks : \E i \in 2 .. Len(order) : order[i] = t
           /\ \A t \in Tasks : dep[t] \subseteq Tasks \cup {Root}
           /\ Acyclic(dep)
<1>1. /\ order \in Seq(Ids) /\ IsTopological(dep, order) /\ order[1] = Root /\ Acyclic(dep)
      /\ dep \in Dependencies
  BY ManagerAssumption, TopoOrderSorts DEF Shape, Started, TypeOK, Ids
<1>2. \A i \in 2 .. Len(order) : order[i] \in Tasks
  BY DEF Shape, Visited
<1>3. \A i \in DOMAIN Nodes(dep) : \E k \in DOMAIN order : order[k] = Nodes(dep)[i]
  BY <1>1 DEF IsTopological
<1>4. DOMAIN order = 1 .. Len(order) /\ Len(order) \in Nat
  BY <1>1
<1> DEFINE more == IF \E t \in Tasks : Unknown \in dep[t] THEN <<Unknown>> ELSE <<>>
           rest == TaskList \o more
<1>5. TaskList \in Seq(Ids) /\ more \in Seq(Ids) /\ Nodes(dep) = <<Root>> \o rest
  <2>1. TaskList \in Seq(Ids)
    BY GraphAssumption DEF Ids
  <2>2. more \in Seq(Ids)
    <3>1. <<>> \in Seq(Ids) /\ <<Unknown>> \in Seq(Ids)
      BY DEF Ids
    <3>2. more = <<>> \/ more = <<Unknown>>
      OBVIOUS
    <3> HIDE DEF more
    <3> QED
      BY <3>1, <3>2, Zenon
  <2>3. Nodes(dep) = <<Root>> \o TaskList \o more
    BY DEF Nodes
  <2> QED
    BY <2>1, <2>2, <2>3 DEF Ids
<1> HIDE DEF more
<1>6. \A t \in Tasks : \E i \in 2 .. Len(order) : order[i] = t
  <2> TAKE t \in Tasks
  <2>1. PICK k \in 1 .. Len(TaskList) : TaskList[k] = t
    BY <1>5 DEF Tasks
  <2>2. k + 1 \in DOMAIN Nodes(dep) /\ Nodes(dep)[k + 1] = t
    BY <1>5, <2>1 DEF Ids
  <2>3. PICK m \in DOMAIN order : order[m] = t
    BY <1>3, <2>2
  <2>4. m # 1
    BY <1>1, <2>3, GraphAssumption
  <2> QED
    BY <1>4, <2>3, <2>4
<1>7. \A t \in Tasks : Unknown \notin dep[t]
  <2> SUFFICES ASSUME NEW t \in Tasks, Unknown \in dep[t] PROVE FALSE
    OBVIOUS
  <2>1. more = <<Unknown>>
    BY DEF more
  <2>2. Len(TaskList) + 2 \in DOMAIN Nodes(dep) /\ Nodes(dep)[Len(TaskList) + 2] = Unknown
    BY <1>5, <2>1 DEF Ids
  <2>3. PICK m \in DOMAIN order : order[m] = Unknown
    BY <1>3, <2>2
  <2>4. m # 1
    BY <1>1, <2>3, GraphAssumption
  <2> QED
    BY <1>2, <1>4, <2>3, <2>4, GraphAssumption
<1> QED
  BY <1>1, <1>6, <1>7 DEF Dependencies, Ids

\* start is refused for a cycle or for a node without an interpreter.
RefusalIsDue ==
    pc = "refused" => \/ HasCycle(dep)
                      \/ \E t \in Tasks : Unknown \in dep[t]
                      \/ TooFrequent[dep] # {}

LEMMA RefusalStep ==
    ASSUME Shape, RefusalIsDue, [Next]_vars
    PROVE  RefusalIsDue'
<1>1. CASE Start
  BY <1>1 DEF Start, RefusalIsDue
<1>2. CASE Book
  <2> SUFFICES ASSUME order[pos] \notin Tasks PROVE Unknown \in Elements(Nodes(dep))
    <3>1. dep \in Dependencies /\ dep' = dep
      BY <1>2, ManagerAssumption DEF Shape, TypeOK, Book
    <3>2. CASE order[pos] \in TooFrequent[dep]
      BY <1>2, <3>1, <3>2 DEF Book, RefusalIsDue
    <3>3. CASE order[pos] \in Tasks \ TooFrequent[dep]
      BY <1>2, <3>1, <3>3 DEF Book, RefusalIsDue
    <3> QED BY <1>2, <3>1, <3>2, <3>3, NodesFacts, GraphAssumption DEF Book, RefusalIsDue
  <2>1. /\ dep \in Configurations /\ order \in Seq(Ids) /\ pos \in 2 .. Len(order)
        /\ order = TopoOrder[dep] /\ ~HasCycle(dep)
    BY <1>2 DEF Book, Shape, TypeOK
  <2>2. Once(order) /\ order[1] = Root /\ IsTopological(dep, order)
    BY <2>1, TopoOrderSorts
  <2>3. 1 \in DOMAIN order /\ pos \in DOMAIN order /\ pos # 1
    BY <2>1
  <2>4. order[pos] # Root
    BY <2>2, <2>3 DEF Once
  <2>5. order[pos] = Unknown
    BY <2>1, <2>3, <2>4 DEF Ids
  <2>6. order[pos] \in Elements(Nodes(dep))
    BY <2>2, <2>3 DEF IsTopological, Elements
  <2> QED BY <2>5, <2>6
<1>3. ASSUME UNCHANGED <<dep, pc>> PROVE RefusalIsDue'
  BY <1>3 DEF RefusalIsDue
<1>4. CASE Environment
  BY <1>3, <1>4, EnvironmentTypes DEF Environment, Shape
<1>5. CASE UNCHANGED vars
  BY <1>3, <1>5 DEF vars, managerVars
<1>6. ASSUME pc' # "refused" PROVE RefusalIsDue'
  BY <1>6 DEF RefusalIsDue
<1>7. CASE Serve \/ BeginPass \/ EndEvaluation \/ InheritFailure \/ Evaluate \/ EvaluateOther
           \/ Inspected
  BY <1>6, <1>7 DEF Serve, BeginPass, EndEvaluation, InheritFailure, Evaluate, EvaluateOther,
                    Inspected, Die
<1>8. CASE VisitFrontier \/ Announced \/ Reschedule \/ UpdateRoot \/ EndDelay
           \/ ReportAgent \/ Wake
  BY <1>6, <1>8 DEF VisitFrontier, Announced, Reschedule, UpdateRoot, EndDelay, ReportAgent,
                    Wake, Die
<1> QED
  BY <1>1, <1>2, <1>4, <1>5, <1>7, <1>8 DEF Next, Manager

\* start is refused only for a graph with a cycle, a dependency that does not exist
\* or too short an interval, is always refused for a cycle, and every pass visits each of its nodes once, parents first.
THEOREM OrderHolds == Spec => []OrderIsTopological
<1>1. Init => RefusalIsDue
  BY DEF Init, RefusalIsDue
<1>2. Shape /\ RefusalIsDue /\ [Next]_vars => (Shape /\ RefusalIsDue)'
  BY ShapeNext, RefusalStep
<1>3. Shape /\ RefusalIsDue => OrderIsTopological
  BY TopoOrderSorts DEF Shape, TypeOK, RefusalIsDue, OrderIsTopological
<1> QED BY <1>1, <1>2, <1>3, ShapeInit, PTL DEF Spec

\* The parents of a task are among its ancestors, and so are theirs.
LEMMA AncestorsClosed ==
    ASSUME NEW d \in Dependencies, NEW t \in Tasks
    PROVE  /\ d[t] \cap Tasks \subseteq Ancestors(d, t)
           /\ \A a \in Ancestors(d, t) : a \in Tasks /\ d[a] \cap Tasks \subseteq Ancestors(d, t)
<1>1. d[t] \cap Tasks \subseteq Ancestors(d, t)
  BY DEF Ancestors
<1>2. ASSUME NEW a \in Ancestors(d, t), NEW p \in d[a] \cap Tasks
      PROVE  p \in Ancestors(d, t)
  <2> SUFFICES ASSUME NEW S \in SUBSET Tasks, \A s \in S \cup {t} : d[s] \cap Tasks \subseteq S
               PROVE  p \in S
    BY DEF Ancestors
  <2>1. a \in S
    BY DEF Ancestors
  <2> QED
    BY <1>2, <2>1
<1>3. Ancestors(d, t) \subseteq Tasks
  BY DEF Ancestors
<1> QED
  BY <1>1, <1>2, <1>3

\* Any set of tasks that holds the parents of t and of its members holds every
\* ancestor of t.
LEMMA AncestorsLeast ==
    ASSUME NEW d, NEW t \in Tasks, NEW S \in SUBSET Tasks,
           \A s \in S \cup {t} : d[s] \cap Tasks \subseteq S
    PROVE  Ancestors(d, t) \subseteq S
BY DEF Ancestors

-----------------------------------------------------------------------------
(* What the states of a pass mean *)

\* A task above is not in spec.
HeldUp(t) == \E p \in dep[t] \cap Tasks : nodeState[p] # "in"

\* The change of the node at hand is being reported.
Reporting(t) == pc = "inspect" /\ t = order[pos]

InPass == pc \in {"evaluate", "inspect", "frontier", "announce", "lock"}

\* The positions that this pass has evaluated.
Evaluated ==
    IF pc = "evaluate" THEN 2 .. pos - 1
    ELSE IF pc = "inspect" THEN 2 .. pos
    ELSE IF InPass \/ AtRest THEN 2 .. Len(order) ELSE {}

\* What a state says of a task this pass has evaluated: in spec with everything
\* directly above it, known to the controller, or silently held up.
Judged(t) ==
    /\ nodeState[t] = "in" => ~HeldUp(t)
    /\ nodeState[t] = reported[t] \/ Reporting(t) \/ (nodeState[t] = "out" /\ HeldUp(t))

Meaning ==
    /\ InPass => nodeState[Root] = "in"
    /\ pc # "dead" => \A t \in Tasks : nodeState[t] = "in" =>
           exec[t] # "never" /\ (reported[t] = "in" \/ Reporting(t))
    /\ \A i \in Evaluated : Judged(order[i])
    /\ pc \in {"announce", "lock"} => ~HeldUp(order[pos])
    /\ AtRest /\ nodeState[Root] = "in" => \A t \in Tasks : nodeState[t] = "in"

\* During a pass a task is blocked exactly when a task above it holds it up.
LEMMA BlockedIsHeldUp ==
    ASSUME Shape, Started, nodeState[Root] = "in", NEW t \in Tasks
    PROVE  Blocked(t) <=> HeldUp(t)
<1>1. dep[t] \subseteq Tasks \cup {Root}
  BY GraphIsComplete
<1> QED
  BY <1>1, GraphAssumption DEF Blocked, HeldUp, Parents

\* Setting the state of the node at hand holds up or frees no task evaluated so far:
\* it is no parent of theirs.
LEMMA HeldUpStays ==
    ASSUME Shape, Started, NEW i \in 2 .. Len(order), pos \in 2 .. Len(order), i <= pos,
           NEW s, nodeState' = [nodeState EXCEPT ![order[pos]] = s],
           UNCHANGED <<dep, order>>
    PROVE  order[i] \in Tasks /\ (HeldUp(order[i])' <=> HeldUp(order[i]))
<1>1. order[i] \in Tasks /\ order[pos] \notin dep[order[i]]
  BY LaterIsNoParent
<1>2. \A p \in dep[order[i]] \cap Tasks : nodeState'[p] = nodeState[p]
  BY <1>1 DEF Shape, TypeOK
<1>3. dep'[order'[i]] = dep[order[i]]
  OBVIOUS
<1> QED
  BY <1>1, <1>2, <1>3 DEF HeldUp

LEMMA MeaningInit == Init => Meaning
BY DEF Init, Meaning, InPass, Evaluated, AtRest

LEMMA MeaningStart ==
    ASSUME Shape, Meaning, Start \/ Book \/ Serve \/ BeginPass
    PROVE  Meaning'
<1>1. CASE Start
  BY <1>1 DEF Start, Meaning, InPass, Evaluated, AtRest, Reporting, jobVars
<1>2. CASE Book
  <2>1. UNCHANGED <<nodeState, reported, exec>> /\ pc = "book" /\ pc' \in {"book", "refused"}
    BY <1>2 DEF Book, RunImmediately, jobVars
  <2> QED
    BY <2>1 DEF Meaning, InPass, Evaluated, AtRest, Reporting
<1>3. CASE Serve
  BY <1>3 DEF Serve, Meaning, InPass, Evaluated, AtRest, Reporting, jobVars
<1>4. CASE BeginPass
  <2>1. nodeState'[Root] = "in" /\ \A t \in Tasks : nodeState'[t] = nodeState[t]
    BY <1>4, GraphAssumption DEF BeginPass, Shape, TypeOK
  <2>2. UNCHANGED <<reported, exec>> /\ pc = "pass" /\ pc' = "evaluate" /\ Evaluated' = {}
    BY <1>4 DEF BeginPass, jobVars, Evaluated
  <2> QED
    BY <2>1, <2>2 DEF Meaning, InPass, AtRest, Reporting
<1> QED
  BY <1>1, <1>2, <1>3, <1>4

\* Dying leaves the states as they are; nothing is said of them any more.
LEMMA MeaningDie ==
    ASSUME Meaning, Die
    PROVE  Meaning'
BY DEF Die, Meaning, InPass, Evaluated, AtRest

LEMMA MeaningInherit ==
    ASSUME Shape, Meaning, InheritFailure
    PROVE  Meaning'
<1>1. /\ Started /\ pos \in 2 .. Len(order) /\ nodeState[Root] = "in"
      /\ UNCHANGED <<dep, order>> /\ pc = "evaluate" /\ pc' = "evaluate" /\ pos' = pos + 1
  BY DEF InheritFailure, Shape, Started, TypeOK, Meaning, InPass
<1>2. order[pos] \in Tasks /\ HeldUp(order[pos])
  BY <1>1, NodeIsTask, BlockedIsHeldUp DEF InheritFailure
<1>3. nodeState' = [nodeState EXCEPT ![order[pos]] = "out"] /\ UNCHANGED <<reported, exec>>
  BY DEF InheritFailure, jobVars
<1>4. /\ nodeState'[order[pos]] = "out" /\ nodeState'[Root] = "in"
      /\ \A t \in Tasks : t # order[pos] => nodeState'[t] = nodeState[t]
  BY <1>1, <1>2, <1>3, GraphAssumption DEF Shape, TypeOK
<1>5. ASSUME NEW i \in Evaluated' PROVE Judged(order[i])'
  <2>1. i \in 2 .. pos /\ i \in 2 .. Len(order)
    BY <1>1 DEF Evaluated
  <2>2. HeldUp(order[i])' <=> HeldUp(order[i])
    <3>1. i <= pos
      BY <1>1, <2>1
    <3> QED
      BY <1>1, <1>3, <2>1, <3>1, HeldUpStays, Zenon
  <2>3. CASE order[i] = order[pos]
    <3>1. HeldUp(order[i])
      BY <1>2, <2>3 DEF HeldUp
    <3>2. nodeState'[order'[i]] = "out"
      BY <1>1, <1>4, <2>3
    <3> QED
      BY <2>2, <3>1, <3>2 DEF Judged
  <2>4. CASE order[i] # order[pos]
    <3>1. i \in Evaluated /\ order[i] \in Tasks
      BY <1>1, <2>1, <2>4, LaterIsNoParent DEF Evaluated
    <3>2. Judged(order[i])
      BY <3>1 DEF Meaning
    <3> QED
      BY <1>1, <1>3, <1>4, <2>2, <2>4, <3>1, <3>2 DEF Judged, Reporting
  <2> QED
    BY <2>3, <2>4
<1> QED
  BY <1>1, <1>2, <1>3, <1>4, <1>5 DEF Meaning, InPass, AtRest, Reporting

LEMMA MeaningEvaluate ==
    ASSUME Shape, Meaning, Evaluate
    PROVE  Meaning'
<1> DEFINE t == order[pos]
           s == Verdict(t)
<1>1. /\ Started /\ pos \in 2 .. Len(order) /\ nodeState[Root] = "in"
      /\ UNCHANGED <<dep, order, reported, exec>> /\ pc = "evaluate"
      /\ nodeState' = [nodeState EXCEPT ![t] = s]
  BY DEF Evaluate, Shape, Started, TypeOK, Meaning, InPass, jobVars
<1>2. t \in Tasks /\ ~HeldUp(t)
  BY <1>1, NodeIsTask, BlockedIsHeldUp DEF Evaluate
<1>3. \/ s # reported[t] /\ pc' = "inspect" /\ pos' = pos
      \/ s = reported[t] /\ pc' = "evaluate" /\ pos' = pos + 1
  BY <1>1 DEF Evaluate, Changed
<1>4. s \in {"in", "out"} /\ (s = "in" => exec[t] # "never")
  BY DEF Verdict, InSpec
<1> HIDE DEF s
<1>5. /\ nodeState'[t] = s /\ nodeState'[Root] = "in"
      /\ \A u \in Tasks : u # t => nodeState'[u] = nodeState[u]
  BY <1>1, <1>2, GraphAssumption DEF Shape, TypeOK
<1>7. ASSUME NEW i \in Evaluated' PROVE Judged(order[i])'
  <2>1. i \in 2 .. pos /\ i \in 2 .. Len(order)
    BY <1>1, <1>3 DEF Evaluated
  <2>2. HeldUp(order[i])' <=> HeldUp(order[i])
    <3>1. i <= pos
      BY <1>1, <2>1
    <3> QED
      BY <1>1, <2>1, <3>1, HeldUpStays, Zenon
  <2>3. CASE order[i] = t
    <3>1. ~HeldUp(order[i])
      BY <1>2, <2>3 DEF HeldUp
    <3>2. nodeState'[order'[i]] = s /\ reported'[order'[i]] = reported[t]
      BY <1>1, <1>5, <2>3
    <3>3. s = reported[t] \/ Reporting(order[i])'
      BY <1>1, <1>3, <2>3 DEF Reporting
    <3> QED
      BY <2>2, <3>1, <3>2, <3>3 DEF Judged
  <2>4. CASE order[i] # t
    <3>1. i \in Evaluated /\ order[i] \in Tasks
      BY <1>1, <2>1, <2>4, LaterIsNoParent DEF Evaluated
    <3>2. Judged(order[i])
      BY <3>1 DEF Meaning
    <3> QED
      BY <1>1, <1>5, <2>2, <2>4, <3>1, <3>2 DEF Judged, Reporting
  <2> QED
    BY <2>3, <2>4
<1>8. ASSUME NEW u \in Tasks, nodeState'[u] = "in"
      PROVE  exec'[u] # "never" /\ (reported'[u] = "in" \/ Reporting(u)')
  <2>1. CASE u = t
    BY <1>1, <1>3, <1>4, <1>5, <1>8, <2>1 DEF Reporting
  <2>2. CASE u # t
    BY <1>1, <1>5, <1>8, <2>2 DEF Meaning, Reporting
  <2> QED
    BY <2>1, <2>2
<1> QED
  BY <1>1, <1>3, <1>5, <1>7, <1>8 DEF Meaning, InPass, AtRest

LEMMA MeaningInspected ==
    ASSUME Shape, Meaning, Inspected
    PROVE  Meaning'
<1>1. CASE Die
  BY <1>1, MeaningDie
<1>2. CASE ~Die
  <2>1. /\ Started /\ pos \in 2 .. Len(order) /\ pc = "inspect" /\ pc' = "evaluate" /\ pos' = pos + 1
        /\ UNCHANGED <<dep, order, nodeState, exec>>
        /\ reported' = [reported EXCEPT ![order[pos]] = nodeState[order[pos]]]
    BY <1>2 DEF Inspected, Shape, Started, AtNode, TypeOK, jobVars
  <2>2. order[pos] \in Tasks
    BY <2>1, NodeIsTask
  <2>3. /\ reported'[order[pos]] = nodeState[order[pos]]
        /\ \A u \in Tasks : u # order[pos] => reported'[u] = reported[u]
    BY <2>1, <2>2 DEF Shape, TypeOK
  <2>4. ASSUME NEW i \in Evaluated' PROVE Judged(order[i])'
    <3>1. i \in 2 .. pos /\ i \in 2 .. Len(order) /\ i \in Evaluated
      BY <2>1 DEF Evaluated
    <3>2. order[i] \in Tasks /\ Judged(order[i])
      BY <2>1, <3>1, LaterIsNoParent DEF Meaning
    <3>3. HeldUp(order[i])' <=> HeldUp(order[i])
      BY <2>1 DEF HeldUp
    <3> QED
      BY <2>1, <2>3, <3>2, <3>3 DEF Judged, Reporting
  <2>5. \A u \in Tasks : nodeState'[u] = "in" => exec'[u] # "never" /\ reported'[u] = "in"
    BY <2>1, <2>2, <2>3 DEF Meaning, Reporting
  <2> QED
    BY <2>1, <2>4, <2>5 DEF Meaning, InPass, AtRest
<1> QED
  BY <1>1, <1>2
LEMMA MeaningFrontier ==
    ASSUME Shape, Meaning, EndEvaluation \/ VisitFrontier \/ Announced \/ Reschedule
    PROVE  Meaning'
<1>1. CASE Die
  BY <1>1, MeaningDie
<1>2. CASE ~Die
  <2>1. /\ UNCHANGED <<dep, order, nodeState, reported, exec>> /\ Started
        /\ pc \in {"evaluate", "frontier", "announce", "lock"}
        /\ pc' \in {"frontier", "announce", "lock"}
    BY <1>2 DEF EndEvaluation, VisitFrontier, Announced, Reschedule, RunImmediately, jobVars, Started
  <2>2. Evaluated' \subseteq Evaluated
    BY <1>2, <2>1 DEF EndEvaluation, VisitFrontier, Announced, Reschedule, Evaluated, InPass,
                      Shape, TypeOK
  <2>3. ASSUME NEW i \in Evaluated' PROVE Judged(order[i])'
    <3>1. Judged(order[i]) /\ ~Reporting(order[i])
      BY <2>1, <2>2 DEF Meaning, Reporting
    <3>2. HeldUp(order[i])' <=> HeldUp(order[i])
      BY <2>1 DEF HeldUp
    <3> QED
      BY <2>1, <3>1, <3>2 DEF Judged
  <2>4. ASSUME pc' \in {"announce", "lock"} PROVE ~HeldUp(order[pos])'
    <3>1. pos' = pos /\ ~HeldUp(order[pos])
      <4>1. CASE VisitFrontier
        <5>1. pos' = pos /\ Frontier(order[pos]) /\ pos \in 2 .. Len(order)
          BY <2>4, <4>1 DEF VisitFrontier, Shape, TypeOK
        <5>2. order[pos] \in Tasks /\ nodeState[Root] = "in"
          BY <2>1, <4>1, <5>1, NodeIsTask DEF VisitFrontier, Meaning, InPass
        <5> QED
          BY <2>1, <5>1, <5>2, BlockedIsHeldUp DEF Frontier
      <4>2. CASE Announced
        BY <1>2, <4>2 DEF Announced, Meaning
      <4>3. CASE EndEvaluation \/ Reschedule
        BY <1>2, <2>4, <4>3 DEF EndEvaluation, Reschedule
      <4> QED
        BY <4>1, <4>2, <4>3
    <3> QED
      BY <2>1, <3>1 DEF HeldUp
  <2> QED
    BY <2>1, <2>3, <2>4 DEF Meaning, InPass, AtRest, Reporting
<1> QED
  BY <1>1, <1>2

LEMMA MeaningRoot ==
    ASSUME Shape, Meaning, UpdateRoot
    PROVE  Meaning'
<1>1. /\ Started /\ pc = "frontier" /\ pc' = "delay"
      /\ nodeState' = [nodeState EXCEPT ![Root] = RootState]
      /\ UNCHANGED <<dep, order, reported, exec>>
  BY DEF UpdateRoot, Started, jobVars
<1>2. /\ \A t \in Tasks : nodeState'[t] = nodeState[t]
      /\ nodeState'[Root] = RootState
  BY <1>1, GraphAssumption DEF Shape, TypeOK
<1>3. ASSUME NEW i \in Evaluated' PROVE Judged(order[i])'
  <2>1. i \in 2 .. Len(order) /\ i \in Evaluated
    BY <1>1 DEF Evaluated, InPass, AtRest
  <2>2. order[i] \in Tasks /\ Judged(order[i]) /\ ~Reporting(order[i])
    BY <1>1, <2>1, LaterIsNoParent DEF Meaning, Reporting
  <2>3. HeldUp(order[i])' <=> HeldUp(order[i])
    BY <1>1, <1>2 DEF HeldUp
  <2> QED
    BY <1>1, <1>2, <2>2, <2>3 DEF Judged
<1>4. ASSUME RootState = "in", NEW t \in Tasks PROVE nodeState[t] = "in"
  <2>1. {nodeState[order[i]] : i \in 2 .. Len(order)} \subseteq {"in"}
    BY <1>4 DEF RootState
  <2>2. PICK i \in 2 .. Len(order) : order[i] = t
    BY <1>1, GraphIsComplete
  <2> QED
    BY <2>1, <2>2
<1> QED
  BY <1>1, <1>2, <1>3, <1>4 DEF Meaning, InPass, AtRest, Reporting

LEMMA MeaningServe ==
    ASSUME Shape, Meaning, EndDelay \/ ReportAgent \/ Wake
    PROVE  Meaning'
<1>1. CASE Die
  BY <1>1, MeaningDie
<1>2. CASE ~Die
  <2>1. /\ UNCHANGED <<dep, order, nodeState, reported, exec>> /\ AtRest
        /\ pc' \in {"report", "sleep", "pass"}
    BY <1>2 DEF EndDelay, ReportAgent, Wake, AtRest, jobVars
  <2>2. ASSUME NEW i \in Evaluated' PROVE Judged(order[i])'
    <3>1. i \in Evaluated
      BY <2>1 DEF Evaluated, AtRest, InPass
    <3>2. Judged(order[i]) /\ ~Reporting(order[i])
      BY <2>1, <3>1 DEF Meaning, Reporting, AtRest
    <3>3. HeldUp(order[i])' <=> HeldUp(order[i])
      BY <2>1 DEF HeldUp
    <3> QED
      BY <2>1, <3>2, <3>3 DEF Judged
  <2> QED
    BY <2>1, <2>2 DEF Meaning, InPass, AtRest, Reporting
<1> QED
  BY <1>1, <1>2

\* No step of the scheduler makes a task one that was never executed.
LEMMA MeaningEnvironment ==
    ASSUME Shape, Meaning, Environment
    PROVE  Meaning'
<1>1. /\ UNCHANGED <<dep, order, pc, pos, nodeState, reported>>
      /\ \A t \in Tasks : exec[t] # "never" => exec'[t] # "never"
  BY EnvironmentTypes DEF Environment, Shape
<1>2. Evaluated' = Evaluated
  BY <1>1 DEF Evaluated, InPass, AtRest
<1>3. \A i : Judged(order[i]) => Judged(order[i])'
  BY <1>1 DEF Judged, HeldUp, Reporting
<1>4. HeldUp(order[pos])' <=> HeldUp(order[pos])
  BY <1>1 DEF HeldUp
<1> QED
  BY <1>1, <1>2, <1>3, <1>4 DEF Meaning, InPass, AtRest, Reporting

LEMMA MeaningNext == Shape /\ Meaning /\ [Next]_vars => Meaning'
<1> SUFFICES ASSUME Shape, Meaning, [Next]_vars PROVE Meaning'
  OBVIOUS
<1>1. CASE UNCHANGED vars
  <2>1. UNCHANGED <<dep, order, pc, pos, nodeState, reported, exec>>
    BY <1>1 DEF vars, managerVars, jobVars
  <2>2. Evaluated' = Evaluated
    BY <2>1 DEF Evaluated, InPass, AtRest
  <2>3. \A i : Judged(order[i]) => Judged(order[i])'
    BY <2>1 DEF Judged, HeldUp, Reporting
  <2>4. HeldUp(order[pos])' <=> HeldUp(order[pos])
    BY <2>1 DEF HeldUp
  <2> QED
    BY <2>1, <2>2, <2>3, <2>4 DEF Meaning, InPass, AtRest, Reporting
<1>2. CASE EvaluateOther
  BY <1>2, MeaningDie DEF EvaluateOther
<1> QED
  BY <1>1, <1>2, MeaningStart, MeaningInherit, MeaningEvaluate, MeaningInspected,
     MeaningFrontier, MeaningRoot, MeaningServe, MeaningEnvironment
  DEF Next, Manager

LEMMA MeaningHolds ==
    Spec => [](Shape /\ Meaning)
<1>1. Shape /\ Meaning /\ [Next]_vars => (Shape /\ Meaning)'
  BY ShapeNext, MeaningNext
<1> QED
  BY <1>1, ShapeInit, MeaningInit, PTL DEF Spec

-----------------------------------------------------------------------------
(* The theorems *)

\* Between two passes a root in spec means that every task was executed and that the
\* controller was told it is in spec, for a task graph of any shape and depth.
THEOREM RootEarnsItsState ==
    Spec => []InSpecIsEarned
<1>1. Meaning => InSpecIsEarned
  BY DEF Meaning, InSpecIsEarned, AtRest, Reporting
<1> QED
  BY <1>1, MeaningHolds, PTL

\* check_state books a task again only when all that it depends on, however far up,
\* has begun once and was last reported in spec (not: has succeeded since).
THEOREM RecoveryStartsAtTheTop ==
    Spec => []RecoversFromTheTop
<1>1. Shape /\ Meaning => RecoversFromTheTop
  <2> SUFFICES ASSUME Shape, Meaning, pc = "lock", NEW a \in Ancestors(dep, order[pos])
               PROVE  exec[a] # "never" /\ reported[a] = "in"
    BY DEF RecoversFromTheTop
  <2> DEFINE S == {t \in Tasks : nodeState[t] = "in"}
  <2>1. Started /\ pos \in 2 .. Len(order) /\ order[pos] \in Tasks /\ ~HeldUp(order[pos])
    BY NodeIsTask DEF Shape, Started, AtNode, TypeOK, Meaning
  <2>2. ASSUME NEW t \in S PROVE ~HeldUp(t)
    <3>1. PICK i \in 2 .. Len(order) : order[i] = t
      BY <2>1, GraphIsComplete
    <3>2. Judged(t)
      BY <3>1 DEF Meaning, Evaluated, InPass
    <3> QED
      BY <3>2 DEF Judged
  <2>3. \A t \in S \cup {order[pos]} : dep[t] \cap Tasks \subseteq S
    BY <2>1, <2>2 DEF HeldUp
  <2>4. a \in S
    <3>1. S \in SUBSET Tasks
      OBVIOUS
    <3> HIDE DEF S
    <3>2. Ancestors(dep, order[pos]) \subseteq S
      BY <2>1, <2>3, <3>1, AncestorsLeast, Zenon
    <3> QED
      BY <3>2
  <2> QED
    BY <2>4 DEF Meaning, Reporting
<1> QED
  BY <1>1, MeaningHolds, PTL

\* Between two passes the controller's view of a task differs from its state only
\* below a task that was reported out of spec: silence always has a reason the
\* controller knows.
THEOREM SilenceHasAReason ==
    Spec => []SilenceIsExplained
<1>1. Shape /\ Meaning => SilenceIsExplained
  <2> SUFFICES ASSUME Shape, Meaning, AtRest, NEW t \in Tasks, nodeState[t] # reported[t]
               PROVE  /\ nodeState[t] = "out"
                      /\ \E a \in Ancestors(dep, t) : reported[a] = "out"
    BY DEF SilenceIsExplained
  <2>1. Started /\ dep \in Dependencies /\ Acyclic(dep)
    BY GraphIsComplete, ManagerAssumption DEF AtRest, Started, Shape, TypeOK
  <2>2. ASSUME NEW u \in Tasks
        PROVE  nodeState[u] = reported[u] \/ (nodeState[u] = "out" /\ HeldUp(u))
    <3>1. PICK i \in 2 .. Len(order) : order[i] = u
      BY <2>1, GraphIsComplete
    <3>2. Judged(u)
      BY <3>1 DEF Meaning, Evaluated, AtRest, InPass
    <3> QED
      BY <3>2 DEF Judged, Reporting, AtRest
  <2>3. ASSUME \A a \in Ancestors(dep, t) : reported[a] # "out" PROVE FALSE
    <3> DEFINE B == {a \in Ancestors(dep, t) : nodeState[a] = "out"}
    <3>1. B \subseteq Tasks
      BY <2>1, AncestorsClosed
    <3>2. ASSUME NEW u \in Tasks, HeldUp(u), dep[u] \cap Tasks \subseteq Ancestors(dep, t)
          PROVE  dep[u] \cap B # {}
      BY <3>2 DEF HeldUp, Shape
    <3>3. B # {}
      BY <2>1, <2>2, <3>2, AncestorsClosed
    <3>4. \A a \in B : dep[a] \cap B # {}
      <4> SUFFICES ASSUME NEW a \in B PROVE dep[a] \cap B # {}
        OBVIOUS
      <4>1. HeldUp(a)
        BY <2>2, <2>3, <3>1
      <4> QED
        BY <2>1, <3>1, <3>2, <4>1, AncestorsClosed
    <3> HIDE DEF B
    <3> QED
      BY <2>1, <3>1, <3>3, <3>4 DEF Acyclic
  <2> QED
    BY <2>2, <2>3
<1> QED
  BY <1>1, MeaningHolds, PTL
=============================================================================
