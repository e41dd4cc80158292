-------------------------- MODULE LocalTaskManager --------------------------
(***************************************************************************)
(* The local task manager (hal/local_task_manager.py): the coroutine serve *)
(* that walks the calibration DAG once a second, reports what it finds and *)
(* has the scheduler run what is out of spec; and, as its environment, the *)
(* scheduler's jobs for these tasks (scheduler/scheduler.py, whose slots   *)
(* and times are the subject of AgentScheduler).                           *)
(*                                                                         *)
(* Atomicity.  One asyncio thread: between two awaits of serve nothing     *)
(* else runs.  Every value of pc at which serve is suspended is in         *)
(* Suspended, and the environment steps only there.                        *)
(*                                                                         *)
(* Time.  exec[t] says whether last_exec is unset, within the interval or  *)
(* older.  check_state reads the clock once, on entry: overdue is what was *)
(* older then, and what expires later is found by the next pass only.      *)
(***************************************************************************)
EXTENDS TaskGraph

CONSTANTS
    Configurations, \* the dependencies the agent may be configured with
    TooFrequent,    \* the tasks of each whose interval is no longer than a slot
    MaxFaults       \* bound: failures and expiries in one behaviour of each

ASSUME ManagerAssumption ==
    /\ Configurations \subseteq Dependencies
    /\ TooFrequent \in [Configurations -> SUBSET Tasks]
    /\ MaxFaults \in [Configurations -> Nat]

VARIABLES
    dep,        \* "Dependency" of each task
    order,      \* topo_order of the pass
    pc,         \* where start or serve is
    pos,        \* the loop's position in order
    nodeState,  \* G.nodes[n]["state"]
    reported,   \* G.nodes[n]["prev_state"]: the state last reported
    resched,    \* self._prev_rescheduled
    found,      \* what pass 2 found under the name of the task it visits
    overdue,    \* the tasks whose interval had passed when the pass began
    agentState, \* prev_state of serve: the agentState last reported
    exec,       \* allocation.last_exec, against the interval
    failed,     \* allocation.failed
    booked,     \* the tasks that have a job in the store
    failing,    \* the tasks with an operation under way whose error event will
                \* find its allocation
    named,      \* what _alloc_by_name holds under the task's name
    faults      \* failures and expiries so far

managerVars == <<order, pc, pos, nodeState, reported, resched, found,
                 overdue, agentState>>
jobVars == <<exec, failed, booked, failing>>
vars == <<dep, managerVars, jobVars, named, faults>>

Suspended == {"start", "book", "inspect", "announce", "lock", "delay", "report",
              "sleep", "refused", "dead"}
Working == {"pass", "evaluate", "frontier"}

\* The task's own allocation, that of an experiment of the same name, none.
Entries == {"own", "taken", "gone"}

TypeOK ==
    /\ dep \in Configurations
    /\ order \in Seq(Ids)
    /\ pc \in Suspended \cup Working
    /\ pos \in Nat
    /\ nodeState \in [Tasks \cup {Root} -> {"out", "partial", "in"}]
    /\ reported \in [Tasks -> {"none", "out", "in"}]
    /\ resched \subseteq Tasks /\ overdue \subseteq Tasks
    /\ agentState \in {"none", "out", "partial", "in"}
    /\ exec \in [Tasks -> {"never", "fresh", "stale"}]
    /\ failed \in [Tasks -> BOOLEAN]
    /\ booked \subseteq Tasks /\ failing \subseteq Tasks
    /\ named \in [Tasks -> Entries] /\ found \in Entries
    /\ faults \in 0 .. MaxFaults[dep]

Init ==
    /\ dep \in Configurations
    /\ order = <<>> /\ pc = "start" /\ pos = 1
    /\ nodeState = [n \in Tasks \cup {Root} |-> "out"]
    /\ reported = [t \in Tasks |-> "none"]
    /\ resched = {} /\ found = "own" /\ overdue = {} /\ agentState = "none"
    /\ exec = [t \in Tasks |-> "never"]
    /\ failed = [t \in Tasks |-> FALSE]
    /\ booked = {} /\ failing = {}
    /\ named = [t \in Tasks |-> "own"]
    /\ faults = 0

-----------------------------------------------------------------------------
(* Shared parts *)

\* kahn_topological_sort of the graph, which no longer changes.
TopoOrder == [d \in Configurations |-> KahnOrder(d)]

Fault == faults < MaxFaults[dep] /\ faults' = faults + 1

\* run_immediately: the jobs that have not begun leave the store, no job id
\* of the task is known any more, and it is booked from now on, unless there
\* is no free slot.
RunImmediately(t) ==
    /\ failing' = failing \ {t}
    /\ \/ booked' = booked \cup {t} /\ UNCHANGED faults
       \/ booked' = booked \ {t} /\ Fault
    /\ UNCHANGED <<exec, failed>>

\* The exception of a publish, or of a name that is no calibration task's,
\* leaves serve, which nobody restarts.
Die == pc' = "dead" /\ Fault /\ UNCHANGED <<order, pos, nodeState, reported,
    resched, found, overdue, agentState, jobVars, dep, named>>

\* Fault: only a task all of whose parents are out of spec is blocked.
BlockedByAll(n) ==
    Parents(dep, n) # {} /\ \A p \in Parents(dep, n) : nodeState[p] # "in"

Blocked(n) == \E p \in Parents(dep, n) : nodeState[p] # "in"

-----------------------------------------------------------------------------
(* start and start_tasks *)

Start ==
    /\ pc = "start"
    /\ order' = TopoOrder[dep]
    /\ IF HasCycle(dep) THEN pc' = "refused" /\ pos' = pos
                        ELSE pc' = "book" /\ pos' = 2
    /\ UNCHANGED <<dep, nodeState, reported, resched, found, overdue, agentState,
                   jobVars, named, faults>>

\* One iteration of start_tasks.  A node that only a "Dependency" names has
\* no interpreter, and preallocate raises for an interval that is no longer
\* than a slot: the exception ends start.
Book ==
    /\ pc = "book" /\ pos <= Len(order)
    /\ IF order[pos] \in Tasks \ TooFrequent[dep]
       THEN pos' = pos + 1 /\ pc' = pc /\ RunImmediately(order[pos])
       ELSE pc' = "refused" /\ UNCHANGED <<pos, jobVars, faults>>
    /\ UNCHANGED <<dep, order, nodeState, reported, resched, found, overdue,
                   agentState, named>>

Serve ==
    /\ pc = "book" /\ pos > Len(order)
    /\ pc' = "pass"
    /\ UNCHANGED <<dep, order, pos, nodeState, reported, resched, found, overdue,
                   agentState, jobVars, named, faults>>

-----------------------------------------------------------------------------
(* check_state: pass 1 *)

\* Fault: the root keeps the state the last pass gave it.
BeginPassBlocked ==
    /\ pc = "pass"
    /\ order' = TopoOrder[dep]
    /\ overdue' = {t \in Tasks : exec[t] = "stale"}
    /\ pos' = 2 /\ pc' = "evaluate"
    /\ UNCHANGED <<dep, nodeState, reported, resched, found, agentState, jobVars, named,
                   faults>>

BeginPass ==
    /\ pc = "pass"
    /\ order' = TopoOrder[dep]
    /\ overdue' = {t \in Tasks : exec[t] = "stale"}
    /\ nodeState' = [nodeState EXCEPT ![Root] = "in"]
    /\ pos' = 2 /\ pc' = "evaluate"
    /\ UNCHANGED <<dep, reported, resched, found, agentState, jobVars, named, faults>>

InSpec(t) ==
    named[t] = "own" /\ exec[t] # "never" /\ ~failed[t] /\ t \notin overdue

\* Fault: a task never executed counts as partially out of spec.
VerdictPartial(t) ==
    IF InSpec(t) THEN "in" ELSE IF exec[t] = "never" THEN "partial" ELSE "out"

Verdict(t) == IF InSpec(t) THEN "in" ELSE "out"

\* Fault: the comparison is with the last state, not the last reported.
ChangedState(t, s) == s # nodeState[t]

Changed(t, s) == s # reported[t]

\* A task with a parent out of spec inherits it and is not reported.
InheritFailure ==
    /\ pc = "evaluate" /\ pos <= Len(order)
    /\ Blocked(order[pos])
    /\ nodeState' = [nodeState EXCEPT ![order[pos]] = "out"]
    /\ pos' = pos + 1
    /\ UNCHANGED <<dep, order, pc, reported, resched, found, overdue, agentState,
                   jobVars, named, faults>>

\* A change is reported before prev_state is set: serve is suspended.
Evaluate ==
    /\ pc = "evaluate" /\ pos <= Len(order)
    /\ ~Blocked(order[pos])
    /\ LET t == order[pos]
           s == Verdict(t)
       IN  /\ nodeState' = [nodeState EXCEPT ![t] = s]
           /\ resched' = IF s = "in" THEN resched \ {t} ELSE resched
           /\ IF Changed(t, s) THEN pc' = "inspect" /\ pos' = pos
                                 ELSE pc' = pc /\ pos' = pos + 1
    /\ UNCHANGED <<dep, order, reported, found, overdue, agentState, jobVars,
                   named, faults>>

\* An experiment of the controller has the task's name and has begun: its
\* allocation has no interval to add.
EvaluateOther ==
    /\ pc = "evaluate" /\ pos <= Len(order)
    /\ ~Blocked(order[pos]) /\ named[order[pos]] = "taken"
    /\ Die

Inspected ==
    /\ pc = "inspect"
    /\ \/ /\ reported' = [reported EXCEPT ![order[pos]] = nodeState[order[pos]]]
          /\ pos' = pos + 1 /\ pc' = "evaluate"
          /\ UNCHANGED <<dep, order, nodeState, resched, found, overdue, agentState,
                         jobVars, named, faults>>
       \/ Die

-----------------------------------------------------------------------------
(* check_state: pass 2 and the root *)

EndEvaluation ==
    /\ pc = "evaluate" /\ pos > Len(order)
    /\ pc' = "frontier" /\ pos' = 2
    /\ UNCHANGED <<dep, order, nodeState, reported, resched, found, overdue,
                   agentState, jobVars, named, faults>>

\* Out of spec although every parent is in spec.
Frontier(n) == nodeState[n] = "out" /\ ~Blocked(n)

\* The allocation is looked up before the announcement is awaited.
VisitFrontier ==
    /\ pc = "frontier" /\ pos <= Len(order)
    /\ IF Frontier(order[pos])
       THEN /\ pc' = IF order[pos] \in resched THEN "lock" ELSE "announce"
            /\ pos' = pos /\ found' = named[order[pos]]
       ELSE pc' = pc /\ pos' = pos + 1 /\ found' = found
    /\ UNCHANGED <<dep, order, nodeState, reported, resched, overdue,
                   agentState, jobVars, named, faults>>

Announced ==
    /\ pc = "announce"
    /\ \/ /\ resched' = resched \cup {order[pos]} /\ pc' = "lock"
          /\ UNCHANGED <<dep, order, pos, nodeState, reported, found, overdue,
                         agentState, jobVars, named, faults>>
       \/ Die

\* self._scheduler.lock is ours.  run_immediately skips None and fails on an
\* allocation that has no interval.
Reschedule ==
    /\ pc = "lock"
    /\ \/ /\ found # "taken"
          /\ pos' = pos + 1 /\ pc' = "frontier" /\ found' = "own"
          /\ IF found = "own" THEN RunImmediately(order[pos])
                              ELSE UNCHANGED <<jobVars, faults>>
          /\ UNCHANGED <<dep, order, nodeState, reported, resched, overdue,
                         agentState, named>>
       \/ found = "taken" /\ Die

\* Fault: only the tasks directly below the root are looked at.
RootStateOfChildren ==
    IF \A t \in Tasks : Root \in dep[t] => nodeState[t] = "in" THEN "in" ELSE "out"

RootState ==
    LET states == {nodeState[order[i]] : i \in 2 .. Len(order)}
    IN  CASE states \subseteq {"in"} -> "in"
          [] states = {"out"} -> "out"
          [] OTHER -> "partial"

UpdateRoot ==
    /\ pc = "frontier" /\ pos > Len(order)
    /\ nodeState' = [nodeState EXCEPT ![Root] = RootState]
    /\ pc' = "delay"
    /\ UNCHANGED <<dep, order, pos, reported, resched, found, overdue, agentState,
                   jobVars, named, faults>>

-----------------------------------------------------------------------------
(* serve *)

EndDelay ==
    /\ pc = "delay"
    /\ pc' = IF nodeState[Root] # agentState THEN "report" ELSE "sleep"
    /\ UNCHANGED <<dep, order, pos, nodeState, reported, resched, found, overdue,
                   agentState, jobVars, named, faults>>

ReportAgent ==
    /\ pc = "report"
    /\ \/ /\ agentState' = nodeState[Root] /\ pc' = "sleep"
          /\ UNCHANGED <<dep, order, pos, nodeState, reported, resched, found, overdue,
                         jobVars, named, faults>>
       \/ Die

Wake ==
    /\ pc = "sleep"
    /\ pc' = "pass"
    /\ UNCHANGED <<dep, order, pos, nodeState, reported, resched, found, overdue,
                   agentState, jobVars, named, faults>>

Manager ==
    \/ Start \/ Book \/ Serve
    \/ BeginPass \/ InheritFailure \/ Evaluate \/ EvaluateOther \/ Inspected
    \/ EndEvaluation \/ VisitFrontier \/ Announced \/ Reschedule \/ UpdateRoot
    \/ EndDelay \/ ReportAgent \/ Wake

-----------------------------------------------------------------------------
(* The scheduler's side of a calibration task *)

\* run_and_update begins: the task counts as executed, without failure, from
\* now on.  The window may hold a job for the next interval or not.  An
\* operation that ends well leaves nothing behind that serve reads.
JobBegins(t) ==
    /\ pc \in Suspended /\ t \in booked
    /\ failed' = [failed EXCEPT ![t] = FALSE]
    /\ exec' = [exec EXCEPT ![t] = "fresh"]
    /\ overdue' = overdue \ {t}
    /\ booked' \in {booked, booked \ {t}}
    /\ \/ UNCHANGED <<failing, faults>>
       \/ failing' = failing \cup {t} /\ Fault
    /\ UNCHANGED <<dep, order, pc, pos, nodeState, reported, resched, found, agentState, named>>

\* The error event reaches job_listener, which finds the allocation by job id.
JobFails(t) ==
    /\ pc \in Suspended /\ t \in failing
    /\ failing' = failing \ {t}
    /\ failed' = [failed EXCEPT ![t] = TRUE]
    /\ UNCHANGED <<dep, managerVars, exec, booked, named, faults>>

\* preallocate has seen the task.
Preallocated(t) ==
    \E i \in 2 .. Len(order) : order[i] = t /\ (pc \in {"book", "refused"} => i < pos)

\* update_schedule books a task whose jobs have run out as the window moves.
WindowMoves(t) ==
    /\ pc \in Suspended /\ Preallocated(t) /\ t \notin booked
    /\ booked' = booked \cup {t}
    /\ UNCHANGED <<dep, managerVars, exec, failed, failing, named, faults>>

Expire(t) ==
    /\ pc \in Suspended /\ exec[t] = "fresh"
    /\ exec' = [exec EXCEPT ![t] = "stale"]
    /\ Fault
    /\ UNCHANGED <<dep, managerVars, failed, booked, failing, named>>

\* handle_submit books an experiment under the task's name; dropping that
\* block later takes the name out of the index, for the next experiment to take.
NameTaken(t) ==
    /\ pc \in Suspended /\ Preallocated(t)
    /\ \/ named[t] # "taken" /\ named' = [named EXCEPT ![t] = "taken"] /\ Fault
       \/ named[t] = "taken" /\ named' = [named EXCEPT ![t] = "gone"] /\ UNCHANGED faults
    /\ UNCHANGED <<dep, managerVars, jobVars>>

Environment ==
    \E t \in Tasks : \/ JobBegins(t) \/ JobFails(t) \/ WindowMoves(t)
                     \/ Expire(t) \/ NameTaken(t)

Next == Manager \/ Environment

Spec == Init /\ [][Next]_vars

\* serve and the event loop run, and a booked job is begun.  That needs strong
\* fairness: while a pass does not await, nothing else runs.
FairSpec ==
    /\ Spec
    /\ WF_vars(Manager)
    /\ \A t \in Tasks : SF_vars(JobBegins(t))

-----------------------------------------------------------------------------
(* Properties *)

AtRest == pc \in {"delay", "report", "sleep"}

\* The task graph of a run is the one the configuration describes: start_tasks
\* refuses only cyclic ones and those with an unknown dependency or too short an
\* interval, never serves one that is cyclic, and
\* the order used from then on visits every node once, parents first.
OrderIsTopological ==
    /\ pc = "refused" => \/ ~Acyclic(dep)
                         \/ \E t \in Tasks : Unknown \in dep[t]
                         \/ TooFrequent[dep] # {}
    /\ pc \notin {"start", "refused"} => IsTopological(dep, order) /\ order[1] = Root /\ Acyclic(dep)

\* A task is booked again by check_state only when everything it depends on,
\* however far up, has begun at least once and was last reported in spec: what
\* the parents are at this await, computed several awaits before, stands for
\* the whole chain.  (Begun: BlockedUntilSuccess says what more it is not.)
RecoversFromTheTop ==
    pc = "lock" => \A a \in Ancestors(dep, order[pos]) :
                       exec[a] # "never" /\ reported[a] = "in"

\* The comment on pass 2 (local_task_manager.py:182): "reschedule it and leave
\* its descendants blocked until it succeeds".  Then no operation that is going
\* to fail would be under way above a task that is booked again.  The code does
\* not keep this: run_and_update clears failed and sets last_exec before it
\* awaits the operation (scheduler.py:269), so a task is in spec, and those
\* below it are booked, from its beginning.
BlockedUntilSuccess ==
    pc = "lock" => Ancestors(dep, order[pos]) \cap failing = {}

\* Between two passes, a root in spec means that every task has been executed
\* and that the controller was told each of them is in spec, at any depth.
\* (During a pass the root reads in spec whatever the tasks' states.)
InSpecIsEarned ==
    (AtRest /\ nodeState[Root] = "in") =>
        \A t \in Tasks : exec[t] # "never" /\ reported[t] = "in"

\* Blocked tasks change state without a report.  Between two passes what the
\* controller was told of a task differs from its state only if the task is
\* blocked, and then some task above it was reported out of spec.
SilenceIsExplained ==
    AtRest => \A t \in Tasks : nodeState[t] # reported[t] =>
        /\ nodeState[t] = "out"
        /\ \E a \in Ancestors(dep, t) : reported[a] = "out"

Undisturbed == pc \notin {"refused", "dead"} /\ \A t \in Tasks : named[t] = "own"

\* After the last failure and the last expiry the agent reports IN_SPEC and
\* stays there, as long as serve lives and the tasks keep their names.
BackInSpec == []Undisturbed => <>[](agentState = "in")
=============================================================================
