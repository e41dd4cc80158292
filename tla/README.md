# A TLA+ model of the quant-net agent

This directory models the agent of `src/`: a process beside the hardware of one
node of a quantum network. It books calibrations and experiments in a table of
time slots, runs them, watches whether the node is in specification, and keeps
the state of the links to its neighbours. Everything runs in one asyncio event
loop; the only other thread is the shell's.

Paths below are relative to `src/quantnet_agent/`.

## 1. Inventory

| Component | State | Operations | What is hard |
|---|---|---|---|
| Scheduler (`scheduler/scheduler.py`) | table of slots, two lists of allocations, indices by name and job id, APScheduler's jobs, start times of experiments | preallocate, run_immediately, update_schedule, submit, cancel, getResult, getSchedule, two listeners, the executions | the window moves under everything that is booked; jobs may be late, missed or dropped while they run; the same relation is kept in several places |
| getSchedule (`hal/interpreter/scheduler.py`) | none | forwards the query | error reply that is not returned |
| Task manager (`hal/local_task_manager.py`) | DAG of tasks with a state per node, the set of tasks reported as rescheduled | check_state once a second, start_tasks, add_task, add_dependency | two passes with awaits between and within them, reading fields the scheduler writes |
| Link adjacency (`service/link_adjacency.py`, `hal/interpreter/link.py`, `hal/link_state_table.py`) | an entry per channel: state, hello times, last published state | hello loop, hold timers, probes, hello/probe handlers, connect, disconnect | lost and late hellos, answers that arrive after the state has changed, manual commands |
| Life cycle and registration (`service/agent.py`, `service/register.py`) | started, should_exit, registered, heartbeat | startup, registration with retries, handle_exit | exit during start-up or during a registration call, a failing deregistration |
| Shells (`service/repl.py`, `service/remote_repl.py`) | pending call, its result | dispatch of a command to the event loop, exit | interrupts and time-outs while the loop's answer is under way |
| Node and command registry (`hal/node.py`) | commands of core and plugins | register_command, start | order of built-in and user commands |
| Experiment framework (`hal/interpreter/exp_framework.py`, `calibration_interpreter.py`, `hal/driver/artiq.py`, `overlayexpframework.py`) | the last run id of each experiment | submit, receive | ARTIQ goes on between two calls; results are read by name after the run; the task's status may change before its operation has ended |
| HAL (`hal/HAL.py`) | the devices that loaded | load | a driver that does not load ends start-up |
| Other calibration interpreters, device drivers (also `simulator.py`, `dummy.py`), configuration, logging | device handles | device I/O | nothing that interleaves |

How they interact: the task manager books its tasks with `preallocate` and, once
a second, reads `last_exec`, `failed`, `status` of the allocations and calls
`run_immediately` under the scheduler's lock. The controller calls
`scheduler.getSchedule`, `experiment.submit`, `experiment.cancel`,
`experiment.getResult` and `link.control` by RPC. APScheduler calls
`run_and_update` and the two listeners. The link manager reads the state of the
DAG's root before it probes. Registration opens the gate of the hello loop.

What makes each correct: the scheduler - table, indices and jobs agree, nobody
is booked on top of another, tasks are booked for ever; the task manager - a
task is run again when everything above it is in spec (which means begun, not yet
failed: see 6) and it is not; links - CONTROL_UP only after both ends have heard
each other, QUANTUM_UP only after an answered probe (from any state when it is made
by hand or answered late), DOWN after silence if the link has a time to measure it
from; experiments - a result is that of the run it is reported for, or of no older
one; life cycle - an agent that has ended is not on the controller's list unless its
goodbye was lost or came before Register was connected, and exit completes once
start-up has; shells - no command hangs. Section 6 lists what the code does against
this. The hazards of each, with their lines,
are in `PROJECT.json`.

## 2. Plan

All of it is done. The order is that of importance.

1. `SlotTable` - the table and the booking search as operators; `BookingLoop` -
   the booking loop, iteration by iteration; earns `Greedy`.
2. `AgentScheduler` - the scheduler with its jobs, clock and RPCs, and the
   proofs about it.
3. `LinkAdjacency` - several agents, lossy hellos, awaits split; implements
   `LinkProtocol`, what the links of all agents may do together.
4. `TaskGraph`, `LocalTaskManager` - the calibration DAG and the two passes, with
   the scheduler reduced to what they read.
5. `CommandRegistry`, `AgentProcess` - devices and commands, start-up,
   registration, exit, the shell's thread; `AgentShells` - the same with a remote
   session, shown to implement it.
6. `ExperimentRun` - operations, ARTIQ and results.
7. Proofs of the safety of 4, 5 and 6.
8. Proofs of what was only model-checked: the window of the scheduler, the timers of
   the links, the sort of the DAG (`TaskGraphProofs`),
   the handlers of the interpreters.

## 3. Modules

### SlotTable
Pure operators on a table `ts \in [0 .. size-1 -> owner or None]`. `Greedy(ts,
S, p0, n, k)` says which set `S` of starts `schedule_allocations` books for a
task of `n` slots every `k` slots: each start is the least one admissible after
those below it, and none is left. `Shifted`, `ShiftedSize` and `ShiftedIndices`
are the slice arithmetic of `update_schedule`; `CeilSlots` and `IntSlots` the
two roundings of the code, which differ exactly where it matters.

### BookingLoop
`schedule_allocations`, `schedule_next_allocation` and `_get_free_slots`, one
action per branch: `BookRequested`, `BeginSearch`, `TryNext`, `BookFound`,
`GiveUp`, `LoopEnd`. Its initial states are every table and every request within
the bounds, so the module is a test of `Greedy` against the loop.

### AgentScheduler
| Variable | Code |
|---|---|
| `clock` | `datetime.now() - self.base`, in ticks |
| `wake` | end of the sleep in `_handle_jobs` |
| `lock`, `todo`, `shift`, `request` | `self.lock` and the local variables of the two handlers that loop under it |
| `size`, `timeslots` | `self.timeslots` |
| `local`, `remote`, `byName` | the two lists and `_alloc_by_name` |
| `slotIdx`, `last`, `width`, `failed`, `executed`, `checking` | fields of `Allocation`: `_slot_indices`, `last_allocation[0]`, `len(last_allocation)`, `failed`, `last_exec is not None`, `status == CHECK` |
| `blk`, `created` | `exp_id`, `name`, `start_time` of remote allocations |
| `pending`, `due`, `running` | a job in APScheduler's store, handed to the executor, begun; `known` is its entry in `_alloc_by_job_id` |
| `missed` | tasks `_handle_missed_allocation` not yet run |
| `started`, `waiting` | keys of `_exp_start_times`; deadlines of polling getResult requests |

| Action | Code |
|---|---|
| `Preallocate`, `Reschedule`, `HandleMissed` | `preallocate`, the task manager's call, the missed-job task; all through `RunImmediately` = `delete_allocation` + `schedule_allocations` |
| `SwitchToCheck` | the task manager makes an allocation a status check of another duration |
| `UpdateBegin`, `UpdateTask`, `UpdateEnd` | `update_schedule`: shift, one local allocation, pruning of the remote ones |
| `SubmitBegin`, `SubmitSkip`, `SubmitBlock`, `SubmitEnd` | `handle_submit`, block by block; `SubmitEnd` is success, code 6 and the IndexError alike |
| `Cancel`, `GetResult`, `EndPoll` | `handle_cancel`, `handle_update_result` |
| `HandOver`, `Start`, `Misfire`, `Finish` | APScheduler and the functions it calls |
| `Tick` | time |

getSchedule reads the table in one step and changes nothing; it is left out.

Abstractions, and why they lose nothing the properties tell apart:

- *Time is relative to `base`.* The code computes every index from `base`; where
  it advances `base`, the module reduces every time it keeps. The state space is
  finite though the agent runs for ever.
- *A handler is one step*, or one step per allocation under `lock`. No coroutine
  that holds `self.lock` awaits anything that suspends (`run_immediately` and
  `delete_allocation` contain no suspension point), so the event loop cannot
  switch inside. The steps of a loop are kept apart because each computes on what
  the one before left.
- *Order of `local_allocations`* is left open: `update_schedule` may visit the
  tasks in any order, which includes the list's.
- *The task manager* may reschedule a task of `Rescheduled` at any time and
  switch a task of `Checked` once it has executed without failure; when it does
  depends on expiry times and on the DAG, which are in `LocalTaskManager`.
- *Dead fields.* Indices and start times of allocations on neither list are
  dropped, nothing reads them. Executions of one allocation with all their slots
  past are not told apart.
- *Names.* `Tasks` and `Names` are disjoint (`NamesApart`); in the code a
  controller that chooses a task's name replaces its entry in `_alloc_by_name`
  (`NameTaken` of `LocalTaskManager`). Blocks with the same name are modelled.
- The initial state is the one after `_handle_jobs` has set `base`.
- Negative slot numbers in a submission, which Python would read from the end of
  the table, are not modelled; the schema's numbers are offsets from the base.

### LinkProtocol
What the links of all agents do together: `Open` (from DOWN only), `Hear` (an
agent hears a neighbour and may confirm links it is opening, if the neighbour has
heard it too), `Probed`, `Close`, and `Forget` for a crash.

### LinkAdjacency
The tables, hello loops and handlers of several agents and the messages between
them. It says which step of which agent makes which move of `LinkProtocol`.

| Variable | Code |
|---|---|
| `state`, `published` | `entry.state`, `entry.last_published_state`: what the controller was last told |
| `initAge`, `helloAge` | time since `entry.init_since`, `entry.last_neighbor_hello` |
| `heard` | neighbours with an entry whose `last_hello_received` is set; what `seen_neighbors` says |
| `hold` | `hold_time` of the manager, which `set_hold_time` copies to every entry |
| `pc`, `sleep`, `todo` | where `_hello_loop` is: asleep, in the `gather` of hellos, or in the probe loop with these entries to visit |
| `calls`, `late` | RPCs being awaited; requests whose call has ended but which may still arrive |
| `started`, `alive`, `inSpec` | the loop has been started, the process runs, the root of the DAG is in spec |

| Action | Code |
|---|---|
| `Start` | the end of `start`, once registered |
| `SendHellos`, `CheckHoldTimers`, `VisitLink`, `PublishPending` | the parts of `_hello_loop` between its awaits |
| `HelloAnswered`, `ProbeAnswered`, `CallFails` | what follows the awaits in `_send_hello` and `_send_probe` |
| `ServeHello`, `ServeProbe` | `handle_hello`, `handle_probe` |
| `Connect`, `Disconnect`, `ManualProbe`, `SetHoldTime` | the actions of `link.control` |
| `ChangeSpec`, `Crash`, `Restart`, `Tick` | the environment |

Abstractions:

- *A step runs from one await to the next.* Code between two awaits runs alone on
  the event loop of its agent; `Idle` says that the loop of an agent is free.
  Between awaits anything may happen: an answer may find its link taken down, a
  timer may find it confirmed.
- *A call ends with an answer or an exception.* After an exception the request may
  be lost or arrive later (`late`), so messages are lost, delayed and reordered.
  The broker does not duplicate requests.
- *Every hello counts for the neighbour.* `handle_hello` stores
  `last_hello_received` in one entry, but its effects and `seen_neighbors` (a key
  of any entry of the neighbour will do) depend on the neighbour only.
- *One reading of the specification per round.* `_probe_if_ready` reads the root's
  state once, before its loop, as `CheckHoldTimers` does, which runs without an
  await before it.
- *`hello_interval`* is a constant; `set hello-interval` would change the sleep
  only. `stop` is left out. The switch check is unreachable: `_load_neighbors`
  gives every entry `switch_in_path` False.

- *A report may fail.* `_publish_state_update` sets `last_published_state` only when
  nothing raises (`Publish`). `Reports` says of each agent whether its reports go
  out, do not, or either at each link and step. `Pending` is what the scan at the
  end of a round (`_publish_pending_updates`) finds to report.
- At most one manual call per entry is under way at a time.

A crashed agent restarts with an empty table: nothing is persisted.

### TaskGraph
The configured dependencies as a graph and `kahn_topological_sort`, step by step
(`KahnStart`, `KahnStep`, `KahnOrder`, `HasCycle`; `Select` is the comprehension that
keeps nodes in the order of the graph), beside what it is for (`Acyclic`,
`IsTopological`). A task id comes once: `add_task` refuses one that the graph has.
`add_edge` creates a node it does not find, so a
dependency on an unknown task gives a graph with one node more: the warning "No
dependency found" (`local_task_manager.py:285`) is never reached, and
`start_tasks` ends with a KeyError at that node.

### LocalTaskManager
The coroutine `serve` and, as its environment, what the scheduler does to the
allocations of these tasks.

| Variable | Code |
|---|---|
| `dep`, `order`, `pos` | the configured "Dependency" lists, `topo_order`, the position of the loop in it |
| `pc` | the await (or the part between two awaits) that `start` or `serve` is at |
| `nodeState`, `reported` | `state` and `prev_state` of each node |
| `resched`, `agentState` | `_prev_rescheduled`, the `prev_state` of `serve` |
| `exec`, `failed` | `last_exec` (never, within the interval, older) and `failed` of the allocation |
| `overdue` | the tasks whose interval had passed when `now` was read |
| `booked`, `failing` | a job waits; an operation is under way whose error will still find its allocation |
| `named`, `found` | what `_alloc_by_name` holds under the task's name, and what was read |

| Action | Code |
|---|---|
| `Start`, `Book` | `start`, `start_tasks` |
| `BeginPass`, `InheritFailure`, `Evaluate`, `EvaluateOther`, `Inspected`, `EndEvaluation` | pass 1 of `check_state` |
| `VisitFrontier`, `Announced`, `Reschedule`, `UpdateRoot` | pass 2 and the root |
| `EndDelay`, `ReportAgent`, `Wake`, `Die` | the rest of `serve`, and the exceptions that end it |
| `JobBegins`, `JobFails`, `WindowMoves`, `Expire`, `NameTaken` | the scheduler and the clock |

Every await of the two passes is a value of `pc` in `Suspended`; the environment
steps only there. The names of tasks may be taken by an experiment of the
controller (`NameTaken`), again and again. `TooFrequent` says which tasks of a
configuration `preallocate` refuses for their interval. Modelled as it is: `start_tasks` books all tasks at once
and their periodic jobs run also while a parent is out of spec, against the
comment at line 182; in spec means begun within the interval and not yet failed
(finding `tasks_early`).

### CommandRegistry
Which devices load and which handlers the interpreters get: functions of the
configuration, since nothing is served before they are done. `OwnNames` excludes
what `register_command` does not check: a user's interpreter of a new namespace
that names a built-in command, and any schedulable command, replaces a handler; so
does the second of two user's interpreters (two classes of one file) that add the
same command to a core namespace, where the first gets a handler but no entry.

### AgentProcess
| Variable | Code |
|---|---|
| `main` | the main thread: waiting for `_startup_done`, in the loop, at the prompt, in a command, in `set`, in the monitor, joining, or over |
| `console`, `interrupted`, `coro` | the root logger's handler, `_last_sigint_time`, the coroutine given to the loop by `_run_async` |
| `loop`, `ready`, `term`, `shouldExit`, `exit` | `startup`/`main_loop`, `_startup_done`, calls of `handle_exit`, `should_exit`, its deregistration |
| `client`, `started`, `registered` | `Register.start` and its two fields |
| `gate`, `links` | `registered` of the link manager and where its `start` is |
| `wire`, `replies`, `listed` | requests and answers under way, and the controller's list |
| `early`, `lost` | history: a goodbye before Register was connected, or lost |

| Action | Code |
|---|---|
| `Build`, `StartServer`, `StartTasks`, `MainLoopEnds` | `startup`, `main_loop` |
| `HandleExit`, `ExitAnswered`, `ExitTimesOut` | `handle_exit` |
| `RegisterConnects`, `RegisterAnswered`, `RegisterTimesOut`, `RegisterAgain` | `Register.start` with its retries |
| `LinkConnects`, `WatchRegistration`, `LinkStarts` | the link manager's start, behind the gate |
| `Ready`, `TypeCommand`, `RunCommand`, `CommandReturns`, `CommandTimesOut`, `TypeSet`, `SetReturns`, `LoggingConsole`, `Monitor`, `Leave`, `MainEnds` | `run` and the shell |
| `Terminate`, `InterruptPrompt`, `InterruptCommand`, `InterruptThread` | signals and Ctrl+C, by where the main thread is |
| `Serve`, `Lose` | the controller and the broker |

### AgentShells
`AgentProcess` with `set hold-time` in its two halves and a remote session that
calls `link.control`: requests (`inbox`, `serving`), the remote set between its two
writes (`half`), an answer that may be late, `hold` of the manager and of the
entries. `torn` remembers that two sets overlapped, which the two threads allow and
after which the two values may differ until the next set.

### ExperimentRun
| Variable | Code |
|---|---|
| `runs`, `done`, `data` | ARTIQ: the runs it was given, how many have left the schedule, the run that wrote each dataset last |
| `expid_to_rid`, `checking` | the driver's table; the run between `schedule.submit` and `_check_rid` |
| `status`, `began`, `failed` | `allocation.status`, `last_exec` or `_exp_start_times`, `allocation.failed` |
| `jobs` | operations that await their `pub_job` |
| `receiving`, `published`, `answers` | the waits of `receive`, the events and responses sent |
| `barren`, `dropped` | history: runs that wrote nothing, results given up by a fault or a rebooking |

| Action | Code |
|---|---|
| `Begin`, `BeginFails`, `Check` | `run_and_update`, the interpreter and `ArtiqClient.submit`; its calls block the loop, ARTIQ goes on between them |
| `JobEnds`, `Rebook`, `SwitchToCheck` | the `finally` of `run_and_update` with `job_listener`, `delete_allocation`, the task manager |
| `LookUp`, `Publish`, `Ask`, `Answer`, `WaitFails` | `publish_result`, `handle_update_result` and `receive` |
| `RunEnds` | ARTIQ: one pipeline, in order |

Not told apart: the parameters, the datasets of one result (they are read one after
the other; the first is the oldest), the text of ARTIQ's log.

### Proof modules
`AgentSchedulerProofs`, `SchedulerSlotProofs`, `BookingLoopProofs`,
`LinkAdjacencyProofs`, `TaskGraphProofs`, `LocalTaskManagerProofs`,
`AgentProcessProofs`, `ExperimentRunProofs`; see 5.

## 4. Runs

| Run | Instance | Shows |
|---|---|---|
| `booking` | window 4, tables of 4 to 6 slots, blocks of 1 to 3 slots every 1 to 3 | the loop ends, computes `Greedy` and nothing else fits it, overwrites nothing |
| `local` | two tasks (1 slot every 2; 1.5 slots every 4.5, later a 1-slot check), window 2, two ticks per slot, the loop up to 4 ticks late | table, index sets and jobs agree; updates fill the window and drop nothing that lies ahead |
| `remote` | one task that may be rescheduled at any time, two blocks of one experiment, window 3, submissions at the base and one and a half slots later | the same with submissions, cancellations, pruning and retries; no double booking |
| `live` | one task and an experiment that takes the whole window | the task is calibrated again and again, polls are answered |
| `prune` | no task, one block, window 4 | violation, see 6 |
| `link_safety` | A and B, a channel each way and the inbound entry of one; A's link connected, disconnected and probed by hand, A crashes and restarts, one late request | links come up only when both ends have heard each other, an open link loses its timer in one way only, and `LinkProtocol` is implemented, across crashes |
| `link_live` | A and B, messages arrive in time, hold times of 1 and 3 hello intervals that operators change, A in and out of spec, B crashes and restarts, A's reports fail now and then | links come up and stay up; a neighbour that stops is noticed; the controller learns of it |
| `link_classical` | as `link_live`, without crashes, links probed by hand | violation, see 6 |
| `tasks` | three tasks, listed in an order that is not topological: a join with one fault, a chain, two cycles and an unknown dependency with two faults each, and all 512 graphs without, one of them with too short an interval | the sort orders exactly the acyclic graphs; a task is booked again only when all above it have begun and were reported in spec; the root is in spec only if all tasks are; what the controller was told is explained; the agent is back in spec after the last fault |
| `tasks_early` | as `tasks` | violation, see 6 |
| `process` | with and without a shell; two signals or Ctrl+C with a fault, two faults, two or three remote requests, a driver that does not load, nine user configurations, of which five are refused | no handler is lost, the agent leaves the controller's list, settings agree, exit completes, prompts return |
| `results` | a calibration with a status check, an experiment that writes the same dataset, three runs, two requests, one fault | results are fresh, "done" means done, a full calibration's result arrives or the reason is visible |

Bounds: `MaxLate` (lateness of the event loop), `MaxRunning` (executions at a
time), `MaxBlocks` (remote allocations ever), `Requests` and `RequestBases`
(submissions), and `MaxSize`, `MaxSlots`, `MaxInterval` of `BookingLoop`. What
they must allow, and do: a window shorter than a task's interval and a task
longer than a slot (the search finds nothing, `last_allocation` lies outside the
window); a shift larger than the table (`local`: `MaxLate` = 2 slots in a window
of 2, update interval half a slot), so that the table grows; a misfire
(`MaxLate` > `Grace`); two blocks in one submission, of which the second does not
fit, or has no slots, or lists its slots out of order; half-slot times, so that
the two roundings differ. The code's own constants (20000 slots of 100 ms, an
update every half window) differ in size only; `TicksPerSlot`, `W` and
`UpdateInterval` are constants of the module and the proofs hold for all of them.

For the links, `Steered` (the entries operators act on) and `MaxLate` (requests
of ended calls under way) keep the runs small. In `link_safety` the hold
time and the hello interval are 0 ticks: a timer has expired after any tick, or
not, which is all its interleaving with messages depends on; a tick may pass
between any two steps. No report goes out in this run: only the filter of duplicate
reports reads `published`, so none of its properties depend on it. Probes by hand
are in this run and in `link_classical`; `link_live` has none, since after one from
DOWN silence need not be noticed (see 6). Late requests (`MaxLate`) are in `link_safety`
only: where messages arrive in time a request that outlives its call would arrive
within the same tick. One late request is enough for a hello from before a crash
or a disconnect to arrive after it. Two entries per pair of agents and one inbound
entry are every kind of entry there is; the proofs hold for any number of agents
and entries.

In `tasks` a fault is a failure, an expiry, a booking that finds no slot, a publish
that raises or a name that is taken; two are needed for a task to fail while it or
its parent is being rebooked, which the chain has; in the join one parent fails beside
another. In `process` each configuration carries its own bounds
(`signals`, `faults`, `requests` of a member of `Setups`), since only some of them
interact: signals with a lost call, two calls that are lost, remote requests among
themselves and with a signal. In `results` three runs are enough for a task to be
run again while its first result is awaited, with the experiment's run between them;
`MaxUnderWay` bounds the operations that await their `pub_job` at one time.

`booking` stops when the loop is done, `process` when the agent has ended, `results`
when its runs and requests are spent, and `tasks` (so too `tasks_early`) when start-up
was refused or `serve` has died and no job or fault is left: their deadlock checks are
off; the other runs check for deadlock.

Fairness (`FairSpec`), first of the scheduler, run `live`. A handler that holds the lock ends (WF:
it has no suspension point). The event loop serves ready callbacks and lock
waiters first come first served, so a handler that is ready again and again is
served (SF). Two conjuncts say that the loop is not late for every job of one task
for ever: without them the misfire of each job, which the code answers by booking
it again, could repeat without end. Operations are assumed to end: the scheduler
gives them no time limit, so this is an assumption on the drivers. The controller
and the task manager are under no obligation.

Fairness of the links, run `link_live`: loops run, registered agents start, calls
end (the RPC client has a time-out), time passes. That a hello is served before
its call ends, and that no message takes as long as a tick, is assumed in this
run only (`Prompt`): over a broker that loses every hello no link comes up, and
none should. Operators and crashes are under no obligation; `LinksComeUp` and
`ReportsCatchUp` speak of what follows when crashes have ended, the first also when
all agents are in specification from then on. Of an agent whose
reports may fail, a scan at the end of a round that reports all it finds is strongly
fair: reports do not fail for ever, and those of one round do not always fail in part.
It is each round's scan that makes up for a failure in another step.

Fairness of `tasks`: `serve` goes on (WF), and a task that is booked again and again
begins (SF: between the awaits of a pass nothing else runs). Faults are under no
obligation, and are bounded. `BackInSpec` speaks of behaviours in which `serve`
lives and the names of the tasks are kept.

Fairness of `process`: start-up and `main_loop`, `handle_exit`, a shell's coroutine
on the loop and the main thread go on (WF), and the remote session's call ends with
an answer or its timeout. What the user does, signals, the controller and losses
are free; so is registration, which ExitCompletes does not need.

Fairness of `results`: ARTIQ ends what it runs, the driver's second call is made,
an operation's `pub_job` ends, and each wait polls (all WF). Operations, questions,
the task manager and faults are free.

## 5. Proofs

Proved with TLAPS for every value of the constants allowed by the named
assumptions (`WAssumption`, `TicksAssumption`, `TimeAssumption`,
`TaskAssumption`, `RequestAssumption`, `NamesApart`, `BookingAssumption`,
`AgentAssumption`, `GraphAssumption`, `ManagerAssumption`, `ProcessAssumption`,
`ShellsAssumption`, `ExperimentRunAssumption`), which TLC evaluates in the runs.

- `AgentSchedulerProofs!TypeCorrect`. `TypeOK` needs the strengthening
  `Bookkeeping` (records exist for created blocks only, jobs and slots are those of
  created allocations, the request under way has its record), because
  `SubmitBlock` writes the record that `Start`, `GetResult` and `UpdateEnd` read.
- `SchedulerSlotProofs`: `SlotsAreOwned`, `PromisesHold`, `NeverDoubleBooked`. The
  three properties are not inductive alone. `SlotInv` is their conjunction, stated
  for any list, table and job sets so that it can also be asked of the state that
  `delete_allocation` leaves for `schedule_allocations`, with `Distinct`: a job
  that has not run holds the slot it starts in, two known jobs of one allocation
  start at different times, and no job is both in the store and with the
  executor. `Distinct` is what keeps two promises apart while jobs change sets.
  The central lemma is `BookingKeeps`: booking free, mutually disjoint blocks for
  one allocation keeps all of it. `UpdateBegin` needs that a shift is injective
  on the indices it keeps.
  `UpdatesKeepJobs`, an action property, needs `BookedUpToLast`: every pending job of
  a listed task lies at or before its `last_allocation`, so `run_immediately`, which
  starts a task over when its last booking is past, has none ahead to delete.
  `UpdatesFillTheWindow` has a hypothesis, `TasksFit`: no task lasts longer than its
  interval. The code does not check it and without it `WindowIsFilled` is false: a task
  of 3 slots with an interval of 1 still holds slots ahead when its next run has
  passed; `run_immediately` gives them back, and a task visited before it would fit
  there. `FillInv` says of the tasks already visited that nothing more fits them, and
  of every task that what is booked for it ends before it is to run next
  (`EndsInTime`): then a task visited later only takes slots, and one that starts
  over gives back only slots that are past.
- `BookingLoopProofs`: the invariant `LoopInv` says that the table is the initial
  one plus the booked blocks, that each booked block was the least candidate after
  those below it, and, during a search, that every start passed over is taken.
  `GreedyIsUnique` is proved by the least start at which two sets would differ
  (well-founded induction on an instance, no operator parameter). `LoopTypesHold` is
  a part of `LoopInv`.

- `LinkAdjacencyProofs`: `MutualBeforeUp` and `LinksFollowProtocol`, from
  `AgentAssumption` alone. `ControlUpIsMutual` is not inductive: a link is
  confirmed by what a message says, which may be old. `SeenIsTrue` adds that every
  hello under way that says "seen" comes from an agent that has heard the
  receiver, or has crashed and forgotten. The refinement needs the same fact at
  `Hear`; every other step maps to one move or to a stutter. `TypesHold`
  rests on `TInv`, whose core is `EntryOK`: an entry that is opening has the time it
  opened, a confirmed one of the hello loop the time of a hello, and one that is DOWN
  has no time it opened. Each way an entry is written is a lemma (`EntriesOpen`,
  `EntriesClose`, ...), cited by every step that writes it so. `OnlyHandsUntime`, an
  action property, also needs `Probes`: a probe of the loop is under way only for an
  entry that has the time of a hello, since it is made in CONTROL_UP and the time is
  never cleared while the agent runs. So its answer leaves a link timed, however
  late; what remains is the answer to a probe by hand.

- `TaskGraphProofs!KahnSorts`: for every list of tasks and every dependency between
  them `kahn_topological_sort` returns an order of all nodes, each once and after its
  parents, exactly if the graph has no cycle, and the root comes first. The
  invariant of the loop, `KahnInv`, says that the degree of a node counts its parents
  outside the order, that order and queue are disjoint and together are the nodes
  whose parents are all in the order, and that a node in the order has its parents
  before it; at the end every node left out has a parent left out. The library's induction theorems take an operator,
  which the provers cannot instantiate; induction is by the least counterexample
  instead (`LeastNat`), and that the recursive function of the loop exists is
  `WhileLoop`, for any set of states and any step: the states of one path share the
  state it ends in.
- `LocalTaskManagerProofs`: `TypesHold`, `OrderHolds`, `RootEarnsItsState`,
  `RecoveryStartsAtTheTop`, `SilenceHasAReason`. They rest on `KahnSorts`. `Shape`
  says where a pass can be in the order. `Meaning` is what a pass knows of the
  tasks it has evaluated: a task in spec has nothing out of spec above it, however
  far (`HeldUp`), and a state that differs from the report is held up or about to
  be reported. Its core is `BlockedIsHeldUp`: a parent in its state at this
  position of the pass stands for all ancestors, because the order is topological.
- `AgentProcessProofs`: `TypesHold`, `NoTraceIsLeft`, and for the process with both
  shells `ShellsTypesHold` and `SettingsStayEqual`. `Goodbye` adds to
  `LeavesNoTrace` that after the goodbye `started` is off and Register no longer
  connects, so no retry follows it. `HandlersAreKept`: `Registry` is a recursive
  function over interpreters, each of which is one over its commands. `Partly` is what
  holds after some commands of one interpreter (nothing was refused, earlier
  handlers of other commands are kept, entries only grow), `Sound` what holds after
  some interpreters (each has its handlers and its entries; the core's namespaces
  are those of built-in core components). A command that comes again would have
  been refused because of the entry of the first (`RepetitionIsRefused`).
  Induction is about sets of numbers (`EveryNumber`). `Halves` says that what the manager has and the
  entries have not yet is the value of the one set under way.
  `ShellsImplementProcess`: every step of `ShellsSpec` is a step of `Spec` or
  leaves its variables alone, so what is proved of the one holds of the other.
- `ExperimentRunProofs`: `TypesHold`, `NoStaleResult`, `DoneIsDone`. The invariant
  `IInv` adds: the table holds the last run of each caller (`Remembered`), a run that
  has ended has marked its dataset or wrote nothing (`Stored`), a task that is not a
  status check has never been one (`FullSoFar`), and what each wait waits for
  (`Waiting`). That ARTIQ ends runs in order is part of the model and is needed:
  the driver remembers one run for an experiment, and its end stands for the end of
  those before it.

Every invariant, action property and refinement that a passing run checks is stated
by a theorem. Only model-checked are the liveness properties `LoopTerminates`,
`Recalibrates`, `ResultAnswered`, `SilenceIsNoticed`, `LinksComeUp`, `ReportsCatchUp`,
`BackInSpec`, `ExitCompletes`, `PromptsReturn` and `ResultsArrive`: fairness and ENABLED are beyond
this prover. `WindowIsFilled` is proved under `TasksFit` only; the tasks of run
`local` satisfy it. No module uses a RECURSIVE operator.

## 6. Findings

`prune`: `update_schedule` keeps a remote allocation only if it has an attribute
`job` (`scheduler.py:244`). No allocation has one, so each update takes every
remote block off the list and frees its slots while its job still waits. The
comments at lines 247 and 404 say that only blocks whose job has fired are
pruned. The block will run; a new submission may take its slots; a cancel no
longer finds it. The other runs model this behaviour as it is: their properties
speak of allocations that are still listed.

`link_classical`: `link.control probe` sends a probe for any entry
(`hal/interpreter/link.py:77`) and the answer sets QUANTUM_UP, also of a classical
link, which `hal/link_state_table.py:26` says is capped at CONTROL_UP. The hello
loop respects the cap.

`tasks_early`: `run_and_update` clears `failed` and sets `last_exec` before it awaits
the operation (`scheduler.py:269`), so a task is in spec from its beginning and the
tasks below it are booked while it runs, also if it then fails. The comment on pass 2
(`local_task_manager.py:182`) says "reschedule it and leave its descendants blocked
until it succeeds". `RecoversFromTheTop` claims only what the code keeps: every task
above has begun once and was last reported in spec.

Four more behaviours of links are modelled as they are, since no document says
otherwise. A probe by hand of a link that is DOWN takes it to QUANTUM_UP
(`hal/interpreter/link.py:77`, `link_adjacency.py:266`); if it never heard a hello it
has neither time, and the hold timer skips it for ever (`link_adjacency.py:128`).
`OpenLinksAreTimed` says that this is the only way to such a link. A link that goes
DOWN while a probe is under way is QUANTUM_UP again when it is answered. A
link reopened after an outage is still measured from the last hello before it
(`last_neighbor_hello` is never cleared), so it goes DOWN at the next check unless
a hello arrives first. And a neighbour once heard stays in `seen_neighbors`, so
CONTROL_UP means that both ends have heard each other since their start, not that
they still do.

Others, met while modelling and modelled as they are:

- Life cycle: an exception during start-up leaves the main thread of an agent with
  a shell waiting for `_startup_done` for ever. SIGTERM from outside sets
  `should_exit` but leaves the main thread in `input()`. `main_loop` ends at most
  0.1 s after `should_exit`, so `handle_exit` often does not reach the stop of the
  link manager. Ctrl+C during a command, or a command of 30 s, ends the agent
  (`tests/test_repl_signals.py:30` speaks of Ctrl+C at the prompt). A goodbye said
  before Register is connected is followed by a registration.
- Remote shell: `monitor` always ends the session.
- Scheduler: nothing checks that a task is no longer than its interval; one that is
  leaves the window unfilled (see 5).
- Registry: a command that two user's interpreters add to a core namespace silently
  goes to the second.
- Task manager: an experiment with the name of a task makes `check_state` read its
  allocation, which has no interval: a TypeError ends `serve`.
- Results: a full calibration whose task turns into a status check during the await
  of its `pub_job` is not published. The status never returns to FULL, so a
  recalibration runs the status check. A run that is over before `_check_rid` counts
  as failed. Published values may come from a later run of another caller. A
  getResult answers for the runs submitted so far, not for blocks still to begin,
  and carries no dataset (`update_result` names none).

## 7. Not modelled

- Device drivers with the simulator and the dummies, the calibration interpreters
  other than `CalibrationInterpreter`, configuration and logging: input and output,
  or values read once; nothing that interleaves.
- Code without a caller: `stop` of the scheduler, of the node and of the
  calibration interpreter (and with it the driver's `reset`; `Node.stop` would also
  call the task manager's `stop` without awaiting it), `Register.update`,
  `PassthroughDriver.send` and `get_result`, the driver's `stop` and `cleanUp`,
  `_get_timeslot_indices`.
- The overlay's experiment framework: its `receive` takes one argument and is not a
  coroutine, so neither caller of it can use it; its `submit` is one socket request.
- The accumulation of `parameters` in the two interpreters, and the second instance
  of a schedulable interpreter that `node.py:155` makes, whose `setValue` does not
  reach the first's submissions.
- getSchedule: a query that reads the table in one step; its slot-size check builds an
  error reply and does not return it.
- `set hello-interval` of the links; printing, completion and the dashboard.
- ARTIQ, the controller and the broker, except as environments of the modules.
