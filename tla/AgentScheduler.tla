--------------------------- MODULE AgentScheduler ---------------------------
(***************************************************************************)
(* The agent's scheduler (scheduler/scheduler.py): a sliding window of     *)
(* time slots shared by the periodic calibrations of this agent ("local"   *)
(* tasks) and by the experiment blocks submitted by the controller         *)
(* ("remote" blocks), and the jobs it hands to APScheduler.                *)
(*                                                                         *)
(* Time.  The code measures everything from self.base, the start of the    *)
(* window, which update_schedule moves.  So does this module: `clock` is   *)
(* now - base in ticks, a slot index counts from base, and where the code  *)
(* says  self.base += shift * SLOTSIZE  every time kept here is reduced by *)
(* the shift.  The module therefore has finitely many states although the  *)
(* agent runs for ever.                                                    *)
(*                                                                         *)
(* Atomicity.  The agent is one asyncio thread.  No handler awaits         *)
(* anything that suspends while it holds self.lock, so a handler runs to   *)
(* its end without interference; the two handlers that loop over several   *)
(* allocations are written as one step per iteration, under `lock`.        *)
(***************************************************************************)
EXTENDS SlotTable, Sequences, FiniteSets

CONSTANTS
    UpdateInterval, \* Constants.UPDATE_INTERVAL, in ticks
    Grace,          \* misfire grace time of APScheduler, in ticks
    ResultBuffer,   \* the 60 seconds of handle_update_result, in ticks
    MaxLate,        \* bound: the event loop is at most this late, in ticks
    MaxRunning,     \* bound: executions under way at a time
    Tasks,          \* the allocations of the local calibration tasks
    Duration,       \* duration of the full calibration of each task, in ticks
    CheckDuration,  \* duration of its status check, in ticks
    Interval,       \* allocation.interval of each task, in ticks
    Checked,        \* the tasks that have a status check
    Rescheduled,    \* the tasks LocalTaskManager may find out of spec
    Exps,           \* experiment ids of the controller
    Names,          \* expName of remote allocations
    RequestBases,   \* timeslotBase of a submission, in ticks from base
    Requests,       \* bound: payload.allocations of a submission
    MaxBlocks       \* bound: remote allocations ever created

Blocks == 1 .. MaxBlocks
Allocs == Tasks \cup Blocks
\* One element of payload.allocations: expName, and the list timeSlot as the
\* set of its elements and the first of them.
BlockRequest == {r \in [name : Names, slots : SUBSET Nat, first : Nat] :
                    r.slots # {} => r.first \in r.slots}

ASSUME TimeAssumption ==
    /\ UpdateInterval \in Nat \ {0}
    /\ Grace \in Nat
    /\ ResultBuffer \in Nat
    /\ MaxLate \in Nat \ {0}
    /\ MaxRunning \in Nat \ {0}
ASSUME TaskAssumption ==
    /\ Duration \in [Tasks -> Nat \ {0}]
    /\ CheckDuration \in [Tasks -> Nat \ {0}]
    /\ Interval \in [Tasks -> Nat \ {0}]
    /\ Checked \subseteq Tasks /\ Rescheduled \subseteq Tasks
ASSUME RequestAssumption ==
    /\ MaxBlocks \in Nat
    /\ RequestBases \subseteq Int
    /\ Requests \subseteq Seq(BlockRequest)
ASSUME NamesApart ==
    /\ Tasks \cap (Int \cup Names) = {}
    /\ None \notin Allocs \cup Tasks \cup Exps \cup Names \cup Int

VARIABLES
    clock,      \* datetime.now() - self.base
    wake,       \* when the sleep of _handle_jobs ends
    lock,       \* the handler that holds self.lock
    size,       \* len(self.timeslots)
    timeslots,  \* owner of each slot, or None
    local,      \* self.local_allocations
    remote,     \* self.remote_allocations
    blk,        \* exp_id, expName and start_time of each remote allocation
    created,    \* number of remote allocations created
    slotIdx,    \* allocation._slot_indices
    last,       \* allocation.last_allocation[0] of a local task, or None
    width,      \* len(allocation.last_allocation)
    failed,     \* allocation.failed of a local task
    executed,   \* allocation.last_exec is not None, for a local task
    checking,   \* the local tasks with allocation.status CHECK
    byName,     \* self._alloc_by_name
    pending,    \* jobs in APScheduler's job store
    due,        \* jobs handed to the executor and not yet begun
    running,    \* executions of run_and_update
    missed,     \* _handle_missed_allocation tasks not yet run
    started,    \* keys of self._exp_start_times
    waiting,    \* deadline of the getResult request polling for each exp
    todo,       \* loop of update_schedule: local allocations left to visit
    shift,      \* local variable of update_schedule
    request     \* loop of handle_submit: what is left of the submission

tableVars == <<size, timeslots, slotIdx, last, width, pending>>
jobVars == <<due, running, missed>>
indexVars == <<local, remote, blk, created, byName>>
execVars == <<failed, executed, checking>>
expVars == <<started, waiting>>
lockVars == <<lock, todo, shift, request>>
timeVars == <<clock, wake>>
vars == <<timeVars, lockVars, tableVars, jobVars, indexVars, execVars, expVars>>

-----------------------------------------------------------------------------
(* Jobs and slots *)

\* ceil(allocation.duration / SLOTSIZE): the duration is that of the status
\* check once LocalTaskManager has switched to it.
DurationSlots(a) ==
    CeilSlots(IF a \in checking THEN CheckDuration[a] ELSE Duration[a])
IntervalSlots(a) == IntSlots(Interval[a])

\* A job of APScheduler: its allocation, the slot at whose start it runs and
\* the slots booked for it that are not in the past.  `known` says that
\* _alloc_by_job_id still maps its id to the allocation.
Job(a, at, slots) == [alloc |-> a, at |-> at, slots |-> slots, known |-> TRUE]

\* An execution needs no start time any more.  Executions of one allocation
\* whose slots are all in the past are not told apart.
Execution(j) == [alloc |-> j.alloc, slots |-> j.slots, known |-> j.known]

RunTime(j) == TicksPerSlot * j.at

-----------------------------------------------------------------------------
Init ==
    /\ clock = 0
    /\ wake = UpdateInterval
    /\ lock = "free" /\ todo = {} /\ shift = 0 /\ request = None
    /\ size = W
    /\ timeslots = [i \in 0 .. W - 1 |-> None]
    /\ local = {} /\ remote = {}
    /\ blk = [b \in Blocks |-> None]
    /\ created = 0
    /\ slotIdx = [a \in Allocs |-> {}]
    /\ last = [a \in Tasks |-> None]
    /\ width = [a \in Tasks |-> 1]
    /\ checking = {}
    /\ failed = [a \in Tasks |-> FALSE]
    /\ executed = [a \in Tasks |-> FALSE]
    /\ byName = [n \in Tasks \cup Names |-> None]
    /\ pending = {} /\ due = {} /\ running = {} /\ missed = {}
    /\ started = {}
    /\ waiting = [e \in Exps |-> None]

-----------------------------------------------------------------------------
(* Booking *)

\* Fault: delete_allocation forgets the indices and leaves the slots taken.
KeepSlotsOf(a) == timeslots

\* The table once delete_allocation has cleared the slots of a.
WithoutSlotsOf(a) ==
    [i \in DOMAIN timeslots |->
        IF i \in slotIdx[a] /\ timeslots[i] = a THEN None ELSE timeslots[i]]

\* Fault: the job ids of a deleted allocation stay in _alloc_by_job_id.
Remember(jobs, A) == jobs

\* _alloc_by_job_id after the job ids of the allocations in A were popped.
Forget(jobs, A) ==
    {[j EXCEPT !.known = j.known /\ j.alloc \notin A] : j \in jobs}

\* schedule_allocations(a), starting from table ts where a holds the slots in
\* held and has the jobs in jobs; its last allocation was n slots long and began
\* at slot `from`.
ScheduleAllocations(a, n, ts, held, jobs, from) ==
    LET k == IntervalSlots(a)
    IN  \E S \in SUBSET {i \in 0 .. size - 1 : ts[i] = None} :
          /\ Greedy(ts, S, from + k, n, k)
          /\ LET booked == UNION {Block(q, n) : q \in S}
             IN  /\ timeslots' = [i \in 0 .. size - 1 |->
                                    IF i \in booked THEN a ELSE ts[i]]
                 /\ slotIdx' = [slotIdx EXCEPT ![a] = held \cup booked]
          /\ pending' = jobs \cup {Job(a, q, Block(q, n)) : q \in S}
          /\ \/ S = {} /\ last' = [last EXCEPT ![a] = from]
             \/ \E q \in S : /\ \A r \in S : r <= q
                             /\ last' = [last EXCEPT ![a] = q]
          /\ width' = [width EXCEPT ![a] = n]
          /\ size' = size

\* run_immediately(a): drop what a has booked and book from now on.
RunImmediately(a) ==
    /\ ScheduleAllocations(a, DurationSlots(a), WithoutSlotsOf(a), {},
                           {j \in pending : j.alloc # a},
                           CeilSlots(clock) - IntervalSlots(a))
    /\ due' = Forget(due, {a})
    /\ running' = Forget(running, {a})

\* A task interval shorter than a slot is refused, a second preallocation of
\* the same allocation too.
Preallocate(a) ==
    /\ lock = "free"
    /\ a \notin local
    /\ Interval[a] > TicksPerSlot
    /\ local' = local \cup {a}
    /\ byName' = [byName EXCEPT ![a] = a]
    /\ RunImmediately(a)
    /\ UNCHANGED <<timeVars, lockVars, missed, remote, blk, created,
                   execVars, expVars>>

\* LocalTaskManager.check_state found task a out of spec: it looks the
\* allocation up by name and has it run immediately.  It may do so at any time:
\* when the last execution expires is left open here.
Reschedule(a) ==
    /\ lock = "free"
    /\ a \in Rescheduled
    /\ byName[a] = a
    /\ RunImmediately(a)
    /\ UNCHANGED <<timeVars, lockVars, missed, indexVars, execVars, expVars>>

\* LocalTaskManager.check_state found task a in spec: from now on its status
\* is checked, in less time.  The slots booked so far and the length of the
\* last allocation stay until the task is run immediately again.
SwitchToCheck(a) ==
    /\ lock = "free"
    /\ a \in Checked \ checking
    /\ byName[a] = a
    /\ executed[a] /\ ~ failed[a]
    /\ checking' = checking \cup {a}
    /\ UNCHANGED <<timeVars, lockVars, tableVars, jobVars, indexVars, failed,
                   executed, expVars>>

-----------------------------------------------------------------------------
(* update_schedule *)

\* A job, an execution and the record of a remote allocation in terms of a base
\* that is s slots later.
ShiftedJob(j, s) == [alloc |-> j.alloc, at |-> j.at - s,
                     slots |-> ShiftedIndices(j.slots, s), known |-> j.known]
ShiftedExecution(x, s) == [alloc |-> x.alloc, slots |-> ShiftedIndices(x.slots, s),
                           known |-> x.known]
ShiftedBlock(r, s) == [exp |-> r.exp, name |-> r.name, start |-> r.start - s]

\* The window moves to the present: base, the table and the slot indices of
\* every listed allocation shift by whole slots.
UpdateBegin ==
    /\ lock = "free"
    /\ clock >= wake
    /\ LET s == IntSlots(clock)
       IN  /\ shift' = s
           /\ clock' = clock - TicksPerSlot * s
           /\ wake' = clock' + UpdateInterval
           /\ size' = ShiftedSize(size, s)
           /\ timeslots' = Shifted(timeslots, size, s)
           /\ slotIdx' = [a \in Allocs |->
                             IF a \in local \cup remote
                             THEN ShiftedIndices(slotIdx[a], s)
                             ELSE slotIdx[a]]
           /\ pending' = {ShiftedJob(j, s) : j \in pending}
           /\ due' = {ShiftedJob(j, s) : j \in due}
           /\ running' = {ShiftedExecution(x, s) : x \in running}
           /\ waiting' = [e \in Exps |->
                             IF waiting[e] = None THEN None
                             ELSE waiting[e] - TicksPerSlot * s]
           /\ blk' = [b \in Blocks |->
                        IF b \in remote THEN ShiftedBlock(blk[b], s) ELSE blk[b]]
    /\ lock' = "update"
    /\ todo' = local
    /\ UNCHANGED <<request, last, width, missed, local, remote, created, byName,
                   execVars, started>>

\* Fault: the last allocation is not shifted.
UnshiftedLast(a) == last[a]

\* allocation.last_allocation -= shift
ShiftedLast(a) == last[a] - shift

\* Fault: the interval is subtracted.
PreviousRun(a) == ShiftedLast(a) - IntervalSlots(a)

\* The slot in which task a is to run next.
NextRun(a) == ShiftedLast(a) + IntervalSlots(a)

\* One local allocation of the loop.
UpdateTask(a) ==
    /\ lock = "update"
    /\ a \in todo
    /\ LET from == ShiftedLast(a)
           next == NextRun(a)
       IN  \/ /\ last[a] = None \/ (shift > 0 /\ from <= size /\ next < 0)
              /\ RunImmediately(a)
           \/ /\ last[a] # None
              /\ shift = 0 \/ from > size
              /\ last' = [last EXCEPT ![a] = from]
              /\ UNCHANGED <<size, timeslots, slotIdx, width, pending, due,
                             running>>
           \/ /\ last[a] # None
              /\ shift > 0 /\ from <= size /\ next >= 0
              /\ ScheduleAllocations(a, width[a], timeslots, slotIdx[a], pending,
                                     from)
              /\ UNCHANGED <<due, running>>
    /\ todo' = todo \ {a}
    /\ UNCHANGED <<timeVars, lock, shift, request, missed, indexVars, execVars,
                   expVars>>

\* hasattr(alloc, "job") and alloc.job.pending: no Allocation has a `job`.
KeepsRemote(b) == FALSE

\* Nothing reads the _slot_indices and the start_time of an allocation that is
\* on neither list, so they are dropped with it.
IndicesWithout(gone) == [a \in Allocs |-> IF a \in gone THEN {} ELSE slotIdx[a]]
BlkWithout(gone) ==
    [b \in Blocks |-> IF b \in gone THEN [blk[b] EXCEPT !.start = None] ELSE blk[b]]

\* Fault: unlisted allocations keep their slots.
TableWith(gone) == timeslots

\* Only slots that still belong to the allocation are cleared.
TableWithout(gone) ==
    [i \in 0 .. size - 1 |->
        IF timeslots[i] \in gone /\ i \in slotIdx[timeslots[i]]
        THEN None ELSE timeslots[i]]

\* The names are popped whatever allocation they lead to by now.
NamesWithout(gone) ==
    [n \in Tasks \cup Names |->
        IF n \in {blk[b].name : b \in gone} THEN None ELSE byName[n]]

\* Remote allocations whose job has fired, in the words of the code, leave the
\* list, the table and the name index; their jobs are left alone.
UpdateEnd ==
    /\ lock = "update"
    /\ todo = {}
    /\ LET pruned == {b \in remote : ~KeepsRemote(b)}
       IN  /\ timeslots' = TableWithout(pruned)
           /\ slotIdx' = IndicesWithout(pruned)
           /\ byName' = NamesWithout(pruned)
           /\ blk' = BlkWithout(pruned)
           /\ remote' = remote \ pruned
    /\ lock' = "free"
    /\ shift' = 0
    /\ UNCHANGED <<timeVars, todo, request, size, last, width, pending, jobVars,
                   local, created, execVars, expVars>>

-----------------------------------------------------------------------------
(* handle_submit *)

\* A submission that is neither in the past nor beyond the window.
SubmitBegin(e, t, blocks) ==
    /\ lock = "free"
    /\ CeilSlots(t) \in 0 .. size
    /\ created + Len(blocks) <= MaxBlocks
    /\ lock' = "submit"
    /\ request' = [exp |-> e, diff |-> CeilSlots(t),
                   blocks |-> blocks]
    /\ UNCHANGED <<timeVars, todo, shift, tableVars, jobVars, indexVars,
                   execVars, expVars>>

Indices(b) == {request.diff + s : s \in b.slots}

\* Fault: a submission is not compared with what is booked.
InWindow(I) == I \subseteq 0 .. size - 1

Fits(I) == I \subseteq 0 .. size - 1 /\ AreSlotsEmpty(timeslots, I)

\* A block without slots is skipped.
SubmitSkip ==
    /\ lock = "submit"
    /\ request.blocks # <<>>
    /\ Head(request.blocks).slots = {}
    /\ request' = [request EXCEPT !.blocks = Tail(@)]
    /\ UNCHANGED <<timeVars, lock, todo, shift, tableVars, jobVars, indexVars,
                   execVars, expVars>>

\* The head of the submission fits: book it, add its job, list it.
SubmitBlock ==
    /\ lock = "submit"
    /\ request.blocks # <<>>
    /\ LET head == Head(request.blocks)
           I == Indices(head)
           b == created + 1
           at == request.diff + head.first
       IN  /\ I # {} /\ Fits(I)
           /\ timeslots' = [i \in 0 .. size - 1 |->
                               IF i \in I THEN b ELSE timeslots[i]]
           /\ slotIdx' = [slotIdx EXCEPT ![b] = I]
           /\ pending' = pending \cup {Job(b, at, I)}
           /\ blk' = [blk EXCEPT ![b] = [exp |-> request.exp,
                                         name |-> head.name,
                                         start |-> at]]
           /\ remote' = remote \cup {b}
           /\ byName' = [byName EXCEPT ![head.name] = b]
           /\ created' = b
           /\ request' = [request EXCEPT !.blocks = Tail(@)]
    /\ UNCHANGED <<timeVars, lock, todo, shift, size, last, width, jobVars, local,
                   execVars, expVars>>

\* Every block is booked (code 0), or the next one is not free (code 6) or
\* reaches past the table (an IndexError leaves the handler).  What was booked
\* before stays booked.
SubmitEnd ==
    /\ lock = "submit"
    /\ \/ request.blocks = <<>>
       \/ /\ request.blocks # <<>>
          /\ ~ Fits(Indices(Head(request.blocks)))
    /\ lock' = "free"
    /\ request' = None
    /\ UNCHANGED <<timeVars, todo, shift, tableVars, jobVars, indexVars,
                   execVars, expVars>>

-----------------------------------------------------------------------------
(* handle_cancel *)

BlocksOf(e) == {b \in remote : blk[b].exp = e}

\* Every listed block of the experiment is deleted and unlisted.
Cancel(e) ==
    /\ lock = "free"
    /\ LET gone == BlocksOf(e)
       IN  /\ timeslots' = TableWithout(gone)
           /\ slotIdx' = IndicesWithout(gone)
           /\ blk' = BlkWithout(gone)
           /\ byName' = NamesWithout(gone)
           /\ pending' = {j \in pending : j.alloc \notin gone}
           /\ due' = Forget(due, gone)
           /\ running' = Forget(running, gone)
           /\ remote' = remote \ gone
    /\ started' = started \ {e}
    /\ UNCHANGED <<timeVars, lockVars, size, last, width, missed, local, created,
                   execVars, waiting>>

-----------------------------------------------------------------------------
(* handle_update_result (experiment.getResult) *)

\* The experiment is neither started nor listed: the request fails at once.
\* It is started: its result is fetched at once.  Neither changes the state.
\* It is listed and not started: the request polls until a deadline that is
\* computed from the start time of a listed block.
GetResult(e) ==
    /\ lock = "free"
    /\ e \notin started
    /\ waiting[e] = None
    /\ \E b \in BlocksOf(e) :
          waiting' = [waiting EXCEPT ![e] =
                         TicksPerSlot * blk[b].start + ResultBuffer]
    /\ UNCHANGED <<timeVars, lockVars, tableVars, jobVars, indexVars, execVars,
                   started>>

\* Fault: the request waits for the start only.
HasStarted(e) == e \in started

PollEnds(e) == e \in started \/ clock > waiting[e]

\* The loop ends: the experiment has started and its result is fetched, or the
\* deadline has passed and the request fails.
EndPoll(e) ==
    /\ lock = "free"
    /\ waiting[e] # None
    /\ PollEnds(e)
    /\ waiting' = [waiting EXCEPT ![e] = None]
    /\ UNCHANGED <<timeVars, lockVars, tableVars, jobVars, indexVars, execVars,
                   started>>

-----------------------------------------------------------------------------
(* APScheduler and the functions it calls *)

\* A job's run time has come: it leaves the store and its coroutine is queued.
HandOver(j) ==
    /\ lock = "free"
    /\ j \in pending
    /\ clock >= RunTime(j)
    /\ pending' = pending \ {j}
    /\ due' = due \cup {j}
    /\ UNCHANGED <<timeVars, lockVars, size, timeslots, slotIdx, last, width,
                   running, missed, indexVars, execVars, expVars>>

\* run_and_update begins.  `failed` is reset and the execution recorded before
\* the operation is awaited.
Start(j) ==
    /\ lock = "free"
    /\ j \in due
    /\ clock <= RunTime(j) + Grace
    /\ Cardinality(running) < MaxRunning
    /\ due' = due \ {j}
    /\ running' = running \cup {Execution(j)}
    /\ failed' = [a \in Tasks |-> failed[a] /\ a # j.alloc]
    /\ executed' = [a \in Tasks |-> executed[a] \/ a = j.alloc]
    /\ started' = started \cup
                     (IF j.alloc \in Blocks THEN {blk[j.alloc].exp} ELSE {})
    /\ UNCHANGED <<timeVars, lockVars, tableVars, missed, indexVars, checking,
                   waiting>>

\* The coroutine began too late: EVENT_JOB_MISSED, which concerns the
\* scheduler when the job is still known and its allocation local.
Misfire(j) ==
    /\ lock = "free"
    /\ j \in due
    /\ clock > RunTime(j) + Grace
    /\ due' = due \ {j}
    /\ missed' = missed \cup (IF j.known /\ j.alloc \in local
                              THEN {j.alloc} ELSE {})
    /\ UNCHANGED <<timeVars, lockVars, tableVars, running, indexVars, execVars,
                   expVars>>

HandleMissed(a) ==
    /\ lock = "free"
    /\ a \in missed
    /\ missed' = missed \ {a}
    /\ RunImmediately(a)
    /\ UNCHANGED <<timeVars, lockVars, indexVars, execVars, expVars>>

\* The operation ends, with an exception or without: job_listener.
Finish(x, exception) ==
    /\ lock = "free"
    /\ x \in running
    /\ running' = running \ {x}
    /\ failed' = [a \in Tasks |->
                     failed[a] \/ (exception /\ x.known /\ x.alloc = a)]
    /\ UNCHANGED <<timeVars, lockVars, tableVars, due, missed, indexVars,
                   executed, checking, expVars>>

-----------------------------------------------------------------------------
(* Time *)

\* Time passes between handlers.  No timer of the event loop is more than
\* MaxLate ticks late when it is served.
Tick ==
    /\ lock = "free"
    /\ clock < wake + MaxLate
    /\ \A j \in pending \cup due : clock < RunTime(j) + MaxLate
    /\ \A e \in Exps : waiting[e] # None => clock < waiting[e] + MaxLate
    /\ clock' = clock + 1
    /\ UNCHANGED <<wake, lockVars, tableVars, jobVars, indexVars, execVars,
                   expVars>>

-----------------------------------------------------------------------------
Next ==
    \/ Tick
    \/ UpdateBegin
    \/ UpdateEnd
    \/ SubmitSkip
    \/ SubmitBlock
    \/ SubmitEnd
    \/ \E a \in Tasks :
          \/ Preallocate(a) \/ Reschedule(a) \/ SwitchToCheck(a)
          \/ UpdateTask(a) \/ HandleMissed(a)
    \/ \E e \in Exps :
          \/ Cancel(e)
          \/ GetResult(e)
          \/ EndPoll(e)
          \/ \E t \in RequestBases, blocks \in Requests : SubmitBegin(e, t, blocks)
    \/ \E j \in pending : HandOver(j)
    \/ \E j \in due : Start(j) \/ Misfire(j)
    \/ \E x \in running, exception \in BOOLEAN : Finish(x, exception)

Spec == Init /\ [][Next]_vars

\* The event loop serves what is ready, first come first served.  A handler
\* that holds the lock ends (WF); what waits for the lock to be free is served
\* even if handlers keep taking it (SF).  The loop is not late for every job of
\* one task, for ever.  Calls from outside (the controller, LocalTaskManager)
\* are under no obligation.  That operations end is an assumption on the
\* drivers: the scheduler sets them no time limit.
Fairness ==
    /\ WF_vars(UpdateEnd)
    /\ WF_vars(SubmitSkip \/ SubmitBlock \/ SubmitEnd)
    /\ \A a \in Tasks : WF_vars(UpdateTask(a))
    /\ SF_vars(Tick)
    /\ SF_vars(UpdateBegin)
    /\ SF_vars(\E j \in pending : HandOver(j))
    /\ SF_vars(\E j \in due : Start(j) \/ Misfire(j))
    /\ SF_vars(\E x \in running, exception \in BOOLEAN : Finish(x, exception))
    /\ \A e \in Exps : SF_vars(EndPoll(e))
    /\ \A a \in Tasks :
          /\ SF_vars(HandleMissed(a))
          /\ SF_vars(\E j \in pending :
                        j.alloc = a /\ clock <= RunTime(j) /\ HandOver(j))
          /\ SF_vars(\E j \in due : j.alloc = a /\ Start(j))

FairSpec == Spec /\ Fairness

-----------------------------------------------------------------------------
(* Properties *)

Owner == Allocs \cup {None}
JobType == [alloc : Allocs, at : Int, slots : SUBSET Nat, known : BOOLEAN]
ExecutionType == [alloc : Allocs, slots : SUBSET Nat, known : BOOLEAN]
RequestType == [exp : Exps, diff : Nat, blocks : Seq(BlockRequest)]
BlockType == [exp : Exps, name : Names, start : Int \cup {None}]

\* The types of the scheduler's fields.  The window never shrinks below
\* MAX_TIMESLOTS slots, whatever update_schedule shifts out of it.
TypeOK ==
    /\ clock \in Nat /\ wake \in Nat
    /\ lock \in {"free", "update", "submit"}
    /\ size \in Nat /\ size >= W
    /\ timeslots \in [0 .. size - 1 -> Owner]
    /\ local \subseteq Tasks /\ remote \subseteq Blocks
    /\ created \in 0 .. MaxBlocks
    /\ blk \in [Blocks -> BlockType \cup {None}]
    /\ slotIdx \in [Allocs -> SUBSET Nat]
    /\ last \in [Tasks -> Int \cup {None}]
    /\ width \in [Tasks -> Nat \ {0}]
    /\ checking \subseteq Tasks
    /\ failed \in [Tasks -> BOOLEAN]
    /\ executed \in [Tasks -> BOOLEAN]
    /\ byName \in [Tasks \cup Names -> Owner]
    /\ pending \subseteq JobType /\ due \subseteq JobType
    /\ running \subseteq ExecutionType
    /\ missed \subseteq Tasks
    /\ started \subseteq Exps
    /\ waiting \in [Exps -> Int \cup {None}]
    /\ todo \subseteq Tasks
    /\ shift \in Nat
    /\ request \in RequestType \cup {None}

Listed == local \cup remote

\* The table and the index sets of the listed allocations say the same: a
\* taken slot belongs to a listed allocation that has it among its
\* _slot_indices, and an index of a listed allocation is a slot it owns.  The
\* code keeps the two in step by hand in _allocate, delete_allocation,
\* handle_cancel and update_schedule.
SlotOwnership ==
    /\ \A i \in 0 .. size - 1 :
          timeslots[i] # None => /\ timeslots[i] \in Listed
                                 /\ i \in slotIdx[timeslots[i]]
    /\ \A a \in Listed : \A i \in slotIdx[a] :
          i < size /\ timeslots[i] = a

\* What the scheduler has promised and not taken back: jobs and executions
\* that _alloc_by_job_id still maps to a listed allocation.
Committed == {x \in pending \cup due \cup running :
                 x.known /\ x.alloc \in Listed}

\* A promise holds its slots: until they are past, the slots of a job or of an
\* execution stay with its allocation, through shifts of the window, through
\* updates, submissions and cancellations of others.
JobsHoldTheirSlots ==
    \A x \in Committed : \A i \in x.slots : i < size /\ timeslots[i] = x.alloc

\* No two promises share a slot, also when they are of the same allocation.
NoDoubleBooking ==
    \A x, y \in Committed : x # y => x.slots \cap y.slots = {}

\* update_schedule drops no job of a local task that lies ahead: it starts a
\* task over (run_immediately) only when everything booked for it is past.
UpdateKeepsFutureJobs ==
    [][lock = "update" => \A j \in pending : j.alloc \in local /\ j.at >= 0
                                                => j \in pending']_vars

\* Once update_schedule has moved the window and visited every local task, the
\* window is filled: no task could be booked once more after its last one.  This
\* takes tasks no longer than their interval, which the code does not check: one
\* that is still running when it is due again leaves slots to a task visited later.
WindowIsFilled ==
    lock = "update" /\ todo = {} /\ shift > 0 =>
    \A a \in local :
        Candidates(timeslots, {}, last[a] + IntervalSlots(a), width[a]) = {}

\* "Job has fired - clear its timeslot entries so future requests can use
\* them" (scheduler.py:247): what update_schedule takes off the remote list has
\* no job left in the store.
PrunedHaveFired ==
    [][lock = "update" =>
         \A b \in remote \ remote' : \A j \in pending : j.alloc # b]_vars

\* A preallocated task is calibrated again and again, through misfires,
\* failures and full windows, without LocalTaskManager asking for it: the
\* window moves on and update_schedule or run_immediately books the task anew.
Recalibrates ==
    \A a \in Tasks :
        a \in local ~> \E x \in running : x.alloc = a

\* A getResult request that polls is answered: its experiment begins or its
\* deadline passes, also when the experiment is cancelled or pruned meanwhile.
ResultAnswered ==
    \A e \in Exps : waiting[e] # None ~> waiting[e] = None

=============================================================================
