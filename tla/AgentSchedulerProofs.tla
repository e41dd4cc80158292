------------------------ MODULE AgentSchedulerProofs ------------------------
(* Theorems about AgentScheduler, for every window, task set and request. *)
EXTENDS AgentScheduler, TLAPS

(***************************************************************************)
(* What the fields have to do with one another, beyond their types.        *)
(***************************************************************************)
Bookkeeping ==
    /\ remote \subseteq 1 .. created
    /\ \A b \in 1 .. created : blk[b] \in BlockType
    /\ \A b \in remote : blk[b].start \in Int
    /\ \A x \in pending \cup due \cup running : x.alloc \in local \cup 1 .. created
    /\ todo \subseteq local
    /\ missed \subseteq local
    /\ \A a \in Tasks : byName[a] = a => a \in local
    /\ lock = "submit" => /\ request \in RequestType
                          /\ created + Len(request.blocks) <= MaxBlocks

-----------------------------------------------------------------------------
(* Slot arithmetic *)

LEMMA CeilSlotsInt == ASSUME NEW t \in Int PROVE CeilSlots(t) \in Int
  BY TicksAssumption DEF CeilSlots

LEMMA CeilSlotsPositive ==
  ASSUME NEW t \in Nat \ {0} PROVE CeilSlots(t) \in Nat \ {0}
  BY TicksAssumption, SMTT(30) DEF CeilSlots

LEMMA IntSlotsNat ==
  ASSUME NEW t \in Nat
  PROVE  /\ IntSlots(t) \in Nat
         /\ TicksPerSlot * IntSlots(t) \in Int
         /\ t - TicksPerSlot * IntSlots(t) \in Nat
  BY TicksAssumption, SMTT(30) DEF IntSlots

LEMMA SlotStartInt == ASSUME NEW i \in Int PROVE TicksPerSlot * i \in Int
  BY TicksAssumption

LEMMA TaskSlots ==
  ASSUME NEW a \in Tasks
  PROVE  DurationSlots(a) \in Nat \ {0} /\ IntervalSlots(a) \in Nat
<1>1. /\ Duration[a] \in Nat \ {0} /\ CheckDuration[a] \in Nat \ {0}
      /\ Interval[a] \in Nat
  BY TaskAssumption
<1> QED
  BY <1>1, CeilSlotsPositive, IntSlotsNat DEF DurationSlots, IntervalSlots

-----------------------------------------------------------------------------
(* What booking a task does to the table, whichever handler does it. *)

\* The outcome of ScheduleAllocations when S is the set of starts it books.
BookedAt(a, n, ts, held, jobs, from, S) ==
    LET booked == UNION {Block(q, n) : q \in S}
    IN  /\ S \in SUBSET (0 .. size - 1)
        /\ \A q \in S : \A i \in Block(q, n) : i \in 0 .. size - 1 /\ ts[i] = None
        /\ \A q, r \in S : q # r => Block(q, n) \cap Block(r, n) = {}
        /\ timeslots' = [i \in 0 .. size - 1 |-> IF i \in booked THEN a ELSE ts[i]]
        /\ slotIdx' = [slotIdx EXCEPT ![a] = held \cup booked]
        /\ pending' = jobs \cup {Job(a, q, Block(q, n)) : q \in S}
        /\ \/ last' = [last EXCEPT ![a] = from]
           \/ \E q \in S : last' = [last EXCEPT ![a] = q]
        /\ width' = [width EXCEPT ![a] = n]
        /\ size' = size

LEMMA BookingEffect ==
  ASSUME NEW a \in Tasks, size \in Nat,
         NEW n, NEW ts, DOMAIN ts = 0 .. size - 1,
         NEW held, NEW jobs, NEW from,
         ScheduleAllocations(a, n, ts, held, jobs, from)
  PROVE  \E S : BookedAt(a, n, ts, held, jobs, from, S)
<1> DEFINE k == IntervalSlots(a)
<1>1. PICK S \in SUBSET {i \in 0 .. size - 1 : ts[i] = None} :
        /\ Greedy(ts, S, from + k, n, k)
        /\ LET booked == UNION {Block(q, n) : q \in S}
           IN  /\ timeslots' = [i \in 0 .. size - 1 |-> IF i \in booked THEN a ELSE ts[i]]
               /\ slotIdx' = [slotIdx EXCEPT ![a] = held \cup booked]
        /\ pending' = jobs \cup {Job(a, q, Block(q, n)) : q \in S}
        /\ \/ S = {} /\ last' = [last EXCEPT ![a] = from]
           \/ \E q \in S : /\ \A r \in S : r <= q
                           /\ last' = [last EXCEPT ![a] = q]
        /\ width' = [width EXCEPT ![a] = n]
        /\ size' = size
  BY DEF ScheduleAllocations
<1>2. \A q \in S :
        /\ Block(q, n) \subseteq DOMAIN ts
        /\ AreSlotsEmpty(ts, Block(q, n))
        /\ \A r \in StartsBefore(S, q) : Block(q, n) \cap Block(r, n) = {}
  <2>1. \A q \in S : q \in Candidates(ts, StartsBefore(S, q),
                             NextRequest(StartsBefore(S, q), from + k, k), n)
    BY <1>1 DEF Greedy
  <2> QED BY <2>1 DEF Candidates
<1>3. \A q \in S : \A i \in Block(q, n) : i \in 0 .. size - 1 /\ ts[i] = None
  BY <1>2 DEF AreSlotsEmpty
<1>4. \A q, r \in S : q # r => Block(q, n) \cap Block(r, n) = {}
  <2> SUFFICES ASSUME NEW q \in S, NEW r \in S, q # r
               PROVE  Block(q, n) \cap Block(r, n) = {}
    OBVIOUS
  <2>1. q < r \/ r < q
    BY <1>1
  <2> QED BY <2>1, <1>2 DEF StartsBefore
<1>5. S \in SUBSET (0 .. size - 1)
  BY <1>1
<1> QED BY <1>1, <1>3, <1>4, <1>5 DEF BookedAt

LEMMA BookingType ==
  ASSUME TypeOK, NEW a \in Tasks,
         NEW n \in Nat \ {0}, NEW ts \in [0 .. size - 1 -> Owner],
         NEW held \in SUBSET Nat, NEW jobs \in SUBSET JobType, NEW from \in Int,
         ScheduleAllocations(a, n, ts, held, jobs, from)
  PROVE  /\ size' = size
         /\ timeslots' \in [0 .. size - 1 -> Owner]
         /\ slotIdx' \in [Allocs -> SUBSET Nat]
         /\ last' \in [Tasks -> Int \cup {None}]
         /\ width' \in [Tasks -> Nat \ {0}]
         /\ pending' \subseteq JobType
<1>0. size \in Nat /\ DOMAIN ts = 0 .. size - 1
  BY DEF TypeOK
<1>1. PICK S : BookedAt(a, n, ts, held, jobs, from, S)
  BY <1>0, BookingEffect
<1>2. a \in Allocs /\ a \in Owner
  BY DEF Allocs, Owner
<1>3. timeslots' \in [0 .. size - 1 -> Owner]
  BY <1>1, <1>2 DEF BookedAt
<1>4. \A q \in S : Block(q, n) \in SUBSET Nat /\ q \in Nat
  BY <1>0, <1>1 DEF BookedAt
<1>5. slotIdx' \in [Allocs -> SUBSET Nat]
  <2>1. UNION {Block(q, n) : q \in S} \in SUBSET Nat
    BY <1>4
  <2> QED BY <1>1, <1>2, <2>1 DEF TypeOK, BookedAt
<1>6. last' \in [Tasks -> Int \cup {None}] /\ width' \in [Tasks -> Nat \ {0}]
  BY <1>1, <1>4 DEF TypeOK, BookedAt
<1>7. pending' \subseteq JobType
  <2>1. \A q \in S : Job(a, q, Block(q, n)) \in JobType
    BY <1>2, <1>4 DEF Job, JobType
  <2> QED BY <1>1, <2>1 DEF BookedAt
<1> QED BY <1>1, <1>3, <1>5, <1>6, <1>7 DEF BookedAt

LEMMA ForgetType ==
  ASSUME NEW A
  PROVE  /\ \A jobs \in SUBSET JobType : Forget(jobs, A) \subseteq JobType
         /\ \A jobs \in SUBSET ExecutionType : Forget(jobs, A) \subseteq ExecutionType
  BY DEF Forget, JobType, ExecutionType

LEMMA RunImmediatelyType ==
  ASSUME TypeOK, NEW a \in Tasks, RunImmediately(a)
  PROVE  /\ size' = size
         /\ timeslots' \in [0 .. size - 1 -> Owner]
         /\ slotIdx' \in [Allocs -> SUBSET Nat]
         /\ last' \in [Tasks -> Int \cup {None}]
         /\ width' \in [Tasks -> Nat \ {0}]
         /\ pending' \subseteq JobType
         /\ due' \subseteq JobType
         /\ running' \subseteq ExecutionType
<1>1. WithoutSlotsOf(a) \in [0 .. size - 1 -> Owner]
  BY DEF WithoutSlotsOf, TypeOK, Owner
<1>2. CeilSlots(clock) - IntervalSlots(a) \in Int /\ DurationSlots(a) \in Nat \ {0}
  BY CeilSlotsInt, TaskSlots DEF TypeOK
<1>3. {j \in pending : j.alloc # a} \in SUBSET JobType
  BY DEF TypeOK
<1>4. due' \subseteq JobType /\ running' \subseteq ExecutionType
  BY ForgetType DEF RunImmediately, TypeOK
<1>5. ScheduleAllocations(a, DurationSlots(a), WithoutSlotsOf(a), {},
                          {j \in pending : j.alloc # a},
                          CeilSlots(clock) - IntervalSlots(a))
  BY DEF RunImmediately
<1> QED BY <1>1, <1>2, <1>3, <1>4, <1>5, BookingType

-----------------------------------------------------------------------------
(* Type correctness, one lemma for each action that computes a field *)

LEMMA UpdateBeginType ==
  ASSUME TypeOK, Bookkeeping, UpdateBegin
  PROVE  TypeOK'
<1> DEFINE s == IntSlots(clock)
<1>1. s \in Nat /\ clock - TicksPerSlot * s \in Nat /\ TicksPerSlot * s \in Int
  <2>1. clock \in Nat
    BY DEF TypeOK
  <2> QED BY <2>1, IntSlotsNat
<1>2. clock' \in Nat /\ wake' \in Nat /\ shift' \in Nat
  BY <1>1, TimeAssumption DEF UpdateBegin, TypeOK
<1>3. size' \in Nat /\ size' >= W
  BY <1>1, WAssumption DEF UpdateBegin, TypeOK, ShiftedSize
<1>4. timeslots' \in [0 .. size' - 1 -> Owner]
  <2>1. \A i \in 0 .. size' - 1 : i + s < size => i + s \in 0 .. size - 1
    BY <1>1, <1>3 DEF TypeOK
  <2> QED BY <2>1 DEF UpdateBegin, TypeOK, Shifted, Owner
<1>5. \A I \in SUBSET Nat : ShiftedIndices(I, s) \in SUBSET Nat
  BY <1>1 DEF ShiftedIndices
<1>6. slotIdx' \in [Allocs -> SUBSET Nat]
  BY <1>5 DEF UpdateBegin, TypeOK
<1>7. /\ \A j \in JobType : ShiftedJob(j, s) \in JobType
      /\ \A x \in ExecutionType : ShiftedExecution(x, s) \in ExecutionType
  BY <1>1, <1>5 DEF JobType, ExecutionType, ShiftedJob, ShiftedExecution
<1>8. pending' \subseteq JobType /\ due' \subseteq JobType /\ running' \subseteq ExecutionType
  BY <1>7 DEF UpdateBegin, TypeOK
<1>9. blk' \in [Blocks -> BlockType \cup {None}]
  <2>1. \A b \in remote : ShiftedBlock(blk[b], s) \in BlockType
    <3> SUFFICES ASSUME NEW b \in remote PROVE ShiftedBlock(blk[b], s) \in BlockType
      OBVIOUS
    <3>1. blk[b] \in BlockType /\ blk[b].start \in Int
      BY DEF Bookkeeping
    <3>2. blk[b].exp \in Exps /\ blk[b].name \in Names /\ blk[b].start - s \in Int
      BY <1>1, <3>1 DEF BlockType
    <3> QED BY <3>2 DEF BlockType, ShiftedBlock
  <2> QED BY <2>1 DEF UpdateBegin, TypeOK
<1>10. waiting' \in [Exps -> Int \cup {None}]
  BY <1>1 DEF UpdateBegin, TypeOK
<1>11. /\ local' \subseteq Tasks /\ remote' \subseteq Blocks /\ created' \in 0 .. MaxBlocks
       /\ last' \in [Tasks -> Int \cup {None}] /\ width' \in [Tasks -> Nat \ {0}]
       /\ checking' \subseteq Tasks
       /\ failed' \in [Tasks -> BOOLEAN] /\ executed' \in [Tasks -> BOOLEAN]
       /\ byName' \in [Tasks \cup Names -> Owner]
       /\ missed' \subseteq Tasks /\ started' \subseteq Exps /\ todo' \subseteq Tasks
       /\ request' \in RequestType \cup {None}
       /\ lock' \in {"free", "update", "submit"}
  BY DEF UpdateBegin, TypeOK, execVars
<1> QED BY <1>2, <1>3, <1>4, <1>6, <1>8, <1>9, <1>10, <1>11 DEF TypeOK

LEMMA UpdateTaskType ==
  ASSUME TypeOK, Bookkeeping, NEW a \in Tasks, UpdateTask(a)
  PROVE  TypeOK'
<1> DEFINE from == ShiftedLast(a)
<1>1. /\ size' = size
      /\ timeslots' \in [0 .. size - 1 -> Owner]
      /\ slotIdx' \in [Allocs -> SUBSET Nat]
      /\ last' \in [Tasks -> Int \cup {None}] /\ width' \in [Tasks -> Nat \ {0}]
      /\ pending' \subseteq JobType /\ due' \subseteq JobType
      /\ running' \subseteq ExecutionType
  <2>1. CASE RunImmediately(a)
    BY <2>1, RunImmediatelyType
  <2>2. last[a] # None => from \in Int
    BY DEF TypeOK, ShiftedLast
  <2>3. CASE /\ last[a] # None
             /\ last' = [last EXCEPT ![a] = from]
             /\ UNCHANGED <<size, timeslots, slotIdx, width, pending, due, running>>
    BY <2>2, <2>3 DEF TypeOK
  <2>4. CASE /\ last[a] # None
             /\ ScheduleAllocations(a, width[a], timeslots, slotIdx[a], pending, from)
             /\ UNCHANGED <<due, running>>
    <3>1. slotIdx[a] \in SUBSET Nat /\ width[a] \in Nat \ {0}
      BY DEF TypeOK, Allocs
    <3> QED BY <2>2, <2>4, <3>1, BookingType DEF TypeOK
  <2> QED BY <2>1, <2>3, <2>4 DEF UpdateTask
<1>2. UNCHANGED <<clock, wake, lock, local, remote, blk, created, failed, executed, checking,
                  byName, missed, started, waiting, shift, request>>
      /\ todo' \subseteq Tasks
  BY DEF UpdateTask, timeVars, indexVars, execVars, expVars, TypeOK
<1> QED BY <1>1, <1>2 DEF TypeOK

LEMMA WithoutType ==
  ASSUME TypeOK, NEW gone \in SUBSET remote
  PROVE  /\ TableWithout(gone) \in [0 .. size - 1 -> Owner]
         /\ IndicesWithout(gone) \in [Allocs -> SUBSET Nat]
         /\ NamesWithout(gone) \in [Tasks \cup Names -> Owner]
<1>1. TableWithout(gone) \in [0 .. size - 1 -> Owner]
  BY DEF TypeOK, TableWithout, Owner
<1>2. IndicesWithout(gone) \in [Allocs -> SUBSET Nat]
  BY DEF TypeOK, IndicesWithout
<1>3. NamesWithout(gone) \in [Tasks \cup Names -> Owner]
  BY DEF TypeOK, NamesWithout, Owner
<1> QED BY <1>1, <1>2, <1>3

LEMMA BlkWithoutType ==
  ASSUME TypeOK, Bookkeeping, NEW gone \in SUBSET remote
  PROVE  BlkWithout(gone) \in [Blocks -> BlockType \cup {None}]
<1>1. \A b \in gone : [blk[b] EXCEPT !.start = None] \in BlockType
  BY DEF Bookkeeping, BlockType
<1> QED BY <1>1 DEF BlkWithout, TypeOK

LEMMA UpdateEndType ==
  ASSUME TypeOK, Bookkeeping, UpdateEnd
  PROVE  TypeOK'
<1> DEFINE pruned == {b \in remote : ~KeepsRemote(b)}
<1>1. pruned \in SUBSET remote
  OBVIOUS
<1>2. /\ timeslots' = TableWithout(pruned) /\ slotIdx' = IndicesWithout(pruned)
      /\ byName' = NamesWithout(pruned) /\ blk' = BlkWithout(pruned)
      /\ remote' = remote \ pruned /\ lock' = "free" /\ shift' = 0
      /\ UNCHANGED <<clock, wake, todo, request, size, last, width, pending, due, running,
                     missed, local, created, failed, executed, checking, started, waiting>>
  BY DEF UpdateEnd, timeVars, jobVars, execVars, expVars
<1> HIDE DEF pruned
<1>3. /\ timeslots' \in [0 .. size - 1 -> Owner] /\ slotIdx' \in [Allocs -> SUBSET Nat]
      /\ byName' \in [Tasks \cup Names -> Owner]
      /\ blk' \in [Blocks -> BlockType \cup {None}]
  BY <1>1, <1>2, WithoutType, BlkWithoutType
<1> QED BY <1>2, <1>3 DEF TypeOK

LEMMA CancelType ==
  ASSUME TypeOK, Bookkeeping, NEW e \in Exps, Cancel(e)
  PROVE  TypeOK'
<1> DEFINE gone == BlocksOf(e)
<1>1. gone \in SUBSET remote
  BY DEF BlocksOf
<1>2. /\ timeslots' = TableWithout(gone) /\ slotIdx' = IndicesWithout(gone)
      /\ byName' = NamesWithout(gone) /\ blk' = BlkWithout(gone)
      /\ remote' = remote \ gone
      /\ pending' = {j \in pending : j.alloc \notin gone}
      /\ due' = Forget(due, gone) /\ running' = Forget(running, gone)
      /\ started' = started \ {e}
      /\ UNCHANGED <<clock, wake, lock, todo, shift, request, size, last, width, missed,
                     local, created, failed, executed, checking, waiting>>
  BY DEF Cancel, timeVars, lockVars, execVars
<1> HIDE DEF gone
<1>3. /\ timeslots' \in [0 .. size - 1 -> Owner] /\ slotIdx' \in [Allocs -> SUBSET Nat]
      /\ byName' \in [Tasks \cup Names -> Owner]
      /\ blk' \in [Blocks -> BlockType \cup {None}]
  BY <1>1, <1>2, WithoutType, BlkWithoutType
<1>4. due' \subseteq JobType /\ running' \subseteq ExecutionType
  BY <1>2, ForgetType DEF TypeOK
<1> QED BY <1>2, <1>3, <1>4 DEF TypeOK

\* The three calls of run_immediately from outside update_schedule.
LEMMA CallType ==
  ASSUME TypeOK, Bookkeeping, NEW a \in Tasks,
         Preallocate(a) \/ Reschedule(a) \/ HandleMissed(a)
  PROVE  TypeOK'
<1>1. /\ RunImmediately(a)
      /\ UNCHANGED <<clock, wake, lock, todo, shift, request, remote, blk, created,
                     failed, executed, checking, started, waiting>>
      /\ local' \in SUBSET Tasks /\ missed' \in SUBSET Tasks
  BY DEF Preallocate, Reschedule, HandleMissed, TypeOK, timeVars, lockVars, indexVars,
         execVars, expVars
<1>2. byName' \in [Tasks \cup Names -> Owner]
  BY DEF Preallocate, Reschedule, HandleMissed, TypeOK, Owner, Allocs, indexVars
<1> QED BY <1>1, <1>2, RunImmediatelyType DEF TypeOK

LEMMA SubmitBlockType ==
  ASSUME TypeOK, Bookkeeping, SubmitBlock
  PROVE  TypeOK'
<1> DEFINE head == Head(request.blocks)
           I == Indices(head)
           b == created + 1
           at == request.diff + head.first
<1>1. request \in RequestType /\ request.blocks # <<>>
      /\ created + Len(request.blocks) <= MaxBlocks
  BY DEF SubmitBlock, Bookkeeping
<1>2. request.diff \in Nat /\ request.blocks \in Seq(BlockRequest) /\ request.exp \in Exps
  BY <1>1 DEF RequestType
<1>3. head \in BlockRequest /\ Tail(request.blocks) \in Seq(BlockRequest)
      /\ Len(request.blocks) \in Nat \ {0}
  BY <1>1, <1>2
<1>4. created \in Nat /\ b \in 1 .. MaxBlocks /\ b \in Blocks /\ b \in Allocs /\ b \in Owner
  BY <1>1, <1>3, RequestAssumption DEF TypeOK, Blocks, Allocs, Owner
<1>5. head.slots \in SUBSET Nat /\ head.first \in Nat /\ head.name \in Names
  BY <1>3 DEF BlockRequest
<1>6. I \in SUBSET Nat /\ at \in Int
  BY <1>2, <1>5 DEF Indices
<1>7. /\ timeslots' = [i \in 0 .. size - 1 |-> IF i \in I THEN b ELSE timeslots[i]]
      /\ slotIdx' = [slotIdx EXCEPT ![b] = I]
      /\ pending' = pending \cup {Job(b, at, I)}
      /\ blk' = [blk EXCEPT ![b] = [exp |-> request.exp, name |-> head.name,
                                    start |-> at]]
      /\ remote' = remote \cup {b}
      /\ byName' = [byName EXCEPT ![head.name] = b]
      /\ created' = b
      /\ request' = [request EXCEPT !.blocks = Tail(@)]
      /\ UNCHANGED <<clock, wake, lock, todo, shift, size, last, width, due, running, missed,
                     local, failed, executed, checking, started, waiting>>
  BY DEF SubmitBlock, timeVars, jobVars, execVars, expVars
<1> HIDE DEF head, I, b, at
<1>8. request' \in RequestType
  BY <1>1, <1>3, <1>7 DEF RequestType
<1>9. Job(b, at, I) \in JobType
  BY <1>4, <1>6 DEF Job, JobType
<1>10. timeslots' \in [0 .. size - 1 -> Owner] /\ slotIdx' \in [Allocs -> SUBSET Nat]
  BY <1>4, <1>6, <1>7 DEF TypeOK
<1>11. blk' \in [Blocks -> BlockType \cup {None}]
  BY <1>2, <1>4, <1>5, <1>6, <1>7 DEF TypeOK, BlockType
<1>12. byName' \in [Tasks \cup Names -> Owner] /\ remote' \subseteq Blocks
       /\ created' \in 0 .. MaxBlocks
  BY <1>4, <1>5, <1>7, RequestAssumption DEF TypeOK
<1> QED BY <1>7, <1>8, <1>9, <1>10, <1>11, <1>12 DEF TypeOK

LEMMA SubmitBeginType ==
  ASSUME TypeOK, Bookkeeping,
         NEW e \in Exps, NEW t \in RequestBases, NEW blocks \in Requests,
         SubmitBegin(e, t, blocks)
  PROVE  TypeOK'
<1>1. request' \in RequestType
  BY RequestAssumption DEF SubmitBegin, RequestType, TypeOK
<1> QED BY <1>1 DEF SubmitBegin, TypeOK, timeVars, tableVars, jobVars, indexVars,
                    execVars, expVars

LEMMA SubmitRestType ==
  ASSUME TypeOK, Bookkeeping, SubmitSkip \/ SubmitEnd
  PROVE  TypeOK'
<1>1. ASSUME SubmitSkip PROVE request' \in RequestType
  <2>1. /\ request \in RequestType /\ request.blocks # <<>>
        /\ request' = [request EXCEPT !.blocks = Tail(request.blocks)]
    BY <1>1 DEF SubmitSkip, Bookkeeping
  <2>2. request.blocks \in Seq(BlockRequest)
    BY <2>1 DEF RequestType
  <2>3. Tail(request.blocks) \in Seq(BlockRequest)
    BY <2>1, <2>2
  <2> QED BY <2>1, <2>3 DEF RequestType
<1> QED BY <1>1 DEF SubmitSkip, SubmitEnd, TypeOK, timeVars, tableVars, jobVars,
                    indexVars, execVars, expVars

LEMMA ResultType ==
  ASSUME TypeOK, Bookkeeping, NEW e \in Exps, GetResult(e) \/ EndPoll(e)
  PROVE  TypeOK'
<1>1. \A b \in remote : TicksPerSlot * blk[b].start + ResultBuffer \in Int
  <2> SUFFICES ASSUME NEW b \in remote
               PROVE  TicksPerSlot * blk[b].start + ResultBuffer \in Int
    OBVIOUS
  <2>1. blk[b].start \in Int
    BY DEF Bookkeeping
  <2> QED BY <2>1, SlotStartInt, TimeAssumption
<1>2. waiting' \in [Exps -> Int \cup {None}]
  BY <1>1 DEF GetResult, EndPoll, BlocksOf, TypeOK
<1> QED BY <1>2 DEF GetResult, EndPoll, TypeOK, timeVars, lockVars, tableVars, jobVars,
                    indexVars, execVars

LEMMA StartType ==
  ASSUME TypeOK, Bookkeeping, NEW j \in due, Start(j)
  PROVE  TypeOK'
<1>1. j \in JobType
  BY DEF TypeOK
<1>2. Execution(j) \in ExecutionType
  BY <1>1 DEF Execution, ExecutionType, JobType
<1>3. j.alloc \in Blocks => blk[j.alloc].exp \in Exps
  <2>1. j.alloc \in local \cup 1 .. created
    BY DEF Bookkeeping
  <2>2. j.alloc \in Blocks => j.alloc \notin local
    BY NamesApart DEF Blocks, TypeOK
  <2> QED BY <2>1, <2>2 DEF Bookkeeping, BlockType
<1>4. failed' \in [Tasks -> BOOLEAN] /\ executed' \in [Tasks -> BOOLEAN]
  BY Zenon DEF Start, TypeOK
<1>5. started' \subseteq Exps
  BY <1>3 DEF Start, TypeOK
<1> QED BY <1>2, <1>4, <1>5 DEF Start, TypeOK, timeVars, lockVars, tableVars, indexVars

LEMMA JobStepType ==
  ASSUME TypeOK, Bookkeeping,
         \/ \E a \in Tasks : SwitchToCheck(a)
         \/ \E j \in pending : HandOver(j)
         \/ \E j \in due : Misfire(j)
         \/ Tick
  PROVE  TypeOK'
  BY TaskAssumption
     DEF SwitchToCheck, HandOver, Misfire, Tick, TypeOK, timeVars, lockVars, tableVars,
         jobVars, indexVars, execVars, expVars

LEMMA FinishType ==
  ASSUME TypeOK, Bookkeeping, NEW x \in running, NEW exception \in BOOLEAN,
         Finish(x, exception)
  PROVE  TypeOK'
<1>1. failed' \in [Tasks -> BOOLEAN]
  BY Zenon DEF Finish, TypeOK
<1> QED BY <1>1 DEF Finish, TypeOK, timeVars, lockVars, tableVars, indexVars, expVars

LEMMA TypeStep ==
  ASSUME TypeOK, Bookkeeping, [Next]_vars
  PROVE  TypeOK'
<1>1. CASE UNCHANGED vars
  BY <1>1 DEF TypeOK, vars, timeVars, lockVars, tableVars, jobVars, indexVars, execVars,
              expVars
<1>2. CASE Next
  BY <1>2, UpdateBeginType, UpdateTaskType, UpdateEndType, CancelType, CallType,
     SubmitBlockType, SubmitBeginType, SubmitRestType, ResultType, StartType,
     JobStepType, FinishType
     DEF Next
<1> QED BY <1>1, <1>2

-----------------------------------------------------------------------------
(* Bookkeeping, action by action *)

LEMMA ForgetAlloc ==
  ASSUME NEW A, NEW jobs, jobs \in SUBSET JobType \/ jobs \in SUBSET ExecutionType
  PROVE  \A x \in Forget(jobs, A) : \E y \in jobs : x.alloc = y.alloc
<1>1. \A y \in jobs : [y EXCEPT !.known = y.known /\ y.alloc \notin A].alloc = y.alloc
  BY DEF JobType, ExecutionType
<1> QED BY <1>1 DEF Forget

LEMMA RunImmediatelyBook ==
  ASSUME TypeOK, NEW a \in Tasks, RunImmediately(a)
  PROVE  \A x \in pending' \cup due' \cup running' :
            x.alloc = a \/ \E y \in pending \cup due \cup running : x.alloc = y.alloc
<1>1. \A x \in due' \cup running' : \E y \in due \cup running : x.alloc = y.alloc
  BY ForgetAlloc DEF RunImmediately, TypeOK
<1>2. \A x \in pending' : x \in pending \/ x.alloc = a
  <2>1. DOMAIN WithoutSlotsOf(a) = 0 .. size - 1 /\ size \in Nat
    BY DEF WithoutSlotsOf, TypeOK
  <2>2. PICK S : BookedAt(a, DurationSlots(a), WithoutSlotsOf(a), {},
                          {j \in pending : j.alloc # a},
                          CeilSlots(clock) - IntervalSlots(a), S)
    BY <2>1, BookingEffect DEF RunImmediately
  <2> QED BY <2>2 DEF BookedAt, Job
<1> QED BY <1>1, <1>2

LEMMA CallBook ==
  ASSUME TypeOK, Bookkeeping, NEW a \in Tasks,
         Preallocate(a) \/ Reschedule(a) \/ HandleMissed(a)
  PROVE  Bookkeeping'
<1>1. /\ RunImmediately(a)
      /\ UNCHANGED <<lock, todo, request, remote, blk, created>>
      /\ local \subseteq local' /\ a \in local' /\ missed' \subseteq missed
      /\ \A c \in Tasks : byName'[c] = c => byName[c] = c \/ c = a
  BY DEF Preallocate, Reschedule, HandleMissed, Bookkeeping, TypeOK, timeVars, lockVars,
         indexVars, execVars, expVars
<1>2. \A x \in pending' \cup due' \cup running' : x.alloc \in local' \cup 1 .. created
  BY <1>1, RunImmediatelyBook DEF Bookkeeping
<1> QED BY <1>1, <1>2 DEF Bookkeeping

LEMMA UpdateTaskBook ==
  ASSUME TypeOK, Bookkeeping, NEW a \in Tasks, UpdateTask(a)
  PROVE  Bookkeeping'
<1>1. /\ UNCHANGED <<lock, request, remote, blk, created, local, missed, byName>>
      /\ todo' \subseteq todo /\ a \in local
  BY DEF UpdateTask, Bookkeeping, timeVars, indexVars, execVars, expVars
<1>2. \A x \in pending' \cup due' \cup running' : x.alloc \in local \cup 1 .. created
  <2>1. CASE RunImmediately(a)
    BY <2>1, <1>1, RunImmediatelyBook DEF Bookkeeping
  <2>2. CASE UNCHANGED <<size, timeslots, slotIdx, width, pending, due, running>>
    BY <2>2 DEF Bookkeeping
  <2>3. CASE /\ ScheduleAllocations(a, width[a], timeslots, slotIdx[a], pending, ShiftedLast(a))
             /\ UNCHANGED <<due, running>>
    <3>1. PICK S : BookedAt(a, width[a], timeslots, slotIdx[a], pending, ShiftedLast(a), S)
      BY <2>3, BookingEffect DEF TypeOK
    <3>2. \A x \in pending' : x \in pending \/ x.alloc = a
      BY <3>1 DEF BookedAt, Job
    <3> QED BY <2>3, <3>2, <1>1 DEF Bookkeeping
  <2> QED BY <2>1, <2>2, <2>3 DEF UpdateTask
<1> QED BY <1>1, <1>2 DEF Bookkeeping

LEMMA UpdateBeginBook ==
  ASSUME TypeOK, Bookkeeping, UpdateBegin
  PROVE  Bookkeeping'
<1> DEFINE s == IntSlots(clock)
<1>1. s \in Nat
  BY IntSlotsNat DEF TypeOK
<1>2. /\ UNCHANGED <<local, remote, created, byName, missed>>
      /\ todo' = local /\ lock' = "update"
      /\ blk' = [b \in Blocks |-> IF b \in remote THEN ShiftedBlock(blk[b], s) ELSE blk[b]]
      /\ pending' = {ShiftedJob(j, s) : j \in pending}
      /\ due' = {ShiftedJob(j, s) : j \in due}
      /\ running' = {ShiftedExecution(x, s) : x \in running}
  BY DEF UpdateBegin
<1>3. \A x \in pending' \cup due' \cup running' : x.alloc \in local \cup 1 .. created
  BY <1>2 DEF Bookkeeping, ShiftedJob, ShiftedExecution
<1>4. \A b \in 1 .. created : b \in Blocks
  BY RequestAssumption DEF TypeOK, Blocks
<1>5. \A b \in remote : ShiftedBlock(blk[b], s) \in BlockType /\ ShiftedBlock(blk[b], s).start \in Int
  <2> SUFFICES ASSUME NEW b \in remote
               PROVE  /\ ShiftedBlock(blk[b], s) \in BlockType
                      /\ ShiftedBlock(blk[b], s).start \in Int
    OBVIOUS
  <2>1. blk[b].start \in Int /\ blk[b] \in BlockType
    BY DEF Bookkeeping
  <2>2. blk[b].start - s \in Int
    BY <1>1, <2>1
  <2> QED BY <2>1, <2>2 DEF BlockType, ShiftedBlock
<1>6. /\ \A b \in 1 .. created : blk'[b] \in BlockType
      /\ \A b \in remote : blk'[b].start \in Int
  BY <1>2, <1>4, <1>5 DEF Bookkeeping
<1> QED BY <1>2, <1>3, <1>6 DEF Bookkeeping

\* What cancelling and pruning leave of the records and names.
LEMMA WithoutBook ==
  ASSUME TypeOK, Bookkeeping, NEW gone \in SUBSET remote
  PROVE  /\ \A b \in 1 .. created : BlkWithout(gone)[b] \in BlockType
         /\ \A b \in remote \ gone : BlkWithout(gone)[b].start \in Int
         /\ \A a \in Tasks : NamesWithout(gone)[a] = a => byName[a] = a
<1>1. \A b \in 1 .. created : b \in Blocks
  BY RequestAssumption DEF TypeOK, Blocks
<1>2. \A b \in gone : [blk[b] EXCEPT !.start = None] \in BlockType
  BY DEF Bookkeeping, BlockType
<1>3. \A a \in Tasks : a # None
  BY NamesApart
<1>4. \A b \in 1 .. created : BlkWithout(gone)[b] \in BlockType
  BY <1>1, <1>2 DEF BlkWithout, Bookkeeping
<1>5. \A b \in remote \ gone : BlkWithout(gone)[b].start \in Int
  BY <1>1 DEF BlkWithout, Bookkeeping
<1>6. \A a \in Tasks : NamesWithout(gone)[a] = a => byName[a] = a
  BY <1>3 DEF NamesWithout
<1> QED BY <1>4, <1>5, <1>6

LEMMA UpdateEndBook ==
  ASSUME TypeOK, Bookkeeping, UpdateEnd
  PROVE  Bookkeeping'
<1> DEFINE pruned == {b \in remote : ~KeepsRemote(b)}
<1>1. /\ byName' = NamesWithout(pruned) /\ blk' = BlkWithout(pruned)
      /\ remote' = remote \ pruned /\ lock' = "free"
      /\ UNCHANGED <<todo, request, pending, due, running, missed, local, created>>
      /\ pruned \in SUBSET remote
  BY DEF UpdateEnd, jobVars
<1> HIDE DEF pruned
<1> QED BY <1>1, WithoutBook DEF Bookkeeping

LEMMA CancelBook ==
  ASSUME TypeOK, Bookkeeping, NEW e \in Exps, Cancel(e)
  PROVE  Bookkeeping'
<1> DEFINE gone == BlocksOf(e)
<1>1. /\ byName' = NamesWithout(gone) /\ blk' = BlkWithout(gone)
      /\ remote' = remote \ gone
      /\ pending' = {j \in pending : j.alloc \notin gone}
      /\ due' = Forget(due, gone) /\ running' = Forget(running, gone)
      /\ UNCHANGED <<lock, todo, request, missed, local, created>>
      /\ gone \in SUBSET remote
  BY DEF Cancel, lockVars, BlocksOf
<1> HIDE DEF gone
<1>2. \A x \in pending' \cup due' \cup running' : x.alloc \in local \cup 1 .. created
  <2>1. /\ \A x \in due' : \E y \in due : x.alloc = y.alloc
        /\ \A x \in running' : \E y \in running : x.alloc = y.alloc
    BY <1>1, ForgetAlloc DEF TypeOK
  <2> QED BY <1>1, <2>1 DEF Bookkeeping
<1> QED BY <1>1, <1>2, WithoutBook DEF Bookkeeping

LEMMA SubmitBlockBook ==
  ASSUME TypeOK, Bookkeeping, SubmitBlock
  PROVE  Bookkeeping'
<1> DEFINE head == Head(request.blocks)
           I == Indices(head)
           b == created + 1
           at == request.diff + head.first
<1>1. /\ request \in RequestType /\ request.blocks # <<>>
      /\ created + Len(request.blocks) <= MaxBlocks
  BY DEF SubmitBlock, Bookkeeping
<1>2. request.diff \in Nat /\ request.blocks \in Seq(BlockRequest) /\ request.exp \in Exps
  BY <1>1 DEF RequestType
<1>3. /\ head \in BlockRequest /\ Tail(request.blocks) \in Seq(BlockRequest)
      /\ Len(request.blocks) \in Nat \ {0}
      /\ Len(Tail(request.blocks)) = Len(request.blocks) - 1
  BY <1>1, <1>2
<1>4. /\ created \in Nat /\ b \in Blocks
      /\ 1 .. b = (1 .. created) \cup {b} /\ b \notin 1 .. created
      /\ \A c \in 1 .. created : c \in Blocks
  BY <1>1, <1>3, RequestAssumption DEF TypeOK, Blocks
<1>5. head.first \in Nat /\ head.name \in Names
  BY <1>3 DEF BlockRequest
<1>6. at \in Int
  BY <1>2, <1>5
<1>7. /\ pending' = pending \cup {Job(b, at, I)}
      /\ blk' = [blk EXCEPT ![b] = [exp |-> request.exp, name |-> head.name, start |-> at]]
      /\ remote' = remote \cup {b}
      /\ byName' = [byName EXCEPT ![head.name] = b]
      /\ created' = b
      /\ request' = [request EXCEPT !.blocks = Tail(request.blocks)]
      /\ UNCHANGED <<lock, todo, due, running, missed, local>>
  BY DEF SubmitBlock, jobVars
<1> HIDE DEF head, I, b, at
<1>8. request' \in RequestType /\ created' + Len(request'.blocks) <= MaxBlocks
  <2>1. request' \in RequestType /\ request'.blocks = Tail(request.blocks)
    BY <1>1, <1>3, <1>7 DEF RequestType
  <2>2. b = created + 1 /\ MaxBlocks \in Nat
    BY RequestAssumption DEF b
  <2> QED BY <1>1, <1>3, <1>4, <1>7, <2>1, <2>2
<1>9. \A x \in pending' \cup due' \cup running' : x.alloc \in local' \cup 1 .. created'
  <2>1. Job(b, at, I).alloc = b
    BY DEF Job
  <2> QED BY <1>4, <1>7, <2>1 DEF Bookkeeping
<1>10. \A c \in 1 .. created' : blk'[c] \in BlockType
  <2>1. [exp |-> request.exp, name |-> head.name, start |-> at] \in BlockType
    BY <1>2, <1>5, <1>6 DEF BlockType
  <2> QED BY <1>4, <1>7, <2>1 DEF Bookkeeping, TypeOK
<1>11. \A c \in remote' : blk'[c].start \in Int
  <2>1. blk'[b].start = at
    BY <1>4, <1>7 DEF TypeOK
  <2>2. \A c \in remote : c # b /\ c \in Blocks
    BY <1>4 DEF Bookkeeping
  <2>3. \A c \in remote : blk'[c] = blk[c]
    BY <1>7, <2>2 DEF TypeOK
  <2> QED BY <1>6, <1>7, <2>1, <2>3 DEF Bookkeeping
<1>12. \A a \in Tasks : byName'[a] = byName[a]
  BY <1>5, <1>7, NamesApart DEF TypeOK
<1>13. remote' \subseteq 1 .. created'
  BY <1>4, <1>7 DEF Bookkeeping
<1> QED BY <1>7, <1>8, <1>9, <1>10, <1>11, <1>12, <1>13 DEF Bookkeeping

LEMMA SubmitRestBook ==
  ASSUME TypeOK, Bookkeeping,
         \/ SubmitSkip \/ SubmitEnd
         \/ \E e \in Exps, t \in RequestBases, blocks \in Requests :
                SubmitBegin(e, t, blocks)
  PROVE  Bookkeeping'
<1>1. UNCHANGED <<todo, remote, blk, created, pending, due, running, local, missed, byName>>
  BY DEF SubmitSkip, SubmitEnd, SubmitBegin, tableVars, jobVars, indexVars
<1>2. lock' = "submit" => /\ request' \in RequestType
                          /\ created + Len(request'.blocks) <= MaxBlocks
  <2>1. CASE SubmitEnd
    BY <2>1 DEF SubmitEnd
  <2>2. CASE SubmitSkip
    <3>1. /\ request \in RequestType /\ request.blocks # <<>>
          /\ created + Len(request.blocks) <= MaxBlocks
          /\ request' = [request EXCEPT !.blocks = Tail(request.blocks)]
      BY <2>2 DEF SubmitSkip, Bookkeeping
    <3>2. request.blocks \in Seq(BlockRequest)
      BY <3>1 DEF RequestType
    <3>3. /\ Tail(request.blocks) \in Seq(BlockRequest)
          /\ Len(request.blocks) \in Nat
          /\ Len(Tail(request.blocks)) = Len(request.blocks) - 1
      BY <3>1, <3>2
    <3>4. request' \in RequestType /\ request'.blocks = Tail(request.blocks)
      BY <3>1, <3>3 DEF RequestType
    <3>5. created \in Nat /\ MaxBlocks \in Nat
      BY RequestAssumption DEF TypeOK
    <3> QED BY <3>1, <3>3, <3>4, <3>5
  <2>3. CASE \E e \in Exps, t \in RequestBases, blocks \in Requests :
                SubmitBegin(e, t, blocks)
    <3>1. PICK e \in Exps, t \in RequestBases, blocks \in Requests :
            SubmitBegin(e, t, blocks)
      BY <2>3
    <3>2. request' \in RequestType /\ request'.blocks = blocks
      BY <3>1, RequestAssumption DEF SubmitBegin, RequestType, TypeOK
    <3> QED BY <3>1, <3>2 DEF SubmitBegin
  <2> QED BY <2>1, <2>2, <2>3
<1> QED BY <1>1, <1>2 DEF Bookkeeping

LEMMA JobStepBook ==
  ASSUME TypeOK, Bookkeeping,
         \/ Tick
         \/ \E a \in Tasks : SwitchToCheck(a)
         \/ \E e \in Exps : GetResult(e) \/ EndPoll(e)
         \/ \E j \in pending : HandOver(j)
         \/ \E j \in due : Start(j) \/ Misfire(j)
         \/ \E x \in running, exception \in BOOLEAN : Finish(x, exception)
  PROVE  Bookkeeping'
<1>1. /\ UNCHANGED <<lock, todo, request, remote, blk, created, local, byName>>
      /\ missed' \subseteq missed \cup local
  BY DEF Tick, SwitchToCheck, GetResult, EndPoll, HandOver, Start, Misfire, Finish, lockVars, indexVars,
         jobVars
<1>2. \A x \in pending' \cup due' \cup running' :
         \E y \in pending \cup due \cup running : x.alloc = y.alloc
  BY DEF Tick, SwitchToCheck, GetResult, EndPoll, HandOver, Start, Misfire, Finish, tableVars, jobVars,
         Execution
<1> QED BY <1>1, <1>2 DEF Bookkeeping

LEMMA BookStep ==
  ASSUME TypeOK, Bookkeeping, [Next]_vars
  PROVE  Bookkeeping'
<1>1. CASE UNCHANGED vars
  BY <1>1 DEF Bookkeeping, vars, lockVars, tableVars, jobVars, indexVars
<1>2. CASE Next
  BY <1>2, CallBook, UpdateTaskBook, UpdateBeginBook, UpdateEndBook, CancelBook,
     SubmitBlockBook, SubmitRestBook, JobStepBook
     DEF Next
<1> QED BY <1>1, <1>2

LEMMA InitType == Init => TypeOK /\ Bookkeeping
<1> SUFFICES ASSUME Init PROVE TypeOK /\ Bookkeeping
  OBVIOUS
<1>1. TypeOK
  BY TimeAssumption, WAssumption, RequestAssumption
     DEF Init, TypeOK, Owner
<1>2. Bookkeeping
  BY NamesApart DEF Init, Bookkeeping
<1> QED BY <1>1, <1>2

\* The fields keep their types, and the window its MAX_TIMESLOTS slots, through
\* every handler, for every window, task set, request and bound.
THEOREM TypeCorrect == Spec => []TypeOK
<1>1. Init => TypeOK /\ Bookkeeping
  BY InitType
<1>2. TypeOK /\ Bookkeeping /\ [Next]_vars => (TypeOK /\ Bookkeeping)'
  BY TypeStep, BookStep
<1> QED BY <1>1, <1>2, PTL DEF Spec
=============================================================================
