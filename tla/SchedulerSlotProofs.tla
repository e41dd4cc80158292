------------------------- MODULE SchedulerSlotProofs -------------------------
(***************************************************************************)
(* What the table of AgentScheduler promises, for every window, task set   *)
(* and request: who owns a slot, and that update_schedule loses no job     *)
(* that lies ahead and books the window full.                              *)
(***************************************************************************)
EXTENDS AgentSchedulerProofs, WellFoundedInduction

(***************************************************************************)
(* The invariant, for a list L of allocations, a table ts, index sets idx, *)
(* jobs P in the store and D with the executor, and executions R.  It is   *)
(* stated for any values so that it can be asked of the state that         *)
(* delete_allocation leaves for schedule_allocations, too.                 *)
(***************************************************************************)
Table(L, ts, idx) ==
    /\ \A i \in 0 .. size - 1 : ts[i] # None => ts[i] \in L /\ i \in idx[ts[i]]
    /\ \A a \in L : \A i \in idx[a] : i < size /\ ts[i] = a

Kept(L, X) == {x \in X : x.known /\ x.alloc \in L}

Promises(L, ts, X) ==
    /\ \A x \in Kept(L, X) : \A i \in x.slots : i < size /\ ts[i] = x.alloc
    /\ \A x, y \in Kept(L, X) : x # y => x.slots \cap y.slots = {}

\* Jobs are told apart by their allocation and start, a job is in the store or
\* with the executor but not in both, and it holds the slot it starts in.  This
\* is what keeps two promises apart when their slots no longer tell.
Distinct(P, D) ==
    /\ \A x \in P \cup D : x.at >= 0 => x.at \in x.slots
    /\ \A x, y \in P \cup D :
          x.known /\ y.known /\ x.alloc = y.alloc /\ x.at = y.at => x = y
    /\ \A x \in P : x.known => x \notin D

SlotInv ==
    /\ Table(Listed, timeslots, slotIdx)
    /\ Promises(Listed, timeslots, pending \cup due \cup running)
    /\ Distinct(pending, due)

LEMMA SlotInvSuffices ==
  ASSUME SlotInv
  PROVE  SlotOwnership /\ JobsHoldTheirSlots /\ NoDoubleBooking
BY DEF SlotInv, Table, Promises, Kept, SlotOwnership, JobsHoldTheirSlots, NoDoubleBooking,
       Committed

-----------------------------------------------------------------------------
(* Booking *)

LEMMA BookingKeeps ==
  ASSUME TypeOK, NEW a \in Tasks,
         NEW n \in Nat \ {0}, NEW ts \in [0 .. size - 1 -> Owner],
         NEW held \in SUBSET Nat, NEW P \in SUBSET JobType, NEW D \in SUBSET JobType,
         NEW R \in SUBSET ExecutionType, NEW from, NEW S,
         BookedAt(a, n, ts, held, P, from, S),
         NEW L \in SUBSET Allocs, a \in L,
         Table(L, ts, [slotIdx EXCEPT ![a] = held]),
         Promises(L, ts, P \cup D \cup R), Distinct(P, D)
  PROVE  /\ Table(L, timeslots', slotIdx')
         /\ Promises(L, timeslots', pending' \cup D \cup R)
         /\ Distinct(pending', D)
<1> DEFINE booked == UNION {Block(q, n) : q \in S}
           N == {Job(a, q, Block(q, n)) : q \in S}
<1>1. /\ size \in Nat /\ n \in Nat \ {0} /\ a \in Allocs
      /\ \A c \in L : c # None
  BY NamesApart DEF TypeOK, Allocs
<1>2. /\ S \in SUBSET (0 .. size - 1)
      /\ \A q \in S : \A i \in Block(q, n) : i \in 0 .. size - 1 /\ ts[i] = None
      /\ \A q, r \in S : q # r => Block(q, n) \cap Block(r, n) = {}
      /\ timeslots' = [i \in 0 .. size - 1 |-> IF i \in booked THEN a ELSE ts[i]]
      /\ slotIdx' = [slotIdx EXCEPT ![a] = held \cup booked]
      /\ pending' = P \cup N
  BY DEF BookedAt
<1>3. \A i \in booked : i \in 0 .. size - 1 /\ ts[i] = None
  BY <1>2
<1>4. \A q \in S : q \in Int /\ q \in Block(q, n)
  BY <1>1, <1>2 DEF Block
<1>5. \A x \in N : \E q \in S : /\ x.alloc = a /\ x.at = q /\ x.known
                               /\ x.slots = Block(q, n) /\ x = Job(a, q, Block(q, n))
  BY DEF Job
<1> HIDE DEF N
<1>6. Table(L, timeslots', slotIdx')
  <2>1. slotIdx'[a] = held \cup booked /\ \A c \in L : c # a => slotIdx'[c] = slotIdx[c]
    BY <1>1, <1>2 DEF TypeOK
  <2>2. \A c \in L : [slotIdx EXCEPT ![a] = held][c] = IF c = a THEN held ELSE slotIdx[c]
    BY <1>1 DEF TypeOK
  <2>3. \A i \in 0 .. size - 1 : timeslots'[i] # None =>
          timeslots'[i] \in L /\ i \in slotIdx'[timeslots'[i]]
    <3> SUFFICES ASSUME NEW i \in 0 .. size - 1, timeslots'[i] # None
                 PROVE  timeslots'[i] \in L /\ i \in slotIdx'[timeslots'[i]]
      OBVIOUS
    <3>1. CASE i \in booked
      BY <3>1, <2>1, <1>2
    <3>2. CASE i \notin booked
      BY <3>2, <2>1, <2>2, <1>2 DEF Table
    <3> QED BY <3>1, <3>2
  <2>4. \A c \in L : \A i \in slotIdx'[c] : i < size /\ timeslots'[i] = c
    <3> SUFFICES ASSUME NEW c \in L, NEW i \in slotIdx'[c]
                 PROVE  i < size /\ timeslots'[i] = c
      OBVIOUS
    <3>1. CASE i \in booked /\ c = a
      BY <3>1, <1>1, <1>2, <1>3
    <3>2. CASE ~(i \in booked /\ c = a)
      <4>1. i \in [slotIdx EXCEPT ![a] = held][c]
        BY <3>2, <2>1, <2>2
      <4>2. i < size /\ ts[i] = c /\ i \in Nat
        BY <4>1, <2>2, <1>1 DEF Table, TypeOK
      <4>3. i \notin booked
        BY <4>2, <1>1, <1>3
      <4> QED BY <4>2, <4>3, <1>1, <1>2
    <3> QED BY <3>1, <3>2
  <2> QED BY <2>3, <2>4, <1>2 DEF Table
<1>7. \A x \in Kept(L, P \cup D \cup R) : \A i \in x.slots :
         i \in Nat /\ i < size /\ ts[i] = x.alloc /\ i \notin booked
  <2>1. \A x \in P \cup D \cup R : x.slots \in SUBSET Nat
    BY DEF JobType, ExecutionType
  <2>2. \A x \in Kept(L, P \cup D \cup R) : x.slots \in SUBSET Nat /\ x.alloc \in L
    BY <2>1 DEF Kept
  <2> SUFFICES ASSUME NEW x \in Kept(L, P \cup D \cup R), NEW i \in x.slots
               PROVE  i \in Nat /\ i < size /\ ts[i] = x.alloc /\ i \notin booked
    OBVIOUS
  <2>3. i \in Nat /\ i < size /\ ts[i] = x.alloc
    BY <2>2 DEF Promises
  <2>4. ts[i] # None
    BY <2>2, <2>3, <1>1
  <2> QED BY <2>3, <2>4, <1>3
<1>8. Promises(L, timeslots', pending' \cup D \cup R)
  <2>1. Kept(L, pending' \cup D \cup R) \subseteq Kept(L, P \cup D \cup R) \cup N
    BY <1>2 DEF Kept
  <2>2. \A x \in Kept(L, pending' \cup D \cup R) : \A i \in x.slots :
           i < size /\ timeslots'[i] = x.alloc
    <3> SUFFICES ASSUME NEW x \in Kept(L, pending' \cup D \cup R), NEW i \in x.slots
                 PROVE  i < size /\ timeslots'[i] = x.alloc
      OBVIOUS
    <3>1. CASE x \in N
      BY <3>1, <1>1, <1>2, <1>5
    <3>2. CASE x \in Kept(L, P \cup D \cup R)
      <4>1. i \in Nat /\ i < size /\ ts[i] = x.alloc /\ i \notin booked
        BY <3>2, <1>7
      <4> QED BY <4>1, <1>1, <1>2
    <3> QED BY <2>1, <3>1, <3>2
  <2>3. \A x, y \in Kept(L, pending' \cup D \cup R) : x # y => x.slots \cap y.slots = {}
    <3> SUFFICES ASSUME NEW x \in Kept(L, pending' \cup D \cup R),
                        NEW y \in Kept(L, pending' \cup D \cup R), x # y
                 PROVE  x.slots \cap y.slots = {}
      OBVIOUS
    <3>1. \A z \in N : z.slots \subseteq booked
      BY <1>5
    <3>2. CASE x \in N /\ y \in N
      BY <3>2, <1>2, <1>5
    <3>3. CASE x \in Kept(L, P \cup D \cup R) /\ y \in Kept(L, P \cup D \cup R)
      BY <3>3 DEF Promises
    <3>4. CASE x \in N /\ y \in Kept(L, P \cup D \cup R)
      BY <3>1, <3>4, <1>7
    <3>5. CASE y \in N /\ x \in Kept(L, P \cup D \cup R)
      BY <3>1, <3>5, <1>7
    <3> QED BY <2>1, <3>2, <3>3, <3>4, <3>5
  <2> QED BY <2>2, <2>3 DEF Promises
<1>9. \A x \in P \cup D, q \in S : ~ (x.known /\ x.alloc = a /\ x.at = q)
  <2> SUFFICES ASSUME NEW x \in P \cup D, NEW q \in S, x.known, x.alloc = a, x.at = q
               PROVE  FALSE
    OBVIOUS
  <2>1. x.at \in x.slots
    BY <1>2 DEF Distinct
  <2>2. x \in Kept(L, P \cup D \cup R)
    BY DEF Kept
  <2>3. q \in booked
    BY <1>4
  <2> QED BY <2>1, <2>2, <2>3, <1>7
<1>10. Distinct(pending', D)
  <2>1. \A x \in pending' \cup D : x.at >= 0 => x.at \in x.slots
    BY <1>2, <1>4, <1>5 DEF Distinct
  <2>2. \A x, y \in pending' \cup D :
           x.known /\ y.known /\ x.alloc = y.alloc /\ x.at = y.at => x = y
    <3> SUFFICES ASSUME NEW x \in pending' \cup D, NEW y \in pending' \cup D,
                        x.known, y.known, x.alloc = y.alloc, x.at = y.at
                 PROVE  x = y
      OBVIOUS
    <3>1. CASE x \in N /\ y \in N
      BY <3>1, <1>5
    <3>2. CASE x \in P \cup D /\ y \in P \cup D
      BY <3>2 DEF Distinct
    <3>3. CASE x \in N /\ y \in P \cup D
      BY <3>3, <1>5, <1>9
    <3>4. CASE y \in N /\ x \in P \cup D
      BY <3>4, <1>5, <1>9
    <3> QED BY <1>2, <3>1, <3>2, <3>3, <3>4
  <2>3. \A x \in pending' : x.known => x \notin D
    BY <1>2, <1>5, <1>9 DEF Distinct
  <2> QED BY <2>1, <2>2, <2>3 DEF Distinct
<1> QED BY <1>6, <1>8, <1>10

-----------------------------------------------------------------------------
(* delete_allocation and run_immediately *)

\* What is still known after Forget is known as it was.
LEMMA ForgetKnown ==
  ASSUME NEW A, NEW X, X \in SUBSET JobType \/ X \in SUBSET ExecutionType
  PROVE  /\ \A x \in Forget(X, A) : x.known => x \in X /\ x.alloc \notin A
         /\ \A x \in Forget(X, A) : \E y \in X :
               /\ x.alloc = y.alloc /\ x.slots = y.slots
               /\ X \in SUBSET JobType => x.at = y.at
<1> SUFFICES ASSUME NEW y \in X
             PROVE  LET x == [y EXCEPT !.known = y.known /\ y.alloc \notin A]
                    IN  /\ x.known => x \in X /\ x.alloc \notin A
                        /\ x.alloc = y.alloc /\ x.slots = y.slots
                        /\ X \in SUBSET JobType => x.at = y.at
  BY ZenonT(30) DEF Forget
<1>2. y \in JobType \/ y \in ExecutionType
  OBVIOUS
<1> DEFINE x == [y EXCEPT !.known = y.known /\ y.alloc \notin A]
<1>3. /\ x.alloc = y.alloc /\ x.slots = y.slots
      /\ x.known = (y.known /\ y.alloc \notin A)
      /\ X \in SUBSET JobType => x.at = y.at
  BY <1>2 DEF JobType, ExecutionType
<1>4. y.known = TRUE => [y EXCEPT !.known = TRUE] = y
  BY <1>2 DEF JobType, ExecutionType
<1> QED BY <1>3, <1>4

LEMMA RunImmediatelySlots ==
  ASSUME TypeOK, Bookkeeping, SlotInv, NEW a \in Tasks, RunImmediately(a)
  PROVE  LET L == Listed \cup {a}
         IN  /\ Table(L, timeslots', slotIdx')
             /\ Promises(L, timeslots', pending' \cup due' \cup running')
             /\ Distinct(pending', due')
<1> DEFINE L == Listed \cup {a}
           ts == WithoutSlotsOf(a)
           P == {j \in pending : j.alloc # a}
           idx == [slotIdx EXCEPT ![a] = {}]
           from == CeilSlots(clock) - IntervalSlots(a)
<1>1. /\ size \in Nat /\ timeslots \in [0 .. size - 1 -> Owner]
      /\ ts \in [0 .. size - 1 -> Owner]
      /\ P \in SUBSET JobType /\ due \in SUBSET JobType
      /\ running \in SUBSET ExecutionType
      /\ slotIdx \in [Allocs -> SUBSET Nat]
  BY DEF WithoutSlotsOf, TypeOK, Owner
<1>2. /\ L \in SUBSET Allocs /\ a \in L /\ a \in Allocs
      /\ \A c \in L : c # None
  BY NamesApart DEF TypeOK, Listed, Allocs
<1>3. due' = Forget(due, {a}) /\ running' = Forget(running, {a})
  BY DEF RunImmediately
<1>4. /\ due' \in SUBSET JobType /\ running' \in SUBSET ExecutionType
      /\ \A x \in due' : x.known => x \in due /\ x.alloc # a
      /\ \A x \in running' : x.known => x \in running /\ x.alloc # a
      /\ \A x \in due' : \E y \in due : x.slots = y.slots /\ x.at = y.at
  BY <1>1, <1>3, ForgetType, ForgetKnown
<1>5. Table(L, ts, idx)
  <2>1. \A c \in L : idx[c] = IF c = a THEN {} ELSE slotIdx[c]
    BY <1>1, <1>2
  <2>2. \A i \in 0 .. size - 1 :
           ts[i] = IF i \in slotIdx[a] /\ timeslots[i] = a THEN None ELSE timeslots[i]
    BY <1>1 DEF WithoutSlotsOf
  <2>3. \A i \in 0 .. size - 1 : ts[i] # None => ts[i] \in L /\ i \in idx[ts[i]]
    BY <2>1, <2>2 DEF SlotInv, Table
  <2>4. \A c \in L : \A i \in idx[c] : i < size /\ ts[i] = c
    <3> SUFFICES ASSUME NEW c \in L, NEW i \in idx[c] PROVE i < size /\ ts[i] = c
      OBVIOUS
    <3>1. c \in Listed /\ c # a /\ i \in slotIdx[c]
      BY <2>1
    <3>2. i < size /\ timeslots[i] = c /\ i \in Nat
      BY <3>1, <1>1, <1>2 DEF SlotInv, Table
    <3> QED BY <3>1, <3>2, <2>2, <1>1
  <2> QED BY <2>3, <2>4 DEF Table
<1>6. Promises(L, ts, P \cup due' \cup running')
  <2>1. \A x \in Kept(L, P \cup due' \cup running') :
           x \in Kept(Listed, pending \cup due \cup running) /\ x.alloc # a
    BY <1>4 DEF Kept
  <2>2. \A x \in Kept(L, P \cup due' \cup running') : \A i \in x.slots :
           i < size /\ ts[i] = x.alloc
    <3> SUFFICES ASSUME NEW x \in Kept(L, P \cup due' \cup running'), NEW i \in x.slots
                 PROVE  i < size /\ ts[i] = x.alloc
      OBVIOUS
    <3>1. x \in JobType \/ x \in ExecutionType
      BY <1>1, <1>4 DEF Kept
    <3>2. i \in Nat
      BY <3>1 DEF JobType, ExecutionType
    <3>3. i < size /\ timeslots[i] = x.alloc /\ x.alloc # a
      BY <2>1 DEF SlotInv, Promises
    <3> QED BY <3>2, <3>3, <1>1 DEF WithoutSlotsOf
  <2> QED BY <2>1, <2>2 DEF SlotInv, Promises
<1>7. Distinct(P, due')
  <2>1. \A x \in P \cup due' : x.at >= 0 => x.at \in x.slots
    BY <1>4 DEF SlotInv, Distinct
  <2>2. \A x, y \in P \cup due' :
           x.known /\ y.known /\ x.alloc = y.alloc /\ x.at = y.at => x = y
    BY <1>4 DEF SlotInv, Distinct
  <2>3. \A x \in P : x.known => x \notin due'
    BY <1>4 DEF SlotInv, Distinct
  <2> QED BY <2>1, <2>2, <2>3 DEF Distinct
<1>8. PICK S : BookedAt(a, DurationSlots(a), ts, {}, P, from, S)
  BY <1>1, BookingEffect DEF RunImmediately
<1> HIDE DEF L, ts, P, idx, from
<1>9. Table(L, ts, [slotIdx EXCEPT ![a] = {}])
  BY <1>5 DEF idx
<1>10. {} \in SUBSET Nat /\ DurationSlots(a) \in Nat \ {0}
  BY TaskSlots
<1>11. /\ Table(L, timeslots', slotIdx')
       /\ Promises(L, timeslots', pending' \cup due' \cup running')
       /\ Distinct(pending', due')
  BY <1>1, <1>2, <1>4, <1>6, <1>7, <1>8, <1>9, <1>10, BookingKeeps
<1> QED BY <1>11 DEF L

LEMMA CallSlots ==
  ASSUME TypeOK, Bookkeeping, SlotInv, NEW a \in Tasks,
         Preallocate(a) \/ Reschedule(a) \/ HandleMissed(a)
  PROVE  SlotInv'
<1>1. /\ RunImmediately(a) /\ local' = local \cup {a} /\ remote' = remote
  BY DEF Preallocate, Reschedule, HandleMissed, Bookkeeping, indexVars
<1>2. Listed' = Listed \cup {a} /\ size' = size
  BY <1>1 DEF Listed, RunImmediately, ScheduleAllocations
<1> QED BY <1>1, <1>2, RunImmediatelySlots DEF SlotInv, Table, Promises, Kept

LEMMA UpdateTaskSlots ==
  ASSUME TypeOK, Bookkeeping, SlotInv, NEW a \in Tasks, UpdateTask(a)
  PROVE  SlotInv'
<1>1. /\ a \in local /\ Listed' = Listed /\ Listed \cup {a} = Listed
  BY DEF UpdateTask, Bookkeeping, indexVars, Listed
<1>2. size' = size
  BY DEF UpdateTask, RunImmediately, ScheduleAllocations
<1>3. CASE RunImmediately(a)
  BY <1>1, <1>2, <1>3, RunImmediatelySlots DEF SlotInv, Table, Promises, Kept
<1>4. CASE UNCHANGED <<size, timeslots, slotIdx, width, pending, due, running>>
  BY <1>1, <1>4 DEF SlotInv, Table, Promises, Kept
<1>5. CASE /\ last[a] # None
           /\ ScheduleAllocations(a, width[a], timeslots, slotIdx[a], pending, ShiftedLast(a))
           /\ UNCHANGED <<due, running>>
  <2>1. /\ a \in Allocs /\ Listed \in SUBSET Allocs /\ slotIdx[a] \in SUBSET Nat
        /\ width[a] \in Nat \ {0}
        /\ timeslots \in [0 .. size - 1 -> Owner]
        /\ pending \in SUBSET JobType /\ due \in SUBSET JobType
        /\ running \in SUBSET ExecutionType
        /\ [slotIdx EXCEPT ![a] = slotIdx[a]] = slotIdx
    BY DEF TypeOK, Listed, Allocs
  <2>2. PICK S : BookedAt(a, width[a], timeslots, slotIdx[a], pending, ShiftedLast(a), S)
    BY <1>5, BookingEffect DEF TypeOK
  <2>3. /\ Table(Listed, timeslots', slotIdx')
        /\ Promises(Listed, timeslots', pending' \cup due \cup running)
        /\ Distinct(pending', due)
    <3>1. a \in Listed
      BY <1>1
    <3>2. /\ Table(Listed, timeslots, [slotIdx EXCEPT ![a] = slotIdx[a]])
          /\ Promises(Listed, timeslots, pending \cup due \cup running)
          /\ Distinct(pending, due)
      BY <2>1 DEF SlotInv
    <3> DEFINE n == width[a]
               held == slotIdx[a]
               from == ShiftedLast(a)
    <3>3. /\ n \in Nat \ {0} /\ held \in SUBSET Nat
          /\ BookedAt(a, n, timeslots, held, pending, from, S)
          /\ Table(Listed, timeslots, [slotIdx EXCEPT ![a] = held])
      BY <2>1, <2>2, <3>2
    <3> HIDE DEF n, held, from
    <3> QED BY <2>1, <3>1, <3>2, <3>3, BookingKeeps
  <2> QED BY <1>1, <1>2, <1>5, <2>3 DEF SlotInv, Table, Promises, Kept
<1> QED BY <1>3, <1>4, <1>5 DEF UpdateTask

-----------------------------------------------------------------------------
(* The window moves *)

LEMMA UpdateBeginSlots ==
  ASSUME TypeOK, Bookkeeping, SlotInv, UpdateBegin
  PROVE  SlotInv'
<1> DEFINE s == IntSlots(clock)
           X == pending \cup due \cup running
<1>1. s \in Nat /\ size \in Nat /\ size' \in Nat /\ size' >= size
      /\ size' = ShiftedSize(size, s)
  <2>1. clock \in Nat /\ size \in Nat
    BY DEF TypeOK
  <2>2. size' = ShiftedSize(size, s)
    BY DEF UpdateBegin
  <2>3. s \in Nat
    BY <2>1, IntSlotsNat
  <2> QED BY <2>1, <2>2, <2>3 DEF ShiftedSize
<1>2. /\ Listed' = Listed /\ Listed \subseteq Allocs
      /\ timeslots' = [i \in 0 .. size' - 1 |->
                          IF i + s < size THEN timeslots[i + s] ELSE None]
      /\ slotIdx' = [a \in Allocs |-> IF a \in Listed THEN ShiftedIndices(slotIdx[a], s)
                                      ELSE slotIdx[a]]
      /\ pending' = {ShiftedJob(j, s) : j \in pending}
      /\ due' = {ShiftedJob(j, s) : j \in due}
      /\ running' = {ShiftedExecution(x, s) : x \in running}
  <2>1. /\ timeslots' = Shifted(timeslots, size, s)
        /\ slotIdx' = [a \in Allocs |-> IF a \in local \cup remote
                                        THEN ShiftedIndices(slotIdx[a], s)
                                        ELSE slotIdx[a]]
        /\ pending' = {ShiftedJob(j, s) : j \in pending}
        /\ due' = {ShiftedJob(j, s) : j \in due}
        /\ running' = {ShiftedExecution(x, s) : x \in running}
        /\ UNCHANGED <<local, remote>>
    BY DEF UpdateBegin
  <2>2. local \subseteq Tasks /\ remote \subseteq Blocks
    BY DEF TypeOK
  <2> QED BY <2>1, <2>2, <1>1 DEF Shifted, Listed, Allocs
<1>3. /\ \A j \in JobType : /\ ShiftedJob(j, s).alloc = j.alloc
                           /\ ShiftedJob(j, s).at = j.at - s
                           /\ ShiftedJob(j, s).slots = ShiftedIndices(j.slots, s)
                           /\ ShiftedJob(j, s).known = j.known
      /\ \A x \in ExecutionType :
            /\ ShiftedExecution(x, s).alloc = x.alloc
            /\ ShiftedExecution(x, s).slots = ShiftedIndices(x.slots, s)
            /\ ShiftedExecution(x, s).known = x.known
  BY DEF ShiftedJob, ShiftedExecution
<1>4. \A I \in SUBSET Nat : \A i : i \in ShiftedIndices(I, s) <=> i \in Nat /\ i + s \in I
  BY <1>1 DEF ShiftedIndices
<1> HIDE DEF s
<1>5. Table(Listed, timeslots, slotIdx)' 
  <2>1. \A a \in Listed : slotIdx[a] \in SUBSET Nat /\ slotIdx'[a] = ShiftedIndices(slotIdx[a], s)
    BY <1>2 DEF TypeOK
  <2>2. \A i \in 0 .. size' - 1 : timeslots'[i] # None =>
           timeslots'[i] \in Listed /\ i \in slotIdx'[timeslots'[i]]
    <3> SUFFICES ASSUME NEW i \in 0 .. size' - 1, timeslots'[i] # None
                 PROVE  timeslots'[i] \in Listed /\ i \in slotIdx'[timeslots'[i]]
      OBVIOUS
    <3>1. i \in Nat /\ i + s \in 0 .. size - 1 /\ timeslots'[i] = timeslots[i + s]
      BY <1>1, <1>2
    <3>2. timeslots[i + s] \in Listed /\ i + s \in slotIdx[timeslots[i + s]]
      BY <3>1 DEF SlotInv, Table
    <3> QED BY <3>1, <3>2, <2>1, <1>4
  <2>3. \A a \in Listed : \A i \in slotIdx'[a] : i < size' /\ timeslots'[i] = a
    <3> SUFFICES ASSUME NEW a \in Listed, NEW i \in slotIdx'[a]
                 PROVE  i < size' /\ timeslots'[i] = a
      OBVIOUS
    <3>1. i \in Nat /\ i + s \in slotIdx[a]
      BY <2>1, <1>4
    <3>2. i + s < size /\ timeslots[i + s] = a
      BY <3>1 DEF SlotInv, Table
    <3> QED BY <3>1, <3>2, <1>1, <1>2
  <2> QED BY <2>2, <2>3, <1>2 DEF Table
\* Every job and execution of the new state is an old one, shifted.
<1>6. \A x \in Kept(Listed, pending' \cup due' \cup running') :
         \E y \in Kept(Listed, X) :
            /\ x.alloc = y.alloc /\ x.slots = ShiftedIndices(y.slots, s)
            /\ \/ y \in JobType /\ x = ShiftedJob(y, s)
               \/ y \in ExecutionType /\ x = ShiftedExecution(y, s)
  <2>1. \A x \in pending' \cup due' : \E y \in pending \cup due : x = ShiftedJob(y, s)
    BY <1>2
  <2>2. \A x \in running' : \E y \in running : x = ShiftedExecution(y, s)
    BY <1>2
  <2>3. pending \cup due \subseteq JobType /\ running \subseteq ExecutionType
    BY DEF TypeOK
  <2> QED BY <2>1, <2>2, <2>3, <1>3 DEF Kept
<1>7. \A y \in Kept(Listed, X) : y.slots \in SUBSET Nat /\ y.alloc \in Listed
  <2>1. \A y \in X : y \in JobType \/ y \in ExecutionType
    BY DEF TypeOK
  <2> QED BY <2>1 DEF Kept, JobType, ExecutionType
<1>8. Promises(Listed, timeslots, X)
  BY DEF SlotInv
<1> HIDE DEF X
<1>9. \A x \in Kept(Listed, pending' \cup due' \cup running') : \A i \in x.slots :
         i < size' /\ timeslots'[i] = x.alloc
  <2> SUFFICES ASSUME NEW x \in Kept(Listed, pending' \cup due' \cup running'),
                      NEW i \in x.slots
               PROVE  i < size' /\ timeslots'[i] = x.alloc
    OBVIOUS
  <2>1. PICK y \in Kept(Listed, X) : x.alloc = y.alloc /\ x.slots = ShiftedIndices(y.slots, s)
    BY <1>6
  <2>2. i \in Nat /\ i + s \in y.slots
    BY <2>1, <1>4, <1>7
  <2>3. i + s < size /\ timeslots[i + s] = y.alloc
    BY <2>2, <1>8 DEF Promises
  <2> QED BY <2>1, <2>2, <2>3, <1>1, <1>2
<1>10. \A x, y \in Kept(Listed, pending' \cup due' \cup running') :
          x # y => x.slots \cap y.slots = {}
  <2> SUFFICES ASSUME NEW x \in Kept(Listed, pending' \cup due' \cup running'),
                      NEW y \in Kept(Listed, pending' \cup due' \cup running'),
                      NEW i \in x.slots, i \in y.slots
               PROVE  x = y
    OBVIOUS
  <2>1. PICK u \in Kept(Listed, X) :
           /\ x.slots = ShiftedIndices(u.slots, s)
           /\ \/ u \in JobType /\ x = ShiftedJob(u, s)
              \/ u \in ExecutionType /\ x = ShiftedExecution(u, s)
    BY <1>6
  <2>2. PICK v \in Kept(Listed, X) :
           /\ y.slots = ShiftedIndices(v.slots, s)
           /\ \/ v \in JobType /\ y = ShiftedJob(v, s)
              \/ v \in ExecutionType /\ y = ShiftedExecution(v, s)
    BY <1>6
  <2>3. i + s \in u.slots /\ i + s \in v.slots
    BY <2>1, <2>2, <1>4, <1>7
  <2>4. u = v
    BY <2>3, <1>8 DEF Promises
  <2>5. ~ (u \in JobType /\ u \in ExecutionType)
    BY DEF JobType, ExecutionType
  <2> QED BY <2>1, <2>2, <2>4, <2>5
<1>11. Promises(Listed, timeslots, pending \cup due \cup running)'
  BY <1>2, <1>9, <1>10 DEF Promises, Kept
<1>12. Distinct(pending', due')
  <2>1. /\ \A x \in pending' : \E y \in pending : x = ShiftedJob(y, s)
        /\ \A x \in due' : \E y \in due : x = ShiftedJob(y, s)
    BY <1>2
  <2>2. \A y \in pending \cup due : y \in JobType /\ y.slots \in SUBSET Nat /\ y.at \in Int
    BY DEF TypeOK, JobType
  <2>3. \A x \in pending' \cup due' : x.at >= 0 => x.at \in x.slots
    <3> SUFFICES ASSUME NEW x \in pending' \cup due', x.at >= 0 PROVE x.at \in x.slots
      OBVIOUS
    <3>1. PICK y \in pending \cup due : x = ShiftedJob(y, s)
      BY <2>1
    <3>2. x.at = y.at - s /\ x.slots = ShiftedIndices(y.slots, s)
      BY <3>1, <2>2, <1>3
    <3>3. y.at >= 0 /\ x.at \in Nat /\ x.at + s = y.at
      BY <3>2, <2>2, <1>1
    <3>4. y.at \in y.slots
      BY <3>3 DEF SlotInv, Distinct
    <3> QED BY <3>2, <3>3, <3>4, <2>2, <1>4
  <2>4. \A y, z \in pending \cup due :
           LET u == ShiftedJob(y, s)
               v == ShiftedJob(z, s)
           IN  u.known /\ v.known /\ u.alloc = v.alloc /\ u.at = v.at => y = z
    <3> SUFFICES ASSUME NEW y \in pending \cup due, NEW z \in pending \cup due,
                        ShiftedJob(y, s).known, ShiftedJob(z, s).known,
                        ShiftedJob(y, s).alloc = ShiftedJob(z, s).alloc,
                        ShiftedJob(y, s).at = ShiftedJob(z, s).at
                 PROVE  y = z
      OBVIOUS
    <3>1. y.known /\ z.known /\ y.alloc = z.alloc /\ y.at - s = z.at - s
      BY <2>2, <1>3
    <3>2. y.at = z.at
      BY <3>1, <2>2, <1>1
    <3> QED BY <3>1, <3>2 DEF SlotInv, Distinct
  <2>5. \A x, y \in pending' \cup due' :
           x.known /\ y.known /\ x.alloc = y.alloc /\ x.at = y.at => x = y
    BY <2>1, <2>4
  <2>6. \A x \in pending' : x.known => x \notin due'
    <3> SUFFICES ASSUME NEW x \in pending', x.known, x \in due' PROVE FALSE
      OBVIOUS
    <3>1. PICK y \in pending : x = ShiftedJob(y, s)
      BY <2>1
    <3>2. PICK z \in due : x = ShiftedJob(z, s)
      BY <2>1
    <3>3. y = z /\ y.known
      BY <3>1, <3>2, <2>2, <2>4, <1>3
    <3> QED BY <3>3 DEF SlotInv, Distinct
  <2> QED BY <2>3, <2>5, <2>6 DEF Distinct
<1> QED BY <1>5, <1>11, <1>12 DEF SlotInv

-----------------------------------------------------------------------------
(* Allocations leave the list: pruning and cancelling *)

LEMMA WithoutSlots ==
  ASSUME TypeOK, SlotInv, NEW gone \in SUBSET Listed, NEW X,
         \A x \in X : x.known /\ x.alloc \notin gone => x \in pending \cup due \cup running
  PROVE  /\ Table(Listed \ gone, TableWithout(gone), IndicesWithout(gone))
         /\ Promises(Listed \ gone, TableWithout(gone), X)
<1> DEFINE ts == TableWithout(gone)
<1>1. /\ size \in Nat /\ Listed \subseteq Allocs /\ \A c \in Listed : c # None
      /\ slotIdx \in [Allocs -> SUBSET Nat]
  BY NamesApart DEF TypeOK, Listed, Allocs
<1>2. \A i \in 0 .. size - 1 :
         ts[i] = IF timeslots[i] \in gone THEN None ELSE timeslots[i]
  <2>1. \A i \in 0 .. size - 1 : timeslots[i] \in gone => i \in slotIdx[timeslots[i]]
    BY <1>1 DEF SlotInv, Table
  <2> QED BY <2>1 DEF TableWithout
<1>3. \A a \in Listed \ gone : IndicesWithout(gone)[a] = slotIdx[a] /\ slotIdx[a] \in SUBSET Nat
  BY <1>1 DEF IndicesWithout
<1> HIDE DEF ts
<1>4. Table(Listed \ gone, ts, IndicesWithout(gone))
  <2>1. \A i \in 0 .. size - 1 : ts[i] # None =>
           ts[i] \in Listed \ gone /\ i \in IndicesWithout(gone)[ts[i]]
    BY <1>2, <1>3 DEF SlotInv, Table
  <2>2. \A a \in Listed \ gone : \A i \in IndicesWithout(gone)[a] : i < size /\ ts[i] = a
    BY <1>1, <1>2, <1>3 DEF SlotInv, Table
  <2> QED BY <2>1, <2>2 DEF Table
<1>5. Promises(Listed \ gone, ts, X)
  <2>1. \A x \in Kept(Listed \ gone, X) :
           /\ x \in Kept(Listed, pending \cup due \cup running)
           /\ x.alloc \notin gone /\ x.slots \in SUBSET Nat
    <3>1. \A x \in pending \cup due \cup running : x.slots \in SUBSET Nat
      BY DEF TypeOK, JobType, ExecutionType
    <3> QED BY <3>1 DEF Kept
  <2>2. \A x \in Kept(Listed \ gone, X) : \A i \in x.slots : i < size /\ ts[i] = x.alloc
    <3> SUFFICES ASSUME NEW x \in Kept(Listed \ gone, X), NEW i \in x.slots
                 PROVE  i < size /\ ts[i] = x.alloc
      OBVIOUS
    <3>1. i < size /\ timeslots[i] = x.alloc /\ i \in Nat /\ x.alloc \notin gone
      BY <2>1 DEF SlotInv, Promises
    <3> QED BY <3>1, <1>1, <1>2
  <2> QED BY <2>1, <2>2 DEF SlotInv, Promises
<1> QED BY <1>4, <1>5 DEF ts

LEMMA UpdateEndSlots ==
  ASSUME TypeOK, Bookkeeping, SlotInv, UpdateEnd
  PROVE  SlotInv'
<1> DEFINE pruned == {b \in remote : ~KeepsRemote(b)}
<1>1. /\ timeslots' = TableWithout(pruned) /\ slotIdx' = IndicesWithout(pruned)
      /\ remote' = remote \ pruned
      /\ UNCHANGED <<size, pending, due, running, local>>
      /\ pruned \in SUBSET remote
  BY DEF UpdateEnd, jobVars
<1> HIDE DEF pruned
<1>2. pruned \in SUBSET Listed /\ Listed' = Listed \ pruned
  <2>1. \A b \in pruned : b \notin local
    BY <1>1, NamesApart DEF TypeOK, Blocks
  <2> QED BY <1>1, <2>1 DEF Listed
<1>3. /\ Table(Listed \ pruned, TableWithout(pruned), IndicesWithout(pruned))
      /\ Promises(Listed \ pruned, TableWithout(pruned), pending \cup due \cup running)
  BY <1>2, WithoutSlots
<1>4. Table(Listed, timeslots, slotIdx)'
  BY <1>1, <1>2, <1>3 DEF Table
<1>5. Promises(Listed, timeslots, pending \cup due \cup running)'
  BY <1>1, <1>2, <1>3 DEF Promises, Kept
<1> QED BY <1>1, <1>4, <1>5 DEF SlotInv

LEMMA CancelSlots ==
  ASSUME TypeOK, Bookkeeping, SlotInv, NEW e \in Exps, Cancel(e)
  PROVE  SlotInv'
<1> DEFINE gone == BlocksOf(e)
<1>1. /\ timeslots' = TableWithout(gone) /\ slotIdx' = IndicesWithout(gone)
      /\ remote' = remote \ gone
      /\ pending' = {j \in pending : j.alloc \notin gone}
      /\ due' = Forget(due, gone) /\ running' = Forget(running, gone)
      /\ UNCHANGED <<size, local>>
      /\ gone \in SUBSET remote
  BY DEF Cancel, BlocksOf
<1> HIDE DEF gone
<1>2. gone \in SUBSET Listed /\ Listed' = Listed \ gone
  <2>1. gone \subseteq remote
    BY <1>1
  <2>2. \A b \in gone : b \notin local
    BY <2>1, NamesApart DEF TypeOK, Blocks
  <2> QED BY <1>1, <2>2 DEF Listed
<1>3. /\ \A x \in due' : x.known => x \in due
      /\ \A x \in running' : x.known => x \in running
      /\ \A x \in due' : \E y \in due : x.slots = y.slots /\ x.at = y.at
  <2>1. due \in SUBSET JobType /\ running \in SUBSET ExecutionType
    BY DEF TypeOK
  <2> QED BY <1>1, <2>1, ForgetKnown
<1>4. \A x \in pending' \cup due' \cup running' :
         x.known /\ x.alloc \notin gone => x \in pending \cup due \cup running
  BY <1>1, <1>3
<1>5. Distinct(pending', due')
  <2>1. \A x \in pending' \cup due' : x.at >= 0 => x.at \in x.slots
    BY <1>1, <1>3 DEF SlotInv, Distinct
  <2>2. \A x, y \in pending' \cup due' :
           x.known /\ y.known /\ x.alloc = y.alloc /\ x.at = y.at => x = y
    BY <1>1, <1>3 DEF SlotInv, Distinct
  <2>3. \A x \in pending' : x.known => x \notin due'
    BY <1>1, <1>3 DEF SlotInv, Distinct
  <2> QED BY <2>1, <2>2, <2>3 DEF Distinct
<1>6. /\ Table(Listed \ gone, TableWithout(gone), IndicesWithout(gone))
      /\ Promises(Listed \ gone, TableWithout(gone), pending' \cup due' \cup running')
  BY <1>2, <1>4, WithoutSlots
<1>7. Table(Listed, timeslots, slotIdx)'
  BY <1>1, <1>2, <1>6 DEF Table
<1>8. Promises(Listed, timeslots, pending \cup due \cup running)'
  BY <1>1, <1>2, <1>6 DEF Promises, Kept
<1> QED BY <1>5, <1>7, <1>8 DEF SlotInv

-----------------------------------------------------------------------------
(* A submitted block *)

LEMMA SubmitBlockSlots ==
  ASSUME TypeOK, Bookkeeping, SlotInv, SubmitBlock
  PROVE  SlotInv'
<1> DEFINE head == Head(request.blocks)
           I == Indices(head)
           b == created + 1
           at == request.diff + head.first
           new == Job(b, at, I)
           X == pending \cup due \cup running
<1>1. /\ request \in RequestType /\ request.blocks # <<>>
      /\ created + Len(request.blocks) <= MaxBlocks
      /\ I # {} /\ Fits(I)
      /\ timeslots' = [i \in 0 .. size - 1 |-> IF i \in I THEN b ELSE timeslots[i]]
      /\ slotIdx' = [slotIdx EXCEPT ![b] = I]
      /\ pending' = pending \cup {new}
      /\ remote' = remote \cup {b}
      /\ UNCHANGED <<size, due, running, local>>
  BY DEF SubmitBlock, Bookkeeping, jobVars
<1>2. request.diff \in Nat /\ head \in BlockRequest
  BY <1>1 DEF RequestType
<1>3. head.first \in head.slots /\ at \in I
  BY <1>1, <1>2 DEF BlockRequest, Indices
<1>4. I \subseteq 0 .. size - 1 /\ \A i \in I : timeslots[i] = None
  BY <1>1 DEF Fits, AreSlotsEmpty
<1>5. /\ created \in Nat /\ size \in Nat /\ b \in Blocks /\ b \in Allocs
      /\ b \notin 1 .. created /\ b \notin local
      /\ Listed \subseteq Allocs /\ \A c \in Listed : c # None
      /\ slotIdx \in [Allocs -> SUBSET Nat]
  <2>1. Len(request.blocks) \in Nat \ {0}
    BY <1>1 DEF RequestType
  <2>2. created \in Nat /\ b \in Blocks /\ b \in Allocs /\ b \notin 1 .. created
    BY <1>1, <2>1, RequestAssumption DEF TypeOK, Blocks, Allocs
  <2>3. b \notin local
    BY <2>2, NamesApart DEF TypeOK
  <2> QED BY <2>2, <2>3, NamesApart DEF TypeOK, Listed, Allocs
<1>6. /\ b \notin Listed /\ Listed' = Listed \cup {b}
      /\ \A x \in X : x.alloc # b
  BY <1>1, <1>5 DEF Listed, Bookkeeping
<1>7. new.alloc = b /\ new.at = at /\ new.slots = I /\ new.known
  BY DEF Job
<1>8. Table(Listed, timeslots, slotIdx) /\ Promises(Listed, timeslots, X) /\ Distinct(pending, due)
  BY DEF SlotInv
<1>9. \A x \in X : x.slots \in SUBSET Nat
  BY DEF TypeOK, JobType, ExecutionType
<1>10. pending' \cup due' \cup running' = X \cup {new}
  BY <1>1
<1> HIDE DEF head, I, b, at, new, X
<1>11. slotIdx'[b] = I /\ \A c \in Listed : slotIdx'[c] = slotIdx[c] /\ slotIdx[c] \in SUBSET Nat
  BY <1>1, <1>5, <1>6
<1>12. Table(Listed, timeslots, slotIdx)'
  <2>1. \A i \in 0 .. size - 1 : timeslots'[i] # None =>
           timeslots'[i] \in Listed' /\ i \in slotIdx'[timeslots'[i]]
    BY <1>1, <1>6, <1>8, <1>11 DEF Table
  <2>2. \A c \in Listed' : \A i \in slotIdx'[c] : i < size /\ timeslots'[i] = c
    <3> SUFFICES ASSUME NEW c \in Listed', NEW i \in slotIdx'[c]
                 PROVE  i < size /\ timeslots'[i] = c
      OBVIOUS
    <3>1. CASE c = b
      BY <3>1, <1>1, <1>4, <1>5, <1>11
    <3>2. CASE c \in Listed
      <4>1. i \in Nat /\ i < size /\ timeslots[i] = c /\ c # None
        BY <3>2, <1>5, <1>8, <1>11 DEF Table
      <4> QED BY <4>1, <1>1, <1>4, <1>5
    <3> QED BY <3>1, <3>2, <1>6
  <2> QED BY <2>1, <2>2, <1>1 DEF Table
<1>13. \A x \in Kept(Listed, X) : \A i \in x.slots :
          i \in Nat /\ i < size /\ timeslots[i] = x.alloc /\ i \notin I
  <2> SUFFICES ASSUME NEW x \in Kept(Listed, X), NEW i \in x.slots
               PROVE  i \in Nat /\ i < size /\ timeslots[i] = x.alloc /\ i \notin I
    OBVIOUS
  <2>1. i < size /\ timeslots[i] = x.alloc
    BY <1>8 DEF Promises
  <2>2. i \in Nat /\ x.alloc # None
    BY <1>5, <1>9 DEF Kept
  <2> QED BY <2>1, <2>2, <1>4
<1>14. \A x \in Kept(Listed', X \cup {new}) : x \in Kept(Listed, X) \/ x = new
  BY <1>6 DEF Kept
<1>15. Promises(Listed, timeslots, pending \cup due \cup running)'
  <2>1. \A x \in Kept(Listed', X \cup {new}) : \A i \in x.slots :
           i < size /\ timeslots'[i] = x.alloc
    <3> SUFFICES ASSUME NEW x \in Kept(Listed', X \cup {new}), NEW i \in x.slots
                 PROVE  i < size /\ timeslots'[i] = x.alloc
      OBVIOUS
    <3>1. CASE x = new
      <4>1. i \in I /\ x.alloc = b
        BY <3>1, <1>7
      <4>2. i \in 0 .. size - 1
        BY <4>1, <1>4
      <4> QED BY <4>1, <4>2, <1>1, <1>5
    <3>2. CASE x \in Kept(Listed, X)
      <4>1. i \in Nat /\ i < size /\ timeslots[i] = x.alloc /\ i \notin I
        BY <3>2, <1>13
      <4> QED BY <4>1, <1>1, <1>5
    <3> QED BY <3>1, <3>2, <1>14
  <2>2. \A x, y \in Kept(Listed', X \cup {new}) : x # y => x.slots \cap y.slots = {}
    <3>1. \A x \in Kept(Listed, X) : x.slots \cap new.slots = {}
      BY <1>7, <1>13
    <3> QED BY <3>1, <1>8, <1>14 DEF Promises
  <2> QED BY <2>1, <2>2, <1>1, <1>10 DEF Promises, Kept
<1>16. Distinct(pending', due')
  <2>1. pending \cup due \subseteq X
    BY DEF X
  <2>2. \A x \in pending' \cup due' : x.at >= 0 => x.at \in x.slots
    BY <1>1, <1>3, <1>7, <1>8 DEF Distinct
  <2>3. \A x, y \in pending' \cup due' :
           x.known /\ y.known /\ x.alloc = y.alloc /\ x.at = y.at => x = y
    BY <1>1, <1>6, <1>7, <1>8, <2>1 DEF Distinct
  <2>4. \A x \in pending' : x.known => x \notin due'
    BY <1>1, <1>6, <1>7, <1>8, <2>1 DEF Distinct
  <2> QED BY <2>2, <2>3, <2>4 DEF Distinct
<1> QED BY <1>12, <1>15, <1>16 DEF SlotInv

-----------------------------------------------------------------------------
(* Jobs run *)

LEMMA HandOverSlots ==
  ASSUME SlotInv, NEW j \in pending, HandOver(j)
  PROVE  SlotInv'
<1>1. /\ UNCHANGED <<size, timeslots, slotIdx, local, remote, running>>
      /\ pending' = pending \ {j} /\ due' = due \cup {j}
  BY DEF HandOver, indexVars
<1>2. Distinct(pending', due')
  <2>1. pending' \cup due' = pending \cup due
    BY <1>1
  <2>2. \A x \in pending' : x.known => x \notin due'
    BY <1>1 DEF SlotInv, Distinct
  <2> QED BY <2>1, <2>2 DEF SlotInv, Distinct
<1>3. pending' \cup due' \cup running' = pending \cup due \cup running
  BY <1>1
<1> QED BY <1>1, <1>2, <1>3 DEF SlotInv, Table, Promises, Kept, Listed

\* The execution takes over the slots of its job.
LEMMA StartSlots ==
  ASSUME TypeOK, SlotInv, NEW j \in due, Start(j)
  PROVE  SlotInv'
<1> DEFINE X == pending \cup due \cup running
<1>1. /\ UNCHANGED <<size, timeslots, slotIdx, local, remote, pending>>
      /\ due' = due \ {j} /\ running' = running \cup {Execution(j)}
  BY DEF Start, indexVars, tableVars
<1>2. /\ Execution(j).alloc = j.alloc /\ Execution(j).slots = j.slots
      /\ Execution(j).known = j.known
  BY DEF Execution
<1>3. \A x \in Kept(Listed, pending' \cup due' \cup running') :
         (x \in Kept(Listed, X) /\ x # j) \/ x = Execution(j)
  <2>1. j.known => j \notin pending
    BY DEF SlotInv, Distinct
  <2>2. \A x \in running : x # j
    <3>1. \A x \in JobType : x \notin ExecutionType
      BY DEF JobType, ExecutionType
    <3>2. j \in JobType /\ running \subseteq ExecutionType
      BY DEF TypeOK
    <3> QED BY <3>1, <3>2
  <2> QED BY <1>1, <2>1, <2>2 DEF Kept
<1>4. Promises(Listed, timeslots, X)
  BY DEF SlotInv
<1>5. Execution(j) \in Kept(Listed, pending' \cup due' \cup running') => j \in Kept(Listed, X)
  BY <1>2 DEF Kept
<1> HIDE DEF X
<1>6. Promises(Listed, timeslots, pending' \cup due' \cup running')
  <2>1. \A x \in Kept(Listed, pending' \cup due' \cup running') : \A i \in x.slots :
           i < size /\ timeslots[i] = x.alloc
    BY <1>2, <1>3, <1>4, <1>5 DEF Promises
  <2>2. \A x, y \in Kept(Listed, pending' \cup due' \cup running') :
           x # y => x.slots \cap y.slots = {}
    BY <1>2, <1>3, <1>4, <1>5 DEF Promises
  <2> QED BY <2>1, <2>2 DEF Promises
<1>7. Distinct(pending', due')
  BY <1>1 DEF SlotInv, Distinct
<1> QED BY <1>1, <1>6, <1>7 DEF SlotInv, Table, Promises, Kept, Listed

\* Jobs and executions that end leave the table as it is.
LEMMA FewerJobsSlots ==
  ASSUME SlotInv,
         UNCHANGED <<size, timeslots, slotIdx, local, remote, pending>>,
         due' \subseteq due, running' \subseteq running
  PROVE  SlotInv'
<1>1. Kept(Listed, pending' \cup due' \cup running')
         \subseteq Kept(Listed, pending \cup due \cup running)
  BY DEF Kept
<1>2. Promises(Listed, timeslots, pending' \cup due' \cup running')
  BY <1>1 DEF SlotInv, Promises
<1>3. Distinct(pending', due')
  BY DEF SlotInv, Distinct
<1> QED BY <1>2, <1>3 DEF SlotInv, Table, Promises, Kept, Listed

LEMMA SlotStep ==
  ASSUME TypeOK, Bookkeeping, SlotInv, [Next]_vars
  PROVE  SlotInv'
<1>1. CASE \/ UNCHANGED vars \/ Tick \/ SubmitSkip \/ SubmitEnd
           \/ \E a \in Tasks : SwitchToCheck(a)
           \/ \E e \in Exps : \/ GetResult(e) \/ EndPoll(e)
                              \/ \E t \in RequestBases, blocks \in Requests :
                                    SubmitBegin(e, t, blocks)
           \/ \E j \in due : Misfire(j)
           \/ \E x \in running, exception \in BOOLEAN : Finish(x, exception)
  BY <1>1, FewerJobsSlots
     DEF vars, Tick, SwitchToCheck, SubmitSkip, SubmitEnd, SubmitBegin, GetResult, EndPoll, Misfire,
         Finish, tableVars, jobVars, indexVars
<1>2. CASE \/ UpdateBegin \/ UpdateEnd \/ SubmitBlock
           \/ \E a \in Tasks : Preallocate(a) \/ Reschedule(a) \/ UpdateTask(a)
                              \/ HandleMissed(a)
           \/ \E e \in Exps : Cancel(e)
           \/ \E j \in pending : HandOver(j)
           \/ \E j \in due : Start(j)
  BY <1>2, UpdateBeginSlots, UpdateEndSlots, SubmitBlockSlots, CallSlots, UpdateTaskSlots,
     CancelSlots, HandOverSlots, StartSlots
<1> QED BY <1>1, <1>2 DEF Next

LEMMA InitSlots == Init => SlotInv
  BY DEF Init, SlotInv, Table, Promises, Kept, Distinct, Listed

LEMMA SlotInvariance == Spec => [](TypeOK /\ Bookkeeping /\ SlotInv)
<1>1. Init => TypeOK /\ Bookkeeping /\ SlotInv
  BY InitType, InitSlots
<1>2. TypeOK /\ Bookkeeping /\ SlotInv /\ [Next]_vars
         => (TypeOK /\ Bookkeeping /\ SlotInv)'
  BY TypeStep, BookStep, SlotStep
<1> QED BY <1>1, <1>2, PTL DEF Spec

\* The table and the index sets kept by hand in _allocate, delete_allocation,
\* handle_cancel and update_schedule never disagree about the owner of a slot.
THEOREM SlotsAreOwned == Spec => []SlotOwnership
<1>1. SlotInv => SlotOwnership
  BY SlotInvSuffices
<1> QED BY <1>1, SlotInvariance, PTL

\* No handler takes a slot from a job or an execution that is still listed and
\* known: shifts, updates, submissions and cancellations of others leave it.
THEOREM PromisesHold == Spec => []JobsHoldTheirSlots
<1>1. SlotInv => JobsHoldTheirSlots
  BY SlotInvSuffices
<1> QED BY <1>1, SlotInvariance, PTL

\* No two of them ever share a slot, be they of calibrations or of experiments.
THEOREM NeverDoubleBooked == Spec => []NoDoubleBooking
<1>1. SlotInv => NoDoubleBooking
  BY SlotInvSuffices
<1> QED BY <1>1, SlotInvariance, PTL

-----------------------------------------------------------------------------
(* Where a booking ends *)

LEMMA LeastStart ==
  ASSUME NEW T \in SUBSET Nat, T # {}
  PROVE  \E m \in T : \A i \in T : m <= i
<1>1. PICK m \in T : \A i \in T : ~ (<<i, m>> \in OpToRel(<, Nat))
  BY NatLessThanWellFounded, WFMin
<1>2. \A i \in T : ~ (i < m)
  BY <1>1 DEF OpToRel
<1> QED BY <1>2

\* The last allocation of a begins at slot `top`, not before the one it had; no
\* block that was booked begins later, and none could be booked after it.
BookedTo(a, n, ts, from, S, top) ==
    /\ top \in Int /\ from <= top /\ \A q \in S : q <= top
    /\ last' = [last EXCEPT ![a] = top]
    /\ Candidates(ts, S, top + IntervalSlots(a), n) = {}

LEMMA BookingEnds ==
  ASSUME NEW a \in Tasks, size \in Nat,
         NEW n, NEW ts, DOMAIN ts = 0 .. size - 1,
         NEW held, NEW jobs, NEW from \in Int,
         ScheduleAllocations(a, n, ts, held, jobs, from)
  PROVE  \E S, top : /\ BookedAt(a, n, ts, held, jobs, from, S)
                     /\ BookedTo(a, n, ts, from, S, top)
<1> DEFINE k == IntervalSlots(a)
<1>0. k \in Nat
  BY TaskSlots
<1>1. PICK S \in SUBSET {i \in 0 .. size - 1 : ts[i] = None} :
        /\ Greedy(ts, S, from + k, n, k)
        /\ LET booked == UNION {Block(q, n) : q \in S}
           IN  /\ timeslots' = [i \in 0 .. size - 1 |-> IF i \in booked THEN a ELSE ts[i]]
               /\ slotIdx' = [slotIdx EXCEPT ![a] = held \cup booked]
        /\ pending' = jobs \cup {Job(a, q, Block(q, n)) : q \in S}
        /\ \/ S = {} /\ last' = [last EXCEPT ![a] = from]
           \/ \E q \in S : /\ \A r \in S : r <= q
                           /\ last' = [last EXCEPT ![a] = q]
        /\ width' = [width EXCEPT ![a] = n]
        /\ size' = size
  BY DEF ScheduleAllocations
<1>2. BookedAt(a, n, ts, held, jobs, from, S)
  <2>1. \A q \in S :
          /\ Block(q, n) \subseteq DOMAIN ts
          /\ AreSlotsEmpty(ts, Block(q, n))
          /\ \A r \in StartsBefore(S, q) : Block(q, n) \cap Block(r, n) = {}
    <3>1. \A q \in S : q \in Candidates(ts, StartsBefore(S, q),
                               NextRequest(StartsBefore(S, q), from + k, k), n)
      BY <1>1 DEF Greedy
    <3> QED BY <3>1 DEF Candidates
  <2>2. \A q \in S : \A i \in Block(q, n) : i \in 0 .. size - 1 /\ ts[i] = None
    BY <2>1 DEF AreSlotsEmpty
  <2>3. \A q, r \in S : q # r => Block(q, n) \cap Block(r, n) = {}
    <3> SUFFICES ASSUME NEW q \in S, NEW r \in S, q # r
                 PROVE  Block(q, n) \cap Block(r, n) = {}
      OBVIOUS
    <3>1. q < r \/ r < q
      BY <1>1
    <3> QED BY <3>1, <2>1 DEF StartsBefore
  <2>4. S \in SUBSET (0 .. size - 1)
    BY <1>1
  <2> QED BY <1>1, <2>2, <2>3, <2>4 DEF BookedAt
<1>3. Candidates(ts, S, NextRequest(S, from + k, k), n) = {}
  BY <1>1 DEF Greedy
<1>4. CASE S = {} /\ last' = [last EXCEPT ![a] = from]
  <2>1. NextRequest(S, from + k, k) = from + k
    BY <1>4 DEF NextRequest
  <2>2. BookedTo(a, n, ts, from, S, from)
    BY <1>3, <1>4, <2>1 DEF BookedTo
  <2> QED BY <1>2, <2>2
<1>5. ASSUME NEW top \in S, \A r \in S : r <= top, last' = [last EXCEPT ![a] = top]
      PROVE  BookedTo(a, n, ts, from, S, top)
  <2>1. S \in SUBSET Nat
    BY <1>1
  <2> DEFINE max == CHOOSE r \in S : \A s \in S : s <= r
  <2>2. max \in S /\ \A s \in S : s <= max
    BY <1>5
  <2> HIDE DEF max
  <2>3. max = top
    BY <1>5, <2>1, <2>2
  <2>4. NextRequest(S, from + k, k) = top + k
    BY <1>5, <2>3 DEF NextRequest, max
  <2>5. PICK q \in S : \A i \in S : q <= i
    BY <1>5, <2>1, LeastStart
  <2>6. StartsBefore(S, q) = {}
    <3>1. \A r \in S : r \in Nat /\ q \in Nat /\ ~ (r < q)
      BY <2>1, <2>5
    <3> QED BY <3>1 DEF StartsBefore
  <2>7. q \in Candidates(ts, {}, NextRequest({}, from + k, k), n)
    BY <1>1, <2>6 DEF Greedy
  <2>8. q >= from + k
    BY <2>7 DEF Candidates, NextRequest
  <2>9. from <= top /\ top \in Int
    BY <1>0, <1>5, <2>1, <2>5, <2>8
  <2> QED BY <1>3, <1>5, <2>4, <2>9 DEF BookedTo
<1> QED BY <1>1, <1>2, <1>4, <1>5

\* run_immediately books from the present.
LEMMA RunImmediatelyEnds ==
  ASSUME TypeOK, NEW a \in Tasks, RunImmediately(a)
  PROVE  \E from, S, top :
            /\ from \in Int
            /\ BookedAt(a, DurationSlots(a), WithoutSlotsOf(a), {},
                        {j \in pending : j.alloc # a}, from, S)
            /\ BookedTo(a, DurationSlots(a), WithoutSlotsOf(a), from, S, top)
<1>1. size \in Nat /\ DOMAIN WithoutSlotsOf(a) = 0 .. size - 1
  BY DEF TypeOK, WithoutSlotsOf
<1>2. CeilSlots(clock) - IntervalSlots(a) \in Int
  BY CeilSlotsInt, TaskSlots DEF TypeOK
<1>3. ScheduleAllocations(a, DurationSlots(a), WithoutSlotsOf(a), {},
                          {j \in pending : j.alloc # a},
                          CeilSlots(clock) - IntervalSlots(a))
  BY DEF RunImmediately
<1> QED BY <1>1, <1>2, <1>3, BookingEnds

-----------------------------------------------------------------------------
(* update_schedule drops no job that lies ahead *)

\* How far the window has moved since the last allocation of a was noted.
Lag(a) == IF lock = "update" /\ a \in todo THEN shift ELSE 0

\* Nothing is booked for a before its first allocation, and no job of it lies
\* behind its last one.
UpToLast(a) ==
    /\ last[a] = None => slotIdx[a] = {} /\ \A j \in pending : j.alloc # a
    /\ last[a] # None => \A j \in pending : j.alloc = a => j.at <= last[a] - Lag(a)

BookedUpToLast == \A a \in Tasks : UpToLast(a)

LEMMA TaskFacts ==
  ASSUME NEW a \in Tasks
  PROVE  a \in Allocs /\ a \notin Blocks
BY NamesApart DEF Allocs, Blocks

\* Steps that leave the last allocations alone and book nothing for a task.
LEMMA UpToLastSame ==
  ASSUME BookedUpToLast, last' = last,
         \A a \in Tasks : slotIdx'[a] \subseteq slotIdx[a] /\ Lag(a)' = Lag(a),
         \A j \in pending' : j \in pending \/ j.alloc \notin Tasks
  PROVE  BookedUpToLast'
<1> SUFFICES ASSUME NEW a \in Tasks PROVE UpToLast(a)'
  BY DEF BookedUpToLast
<1>1. UpToLast(a)
  BY DEF BookedUpToLast
<1>2. Lag(a)' = Lag(a)
  OBVIOUS
<1> HIDE DEF Lag
<1> QED BY <1>1, <1>2 DEF UpToLast

\* A booking of a moves its last allocation up with its jobs.
LEMMA UpToLastBooked ==
  ASSUME TypeOK, BookedUpToLast, NEW a \in Tasks,
         NEW n, NEW ts, NEW held, NEW jobs \in SUBSET pending, NEW from \in Int, NEW S, NEW top,
         BookedAt(a, n, ts, held, jobs, from, S), BookedTo(a, n, ts, from, S, top),
         \A j \in jobs : j.alloc = a => j.at <= from,
         Lag(a)' = 0, \A b \in Tasks \ {a} : Lag(b)' = Lag(b)
  PROVE  BookedUpToLast'
<1> SUFFICES ASSUME NEW b \in Tasks PROVE UpToLast(b)'
  BY DEF BookedUpToLast
<1>1. /\ last'[a] = top /\ top \in Int /\ from <= top
      /\ \A q \in S : q <= top
      /\ pending' = jobs \cup {Job(a, q, Block(q, n)) : q \in S}
      /\ \A j \in jobs : j \in JobType
  BY DEF BookedAt, BookedTo, TypeOK
<1>2. CASE b = a
  <2>1. \A j \in pending' : j.alloc = a => j.at <= top
    <3>1. \A j \in jobs : j.alloc = a => j.at <= top
      BY <1>1 DEF JobType
    <3>2. \A q \in S : Job(a, q, Block(q, n)).at <= top
      BY <1>1 DEF Job
    <3> QED BY <1>1, <3>1, <3>2
  <2>2. last'[a] # None
    BY <1>1, NamesApart
  <2>3. top - 0 = top
    BY <1>1
  <2> QED BY <1>1, <1>2, <2>1, <2>2, <2>3 DEF UpToLast
<1>3. CASE b # a
  <2>1. last'[b] = last[b] /\ slotIdx'[b] = slotIdx[b]
    BY <1>3, TaskFacts DEF BookedAt, BookedTo, TypeOK
  <2>2. \A j \in pending' : j.alloc = b => j \in pending
    BY <1>1, <1>3 DEF Job
  <2>3. Lag(b)' = Lag(b)
    BY <1>3
  <2> QED BY <2>1, <2>2, <2>3 DEF BookedUpToLast, UpToLast
<1> QED BY <1>2, <1>3

LEMMA RunImmediatelyUpTo ==
  ASSUME TypeOK, BookedUpToLast, NEW a \in Tasks, RunImmediately(a),
         Lag(a)' = 0, \A b \in Tasks \ {a} : Lag(b)' = Lag(b)
  PROVE  BookedUpToLast'
<1> DEFINE jobs == {j \in pending : j.alloc # a}
<1>1. PICK from, S, top :
            /\ from \in Int
            /\ BookedAt(a, DurationSlots(a), WithoutSlotsOf(a), {}, jobs, from, S)
            /\ BookedTo(a, DurationSlots(a), WithoutSlotsOf(a), from, S, top)
  BY RunImmediatelyEnds
<1>2. jobs \in SUBSET pending /\ \A j \in jobs : j.alloc = a => j.at <= from
  OBVIOUS
<1> HIDE DEF jobs
<1> QED BY <1>1, <1>2, UpToLastBooked

\* The window moves, and the last allocations are behind until they are visited.
LEMMA UpdateBeginUpTo ==
  ASSUME TypeOK, Bookkeeping, BookedUpToLast, UpdateBegin
  PROVE  BookedUpToLast'
<1> DEFINE s == IntSlots(clock)
<1>1. s \in Nat
  BY IntSlotsNat DEF TypeOK
<1>2. /\ lock = "free" /\ lock' = "update" /\ todo' = local /\ shift' = s
      /\ pending' = {ShiftedJob(j, s) : j \in pending}
      /\ slotIdx' = [b \in Allocs |-> IF b \in local \cup remote
                                      THEN ShiftedIndices(slotIdx[b], s) ELSE slotIdx[b]]
      /\ last' = last
  BY DEF UpdateBegin
<1> HIDE DEF s
<1> SUFFICES ASSUME NEW a \in Tasks PROVE UpToLast(a)'
  BY DEF BookedUpToLast
<1>3. UpToLast(a) /\ Lag(a) = 0
  BY <1>2 DEF BookedUpToLast, Lag
<1>4. Lag(a)' \in 0 .. s
  BY <1>1, <1>2 DEF Lag
<1>5. \A j \in pending' : \E i \in pending : j.alloc = i.alloc /\ j.at = i.at - s
  BY <1>2 DEF ShiftedJob
<1>6. slotIdx[a] = {} => slotIdx'[a] = {}
  BY <1>2, TaskFacts DEF ShiftedIndices
<1>7. CASE last[a] = None
  BY <1>2, <1>3, <1>5, <1>6, <1>7 DEF UpToLast
<1>8. CASE last[a] # None
  <2>1. last[a] \in Int
    BY <1>8 DEF TypeOK
  <2>2. ASSUME NEW j \in pending', j.alloc = a PROVE j.at <= last[a] - Lag(a)'
    <3>1. PICK i \in pending : j.alloc = i.alloc /\ j.at = i.at - s
      BY <1>5
    <3>2. i.at <= last[a] - 0 /\ i.at \in Int
      BY <1>3, <1>8, <2>2, <3>1 DEF UpToLast, TypeOK, JobType
    <3> DEFINE lag == Lag(a)'
    <3>3. lag \in 0 .. s
      BY <1>4
    <3> HIDE DEF lag
    <3>4. j.at <= last[a] - lag
      BY <1>1, <2>1, <3>1, <3>2, <3>3
    <3> QED BY <3>4 DEF lag
  <2> QED BY <1>2, <1>8, <2>2 DEF UpToLast
<1> QED BY <1>7, <1>8

\* When update_schedule visits a, its last allocation catches up.
LEMMA UpdateTaskUpTo ==
  ASSUME TypeOK, BookedUpToLast, NEW a \in Tasks, UpdateTask(a)
  PROVE  BookedUpToLast'
<1>1. /\ lock = "update" /\ a \in todo /\ todo' = todo \ {a}
      /\ UNCHANGED <<lock, shift>>
  BY DEF UpdateTask
<1>2. /\ Lag(a) = shift /\ Lag(a)' = 0
      /\ \A b \in Tasks \ {a} : Lag(b)' = Lag(b)
  BY <1>1 DEF Lag
<1>3. CASE RunImmediately(a)
  BY <1>2, <1>3, RunImmediatelyUpTo
<1>4. last[a] # None => ShiftedLast(a) \in Int /\ ShiftedLast(a) = last[a] - Lag(a)
  BY <1>2 DEF ShiftedLast, TypeOK
<1>5. last[a] # None => \A j \in pending : j.alloc = a => j.at <= ShiftedLast(a)
  BY <1>4 DEF BookedUpToLast, UpToLast
<1>6. CASE /\ last[a] # None
           /\ last' = [last EXCEPT ![a] = ShiftedLast(a)]
           /\ UNCHANGED <<size, timeslots, slotIdx, width, pending, due, running>>
  <2> SUFFICES ASSUME NEW b \in Tasks PROVE UpToLast(b)'
    BY DEF BookedUpToLast
  <2>1. CASE b = a
    <3>1. last'[a] = ShiftedLast(a) /\ ShiftedLast(a) \in Int /\ last'[a] # None
      BY <1>4, <1>6, NamesApart DEF TypeOK
    <3>2. ShiftedLast(a) - 0 = ShiftedLast(a)
      BY <3>1
    <3> QED BY <1>2, <1>5, <1>6, <2>1, <3>1, <3>2 DEF UpToLast
  <2>2. CASE b # a
    <3>1. last'[b] = last[b] /\ Lag(b)' = Lag(b)
      BY <1>2, <1>6, <2>2
    <3> QED BY <1>6, <3>1 DEF UpToLast, BookedUpToLast
  <2> QED BY <2>1, <2>2
<1>7. CASE /\ last[a] # None
           /\ ScheduleAllocations(a, width[a], timeslots, slotIdx[a], pending, ShiftedLast(a))
  <2> DEFINE n == width[a]
             held == slotIdx[a]
             from == ShiftedLast(a)
  <2>1. PICK S, top : /\ BookedAt(a, n, timeslots, held, pending, from, S)
                      /\ BookedTo(a, n, timeslots, from, S, top)
    BY <1>4, <1>7, BookingEnds DEF TypeOK
  <2>2. from \in Int /\ \A j \in pending : j.alloc = a => j.at <= from
    BY <1>4, <1>5, <1>7
  <2>3. pending \in SUBSET pending
    OBVIOUS
  <2> HIDE DEF n, held, from
  <2> QED BY <1>2, <2>1, <2>2, <2>3, UpToLastBooked
<1> QED BY <1>3, <1>6, <1>7 DEF UpdateTask

\* A submission books for a remote allocation.
LEMMA SubmitsForABlock ==
  ASSUME TypeOK, Bookkeeping, SubmitBlock
  PROVE  \E b, at, I :
            /\ b \in Blocks
            /\ slotIdx' = [slotIdx EXCEPT ![b] = I]
            /\ pending' = pending \cup {Job(b, at, I)}
<1>1. /\ request \in RequestType /\ request.blocks # <<>>
      /\ created + Len(request.blocks) <= MaxBlocks
  BY DEF SubmitBlock, Bookkeeping
<1>2. Len(request.blocks) \in Nat \ {0}
  BY <1>1 DEF RequestType
<1>3. created + 1 \in Blocks
  BY <1>1, <1>2, RequestAssumption DEF TypeOK, Blocks
<1> QED BY <1>3 DEF SubmitBlock

LEMMA UpToStep ==
  ASSUME TypeOK, Bookkeeping, BookedUpToLast, [Next]_vars
  PROVE  BookedUpToLast'
<1>1. CASE \/ UNCHANGED vars \/ Tick \/ SubmitSkip \/ SubmitEnd
           \/ \E a \in Tasks : SwitchToCheck(a)
           \/ \E e \in Exps : \/ GetResult(e) \/ EndPoll(e)
                              \/ \E t \in RequestBases, blocks \in Requests :
                                    SubmitBegin(e, t, blocks)
           \/ \E j \in pending : HandOver(j)
           \/ \E j \in due : Start(j) \/ Misfire(j)
           \/ \E x \in running, exception \in BOOLEAN : Finish(x, exception)
  <2>1. /\ UNCHANGED <<last, slotIdx, todo, shift>>
        /\ lock' = "update" <=> lock = "update"
        /\ pending' \subseteq pending
    <3>1. CASE UNCHANGED vars
      BY <3>1 DEF vars, tableVars, lockVars
    <3>6. CASE Tick
      BY <3>6 DEF Tick, tableVars, lockVars
    <3>4. CASE SubmitSkip
      BY <3>4 DEF SubmitSkip, tableVars
    <3>5. CASE SubmitEnd
      BY <3>5 DEF SubmitEnd, tableVars
    <3>2. CASE \/ \E a \in Tasks : SwitchToCheck(a)
               \/ \E e \in Exps : \/ GetResult(e) \/ EndPoll(e)
                                  \/ \E t \in RequestBases, blocks \in Requests :
                                        SubmitBegin(e, t, blocks)
      BY <3>2 DEF SwitchToCheck, SubmitBegin, GetResult, EndPoll, tableVars, lockVars
    <3>3. CASE \/ \E j \in pending : HandOver(j)
               \/ \E j \in due : Start(j) \/ Misfire(j)
               \/ \E x \in running, exception \in BOOLEAN : Finish(x, exception)
      BY <3>3 DEF HandOver, Start, Misfire, Finish, tableVars, lockVars
    <3> QED BY <1>1, <3>1, <3>2, <3>3, <3>4, <3>5, <3>6
  <2> QED BY <2>1, UpToLastSame DEF Lag
<1>2. CASE UpdateEnd \/ \E e \in Exps : Cancel(e)
  <2>1. PICK gone : gone \subseteq Blocks /\ slotIdx' = IndicesWithout(gone)
    BY <1>2 DEF UpdateEnd, Cancel, BlocksOf, TypeOK
  <2>2. \A a \in Tasks : slotIdx'[a] = slotIdx[a]
    BY <2>1, TaskFacts DEF IndicesWithout
  <2>3. /\ UNCHANGED <<last, todo>> /\ pending' \subseteq pending
        /\ \/ UNCHANGED <<lock, shift>>
           \/ lock = "update" /\ todo = {} /\ lock' = "free"
    BY <1>2 DEF UpdateEnd, Cancel, lockVars
  <2> QED BY <2>2, <2>3, UpToLastSame DEF Lag
<1>3. CASE SubmitBlock
  <2>1. PICK b, at, I :
            /\ b \in Blocks
            /\ slotIdx' = [slotIdx EXCEPT ![b] = I]
            /\ pending' = pending \cup {Job(b, at, I)}
    BY <1>3, SubmitsForABlock
  <2>2. /\ \A a \in Tasks : slotIdx'[a] = slotIdx[a]
        /\ \A j \in pending' : j \in pending \/ j.alloc \notin Tasks
    BY <2>1, TaskFacts DEF Job, TypeOK
  <2>3. UNCHANGED <<last, todo, shift, lock>>
    BY <1>3 DEF SubmitBlock
  <2> QED BY <2>2, <2>3, UpToLastSame DEF Lag
<1>4. ASSUME NEW a \in Tasks, Preallocate(a) \/ Reschedule(a) \/ HandleMissed(a)
      PROVE  BookedUpToLast'
  <2>1. RunImmediately(a) /\ lock = "free" /\ UNCHANGED <<lock, todo, shift>>
    BY <1>4 DEF Preallocate, Reschedule, HandleMissed, lockVars
  <2>2. \A b \in Tasks : Lag(b) = 0 /\ Lag(b)' = 0
    BY <2>1 DEF Lag
  <2> QED BY <2>1, <2>2, RunImmediatelyUpTo
<1> QED BY <1>1, <1>2, <1>3, <1>4, UpdateBeginUpTo, UpdateTaskUpTo DEF Next

LEMMA UpToInvariance == Spec => [](TypeOK /\ Bookkeeping /\ BookedUpToLast)
<1>1. Init => TypeOK /\ Bookkeeping /\ BookedUpToLast
  BY InitType DEF Init, BookedUpToLast, UpToLast, Allocs
<1>2. TypeOK /\ Bookkeeping /\ BookedUpToLast /\ [Next]_vars
         => (TypeOK /\ Bookkeeping /\ BookedUpToLast)'
  BY TypeStep, BookStep, UpToStep
<1> QED BY <1>1, <1>2, PTL DEF Spec

\* A job of a local task that is still to run outlives every step of
\* update_schedule: the task is started over only when its jobs are past.
THEOREM UpdatesKeepJobs == Spec => UpdateKeepsFutureJobs
<1>1. TypeOK /\ BookedUpToLast /\ [Next]_vars =>
         [lock = "update" => \A j \in pending : j.alloc \in local /\ j.at >= 0
                                                 => j \in pending']_vars
  <2> SUFFICES ASSUME TypeOK, BookedUpToLast, Next, lock = "update",
                      NEW j \in pending, j.alloc \in local, j.at >= 0
               PROVE  j \in pending'
    OBVIOUS
  <2>1. UpdateEnd \/ \E a \in Tasks : UpdateTask(a)
    BY DEF Next, Tick, UpdateBegin, SubmitSkip, SubmitBlock, SubmitEnd, Preallocate,
       Reschedule, SwitchToCheck, HandleMissed, Cancel, GetResult, EndPoll, SubmitBegin,
       HandOver, Start, Misfire, Finish
  <2>2. CASE UpdateEnd
    BY <2>2 DEF UpdateEnd
  <2>3. ASSUME NEW a \in Tasks, UpdateTask(a) PROVE j \in pending'
    <3>1. a \in todo /\ Lag(a) = shift
      BY <2>3 DEF UpdateTask, Lag
    <3>2. CASE pending' = pending
      BY <3>2
    <3>3. CASE ScheduleAllocations(a, width[a], timeslots, slotIdx[a], pending,
                                   ShiftedLast(a))
      BY <3>3 DEF ScheduleAllocations
    <3>4. CASE /\ last[a] = None \/ NextRun(a) < 0
               /\ RunImmediately(a)
      <4>1. {i \in pending : i.alloc # a} \subseteq pending'
        BY <3>4 DEF RunImmediately, ScheduleAllocations
      <4>2. j.alloc # a
        <5> SUFFICES ASSUME j.alloc = a PROVE FALSE
          OBVIOUS
        <5>1. last[a] # None /\ j.at <= last[a] - shift
          BY <3>1 DEF BookedUpToLast, UpToLast
        <5>2. last[a] \in Int /\ shift \in Nat /\ j.at \in Int
          BY <5>1 DEF TypeOK, JobType
        <5>3. NextRun(a) = last[a] - shift + IntervalSlots(a)
          BY DEF NextRun, ShiftedLast
        <5> QED BY <3>4, <5>1, <5>2, <5>3, TaskSlots
      <4> QED BY <4>1, <4>2
    <3> QED BY <2>3, <3>2, <3>3, <3>4 DEF UpdateTask
  <2> QED BY <2>1, <2>2, <2>3
<1>2. Spec => [][lock = "update" => \A j \in pending : j.alloc \in local /\ j.at >= 0
                                                       => j \in pending']_vars
  BY <1>1, UpToInvariance, PTL DEF Spec
<1> QED BY <1>2 DEF UpdateKeepsFutureJobs

-----------------------------------------------------------------------------
(* update_schedule fills the window *)

\* No task, and no status check of one, takes longer than its interval.
TasksFit ==
    \A a \in Tasks : /\ CeilSlots(Duration[a]) <= IntervalSlots(a)
                     /\ CeilSlots(CheckDuration[a]) <= IntervalSlots(a)

\* What is booked for a task ends before it is to run next.
EndsInTime(a) ==
    /\ width[a] <= IntervalSlots(a)
    /\ last[a] # None => \A i \in slotIdx[a] : i < last[a] - Lag(a) + IntervalSlots(a)

IsFilled(a) == Candidates(timeslots, {}, last[a] + IntervalSlots(a), width[a]) = {}

FillInv ==
    /\ \A a \in Tasks : EndsInTime(a)
    /\ lock = "update" /\ shift > 0 => \A a \in local \ todo : IsFilled(a)

\* Steps outside of the loop that book nothing for a task.
LEMMA FillSame ==
  ASSUME FillInv, UNCHANGED <<last, width>>,
         \A a \in Tasks : slotIdx'[a] \subseteq slotIdx[a] /\ Lag(a)' = Lag(a),
         \/ lock' # "update"
         \/ UNCHANGED <<lock, shift, timeslots, local, todo>>
  PROVE  FillInv'
<1>1. ASSUME NEW a \in Tasks PROVE EndsInTime(a)'
  <2>1. EndsInTime(a) /\ Lag(a)' = Lag(a)
    BY DEF FillInv
  <2> HIDE DEF Lag
  <2> QED BY <2>1 DEF EndsInTime
<1>2. ASSUME lock' = "update", shift' > 0, NEW a \in local' \ todo' PROVE IsFilled(a)'
  BY <1>2 DEF FillInv, IsFilled
<1> QED BY <1>1, <1>2 DEF FillInv

\* After a booking nothing could be booked once more after it.
LEMMA BookedIsFilled ==
  ASSUME TypeOK, NEW a \in Tasks, NEW n \in Nat \ {0}, NEW ts, DOMAIN ts = 0 .. size - 1,
         NEW held, NEW jobs, NEW from \in Int, NEW S, NEW top,
         BookedAt(a, n, ts, held, jobs, from, S), BookedTo(a, n, ts, from, S, top)
  PROVE  IsFilled(a)'
<1>1. /\ last'[a] = top /\ width'[a] = n /\ a # None
      /\ timeslots' = [i \in 0 .. size - 1 |-> IF i \in UNION {Block(q, n) : q \in S}
                                                THEN a ELSE ts[i]]
      /\ Candidates(ts, S, top + IntervalSlots(a), n) = {}
  BY NamesApart DEF BookedAt, BookedTo, TypeOK, Allocs
<1>2. ASSUME NEW q \in Candidates(timeslots', {}, top + IntervalSlots(a), n)
      PROVE  q \in Candidates(ts, S, top + IntervalSlots(a), n)
  <2>1. /\ q \in DOMAIN timeslots' /\ q >= top + IntervalSlots(a)
        /\ Block(q, n) \subseteq DOMAIN timeslots'
        /\ \A i \in Block(q, n) : timeslots'[i] = None
        /\ q = top + IntervalSlots(a) \/ q + n <= W
    BY DEF Candidates, AreSlotsEmpty
  <2>2. ASSUME NEW i \in Block(q, n) PROVE ts[i] = None /\ \A r \in S : i \notin Block(r, n)
    <3>1. i \in 0 .. size - 1 /\ timeslots'[i] = None
      BY <1>1, <2>1
    <3>2. i \notin UNION {Block(r, n) : r \in S} /\ ts[i] = None
      BY <1>1, <3>1
    <3> QED BY <3>2
  <2> QED BY <1>1, <2>1, <2>2 DEF Candidates, AreSlotsEmpty
<1> QED BY <1>1, <1>2 DEF IsFilled

\* Slots that are taken stay taken: no other task finds more room.
LEMMA OthersStayFilled ==
  ASSUME NEW b \in Tasks, IsFilled(b),
         last'[b] = last[b], width'[b] = width[b],
         DOMAIN timeslots' = DOMAIN timeslots,
         \A i \in DOMAIN timeslots : timeslots'[i] = None => timeslots[i] = None
  PROVE  IsFilled(b)'
<1> DEFINE p == last[b] + IntervalSlots(b)
           n == width[b]
<1>1. ASSUME NEW q \in Candidates(timeslots', {}, p, n)
      PROVE  q \in Candidates(timeslots, {}, p, n)
  BY DEF Candidates, AreSlotsEmpty
<1>2. Candidates(timeslots', {}, p, n) = {}
  BY <1>1 DEF IsFilled
<1> QED BY <1>2 DEF IsFilled

\* A booking keeps what is booked for each task within its interval.
LEMMA BookedEndsInTime ==
  ASSUME TypeOK, FillInv, NEW a \in Tasks, NEW n \in Nat \ {0}, n <= IntervalSlots(a),
         NEW ts, NEW held, NEW jobs, NEW from \in Int, NEW S, NEW top,
         BookedAt(a, n, ts, held, jobs, from, S), BookedTo(a, n, ts, from, S, top),
         \A i \in held : i \in Nat /\ i < from + IntervalSlots(a),
         Lag(a)' = 0, \A b \in Tasks \ {a} : Lag(b)' = Lag(b)
  PROVE  \A b \in Tasks : EndsInTime(b)'
<1> SUFFICES ASSUME NEW b \in Tasks PROVE EndsInTime(b)'
  OBVIOUS
<1>1. IntervalSlots(a) \in Nat
  BY TaskSlots
<1>2. CASE b = a
  <2>1. /\ last'[a] = top /\ width'[a] = n
        /\ top \in Int /\ from <= top /\ \A q \in S : q <= top
        /\ S \subseteq Nat
        /\ slotIdx'[a] = held \cup UNION {Block(q, n) : q \in S}
    <3>1. size \in Nat
      BY DEF TypeOK
    <3> QED BY <3>1, TaskFacts DEF BookedAt, BookedTo, TypeOK
  <2>2. \A i \in held : i < top + IntervalSlots(a)
    BY <1>1, <2>1
  <2>3. \A q \in S : \A i \in Block(q, n) : i < top + IntervalSlots(a)
    BY <1>1, <2>1 DEF Block
  <2>4. top - 0 = top
    BY <2>1
  <2> QED BY <1>2, <2>1, <2>2, <2>3, <2>4 DEF EndsInTime
<1>3. CASE b # a
  <2>1. last'[b] = last[b] /\ slotIdx'[b] = slotIdx[b] /\ width'[b] = width[b]
    BY <1>3, TaskFacts DEF BookedAt, BookedTo, TypeOK
  <2>2. Lag(b)' = Lag(b)
    BY <1>3
  <2> QED BY <2>1, <2>2 DEF FillInv, EndsInTime
<1> QED BY <1>2, <1>3

\* run_immediately starts a over; its durations fit its interval.
LEMMA RunImmediatelyFill ==
  ASSUME TasksFit, TypeOK, FillInv, NEW a \in Tasks, RunImmediately(a),
         Lag(a)' = 0, \A b \in Tasks \ {a} : Lag(b)' = Lag(b)
  PROVE  /\ \A b \in Tasks : EndsInTime(b)'
         /\ IsFilled(a)'
<1> DEFINE n == DurationSlots(a)
           ts == WithoutSlotsOf(a)
           jobs == {j \in pending : j.alloc # a}
<1>1. PICK from, S, top : /\ from \in Int
                        /\ BookedAt(a, n, ts, {}, jobs, from, S)
                        /\ BookedTo(a, n, ts, from, S, top)
  BY RunImmediatelyEnds
<1>2. n \in Nat \ {0} /\ n <= IntervalSlots(a)
  <2>1. n \in Nat \ {0}
    BY TaskSlots
  <2>2. n = CeilSlots(CheckDuration[a]) \/ n = CeilSlots(Duration[a])
    BY DEF DurationSlots
  <2> QED BY <2>1, <2>2 DEF TasksFit
<1>3. DOMAIN ts = 0 .. size - 1
  BY DEF WithoutSlotsOf, TypeOK
<1> HIDE DEF n, ts, jobs
<1>4. \A b \in Tasks : EndsInTime(b)'
  BY <1>1, <1>2, BookedEndsInTime
<1>5. IsFilled(a)'
  BY <1>1, <1>2, <1>3, BookedIsFilled
<1> QED BY <1>4, <1>5

\* The window moves with what is booked; nobody is visited yet.
LEMMA UpdateBeginFill ==
  ASSUME TypeOK, Bookkeeping, FillInv, UpdateBegin
  PROVE  FillInv'
<1> DEFINE s == IntSlots(clock)
<1>1. s \in Nat
  BY IntSlotsNat DEF TypeOK
<1>2. /\ lock = "free" /\ lock' = "update" /\ todo' = local /\ shift' = s
      /\ slotIdx' = [b \in Allocs |-> IF b \in local \cup remote
                                      THEN ShiftedIndices(slotIdx[b], s) ELSE slotIdx[b]]
      /\ UNCHANGED <<last, width, local>>
  BY DEF UpdateBegin
<1> HIDE DEF s
<1>3. ASSUME NEW a \in Tasks PROVE EndsInTime(a)'
  <2>1. EndsInTime(a) /\ Lag(a) = 0
    BY <1>2 DEF FillInv, Lag
  <2>2. CASE last[a] = None
    BY <1>2, <2>1, <2>2 DEF EndsInTime
  <2>3. CASE last[a] # None
    <3>1. last[a] \in Int /\ IntervalSlots(a) \in Nat /\ slotIdx[a] \in SUBSET Nat
      BY <2>3, TaskFacts, TaskSlots DEF TypeOK
    <3>2. \A i \in slotIdx[a] : i < last[a] + IntervalSlots(a)
      BY <2>1, <2>3, <3>1 DEF EndsInTime
    <3>3. CASE a \in local
      <4>1. slotIdx'[a] = ShiftedIndices(slotIdx[a], s) /\ Lag(a)' = s
        BY <1>2, <3>3, TaskFacts DEF Lag
      <4>2. \A i \in slotIdx'[a] : i < last[a] - s + IntervalSlots(a)
        BY <1>1, <3>1, <3>2, <4>1 DEF ShiftedIndices
      <4> QED BY <1>2, <2>1, <4>1, <4>2 DEF EndsInTime
    <3>4. CASE a \notin local
      <4>1. slotIdx'[a] = slotIdx[a] /\ Lag(a)' = 0
        BY <1>2, <3>4, TaskFacts DEF Lag, TypeOK
      <4> QED BY <1>2, <2>1, <4>1 DEF EndsInTime
    <3> QED BY <3>3, <3>4
  <2> QED BY <2>2, <2>3
<1> QED BY <1>2, <1>3 DEF FillInv

\* A visit fills the window for a; a task that is started over had nothing left
\* in the table, so its going takes nothing from the others.
LEMMA UpdateTaskFill ==
  ASSUME TasksFit, TypeOK, Bookkeeping, BookedUpToLast, FillInv,
         NEW a \in Tasks, UpdateTask(a)
  PROVE  FillInv'
<1>1. /\ lock = "update" /\ a \in todo /\ todo' = todo \ {a}
      /\ UNCHANGED <<lock, shift, local>>
  BY DEF UpdateTask, indexVars
<1>2. /\ Lag(a) = shift /\ Lag(a)' = 0
      /\ \A b \in Tasks \ {a} : Lag(b)' = Lag(b)
  BY <1>1 DEF Lag
<1>3. /\ IntervalSlots(a) \in Nat /\ width[a] \in Nat \ {0} /\ width[a] <= IntervalSlots(a)
      /\ slotIdx[a] \in SUBSET Nat /\ shift \in Nat /\ size \in Nat
      /\ DOMAIN timeslots = 0 .. size - 1 /\ local \subseteq Tasks
  BY TaskSlots, TaskFacts DEF TypeOK, FillInv, EndsInTime
<1>4. last[a] # None =>
         /\ last[a] \in Int /\ ShiftedLast(a) \in Int /\ ShiftedLast(a) = last[a] - shift
         /\ \A i \in slotIdx[a] : i < ShiftedLast(a) + IntervalSlots(a)
  BY <1>2, <1>3 DEF TypeOK, ShiftedLast, FillInv, EndsInTime
<1>5. ASSUME \A b \in Tasks : EndsInTime(b)',
             shift > 0 =>
                /\ IsFilled(a)'
                /\ \A b \in Tasks \ {a} : last'[b] = last[b] /\ width'[b] = width[b]
                /\ DOMAIN timeslots' = DOMAIN timeslots
                /\ \A i \in DOMAIN timeslots : timeslots'[i] = None => timeslots[i] = None
      PROVE  FillInv'
  <2>1. ASSUME shift > 0, NEW b \in local' \ todo' PROVE IsFilled(b)'
    <3>1. CASE b = a
      BY <1>5, <2>1, <3>1
    <3>2. CASE b # a
      <4>1. b \in Tasks /\ b \in local \ todo
        BY <1>1, <1>3, <2>1, <3>2
      <4>2. IsFilled(b)
        BY <1>1, <2>1, <4>1 DEF FillInv
      <4>3. /\ last'[b] = last[b] /\ width'[b] = width[b]
            /\ DOMAIN timeslots' = DOMAIN timeslots
            /\ \A i \in DOMAIN timeslots : timeslots'[i] = None => timeslots[i] = None
        BY <1>5, <2>1, <3>2, <4>1
      <4> QED BY <4>1, <4>2, <4>3, OthersStayFilled
    <3> QED BY <3>1, <3>2
  <2> QED BY <1>1, <1>5, <2>1 DEF FillInv
\* A table in which a has only got slots.
<1>6. ASSUME NEW n, NEW ts, NEW held, NEW jobs, NEW from, NEW S, NEW top,
             BookedAt(a, n, ts, held, jobs, from, S), BookedTo(a, n, ts, from, S, top),
             ts = timeslots
      PROVE  /\ \A b \in Tasks \ {a} : last'[b] = last[b] /\ width'[b] = width[b]
             /\ DOMAIN timeslots' = DOMAIN timeslots
             /\ \A i \in DOMAIN timeslots : timeslots'[i] = None => timeslots[i] = None
  <2>1. a # None
    BY NamesApart DEF Allocs
  <2>2. timeslots' = [i \in 0 .. size - 1 |-> IF i \in UNION {Block(q, n) : q \in S}
                                             THEN a ELSE timeslots[i]]
    BY <1>6 DEF BookedAt
  <2>3. \A b \in Tasks \ {a} : last'[b] = last[b] /\ width'[b] = width[b]
    BY <1>6 DEF BookedAt, BookedTo, TypeOK
  <2>4. \A i \in 0 .. size - 1 : timeslots'[i] = None => timeslots[i] = None
    BY <2>1, <2>2
  <2> QED BY <1>3, <2>2, <2>3, <2>4
<1>7. CASE /\ last[a] = None \/ (shift > 0 /\ ShiftedLast(a) <= size /\ NextRun(a) < 0)
           /\ RunImmediately(a)
  <2>1. slotIdx[a] = {}
    <3>1. CASE last[a] = None
      BY <3>1 DEF BookedUpToLast, UpToLast
    <3>2. CASE last[a] # None
      <4>1. ShiftedLast(a) + IntervalSlots(a) < 0
        BY <1>7, <3>2 DEF NextRun
      <4>2. \A i \in slotIdx[a] : i \in Nat /\ i < ShiftedLast(a) + IntervalSlots(a)
        BY <1>3, <1>4, <3>2
      <4> QED BY <1>3, <1>4, <3>2, <4>1, <4>2
    <3> QED BY <3>1, <3>2
  <2>2. WithoutSlotsOf(a) = timeslots
    <3>1. timeslots = [i \in DOMAIN timeslots |-> timeslots[i]]
      BY DEF TypeOK
    <3> QED BY <2>1, <3>1 DEF WithoutSlotsOf
  <2>3. (\A b \in Tasks : EndsInTime(b)') /\ IsFilled(a)'
    BY <1>2, <1>7, RunImmediatelyFill
  <2>4. PICK from, S, top :
            /\ from \in Int
            /\ BookedAt(a, DurationSlots(a), WithoutSlotsOf(a), {},
                        {j \in pending : j.alloc # a}, from, S)
            /\ BookedTo(a, DurationSlots(a), WithoutSlotsOf(a), from, S, top)
    BY <1>7, RunImmediatelyEnds
  <2> DEFINE n == DurationSlots(a)
             ts == WithoutSlotsOf(a)
             jobs == {j \in pending : j.alloc # a}
  <2>5. BookedAt(a, n, ts, {}, jobs, from, S) /\ BookedTo(a, n, ts, from, S, top)
    BY <2>4
  <2>6. ts = timeslots
    BY <2>2
  <2> HIDE DEF n, ts, jobs
  <2>7. /\ \A b \in Tasks \ {a} : last'[b] = last[b] /\ width'[b] = width[b]
        /\ DOMAIN timeslots' = DOMAIN timeslots
        /\ \A i \in DOMAIN timeslots : timeslots'[i] = None => timeslots[i] = None
    BY <2>5, <2>6, <1>6
  <2> QED BY <1>5, <2>3, <2>7
<1>8. CASE /\ last[a] # None
           /\ shift = 0 \/ ShiftedLast(a) > size
           /\ last' = [last EXCEPT ![a] = ShiftedLast(a)]
           /\ UNCHANGED <<size, timeslots, slotIdx, width, pending, due, running>>
  <2>1. last'[a] = ShiftedLast(a) /\ \A b \in Tasks \ {a} : last'[b] = last[b]
    BY <1>8 DEF TypeOK
  <2>2. EndsInTime(a)'
    <3>1. ShiftedLast(a) - 0 = ShiftedLast(a)
      BY <1>4, <1>8
    <3> QED BY <1>2, <1>3, <1>4, <1>8, <2>1, <3>1 DEF EndsInTime
  <2>3. ASSUME NEW b \in Tasks, b # a PROVE EndsInTime(b)'
    <3>1. Lag(b)' = Lag(b) /\ EndsInTime(b)
      BY <1>2, <2>3 DEF FillInv
    <3> QED BY <1>8, <2>1, <2>3, <3>1 DEF EndsInTime
  <2>4. ASSUME shift > 0 PROVE IsFilled(a)'
    <3>1. ShiftedLast(a) > size /\ ShiftedLast(a) \in Int
      BY <1>3, <1>4, <1>8, <2>4
    <3>2. \A q \in 0 .. size - 1 : ~ (q >= ShiftedLast(a) + IntervalSlots(a))
      BY <1>3, <3>1
    <3> QED BY <1>3, <1>8, <2>1, <3>2 DEF IsFilled, Candidates
  <2> QED BY <1>5, <1>8, <2>1, <2>2, <2>3, <2>4
<1>9. CASE /\ last[a] # None
           /\ ScheduleAllocations(a, width[a], timeslots, slotIdx[a], pending, ShiftedLast(a))
  <2> DEFINE n == width[a]
             held == slotIdx[a]
             from == ShiftedLast(a)
  <2>1. PICK S, top : /\ BookedAt(a, n, timeslots, held, pending, from, S)
                      /\ BookedTo(a, n, timeslots, from, S, top)
    BY <1>3, <1>4, <1>9, BookingEnds
  <2>2. /\ from \in Int /\ n \in Nat \ {0} /\ n <= IntervalSlots(a)
        /\ \A i \in held : i \in Nat /\ i < from + IntervalSlots(a)
    BY <1>3, <1>4, <1>9
  <2> HIDE DEF n, held, from
  <2>3. \A b \in Tasks : EndsInTime(b)'
    BY <1>2, <2>1, <2>2, BookedEndsInTime
  <2>4. IsFilled(a)'
    BY <1>3, <2>1, <2>2, BookedIsFilled
  <2>5. /\ \A b \in Tasks \ {a} : last'[b] = last[b] /\ width'[b] = width[b]
        /\ DOMAIN timeslots' = DOMAIN timeslots
        /\ \A i \in DOMAIN timeslots : timeslots'[i] = None => timeslots[i] = None
    BY <2>1, <1>6
  <2> QED BY <1>5, <2>3, <2>4, <2>5
<1> QED BY <1>7, <1>8, <1>9 DEF UpdateTask

LEMMA FillStep ==
  ASSUME TasksFit, TypeOK, Bookkeeping, BookedUpToLast, FillInv, [Next]_vars
  PROVE  FillInv'
<1>1. CASE UNCHANGED vars
  BY <1>1, FillSame DEF vars, tableVars, lockVars, indexVars, Lag
<1>2. CASE \/ Tick
           \/ \E a \in Tasks : SwitchToCheck(a)
           \/ \E e \in Exps : \/ GetResult(e) \/ EndPoll(e)
                              \/ \E t \in RequestBases, blocks \in Requests :
                                    SubmitBegin(e, t, blocks)
           \/ \E j \in pending : HandOver(j)
           \/ \E j \in due : Start(j) \/ Misfire(j)
           \/ \E x \in running, exception \in BOOLEAN : Finish(x, exception)
  <2>1. /\ UNCHANGED <<last, width, slotIdx>>
        /\ lock # "update" /\ lock' # "update"
    BY <1>2 DEF Tick, SwitchToCheck, SubmitBegin, GetResult, EndPoll, HandOver, Start,
       Misfire, Finish, tableVars, lockVars
  <2> QED BY <2>1, FillSame DEF Lag
<1>3. CASE SubmitSkip \/ SubmitEnd
  <2>1. /\ UNCHANGED <<last, width, slotIdx>>
        /\ lock # "update" /\ lock' # "update"
    BY <1>3 DEF SubmitSkip, SubmitEnd, tableVars
  <2> QED BY <2>1, FillSame DEF Lag
<1>4. CASE UpdateEnd \/ \E e \in Exps : Cancel(e)
  <2>1. PICK gone : gone \subseteq Blocks /\ slotIdx' = IndicesWithout(gone)
    BY <1>4 DEF UpdateEnd, Cancel, BlocksOf, TypeOK
  <2>2. \A a \in Tasks : slotIdx'[a] = slotIdx[a]
    BY <2>1, TaskFacts DEF IndicesWithout
  <2>3. /\ UNCHANGED <<last, width, todo>> /\ lock' # "update"
        /\ lock # "update" \/ todo = {}
    BY <1>4 DEF UpdateEnd, Cancel, lockVars
  <2> QED BY <2>2, <2>3, FillSame DEF Lag
<1>5. CASE SubmitBlock
  <2>1. \A a \in Tasks : slotIdx'[a] = slotIdx[a]
    BY <1>5, SubmitsForABlock, TaskFacts DEF TypeOK
  <2>2. /\ UNCHANGED <<last, width>> /\ lock # "update" /\ lock' # "update"
    BY <1>5 DEF SubmitBlock
  <2> QED BY <2>1, <2>2, FillSame DEF Lag
<1>6. ASSUME NEW a \in Tasks, Preallocate(a) \/ Reschedule(a) \/ HandleMissed(a)
      PROVE  FillInv'
  <2>1. RunImmediately(a) /\ lock = "free" /\ lock' = "free"
    BY <1>6 DEF Preallocate, Reschedule, HandleMissed, lockVars
  <2>2. \A b \in Tasks : Lag(b) = 0 /\ Lag(b)' = 0
    BY <2>1 DEF Lag
  <2> QED BY <2>1, <2>2, RunImmediatelyFill DEF FillInv
<1> QED BY <1>1, <1>2, <1>3, <1>4, <1>5, <1>6, UpdateBeginFill, UpdateTaskFill DEF Next

\* When update_schedule has visited all tasks, each of them fills what the window
\* has left for it, provided that none takes longer than its interval.
THEOREM UpdatesFillTheWindow ==
  ASSUME TasksFit
  PROVE  Spec => []WindowIsFilled
<1>1. Init => FillInv
  <2>1. \A a \in Tasks : 1 <= IntervalSlots(a)
    <3> SUFFICES ASSUME NEW a \in Tasks PROVE 1 <= IntervalSlots(a)
      OBVIOUS
    <3>1. CeilSlots(Duration[a]) \in Nat \ {0} /\ IntervalSlots(a) \in Nat
      BY TaskSlots, TaskAssumption, CeilSlotsPositive
    <3> QED BY <3>1 DEF TasksFit
  <2> QED BY <2>1 DEF Init, FillInv, EndsInTime
<1>2. TypeOK /\ Bookkeeping /\ BookedUpToLast /\ FillInv /\ [Next]_vars => FillInv'
  BY FillStep
<1>3. TypeOK /\ FillInv => WindowIsFilled
  BY DEF FillInv, IsFilled, WindowIsFilled
<1> QED BY <1>1, <1>2, <1>3, UpToInvariance, PTL DEF Spec
=============================================================================
