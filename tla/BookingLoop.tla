---------------------------- MODULE BookingLoop ----------------------------
(***************************************************************************)
(* schedule_allocations, schedule_next_allocation and _get_free_slots      *)
(* iteration by iteration, on a table of any content: the loop that books  *)
(* a periodic task until the window is used up.  AgentScheduler uses its   *)
(* outcome, described by SlotTable!Greedy, as one atomic step; this module *)
(* is where that description is earned.                                    *)
(***************************************************************************)
EXTENDS SlotTable

CONSTANTS
    Owner,          \* the allocation that is being booked
    Other,          \* owner of the slots that are taken already
    MaxSize,        \* bound: length of the table
    MaxSlots,       \* bound: slots of a block
    MaxInterval     \* bound: slots from a block to the next

ASSUME BookingAssumption ==
    /\ MaxSize \in Nat /\ MaxSlots \in Nat /\ MaxInterval \in Nat
    /\ W <= MaxSize
    /\ Owner # None /\ Other # None /\ Owner # Other

VARIABLES
    size,       \* len(self.timeslots)
    before,     \* self.timeslots when the loop begins
    first,      \* first element of the first next_allocation
    n,          \* length of next_allocation
    k,          \* int(allocation.interval / SLOTSIZE)
    timeslots,  \* self.timeslots
    next,       \* first element of next_allocation, or of indices
    booked,     \* starts handed to _allocate
    pc          \* "loop": schedule_allocations, "search": _get_free_slots

inputs == <<size, before, first, n, k>>
vars == <<inputs, timeslots, next, booked, pc>>

Init ==
    /\ size \in W .. MaxSize
    /\ before \in [0 .. size - 1 -> {None, Other}]
    /\ first \in 0 .. size
    /\ n \in 1 .. MaxSlots
    /\ k \in 1 .. MaxInterval
    /\ timeslots = before
    /\ next = first
    /\ booked = {}
    /\ pc = "loop"

\* Fault: only the first slot of a block is looked at.
IsFirstFree(q) == timeslots[q] = None

IsFree(q) == AreSlotsEmpty(timeslots, Block(q, n))

\* Fault: the next block is asked for an interval after the one asked for, not
\* after the one booked.
AllocateLate ==
    /\ timeslots' = [i \in 0 .. size - 1 |->
                        IF i \in Block(next, n) THEN Owner ELSE timeslots[i]]
    /\ booked' = booked \cup {next}
    /\ next' = first + k
    /\ pc' = "loop"

\* Fault: the interval is subtracted.
AllocateBackwards ==
    /\ UNCHANGED timeslots
    /\ booked' = booked \cup {next}
    /\ next' = next - k
    /\ pc' = "loop"

\* _allocate, and the computation of the next request.
Allocate ==
    /\ timeslots' = [i \in 0 .. size - 1 |->
                        IF i \in Block(next, n) THEN Owner ELSE timeslots[i]]
    /\ booked' = booked \cup {next}
    /\ next' = next + k
    /\ pc' = "loop"

\* The request fits as it is.
BookRequested ==
    /\ pc = "loop"
    /\ next + n - 1 < size
    /\ IsFree(next)
    /\ Allocate
    /\ UNCHANGED inputs

\* It does not: look for the next free slots.
BeginSearch ==
    /\ pc = "loop"
    /\ next + n - 1 < size
    /\ ~ IsFree(next)
    /\ pc' = "search"
    /\ UNCHANGED <<inputs, timeslots, next, booked>>

\* The request reaches past the table.
LoopEnd ==
    /\ pc = "loop"
    /\ next + n - 1 >= size
    /\ pc' = "done"
    /\ UNCHANGED <<inputs, timeslots, next, booked>>

\* Fault: the indices do not advance.
TryAgain ==
    /\ pc = "search"
    /\ next + n - 1 < W
    /\ ~ IsFree(next)
    /\ UNCHANGED vars

\* indices += 1
TryNext ==
    /\ pc = "search"
    /\ next + n - 1 < W
    /\ ~ IsFree(next)
    /\ next' = next + 1
    /\ UNCHANGED <<inputs, timeslots, booked, pc>>

BookFound ==
    /\ pc = "search"
    /\ next + n - 1 < W
    /\ IsFree(next)
    /\ Allocate
    /\ UNCHANGED inputs

\* No free slots within the window: the loop breaks.
GiveUp ==
    /\ pc = "search"
    /\ next + n - 1 >= W
    /\ pc' = "done"
    /\ UNCHANGED <<inputs, timeslots, next, booked>>

Next ==
    \/ BookRequested \/ BeginSearch \/ LoopEnd
    \/ TryNext \/ BookFound \/ GiveUp

Spec == Init /\ [][Next]_vars /\ WF_vars(Next)

-----------------------------------------------------------------------------

\* The fields of the loop have their types and the table keeps its length.
TypeOK ==
    /\ size \in Nat /\ W <= size
    /\ before \in [0 .. size - 1 -> {None, Other}]
    /\ first \in Nat /\ n \in Nat \ {0} /\ k \in Nat \ {0}
    /\ timeslots \in [0 .. size - 1 -> {None, Other, Owner}]
    /\ next \in Nat
    /\ booked \subseteq 0 .. size - 1
    /\ pc \in {"loop", "search", "done"}

\* When the loop is over it has booked what SlotTable!Greedy describes: each
\* block as early as the request, the taken slots and its own earlier blocks
\* allow, and none is left out.
BooksGreedily == pc = "done" => Greedy(before, booked, first, n, k)

\* The description fits no other set of starts, so AgentScheduler has no
\* freedom that the loop has not.
GreedyIsUnique ==
    pc = "done" =>
    \A S \in SUBSET (0 .. size - 1) : Greedy(before, S, first, n, k) => S = booked

\* Nothing that was taken is overwritten, and the blocks do not overlap.
NothingOverwritten ==
    /\ \A i \in 0 .. size - 1 : before[i] = Other => timeslots[i] = Other
    /\ \A q, r \in booked : q # r => Block(q, n) \cap Block(r, n) = {}

\* The loop ends whatever the table holds.
LoopTerminates == <>(pc = "done")
=============================================================================
