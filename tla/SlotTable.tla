----------------------------- MODULE SlotTable -----------------------------
(***************************************************************************)
(* The reservation table of the agent's scheduler and the search for the   *)
(* slots of a periodic task, as pure operators on a table                  *)
(*    ts \in [0 .. size-1 -> owner or None].                               *)
(* The table is AgentScheduler.timeslots; index 0 is the slot that starts  *)
(* at AgentScheduler.base.                                                 *)
(*                                                                         *)
(* The booking loop of the code (schedule_allocations) is described by the *)
(* set of starts it produces instead of by its iterations: every start is  *)
(* the least one admissible after the starts below it, and nothing         *)
(* admissible is left.  BookingLoop is the loop itself, iteration by       *)
(* iteration, and its runs check that the description fits it alone.       *)
(***************************************************************************)
EXTENDS Integers

CONSTANTS
    W,              \* Constants.MAX_TIMESLOTS
    TicksPerSlot,   \* resolution of the clock: SLOTSIZE is this many ticks
    None            \* a free slot

ASSUME WAssumption == W \in Nat \ {0}
ASSUME TicksAssumption == TicksPerSlot \in Nat \ {0}

\* math.ceil(t / SLOTSIZE), for a time t before or after the base.
CeilSlots(t) == -((-t) \div TicksPerSlot)

\* int(t / SLOTSIZE), for t >= 0.
IntSlots(t) == t \div TicksPerSlot

\* The n consecutive slot indices starting at q: np.arange(0, n) + q.
Block(q, n) == q .. (q + n - 1)

\* _are_slots_empty, for indices inside the table.
AreSlotsEmpty(ts, indices) == \A i \in indices : ts[i] = None

(***************************************************************************)
(* The starts at which schedule_next_allocation may put a block of n slots *)
(* when it is asked for the block at p and the loop has already booked the *)
(* blocks that start in P.  The block asked for is limited by the length   *)
(* of the table, a block found by _get_free_slots by MAX_TIMESLOTS.        *)
(***************************************************************************)
Candidates(ts, P, p, n) ==
    {q \in DOMAIN ts :
        /\ q >= p
        /\ Block(q, n) \subseteq DOMAIN ts
        /\ AreSlotsEmpty(ts, Block(q, n))
        /\ \A r \in P : Block(q, n) \cap Block(r, n) = {}
        /\ q = p \/ q + n <= W}

\* The block the loop asks for once it has booked the starts in P: one
\* interval of k slots after the last of them, or the first one, p0.
NextRequest(P, p0, k) ==
    IF P = {} THEN p0 ELSE (CHOOSE r \in P : \A s \in P : s <= r) + k

StartsBefore(S, q) == {r \in S : r < q}

\* Fault: the booking loop ends after one block.
GreedyOnce(ts, S, p0, n, k) ==
    IF Candidates(ts, {}, p0, n) = {} THEN S = {}
    ELSE \E q \in Candidates(ts, {}, p0, n) :
            S = {q} /\ \A c \in Candidates(ts, {}, p0, n) : q <= c

\* Fault: the set may end anywhere.
GreedyPrefix(ts, S, p0, n, k) ==
    \A q \in S : LET C == Candidates(ts, StartsBefore(S, q),
                          NextRequest(StartsBefore(S, q), p0, k), n)
                 IN  q \in C /\ \A c \in C : q <= c

(***************************************************************************)
(* S is the set of starts that schedule_allocations books in table ts for  *)
(* a task of n slots every k slots whose first block is asked for at p0.   *)
(***************************************************************************)
Greedy(ts, S, p0, n, k) ==
    LET Options(P) == Candidates(ts, P, NextRequest(P, p0, k), n)
    IN  /\ \A q \in S : /\ q \in Options(StartsBefore(S, q))
                        /\ \A c \in Options(StartsBefore(S, q)) : q <= c
        /\ Options(S) = {}

\* Fault: the table is cut at the front and not filled up at the end.
CutSize(size, shift) == IF shift <= size THEN size - shift ELSE 0

\* The table after `shift` slots have fallen into the past:
\* timeslots[shift:] + [None] * shift.  It grows if shift exceeds its length.
ShiftedSize(size, shift) == IF shift <= size THEN size ELSE shift

\* Fault: base moves and the table does not.
Unshifted(ts, size, shift) ==
    [i \in 0 .. ShiftedSize(size, shift) - 1 |-> IF i < size THEN ts[i] ELSE None]

Shifted(ts, size, shift) ==
    [i \in 0 .. ShiftedSize(size, shift) - 1 |->
        IF i + shift < size THEN ts[i + shift] ELSE None]

\* Slot indices after the same shift; those already in the past are dropped.
ShiftedIndices(I, shift) == {i - shift : i \in {j \in I : j >= shift}}
=============================================================================
