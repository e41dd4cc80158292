------------------------- MODULE BookingLoopProofs -------------------------
(***************************************************************************)
(* The booking loop computes what SlotTable!Greedy describes, whatever the *)
(* window, the table, the request and the interval.                        *)
(***************************************************************************)
EXTENDS BookingLoop, WellFoundedInduction, TLAPS

\* The block that starts at q is free for a task that already has those of P.
Free(P, q) ==
    /\ AreSlotsEmpty(before, Block(q, n))
    /\ \A r \in P : Block(q, n) \cap Block(r, n) = {}

\* q is the block that the loop books after those in P.
Booking(P, q) ==
    LET C == Candidates(before, P, NextRequest(P, first, k), n)
    IN  q \in C /\ \A c \in C : q <= c

\* The table is the one the loop began with and the blocks booked since; the
\* request moves ahead of them; a search has passed only blocks that are taken.
LoopInv ==
    /\ timeslots = [i \in 0 .. size - 1 |->
                       IF \E q \in booked : i \in Block(q, n) THEN Owner ELSE before[i]]
    /\ \A q \in booked : Block(q, n) \subseteq 0 .. size - 1
    /\ \A q \in booked : Booking(StartsBefore(booked, q), q)
    /\ pc \in {"loop", "search"} => \A q \in booked : q < next
    /\ pc = "loop" => next = NextRequest(booked, first, k)
    /\ pc = "search" =>
          LET p == NextRequest(booked, first, k)
          IN  /\ p \in Nat /\ p <= next
              /\ ~ Free(booked, p)
              /\ \A c \in p .. next - 1 : ~ Free(booked, c)
    /\ pc = "done" => Candidates(before, booked, NextRequest(booked, first, k), n) = {}

-----------------------------------------------------------------------------
(* The request after a booking *)

LEMMA RequestAfter ==
  ASSUME NEW P \in SUBSET Nat, NEW q \in Nat, \A r \in P : r < q,
         NEW p0 \in Int, NEW step \in Int
  PROVE  NextRequest(P \cup {q}, p0, step) = q + step
<1> DEFINE top == CHOOSE r \in P \cup {q} : \A s \in P \cup {q} : s <= r
<1>1. q \in P \cup {q} /\ \A s \in P \cup {q} : s <= q
  OBVIOUS
<1>2. top \in P \cup {q} /\ \A s \in P \cup {q} : s <= top
  BY <1>1
<1> HIDE DEF top
<1>3. top = q
  <2>1. q <= top /\ (top \in P => top < q)
    BY <1>2
  <2> QED BY <1>2, <2>1
<1>4. P \cup {q} # {}
  OBVIOUS
<1> QED BY <1>3, <1>4 DEF NextRequest, top

LEMMA BlocksAbove ==
  ASSUME NEW q \in Nat, NEW len \in Nat \ {0}
  PROVE  q \in Block(q, len) /\ \A i \in Block(q, len) : i \in Nat /\ q <= i /\ i <= q + len - 1
BY DEF Block

\* A block is free in the table exactly when it was free before and does not
\* meet the blocks booked since.
LEMMA FreeInTable ==
  ASSUME TypeOK, LoopInv, BookingAssumption,
         NEW q \in Nat, q + n - 1 < size
  PROVE  IsFree(q) <=> Free(booked, q)
<1>1. /\ size \in Nat /\ n \in Nat \ {0}
      /\ Block(q, n) \subseteq 0 .. size - 1
  BY BlocksAbove DEF TypeOK, Block
<1>2. \A i \in Block(q, n) :
         timeslots[i] = IF \E r \in booked : i \in Block(r, n) THEN Owner ELSE before[i]
  BY <1>1 DEF LoopInv
<1>3. Owner # None
  BY DEF BookingAssumption
<1>4. IsFree(q) => Free(booked, q)
  BY <1>2, <1>3 DEF IsFree, Free, AreSlotsEmpty
<1>5. Free(booked, q) => IsFree(q)
  BY <1>2 DEF IsFree, Free, AreSlotsEmpty
<1> QED BY <1>4, <1>5

-----------------------------------------------------------------------------
(* Booking a block that is free and that no candidate precedes *)

LEMMA AllocateStep ==
  ASSUME TypeOK, LoopInv, BookingAssumption,
         pc \in {"loop", "search"}, next + n - 1 < size,
         Booking(booked, next),
         Allocate, UNCHANGED inputs
  PROVE  TypeOK' /\ LoopInv'
<1>1. /\ UNCHANGED <<size, before, first, n, k>>
      /\ timeslots' = [i \in 0 .. size - 1 |->
                          IF i \in Block(next, n) THEN Owner ELSE timeslots[i]]
      /\ booked' = booked \cup {next} /\ next' = next + k /\ pc' = "loop"
  BY DEF Allocate, inputs
<1>2. /\ size \in Nat /\ n \in Nat \ {0} /\ k \in Nat \ {0} /\ next \in Nat
      /\ booked \in SUBSET (0 .. size - 1) /\ booked \in SUBSET Nat
      /\ \A q \in booked : q < next
      /\ Block(next, n) \subseteq 0 .. size - 1
      /\ next \in 0 .. size - 1
  BY BlocksAbove DEF TypeOK, LoopInv, Block
<1>3. TypeOK'
  <2>1. timeslots' \in [0 .. size - 1 -> {None, Other, Owner}]
    BY <1>1 DEF TypeOK
  <2>2. next' \in Nat /\ booked' \subseteq 0 .. size - 1
    BY <1>1, <1>2
  <2> QED BY <1>1, <2>1, <2>2 DEF TypeOK
<1>4. timeslots' = [i \in 0 .. size - 1 |->
                       IF \E q \in booked' : i \in Block(q, n) THEN Owner ELSE before[i]]
  <2>1. \A i \in 0 .. size - 1 :
           timeslots'[i] = IF \E q \in booked' : i \in Block(q, n) THEN Owner ELSE before[i]
    BY <1>1 DEF LoopInv
  <2> QED BY <1>1, <2>1
<1>5. \A q \in booked' : Block(q, n) \subseteq 0 .. size - 1
  BY <1>1, <1>2 DEF LoopInv
<1>6. \A q \in booked' : Booking(StartsBefore(booked', q), q)
  <2>1. \A q \in booked : StartsBefore(booked', q) = StartsBefore(booked, q)
    <3> SUFFICES ASSUME NEW q \in booked
                 PROVE  {r \in booked' : r < q} = {r \in booked : r < q}
      BY DEF StartsBefore
    <3>1. q \in Nat /\ ~ (next < q)
      BY <1>2
    <3> QED BY <1>1, <3>1
  <2>2. StartsBefore(booked', next) = booked
    <3>1. ~ (next < next)
      BY <1>2
    <3> QED BY <1>1, <1>2, <3>1 DEF StartsBefore
  <2> QED BY <1>1, <2>1, <2>2 DEF LoopInv
<1>7. \A q \in booked' : q < next'
  BY <1>1, <1>2
<1>8. next' = NextRequest(booked', first, k)
  <2>1. NextRequest(booked \cup {next}, first, k) = next + k
    <3>1. /\ booked \in SUBSET Nat /\ next \in Nat /\ \A r \in booked : r < next
          /\ first \in Int /\ k \in Int
      BY <1>2 DEF TypeOK
    <3> QED BY <3>1, RequestAfter
  <2> QED BY <1>1, <2>1
<1> QED BY <1>1, <1>3, <1>4, <1>5, <1>6, <1>7, <1>8 DEF LoopInv, Booking

\* A free block that nothing free precedes is the one to book.
LEMMA FreeIsBooking ==
  ASSUME TypeOK, LoopInv, BookingAssumption,
         pc \in {"loop", "search"}, next + n - 1 < size, IsFree(next),
         pc = "search" => next + n - 1 < W
  PROVE  Booking(booked, next)
<1> DEFINE p == NextRequest(booked, first, k)
           C == Candidates(before, booked, p, n)
<1>1. /\ size \in Nat /\ n \in Nat \ {0} /\ next \in Nat /\ W \in Nat
      /\ DOMAIN before = 0 .. size - 1
      /\ Block(next, n) \subseteq 0 .. size - 1 /\ next \in 0 .. size - 1
  BY BlocksAbove, WAssumption DEF TypeOK, Block
<1>2. Free(booked, next)
  BY <1>1, FreeInTable
<1>3. p \in Nat /\ p <= next /\ (pc = "loop" => p = next)
  BY <1>1 DEF LoopInv
<1>4. next \in C
  BY <1>1, <1>2, <1>3 DEF Candidates, Free
<1>5. \A c \in C : c \in Nat /\ p <= c /\ Free(booked, c)
  BY <1>1 DEF Candidates, Free
<1>6. \A c \in C : next <= c
  <2> SUFFICES ASSUME NEW c \in C, c < next PROVE FALSE
    BY <1>1, <1>5
  <2>1. pc = "search" /\ c \in p .. next - 1
    BY <1>1, <1>3, <1>5
  <2> QED BY <2>1, <1>5 DEF LoopInv
<1> QED BY <1>4, <1>6 DEF Booking

LEMMA EndStep ==
  ASSUME TypeOK, LoopInv, BookingAssumption, LoopEnd \/ GiveUp
  PROVE  Candidates(before, booked, NextRequest(booked, first, k), n) = {}
<1> DEFINE p == NextRequest(booked, first, k)
<1> SUFFICES ASSUME NEW c \in Candidates(before, booked, p, n) PROVE FALSE
  OBVIOUS
<1>1. /\ size \in Nat /\ n \in Nat \ {0} /\ next \in Nat /\ W \in Nat /\ W <= size
      /\ DOMAIN before = 0 .. size - 1
  BY WAssumption DEF TypeOK
<1>2. /\ c \in Nat /\ p <= c /\ Free(booked, c) /\ Block(c, n) \subseteq 0 .. size - 1
      /\ c = p \/ c + n <= W
  BY <1>1 DEF Candidates, Free
<1>3. c + n - 1 < size
  <2>1. c + n - 1 \in Block(c, n)
    BY <1>1, <1>2 DEF Block
  <2> QED BY <1>1, <1>2, <2>1
<1>4. CASE LoopEnd
  <2>1. next + n - 1 >= size /\ p = next
    BY <1>4 DEF LoopEnd, LoopInv
  <2> QED BY <2>1, <1>1, <1>2, <1>3
<1>5. CASE GiveUp
  <2>1. /\ next + n - 1 >= W /\ p \in Nat /\ p <= next /\ ~ Free(booked, p)
        /\ \A i \in p .. next - 1 : ~ Free(booked, i)
    BY <1>5 DEF GiveUp, LoopInv
  <2>2. c # p /\ c \in p .. next - 1
    BY <2>1, <1>1, <1>2
  <2> QED BY <2>1, <2>2, <1>2
<1> QED BY <1>4, <1>5

LEMMA LoopStep ==
  ASSUME TypeOK, LoopInv, BookingAssumption, [Next]_vars
  PROVE  TypeOK' /\ LoopInv'
<1>1. /\ size \in Nat /\ n \in Nat \ {0} /\ k \in Nat \ {0} /\ next \in Nat /\ W \in Nat
      /\ W <= size
  BY WAssumption DEF TypeOK
<1>2. CASE BookRequested
  BY <1>2, FreeIsBooking, AllocateStep DEF BookRequested
<1>3. CASE BookFound
  <2>1. next + n - 1 < size
    BY <1>1, <1>3 DEF BookFound
  <2> QED BY <1>3, <2>1, FreeIsBooking, AllocateStep DEF BookFound
<1>4. CASE BeginSearch
  <2>1. /\ pc = "loop" /\ pc' = "search" /\ next = NextRequest(booked, first, k)
        /\ UNCHANGED <<size, before, first, n, k, timeslots, next, booked>>
    BY <1>4 DEF BeginSearch, inputs, LoopInv
  <2>2. ~ Free(booked, next)
    BY <1>1, <1>4, FreeInTable DEF BeginSearch
  <2>3. TypeOK'
    BY <2>1 DEF TypeOK
  <2>4. \A c \in next .. next - 1 : FALSE
    BY <1>1
  <2> QED BY <1>1, <2>1, <2>2, <2>3, <2>4 DEF LoopInv, Booking, Free
<1>5. CASE TryNext
  <2>1. /\ pc = "search" /\ next' = next + 1
        /\ UNCHANGED <<size, before, first, n, k, timeslots, booked, pc>>
    BY <1>5 DEF TryNext, inputs
  <2>2. ~ Free(booked, next)
    BY <1>1, <1>5, FreeInTable DEF TryNext
  <2>3. TypeOK'
    BY <1>1, <2>1 DEF TypeOK
  <2> DEFINE p == NextRequest(booked, first, k)
  <2>4. /\ p \in Nat /\ p <= next + 1 /\ ~ Free(booked, p)
        /\ \A c \in p .. next : ~ Free(booked, c)
    <3>1. /\ p \in Nat /\ p <= next /\ ~ Free(booked, p)
          /\ \A c \in p .. next - 1 : ~ Free(booked, c)
      BY <2>1 DEF LoopInv
    <3>2. \A c \in p .. next : c = next \/ c \in p .. next - 1
      BY <1>1, <3>1
    <3> QED BY <1>1, <2>2, <3>1, <3>2
  <2>5. \A q \in booked : q < next'
    <3>1. booked \subseteq Int /\ \A q \in booked : q < next
      BY <2>1 DEF LoopInv, TypeOK
    <3> QED BY <1>1, <2>1, <3>1
  <2>6. next' - 1 = next
    BY <1>1, <2>1
  <2> HIDE DEF p
  <2>7. /\ p \in Nat /\ p <= next' /\ ~ Free(booked, p)
        /\ \A c \in p .. next' - 1 : ~ Free(booked, c)
    BY <2>1, <2>4, <2>6
  <2> QED BY <2>1, <2>3, <2>5, <2>7 DEF LoopInv, Booking, Free, p
<1>6. CASE LoopEnd \/ GiveUp
  <2>1. /\ pc' = "done"
        /\ UNCHANGED <<size, before, first, n, k, timeslots, next, booked>>
    BY <1>6 DEF LoopEnd, GiveUp, inputs
  <2>2. TypeOK'
    BY <2>1 DEF TypeOK
  <2>3. Candidates(before, booked, NextRequest(booked, first, k), n) = {}
    BY <1>6, EndStep
  <2> QED BY <2>1, <2>2, <2>3 DEF LoopInv, Booking
<1>7. CASE UNCHANGED vars
  BY <1>7 DEF vars, inputs, TypeOK, LoopInv, Booking, Free
<1> QED BY <1>2, <1>3, <1>4, <1>5, <1>6, <1>7 DEF Next

LEMMA LoopInit ==
  ASSUME BookingAssumption, Init
  PROVE  TypeOK /\ LoopInv
<1>1. TypeOK
  BY WAssumption DEF Init, TypeOK, BookingAssumption
<1>2. LoopInv
  BY <1>1 DEF Init, LoopInv, TypeOK, NextRequest
<1> QED BY <1>1, <1>2

LEMMA LoopInvariance == Spec => [](TypeOK /\ LoopInv)
<1>1. BookingAssumption /\ Init => TypeOK /\ LoopInv
  BY LoopInit
<1>2. BookingAssumption /\ TypeOK /\ LoopInv /\ [Next]_vars => (TypeOK /\ LoopInv)'
  BY LoopStep
<1> QED BY <1>1, <1>2, BookingAssumption, PTL DEF Spec

-----------------------------------------------------------------------------

\* The loop never indexes outside the table it has: the request and the search
\* stay among the natural numbers, and every booked start is a slot of the table.
THEOREM LoopTypesHold == Spec => []TypeOK
<1> QED BY LoopInvariance, PTL

\* The loop of schedule_allocations and _get_free_slots, when it ends, has booked
\* what SlotTable!Greedy says: for every window, table, request and interval.
THEOREM LoopBooksGreedily == Spec => []BooksGreedily
<1>1. LoopInv => BooksGreedily
  BY DEF LoopInv, BooksGreedily, Greedy, Booking
<1> QED BY <1>1, LoopInvariance, PTL

\* It takes no slot that was taken and none twice.
THEOREM LoopOverwritesNothing == Spec => []NothingOverwritten
<1>1. TypeOK /\ LoopInv => NothingOverwritten
  <2> SUFFICES ASSUME TypeOK, LoopInv PROVE NothingOverwritten
    OBVIOUS
  <2>1. \A q \in booked : /\ q \in Nat
                         /\ AreSlotsEmpty(before, Block(q, n))
                         /\ \A r \in StartsBefore(booked, q) :
                               Block(q, n) \cap Block(r, n) = {}
    BY DEF TypeOK, LoopInv, Booking, Candidates
  <2>2. \A i \in 0 .. size - 1 : before[i] = Other => timeslots[i] = Other
    BY <2>1, BookingAssumption DEF LoopInv, AreSlotsEmpty, BookingAssumption
  <2>3. \A q, r \in booked : q # r => Block(q, n) \cap Block(r, n) = {}
    <3> SUFFICES ASSUME NEW q \in booked, NEW r \in booked, q # r
                 PROVE  Block(q, n) \cap Block(r, n) = {}
      OBVIOUS
    <3>1. q < r \/ r < q
      BY <2>1
    <3> QED BY <2>1, <3>1 DEF StartsBefore
  <2> QED BY <2>2, <2>3 DEF NothingOverwritten
<1> QED BY <1>1, LoopInvariance, PTL

-----------------------------------------------------------------------------
(* No other set of starts fits the description *)

LEMMA LeastElement ==
  ASSUME NEW T \in SUBSET Nat, T # {}
  PROVE  \E m \in T : \A i \in T : m <= i
<1>1. PICK m \in T : \A i \in T : ~ (<<i, m>> \in OpToRel(<, Nat))
  BY NatLessThanWellFounded, WFMin
<1>2. \A i \in T : ~ (i < m)
  BY <1>1 DEF OpToRel
<1> QED BY <1>2

\* A start that one description has and the other has not cannot be the least
\* one in which they differ.
LEMMA NoFirstDifference ==
  ASSUME NEW ts, NEW A \in SUBSET Nat, NEW B \in SUBSET Nat,
         NEW p0, NEW len, NEW step,
         Greedy(ts, A, p0, len, step), Greedy(ts, B, p0, len, step),
         NEW q \in A \ B,
         \A i \in Nat : i < q => (i \in A <=> i \in B)
  PROVE  FALSE
<1> DEFINE P == StartsBefore(A, q)
           C == Candidates(ts, P, NextRequest(P, p0, step), len)
<1>1. q \in C
  BY DEF Greedy
<1>2. P = StartsBefore(B, q)
  BY DEF StartsBefore
<1>3. CASE B = P
  BY <1>1, <1>3 DEF Greedy
<1>4. CASE B # P
  <2>1. B \ P \in SUBSET Nat /\ B \ P # {}
    BY <1>2, <1>4 DEF StartsBefore
  <2>2. PICK r \in B \ P : \A i \in B \ P : r <= i
    BY <2>1, LeastElement
  <2>3. r \in B /\ r \in Nat /\ q < r
    BY <1>2, <2>2 DEF StartsBefore
  <2>4. StartsBefore(B, r) = P
    <3>1. \A i \in B : i < r => i \in P
      BY <2>2, <2>3
    <3>2. \A i \in P : i \in B /\ i \in Nat /\ i < q
      BY <1>2 DEF StartsBefore
    <3> HIDE DEF P
    <3>3. \A i \in P : i \in B /\ i < r
      BY <2>3, <3>2
    <3> QED BY <3>1, <3>3 DEF StartsBefore
  <2>5. \A c \in C : r <= c
    BY <2>3, <2>4 DEF Greedy
  <2> QED BY <1>1, <2>3, <2>5
<1> QED BY <1>3, <1>4

LEMMA OnlyOneGreedy ==
  ASSUME NEW ts, NEW A \in SUBSET Nat, NEW B \in SUBSET Nat,
         NEW p0, NEW len, NEW step,
         Greedy(ts, A, p0, len, step), Greedy(ts, B, p0, len, step)
  PROVE  A = B
<1> DEFINE D == (A \ B) \cup (B \ A)
<1> SUFFICES ASSUME D # {} PROVE FALSE
  OBVIOUS
<1>1. PICK q \in D : \A i \in D : q <= i
  BY LeastElement
<1>2. q \in Nat /\ \A i \in Nat : i < q => (i \in A <=> i \in B)
  BY <1>1
<1>3. CASE q \in A \ B
  BY <1>2, <1>3, NoFirstDifference
<1>4. CASE q \in B \ A
  BY <1>2, <1>4, NoFirstDifference
<1> QED BY <1>1, <1>3, <1>4

\* What AgentScheduler takes from Greedy is therefore what the loop does.
THEOREM LoopOutcomeIsUnique == Spec => []GreedyIsUnique
<1>1. TypeOK /\ BooksGreedily => GreedyIsUnique
  <2> SUFFICES ASSUME TypeOK, BooksGreedily, pc = "done",
                      NEW S \in SUBSET (0 .. size - 1), Greedy(before, S, first, n, k)
               PROVE  S = booked
    BY DEF GreedyIsUnique
  <2>1. S \in SUBSET Nat /\ booked \in SUBSET Nat
    BY DEF TypeOK
  <2> QED BY <2>1, OnlyOneGreedy DEF BooksGreedily
<1>2. LoopInv => BooksGreedily
  BY DEF LoopInv, BooksGreedily, Greedy, Booking
<1> QED BY <1>1, <1>2, LoopInvariance, PTL
=============================================================================
