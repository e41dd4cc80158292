------------------------ MODULE LinkAdjacencyProofs ------------------------
(***************************************************************************)
(* ControlUpIsMutual, that the link tables implement LinkProtocol, and     *)
(* that no link stays open untimed or goes down unreported, for every set  *)
(* of agents and links and every mode of use.                              *)
(*                                                                         *)
(* What is missing from ControlUpIsMutual to be inductive is where a hello *)
(* says "seen": it may arrive long after it was sent, so what it says must *)
(* still hold then.                                                        *)
(***************************************************************************)
EXTENDS LinkAdjacency, TLAPS

\* The neighbour of k has been heard by the owner of k, which may have forgotten.
HasHeard(k) == Neighbor[k] \in heard[Owner[k]] \/ Owner[k] \in Mortal

\* A message under way.
Wellformed(m) == m.key \in Keys /\ (m.seen => HasHeard(m.key))

SeenIsTrue ==
    /\ \A c \in calls : Wellformed(c)
    /\ \A r \in late : Wellformed(r)

Shape ==
    /\ state \in [Keys -> States]
    /\ heard \in [Agents -> SUBSET Agents]

IInv == Shape /\ SeenIsTrue /\ ControlUpIsMutual

\* The steps that leave the links and the hearing alone.
Still == UNCHANGED <<state, heard>>

\* Messages stay or are those of calls that ended.
OldMessages ==
    /\ \A c \in calls' : \E m \in calls \cup late : c.key = m.key /\ c.seen = m.seen
    /\ \A r \in late' : \E m \in calls \cup late : r.key = m.key /\ r.seen = m.seen

-----------------------------------------------------------------------------
LEMMA KeyFacts ==
    ASSUME NEW k \in Keys
    PROVE  Owner[k] \in Agents /\ Neighbor[k] \in Agents /\ Owner[k] # Neighbor[k]
BY AgentAssumption

\* Calls that end leave only their own requests behind.
LEMMA AbandonKeeps ==
    ASSUME NEW C \in SUBSET calls, Abandon(C)
    PROVE  \A r \in late' : \E m \in calls \cup late :
               r.key = m.key /\ r.seen = m.seen
<1>1. PICK L \in SUBSET {RequestOf(c) : c \in {m \in C : ~ m.answered}} :
          late' = late \cup L
  BY DEF Abandon
<1>2. \A r \in L : \E m \in C : r = RequestOf(m)
  OBVIOUS
<1> QED BY <1>1, <1>2 DEF RequestOf

\* Serving a request leaves the messages what they say.
LEMMA ReceivedKeeps ==
    ASSUME NEW r, Received(r)
    PROVE  OldMessages
<1>1. CASE \E c \in calls :
              /\ ~ c.answered /\ RequestOf(c) = r
              /\ calls' = (calls \ {c}) \cup {[c EXCEPT !.answered = TRUE]}
              /\ late' = late
  <2>1. PICK c \in calls :
            /\ calls' = (calls \ {c}) \cup {[c EXCEPT !.answered = TRUE]}
            /\ late' = late
    BY <1>1
  <2>2. [c EXCEPT !.answered = TRUE].key = c.key /\ [c EXCEPT !.answered = TRUE].seen = c.seen
    OBVIOUS
  <2> QED BY <2>1, <2>2 DEF OldMessages
<1>2. CASE r \in late /\ late' = late \ {r} /\ calls' = calls
  BY <1>2 DEF OldMessages
<1> QED BY <1>1, <1>2 DEF Received

\* What has been heard is forgotten by mortal agents only.
LEMMA HeardKeeps ==
    ASSUME OldMessages, SeenIsTrue,
           \A k \in Keys : HasHeard(k) => HasHeard(k)'
    PROVE  SeenIsTrue'
BY DEF OldMessages, SeenIsTrue, Wellformed

\* Only CONTROL_UP that is new, what has been forgotten and messages that are new
\* can disturb the invariant.
LEMMA OnlyUpDisturbs ==
    ASSUME IInv,
           state' \in [Keys -> States], heard' = heard,
           \A k \in Keys : state'[k] = "CONTROL_UP" => state[k] = "CONTROL_UP",
           \A c \in calls' : Wellformed(c),
           \A r \in late' : Wellformed(r)
    PROVE  IInv'
BY DEF IInv, Shape, SeenIsTrue, Wellformed, HasHeard, ControlUpIsMutual

\* A hello is true, and a probe says nothing.
LEMMA NewMessages ==
    ASSUME NEW k \in Keys, NEW by
    PROVE  Wellformed(Hello(k, by)) /\ Wellformed(Probe(k, by))
BY DEF Wellformed, Hello, Probe, HasHeard

LEMMA InitIInv == Init => IInv
BY KeyFacts DEF Init, IInv, Shape, SeenIsTrue, ControlUpIsMutual, States

\* The messages stay, or calls end.
LEMMA OldIsWellformed ==
    ASSUME OldMessages, SeenIsTrue
    PROVE  (\A c \in calls' : Wellformed(c)) /\ (\A r \in late' : Wellformed(r))
BY DEF OldMessages, SeenIsTrue, Wellformed

-----------------------------------------------------------------------------
\* Steps of the hello loop keep the invariant.
LEMMA LoopKeeps ==
    ASSUME IInv, NEW a \in Agents, Start(a) \/ LoopStep(a)
    PROVE  IInv'
<1> USE DEF IInv, Shape
<1>0. SeenIsTrue
  OBVIOUS
<1>1. CASE Start(a) \/ PublishPending(a)
  <2>1. UNCHANGED <<state, heard, calls, late>>
    BY <1>1 DEF Start, PublishPending, tableVars, netVars
  <2> QED BY <2>1, <1>0, OnlyUpDisturbs DEF SeenIsTrue
<1>2. CASE SendHellos(a)
  <2>1. UNCHANGED <<state, heard, late>>
    BY <1>2 DEF SendHellos, tableVars
  <2>2. calls' = calls \cup {Hello(k, "loop") : k \in Table(a) \cap Outbound}
    BY <1>2 DEF SendHellos
  <2>3. \A c \in calls' : Wellformed(c)
    BY <2>2, <1>0, NewMessages DEF SeenIsTrue, Table
  <2> QED BY <2>1, <2>3, <1>0, OnlyUpDisturbs DEF SeenIsTrue
<1>3. CASE CheckHoldTimers(a)
  <2>1. UNCHANGED <<heard, calls, late>>
    BY <1>3 DEF CheckHoldTimers, netVars
  <2>2. state' = [k \in Keys |-> IF k \in Expired(a) THEN "DOWN" ELSE state[k]]
    BY <1>3 DEF CheckHoldTimers
  <2>3. state' \in [Keys -> States]
    BY <2>2 DEF States
  <2>4. \A k \in Keys : state'[k] = "CONTROL_UP" => state[k] = "CONTROL_UP"
    BY <2>2
  <2> QED BY <2>1, <2>3, <2>4, <1>0, OnlyUpDisturbs DEF SeenIsTrue
<1>4. ASSUME NEW k \in Table(a), VisitLink(k) PROVE IInv'
  <2>1. UNCHANGED <<state, heard, late>>
    BY <1>4 DEF VisitLink, tableVars
  <2>2. calls' = calls \cup (IF WantsProbe(k) THEN {Probe(k, "loop")} ELSE {})
    BY <1>4 DEF VisitLink
  <2>3. \A c \in calls' : Wellformed(c)
    BY <2>2, <1>0, NewMessages DEF SeenIsTrue, Table
  <2> QED BY <2>1, <2>3, <1>0, OnlyUpDisturbs DEF SeenIsTrue
<1> QED BY <1>1, <1>2, <1>3, <1>4 DEF LoopStep

\* The end of a call keeps the invariant.
LEMMA AnswersKeep ==
    ASSUME IInv, NEW c \in calls, AnswerStep(c)
    PROVE  IInv'
<1> USE DEF IInv, Shape
<1>0. SeenIsTrue /\ c.key \in Keys
  BY DEF SeenIsTrue, Wellformed
<1>1. CASE HelloAnswered(c)
  <2>1. heard' = heard /\ late' = late /\ calls' = calls \ {c}
    BY <1>1 DEF HelloAnswered
  <2>2. \/ state' = [state EXCEPT ![c.key] = "INIT"]
        \/ state' = state
    BY <1>1 DEF HelloAnswered
  <2>3. state' \in [Keys -> States]
    BY <2>2 DEF States
  <2>4. \A k \in Keys : state'[k] = "CONTROL_UP" => state[k] = "CONTROL_UP"
    BY <2>2
  <2> QED BY <2>1, <2>3, <2>4, <1>0, OnlyUpDisturbs DEF SeenIsTrue
<1>2. CASE ProbeAnswered(c)
  <2>1. heard' = heard /\ late' = late /\ calls' = calls \ {c}
    BY <1>2 DEF ProbeAnswered
  <2>2. state' = [state EXCEPT ![c.key] = "QUANTUM_UP"]
    BY <1>2 DEF ProbeAnswered
  <2>3. state' \in [Keys -> States]
    BY <2>2 DEF States
  <2>4. \A k \in Keys : state'[k] = "CONTROL_UP" => state[k] = "CONTROL_UP"
    BY <2>2
  <2> QED BY <2>1, <2>3, <2>4, <1>0, OnlyUpDisturbs DEF SeenIsTrue
<1>3. CASE CallFails(c)
  <2>1. UNCHANGED <<state, heard>> /\ calls' = calls \ {c} /\ Abandon({c})
    BY <1>3 DEF CallFails, tableVars
  <2>2. OldMessages
    BY <2>1, AbandonKeeps DEF OldMessages
  <2> QED BY <2>1, <2>2, <1>0, OldIsWellformed, OnlyUpDisturbs
<1> QED BY <1>1, <1>2, <1>3 DEF AnswerStep
\* Serving a request keeps the invariant: what it says is still true.
LEMMA ServesKeep ==
    ASSUME IInv, NEW r, Wellformed(r), ServeStep(r)
    PROVE  IInv'
<1> USE DEF IInv, Shape
<1>0. OldMessages /\ SeenIsTrue
  BY ReceivedKeeps DEF ServeStep, ServeHello, ServeProbe
<1>1. CASE ServeProbe(r)
  <2>1. UNCHANGED <<state, heard>>
    BY <1>1 DEF ServeProbe, tableVars
  <2> QED BY <2>1, <1>0, OldIsWellformed, OnlyUpDisturbs
<1>2. CASE ServeHello(r)
  <2> DEFINE b == Neighbor[r.key]
             a == Owner[r.key]
             known == {k \in Table(b) : Neighbor[k] = a}
             mine == known \cap Outbound
             up == {k \in mine : Confirms(r, k)}
  <2>1. /\ heard' = [heard EXCEPT ![b] = IF known = {} THEN @ ELSE @ \cup {a}]
        /\ state' = [k \in Keys |-> IF k \in up THEN "CONTROL_UP" ELSE state[k]]
    BY <1>2 DEF ServeHello
  <2>2. r.key \in Keys /\ a \in Agents /\ b \in Agents /\ a # b
    BY KeyFacts DEF Wellformed
  <2> HIDE DEF a, b, known, mine, up
  <2>3. Shape'
    BY <2>1, <2>2 DEF States
  <2>4. /\ \A n \in Agents : heard[n] \subseteq heard'[n]
        /\ known # {} => a \in heard'[b]
    BY <2>1, <2>2
  <2>5. \A k \in Keys : HasHeard(k) => HasHeard(k)'
    BY <2>4, KeyFacts DEF HasHeard
  <2>6. SeenIsTrue'
    BY <2>5, <1>0, HeardKeeps
  <2>7. ASSUME NEW k \in Keys, state'[k] = "CONTROL_UP"
        PROVE  /\ Neighbor[k] \in heard'[Owner[k]]
               /\ Neighbor[k] \in Mortal \/ Owner[k] \in heard'[Neighbor[k]]
    <3>1. CASE k \in up
      <4>1. Owner[k] = b /\ Neighbor[k] = a /\ known # {} /\ r.seen
        BY <3>1 DEF up, mine, known, Table, Confirms
      <4>2. b \in heard[a] \/ a \in Mortal
        BY <4>1, <2>2 DEF Wellformed, HasHeard, a, b
      <4> QED BY <4>1, <4>2, <2>2, <2>4
    <3>2. CASE k \notin up
      <4>1. state[k] = "CONTROL_UP"
        BY <3>2, <2>1, <2>7
      <4> QED BY <4>1, <2>4, KeyFacts DEF ControlUpIsMutual
    <3> QED BY <3>1, <3>2
  <2> QED BY <2>3, <2>6, <2>7 DEF ControlUpIsMutual
<1> QED BY <1>1, <1>2 DEF ServeStep

\* Manual commands keep the invariant.
LEMMA ManualKeeps ==
    ASSUME IInv, NEW k \in Keys, Connect(k) \/ Disconnect(k) \/ ManualProbe(k)
    PROVE  IInv'
<1> USE DEF IInv, Shape
<1>0. SeenIsTrue
  OBVIOUS
<1>1. CASE Connect(k)
  <2>1. UNCHANGED <<heard, late>>
    BY <1>1 DEF Connect
  <2>2. state' = [state EXCEPT ![k] = "INIT"] \/ state' = state
    BY <1>1 DEF Connect
  <2>3. state' \in [Keys -> States]
    BY <2>2 DEF States
  <2>4. \A n \in Keys : state'[n] = "CONTROL_UP" => state[n] = "CONTROL_UP"
    BY <2>2
  <2>5. calls' = calls \cup (IF k \in Outbound THEN {Hello(k, "manual")} ELSE {})
    BY <1>1 DEF Connect
  <2>6. \A c \in calls' : Wellformed(c)
    BY <2>5, <1>0, NewMessages DEF SeenIsTrue
  <2> QED BY <2>1, <2>3, <2>4, <2>6, <1>0, OnlyUpDisturbs DEF SeenIsTrue
<1>2. CASE Disconnect(k)
  <2>1. UNCHANGED <<heard, calls, late>>
    BY <1>2 DEF Disconnect, netVars
  <2>2. state' = [state EXCEPT ![k] = "DOWN"]
    BY <1>2 DEF Disconnect
  <2>3. state' \in [Keys -> States]
    BY <2>2 DEF States
  <2>4. \A n \in Keys : state'[n] = "CONTROL_UP" => state[n] = "CONTROL_UP"
    BY <2>2
  <2> QED BY <2>1, <2>3, <2>4, <1>0, OnlyUpDisturbs DEF SeenIsTrue
<1>3. CASE ManualProbe(k)
  <2>1. UNCHANGED <<state, heard, late>> /\ calls' = calls \cup {Probe(k, "manual")}
    BY <1>3 DEF ManualProbe, tableVars
  <2>2. \A c \in calls' : Wellformed(c)
    BY <2>1, <1>0, NewMessages DEF SeenIsTrue
  <2> QED BY <2>1, <2>2, <1>0, OnlyUpDisturbs DEF SeenIsTrue
<1> QED BY <1>1, <1>2, <1>3

\* A crash keeps the invariant: what the agent said before counts no longer.
LEMMA CrashKeeps ==
    ASSUME IInv, NEW a \in Agents, Crash(a)
    PROVE  IInv'
<1> USE DEF IInv, Shape
<1> DEFINE mine == {c \in calls : Owner[c.key] = a}
<1>1. /\ a \in Mortal
      /\ state' = [k \in Keys |-> IF Owner[k] = a THEN "DOWN" ELSE state[k]]
      /\ heard' = [heard EXCEPT ![a] = {}]
      /\ calls' = calls \ mine
      /\ Abandon(mine)
  BY DEF Crash
<1> HIDE DEF mine
<1>2. mine \in SUBSET calls
  BY DEF mine
<1>3. OldMessages
  BY <1>1, <1>2, AbandonKeeps DEF OldMessages
<1>4. Shape'
  BY <1>1 DEF States
<1>5. \A k \in Keys : HasHeard(k) => HasHeard(k)'
  BY <1>1, KeyFacts DEF HasHeard
<1>6. SeenIsTrue'
  BY <1>3, <1>5, HeardKeeps
<1>7. ASSUME NEW k \in Keys, state'[k] = "CONTROL_UP"
      PROVE  /\ Neighbor[k] \in heard'[Owner[k]]
             /\ Neighbor[k] \in Mortal \/ Owner[k] \in heard'[Neighbor[k]]
  <2>1. Owner[k] # a /\ state[k] = "CONTROL_UP"
    BY <1>1, <1>7
  <2> QED BY <1>1, <2>1, KeyFacts DEF ControlUpIsMutual
<1> QED BY <1>4, <1>6, <1>7 DEF ControlUpIsMutual

\* Every step keeps the invariant.
LEMMA StepIInv ==
    ASSUME IInv, [Next]_vars
    PROVE  IInv'
<1>0. Shape /\ SeenIsTrue
  BY DEF IInv
<1>1. CASE UNCHANGED vars
  BY <1>1, <1>0, OnlyUpDisturbs DEF vars, tableVars, netVars, SeenIsTrue, Shape
<1>2. CASE Tick
  <2>1. UNCHANGED <<state, heard, calls, late>>
    BY <1>2 DEF Tick, netVars
  <2> QED BY <2>1, <1>0, OnlyUpDisturbs DEF SeenIsTrue, Shape
<1>3. ASSUME NEW a \in Agents,
             \/ ChangeSpec(a) \/ Restart(a)
             \/ \E n \in HoldTimes : SetHoldTime(a, n)
      PROVE  IInv'
  <2>1. UNCHANGED <<state, heard, calls, late>>
    BY <1>3 DEF ChangeSpec, Restart, SetHoldTime, tableVars, netVars
  <2> QED BY <2>1, <1>0, OnlyUpDisturbs DEF SeenIsTrue, Shape
<1>4. ASSUME NEW a \in Agents, Start(a) \/ LoopStep(a) PROVE IInv'
  BY <1>4, LoopKeeps
<1>5. ASSUME NEW a \in Agents, Crash(a) PROVE IInv'
  BY <1>5, CrashKeeps
<1>6. ASSUME NEW c \in calls, AnswerStep(c) PROVE IInv'
  BY <1>6, AnswersKeep
<1>7. ASSUME NEW r \in {RequestOf(c) : c \in calls} \cup late, ServeStep(r) PROVE IInv'
  <2>1. Wellformed(r)
    BY <1>0 DEF SeenIsTrue, RequestOf, Wellformed
  <2> QED BY <2>1, <1>7, ServesKeep
<1>8. ASSUME NEW k \in Steered, Connect(k) \/ Disconnect(k) \/ ManualProbe(k) PROVE IInv'
  <2>1. k \in Keys
    BY AgentAssumption
  <2> QED BY <2>1, <1>8, ManualKeeps
<1> QED BY <1>1, <1>2, <1>3, <1>4, <1>5, <1>6, <1>7, <1>8 DEF Next

\* A link is CONTROL_UP only if both its ends have heard each other, but for ends
\* that crash and forget (the bilateral confirmation of link.py:192-206).
THEOREM MutualBeforeUp == Spec => []ControlUpIsMutual
<1>1. Init => IInv
  BY InitIInv
<1>2. IInv /\ [Next]_vars => IInv'
  BY StepIInv
<1>3. IInv => ControlUpIsMutual
  BY DEF IInv
<1> QED BY <1>1, <1>2, <1>3, PTL DEF Spec
-----------------------------------------------------------------------------
(* The link tables implement LinkProtocol. *)

LEMMA InitImplements == Init => Protocol!Init
BY DEF Init, Protocol!Init

\* A step that leaves links and hearing alone is a stutter of the protocol.
LEMMA StillIsStutter ==
    ASSUME Still
    PROVE  [Protocol!Next]_(Protocol!vars)
BY DEF Still, Protocol!vars

\* A hello served is heard; from an unknown agent it is nothing.
LEMMA ServeHelloImplements ==
    ASSUME IInv, NEW r, Wellformed(r), ServeHello(r)
    PROVE  [Protocol!Next]_(Protocol!vars)
<1> USE DEF IInv, Shape
<1> DEFINE b == Neighbor[r.key]
           a == Owner[r.key]
           known == {k \in Table(b) : Neighbor[k] = a}
           mine == known \cap Outbound
           up == {k \in mine : Confirms(r, k)}
<1>1. /\ heard' = [heard EXCEPT ![b] = IF known = {} THEN @ ELSE @ \cup {a}]
      /\ state' = [k \in Keys |-> IF k \in up THEN "CONTROL_UP" ELSE state[k]]
  BY DEF ServeHello
<1>2. a \in Agents /\ b \in Agents /\ a # b
  BY KeyFacts DEF Wellformed
<1>3. up \in SUBSET {k \in Keys : /\ Owner[k] = b /\ Neighbor[k] = a
                                  /\ state[k] = "INIT"}
  BY DEF Table, Confirms
<1>4. up \subseteq known
  OBVIOUS
<1>5. up # {} => a \in Mortal \/ b \in heard[a]
  BY DEF Confirms, Wellformed, HasHeard
<1> HIDE DEF a, b, known, mine, up
<1>6. CASE known = {}
  <2>1. Still
    BY <1>1, <1>4, <1>6 DEF Still
  <2> QED BY <2>1, StillIsStutter
<1>7. CASE known # {}
  <2>1. heard' = [heard EXCEPT ![b] = @ \cup {a}]
    BY <1>1, <1>7
  <2>2. up # {} => a \in Mortal \/ b \in heard'[a]
    BY <2>1, <1>2, <1>5
  <2>3. Protocol!Hear(b, a)
    BY <2>1, <2>2, <1>1, <1>3 DEF Protocol!Hear
  <2> QED BY <2>3, <1>2 DEF Protocol!Next
<1> QED BY <1>6, <1>7

\* Every step is one of the protocol, or a stutter of it.
LEMMA StepImplements ==
    ASSUME IInv, [Next]_vars
    PROVE  [Protocol!Next]_(Protocol!vars)
<1> USE DEF IInv, Shape
<1>1. CASE UNCHANGED vars \/ Tick
  BY <1>1, StillIsStutter DEF vars, tableVars, Tick, Still
<1>2. ASSUME NEW a \in Agents,
             \/ Start(a) \/ SendHellos(a) \/ PublishPending(a)
             \/ \E k \in Table(a) : VisitLink(k)
             \/ ChangeSpec(a) \/ Restart(a)
             \/ \E n \in HoldTimes : SetHoldTime(a, n)
      PROVE  [Protocol!Next]_(Protocol!vars)
  BY <1>2, StillIsStutter DEF Start, SendHellos, PublishPending, VisitLink,
     ChangeSpec, Restart, SetHoldTime, tableVars, Still
<1>3. ASSUME NEW a \in Agents, CheckHoldTimers(a) PROVE Protocol!Next
  <2>1. Protocol!Close(Expired(a))
    BY <1>3 DEF CheckHoldTimers, Protocol!Close
  <2>2. Expired(a) \in SUBSET Keys
    BY DEF Expired, Table
  <2> QED BY <2>1, <2>2 DEF Protocol!Next
<1>4. ASSUME NEW a \in Agents, Crash(a) PROVE Protocol!Next
  <2>1. a \in Mortal /\ Protocol!Forget(a)
    BY <1>4 DEF Crash, Protocol!Forget
  <2> QED BY <2>1 DEF Protocol!Next
<1>5. ASSUME NEW c \in calls, AnswerStep(c)
      PROVE  [Protocol!Next]_(Protocol!vars)
  <2>0. c.key \in Keys
    BY DEF SeenIsTrue, Wellformed
  <2>1. CASE HelloAnswered(c)
    <3>1. Still \/ Protocol!Open(c.key)
      BY <2>1 DEF HelloAnswered, Opens, Still, Protocol!Open
    <3> QED BY <3>1, <2>0, StillIsStutter DEF Protocol!Next
  <2>2. CASE ProbeAnswered(c)
    <3>1. Protocol!Probed(c.key)
      BY <2>2 DEF ProbeAnswered, Protocol!Probed
    <3> QED BY <3>1, <2>0 DEF Protocol!Next
  <2>3. CASE CallFails(c)
    BY <2>3, StillIsStutter DEF CallFails, tableVars, Still
  <2> QED BY <1>5, <2>1, <2>2, <2>3 DEF AnswerStep
<1>6. ASSUME NEW r \in {RequestOf(c) : c \in calls} \cup late, ServeStep(r)
      PROVE  [Protocol!Next]_(Protocol!vars)
  <2>1. Wellformed(r)
    BY DEF SeenIsTrue, RequestOf, Wellformed
  <2>2. CASE ServeHello(r)
    BY <2>1, <2>2, ServeHelloImplements
  <2>3. CASE ServeProbe(r)
    BY <2>3, StillIsStutter DEF ServeProbe, tableVars, Still
  <2> QED BY <1>6, <2>2, <2>3 DEF ServeStep
<1>7. ASSUME NEW k \in Steered, Connect(k) \/ Disconnect(k) \/ ManualProbe(k)
      PROVE  [Protocol!Next]_(Protocol!vars)
  <2>0. k \in Keys
    BY AgentAssumption
  <2>1. CASE Connect(k)
    <3>1. Still \/ Protocol!Open(k)
      BY <2>1 DEF Connect, Opens, Still, Protocol!Open
    <3> QED BY <3>1, <2>0, StillIsStutter DEF Protocol!Next
  <2>2. CASE Disconnect(k)
    <3>1. state' = [n \in Keys |-> IF n \in {k} THEN "DOWN" ELSE state[n]]
      BY <2>2 DEF Disconnect
    <3>2. Protocol!Close({k})
      BY <2>2, <3>1 DEF Disconnect, Protocol!Close
    <3> QED BY <3>2, <2>0 DEF Protocol!Next
  <2>3. CASE ManualProbe(k)
    BY <2>3, StillIsStutter DEF ManualProbe, tableVars, Still
  <2> QED BY <1>7, <2>1, <2>2, <2>3
<1> QED BY <1>1, <1>2, <1>3, <1>4, <1>5, <1>6, <1>7 DEF Next, LoopStep

\* Through lost and late messages, timers, manual commands and crashes, links do
\* what LinkProtocol allows and nothing else.
THEOREM LinksFollowProtocol == Spec => ImplementsProtocol
<1>1. Init => Protocol!Init
  BY InitImplements
<1>2. IInv /\ [Next]_vars => [Protocol!Next]_(Protocol!vars)
  BY StepImplements
<1>3. Init => IInv
  BY InitIInv
<1>4. IInv /\ [Next]_vars => IInv'
  BY StepIInv
<1> QED BY <1>1, <1>2, <1>3, <1>4, PTL DEF Spec, ImplementsProtocol, Protocol!Spec

-----------------------------------------------------------------------------
(* Types, and that only a probe by hand opens a link without a time. *)

\* What the proofs say of one entry of a link state table.
EntryOK(k) ==
    /\ state[k] = "INIT" => initAge[k] # None
    /\ state[k] \in {"DOWN", "CONTROL_UP"} => initAge[k] = None
    /\ state[k] = "CONTROL_UP" /\ k \in Outbound => helloAge[k] # None

Entries ==
    /\ state \in [Keys -> States]
    /\ initAge \in [Keys -> AgeType] /\ helloAge \in [Keys -> AgeType]
    /\ published \in [Keys -> States \cup {None}]
    /\ \A k \in Keys : EntryOK(k)

Messages == calls \subseteq CallType /\ late \subseteq RequestType

Loops ==
    /\ heard \in [Agents -> SUBSET Agents]
    /\ hold \in [Agents -> HoldTimes]
    /\ started \subseteq Agents /\ inSpec \subseteq Agents /\ alive \subseteq Agents
    /\ pc \in [Agents -> {"sleep", "hello", "probe"}]
    /\ sleep \in [Agents -> 0 .. HelloInterval]
    /\ todo \in [Agents -> SUBSET Keys]

TInv == Entries /\ Messages /\ Loops

\* Ages are counted up to MaxAge, which is no stand-in for a time not set.
LEMMA AgeFacts ==
    /\ MaxAge \in Nat /\ 0 \in AgeType /\ None \in AgeType /\ 0 # None
    /\ \A age \in AgeType : /\ Older(age) \in AgeType
                            /\ Older(age) = None <=> age = None
<1> DEFINE top == CHOOSE n \in HoldTimes : \A m \in HoldTimes : m <= n
<1>1. top \in HoldTimes
  BY HoldAssumption
<1>2. MaxAge = 1 + top
  BY DEF MaxAge
<1> HIDE DEF top
<1>3. MaxAge \in Nat
  BY <1>1, <1>2, HoldAssumption
<1>4. None \notin Nat
  BY HoldAssumption
<1> HIDE DEF MaxAge
<1>5. ASSUME NEW age \in AgeType
      PROVE  Older(age) \in AgeType /\ (Older(age) = None <=> age = None)
  BY <1>3, <1>4 DEF AgeType, Older
<1> QED BY <1>3, <1>4, <1>5 DEF AgeType

LEMMA EntriesSame ==
    ASSUME Entries, UNCHANGED <<state, initAge, helloAge, published>>
    PROVE  Entries'
BY DEF Entries, EntryOK

\* An entry that has been taken to INIT, as HelloAnswered and Connect do.
LEMMA EntriesOpen ==
    ASSUME Entries, NEW k \in Keys,
           \/ /\ state' = [state EXCEPT ![k] = "INIT"]
              /\ initAge' = [initAge EXCEPT ![k] = 0]
           \/ UNCHANGED <<state, initAge>>,
           UNCHANGED <<helloAge, published>>
    PROVE  Entries'
<1>1. CASE UNCHANGED <<state, initAge>>
  BY <1>1, EntriesSame
<1>2. CASE /\ state' = [state EXCEPT ![k] = "INIT"]
           /\ initAge' = [initAge EXCEPT ![k] = 0]
  <2>1. state' \in [Keys -> States] /\ initAge' \in [Keys -> AgeType]
    BY <1>2, AgeFacts DEF Entries, States
  <2>2. ASSUME NEW n \in Keys PROVE EntryOK(n)'
    BY <1>2, AgeFacts DEF Entries, EntryOK
  <2> QED BY <2>1, <2>2 DEF Entries
<1> QED BY <1>1, <1>2

\* Reports of typed states, whether they go out or not.
LEMMA PublishTyped ==
    ASSUME state' \in [Keys -> States],
           published \in [Keys -> States \cup {None}],
           NEW K, Publish(K)
    PROVE  published' \in [Keys -> States \cup {None}]
<1>1. PICK sent \in SUBSET K :
          published' = [k \in Keys |-> IF k \in sent THEN state'[k]
                                       ELSE published[k]]
  BY DEF Publish
<1> QED BY <1>1

\* Entries that have been taken DOWN, as timers and Disconnect do.
LEMMA EntriesClose ==
    ASSUME Entries, NEW K,
           state' = [k \in Keys |-> IF k \in K THEN "DOWN" ELSE state[k]],
           initAge' = Untimed(K),
           Publish(K),
           helloAge' = helloAge
    PROVE  Entries'
<1>1. state' \in [Keys -> States] /\ initAge' \in [Keys -> AgeType]
  BY AgeFacts DEF Entries, States, Untimed
<1>2. published' \in [Keys -> States \cup {None}]
  BY <1>1, PublishTyped DEF Entries
<1>3. ASSUME NEW n \in Keys PROVE EntryOK(n)'
  BY DEF Entries, EntryOK, Untimed
<1> QED BY <1>1, <1>2, <1>3 DEF Entries

-----------------------------------------------------------------------------
LEMMA InitTInv == Init => TInv
BY HoldAssumption, AgeFacts DEF Init, TInv, Entries, EntryOK, Messages, Loops, States

LEMMA CallsTyped ==
    ASSUME NEW k \in Keys, NEW by \in {"loop", "manual"}
    PROVE  Hello(k, by) \in CallType /\ Probe(k, by) \in CallType
BY DEF Hello, Probe, CallType

LEMMA RequestsTyped ==
    ASSUME NEW c \in CallType
    PROVE  RequestOf(c) \in RequestType
BY DEF RequestOf, CallType, RequestType

LEMMA AbandonTyped ==
    ASSUME Messages, NEW C \in SUBSET calls, Abandon(C)
    PROVE  late' \subseteq RequestType
<1>1. PICK L \in SUBSET {RequestOf(c) : c \in {m \in C : ~ m.answered}} :
          late' = late \cup L
  BY DEF Abandon
<1> QED BY <1>1, RequestsTyped DEF Messages

LEMMA ReceivedTyped ==
    ASSUME Messages, NEW r, Received(r)
    PROVE  Messages'
<1>1. CASE r \in late /\ late' = late \ {r} /\ calls' = calls
  BY <1>1 DEF Messages
<1>2. ASSUME NEW c \in calls,
             calls' = (calls \ {c}) \cup {[c EXCEPT !.answered = TRUE]},
             late' = late
      PROVE  Messages'
  <2>1. c \in CallType
    BY DEF Messages
  <2>2. [c EXCEPT !.answered = TRUE] \in CallType
    BY <2>1 DEF CallType
  <2> QED BY <1>2, <2>2 DEF Messages
<1> QED BY <1>1, <1>2 DEF Received

-----------------------------------------------------------------------------
\* Steps of the hello loop keep types and timers.
LEMMA LoopTypes ==
    ASSUME TInv, NEW a \in Agents, Start(a) \/ LoopStep(a)
    PROVE  TInv'
<1> USE DEF TInv
<1>1. CASE Start(a)
  <2>1. Entries' /\ Messages'
    BY <1>1, EntriesSame DEF Start, tableVars, netVars, Messages
  <2>2. Loops'
    BY <1>1 DEF Start, Loops, tableVars, loopVars
  <2> QED BY <2>1, <2>2
<1>2. CASE SendHellos(a)
  <2>1. Entries'
    BY <1>2, EntriesSame DEF SendHellos, tableVars
  <2>2. Messages'
    BY <1>2, CallsTyped DEF SendHellos, Messages, Table
  <2>3. Loops'
    BY <1>2 DEF SendHellos, Loops, tableVars, envVars
  <2> QED BY <2>1, <2>2, <2>3
<1>3. CASE CheckHoldTimers(a)
  <2>1. Entries'
    BY <1>3, EntriesClose DEF CheckHoldTimers
  <2>2. Messages'
    BY <1>3 DEF CheckHoldTimers, Messages, netVars
  <2>3. Loops'
    BY <1>3 DEF CheckHoldTimers, Loops, Table, envVars
  <2> QED BY <2>1, <2>2, <2>3
<1>4. ASSUME NEW k \in Table(a), VisitLink(k) PROVE TInv'
  <2>0. k \in Keys /\ Owner[k] = a
    BY DEF Table
  <2>1. Entries'
    BY <1>4, EntriesSame DEF VisitLink, tableVars
  <2>2. Messages'
    BY <1>4, <2>0, CallsTyped DEF VisitLink, Messages
  <2>3. Loops'
    BY <1>4, <2>0 DEF VisitLink, Loops, tableVars, envVars
  <2> QED BY <2>1, <2>2, <2>3
<1>5. CASE PublishPending(a)
  <2>1. Publish(Pending(a)) /\ UNCHANGED <<state, initAge, helloAge>>
    BY <1>5 DEF PublishPending
  <2>2. Entries'
    <3>1. published' \in [Keys -> States \cup {None}]
      BY <2>1, PublishTyped DEF Entries
    <3> QED BY <2>1, <3>1 DEF Entries, EntryOK
  <2>3. Messages'
    BY <1>5 DEF PublishPending, Messages, netVars
  <2>4. HelloInterval \in 0 .. HelloInterval
    BY HoldAssumption
  <2>5. Loops'
    BY <1>5, <2>4 DEF PublishPending, Loops, envVars
  <2> QED BY <2>2, <2>3, <2>5
<1> QED BY <1>1, <1>2, <1>3, <1>4, <1>5 DEF LoopStep

\* The end of a call keeps them.
LEMMA AnswersTypes ==
    ASSUME TInv, NEW c \in calls, AnswerStep(c)
    PROVE  TInv'
<1> USE DEF TInv
<1>0. c.key \in Keys
  BY DEF Messages, CallType
<1>1. CASE HelloAnswered(c)
  <2>1. /\ \/ /\ state' = [state EXCEPT ![c.key] = "INIT"]
              /\ initAge' = [initAge EXCEPT ![c.key] = 0]
           \/ UNCHANGED <<state, initAge>>
        /\ UNCHANGED <<helloAge, published>>
    BY <1>1 DEF HelloAnswered
  <2>2. Entries'
    BY <2>1, <1>0, EntriesOpen
  <2>3. Messages'
    BY <1>1 DEF HelloAnswered, Messages
  <2>4. Loops'
    BY <1>1 DEF HelloAnswered, Loops, loopVars, envVars
  <2> QED BY <2>2, <2>3, <2>4
<1>2. CASE ProbeAnswered(c)
  <2>1. /\ state' = [state EXCEPT ![c.key] = "QUANTUM_UP"]
        /\ Publish({c.key})
        /\ UNCHANGED <<initAge, helloAge>>
    BY <1>2 DEF ProbeAnswered
  <2>2. Entries'
    <3>1. state' \in [Keys -> States]
      BY <2>1 DEF Entries, States
    <3>2. published' \in [Keys -> States \cup {None}]
      BY <2>1, <3>1, PublishTyped DEF Entries
    <3>3. ASSUME NEW k \in Keys PROVE EntryOK(k)'
      BY <2>1 DEF Entries, EntryOK
    <3> QED BY <2>1, <3>1, <3>2, <3>3 DEF Entries
  <2>3. Messages'
    BY <1>2 DEF ProbeAnswered, Messages
  <2>4. Loops'
    BY <1>2 DEF ProbeAnswered, Loops, loopVars, envVars
  <2> QED BY <2>2, <2>3, <2>4
<1>3. CASE CallFails(c)
  <2>1. Entries'
    BY <1>3, EntriesSame DEF CallFails, tableVars
  <2>2. Messages'
    BY <1>3, AbandonTyped DEF CallFails, Messages
  <2>3. Loops'
    BY <1>3 DEF CallFails, Loops, tableVars, loopVars, envVars
  <2> QED BY <2>1, <2>2, <2>3
<1> QED BY <1>1, <1>2, <1>3 DEF AnswerStep

\* A request served keeps them: a link that goes up has just heard a hello.
LEMMA ServesTypes ==
    ASSUME TInv, NEW r \in RequestType, ServeStep(r)
    PROVE  TInv'
<1> USE DEF TInv
<1>0. Messages'
  BY ReceivedTyped DEF ServeStep, ServeHello, ServeProbe
<1>1. CASE ServeProbe(r)
  <2>1. Entries'
    BY <1>1, EntriesSame DEF ServeProbe, tableVars
  <2>2. Loops'
    BY <1>1 DEF ServeProbe, Loops, tableVars, loopVars, envVars
  <2> QED BY <2>1, <2>2, <1>0
<1>2. CASE ServeHello(r)
  <2> DEFINE b == Neighbor[r.key]
             a == Owner[r.key]
             known == {k \in Table(b) : Neighbor[k] = a}
             mine == known \cap Outbound
             up == {k \in mine : Confirms(r, k)}
  <2>1. /\ heard' = [heard EXCEPT ![b] = IF known = {} THEN @ ELSE @ \cup {a}]
        /\ helloAge' = [k \in Keys |-> IF k \in mine THEN 0 ELSE helloAge[k]]
        /\ state' = [k \in Keys |-> IF k \in up THEN "CONTROL_UP" ELSE state[k]]
        /\ initAge' = Untimed(up)
        /\ UNCHANGED <<published, loopVars, envVars, hold>>
    BY <1>2 DEF ServeHello
  <2>2. a \in Agents
    BY KeyFacts DEF RequestType
  <2>3. up \subseteq mine /\ \A k \in up : state[k] = "INIT"
    BY DEF Confirms
  <2> HIDE DEF a, b, known, mine, up
  <2>4. Loops'
    BY <2>1, <2>2 DEF Loops, loopVars, envVars
  <2>5. /\ state' \in [Keys -> States]
        /\ initAge' \in [Keys -> AgeType] /\ helloAge' \in [Keys -> AgeType]
        /\ published' \in [Keys -> States \cup {None}]
    BY <2>1, AgeFacts DEF Entries, States, Untimed
  <2>6. ASSUME NEW k \in Keys PROVE EntryOK(k)'
    <3>1. CASE k \in up
      BY <3>1, <2>1, <2>3, AgeFacts DEF EntryOK, Untimed
    <3>2. CASE k \notin up
      <4>1. /\ state'[k] = state[k] /\ initAge'[k] = initAge[k]
            /\ published'[k] = published[k]
            /\ helloAge'[k] = 0 \/ helloAge'[k] = helloAge[k]
        BY <3>2, <2>1 DEF Untimed
      <4> QED BY <4>1, AgeFacts DEF Entries, EntryOK
    <3> QED BY <3>1, <3>2
  <2>7. Entries'
    BY <2>5, <2>6 DEF Entries
  <2> QED BY <2>4, <2>7, <1>0
<1> QED BY <1>1, <1>2 DEF ServeStep

\* Manual commands keep them.
LEMMA ManualTypes ==
    ASSUME TInv, NEW k \in Keys, Connect(k) \/ Disconnect(k) \/ ManualProbe(k)
    PROVE  TInv'
<1> USE DEF TInv
<1>1. CASE Connect(k)
  <2>1. /\ \/ /\ state' = [state EXCEPT ![k] = "INIT"]
              /\ initAge' = [initAge EXCEPT ![k] = 0]
           \/ UNCHANGED <<state, initAge>>
        /\ UNCHANGED <<helloAge, published>>
    BY <1>1 DEF Connect
  <2>2. Entries'
    BY <2>1, EntriesOpen
  <2>3. Messages'
    BY <1>1, CallsTyped DEF Connect, Messages
  <2>4. Loops'
    BY <1>1 DEF Connect, Loops, loopVars, envVars
  <2> QED BY <2>2, <2>3, <2>4
<1>2. CASE Disconnect(k)
  <2>1. state' = [n \in Keys |-> IF n \in {k} THEN "DOWN" ELSE state[n]]
    BY <1>2 DEF Disconnect, Entries
  <2>2. Entries'
    BY <1>2, <2>1, EntriesClose DEF Disconnect
  <2>3. Messages'
    BY <1>2 DEF Disconnect, Messages, netVars
  <2>4. Loops'
    BY <1>2 DEF Disconnect, Loops, loopVars, envVars
  <2> QED BY <2>2, <2>3, <2>4
<1>3. CASE ManualProbe(k)
  <2>1. Entries'
    BY <1>3, EntriesSame DEF ManualProbe, tableVars
  <2>2. Messages'
    BY <1>3, CallsTyped DEF ManualProbe, Messages
  <2>3. Loops'
    BY <1>3 DEF ManualProbe, Loops, tableVars, loopVars, envVars
  <2> QED BY <2>1, <2>2, <2>3
<1> QED BY <1>1, <1>2, <1>3

\* A crash keeps them: the entries of the agent are as they were at its start.
LEMMA CrashTypes ==
    ASSUME TInv, NEW a \in Agents, Crash(a)
    PROVE  TInv'
<1> USE DEF TInv
<1> DEFINE mine == {c \in calls : Owner[c.key] = a}
<1>1. /\ state' = [k \in Keys |-> IF Owner[k] = a THEN "DOWN" ELSE state[k]]
      /\ initAge' = [k \in Keys |-> IF Owner[k] = a THEN None ELSE initAge[k]]
      /\ helloAge' = [k \in Keys |-> IF Owner[k] = a THEN None ELSE helloAge[k]]
      /\ published' = [k \in Keys |-> IF Owner[k] = a THEN None ELSE published[k]]
  BY DEF Crash
<1>2. calls' = calls \ mine /\ Abandon(mine)
  BY DEF Crash
<1>3. Messages'
  BY <1>2, AbandonTyped DEF Messages
<1>4. Loops'
  BY HoldAssumption DEF Crash, Loops
<1>5. /\ state' \in [Keys -> States]
      /\ initAge' \in [Keys -> AgeType] /\ helloAge' \in [Keys -> AgeType]
      /\ published' \in [Keys -> States \cup {None}]
  BY <1>1, AgeFacts DEF Entries, States
<1>6. ASSUME NEW k \in Keys PROVE EntryOK(k)'
  BY <1>1 DEF Entries, EntryOK
<1> QED BY <1>3, <1>4, <1>5, <1>6 DEF Entries

\* Time passes: a time that is set stays set.
LEMMA TickTypes ==
    ASSUME TInv, Tick
    PROVE  TInv'
<1> USE DEF TInv
<1>1. /\ initAge' = [k \in Keys |-> Older(initAge[k])]
      /\ helloAge' = [k \in Keys |-> Older(helloAge[k])]
      /\ UNCHANGED <<state, published>>
  BY DEF Tick
<1>2. initAge' \in [Keys -> AgeType] /\ helloAge' \in [Keys -> AgeType]
  BY <1>1, AgeFacts DEF Entries
<1>3. ASSUME NEW k \in Keys PROVE EntryOK(k)'
  <2>1. /\ initAge'[k] = None <=> initAge[k] = None
        /\ helloAge'[k] = None <=> helloAge[k] = None
    BY <1>1, AgeFacts DEF Entries
  <2> QED BY <1>1, <2>1 DEF Entries, EntryOK
<1>4. Entries'
  BY <1>1, <1>2, <1>3 DEF Entries
<1>5. Messages'
  BY DEF Tick, Messages, netVars
<1>6. sleep' \in [Agents -> 0 .. HelloInterval]
  BY HoldAssumption DEF Tick, Loops
<1>7. Loops'
  BY <1>6 DEF Tick, Loops, envVars
<1> QED BY <1>4, <1>5, <1>7

LEMMA StepTypes ==
    ASSUME TInv, [Next]_vars
    PROVE  TInv'
<1> USE DEF TInv
<1>1. CASE UNCHANGED vars
  BY <1>1, EntriesSame
     DEF vars, tableVars, loopVars, netVars, envVars, Messages, Loops
<1>2. CASE Tick
  BY <1>2, TickTypes
<1>3. ASSUME NEW a \in Agents,
             \/ ChangeSpec(a) \/ Restart(a)
             \/ \E n \in HoldTimes : SetHoldTime(a, n)
      PROVE  TInv'
  <2>1. Entries' /\ Messages'
    BY <1>3, EntriesSame
       DEF ChangeSpec, Restart, SetHoldTime, tableVars, netVars, Messages
  <2>2. Loops'
    BY <1>3 DEF ChangeSpec, Restart, SetHoldTime, Loops, tableVars, loopVars, envVars
  <2> QED BY <2>1, <2>2
<1>4. ASSUME NEW a \in Agents, Start(a) \/ LoopStep(a) PROVE TInv'
  BY <1>4, LoopTypes
<1>5. ASSUME NEW a \in Agents, Crash(a) PROVE TInv'
  BY <1>5, CrashTypes
<1>6. ASSUME NEW c \in calls, AnswerStep(c) PROVE TInv'
  BY <1>6, AnswersTypes
<1>7. ASSUME NEW r \in {RequestOf(c) : c \in calls} \cup late, ServeStep(r) PROVE TInv'
  <2>1. r \in RequestType
    BY RequestsTyped DEF Messages
  <2> QED BY <2>1, <1>7, ServesTypes
<1>8. ASSUME NEW k \in Steered, Connect(k) \/ Disconnect(k) \/ ManualProbe(k) PROVE TInv'
  <2>1. k \in Keys
    BY AgentAssumption
  <2> QED BY <2>1, <1>8, ManualTypes
<1> QED BY <1>1, <1>2, <1>3, <1>4, <1>5, <1>6, <1>7, <1>8 DEF Next

LEMMA TypesInvariant == Spec => []TInv
<1>1. TInv /\ [Next]_vars => TInv'
  BY StepTypes
<1> QED BY <1>1, InitTInv, PTL DEF Spec

\* The entries, loops and messages keep their types, and init_since is set in
\* INIT and cleared on every way out of it but a probe by hand.
THEOREM TypesHold == Spec => []TypeOK
<1>1. TInv => TypeOK
  BY DEF TInv, Entries, EntryOK, Messages, Loops, TypeOK
<1> QED BY <1>1, TypesInvariant, PTL

-----------------------------------------------------------------------------
(* Only the answer to a probe by hand leaves an open link without a time. *)

\* A probe of the loop was sent for a link that was CONTROL_UP: its neighbour has
\* been heard, and that is not forgotten while the call is under way.
Probes ==
    /\ \A a \in Agents : todo[a] \subseteq Outbound
    /\ \A c \in calls : c.what = "probe" /\ c.by = "loop" => helloAge[c.key] # None

LEMMA ProbesSame ==
    ASSUME Probes, calls' \subseteq calls, todo' = todo, helloAge' = helloAge
    PROVE  Probes'
BY DEF Probes

LEMMA LoopProbes ==
    ASSUME TInv, Probes, NEW a \in Agents, Start(a) \/ LoopStep(a)
    PROVE  Probes'
<1>1. CASE Start(a)
  BY <1>1, ProbesSame DEF Start, tableVars, loopVars, netVars
<1>2. CASE SendHellos(a)
  BY <1>2 DEF SendHellos, Probes, Hello, tableVars
<1>3. CASE CheckHoldTimers(a)
  <2>1. \A b \in Agents : todo'[b] \subseteq Outbound
    BY <1>3 DEF CheckHoldTimers, Probes, TInv, Loops
  <2> QED BY <1>3, <2>1 DEF CheckHoldTimers, Probes, netVars
<1>4. CASE PublishPending(a)
  BY <1>4, ProbesSame DEF PublishPending, netVars
<1>5. ASSUME NEW k \in Table(a), VisitLink(k) PROVE Probes'
  <2>0. k \in Keys /\ Owner[k] = a
    BY DEF Table
  <2>1. /\ k \in todo[a]
        /\ todo' = [todo EXCEPT ![a] = @ \ {k}]
        /\ calls' = calls \cup (IF WantsProbe(k) THEN {Probe(k, "loop")} ELSE {})
        /\ helloAge' = helloAge
    BY <1>5, <2>0 DEF VisitLink, tableVars
  <2>2. \A b \in Agents : todo'[b] \subseteq Outbound
    BY <2>1 DEF Probes, TInv, Loops
  <2>3. WantsProbe(k) => helloAge[k] # None
    BY <2>0, <2>1 DEF WantsProbe, Probes, TInv, Entries, EntryOK
  <2> QED BY <2>1, <2>2, <2>3 DEF Probes, Probe
<1> QED BY <1>1, <1>2, <1>3, <1>4, <1>5 DEF LoopStep

LEMMA ServesProbes ==
    ASSUME TInv, Probes, NEW r \in RequestType, ServeStep(r)
    PROVE  Probes'
<1>1. todo' = todo /\ Received(r)
  BY DEF ServeStep, ServeHello, ServeProbe, loopVars
<1>2. ASSUME NEW k \in Keys, helloAge[k] # None PROVE helloAge'[k] # None
  <2>1. CASE ServeHello(r)
    <3>1. helloAge'[k] = 0 \/ helloAge'[k] = helloAge[k]
      BY <2>1 DEF ServeHello
    <3> QED BY <3>1, <1>2, AgeFacts
  <2>2. CASE ServeProbe(r)
    BY <2>2, <1>2 DEF ServeProbe, tableVars
  <2> QED BY <2>1, <2>2 DEF ServeStep
<1>3. ASSUME NEW c \in calls', c.what = "probe", c.by = "loop"
      PROVE  helloAge'[c.key] # None
  <2>1. PICK d \in calls : d.what = c.what /\ d.by = c.by /\ d.key = c.key
    <3>1. CASE c \in calls
      BY <3>1
    <3>2. CASE c \notin calls
      <4>1. PICK d \in calls : c = [d EXCEPT !.answered = TRUE]
        BY <1>1, <3>2 DEF Received
      <4>2. d \in CallType
        BY DEF TInv, Messages
      <4> QED BY <4>1, <4>2 DEF CallType
    <3> QED BY <3>1, <3>2
  <2>2. d.key \in Keys
    BY DEF TInv, Messages, CallType
  <2> QED BY <2>1, <2>2, <1>2, <1>3 DEF Probes
<1> QED BY <1>1, <1>3 DEF Probes

LEMMA StepProbes ==
    ASSUME TInv, Probes, [Next]_vars
    PROVE  Probes'
<1>1. CASE UNCHANGED vars
  BY <1>1, ProbesSame DEF vars, tableVars, loopVars, netVars
<1>2. CASE Tick
  <2>1. \A k \in Keys : helloAge'[k] = None <=> helloAge[k] = None
    BY <1>2, AgeFacts DEF Tick, TInv, Entries
  <2>2. \A c \in calls : c.key \in Keys
    BY DEF TInv, Messages, CallType
  <2> QED BY <1>2, <2>1, <2>2 DEF Tick, Probes, netVars
<1>3. ASSUME NEW a \in Agents,
             \/ ChangeSpec(a) \/ Restart(a)
             \/ \E n \in HoldTimes : SetHoldTime(a, n)
      PROVE  Probes'
  BY <1>3, ProbesSame
     DEF ChangeSpec, Restart, SetHoldTime, tableVars, loopVars, netVars
<1>4. ASSUME NEW a \in Agents, Start(a) \/ LoopStep(a) PROVE Probes'
  BY <1>4, LoopProbes
<1>5. ASSUME NEW a \in Agents, Crash(a) PROVE Probes'
  <2>1. /\ todo' = [todo EXCEPT ![a] = {}]
        /\ calls' = calls \ {c \in calls : Owner[c.key] = a}
        /\ helloAge' = [k \in Keys |-> IF Owner[k] = a THEN None ELSE helloAge[k]]
    BY <1>5 DEF Crash
  <2>2. \A c \in calls : c.key \in Keys
    BY DEF TInv, Messages, CallType
  <2>3. \A b \in Agents : todo'[b] \subseteq Outbound
    BY <2>1 DEF Probes, TInv, Loops
  <2> QED BY <2>1, <2>2, <2>3 DEF Probes
<1>6. ASSUME NEW c \in calls, AnswerStep(c) PROVE Probes'
  BY <1>6, ProbesSame
     DEF AnswerStep, HelloAnswered, ProbeAnswered, CallFails, tableVars, loopVars
<1>7. ASSUME NEW r \in {RequestOf(c) : c \in calls} \cup late, ServeStep(r)
      PROVE  Probes'
  <2>1. r \in RequestType
    BY RequestsTyped DEF TInv, Messages
  <2> QED BY <2>1, <1>7, ServesProbes
<1>8. ASSUME NEW k \in Steered, Connect(k) \/ Disconnect(k) \/ ManualProbe(k)
      PROVE  Probes'
  BY <1>8 DEF Connect, Disconnect, ManualProbe, Hello, Probe, Probes,
              tableVars, loopVars, netVars
<1> QED BY <1>1, <1>2, <1>3, <1>4, <1>5, <1>6, <1>7, <1>8 DEF Next

\* Nothing but the answer to a probe takes a link to QUANTUM_UP, and nothing takes
\* away the times of one that stays there.
LEMMA QuantumKept ==
    ASSUME TInv, [Next]_vars, NEW k \in Keys, state'[k] = "QUANTUM_UP",
           ~ \E c \in calls : c.key = k /\ ProbeAnswered(c)
    PROVE  /\ state[k] = "QUANTUM_UP"
           /\ Elapsed(k) # None => Elapsed(k)' # None
<1> DEFINE Kept == state[k] = "QUANTUM_UP" /\ (Elapsed(k) # None => Elapsed(k)' # None)
<1> SUFFICES Kept
  OBVIOUS
<1>0. ASSUME state'[k] = state[k], initAge'[k] = initAge[k], helloAge'[k] = helloAge[k]
      PROVE  Kept
  BY <1>0 DEF Elapsed
<1> HIDE DEF Kept
<1>1. CASE UNCHANGED vars
  BY <1>1, <1>0 DEF vars, tableVars
<1>2. CASE Tick
  <2>1. /\ state' = state
        /\ initAge'[k] = None <=> initAge[k] = None
        /\ helloAge'[k] = None <=> helloAge[k] = None
    BY <1>2, AgeFacts DEF Tick, TInv, Entries
  <2> QED BY <2>1 DEF Kept, Elapsed
<1>3. ASSUME NEW a \in Agents,
             \/ ChangeSpec(a) \/ Restart(a)
             \/ \E n \in HoldTimes : SetHoldTime(a, n)
      PROVE  Kept
  BY <1>3, <1>0 DEF ChangeSpec, Restart, SetHoldTime, tableVars
<1>4. ASSUME NEW a \in Agents, Start(a) \/ LoopStep(a) PROVE Kept
  <2>1. CASE Start(a)
    BY <2>1, <1>0 DEF Start, tableVars
  <2>2. CASE SendHellos(a)
    BY <2>2, <1>0 DEF SendHellos, tableVars
  <2>3. CASE CheckHoldTimers(a)
    <3>1. /\ state' = [n \in Keys |-> IF n \in Expired(a) THEN "DOWN" ELSE state[n]]
          /\ initAge' = Untimed(Expired(a)) /\ helloAge' = helloAge
      BY <2>3 DEF CheckHoldTimers
    <3>2. k \notin Expired(a)
      BY <3>1
    <3> QED BY <3>1, <3>2, <1>0 DEF Untimed
  <2>4. CASE PublishPending(a)
    BY <2>4, <1>0 DEF PublishPending
  <2>5. ASSUME NEW n \in Table(a), VisitLink(n) PROVE Kept
    BY <2>5, <1>0 DEF VisitLink, tableVars
  <2> QED BY <1>4, <2>1, <2>2, <2>3, <2>4, <2>5 DEF LoopStep
<1>5. ASSUME NEW a \in Agents, Crash(a) PROVE Kept
  <2>1. /\ state' = [n \in Keys |-> IF Owner[n] = a THEN "DOWN" ELSE state[n]]
        /\ initAge' = [n \in Keys |-> IF Owner[n] = a THEN None ELSE initAge[n]]
        /\ helloAge' = [n \in Keys |-> IF Owner[n] = a THEN None ELSE helloAge[n]]
    BY <1>5 DEF Crash
  <2>2. Owner[k] # a
    BY <2>1
  <2> QED BY <2>1, <2>2, <1>0
<1>6. ASSUME NEW c \in calls, AnswerStep(c) PROVE Kept
  <2>1. CASE HelloAnswered(c)
    <3>1. /\ \/ /\ state' = [state EXCEPT ![c.key] = "INIT"]
                /\ initAge' = [initAge EXCEPT ![c.key] = 0]
             \/ UNCHANGED <<state, initAge>>
          /\ helloAge' = helloAge
      BY <2>1 DEF HelloAnswered
    <3> QED BY <3>1, <1>0 DEF TInv, Entries
  <2>2. CASE ProbeAnswered(c)
    <3>1. c.key # k
      BY <2>2
    <3> QED BY <2>2, <3>1, <1>0 DEF ProbeAnswered, TInv, Entries
  <2>3. CASE CallFails(c)
    BY <2>3, <1>0 DEF CallFails, tableVars
  <2> QED BY <1>6, <2>1, <2>2, <2>3 DEF AnswerStep
<1>7. ASSUME NEW r, ServeStep(r) PROVE Kept
  <2>1. CASE ServeProbe(r)
    BY <2>1, <1>0 DEF ServeProbe, tableVars
  <2>2. CASE ServeHello(r)
    <3>1. PICK mine \in SUBSET Keys, up \in SUBSET Keys :
              /\ helloAge' = [n \in Keys |-> IF n \in mine THEN 0 ELSE helloAge[n]]
              /\ state' = [n \in Keys |-> IF n \in up THEN "CONTROL_UP" ELSE state[n]]
              /\ initAge' = Untimed(up)
      BY <2>2 DEF ServeHello, Table
    <3>2. k \notin up
      BY <3>1
    <3>3. /\ state'[k] = state[k] /\ initAge'[k] = initAge[k]
          /\ helloAge'[k] = 0 \/ helloAge'[k] = helloAge[k]
      BY <3>1, <3>2 DEF Untimed
    <3> QED BY <3>3, AgeFacts DEF Kept, Elapsed
  <2> QED BY <1>7, <2>1, <2>2 DEF ServeStep
<1>8. ASSUME NEW n \in Steered, Connect(n) \/ Disconnect(n) \/ ManualProbe(n)
      PROVE  Kept
  <2>1. CASE Connect(n)
    <3>1. /\ \/ /\ state' = [state EXCEPT ![n] = "INIT"]
                /\ initAge' = [initAge EXCEPT ![n] = 0]
             \/ UNCHANGED <<state, initAge>>
          /\ helloAge' = helloAge
      BY <2>1 DEF Connect
    <3> QED BY <3>1, <1>0 DEF TInv, Entries
  <2>2. CASE Disconnect(n)
    <3>1. /\ state' = [state EXCEPT ![n] = "DOWN"]
          /\ initAge' = Untimed({n}) /\ helloAge' = helloAge
      BY <2>2 DEF Disconnect
    <3>2. k # n
      BY <3>1 DEF TInv, Entries
    <3> QED BY <3>1, <3>2, <1>0 DEF TInv, Entries, Untimed
  <2>3. CASE ManualProbe(n)
    BY <2>3, <1>0 DEF ManualProbe, tableVars
  <2> QED BY <1>8, <2>1, <2>2, <2>3
<1> QED BY <1>1, <1>2, <1>3, <1>4, <1>5, <1>6, <1>7, <1>8 DEF Next

\* Such a link has lost its times, or never had any, in a step that answered a
\* probe by hand of a link that was DOWN.
LEMMA TimelessByHand ==
    ASSUME TInv, TInv', Probes, [Next]_vars,
           NEW k \in Outbound, ~ Timeless(k), Timeless(k)'
    PROVE  /\ state[k] = "DOWN"
           /\ \E c \in calls \ calls' :
                 c.key = k /\ c.what = "probe" /\ c.by = "manual"
<1>0. k \in Keys
  BY AgentAssumption
<1>1. state'[k] = "QUANTUM_UP" /\ Elapsed(k)' = None
  BY <1>0 DEF Timeless, Elapsed, TInv, Entries, EntryOK, States
<1>2. PICK c \in calls : c.key = k /\ ProbeAnswered(c)
  BY <1>0, <1>1, QuantumKept DEF Timeless
<1>3. /\ c.what = "probe" /\ c \notin calls'
      /\ UNCHANGED <<initAge, helloAge>>
  BY <1>2 DEF ProbeAnswered
<1>4. Elapsed(k) = None
  BY <1>1, <1>3 DEF Elapsed
<1>5. helloAge[k] = None
  BY <1>4 DEF Elapsed
<1>6. state[k] = "DOWN"
  BY <1>4 DEF Timeless
<1>7. c.by = "manual"
  BY <1>2, <1>3, <1>5 DEF Probes, TInv, Messages, CallType
<1> QED BY <1>2, <1>3, <1>6, <1>7

\* An outbound link is left open without a time only where a probe by hand of a
\* link that is DOWN is answered: no probe of the loop, hello, late answer,
\* command, crash or passing of time does it, for any agents and channels.
THEOREM OnlyHandsUntime == Spec => OpenLinksAreTimed
<1>1. Init => Probes
  BY DEF Init, Probes
<1>2. TInv /\ Probes /\ [Next]_vars => Probes'
  BY StepProbes
<1> DEFINE ByHand ==
      \A k \in Outbound :
          ~ Timeless(k) /\ Timeless(k)' =>
              /\ state[k] = "DOWN"
              /\ \E c \in calls \ calls' :
                    c.key = k /\ c.what = "probe" /\ c.by = "manual"
<1>3. TInv /\ TInv' /\ Probes /\ [Next]_vars => [ByHand]_vars
  BY TimelessByHand
<1>4. Spec => [][ByHand]_vars
  BY <1>1, <1>2, <1>3, TypesInvariant, PTL DEF Spec
<1> QED BY <1>4 DEF OpenLinksAreTimed
=============================================================================
