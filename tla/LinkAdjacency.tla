--------------------------- MODULE LinkAdjacency ---------------------------
(***************************************************************************)
(* The link state tables of several agents, the hello loop of each         *)
(* (service/link_adjacency.py), the handlers of hellos and probes and the  *)
(* manual commands (hal/interpreter/link.py).                              *)
(*                                                                         *)
(* Agents call each other over a broker.  A call ends with an answer or    *)
(* with an exception; whether the request has reached the other side by    *)
(* then is open, it may never do so or do so later.                        *)
(*                                                                         *)
(* Time is kept as ages: the time since the last hello and since INIT was  *)
(* entered.  Ages above every hold time are not told apart.                *)
(***************************************************************************)
EXTENDS Integers, FiniteSets

CONSTANTS
    Agents,
    Keys,           \* entries of the link state tables of all agents
    Owner,          \* the agent in whose table an entry is
    Neighbor,       \* entry.neighbor_cid
    Outbound,       \* entries with direction "out"
    Quantum,        \* entries with is_quantum
    None,
    HelloInterval,  \* hello_interval, in ticks
    HoldTimes,      \* values of hold_time, in ticks
    Manual,         \* the actions of link.control that operators use
    Steered,        \* the entries they use them on
    Unsteady,       \* agents that may leave their specification
    Mortal,         \* agents that may crash and restart
    Reports,        \* whether the reports of an agent go out: always ({TRUE}),
                    \* never ({FALSE}), or either at each
    Prompt,         \* environment: no message is lost or takes a tick
    MaxLate         \* bound: requests of ended calls on their way

ASSUME AgentAssumption ==
    /\ Owner \in [Keys -> Agents] /\ Neighbor \in [Keys -> Agents]
    /\ \A k \in Keys : Owner[k] # Neighbor[k]
    /\ Outbound \subseteq Keys /\ Quantum \subseteq Keys /\ Steered \subseteq Keys
    /\ Unsteady \subseteq Agents /\ Mortal \subseteq Agents
    /\ Reports \in [Agents -> (SUBSET BOOLEAN) \ {{}}]
ASSUME HoldAssumption ==
    /\ HelloInterval \in Nat
    /\ HoldTimes \subseteq Nat /\ HoldTimes # {}
    /\ \E n \in HoldTimes : \A m \in HoldTimes : m <= n
    /\ None \notin Nat
ASSUME ModeAssumption ==
    /\ Manual \subseteq {"connect", "disconnect", "probe", "set"}
    /\ Prompt \in BOOLEAN /\ MaxLate \in Nat

VARIABLES
    state,      \* entry.state
    initAge,    \* now - entry.init_since, or None
    helloAge,   \* now - entry.last_neighbor_hello, or None
    published,  \* entry.last_published_state: the last report that went out
    heard,      \* neighbours with an entry whose last_hello_received is set
    hold,       \* hold_time of an agent and of all its entries
    started,    \* agents that have registered: is_started of the link manager
    pc,         \* the hello loop of an agent: "sleep", "hello" or "probe"
    sleep,      \* ticks until its sleep ends
    todo,       \* entries its probe loop has still to visit
    calls,      \* RPCs under way
    late,       \* requests of ended calls that may still arrive
    inSpec,     \* agents whose calibration DAG is in specification
    alive       \* agents whose process runs

tableVars == <<state, initAge, helloAge, published, heard>>
loopVars == <<pc, sleep, todo>>
netVars == <<calls, late>>
envVars == <<inSpec, alive, started>>
vars == <<tableVars, loopVars, netVars, envVars, hold>>

-----------------------------------------------------------------------------
States == {"DOWN", "INIT", "CONTROL_UP", "QUANTUM_UP"}

\* A call: for which entry, link.hello or link.probe, from the hello loop or by
\* hand, whether seen_neighbors names the neighbour, and whether it is answered.
CallType == [key : Keys, what : {"hello", "probe"}, by : {"loop", "manual"},
             seen : BOOLEAN, answered : BOOLEAN]
RequestType == [key : Keys, what : {"hello", "probe"}, seen : BOOLEAN]

\* Ages from here on mean the same.
MaxAge == 1 + CHOOSE n \in HoldTimes : \A m \in HoldTimes : m <= n

Table(a) == {k \in Keys : Owner[k] = a}

\* seen_neighbors holds a key of the neighbour of k: it has been heard.
Hello(k, by) == [key |-> k, what |-> "hello", by |-> by,
                 seen |-> Neighbor[k] \in heard[Owner[k]], answered |-> FALSE]
Probe(k, by) == [key |-> k, what |-> "probe", by |-> by,
                 seen |-> FALSE, answered |-> FALSE]
RequestOf(c) == [key |-> c.key, what |-> c.what, seen |-> c.seen]

LoopCalls(a) == {c \in calls : c.by = "loop" /\ Owner[c.key] = a}

\* The event loop of a is free: its hello loop sleeps or awaits calls.
Idle(a) == a \in alive /\ (pc[a] \in {"sleep", "hello"} \/ LoopCalls(a) # {})

Init ==
    /\ state = [k \in Keys |-> "DOWN"]
    /\ initAge = [k \in Keys |-> None]
    /\ helloAge = [k \in Keys |-> None]
    /\ published = [k \in Keys |-> None]
    /\ heard = [a \in Agents |-> {}]
    /\ hold \in [Agents -> HoldTimes]
    /\ started = {}
    /\ pc = [a \in Agents |-> "sleep"]
    /\ sleep = [a \in Agents |-> 0]
    /\ todo = [a \in Agents |-> {}]
    /\ calls = {} /\ late = {}
    /\ inSpec = Agents
    /\ alive = Agents

\* Calls of C have ended: the requests not served yet are lost or, some of them,
\* still on their way.
Abandon(C) ==
    \E L \in SUBSET {RequestOf(c) : c \in {m \in C : ~ m.answered}} :
        /\ Cardinality(late \cup L) <= MaxLate
        /\ late' = late \cup L

-----------------------------------------------------------------------------
(* The hello loop *)

\* The agent has registered with the controller.
Start(a) ==
    /\ a \in alive \ started
    /\ started' = started \cup {a}
    /\ UNCHANGED <<tableVars, loopVars, netVars, inSpec, alive, hold>>

\* Hellos to all neighbours go out together.
SendHellos(a) ==
    /\ a \in alive \cap started
    /\ pc[a] = "sleep" /\ sleep[a] = 0
    /\ calls' = calls \cup {Hello(k, "loop") : k \in Table(a) \cap Outbound}
    /\ pc' = [pc EXCEPT ![a] = "hello"]
    /\ UNCHANGED <<tableVars, sleep, todo, late, envVars, hold>>

\* Fault: an answer reopens a link that is up.
Reopens(k) == state[k] # "QUANTUM_UP"

\* Only a link that is DOWN enters INIT.
Opens(k) == state[k] = "DOWN"

\* The neighbour answered, whatever it answered.
HelloAnswered(c) ==
    /\ c \in calls /\ c.what = "hello" /\ c.answered
    /\ Idle(Owner[c.key])
    /\ calls' = calls \ {c}
    /\ IF Opens(c.key)
       THEN /\ state' = [state EXCEPT ![c.key] = "INIT"]
            /\ initAge' = [initAge EXCEPT ![c.key] = 0]
       ELSE UNCHANGED <<state, initAge>>
    /\ UNCHANGED <<helloAge, published, heard, loopVars, late, envVars, hold>>

\* Fault: a link that has never heard its neighbour is not timed.
HelloTimerOnly(k) == helloAge[k]

\* The time since the last hello, or else since INIT was entered.
Elapsed(k) == IF helloAge[k] # None THEN helloAge[k] ELSE initAge[k]

Expired(a) == {k \in Table(a) \cap Outbound :
                  /\ state[k] # "DOWN"
                  /\ Elapsed(k) # None
                  /\ Elapsed(k) > hold[a]}

\* _publish_state_update for the links in K, in the states they are now in.  A
\* report that raises leaves last_published_state as it is.
Publish(K) ==
    \E sent \in SUBSET K :
        /\ \A k \in K : (k \in sent) \in Reports[Owner[k]]
        /\ published' = [k \in Keys |-> IF k \in sent THEN state'[k]
                                       ELSE published[k]]

\* Fault: init_since is kept.
StillTimed(K) == initAge

\* The links in K are no longer in INIT: init_since is cleared.
Untimed(K) == [k \in Keys |-> IF k \in K THEN None ELSE initAge[k]]

\* Every call of the hello round has ended: expired links go DOWN, and unless
\* the agent is out of specification the probe loop begins.
CheckHoldTimers(a) ==
    /\ a \in alive
    /\ pc[a] = "hello" /\ LoopCalls(a) = {}
    /\ state' = [k \in Keys |-> IF k \in Expired(a) THEN "DOWN" ELSE state[k]]
    /\ initAge' = Untimed(Expired(a))
    /\ Publish(Expired(a))
    /\ todo' = [todo EXCEPT ![a] = IF a \in inSpec THEN Table(a) \cap Outbound
                                   ELSE {}]
    /\ pc' = [pc EXCEPT ![a] = "probe"]
    /\ UNCHANGED <<helloAge, heard, sleep, netVars, envVars, hold>>

\* Fault: the test of is_quantum is the wrong way round.
WantsClassicalProbe(k) == state[k] = "CONTROL_UP" /\ k \notin Quantum

\* Fault: the loop probes a quantum link in any state.
WantsAnyProbe(k) == k \in Quantum

\* Only quantum links that are CONTROL_UP are probed.
WantsProbe(k) == state[k] = "CONTROL_UP" /\ k \in Quantum

\* The next entry of the probe loop.
VisitLink(k) ==
    LET a == Owner[k]
    IN  /\ a \in alive
        /\ pc[a] = "probe" /\ LoopCalls(a) = {}
        /\ k \in todo[a]
        /\ todo' = [todo EXCEPT ![a] = @ \ {k}]
        /\ calls' = calls \cup (IF WantsProbe(k) THEN {Probe(k, "loop")} ELSE {})
        /\ UNCHANGED <<tableVars, pc, sleep, late, envVars, hold>>

\* The probe passed: QUANTUM_UP, whatever the state has become meanwhile.
ProbeAnswered(c) ==
    /\ c \in calls /\ c.what = "probe" /\ c.answered
    /\ Idle(Owner[c.key])
    /\ calls' = calls \ {c}
    /\ state' = [state EXCEPT ![c.key] = "QUANTUM_UP"]
    /\ Publish({c.key})
    /\ UNCHANGED <<initAge, helloAge, heard, loopVars, late, envVars, hold>>

\* Fault: a link that is DOWN counts as reported, which it was when it went down.
PendingUp(a) ==
    {k \in Table(a) \cap Outbound : state[k] # "DOWN" /\ state[k] # published[k]}

Pending(a) == {k \in Table(a) \cap Outbound : state[k] # published[k]}

\* Every state that has not been reported is, and the loop sleeps.
PublishPending(a) ==
    /\ a \in alive
    /\ pc[a] = "probe" /\ LoopCalls(a) = {} /\ todo[a] = {}
    /\ UNCHANGED state
    /\ Publish(Pending(a))
    /\ pc' = [pc EXCEPT ![a] = "sleep"]
    /\ sleep' = [sleep EXCEPT ![a] = HelloInterval]
    /\ UNCHANGED <<initAge, helloAge, heard, todo, netVars, envVars, hold>>

-----------------------------------------------------------------------------
(* Messages *)

\* A call ends with an exception.
CallFails(c) ==
    /\ c \in calls
    /\ Prompt => Neighbor[c.key] \notin alive
    /\ Idle(Owner[c.key])
    /\ calls' = calls \ {c}
    /\ Abandon({c})
    /\ UNCHANGED <<tableVars, loopVars, envVars, hold>>

\* Request r is served: an open call that it is of gets its answer.
Received(r) ==
    \/ \E c \in calls :
          /\ ~ c.answered /\ RequestOf(c) = r
          /\ calls' = (calls \ {c}) \cup {[c EXCEPT !.answered = TRUE]}
          /\ late' = late
    \/ r \in late /\ late' = late \ {r} /\ calls' = calls

\* Fault: every open link is confirmed, the neighbour may not have heard us.
ConfirmAll(r, k) == state[k] = "INIT"

\* Bilateral confirmation: an open link goes up if the sender has heard us.
Confirms(r, k) == r.seen /\ state[k] = "INIT"

\* handle_hello.  A neighbour without an entry is answered "unknown".
ServeHello(r) ==
    LET b == Neighbor[r.key]
        a == Owner[r.key]
        known == {k \in Table(b) : Neighbor[k] = a}
        mine == known \cap Outbound
        up == {k \in mine : Confirms(r, k)}
    IN  /\ r.what = "hello"
        /\ Idle(b)
        /\ Received(r)
        /\ heard' = [heard EXCEPT ![b] = IF known = {} THEN @ ELSE @ \cup {a}]
        /\ helloAge' = [k \in Keys |-> IF k \in mine THEN 0 ELSE helloAge[k]]
        /\ state' = [k \in Keys |-> IF k \in up THEN "CONTROL_UP" ELSE state[k]]
        /\ initAge' = Untimed(up)
        /\ UNCHANGED <<published, loopVars, envVars, hold>>

\* handle_probe
ServeProbe(r) ==
    /\ r.what = "probe"
    /\ Idle(Neighbor[r.key])
    /\ Received(r)
    /\ UNCHANGED <<tableVars, loopVars, envVars, hold>>

-----------------------------------------------------------------------------
(* link.control; at most one manual call per entry is under way (a bound).  *)

Connect(k) ==
    /\ "connect" \in Manual
    /\ Idle(Owner[k])
    /\ \A c \in calls : ~ (c.key = k /\ c.by = "manual")
    /\ IF Opens(k)
       THEN /\ state' = [state EXCEPT ![k] = "INIT"]
            /\ initAge' = [initAge EXCEPT ![k] = 0]
       ELSE UNCHANGED <<state, initAge>>
    /\ calls' = calls \cup (IF k \in Outbound THEN {Hello(k, "manual")} ELSE {})
    /\ UNCHANGED <<helloAge, published, heard, loopVars, late, envVars, hold>>

Disconnect(k) ==
    /\ "disconnect" \in Manual
    /\ Idle(Owner[k])
    /\ state' = [state EXCEPT ![k] = "DOWN"]
    /\ initAge' = Untimed({k})
    /\ Publish({k})
    /\ UNCHANGED <<helloAge, heard, loopVars, netVars, envVars, hold>>

\* A probe by hand, of any entry in any state.
ManualProbe(k) ==
    /\ "probe" \in Manual
    /\ Idle(Owner[k])
    /\ \A c \in calls : ~ (c.key = k /\ c.by = "manual")
    /\ calls' = calls \cup {Probe(k, "manual")}
    /\ UNCHANGED <<tableVars, loopVars, late, envVars, hold>>

SetHoldTime(a, n) ==
    /\ "set" \in Manual
    /\ Idle(a)
    /\ hold' = [hold EXCEPT ![a] = n]
    /\ UNCHANGED <<tableVars, loopVars, netVars, envVars>>

-----------------------------------------------------------------------------
(* The environment *)

\* The calibrations of the agent enter or leave specification.
ChangeSpec(a) ==
    /\ a \in Unsteady
    /\ inSpec' = IF a \in inSpec THEN inSpec \ {a} ELSE inSpec \cup {a}
    /\ UNCHANGED <<tableVars, loopVars, netVars, alive, started, hold>>

\* The process ends: its tables, its loop and its calls are gone.
Crash(a) ==
    LET mine == {c \in calls : Owner[c.key] = a}
    IN  /\ a \in Mortal \cap alive
        /\ alive' = alive \ {a}
        /\ started' = started \ {a}
        /\ state' = [k \in Keys |-> IF Owner[k] = a THEN "DOWN" ELSE state[k]]
        /\ initAge' = [k \in Keys |-> IF Owner[k] = a THEN None ELSE initAge[k]]
        /\ helloAge' = [k \in Keys |-> IF Owner[k] = a THEN None ELSE helloAge[k]]
        /\ published' = [k \in Keys |-> IF Owner[k] = a THEN None ELSE published[k]]
        /\ heard' = [heard EXCEPT ![a] = {}]
        /\ pc' = [pc EXCEPT ![a] = "sleep"]
        /\ sleep' = [sleep EXCEPT ![a] = 0]
        /\ todo' = [todo EXCEPT ![a] = {}]
        /\ calls' = calls \ mine
        /\ Abandon(mine)
        /\ UNCHANGED <<inSpec, hold>>

Restart(a) ==
    /\ a \in Agents \ alive
    /\ alive' = alive \cup {a}
    /\ \E n \in HoldTimes : hold' = [hold EXCEPT ![a] = n]
    /\ UNCHANGED <<tableVars, loopVars, netVars, inSpec, started>>

Older(age) == IF age = None \/ age = MaxAge THEN age ELSE age + 1

\* In a prompt environment time passes only when nothing else is to be done.
Quiet ==
    /\ calls = {} /\ \A r \in late : Neighbor[r.key] \notin alive
    /\ \A a \in alive : a \in started /\ pc[a] = "sleep" /\ sleep[a] > 0

Tick ==
    /\ Prompt => Quiet
    /\ initAge' = [k \in Keys |-> Older(initAge[k])]
    /\ helloAge' = [k \in Keys |-> Older(helloAge[k])]
    /\ sleep' = [a \in Agents |-> IF sleep[a] = 0 THEN 0 ELSE sleep[a] - 1]
    /\ UNCHANGED <<state, published, heard, pc, todo, netVars, envVars, hold>>

-----------------------------------------------------------------------------
LoopStep(a) ==
    \/ SendHellos(a) \/ CheckHoldTimers(a) \/ PublishPending(a)
    \/ \E k \in Table(a) : VisitLink(k)

AnswerStep(c) == HelloAnswered(c) \/ ProbeAnswered(c) \/ CallFails(c)

ServeStep(r) == ServeHello(r) \/ ServeProbe(r)

Next ==
    \/ Tick
    \/ \E a \in Agents :
          \/ Start(a) \/ LoopStep(a)
          \/ ChangeSpec(a) \/ Crash(a) \/ Restart(a)
          \/ \E n \in HoldTimes : SetHoldTime(a, n)
    \/ \E c \in calls : AnswerStep(c)
    \/ \E r \in {RequestOf(c) : c \in calls} \cup late : ServeStep(r)
    \/ \E k \in Steered : Connect(k) \/ Disconnect(k) \/ ManualProbe(k)

Spec == Init /\ [][Next]_vars

\* Event loops run, calls end, time passes, a running agent registers, and its
\* reports do not fail in every round for ever.  That a request is served is
\* assumed of a prompt environment only.
Fairness ==
    /\ WF_vars(Tick)
    /\ \A a \in Agents : WF_vars(Start(a)) /\ WF_vars(LoopStep(a))
    /\ \A a \in Agents : FALSE \in Reports[a] =>
          SF_vars(PublishPending(a) /\ Pending(a)' = {})
    /\ \A k \in Keys : WF_vars(\E c \in calls : c.key = k /\ AnswerStep(c))
    /\ Prompt => \A k \in Keys :
          WF_vars(\E r \in {RequestOf(c) : c \in calls} \cup late :
                     r.key = k /\ ServeStep(r))

FairSpec == Spec /\ Fairness

-----------------------------------------------------------------------------
(* Properties *)

AgeType == 0 .. MaxAge \cup {None}

\* The fields of the entries, the loops and the messages have their types;
\* init_since is set in INIT and neither before nor after, but for a link that a
\* probe by hand took out of INIT.
TypeOK ==
    /\ state \in [Keys -> States]
    /\ initAge \in [Keys -> AgeType] /\ helloAge \in [Keys -> AgeType]
    /\ published \in [Keys -> States \cup {None}]
    /\ \A k \in Keys : /\ state[k] = "INIT" => initAge[k] # None
                       /\ state[k] \in {"DOWN", "CONTROL_UP"} => initAge[k] = None
    /\ heard \in [Agents -> SUBSET Agents]
    /\ hold \in [Agents -> HoldTimes]
    /\ started \subseteq Agents /\ inSpec \subseteq Agents /\ alive \subseteq Agents
    /\ pc \in [Agents -> {"sleep", "hello", "probe"}]
    /\ sleep \in [Agents -> 0 .. HelloInterval]
    /\ todo \in [Agents -> SUBSET Keys]
    /\ calls \subseteq CallType /\ late \subseteq RequestType

\* "Check for bilateral confirmation" (link.py:192): a link is CONTROL_UP only if
\* its agent has heard the neighbour and the neighbour, unless it has restarted,
\* has heard the agent, through lost and late hellos and manual commands.
ControlUpIsMutual ==
    \A k \in Keys :
        state[k] = "CONTROL_UP" =>
            /\ Neighbor[k] \in heard[Owner[k]]
            /\ Neighbor[k] \in Mortal \/ Owner[k] \in heard[Neighbor[k]]

\* An outbound link that is not DOWN with neither of its times set.
Timeless(k) == state[k] # "DOWN" /\ Elapsed(k) = None

\* _check_hold_timers skips such a link for ever (link_adjacency.py:128): it stays
\* up in silence.  A link gets there in one way only: it is DOWN when a probe by
\* hand is answered.  No hello, connect, probe of the loop, late answer, crash or
\* passing of time makes a link timeless, from whatever state.
OpenLinksAreTimed ==
    [][\A k \in Outbound :
          ~ Timeless(k) /\ Timeless(k)' =>
              /\ state[k] = "DOWN"
              /\ \E c \in calls \ calls' :
                    c.key = k /\ c.what = "probe" /\ c.by = "manual"]_vars

\* The tables of all agents behave as LinkProtocol says.
Protocol == INSTANCE LinkProtocol WITH link <- state
ImplementsProtocol == Protocol!Spec

\* "False for classical channels (capped at CONTROL_UP)" (link_state_table.py:26)
\* and "Classical links should not transition to QUANTUM_UP even when probe
\* succeeds" (test_link_adjacency_manager.py:297).
ClassicalCapped ==
    \A k \in Keys \ Quantum : state[k] # "QUANTUM_UP"

\* A neighbour that has gone silent for good is noticed: its links go down,
\* through answers and hellos that were under way when it stopped.
SilenceIsNoticed ==
    \A k \in Outbound :
        Neighbor[k] \notin alive ~> state[k] = "DOWN" \/ Neighbor[k] \in alive

\* Once crashes and restarts have ended, what the controller was told of the links
\* catches up with what they are: a report that failed, of a link that went down
\* above all, is made again by the hello loop (link_adjacency.py:170), whatever the
\* neighbours do.
ReportsCatchUp ==
    <>[][FALSE]_alive =>
        <>[](\A k \in Outbound : Owner[k] \in alive => published[k] = state[k])

\* When all agents stay up, in specification and reach each other, the links
\* between agents with a channel each way come up and stay up, whatever restarts
\* and drifts there were before.
LinksComeUp ==
    <>[](alive = Agents /\ inSpec = Agents) =>
        <>[](\A k \in Outbound :
                state[k] = IF k \in Quantum THEN "QUANTUM_UP" ELSE "CONTROL_UP")
=============================================================================
