---------------------------- MODULE AgentShells ----------------------------
(***************************************************************************)
(* The agent's process with both of its shells: the one on its terminal    *)
(* (service/repl.py), whose command set changes the link settings from the *)
(* main thread, and a remote session (service/remote_repl.py) that calls   *)
(* link.control (hal/interpreter/link.py), served on the agent's loop.     *)
(*                                                                         *)
(* What connect, disconnect and probe do to a link is in LinkAdjacency;    *)
(* here they take time and answer.                                         *)
(***************************************************************************)
EXTENDS AgentProcess

CONSTANTS
    Inputs,     \* [do, known]: requests the user of the session may type
    HoldTimes,  \* values given to "hold-time"
    Default     \* the hold time of the configuration

VARIABLES
    session,    \* where the remote session is
    inbox,      \* link.control requests on their way to the agent
    serving,    \* those the agent serves and that await something
    half,       \* the remote set that has not reached the table yet, if any
    answer,     \* the answer on its way to the session
    hold,       \* hold_time of the link manager and of the table's entries
    chosen,     \* the value of the local set under way
    torn,       \* the last set began while another was under way
    asked       \* requests of the session so far

sessionVars == <<session, inbox, serving, half, answer, asked>>
holdVars == <<hold, chosen, torn>>
shellsVars == <<vars, sessionVars, holdVars>>

\* known: the link or the parameter that the request names exists.
Actions == {"show", "show_detail", "connect", "disconnect", "probe", "set",
            "switch_check"}
Requests == [do : Actions, known : BOOLEAN, value : HoldTimes, live : BOOLEAN]

ASSUME ShellsAssumption ==
    /\ Inputs \subseteq [do : Actions, known : BOOLEAN] /\ Default \in HoldTimes
    /\ \A s \in Setups : s.requests \in Nat

ShellsTypeOK ==
    /\ TypeOK
    /\ session \in {"connect", "greet", "prompt", "call", "over"}
    /\ inbox \in Seq(Requests) /\ serving \subseteq Requests
    /\ half \subseteq Requests
    /\ answer \in {"none", "ok", "error"}
    /\ hold \in [manager : HoldTimes, entries : HoldTimes]
    /\ chosen \in HoldTimes /\ torn \in BOOLEAN
    /\ asked \in 0 .. setup.requests

ShellsInit ==
    /\ Init
    /\ session = "connect" /\ inbox = <<>> /\ serving = {} /\ half = {}
    /\ answer = "none" /\ asked = 0
    /\ chosen = Default /\ hold = [manager |-> Default, entries |-> Default]
    /\ torn = FALSE

-----------------------------------------------------------------------------
(* set in the main thread *)

LocalSet ==
    /\ TypeSet
    /\ \E n \in HoldTimes : chosen' = n /\ hold' = [hold EXCEPT !.manager = n]
    /\ torn' = (half # {})
    /\ UNCHANGED sessionVars

\* Fault: the entries keep their own hold time.
LocalSetReturnsEarly == SetReturns /\ UNCHANGED <<sessionVars, holdVars>>

LocalSetReturns ==
    /\ SetReturns
    /\ hold' = [hold EXCEPT !.entries = chosen]
    /\ UNCHANGED <<sessionVars, chosen, torn>>

\* An interrupted set leaves its half.
OtherStep ==
    /\ Next /\ ~TypeSet /\ ~SetReturns
    /\ torn' = (torn \/ (main = "set" /\ main' # "set"))
    /\ UNCHANGED <<sessionVars, hold, chosen>>

-----------------------------------------------------------------------------
(* The remote session *)

Send(r) ==
    /\ asked < setup.requests /\ asked' = asked + 1
    /\ inbox' = Append(inbox, r)
Live(do, known, n) == [do |-> do, known |-> known, value |-> n, live |-> TRUE]

\* The first request fetches the neighbours.
SessionConnects ==
    /\ session = "connect" /\ session' = "greet"
    /\ Send(Live("show", TRUE, Default))
    /\ UNCHANGED <<vars, serving, half, answer, holdVars>>

SessionAsks ==
    /\ session = "prompt" /\ session' = "call"
    /\ \E i \in Inputs : \E n \in HoldTimes :
           /\ i.do # "set" => n = Default
           /\ Send(Live(i.do, i.known, n))
    /\ UNCHANGED <<vars, serving, half, answer, holdVars>>

SessionAnswered ==
    /\ session \in {"greet", "call"} /\ answer # "none"
    /\ session' = "prompt" /\ answer' = "none"
    /\ UNCHANGED <<vars, inbox, serving, half, asked, holdVars>>

\* Nobody waits any more for what is under way; it takes effect all the same.
Orphan(r) == [r EXCEPT !.live = FALSE]
AllOrphaned ==
    /\ inbox' = [i \in DOMAIN inbox |-> Orphan(inbox[i])]
    /\ serving' = {Orphan(r) : r \in serving}
    /\ half' = {Orphan(r) : r \in half}
    /\ answer' = "none"

\* Fault: the first request has no timeout.
CallTimesOut ==
    /\ session = "call" /\ answer = "none"
    /\ session' = "prompt" /\ AllOrphaned
    /\ UNCHANGED <<vars, asked, holdVars>>

\* _call_control gives up after 10 seconds.
SessionTimesOut ==
    /\ session \in {"greet", "call"} /\ answer = "none"
    /\ session' = "prompt" /\ AllOrphaned
    /\ UNCHANGED <<vars, asked, holdVars>>

\* monitor calls run_until_complete inside the running loop: it fails, and takes
\* the session with it.
SessionMonitors ==
    /\ session = "prompt" /\ session' = "over" /\ AllOrphaned
    /\ UNCHANGED <<vars, asked, holdVars>>

\* exit, the end of the input, or Ctrl+C at any moment.
SessionEnds ==
    /\ session \in {"greet", "prompt", "call"} /\ session' = "over" /\ AllOrphaned
    /\ UNCHANGED <<vars, asked, holdVars>>

-----------------------------------------------------------------------------
(* handle_control on the agent's loop *)

\* The loop's thread is not between the two writes of a set.
Free == Turning /\ loop # "server" /\ half = {}

\* Unknown links are refused by show_detail and probe, not by connect and
\* disconnect; no entry has a switch in its path.
Status(r) ==
    IF r.do = "switch_check" \/ (~r.known /\ r.do \in {"show_detail", "probe", "set"})
    THEN "error" ELSE "ok"

Reply(r) == answer' = IF r.live THEN Status(r) ELSE answer

\* A hello or a probe is sent and awaited.
Awaits(r) == r.known /\ r.do \in {"connect", "probe"}

ServeAtOnce ==
    /\ Free /\ inbox # <<>>
    /\ LET r == Head(inbox)
       IN  ~Awaits(r) /\ ~(r.do = "set" /\ r.known) /\ Reply(r)
    /\ inbox' = Tail(inbox)
    /\ UNCHANGED <<vars, session, asked, serving, half, holdVars>>

ServeLink ==
    /\ Free /\ inbox # <<>> /\ Awaits(Head(inbox))
    /\ inbox' = Tail(inbox) /\ serving' = serving \cup {Head(inbox)}
    /\ UNCHANGED <<vars, session, asked, half, answer, holdVars>>

LinkServed ==
    /\ Free
    /\ \E r \in serving : serving' = serving \ {r} /\ Reply(r)
    /\ UNCHANGED <<vars, session, asked, inbox, half, holdVars>>

\* set_hold_time: the manager, then the entries; the main thread may run
\* between the two.
RemoteSet ==
    /\ Free /\ inbox # <<>> /\ Head(inbox).do = "set" /\ Head(inbox).known
    /\ inbox' = Tail(inbox) /\ half' = {Head(inbox)}
    /\ hold' = [hold EXCEPT !.manager = Head(inbox).value]
    /\ torn' = (main = "set")
    /\ UNCHANGED <<vars, session, asked, serving, answer, chosen>>

RemoteSetReturns ==
    /\ Turning
    /\ \E r \in half : hold' = [hold EXCEPT !.entries = r.value] /\ Reply(r)
    /\ half' = {}
    /\ UNCHANGED <<vars, session, asked, inbox, serving, chosen, torn>>

\* Without a subscriber the broker drops the request; a process that ends
\* takes with it what it serves.
Unserved ==
    /\ ~Turning \/ loop = "server"
    /\ inbox # <<>> \/ serving # {} \/ half # {}
    /\ inbox' = <<>> /\ serving' = {} /\ half' = {}
    /\ torn' = (torn \/ half # {})
    /\ UNCHANGED <<vars, session, asked, answer, hold, chosen>>

-----------------------------------------------------------------------------
Handler == ServeAtOnce \/ ServeLink \/ LinkServed \/ RemoteSet \/ RemoteSetReturns

ShellsNext ==
    \/ LocalSet \/ LocalSetReturns \/ OtherStep
    \/ SessionConnects \/ SessionAsks \/ SessionAnswered \/ SessionTimesOut
    \/ SessionMonitors \/ SessionEnds \/ Handler \/ Unserved

ShellsSpec ==
    /\ ShellsInit /\ [][ShellsNext]_shellsVars
    /\ Fairness
    /\ WF_shellsVars(SessionAnswered \/ SessionTimesOut)

-----------------------------------------------------------------------------
(* Properties *)

\* When no set is under way the link manager and its table agree on the hold
\* time, whether it was last set on the terminal, remotely or by a request the
\* session had given up; unless two sets overlapped in the two threads, or the
\* last one was cut off.
SettingsAgree ==
    (main # "set" /\ half = {} /\ ~torn) => hold.manager = hold.entries

\* A prompt comes back: that on the terminal after every command, or the process
\* ends, also when the loop has ended meanwhile; the remote one with an answer or
\* the error of a timeout, whatever happens to the agent.
PromptsReturn ==
    /\ PromptReturns
    /\ (session \in {"greet", "call"}) ~> (session \in {"prompt", "over"})
=============================================================================
