---------------------------- MODULE AgentProcess ----------------------------
(***************************************************************************)
(* The process of an agent from start-up to exit (service/agent.py), its   *)
(* registration with the controller (service/register.py), the start of    *)
(* the link manager (service/link_adjacency.py) and the shell on its       *)
(* terminal (service/repl.py).                                             *)
(*                                                                         *)
(* Two threads.  With a shell, the event loop runs in a thread of its own  *)
(* and the shell in the main thread; without one the loop is the main      *)
(* thread.  Coroutines of the loop interleave at their awaits.             *)
(*                                                                         *)
(* The controller serves the requests of the agent in the order they were  *)
(* sent; a request or its answer may be lost, and the call then ends with  *)
(* a timeout.                                                              *)
(***************************************************************************)
EXTENDS CommandRegistry

CONSTANTS
    Setups  \* [noRepl, devices, user]: configurations an agent is given; with
            \* the bounds of the run: signals and Ctrl+C from outside, faults
            \* (losses, timeouts and exceptions), requests of AgentShells

ASSUME ProcessAssumption ==
    \A s \in Setups : /\ s.noRepl \in BOOLEAN /\ s.signals \in Nat /\ s.faults \in Nat
                      /\ s.user \in Seq(UserInterpreters)

VARIABLES
    setup,       \* the configuration
    main,        \* where the main thread is
    console,     \* the root logger's handler: stdout's own, or the shell's
    interrupted, \* there was a Ctrl+C at the prompt (_last_sigint_time)
    coro,        \* the coroutine a shell command handed to the loop
    loop,        \* where startup and main_loop are
    ready,       \* _startup_done
    term,        \* calls of handle_exit waiting in the loop
    shouldExit,  \* should_exit
    exit,        \* handle_exit's call "deregister"
    client,      \* where Register.start is
    started,     \* Register.started
    registered,  \* Register.registered
    gate,        \* LinkAdjacencyManager.registered
    links,       \* where LinkAdjacencyManager.start is
    wire,        \* requests sent to the controller and not served
    replies,     \* answers on their way to calls still waiting
    listed,      \* the controller lists the agent
    early,       \* handle_exit ran before Register was connected
    lost,        \* a deregistration was lost
    signals, faults

shellVars == <<console, interrupted, coro>>
registerVars == <<client, started, registered>>
linkVars == <<gate, links>>
exitVars == <<shouldExit, exit, early>>
controllerVars == <<wire, replies, listed, lost>>
counters == <<signals, faults>>
vars == <<setup, main, shellVars, loop, ready, term, exitVars, registerVars,
          linkVars, controllerVars, counters>>

\* The shell is open: its log handler has taken the place of stdout's.
InShell == {"prompt", "command", "set", "monitor"}
Over == {"done", "dead"}

TypeOK ==
    /\ setup \in Setups
    /\ main \in {"wait", "run", "join", "abort"} \cup InShell \cup Over
    /\ console \in {"stdout", "hidden", "shown"}
    /\ main \in InShell <=> (console # "stdout" /\ main # "dead")
    /\ coro \in {"none", "queued", "running", "done"}
    /\ loop \in {"build", "server", "tasks", "main", "ended", "crashed"}
    /\ ready \in BOOLEAN /\ shouldExit \in BOOLEAN /\ interrupted \in BOOLEAN
    /\ exit \in {"none", "call", "done", "failed"}
    /\ client \in {"none", "connect", "call", "pause", "beating", "failed"}
    /\ started \in BOOLEAN /\ registered \in BOOLEAN /\ gate \in BOOLEAN
    /\ links \in {"none", "connect", "waiting", "running", "stopped", "failed"}
    /\ wire \in Seq({"register", "late", "deregister"})
    /\ replies \subseteq {"register", "deregister"}
    /\ listed \in BOOLEAN /\ early \in BOOLEAN /\ lost \in BOOLEAN
    /\ term \in Nat /\ signals \in 0 .. setup.signals /\ faults \in 0 .. setup.faults

Init ==
    /\ setup \in Setups
    /\ main = IF setup.noRepl THEN "run" ELSE "wait"
    /\ console = "stdout" /\ interrupted = FALSE /\ coro = "none"
    /\ loop = "build" /\ ready = FALSE /\ term = 0
    /\ shouldExit = FALSE /\ exit = "none" /\ early = FALSE
    /\ client = "none" /\ started = FALSE /\ registered = FALSE
    /\ gate = FALSE /\ links = "none"
    /\ wire = <<>> /\ replies = {} /\ listed = FALSE /\ lost = FALSE
    /\ signals = 0 /\ faults = 0

Up == main \notin Over

\* Coroutines run: from the first await of startup until serve returns.
Turning == Up /\ loop \in {"server", "tasks", "main"}

Fault == faults < setup.faults /\ faults' = faults + 1

-----------------------------------------------------------------------------
(* startup and main_loop *)

\* Up to the server's connection startup never awaits: node, link manager and
\* Register exist before any other coroutine runs.
Build ==
    /\ Up /\ loop = "build"
    /\ IF DevicesLoad(setup.devices) /\ Registry(setup.user).ok
       THEN loop' = "server" /\ client' = "connect" /\ links' = "connect"
       ELSE loop' = "crashed" /\ UNCHANGED <<client, links>>
    /\ UNCHANGED <<setup, main, shellVars, ready, term, exitVars, started,
                   registered, gate, controllerVars, counters>>

StartServer ==
    /\ Turning /\ loop = "server"
    /\ \/ loop' = "tasks" /\ UNCHANGED faults
       \/ loop' = "crashed" /\ Fault
    /\ UNCHANGED <<setup, main, shellVars, ready, term, exitVars, registerVars,
                   linkVars, controllerVars, signals>>

\* The local tasks are booked, or refused: see LocalTaskManager.
StartTasks ==
    /\ Turning /\ loop = "tasks"
    /\ \/ /\ loop' = IF shouldExit THEN "ended" ELSE "main"
          /\ ready' = TRUE /\ UNCHANGED faults
       \/ loop' = "crashed" /\ Fault /\ UNCHANGED ready
    /\ UNCHANGED <<setup, main, shellVars, term, exitVars, registerVars,
                   linkVars, controllerVars, signals>>

\* Fault: the loop waits for the end of the goodbye.
MainLoopEndsPolitely ==
    /\ Turning /\ loop = "main" /\ exit = "done"
    /\ loop' = "ended"
    /\ UNCHANGED <<setup, main, shellVars, ready, term, exitVars, registerVars,
                   linkVars, controllerVars, counters>>

MainLoopEnds ==
    /\ Turning /\ loop = "main" /\ shouldExit
    /\ loop' = "ended"
    /\ UNCHANGED <<setup, main, shellVars, ready, term, exitVars, registerVars,
                   linkVars, controllerVars, counters>>

-----------------------------------------------------------------------------
(* handle_exit *)

\* Register.stop sends its request in the same step; a client that is not
\* connected yet may refuse it.
HandleExit ==
    /\ Turning /\ term > 0
    /\ term' = term - 1
    /\ IF shouldExit THEN UNCHANGED <<exitVars, started, wire>>
       ELSE /\ shouldExit' = TRUE /\ started' = FALSE
            /\ early' = (client = "connect")
            /\ \/ exit' = "call" /\ wire' = Append(wire, "deregister")
               \/ client = "connect" /\ exit' = "failed" /\ UNCHANGED wire
    /\ UNCHANGED <<setup, main, shellVars, loop, ready, client, registered,
                   linkVars, replies, listed, lost, counters>>

\* Then the link manager stops, unless the loop has ended before.
ExitAnswered ==
    /\ Turning /\ exit = "call" /\ "deregister" \in replies
    /\ exit' = "done"
    /\ replies' = replies \ {"deregister"}
    /\ links' = IF links = "running" THEN "stopped" ELSE links
    /\ UNCHANGED <<setup, main, shellVars, loop, ready, term, shouldExit, early,
                   registerVars, gate, wire, listed, lost, counters>>

\* No answer within the time of the call: it is lost, or late.
Unanswered(kind) ==
    /\ kind \notin replies
    /\ \/ kind \in {wire[i] : i \in DOMAIN wire} /\ Fault
       \/ kind \notin {wire[i] : i \in DOMAIN wire} /\ UNCHANGED faults

\* The link manager is not stopped, and no later signal gets past should_exit.
ExitTimesOut ==
    /\ Turning /\ exit = "call" /\ Unanswered("deregister")
    /\ exit' = "failed"
    /\ UNCHANGED <<setup, main, shellVars, loop, ready, term, shouldExit, early,
                   registerVars, linkVars, controllerVars, signals>>

-----------------------------------------------------------------------------
(* Register.start and _heartbeat *)

\* started is set even if stop was called while the client connected.
RegisterConnects ==
    /\ Turning /\ client = "connect"
    /\ \/ /\ started' = TRUE /\ client' = "call"
          /\ wire' = Append(wire, "register") /\ UNCHANGED faults
       \/ client' = "failed" /\ Fault /\ UNCHANGED <<started, wire>>
    /\ UNCHANGED <<setup, main, shellVars, loop, ready, term, exitVars, registered,
                   linkVars, replies, listed, lost, signals>>

RegisterAnswered ==
    /\ Turning /\ client = "call" /\ "register" \in replies
    /\ registered' = TRUE /\ client' = "pause"
    /\ replies' = replies \ {"register"}
    /\ UNCHANGED <<setup, main, shellVars, loop, ready, term, exitVars, started,
                   linkVars, wire, listed, lost, counters>>

\* The request may be served later: its answer finds nobody waiting.
RegisterTimesOut ==
    /\ Turning /\ client = "call" /\ Unanswered("register")
    /\ client' = "pause"
    /\ wire' = [i \in DOMAIN wire |-> IF wire[i] = "register" THEN "late" ELSE wire[i]]
    /\ UNCHANGED <<setup, main, shellVars, loop, ready, term, exitVars, started,
                   registered, linkVars, replies, listed, lost, signals>>

\* Fault: an agent that was stopped registers again.
RegisterAgainAlways ==
    /\ Turning /\ client = "pause"
    /\ IF ~registered
       THEN client' = "call" /\ wire' = Append(wire, "register")
       ELSE client' = "beating" /\ UNCHANGED wire
    /\ UNCHANGED <<setup, main, shellVars, loop, ready, term, exitVars, started,
                   registered, linkVars, replies, listed, lost, counters>>

\* The heartbeat begins when the loop is left, also by a stop.
RegisterAgain ==
    /\ Turning /\ client = "pause"
    /\ IF started /\ ~registered
       THEN client' = "call" /\ wire' = Append(wire, "register")
       ELSE client' = "beating" /\ UNCHANGED wire
    /\ UNCHANGED <<setup, main, shellVars, loop, ready, term, exitVars, started,
                   registered, linkVars, replies, listed, lost, counters>>

-----------------------------------------------------------------------------
(* LinkAdjacencyManager.start and _watch_registration *)

LinkConnects ==
    /\ Turning /\ links = "connect"
    /\ \/ links' = "waiting" /\ UNCHANGED faults
       \/ links' = "failed" /\ Fault
    /\ UNCHANGED <<setup, main, shellVars, loop, ready, term, exitVars, registerVars,
                   gate, controllerVars, signals>>

WatchRegistration ==
    /\ Turning /\ registered /\ ~gate
    /\ gate' = TRUE
    /\ UNCHANGED <<setup, main, shellVars, loop, ready, term, exitVars, registerVars,
                   links, controllerVars, counters>>

LinkStarts ==
    /\ Turning /\ links = "waiting" /\ gate
    /\ links' = "running"
    /\ UNCHANGED <<setup, main, shellVars, loop, ready, term, exitVars, registerVars,
                   gate, controllerVars, counters>>

-----------------------------------------------------------------------------
(* The controller and the broker *)

\* An answer counts only for a call that still waits.
Serve ==
    /\ wire # <<>>
    /\ wire' = Tail(wire)
    /\ listed' = (Head(wire) # "deregister")
    /\ \/ replies' = replies \cup ({Head(wire)} \ {"late"}) /\ UNCHANGED faults
       \/ UNCHANGED replies /\ Fault
    /\ UNCHANGED <<setup, main, shellVars, loop, ready, term, exitVars, registerVars,
                   linkVars, lost, signals>>

Lose ==
    /\ wire # <<>> /\ Fault
    /\ wire' = Tail(wire)
    /\ lost' = (lost \/ Head(wire) = "deregister")
    /\ UNCHANGED <<setup, main, shellVars, loop, ready, term, exitVars, registerVars,
                   linkVars, replies, listed, signals>>

-----------------------------------------------------------------------------
(* The main thread: run and run_sync *)

\* The shell's log handler, quiet at first, takes the place of stdout's.
InstallLogHandler == console' = "hidden"
UninstallLogHandler == console' = "stdout"

Ready ==
    /\ main = "wait" /\ ready
    /\ main' = "prompt" /\ InstallLogHandler
    /\ UNCHANGED <<setup, interrupted, coro, loop, ready, term, exitVars, registerVars,
                   linkVars, controllerVars, counters>>

\* connect, disconnect, probe and show switch-check run on the loop.
TypeCommand ==
    /\ main = "prompt"
    /\ main' = "command" /\ coro' = "queued"
    /\ UNCHANGED <<setup, console, interrupted, loop, ready, term, exitVars,
                   registerVars, linkVars, controllerVars, counters>>

RunCommand ==
    /\ Turning
    /\ \/ coro = "queued" /\ coro' = "running"
       \/ coro = "running" /\ coro' = "done"
    /\ UNCHANGED <<setup, main, console, interrupted, loop, ready, term, exitVars,
                   registerVars, linkVars, controllerVars, counters>>

CommandReturns ==
    /\ main = "command" /\ coro = "done"
    /\ main' = "prompt" /\ coro' = "none"
    /\ UNCHANGED <<setup, console, interrupted, loop, ready, term, exitVars,
                   registerVars, linkVars, controllerVars, counters>>

\* Fault: the log handler of the shell stays.
AbortSilent ==
    /\ main' = "abort" /\ term' = term + 1
    /\ UNCHANGED <<setup, shellVars, loop, ready, exitVars, registerVars,
                   linkVars, controllerVars>>

\* An exception of a command leaves run_sync, which closes the shell and
\* sends SIGTERM; the main thread ends without waiting for the loop.
Abort ==
    /\ main' = "abort" /\ UninstallLogHandler /\ term' = term + 1
    /\ UNCHANGED <<setup, interrupted, coro, loop, ready, exitVars, registerVars,
                   linkVars, controllerVars>>

\* Fault: a command whose loop has ended waits without limit.
CommandTimesOutAlive ==
    /\ main = "command" /\ coro # "done"
    /\ Turning /\ Fault
    /\ Abort /\ UNCHANGED signals

\* _run_async waits 30 seconds for the coroutine, which goes on.
CommandTimesOut ==
    /\ main = "command" /\ coro # "done"
    /\ IF Turning THEN Fault ELSE UNCHANGED faults
    /\ Abort /\ UNCHANGED signals

\* set runs in the main thread, beside the loop: see AgentShells.
TypeSet ==
    /\ main = "prompt"
    /\ main' = "set"
    /\ UNCHANGED <<setup, shellVars, loop, ready, term, exitVars, registerVars,
                   linkVars, controllerVars, counters>>

SetReturns ==
    /\ main = "set"
    /\ main' = "prompt"
    /\ UNCHANGED <<setup, shellVars, loop, ready, term, exitVars, registerVars,
                   linkVars, controllerVars, counters>>

LoggingConsole ==
    /\ main = "prompt"
    /\ console' \in {"hidden", "shown"}
    /\ UNCHANGED <<setup, main, interrupted, coro, loop, ready, term, exitVars,
                   registerVars, linkVars, controllerVars, counters>>

Monitor ==
    /\ \/ main = "prompt" /\ main' = "monitor"
       \/ main = "monitor" /\ main' = "prompt"
    /\ UNCHANGED <<setup, shellVars, loop, ready, term, exitVars, registerVars,
                   linkVars, controllerVars, counters>>

\* exit, quit or the end of the input.
Leave ==
    /\ main = "prompt"
    /\ main' = "join" /\ UninstallLogHandler /\ term' = term + 1
    /\ UNCHANGED <<setup, interrupted, coro, loop, ready, exitVars, registerVars,
                   linkVars, controllerVars, counters>>

\* The process ends when the main thread does; the loop is a daemon thread.
MainEnds ==
    /\ \/ main \in {"join", "run"} /\ loop = "ended" /\ main' = "done"
       \/ main = "run" /\ loop = "crashed" /\ main' = "dead"
       \/ main = "abort" /\ main' = "dead"
    /\ UNCHANGED <<setup, shellVars, loop, ready, term, exitVars, registerVars,
                   linkVars, controllerVars, counters>>

-----------------------------------------------------------------------------
(* Signals *)

Signal == Up /\ signals < setup.signals /\ signals' = signals + 1

\* SIGTERM, and without a shell SIGINT, queue handle_exit.  Before Build the
\* loop that is the main thread has no handler yet.
Terminate ==
    /\ Signal
    /\ IF main = "run" /\ loop = "build"
       THEN main' = "dead" /\ UNCHANGED term
       ELSE term' = term + 1 /\ UNCHANGED main
    /\ UNCHANGED <<setup, shellVars, loop, ready, exitVars, registerVars, linkVars,
                   controllerVars, faults>>

\* Ctrl+C at the prompt or in the dashboard; a second one at the prompt within
\* a second kills the process.
InterruptPrompt ==
    /\ Signal
    /\ \/ main = "prompt" /\ interrupted' = TRUE /\ UNCHANGED main
       \/ main = "prompt" /\ interrupted /\ main' = "dead" /\ UNCHANGED interrupted
       \/ main = "monitor" /\ main' = "prompt" /\ UNCHANGED interrupted
    /\ UNCHANGED <<setup, console, coro, loop, ready, term, exitVars, registerVars,
                   linkVars, controllerVars, faults>>

\* Anywhere else KeyboardInterrupt ends the main thread.
InterruptCommand ==
    /\ Signal /\ main \in {"command", "set"}
    /\ Abort /\ UNCHANGED faults

InterruptThread ==
    /\ Signal /\ main \in {"wait", "join", "abort"}
    /\ main' = "dead"
    /\ UNCHANGED <<setup, shellVars, loop, ready, term, exitVars, registerVars,
                   linkVars, controllerVars, faults>>

-----------------------------------------------------------------------------
StartUp == Build \/ StartServer \/ StartTasks
Loop == StartUp \/ MainLoopEnds \/ HandleExit \/ RunCommand
Registration == RegisterConnects \/ RegisterAnswered \/ RegisterTimesOut \/ RegisterAgain
LinkManager == LinkConnects \/ WatchRegistration \/ LinkStarts
Shell == Ready \/ CommandReturns \/ CommandTimesOut \/ SetReturns \/ MainEnds
User == TypeCommand \/ TypeSet \/ LoggingConsole \/ Monitor \/ Leave
Signals == Terminate \/ InterruptPrompt \/ InterruptCommand \/ InterruptThread

Next ==
    \/ Loop \/ ExitAnswered \/ ExitTimesOut
    \/ Registration \/ LinkManager
    \/ Serve \/ Lose
    \/ Shell \/ User \/ Signals

Spec == Init /\ [][Next]_vars

\* Both threads run; what the user does and what is lost is free.
Fairness ==
    /\ WF_vars(StartUp \/ MainLoopEnds) /\ WF_vars(HandleExit)
    /\ WF_vars(RunCommand) /\ WF_vars(Shell)

-----------------------------------------------------------------------------
(* Properties *)

\* Every command of a built-in interpreter keeps its handler and every command
\* of a user's interpreter has its own, once the agent serves: start-up refuses
\* what would take the one or leave out the other, as long as commands are
\* named after their namespaces.
HandlersStand ==
    loop = "server" /\ OwnNames(setup.user) =>
        \A j \in DOMAIN (Builtins \o setup.user) :
            LET i == (Builtins \o setup.user)[j]
            IN  \A cmd \in Commands(i) : <<cmd, i.name>> \in Registry(setup.user).handlers

\* An agent that ended by itself has said goodbye, and nothing it sent later
\* undoes that: once its messages are served the controller does not list it.
\* The exceptions are a goodbye that was lost and one said before Register was
\* connected.
LeavesNoTrace ==
    /\ main = "done" => exit # "none"
    /\ exit # "none" /\ ~early /\ ~lost =>
           IF wire = <<>> THEN ~listed ELSE wire[Len(wire)] = "deregister"

\* What was asked to end ends, whatever the controller does: run returns after
\* the shell was left, and after a signal when there is no shell.
ExitCompletes ==
    /\ (main = "join") ~> (main \in Over)
    /\ (main = "run" /\ term > 0) ~> (main \in Over)

\* A command on the terminal comes back to the prompt or ends the process (part of
\* AgentShells!PromptsReturn): it never hangs.
PromptReturns == (main \in {"command", "set"}) ~> (main \in {"prompt"} \cup Over)
=============================================================================
