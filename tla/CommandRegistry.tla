-------------------------- MODULE CommandRegistry --------------------------
(***************************************************************************)
(* What is fixed when the node is built, before anything is served: the    *)
(* devices of the hardware abstraction layer (hal/HAL.py) and the RPC      *)
(* handlers that the interpreters register (hal/node.py).  Both only read  *)
(* the configuration, so they are functions of it, not actions.            *)
(*                                                                         *)
(* A device is [enabled, loads]: loads says that its driver class is found *)
(* and its constructor returns.  An interpreter stands for one class of an *)
(* interpreter file: its namespace, whether the file exists, the commands  *)
(* of get_commands in order, those of get_schedulable_commands, and        *)
(* whether the scheduler has a handle_ method for each of the latter.      *)
(***************************************************************************)
EXTENDS Integers, Sequences, FiniteSets

\* HardwareAbstractionLayer: an enabled driver that did not load ends start-up.
Loaded(devices) == {d \in devices : d.enabled /\ d.loads}
DevicesLoad(devices) == \A d \in devices : d.enabled => d \in Loaded(devices)

BuiltinInterpreter(ns, isCore, commands, schedulable) ==
    [name |-> ns, ns |-> ns, builtin |-> TRUE, core |-> isCore, found |-> TRUE,
     commands |-> commands, schedulable |-> schedulable, known |-> TRUE]

\* DEFAULT_INTERPRETERS, in order (the commands are a selection).
Builtins ==
    <<BuiltinInterpreter("scheduler", TRUE, <<"scheduler.getSchedule">>, <<>>),
      BuiltinInterpreter("calibration", FALSE, <<"calibration.generation">>, <<>>),
      BuiltinInterpreter("experiment", FALSE, <<"experiment.setValue">>,
                         <<"experiment.submit", "experiment.getResult">>),
      BuiltinInterpreter("link", FALSE, <<"link.control", "link.hello">>, <<>>)>>

\* What a configuration may name.
UserInterpreters ==
    [name : STRING, ns : STRING, builtin : {FALSE}, core : {FALSE}, found : BOOLEAN,
     commands : Seq(STRING), schedulable : Seq(STRING), known : BOOLEAN]

-----------------------------------------------------------------------------
(* register_command *)

Spaces(commands) == {c[1] : c \in commands}

\* Fault: a user interpreter may replace a command of a core component.
RefusedOutsideCore(r, i, cmd) ==
    /\ ~i.builtin
    /\ i.ns \notin Spaces(r.core) /\ i.ns \in Spaces(r.plugins)

\* A user interpreter adds to a core namespace what is not there.  Any other
\* namespace that is known is closed to it, also by its own first command.
Refused(r, i, cmd) ==
    /\ ~i.builtin
    /\ IF i.ns \in Spaces(r.core) THEN <<i.ns, cmd>> \in r.core
                                  ELSE i.ns \in Spaces(r.plugins)

\* A user command in a core namespace gets a handler and no entry.
RegisterCommand(r, i, cmd) ==
    IF ~r.ok \/ Refused(r, i, cmd) THEN [r EXCEPT !.ok = FALSE]
    ELSE LET entry == {<<i.ns, cmd>>}
             inCore == IF i.builtin THEN i.core ELSE i.ns \in Spaces(r.core)
         IN  [r EXCEPT !.core = IF i.builtin /\ inCore THEN @ \cup entry ELSE @,
                       !.plugins = IF inCore THEN @ ELSE @ \cup entry,
                       !.handlers = {h \in @ : h[1] # cmd} \cup {<<cmd, i.name>>}]

\* The scheduler takes over the schedulable commands without a check; one
\* whose method it does not have ends start-up.
RegisterSchedulable(r, i, cmd) ==
    IF ~r.ok \/ ~i.known THEN [r EXCEPT !.ok = FALSE]
    ELSE [r EXCEPT !.handlers = {h \in @ : h[1] # cmd} \cup {<<cmd, i.name>>}]

\* register_command_namespace; a missing file ends the process.
RegisterInterpreter(r, i) ==
    IF ~r.ok \/ ~i.found THEN [r EXCEPT !.ok = FALSE]
    ELSE LET n == Len(i.commands)
             after[k \in 0 .. n + Len(i.schedulable)] ==
                 IF k = 0 THEN r
                 ELSE IF k <= n THEN RegisterCommand(after[k - 1], i, i.commands[k])
                 ELSE RegisterSchedulable(after[k - 1], i, i.schedulable[k - n])
         IN  after[n + Len(i.schedulable)]

Empty == [ok |-> TRUE, core |-> {}, plugins |-> {}, handlers |-> {}]

\* Node.__init__: the built-in interpreters, then those of the user.
Registry(user) ==
    LET all == Builtins \o user
        after[k \in 0 .. Len(all)] ==
            IF k = 0 THEN Empty ELSE RegisterInterpreter(after[k - 1], all[k])
    IN  after[Len(all)]

Commands(i) == {i.commands[j] : j \in DOMAIN i.commands}
                   \cup {i.schedulable[j] : j \in DOMAIN i.schedulable}

\* The namespaces of the node's core components.
CoreSpaces == {Builtins[j].ns : j \in {j \in DOMAIN Builtins : Builtins[j].core}}

\* No command is given twice, except that a command of a namespace may come
\* again from an interpreter of the same one.  (A user's interpreter of a new
\* namespace that names a built-in command takes its handler, and so do any
\* schedulable command and the second of two user's interpreters that add the
\* same command to a core namespace, where the first left no entry.)
OwnNames(user) ==
    LET all == Builtins \o user
    IN  \A j, k \in DOMAIN all : j # k =>
            \A cmd \in Commands(all[j]) \cap Commands(all[k]) :
                /\ all[j].ns = all[k].ns
                /\ all[j].schedulable = <<>> /\ all[k].schedulable = <<>>
                /\ all[j].ns \in CoreSpaces => all[j].builtin \/ all[k].builtin
=============================================================================
