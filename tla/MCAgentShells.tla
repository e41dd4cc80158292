--------------------------- MODULE MCAgentShells ---------------------------
(* Small instances of AgentShells for TLC. *)
EXTENDS AgentShells

UserInterpreter(user, space, commands, schedulable, found, known) ==
    [name |-> user, ns |-> space, builtin |-> FALSE, core |-> FALSE, found |-> found,
     commands |-> commands, schedulable |-> schedulable, known |-> known]

\* The last two are what OwnNames leaves out.
Users == {
    <<>>,
    <<UserInterpreter("user", "lab", <<"lab.run">>, <<>>, TRUE, TRUE),
      UserInterpreter("other", "scheduler", <<"scheduler.list">>, <<>>, TRUE, TRUE)>>,
    <<UserInterpreter("user", "lab", <<"scheduler.getSchedule">>, <<>>, TRUE, TRUE)>>,
    <<UserInterpreter("user", "scheduler", <<"scheduler.list">>, <<>>, TRUE, TRUE),
      UserInterpreter("other", "scheduler", <<"scheduler.list">>, <<>>, TRUE, TRUE)>>}
Refusals == {
    <<UserInterpreter("user", "scheduler", <<"scheduler.getSchedule">>, <<>>, TRUE, TRUE)>>,
    <<UserInterpreter("user", "lab", <<"lab.run", "lab.stop">>, <<>>, TRUE, TRUE)>>,
    <<UserInterpreter("user", "lab", <<"lab.run">>, <<>>, TRUE, TRUE),
      UserInterpreter("other", "lab", <<"lab.run">>, <<>>, TRUE, TRUE)>>,
    <<UserInterpreter("user", "lab", <<>>, <<"lab.submit">>, TRUE, FALSE)>>,
    <<UserInterpreter("user", "lab", <<>>, <<>>, FALSE, TRUE)>>}

Device(e, l) == [enabled |-> e, loads |-> l]

Good == {Device(TRUE, TRUE), Device(FALSE, FALSE)}

Setup(noRepl, devices, user, sigs, flts, reqs) ==
    [noRepl |-> noRepl, devices |-> devices, user |-> user,
     signals |-> sigs, faults |-> flts, requests |-> reqs]

MCSetups ==
    {Setup(n, Good, <<>>, 2, 1, 0) : n \in BOOLEAN}
    \cup {Setup(FALSE, Good, <<>>, 0, 2, 0), Setup(FALSE, Good, <<>>, 0, 0, 2),
           Setup(TRUE, Good, <<>>, 0, 0, 3), Setup(TRUE, Good, <<>>, 1, 0, 2)}
    \cup {Setup(n, {Device(TRUE, FALSE)}, <<>>, 1, 0, 0) : n \in BOOLEAN}
    \cup {Setup(TRUE, Good, u, 1, 0, 0) : u \in Users \cup Refusals}

MCInputs == {
    [do |-> "probe", known |-> TRUE], [do |-> "probe", known |-> FALSE],
    [do |-> "set", known |-> TRUE]}
=============================================================================
