------------------------ MODULE AgentProcessProofs ------------------------
(***************************************************************************)
(* Proofs about the agent's process (AgentProcess) and its two shells      *)
(* (AgentShells): types, the goodbye to the controller, the handlers of    *)
(* the interpreters (CommandRegistry), and the settings that two threads   *)
(* write.                                                                  *)
(***************************************************************************)
EXTENDS AgentShells, SequenceTheorems, WellFoundedInduction, TLAPS

Kinds == {"register", "late", "deregister"}

\* A call that timed out leaves its request, marked late: a request is still a
\* request, and the last one stays what it was unless it registered.
LEMMA LateRequests ==
    ASSUME wire \in Seq(Kinds)
    PROVE  LET w == [i \in DOMAIN wire |-> IF wire[i] = "register" THEN "late" ELSE wire[i]]
           IN  /\ w \in Seq(Kinds)
               /\ Len(w) = Len(wire)
               /\ \A i \in 1 .. Len(wire) : wire[i] = "deregister" => w[i] = "deregister"
<1> DEFINE w == [i \in DOMAIN wire |-> IF wire[i] = "register" THEN "late" ELSE wire[i]]
<1>1. DOMAIN wire = 1 .. Len(wire) /\ Len(wire) \in Nat /\ \A i \in 1 .. Len(wire) : wire[i] \in Kinds
  OBVIOUS
<1>2. w \in [1 .. Len(wire) -> Kinds]
  BY <1>1 DEF Kinds
<1>3. w \in Seq(Kinds) /\ Len(w) = Len(wire)
  BY <1>1, <1>2
<1>4. \A i \in 1 .. Len(wire) : wire[i] = "deregister" => w[i] = "deregister"
  BY <1>1
<1> QED
  BY <1>3, <1>4

\* Serving the first request leaves the last one where it is, unless it is the
\* only one.
LEMMA TailKeepsLast ==
    ASSUME NEW s \in Seq(Kinds), s # <<>>
    PROVE  /\ Len(s) = 1 => Tail(s) = <<>> /\ s[Len(s)] = Head(s)
           /\ Len(s) # 1 => Tail(s) # <<>> /\ Tail(s)[Len(Tail(s))] = s[Len(s)]
<1>1. Len(s) \in Nat /\ Len(s) # 0 /\ Len(Tail(s)) = Len(s) - 1
  OBVIOUS
<1>2. CASE Len(s) = 1
  <2>1. Tail(s) \in Seq(Kinds) /\ Len(Tail(s)) = 0
    BY <1>1, <1>2
  <2>2. Tail(s) = <<>>
    BY <2>1, EmptySeq
  <2> QED
    BY <1>2, <2>2
<1>3. CASE Len(s) # 1
  <2>1. Len(s) - 1 \in 1 .. Len(s) - 1
    BY <1>1, <1>3
  <2>2. Tail(s)[Len(s) - 1] = s[Len(s)]
    BY <1>1, <2>1
  <2>3. Tail(s) # <<>>
    BY <1>1, <1>3
  <2> QED
    BY <1>1, <1>3, <2>2, <2>3
<1> QED
  BY <1>2, <1>3

-----------------------------------------------------------------------------
(* Types *)

LEMMA TypesInit == Init => TypeOK
<1> SUFFICES ASSUME Init PROVE TypeOK
  OBVIOUS
<1>1. signals \in 0 .. setup.signals /\ faults \in 0 .. setup.faults
  BY ProcessAssumption DEF Init
<1>2. main \in {"wait", "run"} /\ console = "stdout"
  BY DEF Init
<1>3. wire \in Seq({"register", "late", "deregister"})
  BY DEF Init
<1> QED
  BY <1>1, <1>2, <1>3 DEF Init, TypeOK, InShell, Over

\* The coroutines of the loop: start-up, handle_exit, registration, links.
LEMMA TypesLoop ==
    ASSUME TypeOK, Loop \/ ExitAnswered \/ ExitTimesOut
    PROVE  TypeOK'
<1> USE DEF TypeOK, InShell, Over
<1>1. CASE Build
  BY <1>1 DEF Build, shellVars, exitVars, controllerVars, counters
<1>2. CASE StartServer
  BY <1>2, ProcessAssumption
  DEF StartServer, Fault, shellVars, exitVars, registerVars, linkVars, controllerVars
<1>3. CASE StartTasks
  <2>1. loop' \in {"main", "ended", "crashed"}
    BY <1>3 DEF StartTasks
  <2>2. ready' \in BOOLEAN
    BY <1>3 DEF StartTasks
  <2>3. faults' \in 0 .. setup.faults
    BY <1>3, ProcessAssumption DEF StartTasks, Fault
  <2> QED
    BY <1>3, <2>1, <2>2, <2>3
    DEF StartTasks, shellVars, exitVars, registerVars, linkVars, controllerVars
<1>4. CASE MainLoopEnds
  BY <1>4
  DEF MainLoopEnds, shellVars, exitVars, registerVars, linkVars, controllerVars, counters
<1>5. CASE HandleExit
  <2>1. /\ shouldExit' \in BOOLEAN /\ early' \in BOOLEAN /\ started' \in BOOLEAN
        /\ exit' \in {"none", "call", "done", "failed"}
        /\ wire' \in Seq({"register", "late", "deregister"})
    <3>1. CASE shouldExit
      BY <1>5, <3>1 DEF HandleExit, exitVars
    <3>2. CASE ~shouldExit
      <4>1. shouldExit' = TRUE /\ started' = FALSE /\ early' = (client = "connect")
        BY <1>5, <3>2 DEF HandleExit
      <4>2. \/ exit' = "call" /\ wire' = Append(wire, "deregister")
            \/ exit' = "failed" /\ wire' = wire
        BY <1>5, <3>2 DEF HandleExit
      <4>3. wire' \in Seq({"register", "late", "deregister"})
        BY <4>2
      <4>4. exit' \in {"none", "call", "done", "failed"}
        BY <4>2
      <4> QED
        BY <4>1, <4>3, <4>4, Zenon
    <3> QED
      BY <3>1, <3>2
  <2>2. term' \in Nat
    BY <1>5 DEF HandleExit
  <2> QED
    BY <1>5, <2>1, <2>2 DEF HandleExit, shellVars, linkVars, counters
<1>6. CASE RunCommand
  BY <1>6 DEF RunCommand, exitVars, registerVars, linkVars, controllerVars, counters
<1>7. CASE ExitAnswered
  BY <1>7 DEF ExitAnswered, shellVars, registerVars, counters
<1>8. CASE ExitTimesOut
  BY <1>8, ProcessAssumption
  DEF ExitTimesOut, Unanswered, Fault, shellVars, registerVars, linkVars, controllerVars
<1> QED
  BY <1>1, <1>2, <1>3, <1>4, <1>5, <1>6, <1>7, <1>8 DEF Loop, StartUp

LEMMA TypesAgent ==
    ASSUME TypeOK, Registration \/ LinkManager \/ Serve \/ Lose
    PROVE  TypeOK'
<1> USE DEF TypeOK, InShell, Over
<1>1. CASE RegisterConnects
  <2>1. /\ client' \in {"call", "failed"} /\ started' \in BOOLEAN
        /\ wire' \in Seq({"register", "late", "deregister"})
    <3>1. \/ started' = TRUE /\ client' = "call" /\ wire' = Append(wire, "register")
          \/ started' = started /\ client' = "failed" /\ wire' = wire
      BY <1>1 DEF RegisterConnects
    <3>2. wire' \in Seq({"register", "late", "deregister"})
      BY <3>1
    <3> QED
      BY <3>1, <3>2, Zenon
  <2>2. faults' \in 0 .. setup.faults
    BY <1>1, ProcessAssumption DEF RegisterConnects, Fault
  <2> QED
    BY <1>1, <2>1, <2>2 DEF RegisterConnects, shellVars, exitVars, linkVars
<1>2. CASE RegisterAnswered
  BY <1>2 DEF RegisterAnswered, shellVars, exitVars, linkVars, counters
<1>3. CASE RegisterTimesOut
  <2>1. wire' \in Seq(Kinds)
    BY <1>3, LateRequests DEF RegisterTimesOut, Kinds
  <2> QED
    BY <1>3, <2>1, ProcessAssumption
    DEF RegisterTimesOut, Unanswered, Fault, Kinds, shellVars, exitVars, linkVars
<1>4. CASE RegisterAgain
  BY <1>4 DEF RegisterAgain, shellVars, exitVars, linkVars, counters
<1>5. CASE LinkConnects
  BY <1>5, ProcessAssumption
  DEF LinkConnects, Fault, shellVars, exitVars, registerVars, controllerVars
<1>6. CASE WatchRegistration
  BY <1>6 DEF WatchRegistration, shellVars, exitVars, registerVars, controllerVars, counters
<1>7. CASE LinkStarts
  BY <1>7 DEF LinkStarts, shellVars, exitVars, registerVars, controllerVars, counters
<1>8. CASE Serve
  <2>1. wire' \in Seq(Kinds) /\ Head(wire) \in Kinds
    BY <1>8 DEF Serve, Kinds
  <2>2. replies' \subseteq {"register", "deregister"}
    BY <1>8, <2>1 DEF Serve, Kinds
  <2>3. faults' \in 0 .. setup.faults
    BY <1>8, ProcessAssumption DEF Serve, Fault
  <2> QED
    BY <1>8, <2>1, <2>2, <2>3
    DEF Serve, Kinds, shellVars, exitVars, registerVars, linkVars
<1>9. CASE Lose
  BY <1>9, ProcessAssumption
  DEF Lose, Fault, shellVars, exitVars, registerVars, linkVars
<1> QED
  BY <1>1, <1>2, <1>3, <1>4, <1>5, <1>6, <1>7, <1>8, <1>9 DEF Registration, LinkManager

\* The main thread, its user, and the signals.
LEMMA TypesShell ==
    ASSUME TypeOK, Shell \/ User \/ Signals
    PROVE  TypeOK'
<1> USE DEF TypeOK, InShell, Over
<1> USE DEF shellVars, exitVars, registerVars, linkVars, controllerVars, counters
<1>1. CASE Ready
  BY <1>1 DEF Ready, InstallLogHandler
<1>2. CASE CommandReturns
  BY <1>2 DEF CommandReturns
<1>3. CASE CommandTimesOut
  BY <1>3, ProcessAssumption DEF CommandTimesOut, Abort, UninstallLogHandler, Fault
<1>4. CASE SetReturns
  BY <1>4 DEF SetReturns
<1>5. CASE MainEnds
  BY <1>5 DEF MainEnds
<1>6. CASE TypeCommand
  BY <1>6 DEF TypeCommand
<1>7. CASE TypeSet
  BY <1>7 DEF TypeSet
<1>8. CASE LoggingConsole
  BY <1>8 DEF LoggingConsole
<1>9. CASE Monitor
  BY <1>9 DEF Monitor
<1>10. CASE Leave
  BY <1>10 DEF Leave, UninstallLogHandler
<1>11. CASE Terminate
  BY <1>11, ProcessAssumption DEF Terminate, Signal
<1>12. CASE InterruptPrompt
  <2>1. signals' \in 0 .. setup.signals
    BY <1>12, ProcessAssumption DEF InterruptPrompt, Signal
  <2>2. /\ interrupted' \in BOOLEAN
        /\ \/ main' = main
           \/ main = "prompt" /\ main' = "dead"
           \/ main = "monitor" /\ main' = "prompt"
    BY <1>12 DEF InterruptPrompt
  <2> QED
    BY <1>12, <2>1, <2>2 DEF InterruptPrompt
<1>13. CASE InterruptCommand
  BY <1>13, ProcessAssumption DEF InterruptCommand, Signal, Abort, UninstallLogHandler
<1>14. CASE InterruptThread
  BY <1>14, ProcessAssumption DEF InterruptThread, Signal
<1> QED
  BY <1>1, <1>2, <1>3, <1>4, <1>5, <1>6, <1>7, <1>8, <1>9, <1>10, <1>11, <1>12,
     <1>13, <1>14
  DEF Shell, User, Signals

LEMMA TypesNext == TypeOK /\ [Next]_vars => TypeOK'
<1> SUFFICES ASSUME TypeOK, [Next]_vars PROVE TypeOK'
  OBVIOUS
<1>1. CASE UNCHANGED vars
  BY <1>1 DEF vars, shellVars, exitVars, registerVars, linkVars, controllerVars, counters,
              TypeOK, InShell, Over
<1> QED
  BY <1>1, TypesLoop, TypesAgent, TypesShell DEF Next

\* The types of AgentProcess hold in every state it reaches: whatever the user,
\* the signals and the controller do, each thread and coroutine is at a known place,
\* and the shell's log handler is installed exactly while the shell is open or
\* the process died in it.
THEOREM TypesHold == Spec => []TypeOK
<1>1. Init => TypeOK
  BY TypesInit
<1>2. TypeOK /\ [Next]_vars => TypeOK'
  BY TypesNext
<1> QED
  BY <1>1, <1>2, PTL DEF Spec

-----------------------------------------------------------------------------
(* The goodbye *)

\* The last thing on its way to the controller, or done by it, is a goodbye.
Gone == IF wire = <<>> THEN ~listed ELSE wire[Len(wire)] = "deregister"

\* What makes LeavesNoTrace inductive: handle_exit runs once, after Build, and
\* clears started; with Register connected before, nothing sets it again.
Goodbye ==
    /\ shouldExit <=> exit # "none"
    /\ loop = "build" => exit = "none"
    /\ loop \in {"server", "tasks", "main"} => client # "none"
    /\ loop = "ended" => exit # "none"
    /\ main = "done" => exit # "none"
    /\ exit # "none" /\ ~early => ~started /\ client \notin {"none", "connect"}
    /\ exit # "none" /\ ~early /\ ~lost => Gone

LEMMA GoodbyeInit == Init => Goodbye
BY DEF Init, Goodbye, Gone

LEMMA GoodbyeLoop ==
    ASSUME TypeOK, Goodbye, Loop \/ ExitAnswered \/ ExitTimesOut
    PROVE  Goodbye'
<1> USE DEF Goodbye, Gone
<1>0. shouldExit \in BOOLEAN /\ wire \in Seq(Kinds) /\ started \in BOOLEAN /\ early \in BOOLEAN
  BY DEF TypeOK, Kinds
<1>1. CASE Build
  BY <1>0, <1>1 DEF Build, exitVars, controllerVars
<1>2. CASE StartServer
  BY <1>0, <1>2 DEF StartServer, exitVars, registerVars, controllerVars
<1>3. CASE StartTasks
  BY <1>0, <1>3 DEF StartTasks, exitVars, registerVars, controllerVars
<1>4. CASE MainLoopEnds
  BY <1>0, <1>4 DEF MainLoopEnds, exitVars, registerVars, controllerVars
<1>5. CASE HandleExit
  <2>1. CASE shouldExit
    BY <1>0, <1>5, <2>1 DEF HandleExit, exitVars
  <2>2. CASE ~shouldExit
    <3>1. shouldExit' = TRUE /\ started' = FALSE /\ (early' <=> client = "connect")
      BY <1>5, <2>2 DEF HandleExit
    <3>2. exit' # "none" /\ (~early' => wire' = Append(wire, "deregister"))
      BY <1>5, <2>2 DEF HandleExit
    <3>3. loop' = loop /\ main' = main /\ client' = client /\ loop \in {"server", "tasks", "main"}
      BY <1>5 DEF HandleExit, Turning
    <3>4. ~early' => Gone'
      BY <1>0, <3>2
    <3> QED
      BY <3>1, <3>2, <3>3, <3>4
  <2> QED
    BY <2>1, <2>2
<1>6. CASE RunCommand
  BY <1>0, <1>6 DEF RunCommand, exitVars, registerVars, controllerVars
<1>7. CASE ExitAnswered
  BY <1>0, <1>7 DEF ExitAnswered, registerVars
<1>8. CASE ExitTimesOut
  BY <1>0, <1>8 DEF ExitTimesOut, registerVars, controllerVars
<1> QED
  BY <1>1, <1>2, <1>3, <1>4, <1>5, <1>6, <1>7, <1>8 DEF Loop, StartUp

\* The controller serves the requests in order: the last one stays the last.
LEMMA GoodbyeAgent ==
    ASSUME TypeOK, Goodbye, Registration \/ LinkManager \/ Serve \/ Lose
    PROVE  Goodbye'
<1> USE DEF Goodbye, Gone
<1>0. shouldExit \in BOOLEAN /\ wire \in Seq(Kinds) /\ started \in BOOLEAN /\ early \in BOOLEAN
  BY DEF TypeOK, Kinds
<1>1. CASE RegisterConnects
  BY <1>0, <1>1 DEF RegisterConnects, Turning, exitVars
<1>2. CASE RegisterAnswered
  BY <1>0, <1>2 DEF RegisterAnswered, Turning, exitVars
<1>3. CASE RegisterTimesOut
  <2>1. Len(wire') = Len(wire) /\ wire' \in Seq(Kinds)
    BY <1>0, <1>3, LateRequests DEF RegisterTimesOut
  <2>2. Gone => Gone'
    BY <1>0, <1>3, <2>1, LateRequests DEF RegisterTimesOut
  <2> QED
    BY <1>0, <1>3, <2>2 DEF RegisterTimesOut, Turning, exitVars
<1>4. CASE RegisterAgain
  BY <1>0, <1>4 DEF RegisterAgain, Turning, exitVars
<1>5. CASE LinkConnects
  BY <1>0, <1>5 DEF LinkConnects, exitVars, registerVars, controllerVars
<1>6. CASE WatchRegistration
  BY <1>0, <1>6 DEF WatchRegistration, exitVars, registerVars, controllerVars
<1>7. CASE LinkStarts
  BY <1>0, <1>7 DEF LinkStarts, exitVars, registerVars, controllerVars
<1>8. CASE Serve
  <2>0. wire # <<>> /\ wire \in Seq(Kinds) /\ wire' = Tail(wire)
    BY <1>0, <1>8 DEF Serve
  <2>1. Gone => Gone'
    <3>1. CASE Len(wire) = 1
      BY <1>8, <3>1, <2>0, TailKeepsLast DEF Serve
    <3>2. CASE Len(wire) # 1
      BY <1>8, <3>2, <2>0, TailKeepsLast DEF Serve
    <3> QED
      BY <3>1, <3>2
  <2> QED
    BY <1>0, <1>8, <2>1 DEF Serve, exitVars, registerVars
<1>9. CASE Lose
  <2>0. wire # <<>> /\ wire \in Seq(Kinds) /\ wire' = Tail(wire)
    BY <1>0, <1>9 DEF Lose
  <2>1. Gone /\ ~lost' => Gone'
    <3>1. CASE Len(wire) = 1
      BY <1>9, <3>1, <2>0, TailKeepsLast DEF Lose
    <3>2. CASE Len(wire) # 1
      BY <1>9, <3>2, <2>0, TailKeepsLast DEF Lose
    <3> QED
      BY <3>1, <3>2
  <2>2. ~lost' => ~lost
    BY <1>9 DEF Lose
  <2> QED
    BY <1>0, <1>9, <2>1, <2>2 DEF Lose, exitVars, registerVars
<1> QED
  BY <1>1, <1>2, <1>3, <1>4, <1>5, <1>6, <1>7, <1>8, <1>9 DEF Registration, LinkManager

LEMMA GoodbyeShell ==
    ASSUME Goodbye, Shell \/ User \/ Signals
    PROVE  Goodbye'
<1>1. UNCHANGED <<loop, exitVars, registerVars, controllerVars>>
  BY DEF Shell, User, Signals, Ready, CommandReturns, CommandTimesOut, SetReturns, MainEnds,
         TypeCommand, TypeSet, LoggingConsole, Monitor, Leave, Abort,
         Terminate, InterruptPrompt, InterruptCommand, InterruptThread
<1>2. main' = "done" => main = "done" \/ loop = "ended"
  BY DEF Shell, User, Signals, Ready, CommandReturns, CommandTimesOut, SetReturns, MainEnds,
         TypeCommand, TypeSet, LoggingConsole, Monitor, Leave, Abort,
         Terminate, InterruptPrompt, InterruptCommand, InterruptThread
<1> QED
  BY <1>1, <1>2 DEF Goodbye, Gone, exitVars, registerVars, controllerVars

LEMMA GoodbyeNext == TypeOK /\ Goodbye /\ [Next]_vars => Goodbye'
<1> SUFFICES ASSUME TypeOK, Goodbye, [Next]_vars PROVE Goodbye'
  OBVIOUS
<1>1. CASE UNCHANGED vars
  BY <1>1 DEF vars, exitVars, registerVars, controllerVars, Goodbye, Gone
<1> QED
  BY <1>1, GoodbyeLoop, GoodbyeAgent, GoodbyeShell DEF Next

\* An agent that ended by itself said goodbye, and the controller forgets it: no
\* retry of Register.start and no late registration brings it back, unless the
\* goodbye was lost or came before Register was connected.
THEOREM NoTraceIsLeft == Spec => []LeavesNoTrace
<1>1. Init => TypeOK /\ Goodbye
  BY TypesInit, GoodbyeInit
<1>2. TypeOK /\ Goodbye /\ [Next]_vars => (TypeOK /\ Goodbye)'
  BY TypesNext, GoodbyeNext
<1>3. Goodbye => LeavesNoTrace
  BY DEF Goodbye, Gone, LeavesNoTrace
<1> QED
  BY <1>1, <1>2, <1>3, PTL DEF Spec

-----------------------------------------------------------------------------
(* The commands of the interpreters.  Registry and RegisterInterpreter are *)
(* recursive functions; the library's induction takes an operator, which   *)
(* the provers cannot instantiate, so induction is about sets of numbers.  *)

\* Induction: a set with 0 and every successor has every number.
LEMMA EveryNumber ==
    ASSUME NEW S \in SUBSET Nat, 0 \in S, \A n \in Nat : n \in S => n + 1 \in S
    PROVE  S = Nat
<1> SUFFICES ASSUME Nat \ S # {} PROVE FALSE
  OBVIOUS
<1>1. PICK m \in Nat \ S : \A n \in Nat \ S : ~ (<<n, m>> \in OpToRel(<, Nat))
  BY NatLessThanWellFounded, WFMin
<1>2. \A n \in Nat \ S : ~ (n < m)
  BY <1>1 DEF OpToRel
<1>3. m # 0 /\ m - 1 \in Nat /\ m - 1 < m /\ (m - 1) + 1 = m
  OBVIOUS
<1>4. m - 1 \in S
  BY <1>2, <1>3
<1>5. m \notin S
  OBVIOUS
<1> QED
  BY <1>3, <1>4, <1>5

\* The recursions of RegisterInterpreter and of Registry, up to n.
Registers(f, r, i, n) ==
    f = [k \in 0 .. n |->
            IF k = 0 THEN r
            ELSE IF k <= Len(i.commands) THEN RegisterCommand(f[k - 1], i, i.commands[k])
            ELSE RegisterSchedulable(f[k - 1], i, i.schedulable[k - Len(i.commands)])]

Builds(f, all, n) ==
    f = [k \in 0 .. n |-> IF k = 0 THEN Empty ELSE RegisterInterpreter(f[k - 1], all[k])]

LEMMA RegistersExists == \A r, i, n : n \in Nat => \E f : Registers(f, r, i, n)
<1> SUFFICES ASSUME NEW r, NEW i PROVE \A n \in Nat : \E f : Registers(f, r, i, n)
  OBVIOUS
<1> DEFINE S == {n \in Nat : \E f : Registers(f, r, i, n)}
           step(k, q) == IF k <= Len(i.commands) THEN RegisterCommand(q, i, i.commands[k])
                         ELSE RegisterSchedulable(q, i, i.schedulable[k - Len(i.commands)])
<1>1. 0 \in S
  <2> DEFINE f == [k \in 0 .. 0 |-> r]
  <2>1. \A k \in 0 .. 0 : k = 0
    OBVIOUS
  <2>2. f = [k \in 0 .. 0 |-> IF k = 0 THEN r ELSE step(k, f[k - 1])]
    BY <2>1
  <2>3. Registers(f, r, i, 0)
    BY <2>2 DEF Registers
  <2> QED BY <2>3
<1>2. ASSUME NEW n \in Nat, n \in S PROVE n + 1 \in S
  <2>1. PICK f : Registers(f, r, i, n)
    BY <1>2
  <2> DEFINE g == [k \in 0 .. n + 1 |-> IF k <= n THEN f[k] ELSE step(k, f[n])]
  <2> HIDE DEF step
  <2>2. f = [k \in 0 .. n |-> IF k = 0 THEN r ELSE step(k, f[k - 1])]
    BY <2>1 DEF Registers, step
  <2>3. \A k \in 0 .. n + 1 : g[k] = IF k = 0 THEN r ELSE step(k, g[k - 1])
    <3> SUFFICES ASSUME NEW k \in 0 .. n + 1
                 PROVE  g[k] = IF k = 0 THEN r ELSE step(k, g[k - 1])
      OBVIOUS
    <3>1. CASE k = 0
      BY <2>2, <3>1
    <3>2. CASE k # 0 /\ k <= n
      <4>1. k \in 0 .. n /\ k - 1 \in 0 .. n + 1 /\ k - 1 <= n
        BY <3>2
      <4>2. g[k] = f[k] /\ g[k - 1] = f[k - 1]
        BY <3>2, <4>1
      <4>3. f[k] = step(k, f[k - 1])
        BY <2>2, <3>2, <4>1
      <4> QED BY <3>2, <4>2, <4>3
    <3>3. CASE k # 0 /\ ~ (k <= n)
      <4>1. k = n + 1 /\ k - 1 = n /\ k - 1 \in 0 .. n + 1
        BY <3>3
      <4>2. g[k - 1] = f[n] /\ g[k] = step(k, f[n])
        BY <3>3, <4>1
      <4> QED BY <3>3, <4>2
    <3> QED BY <3>1, <3>2, <3>3
  <2>4. g = [k \in 0 .. n + 1 |-> g[k]]
    OBVIOUS
  <2> HIDE DEF g
  <2>5. g = [k \in 0 .. n + 1 |-> IF k = 0 THEN r ELSE step(k, g[k - 1])]
    BY <2>3, <2>4
  <2>6. Registers(g, r, i, n + 1)
    BY <2>5 DEF Registers, step
  <2> QED BY <2>6
<1> HIDE DEF S
<1>3. S = Nat
  <2>1. S \in SUBSET Nat
    BY DEF S
  <2> QED BY <1>1, <1>2, <2>1, EveryNumber
<1> QED BY <1>3 DEF S

LEMMA BuildsExists == \A all, n : n \in Nat => \E f : Builds(f, all, n)
<1> SUFFICES ASSUME NEW all PROVE \A n \in Nat : \E f : Builds(f, all, n)
  OBVIOUS
<1> DEFINE S == {n \in Nat : \E f : Builds(f, all, n)}
<1>1. 0 \in S
  <2> DEFINE f == [k \in 0 .. 0 |-> Empty]
  <2>1. \A k \in 0 .. 0 : k = 0
    OBVIOUS
  <2>2. f = [k \in 0 .. 0 |-> IF k = 0 THEN Empty ELSE RegisterInterpreter(f[k - 1], all[k])]
    BY <2>1
  <2>3. Builds(f, all, 0)
    BY <2>2 DEF Builds
  <2> QED BY <2>3
<1>2. ASSUME NEW n \in Nat, n \in S PROVE n + 1 \in S
  <2>1. PICK f : Builds(f, all, n)
    BY <1>2
  <2> DEFINE g == [k \in 0 .. n + 1 |-> IF k <= n THEN f[k] ELSE RegisterInterpreter(f[n], all[k])]
  <2>2. f = [k \in 0 .. n |-> IF k = 0 THEN Empty ELSE RegisterInterpreter(f[k - 1], all[k])]
    BY <2>1 DEF Builds
  <2>3. \A k \in 0 .. n + 1 :
            g[k] = IF k = 0 THEN Empty ELSE RegisterInterpreter(g[k - 1], all[k])
    <3> SUFFICES ASSUME NEW k \in 0 .. n + 1
                 PROVE  g[k] = IF k = 0 THEN Empty ELSE RegisterInterpreter(g[k - 1], all[k])
      OBVIOUS
    <3>1. CASE k = 0
      BY <2>2, <3>1
    <3>2. CASE k # 0 /\ k <= n
      <4>1. k \in 0 .. n /\ k - 1 \in 0 .. n + 1 /\ k - 1 <= n
        BY <3>2
      <4>2. g[k] = f[k] /\ g[k - 1] = f[k - 1]
        BY <3>2, <4>1
      <4>3. f[k] = RegisterInterpreter(f[k - 1], all[k])
        BY <2>2, <3>2, <4>1
      <4> QED BY <3>2, <4>2, <4>3
    <3>3. CASE k # 0 /\ ~ (k <= n)
      <4>1. k = n + 1 /\ k - 1 = n /\ k - 1 \in 0 .. n + 1
        BY <3>3
      <4>2. g[k - 1] = f[n] /\ g[k] = RegisterInterpreter(f[n], all[k])
        BY <3>3, <4>1
      <4> QED BY <3>3, <4>2
    <3> QED BY <3>1, <3>2, <3>3
  <2>4. g = [k \in 0 .. n + 1 |-> g[k]]
    OBVIOUS
  <2> HIDE DEF g
  <2>5. Builds(g, all, n + 1)
    BY <2>3, <2>4 DEF Builds
  <2> QED BY <2>5
<1> HIDE DEF S
<1>3. S = Nat
  <2>1. S \in SUBSET Nat
    BY DEF S
  <2> QED BY <1>1, <1>2, <2>1, EveryNumber
<1> QED BY <1>3 DEF S

\* RegisterInterpreter and Registry as the last values of these recursions.
LEMMA RegisterInterpreterIs ==
    ASSUME NEW r, NEW i, r.ok, i.found, Len(i.commands) + Len(i.schedulable) \in Nat
    PROVE  \E f : /\ Registers(f, r, i, Len(i.commands) + Len(i.schedulable))
                  /\ RegisterInterpreter(r, i) = f[Len(i.commands) + Len(i.schedulable)]
<1> DEFINE n == Len(i.commands) + Len(i.schedulable)
           g == CHOOSE f : Registers(f, r, i, n)
<1>1. \E f : Registers(f, r, i, n)
  BY RegistersExists
<1>2. Registers(g, r, i, n)
  BY <1>1
<1>3. RegisterInterpreter(r, i) = g[n]
  BY DEF RegisterInterpreter, Registers
<1> HIDE DEF g
<1> QED BY <1>2, <1>3

LEMMA RegistryIs ==
    ASSUME NEW user, Len(Builtins \o user) \in Nat
    PROVE  \E f : /\ Builds(f, Builtins \o user, Len(Builtins \o user))
                  /\ Registry(user) = f[Len(Builtins \o user)]
<1> DEFINE all == Builtins \o user
           g == CHOOSE f : Builds(f, all, Len(all))
<1>1. \E f : Builds(f, all, Len(all))
  BY BuildsExists
<1>2. Builds(g, all, Len(all))
  BY <1>1
<1>3. Registry(user) = g[Len(all)]
  BY DEF Registry, Builds
<1> HIDE DEF g
<1> QED BY <1>2, <1>3

-----------------------------------------------------------------------------
(* One interpreter *)

\* Every name: the prover does not know that a literal is a STRING.
Words == STRING \cup {"scheduler", "scheduler.getSchedule", "calibration",
                      "calibration.generation", "experiment", "experiment.setValue",
                      "experiment.submit", "experiment.getResult", "link", "link.control",
                      "link.hello"}

Interpreters ==
    [name : Words, ns : Words, builtin : BOOLEAN, core : BOOLEAN, found : BOOLEAN,
     commands : Seq(Words), schedulable : Seq(Words), known : BOOLEAN]

Registries ==
    [ok : BOOLEAN, core : SUBSET (Words \X Words), plugins : SUBSET (Words \X Words),
     handlers : SUBSET (Words \X Words)]

\* The command gets its handler and every other command keeps its own.
HandlerSet(r, q, i, cmd) ==
    /\ <<cmd, i.name>> \in q.handlers
    /\ \A h \in r.handlers : h[1] # cmd => h \in q.handlers

\* Nothing is forgotten, and i adds only to its own list.
EntriesGrow(r, q, i) ==
    /\ r.core \subseteq q.core /\ r.plugins \subseteq q.plugins
    /\ ~i.builtin => q.core = r.core
    /\ \A c \in q.core : c \in r.core \/ (i.builtin /\ i.core /\ c[1] = i.ns)

\* Where the command of i is entered, if core is what the list was before i.
Entered(q, i, cmd, core) ==
    IF i.builtin THEN <<i.ns, cmd>> \in (IF i.core THEN q.core ELSE q.plugins)
    ELSE i.ns \notin Spaces(core) => <<i.ns, cmd>> \in q.plugins

LEMMA CommandIsRegistered ==
    ASSUME NEW r \in Registries, NEW i \in Interpreters, NEW cmd \in Words
    PROVE  LET q == RegisterCommand(r, i, cmd)
           IN  /\ q \in Registries
               /\ q.ok => /\ r.ok /\ ~Refused(r, i, cmd) /\ EntriesGrow(r, q, i)
                          /\ HandlerSet(r, q, i, cmd) /\ Entered(q, i, cmd, r.core)
<1> DEFINE q == RegisterCommand(r, i, cmd)
           entry == {<<i.ns, cmd>>}
           inCore == IF i.builtin THEN i.core ELSE i.ns \in Spaces(r.core)
<1>1. CASE ~r.ok \/ Refused(r, i, cmd)
  <2>1. q = [r EXCEPT !.ok = FALSE]
    BY <1>1 DEF RegisterCommand
  <2>2. q \in Registries /\ ~q.ok
    BY <2>1 DEF Registries
  <2> QED BY <2>2
<1>2. CASE r.ok /\ ~Refused(r, i, cmd)
  <2>1. q = [r EXCEPT !.core = IF i.builtin /\ inCore THEN @ \cup entry ELSE @,
                      !.plugins = IF inCore THEN @ ELSE @ \cup entry,
                      !.handlers = {h \in @ : h[1] # cmd} \cup {<<cmd, i.name>>}]
    BY <1>2 DEF RegisterCommand
  <2>2. i.name \in Words /\ i.ns \in Words /\ i.builtin \in BOOLEAN /\ i.core \in BOOLEAN
    BY DEF Interpreters
  <2>3. /\ q.ok = r.ok
        /\ q.core = IF i.builtin /\ inCore THEN r.core \cup entry ELSE r.core
        /\ q.plugins = IF inCore THEN r.plugins ELSE r.plugins \cup entry
        /\ q.handlers = {h \in r.handlers : h[1] # cmd} \cup {<<cmd, i.name>>}
        /\ q = [ok |-> q.ok, core |-> q.core, plugins |-> q.plugins, handlers |-> q.handlers]
    <3> HIDE DEF inCore
    <3> QED BY <2>1 DEF Registries
  <2>4. /\ r.ok \in BOOLEAN /\ r.core \subseteq Words \X Words
        /\ r.plugins \subseteq Words \X Words /\ r.handlers \subseteq Words \X Words
    BY DEF Registries
  <2>5. entry \subseteq Words \X Words /\ <<cmd, i.name>> \in Words \X Words
    BY <2>2
  <2> HIDE DEF q
  <2>6. q \in Registries
    <3>1. /\ q.ok \in BOOLEAN /\ q.core \subseteq Words \X Words
          /\ q.plugins \subseteq Words \X Words /\ q.handlers \subseteq Words \X Words
      <4> HIDE DEF inCore
      <4> QED BY <2>3, <2>4, <2>5
    <3> QED BY <2>3, <3>1 DEF Registries
  <2>7. EntriesGrow(r, q, i)
    <3>1. \A c \in entry : c[1] = i.ns
      OBVIOUS
    <3> HIDE DEF entry
    <3> QED BY <2>3, <3>1 DEF EntriesGrow
  <2>8. HandlerSet(r, q, i, cmd)
    BY <2>3 DEF HandlerSet
  <2>9. Entered(q, i, cmd, r.core)
    BY <2>3 DEF Entered
  <2> QED BY <1>2, <2>6, <2>7, <2>8, <2>9 DEF q
<1> QED BY <1>1, <1>2 DEF Registries

LEMMA SchedulableIsRegistered ==
    ASSUME NEW r \in Registries, NEW i \in Interpreters, NEW cmd \in Words
    PROVE  LET q == RegisterSchedulable(r, i, cmd)
           IN  /\ q \in Registries
               /\ q.ok => /\ r.ok /\ q.core = r.core /\ q.plugins = r.plugins
                          /\ HandlerSet(r, q, i, cmd)
<1> DEFINE q == RegisterSchedulable(r, i, cmd)
<1>1. CASE ~r.ok \/ ~i.known
  <2>1. q = [r EXCEPT !.ok = FALSE]
    BY <1>1 DEF RegisterSchedulable
  <2>2. q \in Registries /\ ~q.ok
    BY <2>1 DEF Registries
  <2> QED BY <2>2
<1>2. CASE r.ok /\ i.known
  <2>1. q = [r EXCEPT !.handlers = {h \in @ : h[1] # cmd} \cup {<<cmd, i.name>>}]
    BY <1>2 DEF RegisterSchedulable
  <2>2. i.name \in Words
    BY DEF Interpreters
  <2>3. /\ q.ok = r.ok /\ q.core = r.core /\ q.plugins = r.plugins
        /\ q.handlers = {h \in r.handlers : h[1] # cmd} \cup {<<cmd, i.name>>}
        /\ q = [ok |-> q.ok, core |-> q.core, plugins |-> q.plugins, handlers |-> q.handlers]
    BY <2>1 DEF Registries
  <2>4. r.handlers \subseteq Words \X Words /\ <<cmd, i.name>> \in Words \X Words
    BY <2>2 DEF Registries
  <2> HIDE DEF q
  <2>5. q \in Registries
    BY <2>3, <2>4 DEF Registries
  <2>6. HandlerSet(r, q, i, cmd)
    BY <2>3 DEF HandlerSet
  <2> QED BY <1>2, <2>3, <2>5, <2>6 DEF q
<1> QED BY <1>1, <1>2 DEF Registries, Interpreters

\* What the registry is after the first k commands of i.
Partly(r, q, i, k) ==
    /\ r.ok /\ EntriesGrow(r, q, i)
    /\ \A h \in r.handlers : h[1] \notin Commands(i) => h \in q.handlers
    /\ \A l \in DOMAIN i.commands : l <= k =>
           /\ ~Refused(r, i, i.commands[l])
           /\ <<i.commands[l], i.name>> \in q.handlers
           /\ Entered(q, i, i.commands[l], r.core)
    /\ \A l \in DOMAIN i.schedulable : Len(i.commands) + l <= k =>
           <<i.schedulable[l], i.name>> \in q.handlers

\* A command that is refused is refused after other commands of its interpreter, too.
LEMMA RefusedLater ==
    ASSUME NEW r, NEW q, NEW i, NEW cmd, EntriesGrow(r, q, i), Refused(r, i, cmd)
    PROVE  Refused(q, i, cmd)
BY DEF EntriesGrow, Refused, Spaces

LEMMA HandlersOf ==
    ASSUME NEW r, NEW q, NEW i, NEW cmd, NEW h, HandlerSet(r, q, i, cmd), h \in r.handlers,
           h[1] # cmd \/ h = <<cmd, i.name>>
    PROVE  h \in q.handlers
BY DEF HandlerSet

LEMMA CommandAdds ==
    ASSUME NEW r \in Registries, NEW i \in Interpreters, NEW p \in Registries,
           NEW k \in DOMAIN i.commands, Partly(r, p, i, k - 1),
           RegisterCommand(p, i, i.commands[k]).ok
    PROVE  Partly(r, RegisterCommand(p, i, i.commands[k]), i, k)
<1> DEFINE cmd == i.commands[k]
           q == RegisterCommand(p, i, cmd)
<1>0. /\ i.commands \in Seq(Words) /\ i.schedulable \in Seq(Words) /\ k \in Nat
      /\ Len(i.commands) \in Nat /\ cmd \in Words /\ cmd \in Commands(i)
      /\ k <= Len(i.commands)
      /\ DOMAIN i.commands = 1 .. Len(i.commands)
      /\ DOMAIN i.schedulable = 1 .. Len(i.schedulable)
  BY DEF Interpreters, Commands
<1>1. /\ ~Refused(p, i, cmd) /\ EntriesGrow(p, q, i) /\ HandlerSet(p, q, i, cmd)
      /\ Entered(q, i, cmd, p.core)
  BY <1>0, CommandIsRegistered
<1> HIDE DEF q, cmd
<1>2. r.ok /\ EntriesGrow(r, p, i)
  BY DEF Partly
<1>3. EntriesGrow(r, q, i)
  <2>1. r.core \subseteq q.core /\ r.plugins \subseteq q.plugins
    BY <1>1, <1>2 DEF EntriesGrow
  <2>2. ~i.builtin => q.core = r.core
    BY <1>1, <1>2 DEF EntriesGrow
  <2>3. \A c \in q.core : c \in r.core \/ (i.builtin /\ i.core /\ c[1] = i.ns)
    BY <1>1, <1>2 DEF EntriesGrow
  <2> QED BY <2>1, <2>2, <2>3 DEF EntriesGrow
<1>4. ~Refused(r, i, cmd)
  BY <1>1, <1>2, RefusedLater
<1>5. Entered(q, i, cmd, r.core)
  BY <1>1, <1>2 DEF Entered, EntriesGrow
<1>6. \A h \in r.handlers : h[1] \notin Commands(i) => h \in q.handlers
  BY <1>0, <1>1 DEF Partly, HandlerSet
<1>7. <<cmd, i.name>> \in q.handlers
  BY <1>1 DEF HandlerSet
<1>8. ASSUME NEW l \in DOMAIN i.commands, l <= k
      PROVE  /\ ~Refused(r, i, i.commands[l])
             /\ <<i.commands[l], i.name>> \in q.handlers
             /\ Entered(q, i, i.commands[l], r.core)
  <2>1. CASE l = k
    BY <1>4, <1>5, <1>7, <2>1 DEF cmd
  <2>2. CASE l # k
    <3>1. l \in Nat /\ l <= k - 1
      BY <1>0, <1>8, <2>2
    <3>2. /\ ~Refused(r, i, i.commands[l]) /\ <<i.commands[l], i.name>> \in p.handlers
          /\ Entered(p, i, i.commands[l], r.core)
      BY <3>1 DEF Partly
    <3>3. Entered(q, i, i.commands[l], r.core)
      BY <1>1, <3>2 DEF Entered, EntriesGrow
    <3>4. <<i.commands[l], i.name>>[1] # cmd \/ <<i.commands[l], i.name>> = <<cmd, i.name>>
      OBVIOUS
    <3> QED BY <1>1, <3>2, <3>3, <3>4, HandlersOf
  <2> QED BY <2>1, <2>2
<1>9. ASSUME NEW l \in DOMAIN i.schedulable PROVE ~ (Len(i.commands) + l <= k)
  BY <1>0
<1> QED BY <1>2, <1>3, <1>6, <1>8, <1>9 DEF Partly, q, cmd

LEMMA SchedulableAdds ==
    ASSUME NEW r \in Registries, NEW i \in Interpreters, NEW p \in Registries,
           NEW k \in DOMAIN i.schedulable, Partly(r, p, i, Len(i.commands) + k - 1),
           RegisterSchedulable(p, i, i.schedulable[k]).ok
    PROVE  Partly(r, RegisterSchedulable(p, i, i.schedulable[k]), i, Len(i.commands) + k)
<1> DEFINE cmd == i.schedulable[k]
           q == RegisterSchedulable(p, i, cmd)
<1>0. /\ i.commands \in Seq(Words) /\ i.schedulable \in Seq(Words) /\ k \in Nat
      /\ Len(i.commands) \in Nat /\ cmd \in Words /\ cmd \in Commands(i)
      /\ k >= 1
      /\ DOMAIN i.commands = 1 .. Len(i.commands)
      /\ DOMAIN i.schedulable = 1 .. Len(i.schedulable)
  BY DEF Interpreters, Commands
<1>1. p.ok /\ q.core = p.core /\ q.plugins = p.plugins /\ HandlerSet(p, q, i, cmd)
  BY <1>0, SchedulableIsRegistered
<1> HIDE DEF q, cmd
<1>2. r.ok /\ EntriesGrow(r, p, i)
  BY DEF Partly
<1>3. EntriesGrow(r, q, i)
  BY <1>1, <1>2 DEF EntriesGrow
<1>6. \A h \in r.handlers : h[1] \notin Commands(i) => h \in q.handlers
  BY <1>0, <1>1 DEF Partly, HandlerSet
<1>7. <<cmd, i.name>> \in q.handlers
  BY <1>1 DEF HandlerSet
<1>8. ASSUME NEW l \in DOMAIN i.commands
      PROVE  /\ ~Refused(r, i, i.commands[l])
             /\ <<i.commands[l], i.name>> \in q.handlers
             /\ Entered(q, i, i.commands[l], r.core)
  <2>1. l \in Nat /\ l <= Len(i.commands) + k - 1
    BY <1>0
  <2>2. /\ ~Refused(r, i, i.commands[l]) /\ <<i.commands[l], i.name>> \in p.handlers
        /\ Entered(p, i, i.commands[l], r.core)
    BY <2>1 DEF Partly
  <2>3. Entered(q, i, i.commands[l], r.core)
    BY <1>1, <2>2 DEF Entered
  <2>4. <<i.commands[l], i.name>>[1] # cmd \/ <<i.commands[l], i.name>> = <<cmd, i.name>>
    OBVIOUS
  <2> QED BY <1>1, <2>2, <2>3, <2>4, HandlersOf
<1>9. ASSUME NEW l \in DOMAIN i.schedulable, Len(i.commands) + l <= Len(i.commands) + k
      PROVE  <<i.schedulable[l], i.name>> \in q.handlers
  <2>1. CASE l = k
    BY <1>7, <2>1 DEF cmd
  <2>2. CASE l # k
    <3>1. l \in Nat /\ Len(i.commands) + l <= Len(i.commands) + k - 1
      BY <1>0, <1>9, <2>2
    <3>2. <<i.schedulable[l], i.name>> \in p.handlers
      BY <3>1 DEF Partly
    <3>3. <<i.schedulable[l], i.name>>[1] # cmd \/ <<i.schedulable[l], i.name>> = <<cmd, i.name>>
      OBVIOUS
    <3> QED BY <1>1, <3>2, <3>3, HandlersOf
  <2> QED BY <2>1, <2>2
<1> QED BY <1>2, <1>3, <1>6, <1>8, <1>9 DEF Partly, q, cmd

\* An interpreter that start-up accepts has all its handlers, refused nothing, and
\* left the handlers of all other commands and every entry alone.
LEMMA InterpreterIsRegistered ==
    ASSUME NEW r \in Registries, NEW i \in Interpreters
    PROVE  LET q == RegisterInterpreter(r, i)
           IN  /\ q \in Registries
               /\ q.ok => Partly(r, q, i, Len(i.commands) + Len(i.schedulable))
<1> DEFINE n == Len(i.commands) + Len(i.schedulable)
<1>0. /\ Len(i.commands) \in Nat /\ Len(i.schedulable) \in Nat /\ n \in Nat
      /\ DOMAIN i.commands = 1 .. Len(i.commands)
      /\ DOMAIN i.schedulable = 1 .. Len(i.schedulable)
      /\ i.commands \in Seq(Words) /\ i.schedulable \in Seq(Words)
  BY DEF Interpreters
<1>1. CASE ~r.ok \/ ~i.found
  <2>1. RegisterInterpreter(r, i) = [r EXCEPT !.ok = FALSE]
    BY <1>1 DEF RegisterInterpreter
  <2>2. [r EXCEPT !.ok = FALSE] \in Registries /\ ~[r EXCEPT !.ok = FALSE].ok
    BY DEF Registries
  <2> QED BY <2>1, <2>2
<1>2. CASE r.ok /\ i.found
  <2> HIDE DEF n
  <2>1. PICK f : Registers(f, r, i, n) /\ RegisterInterpreter(r, i) = f[n]
    BY <1>0, <1>2, RegisterInterpreterIs DEF n
  <2>2. \A k \in 0 .. n :
            f[k] = IF k = 0 THEN r
                   ELSE IF k <= Len(i.commands) THEN RegisterCommand(f[k - 1], i, i.commands[k])
                   ELSE RegisterSchedulable(f[k - 1], i, i.schedulable[k - Len(i.commands)])
    BY <2>1 DEF Registers
  <2> DEFINE S == {k \in Nat : k <= n => f[k] \in Registries /\ (f[k].ok => Partly(r, f[k], i, k))}
  <2>3. 0 \in S
    <3>1. f[0] = r
      BY <1>0, <2>2
    <3>2. Partly(r, r, i, 0)
      <4>1. EntriesGrow(r, r, i)
        BY DEF EntriesGrow
      <4>2. \A l \in DOMAIN i.commands : ~ (l <= 0)
        BY <1>0
      <4>3. \A l \in DOMAIN i.schedulable : ~ (Len(i.commands) + l <= 0)
        BY <1>0
      <4> QED BY <1>2, <4>1, <4>2, <4>3 DEF Partly
    <3> QED BY <3>1, <3>2
  <2>4. ASSUME NEW k \in Nat, k \in S PROVE k + 1 \in S
    <3> SUFFICES ASSUME k + 1 <= n
                 PROVE  f[k + 1] \in Registries /\ (f[k + 1].ok => Partly(r, f[k + 1], i, k + 1))
      OBVIOUS
    <3>0. k + 1 \in 0 .. n /\ k + 1 # 0 /\ (k + 1) - 1 = k /\ k <= n
      BY <1>0
    <3>1. f[k] \in Registries /\ (f[k].ok => Partly(r, f[k], i, k))
      BY <2>4, <3>0
    <3> HIDE DEF S
    <3>2. CASE k + 1 <= Len(i.commands)
      <4>1. k + 1 \in DOMAIN i.commands /\ i.commands[k + 1] \in Words
        BY <1>0, <3>2
      <4>2. f[k + 1] = RegisterCommand(f[k], i, i.commands[k + 1])
        BY <2>2, <3>0, <3>2
      <4>3. f[k + 1] \in Registries /\ (f[k + 1].ok => f[k].ok)
        BY <3>1, <4>1, <4>2, CommandIsRegistered
      <4>4. ASSUME f[k + 1].ok PROVE Partly(r, f[k + 1], i, k + 1)
        <5>1. Partly(r, f[k], i, (k + 1) - 1)
          BY <3>0, <3>1, <4>3, <4>4
        <5> QED BY <3>1, <4>1, <4>2, <4>4, <5>1, CommandAdds
      <4> QED BY <4>3, <4>4
    <3>3. CASE ~ (k + 1 <= Len(i.commands))
      <4> DEFINE l == (k + 1) - Len(i.commands)
      <4>1. l \in DOMAIN i.schedulable /\ Len(i.commands) + l = k + 1
            /\ Len(i.commands) + l - 1 = k
        <5>1. ASSUME NEW c \in Nat, NEW d \in Nat, k + 1 <= c + d, ~ (k + 1 <= c)
              PROVE  /\ (k + 1) - c \in 1 .. d /\ c + ((k + 1) - c) = k + 1
                     /\ c + ((k + 1) - c) - 1 = k
          BY <5>1
        <5>2. k + 1 <= Len(i.commands) + Len(i.schedulable)
          BY DEF n
        <5>3. Len(i.commands) \in Nat /\ Len(i.schedulable) \in Nat
          BY <1>0
        <5>4. /\ l \in 1 .. Len(i.schedulable) /\ Len(i.commands) + l = k + 1
              /\ Len(i.commands) + l - 1 = k
          BY <3>3, <5>1, <5>2, <5>3
        <5> HIDE DEF l
        <5> QED BY <1>0, <5>4
      <4>2. i.schedulable[l] \in Words
        <5> HIDE DEF l
        <5> QED BY <1>0, <4>1
      <4>3. f[k + 1] = RegisterSchedulable(f[k], i, i.schedulable[l])
        BY <2>2, <3>0, <3>3
      <4> HIDE DEF l
      <4>4. f[k + 1] \in Registries /\ (f[k + 1].ok => f[k].ok)
        <5>1. /\ RegisterSchedulable(f[k], i, i.schedulable[l]) \in Registries
              /\ RegisterSchedulable(f[k], i, i.schedulable[l]).ok => f[k].ok
          BY <3>1, <4>2, SchedulableIsRegistered
        <5> QED BY <4>3, <5>1
      <4>5. ASSUME f[k + 1].ok PROVE Partly(r, f[k + 1], i, k + 1)
        <5>1. Partly(r, f[k], i, Len(i.commands) + l - 1)
          BY <3>1, <4>1, <4>4, <4>5
        <5>2. Partly(r, RegisterSchedulable(f[k], i, i.schedulable[l]), i, Len(i.commands) + l)
          BY <3>1, <4>1, <4>3, <4>5, <5>1, SchedulableAdds
        <5> QED BY <4>1, <4>3, <5>2
      <4> QED BY <4>4, <4>5
    <3> QED BY <3>2, <3>3
  <2>5. n \in S
    <3>1. S \in SUBSET Nat
      OBVIOUS
    <3> HIDE DEF S
    <3>2. S = Nat
      BY <2>3, <2>4, <3>1, EveryNumber
    <3> QED BY <1>0, <3>2
  <2>6. f[n] \in Registries /\ (f[n].ok => Partly(r, f[n], i, n))
    BY <1>0, <2>5
  <2> QED BY <2>1, <2>6 DEF n
<1> QED BY <1>1, <1>2 DEF Registries, Interpreters

-----------------------------------------------------------------------------
(* All interpreters *)

LEMMA LengthsAdd ==
    ASSUME NEW S, NEW u \in Seq(S), NEW v \in Seq(S)
    PROVE  Len(u \o v) = Len(u) + Len(v)
OBVIOUS

LEMMA TuplesAreSequences ==
    ASSUME NEW S, NEW a \in S, NEW b \in S, NEW c \in S, NEW d \in S
    PROVE  /\ <<>> \in Seq(S) /\ <<a>> \in Seq(S) /\ <<a, b>> \in Seq(S)
           /\ <<a, b, c, d>> \in Seq(S)
OBVIOUS

LEMMA BuiltinIs ==
    ASSUME NEW ns \in Words, NEW isCore \in BOOLEAN, NEW c \in Seq(Words), NEW s \in Seq(Words)
    PROVE  LET i == BuiltinInterpreter(ns, isCore, c, s)
           IN  i \in Interpreters /\ i.builtin /\ i.core = isCore /\ i.ns = ns
BY DEF BuiltinInterpreter, Interpreters

LEMMA BuiltinsAre ==
    /\ Builtins \in Seq(Interpreters) /\ Len(Builtins) = 4
    /\ \A j \in 1 .. 4 : Builtins[j].builtin
    /\ \A j \in 1 .. 4 : Builtins[j].core <=> Builtins[j].ns \in CoreSpaces
    /\ \A j, k \in 1 .. 4 : Builtins[j].ns = Builtins[k].ns => j = k
<1> DEFINE b1 == BuiltinInterpreter("scheduler", TRUE, <<"scheduler.getSchedule">>, <<>>)
           b2 == BuiltinInterpreter("calibration", FALSE, <<"calibration.generation">>, <<>>)
           b3 == BuiltinInterpreter("experiment", FALSE, <<"experiment.setValue">>,
                                    <<"experiment.submit", "experiment.getResult">>)
           b4 == BuiltinInterpreter("link", FALSE, <<"link.control", "link.hello">>, <<>>)
<1>1. /\ <<>> \in Seq(Words) /\ <<"scheduler.getSchedule">> \in Seq(Words)
      /\ <<"calibration.generation">> \in Seq(Words)
      /\ <<"experiment.setValue">> \in Seq(Words)
      /\ <<"experiment.submit", "experiment.getResult">> \in Seq(Words)
      /\ <<"link.control", "link.hello">> \in Seq(Words)
  <2>1. /\ "scheduler.getSchedule" \in Words /\ "calibration.generation" \in Words
        /\ "experiment.setValue" \in Words /\ "experiment.submit" \in Words
        /\ "experiment.getResult" \in Words /\ "link.control" \in Words
        /\ "link.hello" \in Words
    BY DEF Words
  <2> QED BY <2>1, TuplesAreSequences
<1>2. Builtins = <<b1, b2, b3, b4>>
  BY DEF Builtins
<1>3. b1 \in Interpreters /\ b1.builtin /\ b1.core = TRUE /\ b1.ns = "scheduler"
  <2>1. "scheduler" \in Words
    BY DEF Words
  <2> QED BY <1>1, <2>1 DEF BuiltinInterpreter, Interpreters
<1>4. b2 \in Interpreters /\ b2.builtin /\ b2.core = FALSE /\ b2.ns = "calibration"
  <2>1. "calibration" \in Words
    BY DEF Words
  <2> QED BY <1>1, <2>1 DEF BuiltinInterpreter, Interpreters
<1>5. b3 \in Interpreters /\ b3.builtin /\ b3.core = FALSE /\ b3.ns = "experiment"
  <2>1. "experiment" \in Words
    BY DEF Words
  <2> QED BY <1>1, <2>1 DEF BuiltinInterpreter, Interpreters
<1>6. b4 \in Interpreters /\ b4.builtin /\ b4.core = FALSE /\ b4.ns = "link"
  <2>1. "link" \in Words
    BY DEF Words
  <2> QED BY <1>1, <2>1 DEF BuiltinInterpreter, Interpreters
<1> HIDE DEF b1, b2, b3, b4
<1>7. /\ Len(Builtins) = 4 /\ DOMAIN Builtins = 1 .. 4
      /\ Builtins[1] = b1 /\ Builtins[2] = b2 /\ Builtins[3] = b3 /\ Builtins[4] = b4
  BY <1>2
<1>8. \A j \in 1 .. 4 : j = 1 \/ j = 2 \/ j = 3 \/ j = 4
  OBVIOUS
<1>9. Builtins \in Seq(Interpreters)
  BY <1>2, <1>3, <1>4, <1>5, <1>6, TuplesAreSequences
<1>10. \A ns : ns \in CoreSpaces <=> ns = "scheduler"
  <2>1. \A ns : ns \in CoreSpaces <=> \E j \in 1 .. 4 : Builtins[j].core /\ ns = Builtins[j].ns
    BY <1>7 DEF CoreSpaces
  <2> QED BY <1>3, <1>4, <1>5, <1>6, <1>7, <1>8, <2>1
<1>11. \A j \in 1 .. 4 : Builtins[j].builtin
  BY <1>3, <1>4, <1>5, <1>6, <1>7, <1>8
<1>12. \A j \in 1 .. 4 : Builtins[j].core <=> Builtins[j].ns \in CoreSpaces
  BY <1>3, <1>4, <1>5, <1>6, <1>7, <1>8, <1>10
<1>13. \A j, k \in 1 .. 4 : Builtins[j].ns = Builtins[k].ns => j = k
  BY <1>3, <1>4, <1>5, <1>6, <1>7, <1>8
<1> QED
  BY <1>7, <1>9, <1>11, <1>12, <1>13

\* What the registry is after the first m interpreters.
Sound(q, all, m) ==
    /\ Spaces(q.core) \subseteq CoreSpaces
    /\ \A j \in DOMAIN all : j <= m =>
           /\ \A cmd \in Commands(all[j]) : <<cmd, all[j].name>> \in q.handlers
           /\ \A l \in DOMAIN all[j].commands :
                  LET entry == <<all[j].ns, all[j].commands[l]>>
                  IN  IF all[j].builtin THEN entry \in (IF all[j].core THEN q.core ELSE q.plugins)
                      ELSE all[j].ns \notin CoreSpaces => entry \in q.plugins

\* A user's interpreter that repeats a command of an earlier one is refused.
LEMMA RepetitionIsRefused ==
    ASSUME NEW q, NEW all, NEW m, NEW j \in DOMAIN all, j <= m, Sound(q, all, m),
           NEW i, NEW l \in DOMAIN all[j].commands,
           i.ns = all[j].ns, ~i.builtin,
           all[j].ns \in CoreSpaces => all[j].builtin,
           all[j].builtin /\ ~all[j].core => all[j].ns \notin CoreSpaces
    PROVE  Refused(q, i, all[j].commands[l])
<1> DEFINE cmd == all[j].commands[l]
<1>1. /\ Spaces(q.core) \subseteq CoreSpaces
      /\ IF all[j].builtin THEN <<i.ns, cmd>> \in (IF all[j].core THEN q.core ELSE q.plugins)
         ELSE all[j].ns \notin CoreSpaces => <<i.ns, cmd>> \in q.plugins
  BY DEF Sound
<1>2. <<i.ns, cmd>> \in q.core => i.ns \in Spaces(q.core)
  BY DEF Spaces
<1>3. <<i.ns, cmd>> \in q.plugins => i.ns \in Spaces(q.plugins)
  BY DEF Spaces
<1> HIDE DEF cmd
<1>4. CASE <<i.ns, cmd>> \in q.core
  BY <1>2, <1>4 DEF Refused, cmd
<1>5. CASE <<i.ns, cmd>> \in q.plugins /\ i.ns \notin CoreSpaces
  BY <1>1, <1>3, <1>5 DEF Refused, cmd
<1> QED BY <1>1, <1>4, <1>5

\* Without a command that is given twice, every handler stays.
LEMMA RegistryIsSound ==
    ASSUME NEW user \in Seq(UserInterpreters), OwnNames(user), Registry(user).ok
    PROVE  Sound(Registry(user), Builtins \o user, Len(Builtins \o user))
<1> DEFINE all == Builtins \o user
           n == Len(all)
<1>0. /\ all \in Seq(Interpreters) /\ n \in Nat /\ DOMAIN all = 1 .. n
      /\ \A j \in DOMAIN all : all[j] \in Interpreters
      /\ \A j \in DOMAIN all : all[j].builtin <=> j <= 4
      /\ \A j \in DOMAIN all : all[j].builtin => (all[j].core <=> all[j].ns \in CoreSpaces)
      /\ \A j, k \in DOMAIN all : all[j].builtin /\ all[k].builtin /\ all[j].ns = all[k].ns => j = k
  <2>1. Builtins \in Seq(Interpreters) /\ Len(Builtins) = 4
    BY BuiltinsAre
  <2>2. user \in Seq(Interpreters) /\ Len(user) \in Nat
    <3>1. Seq(STRING) \subseteq Seq(Words)
      BY SeqMonotonic DEF Words
    <3>2. UserInterpreters \subseteq Interpreters
      BY <3>1 DEF UserInterpreters, Interpreters, Words
    <3>3. Seq(UserInterpreters) \subseteq Seq(Interpreters)
      BY <3>2, SeqMonotonic
    <3> QED BY <3>3
  <2>3. all \in Seq(Interpreters) /\ n = 4 + Len(user)
    <3>1. all \in Seq(Interpreters)
      BY <2>1, <2>2, ConcatProperties
    <3>2. Builtins \in Seq(Interpreters) /\ user \in Seq(Interpreters)
      BY <2>1, <2>2
    <3>3. Len(all) = Len(Builtins) + Len(user)
      BY <3>2, LengthsAdd
    <3> QED BY <2>1, <3>1, <3>3
  <2>4. DOMAIN all = 1 .. n /\ n \in Nat
    BY <2>2, <2>3
  <2>5. \A j \in 1 .. n : all[j] = IF j <= 4 THEN Builtins[j] ELSE user[j - 4]
    BY <2>1, <2>2, <2>3
  <2>6. \A j \in 1 .. n : j <= 4 => j \in 1 .. 4
    OBVIOUS
  <2>7. \A j \in 1 .. n : ~ (j <= 4) => ~user[j - 4].builtin
    <3>1. \A j \in 1 .. n : ~ (j <= 4) => j - 4 \in 1 .. Len(user)
      BY <2>2, <2>3
    <3>2. \A j \in 1 .. Len(user) : user[j] \in UserInterpreters
      OBVIOUS
    <3>3. \A i \in UserInterpreters : ~i.builtin
      BY DEF UserInterpreters
    <3> QED BY <3>1, <3>2, <3>3
  <2>8. \A j \in 1 .. n : all[j] \in Interpreters
    BY <2>3, <2>4
  <2> HIDE DEF all, n
  <2>9. \A j \in 1 .. n : all[j].builtin <=> j <= 4
    BY <2>5, <2>6, <2>7, BuiltinsAre
  <2>10. \A j \in 1 .. n : all[j].builtin => (all[j].core <=> all[j].ns \in CoreSpaces)
    BY <2>5, <2>6, <2>9, BuiltinsAre
  <2>11. \A j, k \in 1 .. n : all[j].builtin /\ all[k].builtin /\ all[j].ns = all[k].ns => j = k
    BY <2>5, <2>6, <2>9, BuiltinsAre
  <2> QED
    BY <2>3, <2>4, <2>8, <2>9, <2>10, <2>11
<1>1. PICK f : Builds(f, all, n) /\ Registry(user) = f[n]
  BY <1>0, RegistryIs
<1>2. \A k \in 0 .. n : f[k] = IF k = 0 THEN Empty ELSE RegisterInterpreter(f[k - 1], all[k])
  BY <1>1 DEF Builds
<1>3. \A j, k \in DOMAIN all : j # k =>
          \A cmd \in Commands(all[j]) \cap Commands(all[k]) :
              /\ all[j].ns = all[k].ns
              /\ all[j].schedulable = <<>> /\ all[k].schedulable = <<>>
              /\ all[j].ns \in CoreSpaces => all[j].builtin \/ all[k].builtin
  BY DEF OwnNames
<1> HIDE DEF all, n
<1> DEFINE S == {m \in Nat : m <= n => f[m] \in Registries /\ (f[m].ok => Sound(f[m], all, m))}
<1>4. 0 \in S
  <2>1. f[0] = Empty
    BY <1>0, <1>2
  <2>2. Empty \in Registries /\ Spaces(Empty.core) = {}
    BY DEF Empty, Registries, Spaces
  <2>3. \A j \in DOMAIN all : ~ (j <= 0)
    BY <1>0
  <2> QED BY <2>1, <2>2, <2>3 DEF Sound
<1>5. ASSUME NEW m \in Nat, m \in S PROVE m + 1 \in S
  <2> SUFFICES ASSUME m + 1 <= n
               PROVE  f[m + 1] \in Registries /\ (f[m + 1].ok => Sound(f[m + 1], all, m + 1))
    OBVIOUS
  <2> DEFINE i == all[m + 1]
             r == f[m]
             q == f[m + 1]
  <2>0. m + 1 \in 0 .. n /\ m + 1 # 0 /\ (m + 1) - 1 = m /\ m <= n /\ m + 1 \in DOMAIN all
    BY <1>0
  <2>1. r \in Registries /\ (r.ok => Sound(r, all, m))
    BY <1>5, <2>0
  <2> HIDE DEF S
  <2>2. q = RegisterInterpreter(r, i) /\ i \in Interpreters
    BY <1>0, <1>2, <2>0
  <2>3. \A j \in DOMAIN all : j <= m + 1 => j = m + 1 \/ (j <= m /\ j # m + 1)
    BY <1>0
  <2> HIDE DEF i, r, q
  <2>4. q \in Registries
    BY <2>1, <2>2, InterpreterIsRegistered
  <2>5. ASSUME q.ok PROVE Sound(q, all, m + 1)
    <3>1. Partly(r, q, i, Len(i.commands) + Len(i.schedulable))
      BY <2>1, <2>2, <2>5, InterpreterIsRegistered
    <3>2. EntriesGrow(r, q, i) /\ Sound(r, all, m)
      BY <2>1, <3>1 DEF Partly
    <3>3. /\ \A cmd \in Commands(i) : <<cmd, i.name>> \in q.handlers
          /\ \A l \in DOMAIN i.commands : ~Refused(r, i, i.commands[l])
          /\ \A l \in DOMAIN i.commands : Entered(q, i, i.commands[l], r.core)
      <4>1. /\ Len(i.commands) \in Nat /\ Len(i.schedulable) \in Nat
            /\ DOMAIN i.commands = 1 .. Len(i.commands)
            /\ DOMAIN i.schedulable = 1 .. Len(i.schedulable)
        BY <2>2 DEF Interpreters
      <4>0. ASSUME NEW c \in Nat, NEW d \in Nat
            PROVE  /\ \A l \in 1 .. c : l <= c + d
                   /\ \A l \in 1 .. d : c + l <= c + d
        OBVIOUS
      <4>2. \A l \in DOMAIN i.commands : l <= Len(i.commands) + Len(i.schedulable)
        BY <4>0, <4>1
      <4>3. \A l \in DOMAIN i.schedulable :
                Len(i.commands) + l <= Len(i.commands) + Len(i.schedulable)
        BY <4>0, <4>1
      <4>4. /\ \A l \in DOMAIN i.commands :
                   /\ ~Refused(r, i, i.commands[l])
                   /\ <<i.commands[l], i.name>> \in q.handlers
                   /\ Entered(q, i, i.commands[l], r.core)
            /\ \A l \in DOMAIN i.schedulable : <<i.schedulable[l], i.name>> \in q.handlers
        BY <3>1, <4>2, <4>3 DEF Partly
      <4> QED BY <4>4 DEF Commands
    <3>4. Spaces(q.core) \subseteq CoreSpaces
      <4> SUFFICES ASSUME NEW c \in q.core PROVE c[1] \in CoreSpaces
        BY DEF Spaces
      <4>1. c \in r.core \/ (i.builtin /\ i.core /\ c[1] = i.ns)
        BY <3>2 DEF EntriesGrow
      <4>2. CASE c \in r.core
        BY <3>2, <4>2 DEF Sound, Spaces
      <4>3. CASE i.builtin /\ i.core /\ c[1] = i.ns
        BY <1>0, <2>0, <4>3 DEF i
      <4> QED BY <4>1, <4>2, <4>3
    <3>5. ASSUME NEW j \in DOMAIN all, j <= m, j # m + 1,
                 NEW cmd \in Commands(all[j])
          PROVE  <<cmd, all[j].name>> \in q.handlers
      <4>1. <<cmd, all[j].name>> \in r.handlers
        BY <3>2, <3>5 DEF Sound
      <4>2. CASE cmd \notin Commands(i)
        <5>1. <<cmd, all[j].name>>[1] = cmd
          OBVIOUS
        <5> QED BY <3>1, <4>1, <4>2, <5>1 DEF Partly
      <4>3. CASE cmd \in Commands(i)
        <5>1. /\ all[j].ns = i.ns /\ all[j].schedulable = <<>> /\ i.schedulable = <<>>
              /\ all[j].ns \in CoreSpaces => all[j].builtin \/ i.builtin
          BY <1>3, <2>0, <3>5, <4>3 DEF i
        <5>2. DOMAIN <<>> = {}
          OBVIOUS
        <5>3. PICK l \in DOMAIN all[j].commands : cmd = all[j].commands[l]
          BY <5>1, <5>2 DEF Commands
        <5>4. PICK k \in DOMAIN i.commands : cmd = i.commands[k]
          BY <4>3, <5>1, <5>2 DEF Commands
        <5>5. ~i.builtin
          <6> SUFFICES ASSUME i.builtin PROVE FALSE
            OBVIOUS
          <6>1. m + 1 <= 4
            BY <1>0, <2>0 DEF i
          <6>2. j <= 4 /\ j \in Nat
            BY <1>0, <3>5, <6>1
          <6>3. all[j].builtin
            BY <1>0, <6>2
          <6> QED BY <1>0, <2>0, <3>5, <5>1, <6>3 DEF i
        <5>6. all[j].builtin /\ ~all[j].core => all[j].ns \notin CoreSpaces
          BY <1>0
        <5>7. Refused(r, i, cmd)
          BY <3>2, <3>5, <5>1, <5>3, <5>5, <5>6, RepetitionIsRefused
        <5> QED BY <3>3, <5>4, <5>7
      <4> QED BY <4>2, <4>3
    <3>6. ASSUME NEW j \in DOMAIN all, j <= m + 1, NEW l \in DOMAIN all[j].commands
          PROVE  LET entry == <<all[j].ns, all[j].commands[l]>>
                 IN  IF all[j].builtin
                     THEN entry \in (IF all[j].core THEN q.core ELSE q.plugins)
                     ELSE all[j].ns \notin CoreSpaces => entry \in q.plugins
      <4>1. CASE j = m + 1
        BY <3>2, <3>3, <4>1 DEF i, Entered, Sound
      <4>2. CASE j <= m
        BY <3>2, <4>2 DEF Sound, EntriesGrow
      <4> QED BY <2>3, <3>6, <4>1, <4>2
    <3>7. ASSUME NEW j \in DOMAIN all, j <= m + 1, NEW cmd \in Commands(all[j])
          PROVE  <<cmd, all[j].name>> \in q.handlers
      BY <2>3, <3>3, <3>5, <3>7 DEF i
    <3> QED BY <3>4, <3>6, <3>7 DEF Sound
  <2> QED BY <2>4, <2>5 DEF q
<1>6. n \in S
  <2>1. S \in SUBSET Nat
    OBVIOUS
  <2> HIDE DEF S
  <2>2. S = Nat
    BY <1>4, <1>5, <2>1, EveryNumber
  <2> QED BY <1>0, <2>2
<1>7. f[n].ok => Sound(f[n], all, n)
  BY <1>0, <1>6
<1> QED BY <1>1, <1>7 DEF all, n

\* The agent serves only with a registry that was accepted.
Accepted == loop = "server" => Registry(setup.user).ok

\* The handlers stand: start-up accepts a configuration in which no command is given
\* twice only if the commands of every interpreter, built-in or a user's, reach it,
\* for any number of interpreters and commands.
THEOREM HandlersAreKept == Spec => []HandlersStand
<1>1. Init => TypeOK /\ Accepted
  BY TypesInit DEF Init, Accepted
<1>2. TypeOK /\ Accepted /\ [Next]_vars => (TypeOK /\ Accepted)'
  <2> SUFFICES ASSUME TypeOK, Accepted, [Next]_vars PROVE (TypeOK /\ Accepted)'
    OBVIOUS
  <2>1. TypeOK'
    BY TypesNext
  <2>2. setup' = setup /\ (loop' = "server" => loop = "server" \/ Build)
    <3> USE DEF counters, shellVars, registerVars, linkVars, exitVars, controllerVars
    <3>1. CASE Loop \/ ExitAnswered \/ ExitTimesOut
      BY <3>1 DEF Loop, StartUp, Build, StartServer, StartTasks, MainLoopEnds, HandleExit,
                  RunCommand, ExitAnswered, ExitTimesOut
    <3>2. CASE Registration \/ LinkManager \/ Serve \/ Lose
      BY <3>2 DEF Registration, RegisterConnects, RegisterAnswered, RegisterTimesOut,
                  RegisterAgain, LinkManager, LinkConnects, WatchRegistration, LinkStarts,
                  Serve, Lose
    <3>3. CASE Shell \/ User \/ Signals
      BY <3>3 DEF Shell, Ready, CommandReturns, CommandTimesOut, SetReturns, MainEnds, User,
                  TypeCommand, TypeSet, LoggingConsole, Monitor, Leave, Signals, Terminate,
                  InterruptPrompt, InterruptCommand, InterruptThread, Abort
    <3>4. CASE UNCHANGED vars
      BY <3>4 DEF vars
    <3> QED BY <3>1, <3>2, <3>3, <3>4 DEF Next
  <2>3. Build => (loop' = "server" => Registry(setup.user).ok)
    BY DEF Build
  <2>4. Accepted'
    BY <2>2, <2>3 DEF Accepted
  <2> QED BY <2>1, <2>4
<1>3. TypeOK /\ Accepted => HandlersStand
  <2> SUFFICES ASSUME setup \in Setups, Registry(setup.user).ok, OwnNames(setup.user)
               PROVE  \A j \in DOMAIN (Builtins \o setup.user) :
                          LET i == (Builtins \o setup.user)[j]
                          IN  \A cmd \in Commands(i) :
                                  <<cmd, i.name>> \in Registry(setup.user).handlers
    BY DEF TypeOK, Accepted, HandlersStand
  <2> DEFINE all == Builtins \o setup.user
  <2>1. setup.user \in Seq(UserInterpreters)
    BY ProcessAssumption
  <2>2. Sound(Registry(setup.user), all, Len(all))
    BY <2>1, RegistryIsSound
  <2>3. \A j \in DOMAIN all : j <= Len(all)
    <3>1. Len(Builtins) \in Nat /\ Len(setup.user) \in Nat
      BY <2>1, BuiltinsAre
    <3>2. DOMAIN all = 1 .. Len(all)
      BY <2>1, BuiltinsAre
    <3> QED BY <3>2
  <2> HIDE DEF all
  <2>4. \A j \in DOMAIN all : \A cmd \in Commands(all[j]) :
            <<cmd, all[j].name>> \in Registry(setup.user).handlers
    BY <2>2, <2>3 DEF Sound
  <2> QED BY <2>4 DEF all
<1> QED
  BY <1>1, <1>2, <1>3, PTL DEF Spec

-----------------------------------------------------------------------------
(* Both shells *)

\* What the shells add only restricts and observes AgentProcess.
LEMMA ShellsStep == [ShellsNext]_shellsVars => [Next]_vars
<1> SUFFICES ASSUME [ShellsNext]_shellsVars PROVE [Next]_vars
  OBVIOUS
<1>1. CASE LocalSet \/ LocalSetReturns \/ OtherStep
  BY <1>1 DEF LocalSet, LocalSetReturns, OtherStep, Next, User, Shell
<1>2. CASE SessionConnects \/ SessionAsks \/ SessionAnswered \/ SessionTimesOut
               \/ SessionMonitors \/ SessionEnds
  BY <1>2 DEF SessionConnects, SessionAsks, SessionAnswered, SessionTimesOut,
              SessionMonitors, SessionEnds
<1>3. CASE Handler \/ Unserved
  BY <1>3 DEF Handler, ServeAtOnce, ServeLink, LinkServed, RemoteSet, RemoteSetReturns, Unserved
<1>4. CASE UNCHANGED shellsVars
  BY <1>4 DEF shellsVars
<1> QED
  BY <1>1, <1>2, <1>3, <1>4 DEF ShellsNext

\* The process with both shells behaves as AgentProcess says: every theorem
\* about Spec holds for it.
THEOREM ShellsImplementProcess == ShellsSpec => Spec
<1>1. ShellsInit => Init
  BY DEF ShellsInit
<1> QED
  BY <1>1, ShellsStep, PTL DEF ShellsSpec, Spec

\* Only TypeSet enters the local set.
LEMMA OnlySetSets ==
    ASSUME TypeOK, Next, ~TypeSet
    PROVE  main' = "set" => main = "set"
<1> USE DEF TypeOK, InShell, Over
<1>1. CASE Loop \/ ExitAnswered \/ ExitTimesOut
  BY <1>1 DEF Loop, StartUp, Build, StartServer, StartTasks, MainLoopEnds, HandleExit, RunCommand,
              ExitAnswered, ExitTimesOut
<1>2. CASE Registration \/ LinkManager \/ Serve \/ Lose
  BY <1>2 DEF Registration, LinkManager, RegisterConnects, RegisterAnswered, RegisterTimesOut,
              RegisterAgain, LinkConnects, WatchRegistration, LinkStarts, Serve, Lose
<1>3. CASE Shell \/ User \/ Signals
  BY <1>3 DEF Shell, User, Signals, Ready, CommandReturns, CommandTimesOut, SetReturns, MainEnds,
              TypeCommand, LoggingConsole, Monitor, Leave, Abort,
              Terminate, InterruptPrompt, InterruptCommand, InterruptThread
<1> QED
  BY <1>1, <1>2, <1>3 DEF Next

LEMMA ShellsTypesInit == ShellsInit => ShellsTypeOK
<1> SUFFICES ASSUME ShellsInit PROVE ShellsTypeOK
  OBVIOUS
<1>1. TypeOK /\ setup \in Setups
  BY TypesInit DEF ShellsInit, Init
<1>2. asked \in 0 .. setup.requests
  BY <1>1, ShellsAssumption DEF ShellsInit
<1>3. inbox \in Seq(Requests) /\ serving \subseteq Requests /\ half \subseteq Requests
  BY DEF ShellsInit
<1>4. chosen \in HoldTimes /\ torn \in BOOLEAN /\ hold \in [manager : HoldTimes, entries : HoldTimes]
  BY ShellsAssumption DEF ShellsInit
<1> QED
  BY <1>1, <1>2, <1>3, <1>4 DEF ShellsInit, ShellsTypeOK

\* Orphans are requests like any other.
LEMMA OrphansAreRequests ==
    ASSUME ShellsTypeOK, AllOrphaned
    PROVE  /\ inbox' \in Seq(Requests) /\ serving' \subseteq Requests /\ half' \subseteq Requests
           /\ answer' = "none"
           /\ half = {} => half' = {}
           /\ \A r \in half' : \E q \in half : r.value = q.value
           /\ \A r \in half : half = {r} => half' = {Orphan(r)}
<1>1. \A r \in Requests : Orphan(r) \in Requests /\ Orphan(r).value = r.value
  BY DEF Orphan, Requests
<1>2. inbox' \in Seq(Requests)
  <2>1. DOMAIN inbox = 1 .. Len(inbox) /\ Len(inbox) \in Nat
    BY DEF ShellsTypeOK
  <2>2. \A i \in 1 .. Len(inbox) : inbox[i] \in Requests
    BY DEF ShellsTypeOK
  <2>3. inbox' = [i \in 1 .. Len(inbox) |-> Orphan(inbox[i])]
    BY <2>1 DEF AllOrphaned
  <2>4. inbox' \in [1 .. Len(inbox) -> Requests]
    BY <1>1, <2>2, <2>3
  <2> QED
    BY <2>1, <2>4
<1>3. serving' \subseteq Requests /\ half' \subseteq Requests
  BY <1>1 DEF AllOrphaned, ShellsTypeOK
<1>4. /\ half = {} => half' = {}
      /\ \A r \in half' : \E q \in half : r.value = q.value
      /\ \A r \in half : half = {r} => half' = {Orphan(r)}
  BY <1>1 DEF AllOrphaned, ShellsTypeOK
<1> QED
  BY <1>2, <1>3, <1>4 DEF AllOrphaned

LEMMA ShellsTypesNext == ShellsTypeOK /\ [ShellsNext]_shellsVars => ShellsTypeOK'
<1> SUFFICES ASSUME ShellsTypeOK, [ShellsNext]_shellsVars PROVE ShellsTypeOK'
  OBVIOUS
<1>0. TypeOK' /\ setup' = setup /\ setup.requests \in Nat
  <2>1. [Next]_vars /\ TypeOK
    BY ShellsStep DEF ShellsTypeOK
  <2>2. setup' = setup
    BY <2>1
    DEF Next, Loop, StartUp, Build, StartServer, StartTasks, MainLoopEnds, HandleExit, RunCommand,
        ExitAnswered, ExitTimesOut,
        Registration, LinkManager, RegisterConnects, RegisterAnswered, RegisterTimesOut,
        RegisterAgain, LinkConnects, WatchRegistration, LinkStarts, Serve, Lose,
        Shell, User, Signals, Ready, CommandReturns, CommandTimesOut, SetReturns, MainEnds,
        TypeCommand, TypeSet, LoggingConsole, Monitor, Leave, Abort,
        Terminate, InterruptPrompt, InterruptCommand, InterruptThread, vars
  <2> QED
    BY <2>1, <2>2, TypesNext, ShellsAssumption DEF TypeOK
<1> USE DEF ShellsTypeOK
<1>1. CASE LocalSet
  BY <1>0, <1>1 DEF LocalSet, sessionVars
<1>2. CASE LocalSetReturns
  BY <1>0, <1>2 DEF LocalSetReturns, sessionVars
<1>3. CASE OtherStep
  BY <1>0, <1>3 DEF OtherStep, sessionVars
<1>4. CASE SessionConnects
  <2>1. Live("show", TRUE, Default) \in Requests
    BY ShellsAssumption DEF Live, Requests, Actions
  <2> QED
    <3>0. PICK r \in Requests : Send(r)
      BY <1>4, <2>1, Zenon DEF SessionConnects
    <3>1. inbox' \in Seq(Requests)
      BY <3>0 DEF Send
    <3>2. asked' \in 0 .. setup.requests
      BY <1>0, <1>4 DEF SessionConnects, Send
    <3> QED
      BY <1>0, <1>4, <3>1, <3>2 DEF SessionConnects, holdVars
<1>5. CASE SessionAsks
  <2>1. PICK i \in Inputs, n \in HoldTimes : Send(Live(i.do, i.known, n))
    BY <1>5 DEF SessionAsks
  <2>2. Live(i.do, i.known, n) \in Requests
    BY ShellsAssumption DEF Live, Requests
  <2> QED
    BY <1>0, <1>5, <2>1, <2>2 DEF SessionAsks, Send, holdVars
<1>6. CASE SessionAnswered
  BY <1>0, <1>6 DEF SessionAnswered, holdVars
<1>7. CASE SessionTimesOut \/ SessionMonitors \/ SessionEnds
  <2>1. AllOrphaned /\ session' \in {"prompt", "over"} /\ UNCHANGED <<asked, hold, chosen, torn>>
    BY <1>7 DEF SessionTimesOut, SessionMonitors, SessionEnds, holdVars
  <2>2. /\ inbox' \in Seq(Requests) /\ serving' \subseteq Requests /\ half' \subseteq Requests
        /\ answer' = "none"
    BY <2>1, OrphansAreRequests
  <2> QED
    BY <1>0, <2>1, <2>2
<1>8. CASE ServeAtOnce \/ ServeLink \/ RemoteSet
  <2>1. inbox # <<>> /\ inbox' = Tail(inbox)
    BY <1>8 DEF ServeAtOnce, ServeLink, RemoteSet
  <2>2. Head(inbox) \in Requests /\ inbox' \in Seq(Requests)
    BY <2>1
  <2>3. Head(inbox).value \in HoldTimes
    BY <2>2 DEF Requests
  <2>4. answer' \in {"none", "ok", "error"}
    BY <1>8 DEF ServeAtOnce, ServeLink, RemoteSet, Reply, Status
  <2>5. serving' \subseteq Requests /\ half' \subseteq Requests
    BY <1>8, <2>2 DEF ServeAtOnce, ServeLink, RemoteSet
  <2>6. hold' \in [manager : HoldTimes, entries : HoldTimes]
    BY <1>8, <2>3 DEF ServeAtOnce, ServeLink, RemoteSet, holdVars
  <2>7. chosen' = chosen /\ torn' \in BOOLEAN /\ asked' = asked /\ session' = session
    BY <1>8 DEF ServeAtOnce, ServeLink, RemoteSet, holdVars
  <2> QED
    BY <1>0, <2>2, <2>4, <2>5, <2>6, <2>7
<1>9. CASE LinkServed
  BY <1>0, <1>9 DEF LinkServed, Reply, Status, holdVars
<1>10. CASE RemoteSetReturns
  <2>1. PICK r \in half : hold' = [hold EXCEPT !.entries = r.value] /\ Reply(r)
    BY <1>10 DEF RemoteSetReturns
  <2>2. r.value \in HoldTimes
    BY DEF Requests
  <2> QED
    BY <1>0, <1>10, <2>1, <2>2 DEF RemoteSetReturns, Reply, Status
<1>11. CASE Unserved
  BY <1>0, <1>11 DEF Unserved
<1>12. CASE UNCHANGED shellsVars
  BY <1>0, <1>12 DEF shellsVars, sessionVars, holdVars
<1> QED
  BY <1>1, <1>2, <1>3, <1>4, <1>5, <1>6, <1>7, <1>8, <1>9, <1>10, <1>11, <1>12
  DEF ShellsNext, Handler

\* The types of both shells: requests that were given up stay requests, and only
\* the bound of the run limits how many there are.
THEOREM ShellsTypesHold == ShellsSpec => []ShellsTypeOK
BY ShellsTypesInit, ShellsTypesNext, PTL DEF ShellsSpec

-----------------------------------------------------------------------------
(* The settings that two threads write *)

\* What makes SettingsAgree inductive: what the manager has and the entries have
\* not yet is the value of the one set under way.
Halves ==
    /\ half = {} \/ \E r \in Requests : half = {r}
    /\ ~torn =>
        /\ main = "set" => half = {} /\ hold.manager = chosen
        /\ \A r \in half : hold.manager = r.value
        /\ main # "set" /\ half = {} => hold.manager = hold.entries

LEMMA HalvesInit == ShellsInit => Halves
BY DEF ShellsInit, Init, Halves

LEMMA HalvesNext == ShellsTypeOK /\ Halves /\ [ShellsNext]_shellsVars => Halves'
<1> SUFFICES ASSUME ShellsTypeOK, Halves, [ShellsNext]_shellsVars PROVE Halves'
  OBVIOUS
<1>0. /\ torn \in BOOLEAN /\ half \subseteq Requests /\ TypeOK
      /\ hold \in [manager : HoldTimes, entries : HoldTimes]
  BY DEF ShellsTypeOK
<1> USE DEF Halves
<1>1. CASE LocalSet
  <2>1. half' = half /\ main' = "set" /\ (torn' <=> half # {})
    BY <1>1 DEF LocalSet, TypeSet, sessionVars
  <2>2. hold'.manager = chosen'
    BY <1>0, <1>1 DEF LocalSet
  <2> QED
    BY <2>1, <2>2
<1>2. CASE LocalSetReturns
  <2>1. half' = half /\ torn' = torn /\ main = "set" /\ main' = "prompt"
    BY <1>2 DEF LocalSetReturns, SetReturns, sessionVars
  <2>2. hold'.manager = hold.manager /\ hold'.entries = chosen
    BY <1>0, <1>2 DEF LocalSetReturns
  <2> QED
    BY <2>1, <2>2
<1>3. CASE OtherStep
  <2>1. UNCHANGED <<half, hold, chosen>> /\ (torn' <=> torn \/ (main = "set" /\ main' # "set"))
    BY <1>3 DEF OtherStep, sessionVars
  <2>2. main' = "set" => main = "set"
    BY <1>0, <1>3, OnlySetSets DEF OtherStep
  <2> QED
    BY <2>1, <2>2
<1>4. CASE SessionConnects \/ SessionAsks \/ SessionAnswered \/ ServeAtOnce \/ ServeLink \/ LinkServed
  BY <1>4 DEF SessionConnects, SessionAsks, SessionAnswered, ServeAtOnce, ServeLink, LinkServed,
              vars, holdVars
<1>5. CASE SessionTimesOut \/ SessionMonitors \/ SessionEnds
  <2>1. AllOrphaned /\ UNCHANGED <<main, hold, chosen, torn>>
    BY <1>5 DEF SessionTimesOut, SessionMonitors, SessionEnds, holdVars, vars
  <2>2. /\ half = {} => half' = {}
        /\ \A r \in half' : \E q \in half : r.value = q.value
        /\ \A r \in half : half = {r} => half' = {Orphan(r)}
        /\ half' \subseteq Requests
    BY <2>1, OrphansAreRequests
  <2>3. half' = {} \/ \E r \in Requests : half' = {r}
    BY <2>2
  <2>4. half' = {} => half = {}
    BY <2>2
  <2> QED
    BY <2>1, <2>2, <2>3, <2>4
<1>6. CASE RemoteSet
  <2>1. inbox # <<>> /\ Head(inbox) \in Requests
    BY <1>6 DEF RemoteSet, ShellsTypeOK
  <2>2. half' = {Head(inbox)} /\ (torn' <=> main = "set") /\ main' = main
    BY <1>6 DEF RemoteSet, vars
  <2>3. hold'.manager = Head(inbox).value
    BY <1>0, <1>6 DEF RemoteSet
  <2> QED
    BY <2>1, <2>2, <2>3
<1>7. CASE RemoteSetReturns
  <2>1. PICK r \in half : hold' = [hold EXCEPT !.entries = r.value]
    BY <1>7 DEF RemoteSetReturns
  <2>2. half' = {} /\ UNCHANGED <<main, torn, chosen>>
    BY <1>7 DEF RemoteSetReturns, vars
  <2>3. hold'.entries = r.value /\ hold'.manager = hold.manager
    BY <1>0, <2>1
  <2> QED
    BY <2>1, <2>2, <2>3
<1>8. CASE Unserved
  <2>1. half' = {} /\ (torn' <=> torn \/ half # {}) /\ UNCHANGED <<main, hold, chosen>>
    BY <1>8 DEF Unserved, vars
  <2> QED
    BY <2>1
<1>9. CASE UNCHANGED shellsVars
  BY <1>9 DEF shellsVars, sessionVars, holdVars, vars
<1> QED
  BY <1>1, <1>2, <1>3, <1>4, <1>5, <1>6, <1>7, <1>8, <1>9 DEF ShellsNext, Handler

\* The link manager and its entries agree on the hold time whenever no set is under
\* way, for any interleaving of the two threads in which two sets do not overlap.
THEOREM SettingsStayEqual == ShellsSpec => []SettingsAgree
<1>1. ShellsInit => ShellsTypeOK /\ Halves
  BY ShellsTypesInit, HalvesInit
<1>2. ShellsTypeOK /\ Halves /\ [ShellsNext]_shellsVars => (ShellsTypeOK /\ Halves)'
  BY ShellsTypesNext, HalvesNext
<1>3. Halves => SettingsAgree
  BY DEF Halves, SettingsAgree
<1> QED
  BY <1>1, <1>2, <1>3, PTL DEF ShellsSpec
=============================================================================
