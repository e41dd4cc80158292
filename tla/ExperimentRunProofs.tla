------------------------ MODULE ExperimentRunProofs ------------------------
(***************************************************************************)
(* Proofs about ExperimentRun: its type invariant, and that neither a      *)
(* published result nor the answer to a getResult is older than the run it *)
(* stands for.                                                             *)
(***************************************************************************)
EXTENDS ExperimentRun, TLAPS

USE ExperimentRunAssumption

Run == [by : Callers, full : BOOLEAN]

-----------------------------------------------------------------------------
(* Types                                                                   *)

(* What Append does to the list of runs.                                   *)
LEMMA AppendedRun ==
  ASSUME NEW s \in Seq(Run), NEW x \in Run
  PROVE  /\ Append(s, x) \in Seq(Run)
         /\ Len(Append(s, x)) = Len(s) + 1
         /\ Len(s) \in Nat
         /\ \A i \in 1..Len(s) : Append(s, x)[i] = s[i]
         /\ Append(s, x)[Len(s) + 1] = x
OBVIOUS

(* A run once given to ARTIQ stays what it is.                             *)
RunsGrow ==
  /\ Rids \subseteq Rids'
  /\ \A r \in Rids : runs'[r] = runs[r]

-----------------------------------------------------------------------------
(* The inductive invariant                                                 *)

(* An entry of the driver's table is the last run of its caller.           *)
Remembered ==
  /\ \A c \in Callers : expid_to_rid[c] # 0 => runs[expid_to_rid[c]].by = c
  /\ \A r \in Rids : r <= expid_to_rid[runs[r].by]

(* A run that has ended has left its mark on its dataset, or one after it. *)
Stored ==
  \A r \in 1..done : r \in barren \/ r <= data[DatasetOf[runs[r].by]]

(* A task that is not a status check by now has never been one.            *)
FullSoFar ==
  \A r \in Rids : IsFull(runs[r].by) => runs[r].full

(* An operation that ends well has a run of its own.                       *)
JobsKnow ==
  \A j \in jobs : j.ok => j.rid # 0 /\ runs[j.rid].by = j.by

(* publish_result waits for the run it is about or a later one of the      *)
(* task; getResult waits for one that is no older than those asked about.  *)
WaitsForOwn(p) ==
  /\ p.run # 0
  /\ runs[p.run].by = p.by
  /\ runs[p.run].full
  /\ p.rid # 0 => p.run <= p.rid /\ runs[p.rid].by = p.by

WaitsForAll(p) ==
  /\ p.rid # 0
  /\ p.upto <= Len(runs)
  /\ \A r \in 1..p.upto : runs[r].by = p.by => r <= p.rid

Waiting ==
  \A p \in receiving :
    /\ p.by \in Calibrations => WaitsForOwn(p)
    /\ p.by \in Experiments => WaitsForAll(p)

Answered ==
  \A a \in answers :
    /\ a.upto <= Len(runs)
    /\ \A r \in 1..a.upto : runs[r].by = a.by => r <= done

IInv ==
  /\ TypeOK
  /\ Remembered
  /\ Stored
  /\ FullSoFar
  /\ JobsKnow
  /\ Waiting
  /\ ResultsAreFresh
  /\ Answered

-----------------------------------------------------------------------------
LEMMA InitTypes == Init => TypeOK
BY DEF Init, TypeOK, Rids, Callers

(* Between two submissions the sets of the types are what they were.       *)
LEMMA SameRuns ==
  ASSUME runs' = runs
  PROVE  Rids' = Rids /\ Jobs' = Jobs /\ Receivers' = Receivers
BY DEF Rids, Jobs, Receivers

LEMMA FailedIsTyped ==
  ASSUME TypeOK
  PROVE  /\ \A c \in Callers : [x \in Calibrations |-> failed[x] /\ x # c] \in [Calibrations -> BOOLEAN]
         /\ \A j \in jobs : [x \in Calibrations |-> failed[x] \/ x = j.by] \in [Calibrations -> BOOLEAN]
<1>1. failed \in [Calibrations -> BOOLEAN]
  BY DEF TypeOK
<1>2. \A x \in Calibrations : failed[x] \in BOOLEAN
  BY <1>1
<1> QED BY <1>2

LEMMA JobRuns ==
  ASSUME TypeOK, NEW j \in jobs
  PROVE  j.by \in Callers /\ j.rid \in Rids \cup {0} /\ j.ok \in BOOLEAN
BY DEF TypeOK, Jobs

LEMMA ReceiverRuns ==
  ASSUME TypeOK, NEW p \in receiving
  PROVE  /\ p.by \in Callers /\ p.run \in Rids \cup {0} /\ p.rid \in Rids \cup {0} /\ p.upto \in Nat
         /\ p \in Receivers
BY DEF TypeOK, Receivers

LEMMA RunsTyped ==
  ASSUME TypeOK
  PROVE  /\ Len(runs) \in Nat
         /\ \A r \in Rids : /\ runs[r] \in Run
                            /\ runs[r].by \in Callers
                            /\ DatasetOf[runs[r].by] \in Datasets
<1>1. runs \in Seq(Run)
  BY DEF TypeOK, Run
<1>2. Len(runs) \in Nat /\ \A r \in 1..Len(runs) : runs[r] \in Run
  BY <1>1
<1>3. \A r \in Rids : runs[r].by \in Callers
  BY <1>2 DEF Rids, Run
<1> QED BY <1>2, <1>3 DEF Rids

LEMMA NextTypes ==
  ASSUME TypeOK, Waiting, [Next]_vars
  PROVE  TypeOK'
<1>0. Len(runs) \in Nat /\ \A r \in Rids : runs[r] \in Run /\ runs[r].by \in Callers
  BY RunsTyped
<1>1. CASE RunEnds
  <2>1. done + 1 \in Rids
    BY <1>0, <1>1 DEF RunEnds, TypeOK, Rids
  <2>2. data' \in [Datasets -> Rids \cup {0}]
    BY <1>0, <1>1, <2>1 DEF RunEnds, TypeOK
  <2>3. faults' \in Nat /\ barren' \subseteq Rids
    BY <1>1, <2>1 DEF RunEnds, TypeOK, Fault
  <2>4. UNCHANGED <<runs, agent, requests>> /\ done' = done + 1
    BY <1>1 DEF RunEnds
  <2> QED BY <2>1, <2>2, <2>3, <2>4, SameRuns DEF TypeOK, agent
<1>2. ASSUME NEW c \in Callers, Begin(c) PROVE TypeOK'
  <2>1. [by |-> c, full |-> IsFull(c)] \in Run
    BY DEF IsFull, Run
  <2>2. runs' \in Seq(Run) /\ Len(runs') = Len(runs) + 1 /\ Len(runs) \in Nat
    BY <1>2, <2>1, AppendedRun DEF Begin, Run, TypeOK
  <2>3. Rids \subseteq Rids' /\ Len(runs) + 1 \in Rids'
    BY <2>2 DEF Rids
  <2>4. Jobs \subseteq Jobs' /\ Receivers \subseteq Receivers'
    BY <2>3 DEF Jobs, Receivers
  <2>5. expid_to_rid' \in [Callers -> Rids' \cup {0}] /\ checking' \in Rids' \cup {0}
    BY <1>2, <2>3 DEF Begin, Remember, TypeOK
  <2>6. failed' \in [Calibrations -> BOOLEAN] /\ began' \subseteq Callers
    BY <1>2, FailedIsTyped DEF Begin, NoteStart, TypeOK
  <2>7. UNCHANGED <<done, data, barren, status, jobs, receiving, published, answers, dropped, requests, faults>>
    BY <1>2 DEF Begin
  <2>8. data' \in [Datasets -> Rids' \cup {0}] /\ done' \in Rids' \cup {0}
    BY <2>3, <2>7 DEF TypeOK
  <2>9. published' \subseteq [run : Rids', rid : Rids', from : Rids']
    BY <2>3, <2>7 DEF TypeOK
  <2> QED BY <2>2, <2>3, <2>4, <2>5, <2>6, <2>7, <2>8, <2>9 DEF TypeOK, Run
<1>3. ASSUME NEW c \in Callers, BeginFails(c) PROVE TypeOK'
  <2>1. [by |-> c, rid |-> 0, ok |-> FALSE] \in Jobs
    BY DEF Jobs
  <2>2. failed' \in [Calibrations -> BOOLEAN] /\ began' \subseteq Callers
    BY <1>3, FailedIsTyped DEF BeginFails, NoteStart, TypeOK
  <2>3. jobs' \subseteq Jobs /\ faults' \in Nat
    <3>1. jobs \subseteq Jobs
      BY DEF TypeOK
    <3>2. jobs' \subseteq Jobs
      BY <1>3, <2>1, <3>1 DEF BeginFails
    <3>3. faults' \in Nat
      BY <1>3 DEF BeginFails, Fault, TypeOK
    <3> QED BY <3>2, <3>3
  <2>4. UNCHANGED <<artiq, status, expid_to_rid, checking, receiving, published, answers, dropped, requests>>
    BY <1>3 DEF BeginFails
  <2> QED BY <2>2, <2>3, <2>4, SameRuns DEF TypeOK, artiq
<1>4. CASE Check
  <2>1. checking \in Rids /\ InSchedule(checking) \in BOOLEAN
    BY <1>4 DEF Check, LoopFree, InSchedule, TypeOK
  <2>2. [by |-> runs[checking].by, rid |-> checking, ok |-> InSchedule(checking)] \in Jobs
    BY <1>0, <2>1 DEF Jobs
  <2>3. jobs' \subseteq Jobs /\ checking' = 0
    BY <1>4, <2>2 DEF Check, TypeOK
  <2>4. UNCHANGED <<artiq, status, began, failed, expid_to_rid, receiving, published, answers, dropped, requests, faults>>
    BY <1>4 DEF Check
  <2> QED BY <2>3, <2>4, SameRuns DEF TypeOK, artiq
<1>5. ASSUME NEW j \in jobs, JobEnds(j) PROVE TypeOK'
  <2>1. Publisher(j) \in Receivers
    BY JobRuns DEF Publisher, Receivers
  <2>2. failed' \in [Calibrations -> BOOLEAN]
    BY <1>5, FailedIsTyped DEF JobEnds, Fails, Succeeds, TypeOK
  <2>3. receiving' \subseteq Receivers
    BY <1>5, <2>1 DEF JobEnds, Fails, Succeeds, TypeOK
  <2>4. faults' \in Nat /\ jobs' \subseteq Jobs
    BY <1>5 DEF JobEnds, Fault, TypeOK
  <2>5. UNCHANGED <<artiq, status, began, expid_to_rid, checking, published, answers, dropped, requests>>
    BY <1>5 DEF JobEnds
  <2> QED BY <2>2, <2>3, <2>4, <2>5, SameRuns DEF TypeOK, artiq
<1>6. ASSUME NEW c \in Calibrations, Rebook(c) PROVE TypeOK'
  <2>1. dropped' \subseteq Rids /\ jobs' \subseteq Jobs
    BY <1>6, JobRuns DEF Rebook, TypeOK
  <2>2. UNCHANGED <<artiq, status, began, failed, expid_to_rid, checking, receiving, published, answers, requests, faults>>
    BY <1>6 DEF Rebook
  <2> QED BY <2>1, <2>2, SameRuns DEF TypeOK, artiq
<1>7. ASSUME NEW c \in Checked, SwitchToCheck(c) PROVE TypeOK'
  BY <1>7, SameRuns DEF SwitchToCheck, artiq, TypeOK
<1>8. ASSUME NEW p \in receiving, LookUp(p) PROVE TypeOK'
  <2>1. expid_to_rid[p.by] \in Rids \cup {0}
    BY ReceiverRuns DEF TypeOK
  <2>2. [p EXCEPT !.rid = expid_to_rid[p.by]] \in Receivers
    BY <2>1, ReceiverRuns DEF Receivers
  <2>3. receiving' \subseteq Receivers
    BY <1>8, <2>2 DEF LookUp, TypeOK
  <2>4. UNCHANGED <<artiq, status, began, failed, expid_to_rid, checking, jobs, published, answers, dropped, requests, faults>>
    BY <1>8 DEF LookUp
  <2> QED BY <2>3, <2>4, SameRuns DEF TypeOK, artiq
<1>9. ASSUME NEW p \in receiving, Publish(p) PROVE TypeOK'
  <2> DEFINE from == data[DatasetOf[p.by]]
  <2>1. p.run \in Rids /\ p.rid \in Rids /\ from \in Rids \cup {0}
    <3>1. p.run \in Rids /\ p.rid \in Rids /\ DatasetOf[p.by] \in Datasets
      BY <1>9, ReceiverRuns DEF Publish, Waiting, WaitsForOwn
    <3> QED BY <3>1 DEF TypeOK
  <2>2. from # 0 => [run |-> p.run, rid |-> p.rid, from |-> from] \in [run : Rids, rid : Rids, from : Rids]
    BY <2>1
  <2>3. published' \subseteq [run : Rids, rid : Rids, from : Rids]
    <3>1. published \subseteq [run : Rids, rid : Rids, from : Rids]
      BY DEF TypeOK
    <3> QED BY <1>9, <2>2, <3>1 DEF Publish
  <2>4. receiving' \subseteq Receivers
    BY <1>9 DEF Publish, TypeOK
  <2>5. UNCHANGED <<artiq, status, began, failed, expid_to_rid, checking, jobs, answers, dropped, requests, faults>>
    BY <1>9 DEF Publish
  <2> QED BY <2>3, <2>4, <2>5, SameRuns DEF TypeOK, artiq
<1>10. ASSUME NEW p \in receiving, Answer(p) PROVE TypeOK'
  <2>1. [by |-> p.by, upto |-> p.upto] \in [by : Experiments, upto : Nat]
    BY <1>10, ReceiverRuns DEF Answer
  <2>2. answers' \subseteq [by : Experiments, upto : Nat] /\ receiving' \subseteq Receivers
    BY <1>10, <2>1 DEF Answer, TypeOK
  <2>3. UNCHANGED <<artiq, status, began, failed, expid_to_rid, checking, jobs, published, dropped, requests, faults>>
    BY <1>10 DEF Answer
  <2> QED BY <2>2, <2>3, SameRuns DEF TypeOK, artiq
<1>11. ASSUME NEW p \in receiving, WaitFails(p) PROVE TypeOK'
  <2>1. dropped' \subseteq Rids /\ receiving' \subseteq Receivers /\ faults' \in Nat
    BY <1>11, ReceiverRuns DEF WaitFails, Fault, TypeOK
  <2>2. UNCHANGED <<artiq, status, began, failed, expid_to_rid, checking, jobs, published, answers, requests>>
    BY <1>11 DEF WaitFails
  <2> QED BY <2>1, <2>2, SameRuns DEF TypeOK, artiq
<1>12. ASSUME NEW e \in Experiments, Ask(e) PROVE TypeOK'
  <2>1. expid_to_rid[e] \in Rids \cup {0}
    BY DEF TypeOK, Callers
  <2>2. [by |-> e, run |-> 0, rid |-> expid_to_rid[e], upto |-> Len(runs)] \in Receivers
    BY <1>0, <2>1 DEF Receivers, Callers
  <2>3. receiving' \subseteq Receivers /\ requests' \in Nat
    BY <1>12, <2>2 DEF Ask, TypeOK
  <2>4. UNCHANGED <<artiq, status, began, failed, expid_to_rid, checking, jobs, published, answers, dropped, faults>>
    BY <1>12 DEF Ask
  <2> QED BY <2>3, <2>4, SameRuns DEF TypeOK, artiq
<1>13. CASE UNCHANGED vars
  BY <1>13, SameRuns DEF vars, artiq, agent, TypeOK
<1> QED BY <1>1, <1>2, <1>3, <1>4, <1>5, <1>6, <1>7, <1>8, <1>9, <1>10, <1>11, <1>12, <1>13
     DEF Next, OperationEnds, Wait

-----------------------------------------------------------------------------
(* Preservation                                                            *)

LEMMA InitIInv == Init => IInv
<1> SUFFICES ASSUME Init PROVE IInv
  OBVIOUS
<1>1. TypeOK
  BY InitTypes
<1>2. Rids = {} /\ 1..done = {}
  BY DEF Init, Rids
<1> QED BY <1>1, <1>2 DEF Init, IInv, Remembered, Stored, FullSoFar, JobsKnow, Waiting, ResultsAreFresh, Answered

(* The oldest run in the pipeline ends.                                    *)
LEMMA RunEndsKeeps ==
  ASSUME IInv, RunEnds
  PROVE  Remembered' /\ Stored' /\ FullSoFar' /\ JobsKnow' /\ Waiting' /\ ResultsAreFresh' /\ Answered'
<1>1. /\ done' = done + 1 /\ UNCHANGED <<runs, agent>> /\ barren \subseteq barren'
  BY DEF RunEnds
<1>2. done \in Nat /\ Len(runs) \in Nat /\ done + 1 \in Rids
  BY DEF RunEnds, IInv, TypeOK, Rids
<1>3. \A r \in Rids : runs[r].by \in Callers /\ DatasetOf[runs[r].by] \in Datasets
  BY RunsTyped DEF IInv
<1>4. Stored'
  <2> SUFFICES ASSUME NEW r \in 1..done + 1
               PROVE  r \in barren' \/ r <= data'[DatasetOf[runs[r].by]]
    BY <1>1 DEF Stored
  <2>1. data \in [Datasets -> Rids \cup {0}] /\ r \in Rids
    BY <1>2 DEF IInv, TypeOK, Rids
  <2>2. CASE r = done + 1
    BY <1>3, <2>1, <2>2 DEF RunEnds
  <2>3. CASE r \in 1..done
    <3>1. r \in barren \/ r <= data[DatasetOf[runs[r].by]]
      BY <2>3 DEF IInv, Stored
    <3>2. data' = data \/ data' = [data EXCEPT ![DatasetOf[runs[done + 1].by]] = done + 1]
      BY DEF RunEnds
    <3> QED BY <1>1, <1>2, <1>3, <2>1, <2>3, <3>1, <3>2
  <2> QED BY <1>2, <2>2, <2>3
<1>5. Answered'
  <2>1. \A a \in answers : a.upto \in Nat
    BY DEF IInv, TypeOK
  <2> QED BY <1>1, <1>2, <2>1 DEF IInv, Answered, agent
<1>6. ResultsAreFresh'
  BY <1>1 DEF IInv, ResultsAreFresh, agent
<1>7. Remembered' /\ FullSoFar' /\ JobsKnow' /\ Waiting'
  BY <1>1 DEF IInv, Remembered, FullSoFar, JobsKnow, Waiting, WaitsForOwn, WaitsForAll, IsFull, Rids, agent
<1> QED BY <1>4, <1>5, <1>6, <1>7

(* An operation submits a run.                                             *)
LEMMA BeginKeeps ==
  ASSUME IInv, NEW c \in Callers, Begin(c)
  PROVE  Remembered' /\ Stored' /\ FullSoFar' /\ JobsKnow' /\ Waiting' /\ ResultsAreFresh' /\ Answered'
<1> DEFINE new == Len(runs) + 1
<1>1. /\ expid_to_rid' = [expid_to_rid EXCEPT ![c] = new]
      /\ UNCHANGED <<done, data, barren, status, jobs, receiving, published, answers>>
  BY DEF Begin, Remember
<1>2. /\ Len(runs) \in Nat /\ Rids' = Rids \cup {new} /\ new \notin Rids
      /\ Len(runs') = new
      /\ \A r \in Rids : runs'[r] = runs[r]
      /\ runs'[new] = [by |-> c, full |-> IsFull(c)]
  <2>1. [by |-> c, full |-> IsFull(c)] \in Run
    BY DEF IsFull, Run
  <2>2. runs \in Seq(Run) /\ runs' = Append(runs, [by |-> c, full |-> IsFull(c)])
    BY DEF Begin, IInv, TypeOK, Run
  <2> QED BY <2>1, <2>2, AppendedRun DEF Rids
<1>3. expid_to_rid \in [Callers -> Rids \cup {0}] /\ done \in Nat /\ 1..done \subseteq Rids
  BY <1>2 DEF IInv, TypeOK, Rids
<1>4. \A r \in Rids : runs[r].by \in Callers
  BY RunsTyped DEF IInv
<1>5. Remembered'
  <2>1. ASSUME NEW x \in Callers, expid_to_rid'[x] # 0 PROVE runs'[expid_to_rid'[x]].by = x
    <3>1. CASE x = c
      BY <1>1, <1>2, <1>3, <3>1
    <3>2. CASE x # c
      BY <1>1, <1>2, <1>3, <2>1, <3>2 DEF IInv, Remembered
    <3> QED BY <3>1, <3>2
  <2>2. ASSUME NEW r \in Rids' PROVE r <= expid_to_rid'[runs'[r].by]
    <3>1. CASE r = new
      BY <1>1, <1>2, <1>3, <3>1
    <3>2. CASE r \in Rids
      <4>1. runs'[r].by = runs[r].by /\ r <= expid_to_rid[runs[r].by]
        BY <1>2, <3>2 DEF IInv, Remembered
      <4>2. r <= new
        BY <1>2, <3>2 DEF Rids
      <4> QED BY <1>1, <1>3, <1>4, <3>2, <4>1, <4>2
    <3> QED BY <1>2, <3>1, <3>2
  <2> QED BY <2>1, <2>2 DEF Remembered
<1>6. Stored'
  BY <1>1, <1>2, <1>3 DEF IInv, Stored
<1>7. FullSoFar'
  <2> SUFFICES ASSUME NEW r \in Rids', runs'[r].by \in Calibrations, status[runs'[r].by] = "full"
               PROVE  runs'[r].full
    BY <1>1 DEF FullSoFar, IsFull
  <2>1. CASE r = new
    <3>1. runs'[r].by = c /\ runs'[r].full = IsFull(c)
      BY <1>2, <2>1
    <3>2. IsFull(c)
      BY <3>1 DEF IsFull
    <3> QED BY <3>1, <3>2
  <2>2. CASE r \in Rids
    <3>1. runs[r].by \in Calibrations /\ status[runs[r].by] = "full" /\ runs'[r] = runs[r]
      BY <1>2, <2>2
    <3> QED BY <2>2, <3>1 DEF IInv, FullSoFar, IsFull
  <2> QED BY <1>2, <2>1, <2>2
<1>8. JobsKnow'
  BY <1>1, <1>2, JobRuns DEF IInv, JobsKnow
<1>9. Waiting'
  <2> SUFFICES ASSUME NEW p \in receiving
               PROVE  /\ p.by \in Calibrations => WaitsForOwn(p)'
                      /\ p.by \in Experiments => WaitsForAll(p)'
    BY <1>1 DEF Waiting
  <2>1. p.run \in Rids \cup {0} /\ p.rid \in Rids \cup {0} /\ p.upto \in Nat
    BY ReceiverRuns DEF IInv
  <2>2. ASSUME p.by \in Calibrations PROVE WaitsForOwn(p)'
    BY <1>2, <2>1, <2>2 DEF IInv, Waiting, WaitsForOwn
  <2>3. ASSUME p.by \in Experiments PROVE WaitsForAll(p)'
    <3>1. WaitsForAll(p)
      BY <2>3 DEF IInv, Waiting
    <3>2. 1..p.upto \subseteq Rids
      BY <1>2, <2>1, <3>1 DEF WaitsForAll, Rids
    <3> QED BY <1>2, <2>1, <3>1, <3>2 DEF WaitsForAll
  <2> QED BY <2>2, <2>3
<1>10. ResultsAreFresh'
  <2>1. published \subseteq [run : Rids, rid : Rids, from : Rids]
    BY DEF IInv, TypeOK
  <2> QED BY <1>1, <1>2, <2>1 DEF IInv, ResultsAreFresh
<1>11. Answered'
  <2> SUFFICES ASSUME NEW a \in answers
               PROVE  a.upto <= Len(runs') /\ \A r \in 1..a.upto : runs'[r].by = a.by => r <= done
    BY <1>1 DEF Answered
  <2>1. a.upto \in Nat /\ a.upto <= Len(runs) /\ 1..a.upto \subseteq Rids
    BY <1>2 DEF IInv, TypeOK, Answered, Rids
  <2> QED BY <1>2, <2>1 DEF IInv, Answered
<1> QED BY <1>5, <1>6, <1>7, <1>8, <1>9, <1>10, <1>11

(* A wait of publish_result: it begins about the run of an operation that  *)
(* ended well, and looks the last run of the task up.                      *)
LEMMA PublisherWaits ==
  ASSUME IInv, NEW j \in jobs, j.ok, WantsResult(j.by)
  PROVE  WaitsForOwn(Publisher(j)) /\ Publisher(j).by \notin Experiments
<1>1. j.rid # 0 /\ j.rid \in Rids /\ runs[j.rid].by = j.by
  BY JobRuns DEF IInv, JobsKnow
<1>2. runs[j.rid].full
  BY <1>1 DEF IInv, FullSoFar, WantsResult
<1> QED BY <1>1, <1>2 DEF WaitsForOwn, Publisher, WantsResult, IsFull

LEMMA LookUpWaits ==
  ASSUME IInv, NEW p \in receiving, p.rid = 0, NEW q, q = [p EXCEPT !.rid = expid_to_rid[p.by]]
  PROVE  WaitsForOwn(q) /\ q.by \notin Experiments
<1>1. /\ p.by \in Callers /\ p.run \in Rids \cup {0}
      /\ q.by = p.by /\ q.run = p.run /\ q.rid = expid_to_rid[p.by]
  BY ReceiverRuns DEF IInv, Receivers
<1>2. p.by \notin Experiments
  BY DEF IInv, Waiting, WaitsForAll
<1>3. WaitsForOwn(p) /\ p.run \in Rids
  BY <1>1, <1>2 DEF IInv, Waiting, WaitsForOwn, Callers
<1>4. p.run <= expid_to_rid[p.by]
  BY <1>3 DEF IInv, Remembered, WaitsForOwn
<1>5. expid_to_rid[p.by] # 0 => runs[expid_to_rid[p.by]].by = p.by
  BY <1>1 DEF IInv, Remembered
<1> QED BY <1>1, <1>2, <1>3, <1>4, <1>5 DEF WaitsForOwn

(* A getResult waits for the last run of its experiment.                   *)
LEMMA AskWaits ==
  ASSUME IInv, NEW e \in Experiments, expid_to_rid[e] # 0,
         NEW q, q = [by |-> e, run |-> 0, rid |-> expid_to_rid[e], upto |-> Len(runs)]
  PROVE  WaitsForAll(q) /\ q.by \notin Calibrations
<1>1. \A r \in 1..Len(runs) : runs[r].by = e => r <= expid_to_rid[e]
  BY DEF IInv, Remembered, Rids
<1>2. Len(runs) \in Nat
  BY RunsTyped DEF IInv
<1>3. q.by = e /\ q.rid = expid_to_rid[e] /\ q.upto = Len(runs) /\ e \notin Calibrations
  OBVIOUS
<1> QED BY <1>1, <1>2, <1>3 DEF WaitsForAll

(* A published result, when the run waited for has ended.                  *)
LEMMA PublishIsFresh ==
  ASSUME IInv, NEW p \in receiving, p.by \in Calibrations, p.rid # 0, HasEnded(p.rid),
         NEW from, from = data[DatasetOf[p.by]]
  PROVE  /\ runs[p.run].full
         /\ runs[p.rid].by = runs[p.run].by
         /\ p.run <= p.rid
         /\ p.rid \in barren \/ from >= p.rid
<1>1. WaitsForOwn(p)
  BY DEF IInv, Waiting
<1>2. p.rid \in Rids /\ p.rid \in Nat /\ done \in Nat
  BY ReceiverRuns DEF IInv, TypeOK, Rids
<1>3. p.rid \in 1..done
  BY <1>2 DEF HasEnded, InSchedule, Rids
<1>4. runs[p.rid].by = p.by
  BY <1>1 DEF WaitsForOwn
<1>5. from \in Nat
  BY DEF IInv, TypeOK, Rids, Callers
<1>6. p.rid \in barren \/ p.rid <= from
  BY <1>3, <1>4 DEF IInv, Stored
<1> QED BY <1>1, <1>2, <1>5, <1>6 DEF WaitsForOwn

(* An answer to getResult, when the run waited for has ended.              *)
LEMMA AnswerIsDone ==
  ASSUME IInv, NEW p \in receiving, p.by \in Experiments, HasEnded(p.rid)
  PROVE  p.upto <= Len(runs) /\ \A r \in 1..p.upto : runs[r].by = p.by => r <= done
<1>1. WaitsForAll(p)
  BY DEF IInv, Waiting
<1>2. p.rid \in Rids /\ p.upto \in Nat /\ done \in Nat /\ Len(runs) \in Nat
  BY <1>1, ReceiverRuns, RunsTyped DEF IInv, TypeOK, Rids, WaitsForAll
<1>3. p.rid <= done
  BY <1>2 DEF HasEnded, InSchedule, Rids
<1> QED BY <1>1, <1>2, <1>3 DEF WaitsForAll, Rids

-----------------------------------------------------------------------------
(* The steps that leave ARTIQ and the driver's table alone.                *)

LEMMA NextIInv ==
  ASSUME IInv, [Next]_vars
  PROVE  IInv'
<1>0. TypeOK'
  BY NextTypes DEF IInv
<1>a. \A S : S \subseteq receiving /\ receiving' = S /\ runs' = runs => Waiting'
  BY DEF IInv, Waiting, WaitsForOwn, WaitsForAll
<1>b. ASSUME runs' = runs, NEW q, receiving' \subseteq receiving \cup {q},
             q.by \in Calibrations => WaitsForOwn(q), q.by \in Experiments => WaitsForAll(q)
      PROVE  Waiting'
  BY <1>b DEF IInv, Waiting, WaitsForOwn, WaitsForAll
<1>c. UNCHANGED <<artiq, expid_to_rid>> => Remembered' /\ Stored'
  BY DEF IInv, Remembered, Stored, Rids, artiq
<1>d. UNCHANGED <<artiq, status>> => FullSoFar'
  BY DEF IInv, FullSoFar, IsFull, Rids, artiq
<1>e. UNCHANGED runs /\ jobs' \subseteq jobs => JobsKnow'
  BY DEF IInv, JobsKnow
<1>f. UNCHANGED <<artiq, published>> => ResultsAreFresh'
  BY DEF IInv, ResultsAreFresh, artiq
<1>g. UNCHANGED <<artiq, answers>> => Answered'
  BY DEF IInv, Answered, artiq
<1> USE <1>0 DEF IInv
<1>1. CASE RunEnds
  BY <1>1, RunEndsKeeps
<1>2. ASSUME NEW c \in Callers, Begin(c) PROVE IInv'
  BY <1>2, BeginKeeps
<1>3. ASSUME NEW c \in Callers, BeginFails(c) PROVE IInv'
  <2>1. JobsKnow'
    BY <1>3 DEF BeginFails, JobsKnow, artiq
  <2>2. Waiting'
    BY <1>3, <1>a DEF BeginFails, artiq
  <2> QED BY <1>3, <1>c, <1>d, <1>f, <1>g, <2>1, <2>2 DEF BeginFails
<1>4. CASE Check
  <2>1. checking \in Rids
    BY <1>4 DEF Check, LoopFree, TypeOK
  <2>2. JobsKnow'
    BY <1>4, <2>1 DEF Check, JobsKnow, artiq, Rids
  <2>3. Waiting'
    BY <1>4, <1>a DEF Check, artiq
  <2> QED BY <1>4, <1>c, <1>d, <1>f, <1>g, <2>2, <2>3 DEF Check
<1>5. ASSUME NEW j \in jobs, JobEnds(j) PROVE IInv'
  <2>1. runs' = runs /\ jobs' \subseteq jobs
    BY <1>5 DEF JobEnds, artiq
  <2>2. Waiting'
    <3>1. CASE receiving' = receiving
      BY <1>a, <2>1, <3>1
    <3>2. CASE receiving' # receiving
      <4>1. j.ok /\ WantsResult(j.by) /\ receiving' = receiving \cup {Publisher(j)}
        BY <1>5, <3>2 DEF JobEnds, Succeeds, Fails
      <4> QED BY <1>b, <2>1, <4>1, PublisherWaits
    <3> QED BY <3>1, <3>2
  <2>3. JobsKnow'
    BY <1>e, <2>1
  <2> QED BY <1>5, <1>c, <1>d, <1>f, <1>g, <2>2, <2>3 DEF JobEnds
<1>6. ASSUME NEW c \in Calibrations, Rebook(c) PROVE IInv'
  <2>1. Waiting' /\ JobsKnow'
    BY <1>6, <1>a, <1>e DEF Rebook, artiq
  <2> QED BY <1>6, <1>c, <1>d, <1>f, <1>g, <2>1 DEF Rebook
<1>7. ASSUME NEW c \in Checked, SwitchToCheck(c) PROVE IInv'
  <2>1. Waiting' /\ JobsKnow'
    BY <1>7, <1>a, <1>e DEF SwitchToCheck, artiq
  <2>2. FullSoFar'
    <3>1. status \in [Calibrations -> {"full", "check"}] /\ UNCHANGED artiq
      BY <1>7 DEF TypeOK, SwitchToCheck
    <3>2. \A x \in Calibrations : status'[x] = "full" => status[x] = "full"
      BY <1>7, <3>1 DEF SwitchToCheck
    <3> QED BY <3>1, <3>2 DEF FullSoFar, IsFull, Rids, artiq
  <2> QED BY <1>7, <1>c, <1>f, <1>g, <2>1, <2>2 DEF SwitchToCheck
<1>8. ASSUME NEW p \in receiving, LookUp(p) PROVE IInv'
  <2> DEFINE q == [p EXCEPT !.rid = expid_to_rid[p.by]]
  <2>1. WaitsForOwn(q) /\ q.by \notin Experiments
    BY <1>8, LookUpWaits DEF LookUp
  <2>2. runs' = runs /\ receiving' \subseteq receiving \cup {q} /\ jobs' = jobs
    BY <1>8 DEF LookUp, artiq
  <2> HIDE DEF q
  <2>3. Waiting' /\ JobsKnow'
    BY <1>b, <1>e, <2>1, <2>2
  <2> QED BY <1>8, <1>c, <1>d, <1>f, <1>g, <2>3 DEF LookUp
<1>9. ASSUME NEW p \in receiving, Publish(p) PROVE IInv'
  <2>1. Waiting' /\ JobsKnow'
    BY <1>9, <1>a, <1>e DEF Publish, artiq
  <2>2. ResultsAreFresh'
    <3> DEFINE from == data[DatasetOf[p.by]]
               x == [run |-> p.run, rid |-> p.rid, from |-> from]
    <3>1. published' \subseteq published \cup {x} /\ UNCHANGED artiq
      BY <1>9 DEF Publish
    <3>2. /\ runs[x.run].full
          /\ runs[x.rid].by = runs[x.run].by
          /\ x.run <= x.rid
          /\ x.rid \in barren \/ x.from >= x.rid
      BY <1>9, PublishIsFresh DEF Publish
    <3> HIDE DEF x
    <3> QED BY <3>1, <3>2 DEF ResultsAreFresh, artiq
  <2> QED BY <1>9, <1>c, <1>d, <1>g, <2>1, <2>2 DEF Publish
<1>10. ASSUME NEW p \in receiving, Answer(p) PROVE IInv'
  <2>1. Waiting' /\ JobsKnow'
    BY <1>10, <1>a, <1>e DEF Answer, artiq
  <2>2. Answered'
    <3>1. answers' = answers \cup {[by |-> p.by, upto |-> p.upto]} /\ UNCHANGED artiq
      BY <1>10 DEF Answer
    <3>2. p.upto <= Len(runs) /\ \A r \in 1..p.upto : runs[r].by = p.by => r <= done
      BY <1>10, AnswerIsDone DEF Answer
    <3> QED BY <3>1, <3>2 DEF Answered, artiq
  <2> QED BY <1>10, <1>c, <1>d, <1>f, <2>1, <2>2 DEF Answer
<1>11. ASSUME NEW p \in receiving, WaitFails(p) PROVE IInv'
  <2>1. Waiting' /\ JobsKnow'
    BY <1>11, <1>a, <1>e DEF WaitFails, artiq
  <2> QED BY <1>11, <1>c, <1>d, <1>f, <1>g, <2>1 DEF WaitFails
<1>12. ASSUME NEW e \in Experiments, Ask(e) PROVE IInv'
  <2> DEFINE q == [by |-> e, run |-> 0, rid |-> expid_to_rid[e], upto |-> Len(runs)]
  <2>1. runs' = runs /\ jobs' = jobs
    BY <1>12 DEF Ask, artiq
  <2>2. Waiting'
    <3>1. CASE expid_to_rid[e] = 0
      BY <1>12, <1>a, <2>1, <3>1 DEF Ask
    <3>2. CASE expid_to_rid[e] # 0
      <4>1. WaitsForAll(q) /\ q.by \notin Calibrations
        BY <3>2, AskWaits
      <4>2. receiving' \subseteq receiving \cup {q}
        BY <1>12, <3>2 DEF Ask
      <4> HIDE DEF q
      <4> QED BY <1>b, <2>1, <4>1, <4>2
    <3> QED BY <3>1, <3>2
  <2>3. JobsKnow'
    BY <1>e, <2>1
  <2> QED BY <1>12, <1>c, <1>d, <1>f, <1>g, <2>2, <2>3 DEF Ask
<1>13. CASE UNCHANGED vars
  <2>1. UNCHANGED <<artiq, status, expid_to_rid, jobs, receiving, published, answers>>
    BY <1>13 DEF vars, agent
  <2>2. Waiting' /\ JobsKnow'
    BY <1>a, <1>e, <2>1 DEF artiq
  <2> QED BY <1>c, <1>d, <1>f, <1>g, <2>1, <2>2
<1> QED BY <1>1, <1>2, <1>3, <1>4, <1>5, <1>6, <1>7, <1>8, <1>9, <1>10, <1>11, <1>12, <1>13
     DEF Next, OperationEnds, Wait

LEMMA Invariant == Spec => []IInv
BY InitIInv, NextIInv, PTL DEF Spec

-----------------------------------------------------------------------------
(* The tables, the operations under way and the waits name only runs that  *)
(* ARTIQ was given; in particular a published result has a run.            *)
THEOREM TypesHold == Spec => []TypeOK
<1>1. IInv => TypeOK
  BY DEF IInv
<1> QED BY <1>1, Invariant, PTL

(* What publish_result reports of a full calibration was measured by the   *)
(* run it waited for or a later one (artiq.py 77-95).                      *)
THEOREM NoStaleResult == Spec => []ResultsAreFresh
<1>1. IInv => ResultsAreFresh
  BY DEF IInv
<1> QED BY <1>1, Invariant, PTL

(* An experiment that getResult reports as done has no run left of those   *)
(* submitted before the question (artiq.py 77-80 and 108).                 *)
THEOREM DoneIsDone == Spec => []AnswersMeanDone
<1>1. ASSUME IInv PROVE AnswersMeanDone
  <2>1. done \in Nat /\ Len(runs) \in Nat /\ \A a \in answers : a.upto \in Nat
    BY <1>1, RunsTyped DEF IInv, TypeOK, Rids
  <2> QED BY <1>1, <2>1 DEF IInv, Answered, AnswersMeanDone, InSchedule
<1> QED BY <1>1, Invariant, PTL

=============================================================================
