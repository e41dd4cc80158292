--------------------------- MODULE ExperimentRun ---------------------------
(***************************************************************************)
(* How the operations of the scheduler reach the experiment framework and  *)
(* how their results come back: the interpreters (exp_framework.py and     *)
(* calibration_interpreter.py), the driver of ARTIQ (artiq.py) and the     *)
(* parts of scheduler.py that run an operation, hear of its end and wait   *)
(* for its result.  A caller is a calibration task or an experiment of the *)
(* controller; its name stands for its exp_id.                             *)
(*                                                                         *)
(* ARTIQ is external: one pipeline, which runs what it is given in the     *)
(* order of the run ids it hands out, and a store of datasets.  It goes on *)
(* between any two calls of the driver, which block the agent's loop; so   *)
(* "checking" holds back every action of the agent while the driver is     *)
(* between its two calls, and holds back no action of ARTIQ.               *)
(*                                                                         *)
(* Not here, and in AgentScheduler: when an operation begins, how an       *)
(* experiment is cancelled, and the poll of a request for a start that has *)
(* yet to come.  Nor the parameters, and which dataset of a result is read *)
(* first.                                                                  *)
(***************************************************************************)
EXTENDS Integers, Sequences, FiniteSets

CONSTANTS
  Calibrations,   \* the local tasks
  Checked,        \* those of them that have a Status_check
  Experiments,    \* the exp_ids of the controller
  Datasets,       \* names in ARTIQ's dataset store
  DatasetOf,      \* the one a caller's experiment writes and its result reads
  MaxRuns,        \* bound: operations begun
  MaxUnderWay,    \* bound: operations that await their pub_job at once
  MaxRequests,    \* bound: getResult requests
  MaxFaults       \* bound: calls that raise and runs that write nothing

Callers == Calibrations \cup Experiments

ASSUME ExperimentRunAssumption ==
  /\ Checked \subseteq Calibrations
  /\ Calibrations \cap Experiments = {}
  /\ DatasetOf \in [Callers -> Datasets]
  /\ {MaxRuns, MaxUnderWay, MaxRequests, MaxFaults} \subseteq Nat

VARIABLES
  runs,          \* what ARTIQ was given: run id -> caller, and whether it is a full calibration
  done,          \* ARTIQ has finished runs 1..done
  data,          \* the run that wrote each dataset last, 0 for none
  status,        \* allocation.status of a task: "full" or "check"
  began,         \* callers with a last_exec, or an entry in _exp_start_times
  failed,        \* allocation.failed
  expid_to_rid,  \* ArtiqClient's table, 0 for no entry
  checking,      \* the run whose _check_rid comes next, 0 for none
  jobs,          \* operations that have ended and await their pub_job
  receiving,     \* receive calls under way, of publish_result and of getResult
  published,     \* agentTaskResult events
  answers,       \* getResult responses with code OK
  barren,        \* history: runs that ended without writing their dataset
  dropped,       \* history: full runs whose result the agent gave up
  requests,      \* getResult requests so far
  faults         \* faults so far

artiq == <<runs, done, data, barren>>
agent == <<status, began, failed, expid_to_rid, checking, jobs, receiving, published, answers, dropped>>
vars == <<artiq, agent, requests, faults>>

Rids == 1..Len(runs)

Jobs == [by : Callers, rid : Rids \cup {0}, ok : BOOLEAN]
Receivers == [by : Callers, run : Rids \cup {0}, rid : Rids \cup {0}, upto : Nat]

(* Every variable has its type: in particular the table of the driver, the *)
(* operations under way and the calls that wait for a result name only     *)
(* runs that ARTIQ was given.                                              *)
TypeOK ==
  /\ runs \in Seq([by : Callers, full : BOOLEAN])
  /\ done \in Rids \cup {0}
  /\ data \in [Datasets -> Rids \cup {0}]
  /\ status \in [Calibrations -> {"full", "check"}]
  /\ began \subseteq Callers
  /\ failed \in [Calibrations -> BOOLEAN]
  /\ expid_to_rid \in [Callers -> Rids \cup {0}]
  /\ checking \in Rids \cup {0}
  /\ jobs \subseteq Jobs
  /\ receiving \subseteq Receivers
  /\ published \subseteq [run : Rids, rid : Rids, from : Rids]
  /\ answers \subseteq [by : Experiments, upto : Nat]
  /\ barren \subseteq Rids
  /\ dropped \subseteq Rids
  /\ requests \in Nat
  /\ faults \in Nat

Init ==
  /\ runs = << >>
  /\ done = 0
  /\ data = [d \in Datasets |-> 0]
  /\ status = [c \in Calibrations |-> "full"]
  /\ began = {}
  /\ failed = [c \in Calibrations |-> FALSE]
  /\ expid_to_rid = [c \in Callers |-> 0]
  /\ checking = 0
  /\ jobs = {}
  /\ receiving = {}
  /\ published = {}
  /\ answers = {}
  /\ barren = {}
  /\ dropped = {}
  /\ requests = 0
  /\ faults = 0

-----------------------------------------------------------------------------
(* The driver and ARTIQ.                                                   *)

InSchedule(rid) == rid \in (done + 1)..Len(runs)

\* Fault: the result is read without waiting for the end of the run.
NoWaiting(rid) == TRUE

HasEnded(rid) == ~ InSchedule(rid)

LoopFree == checking = 0

Fault ==
  /\ faults < MaxFaults
  /\ faults' = faults + 1

\* Fault: the table stores the id the next run will get.
RememberNext(c, rid) == [expid_to_rid EXCEPT ![c] = rid + 1]

\* Fault: the table keeps the first run of an exp_id.
RememberFirst(c, rid) == [expid_to_rid EXCEPT ![c] = IF @ = 0 THEN rid ELSE @]

(* The table keeps the last run of each exp_id.                            *)
Remember(c, rid) == [expid_to_rid EXCEPT ![c] = rid]

(* The oldest run in ARTIQ's pipeline ends and leaves the schedule.  One   *)
(* that fails, or whose class writes nothing, leaves its dataset as it was.*)
RunEnds ==
  /\ done < Len(runs)
  /\ done' = done + 1
  /\ \/ /\ data' = [data EXCEPT ![DatasetOf[runs[done + 1].by]] = done + 1]
        /\ UNCHANGED <<barren, faults>>
     \/ /\ Fault
        /\ barren' = barren \cup {done + 1}
        /\ UNCHANGED data
  /\ UNCHANGED <<runs, agent, requests>>

-----------------------------------------------------------------------------
(* An operation of the scheduler, run_and_update, from its start to the    *)
(* event the job listener hears.                                           *)

(* The start of an operation is noted and a failure of the last one is     *)
(* forgotten.                                                              *)
NoteStart(c) ==
  /\ began' = began \cup {c}
  /\ failed' = [x \in Calibrations |-> failed[x] /\ x # c]

IsFull(c) == c \in Calibrations /\ status[c] = "full"

MayBegin ==
  /\ Len(runs) < MaxRuns
  /\ Cardinality(jobs) < MaxUnderWay

(* The operation submits its experiment.                                   *)
Begin(c) ==
  /\ LoopFree
  /\ MayBegin
  /\ NoteStart(c)
  /\ runs' = Append(runs, [by |-> c, full |-> IsFull(c)])
  /\ expid_to_rid' = Remember(c, Len(runs) + 1)
  /\ checking' = Len(runs) + 1
  /\ UNCHANGED <<done, data, barren, status, jobs, receiving, published, answers, dropped, requests, faults>>

(* Or the call of ARTIQ raises and there is no run.                        *)
BeginFails(c) ==
  /\ LoopFree
  /\ MayBegin
  /\ Fault
  /\ NoteStart(c)
  /\ jobs' = jobs \cup {[by |-> c, rid |-> 0, ok |-> FALSE]}
  /\ UNCHANGED <<artiq, status, expid_to_rid, checking, receiving, published, answers, dropped, requests>>

(* The driver looks for the run it submitted.  A run that is over by then  *)
(* counts as not found and the operation raises.                           *)
Check ==
  /\ ~ LoopFree
  /\ jobs' = jobs \cup {[by |-> runs[checking].by, rid |-> checking, ok |-> InSchedule(checking)]}
  /\ checking' = 0
  /\ UNCHANGED <<artiq, status, began, failed, expid_to_rid, receiving, published, answers, dropped, requests, faults>>

\* Fault: the test of the status is inverted.
WantsCheck(c) == c \in Calibrations /\ status[c] = "check"

(* job_listener: the result of a task whose status is FULL by now is       *)
(* wanted.                                                                 *)
WantsResult(c) == IsFull(c)

(* The wait for its result that publish_result starts; the run is looked   *)
(* up when the new task runs.                                              *)
Publisher(j) == [by |-> j.by, run |-> j.rid, rid |-> 0, upto |-> 0]

Fails(j) ==
  /\ failed' = [c \in Calibrations |-> failed[c] \/ c = j.by]
  /\ UNCHANGED receiving

Succeeds(j) ==
  /\ receiving' = IF WantsResult(j.by) THEN receiving \cup {Publisher(j)} ELSE receiving
  /\ UNCHANGED failed

(* The operation's pub_job is over, or raises and with it the operation.   *)
JobEnds(j) ==
  /\ LoopFree
  /\ jobs' = jobs \ {j}
  /\ \/ /\ IF j.ok THEN Succeeds(j) ELSE Fails(j)
        /\ UNCHANGED faults
     \/ Fails(j) /\ Fault
  /\ UNCHANGED <<artiq, status, began, expid_to_rid, checking, published, answers, dropped, requests>>

(* run_immediately unmaps the job ids of a task, those of operations under *)
(* way included: the listener will not know them.                          *)
Rebook(c) ==
  /\ LoopFree
  /\ \E j \in jobs : j.by = c
  /\ jobs' = {j \in jobs : j.by # c}
  /\ dropped' = dropped \cup ({j.rid : j \in {i \in jobs : i.by = c}} \ {0})
  /\ UNCHANGED <<artiq, status, began, failed, expid_to_rid, checking, receiving, published, answers, requests, faults>>

(* check_state finds a task in spec and turns its next runs into status    *)
(* checks; nothing turns them back.                                        *)
SwitchToCheck(c) ==
  /\ LoopFree
  /\ c \in began
  /\ ~ failed[c]
  /\ status[c] = "full"
  /\ status' = [status EXCEPT ![c] = "check"]
  /\ UNCHANGED <<artiq, began, failed, expid_to_rid, checking, jobs, receiving, published, answers, dropped, requests, faults>>

-----------------------------------------------------------------------------
(* Results.                                                                *)

(* publish_result starts and the driver looks its run up.                  *)
LookUp(p) ==
  /\ LoopFree
  /\ p.rid = 0
  /\ receiving' = (receiving \ {p}) \cup {[p EXCEPT !.rid = expid_to_rid[p.by]]}
  /\ UNCHANGED <<artiq, status, began, failed, expid_to_rid, checking, jobs, published, answers, dropped, requests, faults>>

(* A poll finds the run gone and the datasets are read and published;      *)
(* without a dataset there is nothing to publish.                          *)
Publish(p) ==
  /\ LoopFree
  /\ p.by \in Calibrations
  /\ p.rid # 0
  /\ HasEnded(p.rid)
  /\ receiving' = receiving \ {p}
  /\ LET from == data[DatasetOf[p.by]] IN
     published' = IF from = 0 THEN published
                  ELSE published \cup {[run |-> p.run, rid |-> p.rid, from |-> from]}
  /\ UNCHANGED <<artiq, status, began, failed, expid_to_rid, checking, jobs, answers, dropped, requests, faults>>

(* getResult of an experiment that has started: without an entry in the    *)
(* table the answer is FAILED at once, else the wait begins.               *)
Ask(e) ==
  /\ LoopFree
  /\ requests < MaxRequests
  /\ requests' = requests + 1
  /\ e \in began
  /\ receiving' = IF expid_to_rid[e] = 0 THEN receiving
                  ELSE receiving \cup {[by |-> e, run |-> 0, rid |-> expid_to_rid[e], upto |-> Len(runs)]}
  /\ UNCHANGED <<artiq, status, began, failed, expid_to_rid, checking, jobs, published, answers, dropped, faults>>

(* A poll finds the run gone: the answer says that the run is done, and    *)
(* carries no dataset since update_result names none.                      *)
Answer(p) ==
  /\ LoopFree
  /\ p.by \in Experiments
  /\ HasEnded(p.rid)
  /\ receiving' = receiving \ {p}
  /\ answers' = answers \cup {[by |-> p.by, upto |-> p.upto]}
  /\ UNCHANGED <<artiq, status, began, failed, expid_to_rid, checking, jobs, published, dropped, requests, faults>>

(* A poll, a read of a dataset or the publication raises: the event is     *)
(* lost, or the answer is FAILED.                                          *)
WaitFails(p) ==
  /\ LoopFree
  /\ p.rid # 0
  /\ Fault
  /\ receiving' = receiving \ {p}
  /\ dropped' = dropped \cup ({p.run} \ {0})
  /\ UNCHANGED <<artiq, status, began, failed, expid_to_rid, checking, jobs, published, answers, requests>>

-----------------------------------------------------------------------------
OperationEnds == \E j \in jobs : JobEnds(j)
Wait == \E p \in receiving : LookUp(p) \/ Publish(p) \/ Answer(p) \/ WaitFails(p)

Next ==
  \/ RunEnds
  \/ \E c \in Callers : Begin(c) \/ BeginFails(c)
  \/ Check
  \/ OperationEnds
  \/ \E c \in Calibrations : Rebook(c)
  \/ \E c \in Checked : SwitchToCheck(c)
  \/ Wait
  \/ \E e \in Experiments : Ask(e)

(* ARTIQ finishes what it runs, and the loop gets to what is ready: the    *)
(* rest of an operation, and each call that waits for a result.            *)
Fairness ==
  /\ WF_vars(RunEnds)
  /\ WF_vars(Check)
  /\ \A c \in Callers : WF_vars(\E j \in jobs : j.by = c /\ JobEnds(j))
  /\ \A r \in 1..MaxRuns :
       WF_vars(\E p \in receiving : p.run = r /\ (LookUp(p) \/ Publish(p)))
  /\ \A e \in Experiments : WF_vars(\E p \in receiving : p.by = e /\ Answer(p))

Spec == Init /\ [][Next]_vars /\ Fairness

-----------------------------------------------------------------------------
(* A published result belongs to a full calibration, and what it reports   *)
(* was measured by the run the caller waited for or a later one, never by  *)
(* an older one, unless that run wrote no dataset (artiq.py 77-95 reads by *)
(* name what is there when the run has left the schedule).                 *)
ResultsAreFresh ==
  \A x \in published :
    /\ runs[x.run].full
    /\ runs[x.rid].by = runs[x.run].by
    /\ x.run <= x.rid
    /\ x.rid \in barren \/ x.from >= x.rid

(* Once getResult has said that an experiment is done, no run of it that   *)
(* was submitted before the question is in ARTIQ's schedule, although the  *)
(* driver remembers one run for each experiment (artiq.py:108).            *)
AnswersMeanDone ==
  \A a \in answers : \A r \in 1..a.upto :
    runs[r].by = a.by => ~ InSchedule(r)

(* The result of a full calibration is published, or the task counts as    *)
(* failed or has become a status check in the meantime; it is not without  *)
(* trace, unless the run wrote nothing, the task was rebooked while it ran *)
(* or the event was lost (scheduler.py 72-88 and 102-113).                 *)
FullRun(r) == r \in Rids /\ runs[r].full

AccountedFor(r) ==
  \/ \E x \in published : x.run = r
  \/ r \in barren \cup dropped
  \/ FullRun(r) /\ (failed[runs[r].by] \/ status[runs[r].by] = "check")

ResultsArrive ==
  \A r \in 1..MaxRuns : (FullRun(r) /\ checking = r) ~> AccountedFor(r)

=============================================================================
