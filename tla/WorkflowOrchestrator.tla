-------------------------- MODULE WorkflowOrchestrator --------------------------
(***************************************************************************)
(* jobs/workflow_orchestrator: one workflow whose stages run one after the  *)
(* other.  The orchestrator keeps the workflow in a map behind one mutex.   *)
(* Its handlers take and drop that mutex several times, and between two     *)
(* locks the other handlers, the user's commands and the workers go on.  An *)
(* action is what happens under one lock, or one statement on the job rows. *)
(*                                                                          *)
(* The job engine (JobDispatch) is abstracted to what the orchestrator sees *)
(* of it: a queued row is run once, its row is written, its end reported.   *)
(***************************************************************************)
EXTENDS Naturals, Sequences, FiniteSets

CONSTANTS
    Tasks,        \* handlers and commands that may be in progress at once
    NumStages,    \* stages of the definition: each depends on the one before
    EarlyEnd,     \* stages whose result may end the workflow (no files, too many tokens)
    Retryable,    \* stages with a RetryStage strategy; the others abort
    MaxAttempts,  \* max_attempts of that strategy
    RetryFrom,    \* statuses of stages that a retry is asked for: the window offers it for
                  \* failed ones, the command takes any
    MaxJobs,      \* bound: rows that are created
    MaxCommands,  \* bound: commands per kind
    MaxErrors,    \* bound: stage jobs that cannot be created
    MaxCrashes    \* bound: ends of the process

Stages == 1..NumStages
Jobs == 1..MaxJobs
Commands == {"cancel", "pause", "retry", "query"}

ASSUME WorkflowAssumption ==
    /\ NumStages \in Nat \ {0} /\ MaxJobs \in Nat \ {0} /\ MaxAttempts \in Nat
    /\ EarlyEnd \subseteq Stages /\ Retryable \subseteq Stages
    /\ MaxCommands \in [Commands -> Nat] /\ MaxErrors \in Nat /\ MaxCrashes \in Nat

VARIABLES
    wf,        \* WorkflowState.status, "none" when the map has no entry
    stages,    \* WorkflowState.stages: the stage jobs in the order they were added
    attempts,  \* the queue's retry count of the key "<workflow>_<stage>"
    row,       \* status column of each job's row
    stageOf,   \* task type of each job's row
    master,    \* status of the workflow's own row
    working,   \* jobs that a worker has in its hands
    pc, job, pend, then, \* each task: place, job, work list, where to go on
    early,     \* history: the workflow ended before its last stage
    used, errors, crashes

memory == <<wf, stages, attempts>>
db == <<row, stageOf, master>>
tasks == <<pc, job, pend, then>>
counts == <<used, errors, crashes>>
vars == <<memory, db, working, tasks, early, counts>>

StageJob == [id : Jobs, stage : Stages, name : {"definition", "display"},
             status : {"queued", "running", "completed", "failed", "canceled"}]

Active == {"queued", "running"}
Ended == {"completed", "failed", "canceled"}

Places == {"idle", "report", "completing", "creating", "failing", "resetting", "queueing",
           "replacing", "fail", "failRow", "abort", "abortRow", "verdict", "complete",
           "completeRow", "canceling", "cancelState", "cancelRow", "resuming",
           "recovering", "rerun"}

\* The one type invariant of the module: statuses in memory and in the rows,
\* and the places of the tasks.
TypeOK ==
    /\ wf \in {"none", "running", "paused"} \cup Ended
    /\ stages \in Seq(StageJob)
    /\ attempts \in [Stages -> 0..MaxAttempts]
    /\ row \in [Jobs -> {"none"} \cup Active \cup Ended]
    /\ stageOf \in [Jobs -> Stages]
    /\ master \in {"acknowledged"} \cup Ended
    /\ working \subseteq Jobs
    /\ pc \in [Tasks -> Places]
    /\ job \in [Tasks -> Jobs]
    /\ then \in [Tasks -> {"idle", "handler", "none"} \cup Ended]

Init ==
    /\ wf = "none" /\ stages = <<>> /\ attempts = [s \in Stages |-> 0]
    /\ row = [j \in Jobs |-> "none"] /\ stageOf = [j \in Jobs |-> 1]
    /\ master = "acknowledged" /\ working = {}
    /\ pc = [t \in Tasks |-> "idle"] /\ job = [t \in Tasks |-> 1]
    /\ pend = [t \in Tasks |-> <<>>] /\ then = [t \in Tasks |-> "idle"]
    /\ early = FALSE
    /\ used = [c \in Commands |-> 0] /\ errors = 0 /\ crashes = 0
--------------------------------------------------------------------------------
(* The stage list *)

Positions(s) == {i \in DOMAIN stages : stages[i].stage = s}
First(s) == stages[CHOOSE i \in Positions(s) : \A k \in Positions(s) : i <= k]
Registered(j) == \E i \in DOMAIN stages : stages[i].id = j
HasStatus(st) == \E i \in DOMAIN stages : stages[i].status = st
StageDone(s) == \E i \in Positions(s) : stages[i].status = "completed"

\* update_stage_job: the first entry of the job.
SetStage(j, st) ==
    [i \in DOMAIN stages |->
        IF stages[i].id = j THEN [stages[i] EXCEPT !.status = st] ELSE stages[i]]

NewStageJob(j, s, n) == [id |-> j, stage |-> s, name |-> n, status |-> "queued"]

\* abstract_stage_dependencies_met_internal: any completed job of the stage
\* before will do.
DependenciesMetFirst(s) == s = 1 \/ StageDone(1)
DependenciesMetExists(s) == \A d \in Stages : d + 1 = s => Positions(d) # {}
DependenciesMet(s) == \A d \in Stages : d + 1 = s => StageDone(d)

\* find_next_abstract_stages_to_execute_internal: a stage counts by the first
\* of its jobs; one that failed or was canceled stops everything.
NextStages ==
    IF \E s \in Stages : Positions(s) # {} /\ First(s).status \in {"failed", "canceled"}
    THEN {}
    ELSE {s \in Stages : Positions(s) = {} /\ DependenciesMet(s)}

\* is_workflow_complete
IsComplete == \A s \in Stages : StageDone(s)

\* The completion handler: nothing can be started, and not all is done.
MustStopOnFailure == HasStatus("failed")
MustStop == HasStatus("failed") \/ HasStatus("canceled") \/ ~IsComplete

\* max_concurrent (3) less count_running_jobs_in_workflow_internal
Slots == LET n == Cardinality({i \in DOMAIN stages : stages[i].status = "running"})
         IN IF n >= 3 THEN 0 ELSE 3 - n

StagesToStart == {s \in NextStages : Cardinality({x \in NextStages : x < s}) < Slots}
--------------------------------------------------------------------------------
(* Tasks *)

\* Rows come in the order they were created in, stages in that of the definition:
\* the one sequence of a set of numbers that is in their order.
Ascending(S) == {q \in [1..Cardinality(S) -> S] : \A i, k \in DOMAIN q : i < k => q[i] < q[k]}

Goto(t, p) == pc' = [pc EXCEPT ![t] = p]

\* A handler is done: lazy recovery goes on with its next completed job.
Return(t) ==
    Goto(t, IF then[t] = "none" /\ pend[t] # <<>> THEN "rerun" ELSE "idle")

FreeJob == CHOOSE j \in Jobs : row[j] = "none" /\ \A k \in Jobs : row[k] = "none" => j <= k
CanCreate == \E j \in Jobs : row[j] = "none"

\* create_and_queue_background_job: the row of a new job.
InsertRow(s) ==
    /\ CanCreate
    /\ row' = [row EXCEPT ![FreeJob] = "queued"]
    /\ stageOf' = [stageOf EXCEPT ![FreeJob] = s]
    /\ UNCHANGED master

\* start_workflow_internal: the entry and the job of the first stage under one
\* lock.
Start ==
    /\ wf = "none" /\ row = [j \in Jobs |-> "none"]
    /\ wf' = "running"
    /\ InsertRow(1)
    /\ stages' = <<NewStageJob(FreeJob, 1, "definition")>>
    /\ UNCHANGED <<attempts, working, tasks, early, counts>>
--------------------------------------------------------------------------------
(* The engine *)

RunJob(j) ==
    /\ row[j] = "queued"
    /\ row' = [row EXCEPT ![j] = "running"]
    /\ working' = working \cup {j}
    /\ UNCHANGED <<memory, stageOf, master, tasks, early, counts>>

\* The processor returns; the row is written and the worker calls
\* update_job_status.  A processor answers "canceled" when it saw its row.
EndJob(t, j, outcome) ==
    /\ j \in working /\ pc[t] = "idle"
    /\ outcome = "canceled" => row[j] = "canceled"
    /\ row' = [row EXCEPT ![j] = outcome]
    /\ working' = working \ {j}
    /\ Goto(t, "report")
    /\ job' = [job EXCEPT ![t] = j]
    /\ then' = [then EXCEPT ![t] = outcome]
    /\ UNCHANGED <<memory, stageOf, master, pend, early, counts>>

\* update_job_status: the job's status is set, the handler chosen.  A job that
\* no workflow lists is an error, and the report is lost.
Report(t) ==
    /\ pc[t] = "report"
    /\ then' = [then EXCEPT ![t] = "idle"]
    /\ IF ~Registered(job[t])
       THEN Goto(t, "idle") /\ UNCHANGED memory
       ELSE /\ stages' = SetStage(job[t], then[t])
            /\ CASE then[t] = "completed" -> Goto(t, "completing") /\ wf' = wf
                 [] then[t] = "failed" -> Goto(t, "failing") /\ wf' = wf
                 [] then[t] = "canceled" -> \* handle_stage_cancellation
                      /\ wf' = IF wf \in Ended THEN wf ELSE "canceled"
                      /\ Goto(t, "idle")
            /\ UNCHANGED attempts
    /\ UNCHANGED <<db, working, job, pend, early, counts>>
--------------------------------------------------------------------------------
(* Completion of a stage *)

\* The result has the form the stage needs and is stored; the state is cloned
\* and everything else decided on the clone.
StageCompleted(t) ==
    /\ pc[t] = "completing"
    /\ \E q \in Ascending(StagesToStart) : pend' = [pend EXCEPT ![t] = q]
    /\ Goto(t, IF NextStages # {}
               THEN IF Slots = 0 THEN "idle" ELSE "creating"
               ELSE IF MustStop THEN "fail" ELSE "complete")
    /\ UNCHANGED <<memory, db, working, job, then, early, counts>>

\* No file matched, or the files are too large for the last stage.
EndsEarly(t) ==
    /\ pc[t] = "completing" /\ stageOf[job[t]] \in EarlyEnd
    /\ early' = TRUE
    /\ Goto(t, "complete")
    /\ UNCHANGED <<memory, db, working, job, pend, then, counts>>

ExtractionFailsSilently(t) ==
    /\ pc[t] = "completing"
    /\ Goto(t, "idle")
    /\ UNCHANGED <<memory, db, working, job, pend, then, early, counts>>

\* extract_and_store_stage_data_internal refuses the result: the stage fails.
ExtractionFails(t) ==
    /\ pc[t] = "completing"
    /\ Goto(t, "failing")
    /\ UNCHANGED <<memory, db, working, job, pend, then, early, counts>>

\* create_abstract_stage_job: row and entry under one lock.  The status of the
\* workflow and the stages that were added since the clone are not looked at.
CreateStage(t) ==
    /\ pc[t] = "creating"
    /\ LET s == Head(pend[t]) IN
        /\ InsertRow(s)
        /\ stages' = Append(stages, NewStageJob(FreeJob, s, "definition"))
    /\ pend' = [pend EXCEPT ![t] = Tail(pend[t])]
    /\ Goto(t, IF Len(pend[t]) = 1 THEN "idle" ELSE "creating")
    /\ UNCHANGED <<wf, attempts, working, job, then, early, counts>>

\* Its payload cannot be built or its row not be inserted: this is logged.
CreateFails(t) ==
    /\ pc[t] = "creating" /\ errors < MaxErrors
    /\ errors' = errors + 1
    /\ pend' = [pend EXCEPT ![t] = Tail(pend[t])]
    /\ Goto(t, IF Len(pend[t]) = 1 THEN "idle" ELSE "creating")
    /\ UNCHANGED <<memory, db, working, job, then, early, used, crashes>>

\* state_updater: only Completed is left as it is (an error, and no row follows).
MarkCompleted(t) ==
    /\ pc[t] = "complete"
    /\ IF wf = "completed"
       THEN Return(t) /\ UNCHANGED wf
       ELSE Goto(t, "completeRow") /\ wf' = "completed"
    /\ UNCHANGED <<stages, attempts, db, working, job, pend, then, early, counts>>

\* Called at the end of a completion, or by the error handler to abort.
MarkFailed(t) ==
    /\ pc[t] \in {"fail", "abort"}
    /\ wf' = "failed"
    /\ Goto(t, IF pc[t] = "fail" THEN "failRow" ELSE "abortRow")
    /\ UNCHANGED <<stages, attempts, db, working, job, pend, then, early, counts>>

MarkMasterCompleted(t) ==
    /\ pc[t] \in {"completeRow", "failRow", "abortRow"}
    /\ master' = IF pc[t] = "completeRow" THEN "completed" ELSE master
    /\ IF pc[t] = "abortRow" THEN Goto(t, "verdict") ELSE Return(t)
    /\ UNCHANGED <<memory, row, stageOf, working, job, pend, then, early, counts>>

\* mark_job_completed / mark_job_failed of the workflow's own row.
MarkMaster(t) ==
    /\ pc[t] \in {"completeRow", "failRow", "abortRow"}
    /\ master' = IF pc[t] = "completeRow" THEN "completed" ELSE "failed"
    /\ IF pc[t] = "abortRow" THEN Goto(t, "verdict") ELSE Return(t)
    /\ UNCHANGED <<memory, row, stageOf, working, job, pend, then, early, counts>>
--------------------------------------------------------------------------------
(* Failure of a stage *)

MayRetryOnceMore(s) == s \in Retryable /\ attempts[s] <= MaxAttempts
MayRetry(s) == s \in Retryable /\ attempts[s] < MaxAttempts

\* handle_stage_failure_internal asks the error handler: retry while the
\* stage's count is below the limit, else abort.
StageFailed(t) ==
    LET s == stageOf[job[t]] IN
    /\ pc[t] = "failing"
    /\ IF MayRetry(s)
       THEN /\ attempts' = [attempts EXCEPT ![s] = @ + 1]
            /\ Goto(t, "resetting")
       ELSE Goto(t, "abort") /\ UNCHANGED attempts
    /\ then' = [then EXCEPT ![t] = IF @ = "none" THEN @ ELSE "handler"]
    /\ UNCHANGED <<wf, stages, db, working, job, pend, early, counts>>

\* reset_subsequent_stages_internal looks stages up by their display name, so
\* it finds only jobs that a retry has added.
ResetLater(t) ==
    LET named(s) == {i \in Positions(s) : stages[i].name = "display"}
        hit == {i \in DOMAIN stages :
                  /\ stages[i].stage > stageOf[job[t]] /\ stages[i].status \in Active
                  /\ i \in named(stages[i].stage)
                  /\ \A k \in named(stages[i].stage) : i <= k}
    IN
    /\ pc[t] = "resetting"
    /\ stages' = [i \in DOMAIN stages |->
                    IF i \in hit THEN [stages[i] EXCEPT !.status = "canceled"] ELSE stages[i]]
    /\ Goto(t, "queueing")
    /\ UNCHANGED <<wf, attempts, db, working, job, pend, then, early, counts>>

\* retry_workflow_stage_with_config_internal creates the job without the lock;
\* its number waits in pend.
QueueRetry(t) ==
    /\ pc[t] = "queueing"
    /\ InsertRow(stageOf[job[t]])
    /\ pend' = [pend EXCEPT ![t] = <<FreeJob>> \o @]
    /\ Goto(t, "replacing")
    /\ UNCHANGED <<memory, working, job, then, early, counts>>

\* It fails: the error handler aborts, a command reports the error.
QueueFails(t) ==
    /\ pc[t] = "queueing" /\ errors < MaxErrors
    /\ errors' = errors + 1
    /\ Goto(t, IF then[t] = "idle" THEN "idle" ELSE "abort")
    /\ UNCHANGED <<memory, db, working, job, pend, then, early, used, crashes>>

\* The failed job is marked as superseded, the new one added under its display
\* name, at the end of the list.
Supersede(t) ==
    /\ pc[t] = "replacing"
    /\ stages' = Append(SetStage(job[t], "canceled"),
                        NewStageJob(Head(pend[t]), stageOf[job[t]], "display"))
    /\ pend' = [pend EXCEPT ![t] = Tail(@)]
    /\ Goto(t, IF then[t] = "none" /\ Len(pend[t]) > 1 THEN "rerun" ELSE "idle")
    /\ UNCHANGED <<wf, attempts, db, working, job, then, early, counts>>

\* handle_stage_failure_internal after an abort.
Verdict(t) ==
    /\ pc[t] = "verdict"
    /\ wf' = "failed"
    /\ Return(t)
    /\ UNCHANGED <<stages, attempts, db, working, job, pend, then, early, counts>>
--------------------------------------------------------------------------------
(* Commands *)

Begin(t, c) ==
    /\ pc[t] = "idle" /\ wf # "none" /\ used[c] < MaxCommands[c]
    /\ used' = [used EXCEPT ![c] = @ + 1]

Pause(t) ==
    /\ Begin(t, "pause") /\ wf = "running"
    /\ wf' = "paused"
    /\ UNCHANGED <<stages, attempts, db, working, tasks, early, errors, crashes>>

\* resume_workflow_internal sets the status ...
Resume(t) ==
    /\ pc[t] = "idle" /\ wf = "paused"
    /\ wf' = "running"
    /\ Goto(t, "resuming")
    /\ then' = [then EXCEPT ![t] = "idle"]
    /\ UNCHANGED <<stages, attempts, db, working, job, pend, early, counts>>

\* ... and starts what is due, unless it was paused again.
StartNext(t) ==
    /\ pc[t] = "resuming"
    /\ \E q \in Ascending(StagesToStart) : pend' = [pend EXCEPT ![t] = q]
    /\ Goto(t, IF wf = "paused" \/ StagesToStart = {} THEN "idle" ELSE "creating")
    /\ UNCHANGED <<memory, db, working, job, then, early, counts>>

\* cancel_workflow reads the workflow's rows ...
CancelRead(t) ==
    /\ Begin(t, "cancel")
    /\ \E q \in Ascending({j \in Jobs : row[j] \in Active}) : pend' = [pend EXCEPT ![t] = q]
    /\ then' = [then EXCEPT ![t] = "idle"]
    /\ Goto(t, "canceling")
    /\ UNCHANGED <<memory, db, working, job, early, errors, crashes>>

\* ... cancels each of them that is still active ...
CancelJob(t) ==
    /\ pc[t] = "canceling"
    /\ IF pend[t] = <<>>
       THEN Goto(t, "cancelState") /\ UNCHANGED <<row, pend>>
       ELSE /\ row' = [row EXCEPT ![Head(pend[t])] = IF @ \in Active THEN "canceled" ELSE @]
            /\ pend' = [pend EXCEPT ![t] = Tail(@)]
            /\ UNCHANGED pc
    /\ UNCHANGED <<memory, stageOf, master, working, job, then, early, counts>>

\* ... and then, whatever has happened since, the workflow and its row.
CancelState(t) ==
    /\ pc[t] = "cancelState"
    /\ wf' = "canceled"
    /\ Goto(t, "cancelRow")
    /\ UNCHANGED <<stages, attempts, db, working, job, pend, then, early, counts>>

CancelRow(t) ==
    /\ pc[t] = "cancelRow"
    /\ master' = "canceled"
    /\ Goto(t, "idle")
    /\ UNCHANGED <<memory, row, stageOf, working, job, pend, then, early, counts>>

\* retry_workflow_stage_command: a stage, by one of the names the command knows; the display
\* names it knows are not those the retry gives.
RetryStage(t, i) ==
    /\ Begin(t, "retry")
    /\ stages[i].status \in RetryFrom /\ stages[i].name = "definition"
    /\ job' = [job EXCEPT ![t] = stages[i].id]
    /\ then' = [then EXCEPT ![t] = "idle"]
    /\ pend' = [pend EXCEPT ![t] = <<>>]
    /\ Goto(t, "resetting")
    /\ UNCHANGED <<memory, db, working, early, errors, crashes>>

\* get_workflow_status: recover_workflow_if_needed reads the rows ...
QueryRead(t) ==
    /\ Begin(t, "query")
    /\ \E q \in Ascending({j \in Jobs : row[j] # "none" /\ stageOf[j] > 1}) :
          pend' = [pend EXCEPT ![t] = [i \in DOMAIN q |-> [id |-> q[i], status |-> row[q[i]]]]]
    /\ then' = [then EXCEPT ![t] = "none"]
    /\ Goto(t, "recovering")
    /\ UNCHANGED <<memory, db, working, job, early, errors, crashes>>

\* ... adds those the workflow does not list (not of the first stage), and if
\* there were any, repeats the completion of every completed stage.
Recover(t) ==
    LET lost == {i \in DOMAIN pend[t] : ~Registered(pend[t][i].id)}
        added(r) == [NewStageJob(r.id, stageOf[r.id], "definition") EXCEPT !.status = r.status]
        done(list) == {i \in DOMAIN list : list[i].status = "completed"}
    IN
    /\ pc[t] = "recovering"
    /\ \E q \in Ascending(lost) : stages' = stages \o [i \in DOMAIN q |-> added(pend[t][q[i]])]
    /\ \E q \in Ascending(done(stages')) :
          pend' = [pend EXCEPT ![t] = IF lost = {} THEN <<>> ELSE [i \in DOMAIN q |-> stages'[q[i]].id]]
    /\ Goto(t, IF lost = {} \/ done(stages') = {} THEN "idle" ELSE "rerun")
    /\ UNCHANGED <<wf, attempts, db, working, job, then, early, counts>>

\* handle_stage_completion with no result: no stage's data can be extracted
\* from that, so the completed stage is handled as a failure.
Rerun(t) ==
    /\ pc[t] = "rerun"
    /\ job' = [job EXCEPT ![t] = Head(pend[t])]
    /\ pend' = [pend EXCEPT ![t] = Tail(@)]
    /\ Goto(t, "failing")
    /\ UNCHANGED <<memory, db, working, then, early, counts>>

\* The process ends.  The next one has an empty map: recover_orphaned_jobs finds
\* no workflow to add a job to; the engine takes up the queued rows.
Crash ==
    /\ crashes < MaxCrashes /\ wf # "none"
    /\ crashes' = crashes + 1
    /\ wf' = "none" /\ stages' = <<>> /\ attempts' = [s \in Stages |-> 0]
    /\ working' = {}
    /\ pc' = [t \in Tasks |-> "idle"] /\ pend' = [t \in Tasks |-> <<>>]
    /\ then' = [t \in Tasks |-> "idle"]
    /\ UNCHANGED <<db, job, early, used, errors>>

TaskStep(t) ==
    \/ Report(t) \/ StageCompleted(t) \/ CreateStage(t)
    \/ MarkCompleted(t) \/ MarkFailed(t) \/ MarkMaster(t)
    \/ StageFailed(t) \/ ResetLater(t) \/ QueueRetry(t) \/ Supersede(t) \/ Verdict(t)
    \/ StartNext(t) \/ CancelJob(t) \/ CancelState(t) \/ CancelRow(t)
    \/ Recover(t) \/ Rerun(t)

Next ==
    \/ Start \/ Crash
    \/ \E j \in Jobs : RunJob(j)
    \/ \E t \in Tasks :
        \/ TaskStep(t)
        \/ EndsEarly(t) \/ ExtractionFails(t) \/ CreateFails(t) \/ QueueFails(t)
        \/ \E j \in Jobs, o \in Ended : EndJob(t, j, o)
        \/ Pause(t) \/ Resume(t) \/ CancelRead(t) \/ QueryRead(t)
        \/ \E i \in DOMAIN stages : RetryStage(t, i)

Spec == Init /\ [][Next]_vars

\* tokio polls every handler; the workers take every queued job, and the job
\* time-out ends every processor.
Fairness ==
    /\ \A t \in Tasks : WF_vars(TaskStep(t))
    /\ \A j \in Jobs : WF_vars(RunJob(j))
    /\ \A j \in Jobs : WF_vars(\E t \in Tasks : \E o \in Ended : EndJob(t, j, o))

FairSpec == Spec /\ Fairness
--------------------------------------------------------------------------------
(* Properties *)

Done(s) == \E j \in Jobs : stageOf[j] = s /\ row[j] = "completed"
Alive(j) == row[j] = "queued" \/ j \in working

\* A stage's job is only created when some job of the stage before it has
\* succeeded, whichever of the scheduler, a retry, a resume or a recovery
\* created it, and from however old a clone.
StagesInOrder == \A j \in Jobs : row[j] # "none" /\ stageOf[j] > 1 => Done(stageOf[j] - 1)

\* A workflow is only called completed when every stage has succeeded or one
\* of them has said that the rest is not needed.
CompletedIsComplete ==
    wf = "completed" \/ master = "completed" => early \/ \A s \in Stages : Done(s)

\* No stage is paid for more often than the strategies' limits allow: one job, one more
\* per counted attempt of it or of a stage before it (a job that was retried and one that
\* takes its place may both go on), and what commands have asked for.
AttemptLimit ==
    \A s \in Stages :
        Cardinality({j \in Jobs : row[j] # "none" /\ stageOf[j] = s})
            <= 1 + Cardinality({x \in Retryable : x <= s}) * MaxAttempts + used["retry"] + used["pause"]

\* When no handler is in progress, the workflow in memory and its row agree on
\* how it ended (a stage canceled on its own leaves the row alone).  This is so as
\* long as no command was given: state and row are written under two locks, and a
\* cancel, a retry or a query may write one between a handler's two.
RowFollowsState ==
    (\A c \in Commands : used[c] = 0) /\ wf \in {"completed", "failed"} /\ (\A t \in Tasks : pc[t] = "idle")
        => master = wf

\* Whatever its stages do, a workflow ends, and so does its row: the list of
\* handlers never leaves it running with nothing under way.
WorkflowEnds == wf = "running" ~> wf \in Ended /\ master \in Ended

\* What comments and documents say beyond that, and the code does not do.

\* completion_handler.rs: "If workflow is stalled (no stages can progress and
\* workflow isn't complete), explicitly fail it".
NeverStalled ==
    wf = "running" /\ (\A t \in Tasks : pc[t] = "idle") => \E j \in Jobs : Alive(j)

\* stage_scheduler.rs: "Stage is currently active, don't schedule again".
ActiveStageIsNotScheduled ==
    \A j, k \in Jobs : stageOf[j] = stageOf[k] /\ Alive(j) /\ Alive(k) => j = k

\* workflow_lifecycle_manager.rs: "Pause a workflow - prevents new stages from
\* starting".
PausedStartsNothing ==
    [][wf = "paused" => \A j \in Jobs : row[j] = "none" => row'[j] = "none"]_vars

\* workflow_lifecycle_manager.rs: "Cancel a workflow and all its pending/running
\* jobs": once the command is through, none of its jobs waits for a worker.
CancelReachesEveryJob == master = "canceled" => \A j \in Jobs : row[j] # "queued"

\* docs.json: "Comprehensive error handling with automatic retry mechanisms": a
\* workflow all of whose stages have succeeded, a retry included, has not failed.
RetryRescuesWorkflow == wf = "failed" => \E s \in Stages : ~Done(s)

\* stage_scheduler.rs: "Stage completed successfully, don't schedule again".
CompletedStageIsKept ==
    [][\A i \in DOMAIN stages : stages[i].status = "completed" /\ stages' # <<>>
        => stages'[i].status = "completed"]_vars

\* mod.rs: "Recover any orphaned jobs from previous sessions": a workflow that
\* the end of the process interrupted is brought to an end after it.
RestartRecoversWorkflow == wf = "running" ~> master \in Ended
================================================================================
