------------------------------ MODULE JobDispatch ------------------------------
(***************************************************************************)
(* The desktop's background-job engine: the rows of the background_jobs     *)
(* table, the in-memory queue, the worker loops of jobs/mod.rs that run     *)
(* process_next_job of jobs/dispatcher.rs, the commands of the UI that      *)
(* create, cancel and delete jobs, and a restart of the application.        *)
(*                                                                          *)
(* A job lives in two places: its row in SQLite (status, metadata), which   *)
(* survives a crash, and one Job value that is in the queue or in the hands *)
(* of a worker, which does not.  No lock or transaction spans the two, and  *)
(* every UPDATE the engine issues is "... WHERE id = ?": what a worker, a   *)
(* command and the recovery at startup do to a job interleaves at every     *)
(* await.  Each action below is the code between two awaits.                *)
(*                                                                          *)
(* The queue is used through single messages to its actor (JobQueue.tla     *)
(* shows what that actor guarantees), always at Normal priority, so it is   *)
(* one sequence here; a delay is a flag that time raises.                   *)
(***************************************************************************)
EXTENDS Naturals, Sequences, FiniteSets, SequencesExt, JobStatus

CONSTANTS
    Jobs,          \* the ids jobs can be created with (each is used once)
    Workers,       \* the loops start_job_worker spawns
    Clients,       \* commands in flight: UI, remote API, orchestrator
    WorkflowJobs,  \* jobs whose metadata carries a workflowId
    MasterJobs,    \* jobs of type FileFinderWorkflow or WebSearchWorkflow
    PlanJobs,      \* jobs of type ImplementationPlan
    Sessions,      \* the sets of jobs that share a session_id
    MaxRetry,      \* retry_utils::MAX_RETRY_COUNT
    MaxCrashes,    \* bound: how often the application dies
    MaxDbErrors    \* bound: how many SQL statements fail

ASSUME SubsetAssumption ==
    /\ WorkflowJobs \subseteq Jobs
    /\ MasterJobs \subseteq Jobs \ WorkflowJobs
    /\ PlanJobs \subseteq Jobs
    /\ Sessions \subseteq SUBSET Jobs

ASSUME BoundAssumption ==
    /\ MaxRetry \in Nat
    /\ MaxCrashes \in Nat
    /\ MaxDbErrors \in Nat

ASSUME JobsAssumption == IsFiniteSet(Jobs) /\ "none" \notin Jobs

VARIABLES
    up,        \* the application runs and its job system has started
    status,    \* status column of each job's row
    retry,     \* metadata.taskData.retryCount of each row
    queue,     \* JobQueueProcessor.queues[Normal]
    pc,        \* where each worker is in process_next_job
    cur,       \* the Job value each worker holds
    result,    \* what the processor returned to each worker
    cmd,       \* where each command is
    target,    \* the job each command is about
    execs,     \* history: how often each job entered its processor
    told,      \* history: how often the orchestrator was told of its end
    promised,  \* history: jobs whose cancellation a command reported done
    crashes,   \* history: crashes so far
    dbErrors   \* history: failed statements so far

rowVars == <<status, retry>>
workerVars == <<pc, cur, result>>
clientVars == <<cmd, target>>
historyVars == <<execs, told, promised>>
boundVars == <<crashes, dbErrors>>
vars == <<up, rowVars, queue, workerVars, clientVars, historyVars, boundVars>>

NoJob == "none"

\* A row that was not inserted yet, and one that was deleted.
RowStates == JobStatuses \cup {"unborn", "deleted"}

Entry == [job : Jobs, ready : BOOLEAN]

WorkerStates ==
    {"idle", "claimed", "matching", "ready", "entering", "executing",
     "recording", "telling", "failing", "retrying", "requeuing", "giving_up"}

Results == {"none", "completed", "failed", "canceled", "error", "fatal"}

CommandStates == {"idle", "dispatch", "unqueue", "mark"}

\* The one type invariant of the module: the values each part of the engine's
\* state (rows, queue, workers, commands) ranges over.
TypeOK ==
    /\ up \in BOOLEAN
    /\ status \in [Jobs -> RowStates]
    /\ retry \in [Jobs -> 0..MaxRetry]
    /\ queue \in Seq(Entry)
    /\ pc \in [Workers -> WorkerStates]
    /\ cur \in [Workers -> Jobs \cup {NoJob}]
    /\ result \in [Workers -> Results]
    /\ cmd \in [Clients -> CommandStates]
    /\ target \in [Clients -> Jobs \cup {NoJob}]
    /\ execs \in [Jobs -> Nat]
    /\ told \in [Jobs -> Nat]
    /\ promised \in SUBSET Jobs
    /\ crashes \in 0..MaxCrashes
    /\ dbErrors \in 0..MaxDbErrors

Init ==
    /\ up = FALSE
    /\ status = [j \in Jobs |-> "unborn"]
    /\ retry = [j \in Jobs |-> 0]
    /\ queue = <<>>
    /\ pc = [w \in Workers |-> "idle"]
    /\ cur = [w \in Workers |-> NoJob]
    /\ result = [w \in Workers |-> "none"]
    /\ cmd = [c \in Clients |-> "idle"]
    /\ target = [c \in Clients |-> NoJob]
    /\ execs = [j \in Jobs |-> 0]
    /\ told = [j \in Jobs |-> 0]
    /\ promised = {}
    /\ crashes = 0
    /\ dbErrors = 0
--------------------------------------------------------------------------------
(* Rows *)

HasRow(j) == status[j] \in JobStatuses

\* UPDATE background_jobs SET status = s WHERE id = j: it does not look at the
\* status it replaces, and touches nothing when the row is gone.
SetStatus(j, s) ==
    status' = IF HasRow(j) THEN [status EXCEPT ![j] = s] ELSE status
--------------------------------------------------------------------------------
(* Commands *)

\* create_and_queue_background_job up to create_job: the row is inserted as
\* queued.  A workflow's master row is not dispatched.
Create(c, j) ==
    /\ up
    /\ cmd[c] = "idle"
    /\ status[j] = "unborn"
    /\ status' = [status EXCEPT ![j] = "queued"]
    /\ IF j \in MasterJobs
       THEN UNCHANGED clientVars
       ELSE /\ cmd' = [cmd EXCEPT ![c] = "dispatch"]
            /\ target' = [target EXCEPT ![c] = j]
    /\ UNCHANGED <<up, retry, queue, workerVars, historyVars, boundVars>>

\* dispatch_job: the Job value enters the queue, due at once.
Dispatch(c) ==
    /\ cmd[c] = "dispatch"
    /\ queue' = Append(queue, [job |-> target[c], ready |-> TRUE])
    /\ cmd' = [cmd EXCEPT ![c] = "idle"]
    /\ target' = [target EXCEPT ![c] = NoJob]
    /\ UNCHANGED <<up, rowVars, workerVars, historyVars, boundVars>>

\* cancel_job reads the row, and goes on unless the status is terminal.
CancelRead(c, j) ==
    /\ up
    /\ cmd[c] = "idle"
    /\ status[j] \in ActiveStatuses
    /\ cmd' = [cmd EXCEPT ![c] = "unqueue"]
    /\ target' = [target EXCEPT ![c] = j]
    /\ UNCHANGED <<up, rowVars, queue, workerVars, historyVars, boundVars>>

\* The positions of j in the queue.
PositionsOf(j) == {i \in 1..Len(queue) : queue[i].job = j}

\* cancel_job removes the job's first entry from the queue if it has one.
CancelUnqueue(c) ==
    /\ cmd[c] = "unqueue"
    /\ \/ \E i \in PositionsOf(target[c]) :
            /\ \A k \in PositionsOf(target[c]) : i <= k
            /\ queue' = RemoveAt(queue, i)
       \/ PositionsOf(target[c]) = {} /\ queue' = queue
    /\ cmd' = [cmd EXCEPT ![c] = "mark"]
    /\ UNCHANGED <<up, rowVars, workerVars, target, historyVars, boundVars>>

\* cancel_job ends in mark_job_canceled and reports success.
CancelMark(c) ==
    /\ cmd[c] = "mark"
    /\ SetStatus(target[c], "canceled")
    /\ promised' = promised \cup {j \in {target[c]} : HasRow(j)}
    /\ cmd' = [cmd EXCEPT ![c] = "idle"]
    /\ target' = [target EXCEPT ![c] = NoJob]
    /\ UNCHANGED <<up, retry, queue, workerVars, execs, told, boundVars>>

\* The UPDATE of mark_job_canceled fails: the command reports the error.
CancelError(c) ==
    /\ cmd[c] = "mark"
    /\ dbErrors < MaxDbErrors
    /\ dbErrors' = dbErrors + 1
    /\ cmd' = [cmd EXCEPT ![c] = "idle"]
    /\ target' = [target EXCEPT ![c] = NoJob]
    /\ UNCHANGED <<up, rowVars, queue, workerVars, historyVars, crashes>>

\* cancel_session_jobs: one UPDATE over the session's rows; the queue keeps
\* its entries.
CancelSession(S) ==
    LET hit == {j \in S \ PlanJobs : status[j] \in SessionCancelable} IN
    /\ up
    /\ hit # {}
    /\ status' = [j \in Jobs |-> IF j \in hit THEN "canceled" ELSE status[j]]
    /\ promised' = promised \cup hit
    /\ UNCHANGED <<up, retry, queue, workerVars, clientVars, execs, told, boundVars>>

\* delete_job deletes the row whatever its status is.
Delete(j) ==
    /\ up
    /\ HasRow(j)
    /\ status' = [status EXCEPT ![j] = "deleted"]
    /\ UNCHANGED <<up, retry, queue, workerVars, clientVars, historyVars, boundVars>>

\* clear_job_history deletes the ended jobs among the rows that are old enough.
ClearHistory(old) ==
    LET gone == {j \in old : status[j] \in ClearableStatuses} IN
    /\ up
    /\ gone # {}
    /\ status' = [j \in Jobs |-> IF j \in gone THEN "deleted" ELSE status[j]]
    /\ UNCHANGED <<up, retry, queue, workerVars, clientVars, historyVars, boundVars>>
--------------------------------------------------------------------------------
(* Workers: process_next_job *)

\* Worker w ends its round: it drops its permit and its Job value.
Release(w) ==
    /\ pc' = [pc EXCEPT ![w] = "idle"]
    /\ cur' = [cur EXCEPT ![w] = NoJob]
    /\ result' = [result EXCEPT ![w] = "none"]

Goto(w, p) ==
    /\ pc' = [pc EXCEPT ![w] = p]
    /\ UNCHANGED <<cur, result>>

\* The positions of the queue a dequeue may take: due, nothing due before.
FirstReady ==
    {i \in 1..Len(queue) :
        queue[i].ready /\ \A k \in 1..(i - 1) : ~queue[k].ready}

\* (Mistake) the entry is read and not removed.
DequeueKeepsEntry(w) ==
    /\ up
    /\ pc[w] = "idle"
    /\ \E i \in FirstReady : cur' = [cur EXCEPT ![w] = queue[i].job]
    /\ pc' = [pc EXCEPT ![w] = "claimed"]
    /\ UNCHANGED <<up, rowVars, queue, result, clientVars, historyVars, boundVars>>

\* The worker has a permit (there are as many as workers) and dequeues.
Dequeue(w) ==
    /\ up
    /\ pc[w] = "idle"
    /\ \E i \in FirstReady :
        /\ cur' = [cur EXCEPT ![w] = queue[i].job]
        /\ queue' = RemoveAt(queue, i)
    /\ pc' = [pc EXCEPT ![w] = "claimed"]
    /\ UNCHANGED <<up, rowVars, result, clientVars, historyVars, boundVars>>

\* "Finding available processor...": no look at what the row says now.
Claim(w) ==
    /\ pc[w] = "claimed"
    /\ SetStatus(cur[w], "preparing")
    /\ Goto(w, "matching")
    /\ UNCHANGED <<up, retry, queue, clientVars, historyVars, boundVars>>

\* A workflow's master job has no processor: it is acknowledged and left.
Acknowledge(w) ==
    /\ pc[w] = "matching"
    /\ cur[w] \in MasterJobs
    /\ SetStatus(cur[w], "acknowledged_by_worker")
    /\ Release(w)
    /\ UNCHANGED <<up, retry, queue, clientVars, historyVars, boundVars>>

\* find_processor succeeds; "Processor found".
MatchProcessor(w) ==
    /\ pc[w] = "matching"
    /\ cur[w] \notin MasterJobs
    /\ SetStatus(cur[w], "preparing")
    /\ Goto(w, "ready")
    /\ UNCHANGED <<up, retry, queue, clientVars, historyVars, boundVars>>

\* find_processor fails with a JobError, which is retryable.
NoProcessor(w) ==
    /\ pc[w] = "matching"
    /\ cur[w] \notin MasterJobs
    /\ pc' = [pc EXCEPT ![w] = "failing"]
    /\ result' = [result EXCEPT ![w] = "error"]
    /\ UNCHANGED <<up, rowVars, queue, cur, clientVars, historyVars, boundVars>>

\* mark_job_running, by the dispatcher.
MarkRunning(w) ==
    /\ pc[w] = "ready"
    /\ SetStatus(cur[w], "running")
    /\ Goto(w, "entering")
    /\ UNCHANGED <<up, retry, queue, clientVars, historyVars, boundVars>>

\* setup_job_processing, the first thing every processor does: the row must
\* be there, and is marked running again.
Enter(w) ==
    /\ pc[w] = "entering"
    /\ HasRow(cur[w])
    /\ SetStatus(cur[w], "running")
    /\ execs' = [execs EXCEPT ![cur[w]] = @ + 1]
    /\ Goto(w, "executing")
    /\ UNCHANGED <<up, retry, queue, clientVars, told, promised, boundVars>>

EnterWithoutRow(w) ==
    /\ pc[w] = "entering"
    /\ ~HasRow(cur[w])
    /\ pc' = [pc EXCEPT ![w] = "failing"]
    /\ result' = [result EXCEPT ![w] = "error"]
    /\ UNCHANGED <<up, rowVars, queue, cur, clientVars, historyVars, boundVars>>

\* The processor returns Ok: it completed, it failed (most processors wrap
\* the error of the model call this way, a canceled stream's too), or one of
\* its checks found the row canceled.
Finish(w, r) ==
    /\ pc[w] = "executing"
    /\ r = "canceled" => status[cur[w]] = "canceled"
    /\ pc' = [pc EXCEPT ![w] = "recording"]
    /\ result' = [result EXCEPT ![w] = r]
    /\ UNCHANGED <<up, rowVars, queue, cur, clientVars, historyVars, boundVars>>

\* The processor returns Err, or the job timeout drops it.  "fatal" is a
\* Config, Validation or Serialization error (retry_utils::get_retry_info).
Fail(w, r) ==
    /\ pc[w] = "executing"
    /\ pc' = [pc EXCEPT ![w] = "failing"]
    /\ result' = [result EXCEPT ![w] = r]
    /\ UNCHANGED <<up, rowVars, queue, cur, clientVars, historyVars, boundVars>>

\* handle_job_success: the final status is written over whatever is there. A
\* missing row is an error that ends the round.  The orchestrator hears of a
\* completed or canceled workflow job, not of one that returned a failure.
Record(w) ==
    /\ pc[w] = "recording"
    /\ SetStatus(cur[w], result[w])
    /\ IF HasRow(cur[w]) /\ cur[w] \in WorkflowJobs /\ result[w] # "failed"
       THEN Goto(w, "telling")
       ELSE Release(w)
    /\ UNCHANGED <<up, retry, queue, clientVars, historyVars, boundVars>>

\* WorkflowOrchestrator::update_job_status.  After a success the row is read
\* again first, and a missing one ends the round.
Tell(w) ==
    /\ pc[w] = "telling"
    /\ told' = IF HasRow(cur[w]) \/ result[w] \in {"error", "fatal"}
               THEN [told EXCEPT ![cur[w]] = @ + 1]
               ELSE told
    /\ Release(w)
    /\ UNCHANGED <<up, rowVars, queue, clientVars, execs, promised, boundVars>>

\* (Mistake) the retry limit is compared with <=.
ReadFailureOffByOne(w) ==
    /\ pc[w] = "failing"
    /\ IF ~HasRow(cur[w])
       THEN Release(w)
       ELSE IF /\ cur[w] \notin WorkflowJobs
               /\ result[w] = "error"
               /\ retry[cur[w]] <= MaxRetry
            THEN Goto(w, "retrying")
            ELSE Goto(w, "giving_up")
    /\ UNCHANGED <<up, rowVars, queue, clientVars, historyVars, boundVars>>

\* (Mistake) a workflow's job is retried like any other.
ReadFailureOfAnyJob(w) ==
    /\ pc[w] = "failing"
    /\ IF ~HasRow(cur[w])
       THEN Release(w)
       ELSE IF result[w] = "error" /\ retry[cur[w]] < MaxRetry
            THEN Goto(w, "retrying")
            ELSE Goto(w, "giving_up")
    /\ UNCHANGED <<up, rowVars, queue, clientVars, historyVars, boundVars>>

\* handle_job_failure_or_retry reads the row and decides.
ReadFailure(w) ==
    /\ pc[w] = "failing"
    /\ IF ~HasRow(cur[w])
       THEN Release(w)
       ELSE IF /\ cur[w] \notin WorkflowJobs
               /\ result[w] = "error"
               /\ retry[cur[w]] < MaxRetry
            THEN Goto(w, "retrying")
            ELSE Goto(w, "giving_up")
    /\ UNCHANGED <<up, rowVars, queue, clientVars, historyVars, boundVars>>

\* (Mistake) the retry is not counted in the row.
WriteRetryUncounted(w) ==
    /\ pc[w] = "retrying"
    /\ SetStatus(cur[w], "queued")
    /\ Goto(w, "requeuing")
    /\ UNCHANGED <<up, retry, queue, clientVars, historyVars, boundVars>>

\* update_job_status_with_metadata: queued again, with the next retry count.
WriteRetry(w) ==
    /\ pc[w] = "retrying"
    /\ SetStatus(cur[w], "queued")
    /\ retry' = IF HasRow(cur[w])
                THEN [retry EXCEPT ![cur[w]] = @ + 1]
                ELSE retry
    /\ Goto(w, "requeuing")
    /\ UNCHANGED <<up, queue, clientVars, historyVars, boundVars>>

\* (Mistake) the row says queued again, the Job value is dropped.
RequeueDropped(w) ==
    /\ pc[w] = "requeuing"
    /\ Release(w)
    /\ UNCHANGED <<up, rowVars, queue, clientVars, historyVars, boundVars>>

\* re_queue_job_with_delay: the job is due when its backoff has passed.
Requeue(w) ==
    /\ pc[w] = "requeuing"
    /\ queue' = Append(queue, [job |-> cur[w], ready |-> FALSE])
    /\ Release(w)
    /\ UNCHANGED <<up, rowVars, clientVars, historyVars, boundVars>>

\* The failure is permanent; a workflow job's orchestrator is told.
GiveUp(w) ==
    /\ pc[w] = "giving_up"
    /\ SetStatus(cur[w], "failed")
    /\ IF cur[w] \in WorkflowJobs THEN Goto(w, "telling") ELSE Release(w)
    /\ UNCHANGED <<up, retry, queue, clientVars, historyVars, boundVars>>

\* A statement of the round fails.  Most errors leave process_next_job by "?"
\* and drop the Job value; the ones of the failure handler are only logged.
DbError(w) ==
    /\ dbErrors < MaxDbErrors
    /\ dbErrors' = dbErrors + 1
    /\ \/ /\ pc[w] \in {"claimed", "matching", "ready", "recording", "failing"}
          /\ Release(w)
       \/ /\ pc[w] = "entering"
          /\ pc' = [pc EXCEPT ![w] = "failing"]
          /\ result' = [result EXCEPT ![w] = "error"]
          /\ UNCHANGED cur
       \/ /\ pc[w] = "retrying"
          /\ Goto(w, "requeuing")
       \/ /\ pc[w] = "giving_up"
          /\ IF cur[w] \in WorkflowJobs THEN Goto(w, "telling") ELSE Release(w)
    /\ UNCHANGED <<up, rowVars, queue, clientVars, historyVars, crashes>>

\* The process_after of a delayed entry passes.
DelayElapses(i) ==
    /\ ~queue[i].ready
    /\ queue' = [queue EXCEPT ![i].ready = TRUE]
    /\ UNCHANGED <<up, rowVars, workerVars, clientVars, historyVars, boundVars>>
--------------------------------------------------------------------------------
(* Crash and restart *)

\* The process dies: what was in memory is gone, the rows stay.
Crash ==
    /\ up
    /\ crashes < MaxCrashes
    /\ crashes' = crashes + 1
    /\ up' = FALSE
    /\ queue' = <<>>
    /\ pc' = [w \in Workers |-> "idle"]
    /\ cur' = [w \in Workers |-> NoJob]
    /\ result' = [w \in Workers |-> "none"]
    /\ cmd' = [c \in Clients |-> "idle"]
    /\ target' = [c \in Clients |-> NoJob]
    /\ UNCHANGED <<rowVars, historyVars, dbErrors>>

\* (Mistakes) recovery also takes rows a crash left running, also takes canceled
\* ones, or forgets the ones that were waiting for a retry.
RecoverableRunningToo == {j \in Jobs : status[j] \in {"queued", "running"}}
RecoverableCanceledToo == {j \in Jobs : status[j] \in {"queued", "canceled"}}
RecoverableFirstTries == {j \in Jobs : status[j] = "queued" /\ retry[j] = 0}

\* The rows recover_queued_jobs puts back, in the order get_active_jobs
\* returns them (by created_at, which ids of one millisecond do not decide).
Recoverable == {j \in Jobs : status[j] = "queued"}

\* start_job_system, before any worker or command runs: rows that have been
\* running for over an hour (zombies) are failed, then every queued row gets a
\* queue entry that is due at once, or is failed when this version of the
\* program cannot read the payload in its metadata.
StartJobSystem(zombies, unreadable) ==
    /\ ~up
    /\ up' = TRUE
    /\ status' = [j \in Jobs |->
                    IF j \in zombies \cup unreadable THEN "failed" ELSE status[j]]
    /\ \E order \in SetToSeqs(Recoverable \ unreadable) :
        queue' = [i \in 1..Len(order) |-> [job |-> order[i], ready |-> TRUE]]
    /\ UNCHANGED <<retry, workerVars, clientVars, historyVars, boundVars>>
--------------------------------------------------------------------------------
WorkerStep(w) ==
    \/ Dequeue(w) \/ Claim(w) \/ Acknowledge(w) \/ MatchProcessor(w)
    \/ NoProcessor(w) \/ MarkRunning(w) \/ Enter(w) \/ EnterWithoutRow(w)
    \/ \E r \in {"completed", "failed", "canceled"} : Finish(w, r)
    \/ \E r \in {"error", "fatal"} : Fail(w, r)
    \/ Record(w) \/ Tell(w) \/ ReadFailure(w) \/ WriteRetry(w) \/ Requeue(w)
    \/ GiveUp(w)

\* The steps a command goes on with once it has started.
CommandStep(c) == Dispatch(c) \/ CancelUnqueue(c) \/ CancelMark(c)

Next ==
    \/ \E w \in Workers : WorkerStep(w) \/ DbError(w)
    \/ \E c \in Clients :
        \/ CommandStep(c) \/ CancelError(c)
        \/ \E j \in Jobs : Create(c, j) \/ CancelRead(c, j)
    \/ \E S \in Sessions : CancelSession(S)
    \/ \E j \in Jobs : Delete(j)
    \/ \E old \in SUBSET Jobs : ClearHistory(old)
    \/ \E i \in 1..Len(queue) : DelayElapses(i)
    \/ Crash
    \/ \E zombies \in SUBSET {j \in Jobs : status[j] = "running"},
          unreadable \in SUBSET Recoverable : StartJobSystem(zombies, unreadable)

Spec == Init /\ [][Next]_vars

\* tokio runs every worker loop and every command that has started, the job
\* timeout ends a processor that hangs, and time passes.  Nothing makes a user
\* issue a command, and nothing makes the process crash or a statement fail.
Fairness ==
    /\ \A w \in Workers : WF_vars(WorkerStep(w))
    /\ \A c \in Clients : WF_vars(CommandStep(c))
    /\ WF_vars(\E i \in 1..Len(queue) : DelayElapses(i))
    /\ WF_vars(StartJobSystem({}, {}))

FairSpec == Spec /\ Fairness
--------------------------------------------------------------------------------
(* Properties *)

InQueue(j) == PositionsOf(j) # {}
AtWorker(j) == \E w \in Workers : cur[w] = j
InDispatch(j) == \E c \in Clients : cmd[c] = "dispatch" /\ target[c] = j

\* Some task of the running application still has the Job value of j.
Held(j) == InQueue(j) \/ AtWorker(j) \/ InDispatch(j)

\* A job is never in two hands: at any time one command is about to dispatch
\* it, or it has one queue entry, or one worker holds it (or none of these).
\* Two copies would run the same model call twice and race for the row; the
\* engine has no lock that forbids it, only the order of its moves.
SingleCopy ==
    /\ \A i, k \in 1..Len(queue) : queue[i].job = queue[k].job => i = k
    /\ \A v, w \in Workers : cur[v] = cur[w] /\ cur[v] # NoJob => v = w
    /\ \A c, d \in Clients :
        cmd[c] = "dispatch" /\ cmd[d] = "dispatch" /\ target[c] = target[d] => c = d
    /\ \A j \in Jobs : /\ ~(InQueue(j) /\ AtWorker(j))
                       /\ ~(InQueue(j) /\ InDispatch(j))
                       /\ ~(AtWorker(j) /\ InDispatch(j))

\* A processor (a paid model call) is entered at most once more than the row
\* counts retries; only a retry count that could not be stored allows one more.
\* Crashes and recoveries at any point do not add runs.
RetryBudget == \A j \in Jobs : execs[j] <= 1 + retry[j] + dbErrors

\* The orchestrator, not the dispatcher, decides on retries of a workflow's
\* stage: its job enters a processor once in its life, crashes included, and
\* its end is reported at most once.
WorkflowJobRunsOnce == \A j \in WorkflowJobs : execs[j] <= 1 /\ told[j] <= 1

\* A cancel_job that removed the queue entry and has the row still to mark.
CancelPending(j) == \E c \in Clients : cmd[c] = "mark" /\ target[c] = j

\* Rows that say queued although nothing will ever take them up.
Stranded ==
    {j \in Jobs \ MasterJobs :
        status[j] = "queued" /\ ~Held(j) /\ ~CancelPending(j)}

\* While the application runs, a row that says queued has a task that will take
\* it further; each failed statement strands at most one.
QueuedIsHeld == up => Cardinality(Stranded) <= dbErrors

\* The row says how the job ended and no task has it any more.
Settled(j) == status[j] \in TerminalStatuses \cup {"deleted"} /\ ~Held(j)

\* What has settled is never taken up again: no late command, no delayed retry
\* and no recovery after a crash revives an ended job.
SettledStaysSettled == [][\A j \in Jobs : Settled(j) => Settled(j)']_vars

\* A recorded success is never run again nor turned into a failure. (A cancel
\* that read the row before can still overwrite it: CancelKeepsOutcome.)
CompletedIsNeverRerun ==
    [][\A j \in Jobs : status[j] = "completed" =>
        status'[j] \in {"completed", "canceled", "deleted"}]_vars

\* As long as the process lives and SQLite answers, every queued job reaches a
\* final status (or is deleted), through however many retries.
EveryJobSettles ==
    \A j \in Jobs \ MasterJobs :
        status[j] = "queued" ~> status[j] \in TerminalStatuses \cup {"deleted"}

\* What the documents and comments promise beyond that, and the code does not.

\* docs.json: "Invalid transitions are rejected": a final status stays.
TerminalIsFinal ==
    [][\A j \in Jobs : status[j] \in TerminalStatuses =>
        status'[j] \in {status[j], "deleted"}]_vars

\* cancellation.rs: "If job is already in a terminal state, no action needed":
\* no cancellation replaces the outcome of a job that has ended.
CancelKeepsOutcome ==
    [][\A j \in Jobs : status[j] \in {"completed", "failed"} => status'[j] # "canceled"]_vars

\* cancellation.rs, "Cancel all active jobs for a session": a job whose
\* cancellation was reported done does not start a processor afterwards.
CanceledNeverStarts == [][\A j \in promised : execs'[j] = execs[j]]_vars

\* docs.json: "Stale jobs (running status after app restart) are marked failed".
StaleRunningIsFailed == up => \A j \in Jobs : status[j] = "running" => AtWorker(j)

\* dispatcher.rs: a failure of a job with a workflowId is always passed to the
\* WorkflowOrchestrator: once such a job's round is over, it was told.
WorkflowFailureIsReported ==
    up => \A j \in WorkflowJobs :
        status[j] = "failed" /\ ~AtWorker(j) => told[j] = 1
================================================================================
