# PlanToCode: TLA+ models and proofs

PlanToCode is a desktop application (Tauri, Rust, with a React interface) that
prepares coding tasks by running *background jobs*: model calls that find files,
refine prompts and write implementation plans. Single jobs are run by a job
engine inside the desktop process; chains of them by a workflow orchestrator. A
server (Actix, Postgres, Redis) proxies the model calls, charges for them and
relays messages between the desktop and a mobile client.

This directory models the parts of both programs that keep state which several
tasks change at the same time: the job engine, the workflows, the sessions and
their histories, the terminals, the connection to the server and the file locks
on the desktop; the charges, the payments and the device relay on the server.

Paths in this file are relative to `src/desktop/src-tauri/src/` unless they
start with `src/`; those of the server's table to `src/server/src/`.

## 1. The system

### Desktop

| component | state | operations | interacts with |
|---|---|---|---|
| job status model (`models.rs`) | the `status` column's 13 values | `is_terminal`, `is_active` | everything below |
| job queue (`jobs/queue.rs`) | three deques in one task, an mpsc channel of 100, one-shot replies, a semaphore | enqueue, enqueue with delay, dequeue, cancel job, cancel session jobs, shutdown | called by dispatcher, repository, recovery |
| dispatcher and workers (`jobs/dispatcher.rs`, `jobs/mod.rs`) | the Job value in each worker's hands | `dispatch_job`, `process_next_job`, success, failure and retry handling, recovery at startup | queue, repository, registry, orchestrator |
| job repository (`db_utils/background_job_repository/`) | `background_jobs` rows in SQLite | status updates, `cancel_job`, `cancel_session_jobs`, create, delete, clear | dispatcher, commands, orchestrator, processors |
| job commands (`commands/job_commands.rs`, `utils/job_creation_utils.rs`) | none of their own | create and dispatch, cancel, delete, clear history | UI, remote API, orchestrator |
| workflow orchestrator (`jobs/workflow_orchestrator/`) | `WorkflowState` per workflow, in memory | start, stage completion, failure, cancellation, next stages, retry, pause, resume, cancel, recovery | creates jobs, is told of their ends |
| streaming handler (`jobs/streaming_handler.rs`) | the accumulated response and usage | chunk loop with cancel checks | processors, repository |
| session cache (`services/session_cache.rs`) | sessions with dirty flags and a revision | get, upsert, partial updates, flush, remove | commands, a flush timer, session repository |
| history state sequencer (`services/history_state_sequencer.rs`) | one queue and task per session; versioned histories | read, sync, undo, merge, with a 60 s time-out | commands, session cache |
| file lock manager (`utils/file_lock_manager.rs`, `fs_utils.rs`) | locks per path | acquire, release on drop; write, append, remove, move | processors, commands |
| terminal manager (`services/terminal_manager.rs`) | processes, buffers, channels, the session's row | start, attach, flush, kill, clean up, restore | UI, phone (through the device link) |
| device link client (`services/device_link_client.rs`) | WebSocket, bound sessions, pending output | connect, reconnect, bind, forward output | relay, terminal manager, remote API |
| token, config and prompt caches, backups | tokens, cached values | | |

### Server

| component | state | operations |
|---|---|---|
| pending charges (`services/pending_charge_manager.rs`) | reservations in Redis with expiry | reserve (Lua), release, expire |
| credits and billing (`services/credit_service.rs`, `services/billing/`) | balances, charges, adjustments in Postgres | initiate, finalize, fail, refund, reconcile time-outs, auto top-off |
| Stripe webhooks (`handlers/billing/webhook_handlers.rs`) | a row per event with its lock | one handler per event, idempotency |
| device relay (`services/device_link_ws.rs`, `device_connection_manager.rs`, `relay_session_store.rs`) | connections, resume tokens, event buffers | register, replace, remove, resume, broadcast, replay |
| request tracker (`services/request_tracker.rs`) | running requests and their cancel tokens | track, cancel, remove, clean up |
| auth stores, rate limits | expiring maps and windows | |

Without core state of their own: the React interface, the Swift client, the
website, the infrastructure scripts, the job processors' prompts and parsers,
and the server's provider adapters.

### How the parts meet

A *job* exists twice. Its **row** in SQLite carries the status and, in its
metadata, the retry count; it survives a crash. Its **Job value** is what a
worker runs; it is in the queue or in a worker's hands, and is lost in a crash.
`create_and_queue_background_job` inserts the row as `queued` and then puts the
value into the queue. A worker takes the value out, writes `preparing`, then
`running`, enters the processor, and writes how it ended. On a retryable error
the row is set back to `queued` with a higher retry count and the value is put
back with a delay. A restart rebuilds the values from the rows that say `queued`.
No transaction spans the two, and every status update overwrites whatever is
there: commands, dispatcher and recovery interleave at every `await`.

A *workflow* is a row that no worker runs, an entry in the orchestrator's map,
and the jobs of its stages. A worker that has ended a stage's job reports it; the
report's handler locks the map, clones the entry, unlocks, decides, and locks
again. Every command does the same.

A *session* lives in the cache; its row follows by flushes. Commands edit the
cache, and the histories of its text and files are edited through a worker that
writes history and row in one transaction and the cache after it.

A *request* to a model is charged an estimate, reserved in Redis with a margin,
and settled by its stream, by a cancel or by the loop for charges that timed
out. Credit comes in by webhooks, which Stripe may deliver twice.

A *device* has a WebSocket to the server, whose actor registers it in a table,
replays what the device has missed and forwards what other devices send. The
desktop's client forwards the output of the terminals a phone is bound to.

### What makes each part correct

* queue: linearizable; nothing lost, doubled, early, or behind a lower priority;
  every call returns.
* engine: one Job value per job; a processor (a paid call) entered no more often
  than retries were counted; a workflow's stage run once and reported once; no
  queued row forgotten; an ended job never taken up again; every job ends.
* orchestrator: stages in order, each tried up to its limit, completed only when
  all of them are; every workflow ends, and its row with it.
* session cache: a clean entry equals its row; what was answered as saved is
  saved; a deleted session stays deleted.
* sequencer: no state overwrites an entry its author has not seen, what was
  acknowledged is kept, and the session shows the current entry.
* charges: the entries of a request add up to its cost, a pending charge's
  margin stays reserved, a payment becomes credit once.
* relay: one desktop per user, no entry for a dead connection, what is buffered
  reaches a device that comes back.
* terminals and link: what is counted as flushed is logged, no output is
  forgotten between the locks, one task connects.
* locks: a file is changed by nobody but the holder of its lock.

`PROJECT.json` lists the hazards line by line, with the property that covers
each; a note names the configuration that shows one going wrong.

## 2. Modules

| module | models |
|---|---|
| `JobStatus` | the statuses and the sets of them that the code tests |
| `JobDispatch` | rows, queue, workers, commands, crash and recovery |
| `JobPool` | abstract: what the queue promises its callers |
| `JobQueue` | the actor, its channel and its callers; implements `JobPool` |
| `WorkflowOrchestrator` | one workflow, its handlers and commands, the end of the process |
| `SessionCache` | one session in the cache and in its row |
| `HistorySequencer` | extends it: the history of its file selection |
| `Billing` | one user's charges, reservations, time-outs and auto top-offs |
| `StripeWebhook` | extends it: payments that become credit |
| `DeviceRelay` | the server's relay for one user's devices |
| `TerminalSession` | one terminal: processes, buffer, log, channels, restoration |
| `TerminalLink` | the terminal's output on its way to the phone |
| `DeviceLink` | the task that keeps the connection to the relay |
| `FileLocks` | file operations under the locks of paths |
| `MC...` | small instances; `MCLive` joins three modules' liveness, `MCDesktop` the last four modules |
| `...Proofs`, `SequenceLemmas` | theorems (section 4) |

Everywhere: an action is the code between two awaits, under one lock, or in one
statement of a database; bounds are constants, named in the `CONSTANTS` section
as such; history variables are named in a comment and used by properties only.

### JobDispatch

`status[j]` and `retry[j]` are the columns of row `j` (`unborn` before the
INSERT, `deleted` after the DELETE). `queue` is the deque of Normal priority,
the only one the engine uses; an entry's `ready` says that its `process_after`
has passed. `pc[w]`, `cur[w]`, `result[w]` are a worker's place in
`process_next_job`, the Job value it holds and what the processor returned.
`cmd[c]`, `target[c]` are a command in flight. `execs`, `told`, `promised` are
history. A worker's round is

    Dequeue -> Claim -> Acknowledge                               (a workflow's master job)
                     -> NoProcessor -> ReadFailure ...
                     -> MatchProcessor -> MarkRunning -> Enter -> Finish -> Record -> Tell
                                                      |        -> Fail -> ReadFailure
                                                      -> EnterWithoutRow -> ReadFailure
    ReadFailure -> WriteRetry -> Requeue
                -> GiveUp -> Tell

`DbError` is a failing statement at any of these points, with the error path the
code takes there: most leave by `?` and drop the Job value; those inside the
failure handler are logged and the handler goes on, so a retry whose count could
not be written is requeued all the same. `Cancel*` are the three steps of
`cancel_job`, `CancelSession` the bulk UPDATE, `Delete` and `ClearHistory` the
two ways to lose a row. `Crash` empties what is in memory; `StartJobSystem` is
the zombie check of the orchestrator's initialisation followed by
`recover_queued_jobs`, as one step, because the workers are spawned after it.

Abstracted: prompts, responses, tokens, costs, messages and events; a processor
is what it returns (`Finish`, `Fail`), its first call `setup_job_processing`
(`Enter`) and its check for cancellation (`Finish` with `canceled` requires a
canceled row). The queue is used through single messages, so it is one sequence
here; that this is sound is what `JobQueue` checks. A worker owns a permit
whenever it runs, since there are as many permits as workers.

Left out: a failure to build the retry metadata (it ends like `GiveUp`); a
failing `Requeue` (the row's conversion back to a Job value, which the same row
has passed before, and an enqueue, where nothing shuts the queue down); a
`DbError` at each of the handlers' repeated reads of one row (it is there at one
of them, and the others end the same way); the `retry_counts` map (only
`workflow_error_handler.rs` counts in it: `attempts` of `WorkflowOrchestrator`),
and commands that run before the job system has started (their rows are picked
up by the recovery like any other).

### JobQueue

`queues` are the deques, `channel` the mpsc channel, `call[c]` the method a
caller is in, `sent` the callers that wait for a reply and `answer` the one-shot
channels. `Send` needs room; `Handle*` is one iteration of
`JobQueueProcessor::run` for one kind of message; `HandleShutdown` drops the
channel with what is in it, which makes the waiting callers' `rx.await` fail
(`Disconnected`). A job is enqueued only while no copy waits: that is
`SingleCopy`, which the engine guarantees. `JobPool` has neither channel nor
deques: a set of waiting jobs, and each call takes effect at one instant. The
refinement mapping forgets the order in the deques and the messages on their way.

### WorkflowOrchestrator

`wf`, `stages` and `attempts` are what the process keeps of the workflow and
lose their values in a `Crash`; `row`, `stageOf` and `master` are the database.
The engine is abstracted to what the orchestrator sees of it: `RunJob`, and
`EndJob`, which writes the row and makes a task out of the worker's call of
`update_job_status`. A task (`pc`, `job`, `pend`, `then`) is a handler or a
command; its places are the locks it takes:

    report -> completing -> creating*                   next stages, each under its own lock
                         -> complete -> completeRow
                         -> fail -> failRow
           -> failing -> resetting -> queueing -> replacing      retry
                      -> abort -> abortRow -> verdict
    resume -> resuming -> creating*
    cancel -> canceling* -> cancelState -> cancelRow
    query  -> recovering -> rerun -> failing ...                 lazy recovery

`First`, `NextStages` and `MustStop` are the scheduler's decisions, taken on the
list of stage jobs with the superseded ones still in it. `RetryFrom` says for
which statuses a retry is asked: the window offers it for failed stages, the
command `retry_workflow_stage_command` takes a stage in any status. `StartNext`
is the resume's own copy of the loop (`workflow_lifecycle_manager.rs:444`), which
differs from the handlers' in nothing the model keeps. `MayRetry` has the stage's
limit only: five attempts for errors that contain "Database pool not yet
initialized" (`workflow_error_handler.rs:154`) are left out, as a stage that
runs has a pool. Left out as well: the skip
strategy, which no stage is configured with; the clean-up handlers, which change
no state; the removal of old workflows; `cancel_workflow_stage_command`.

### SessionCache and HistorySequencer

A session is its name, which stands for all plain fields and is the number of
the edit that gave it, and two sets of files; sessions share nothing but the
order in which a flush writes them, so there is one. A flush is three steps
(snapshot, UPDATE with its merge, reset of the flags if the revision is the
same); several tasks and the timer flush at the same time. `excuses` records
what the code does not exclude between cache and row: a flush that writes an
older snapshot, an upsert that replaces unflushed edits, a load that arrives
late, a failed UPDATE. The properties name the excuses they need.

`HistorySequencer` adds the table of histories with their version and index,
the tasks that read a history, make a state and queue it, and the worker, step by step
(receive, read, merge, write, cache, apply, reply). `SortedBy`, `After`, the
duplicate rule and the cut to `MaxHistory` are the algorithms of the merge.
Four things are coarser than the code. `After` orders two devices' entries by
time; that times less than 100 ms apart count as equal and the device's name
decides (`session_repository.rs:1782`) is left out, the times being small
numbers that stand for distinct moments. The worker's `get_session`, a load and
an insert when the session is not cached (`session_cache.rs:94`), is one step,
`WorkerGet`; the same load of a command is two, `GetRead` and `GetInsert`. A
task that reads a history gets all of it; the remote call `get_history_state`
with `maxEntries` (`remote_api/handlers/session.rs:339`) hands out a cut list,
and a state built on it is not explored. And a flush that writes an older
snapshot last is, as said, an excuse: `CleanIsStored` and `RenameIsDurable` hold of what
happens without it and do not show that it is harmless.
The task description's history takes the same path with another duplicate rule
and is left out, as are `merge_included_respecting_exclusions`, `reload` and the
old history commands, which nothing calls.

### Billing and StripeWebhook

`paid` and `free` are the balances, `usage` the rows of `api_usage`, `entries`
the sums of a request's `credit_transactions`, `field` and `sentinel` the Redis
hash and the keys with a TTL. A request's stream, its cancel and the loop of the
timed-out charges are the three *settlers* of its charge; `settle[s]` is where
each one is and the balances it has read. A transaction that takes the row lock
of `user_credits` first is one action; settling does not take it, so its read
and its write are two. What a settler does last (`After`) depends on the way it
settled: `finalize_api_charge_with_metadata` looks at the auto top-off, also for
a stream that ended without a token, and `fail_api_charge` does not. `DropStream` is the
end of a stream that settles nothing: a chunk that cannot be transformed, or a
client that goes away (the stream has no `Drop` of its own). `KeyExpires` needs the
reservation's TTL, which is configurable (`billing/core.rs:85`), to be longer
than a charge's time-out, as the defaults are: a key lapses when its charge is
overdue. `StripeWebhook` adds the rows of `webhook_idempotency`
with their lock, deliveries (`worker`), and the purchase, a SERIALIZABLE
transaction that fails if the credit row changed after its snapshot. The lock
(`Acquire`) may meet an error of the database, which is answered with 200, and
the record at the end (`Finish`) may stay `processing`, with a warning. Left out:
the two repetitions of a purchase whose COMMIT fails with 40001
(`credit_service.rs:1375`: purchases of one user conflict at the row's lock
already, where the code does not repeat), signup credits, administrators' adjustments, checkout pages, computation of
prices, events of customers and payment methods.

### DeviceRelay

`conn[c]` is the actor of a WebSocket, `table` the user's entry of
`connections`, `seq`, `id`, `buffer` and `pub` the events with their numbers and
how far each broadcast is, `store` and `creds` the sessions that can be
resumed on both sides, `client`, `cursor` and `got` the device. Each access to
a concurrent map under its own lock is a step: numbering an event, recording it
in the buffer and sending it are three. The table's entry and the answer to the
device are one step where nothing else reads what lies between. The client's
side is external to the server and taken from the desktop's
`device_link_client.rs`. Not modelled: the routing of remote calls (a look-up and
a send), binary frames, the rate limit of a socket, push notifications, the
queue of pending commands, which nothing fills, and the manager's
`cleanup_stale_connections` (`device_connection_manager.rs:599`), which nothing calls.

### TerminalSession, TerminalLink, DeviceLink, FileLocks

`TerminalSession`: `process`, `handle` and `task` per process, `flush` per
flusher (the timer, each process's end, the clean-up), `row` the session's row.
Output is counted in chunks; `BufferCap` and `LogCap` stand for 32 MiB and 8 MiB.
A flush reads a window, writes it and advances a counter, in separate steps.
`TakeStatus` waits for the process to be dead: that the reader meets the end of the
output with the process still alive (`terminal_manager.rs:451`) is left out.

`TerminalLink`: one terminal's output and the connections that follow one another.
A connection's `start` sets the senders, registers and spawns three tasks; the
first to end (`SenderEnds`, `ReceiverEnds`, `HeartbeatEnds`) starts the clean-up
(`TakeSender` to `ClearBinding`, a lock each), and the other two go on: a
receiver whose connection is over binds and unbinds beside the next one's.
`Shut*` are `shutdown`, lock by lock, at any time; it gives up what is pending.
`HandOver` to `MarkTrimmed` are the task that takes the output; `Request`,
`Bind*`, `Flush*` and `Unbind*` a receiver's handling of the phone's requests,
in which a flush sends piece by piece and puts back what the channel did not take. The history
variables `sent`, `cut` and `gone` say what became of a chunk. Abstracted: a chunk is
at most one frame (the reader's buffer of 4096 bytes is below the frame's 16 KiB);
a snapshot is read and its pieces sent in one step; the smaller snapshot of a
connection with little bandwidth is another value of `SnapshotCap`, a
connection that skips snapshots a request without one, an unbind without a
session one of the only session; a start that is aborted while it waits takes no further step.

`DeviceLink`: the flag, the slot
and the task of `initialize_device_link_connection`, the reconnection loop, and
the settings, logins and logouts that start and stop it; an aborted task ends
where it awaits, and what it has spawned goes on. A call that starts it reads the
token, the setting and the server one after the other.

`FileLocks`: `acquire` looks
every 10 ms until a path is free; a step is what happens between two awaits;
every call of the file system may fail. Paths are the normalized ones, without
links, in one directory that exists: `Release` gives back the path that was
locked, while the code normalizes again (`file_lock_manager.rs:105`), which is
the same path unless a missing parent comes into being below a link meanwhile. Directories as sources of a move are left out.

## 3. Runs

| run | instance | shows |
|---|---|---|
| `retries` | 2 jobs (one a master row), 2 workers, 2 commands, 3 retries, 2 crashes | `TypeOK`, `RetryBudget`, `SettledStaysSettled` with the code's own retry limit and repeated recovery |
| `restart` | 2 jobs (one a workflow's), 2 workers, 2 commands, 1 retry, 1 crash, 1 SQL error | `SingleCopy`, `RetryBudget`, `WorkflowJobRunsOnce`, `QueuedIsHeld`, `CompletedIsNeverRerun` |
| `queue_pool` | 3 callers, 2 jobs, 3 priorities, channel of 2, 1 tick | the actor implements the pool |
| `live` | three parts side by side: engine with 2 jobs and 1 worker; queue with 3 callers and a shutdown; workflow of 4 stages | `EveryJobSettles`, `EveryCallReturns`, `WorkflowEnds` |
| `workflow` | 2 stages, 2 tasks, 4 jobs; three of six events: the four commands, 1 error, 1 crash; retries of stages in any status | `TypeOK`, `StagesInOrder`, `CompletedIsComplete`, `AttemptLimit`, `RowFollowsState` |
| `session` | 2 commands, the timer, the worker; 2 names, 3 edits, history of 3 | the session's and the history's invariants, `NoBlindOverwrite` |
| `billing` | 2 requests, 2 payments, 2 workers, 1 crash | `WebhookTypeOK`, `ChargesMatchUsage`, `ReservedWhilePending`, `PaidOnce`, `CompletedIsCredited` |
| `relay` | 2 desktops, 1 phone, 3 connections, 1 message, buffer of 2 | `RelayTypeOK`, `OneDesktop`, `NoStaleEntry`, `BufferedReachesDevice` |
| `desktop` | terminal, output (3 chunks, 2 requests, 2 connections, 1 shutdown; bounded together), link and files, each by itself | `DesktopTypeOK`, `FlushedIsLogged`, `SavedIsLogged`, `NoChunkForgotten`, `OneLoop`, `LockedFileIsStable` |
| `sessioncancel`, `wf_rescue`, `ledger` | small | what a comment or a document promises and the code does not do (section 5) |

**Parts.** `MCSession`, `MCBilling`, `MCDeviceRelay`, `MCDesktop` and `MCLive`
choose a *part* in the initial state and keep it: a restriction of what may
happen, in words beside its definition. A property is checked in every part, and
the whole of what a module can do occurs in some part; a combination that no
part has (a deletion together with three edits; three desktops) is not explored.
For the properties in section 4 the proofs close that gap.

**Bounds.** The hazards are races for one row, one lock, one entry, so the
number of tasks that can act on it matters more than the number of rows: two
workers and two commands give every pair of actors, and with two jobs a worker
can be busy with one while the other waits. One retry covers "below the limit"
and "at the limit"; `retries` uses `MAX_RETRY_COUNT = 3`. One crash separates
what ran before from what runs after; two let a recovered job be recovered
again. A channel of two messages can hold a call behind a shutdown and is full
while a third caller wants in, which is all that a full channel of 100 means. In
`workflow` four jobs of two stages allow a retry of each, a recovery that adds a
job and a query that repeats a completion; two tasks give every pair of handlers.
Any three of the four commands, an error and a crash may happen
in one behaviour (`MaxEvents`), and a retry may be asked for a stage in any status;
in the runs of counterexamples only for failed ones.
`AttemptLimit` adds up the limits of the retried stages up to the one it counts: a
status query lists a retry's job before the old one is superseded, so both may
complete, and a later stage without retries of its own gets two jobs.
Three edits are the least with a conflict whose merge drops a duplicate; a
history of three is full then. A buffer of two events loses one when the third
comes. Final costs of 1 and 3 around an estimate of 2 refund and charge more.
Caps of 2 and 4 chunks keep the order of the code's sizes where it matters;
`MCDesktop_log.cfg` has the other order, which the code's sizes also allow.
In the output's part a behaviour has five chunks, requests and connections
together (`MaxEffort`), where a connection counts twice with a shutdown: a
cap that is passed while a bind is under way on a connection that ends needs
five, and so does a shutdown beside a connection that binds and two chunks. Its next connection starts when the start of
the one before it is over or, after a shutdown, was aborted (`OneStart`); its theorem has
no such bounds and covers starts that overlap.

**View.** `PartView` is what changes in a part, with `sent`, `cut` and `gone`
replaced by the union of their chunks. No guard reads them, what a step adds
to the union depends on the union only (chunks that leave one of the three join
another), and `NoChunkForgotten` asks for the union; so does the type's claim about them.
`InOrder`
and `SentOnce` ask for the order of `sent` and are checked without it.

**Symmetry** of workers, tasks, commands, requests and connections is used in
runs of invariants and action properties only, and never of values that a
definition orders. **Deadlock** is not checked: an engine without work, a user
without commands, a used-up bound may idle; where waiting for one another is the
hazard (`EveryCallReturns`, `NoDeadlock`) it is a property.

**Fairness.** Weak fairness of every task that has been started (worker,
command, handler, processor task of the queue), because tokio polls every ready
task, and the job time-out of `execute_job_with_processor` ends a processor that
hangs; of the delay, because time passes; of `StartJobSystem`, because the
application was started. Strong fairness of `Send`, because tokio's bounded
channel grants room in the order of the waiting senders. `MCBilling`'s fair
specification adds the streams' ends and the loop, which is spawned at the
start. Nothing is assumed of users, crashes, errors, phones or Stripe.

The configurations beside these are the counterexamples of section 5, and
`MCJobDispatch_live.cfg`, the engine's liveness with two workers.

## 4. Proofs

For any finite set of jobs, any sets of workers, handlers, stages, callers, requests,
payments, devices, connections, files, and any bounds (the `...Assumption` of
each module, all of which the code's constants satisfy):

| theorem | statement |
|---|---|
| `TypeCorrect` (`JobDispatchProofs`) | `Spec => []TypeOK`: the retry count never passes the limit |
| `OneCopy` | `Spec => []SingleCopy` |
| `BoundedRuns` | `Spec => []RetryBudget` |
| `WorkflowJobOnce` | `Spec => []WorkflowJobRunsOnce` |
| `SettledForGood` | `Spec => SettledStaysSettled` |
| `CompletedForGood` | `Spec => CompletedIsNeverRerun` |
| `QueuedHeld` | `Spec => []QueuedIsHeld` |
| `QueueTypeCorrect` (`JobQueueProofs`) | `Spec => []TypeOK` |
| `QueueImplementsPool` | `Spec => ImplementsPool`: the actor refines `JobPool` |
| `LocksTypeCorrect` (`DesktopProofs`) | `LocksSpec => []LocksTypeOK` |
| `LockedFileStays` | `LocksSpec => LockedFileIsStable` |
| `OneLoopOnly` | `LinkSpec => []OneLoop` |
| `NoChunkIsForgotten` | `OutputSpec => []NoChunkForgotten` |
| `FlushedIsInTheLog` | `TerminalSpec => []FlushedIsLogged` |
| `SavedIsInTheLog` | `TerminalSpec => []SavedIsLogged` |
| `DesktopTypeCorrect` | `DesktopSpec => []DesktopTypeOK`: the four side by side |
| `HistoryTypeCorrect` (`SessionProofs`) | `Spec => []HistoryTypeOK` |
| `NoSelectionTwice` | `Spec => []Distinct(hist.entries)` |
| `DeletedForGood` | `Spec => []DeletedStaysDeleted` |
| `RenameDurable` | `Spec => []RenameIsDurable` |
| `CleanStored` | `Spec => []CleanIsStored` |
| `AcknowledgedKept` | `Spec => []AcknowledgedIsKept` |
| `SelectionFollowed` | `Spec => []SelectionFollowsHistory` |
| `BillingTypeCorrect` (`BillingProofs`) | `Spec => []WebhookTypeOK`: no balance is negative |
| `ChargesMatch` | `Spec => []ChargesMatchUsage` |
| `Reserved` | `Spec => []ReservedWhilePending` |
| `OnePurchase` | `Spec => []PaidOnce` |
| `CompletedCredited` | `Spec => []CompletedIsCredited` |
| `OneDesktopOnly` (`DeviceRelayProofs`) | `Spec => []OneDesktop` |
| `NoStaleEntries` | `Spec => []NoStaleEntry` |
| `RelayTypeCorrect` | `Spec => []RelayTypeOK`: the buffer keeps its bound and has no event twice |
| `BufferReachesDevices` | `Spec => []BufferedReachesDevice` |
| `WorkflowTypeCorrect` (`WorkflowProofs`) | `Spec => []TypeOK` |
| `StagesAreInOrder` | `Spec => []StagesInOrder` |
| `CompletedComplete` | `Spec => []CompletedIsComplete` |
| `AttemptsLimited` | `Spec => []AttemptLimit` |
| `RowFollows` | `Spec => []RowFollowsState` |

The parts of the MC modules are restrictions of the specifications proved about,
so a theorem also holds of what no part explores. Of the assumptions three say
that names do not collide: a JSON array of paths is not itself a path
(`HistoryAssumption`), the relay's own events are not events of devices
(`RelayAssumption`), `NoOne` is no task, connection or server (`LinkAssumption`).

**IInv** (`JobDispatchProofs`) is `TypeOK /\ SingleCopy /\ Custody`.
`SingleCopy` is not inductive: nothing in it says that a worker is idle exactly
when it holds no job, that a command names a job exactly while it is in flight,
that a row not yet inserted has no copy, or that a stopped application holds
nothing. `Custody` says these four, and two facts `TypeOK` needs (a job is
retried only below the limit, only a returned status is recorded). The steps are
grouped by what they do to the copies: those that add none (`FewerCopies`,
`CopyStep`), those that move one from hand to hand (`QueueRemove`,
`QueueAppend`), and the two that make one (`Create`, from an unborn row, and
`StartJobSystem`, from a state without copies, with `RecoveredQueue` for the
injective order of the recovered rows).

**RInv** (`JobDispatchProofs`) adds where a run stands. `Progress` ties a worker's
place to the row: a job at work has a row that is not queued, no workflow's job
is retried, and a completed job has no copy but the one whose end its worker
still reports. `Budget` says that a job which may still enter its processor
(`MayRun`) has a run left within what its row and the failed statements allow;
`Once` says that a workflow's job which may still run never ran, and one that is
held or queued was never reported. `RetryBudget` alone is not inductive:
entering the processor needs to know that the run was paid for by the retry or
the dispatch that led there. The two action properties follow step by step.

`QueuedIsHeld` counts rows that say queued and that nobody will take further. It
needs no invariant of its own beside RInv but a statement about steps
(`StrandedMoves`): a step strands no row, or one and counts a failed statement;
only the early return after a failed statement lets go of a job whose row still
says queued.

**QInv** (`JobQueueProofs`) is `TypeOK` with: every call is one of `Calls`;
`Mail` (a caller whose
message is in the channel has no answer yet, and the message is the call he is
in), `Distinct` (no job is in two entries), `Unasked` (a job on its way into the
queue is in no deque, and on one way) and `Stopped` (after a shutdown there are
neither messages nor jobs). Under it every step of the actor
maps to one step of the pool or leaves the mapped variables alone: sending and
returning, which the pool does not see, stutter; handling a message is the
call's one instant; `DequeueReady` of the actor's deques returns a job that the
pool's set of due jobs of the highest priority contains.

**LInv** (`DesktopProofs`) is `LocksTypeOK /\ GuardsAreLocks /\ Worked /\
Filled`: a path in a command's guards is locked by that command; where a command
works it has the guards its kind needs; data being filled in belong to the
command whose open file it is. Without the second, a step that changes a file
could not be tied to a lock.

**LinkInv** (`DesktopProofs`) is the types and, until the user moves to another
server, `SameServer` (the address a call compares is the user's), `Alone` (of the
active tasks and the calls about to spawn one there is one) and `Flagged` (the
flag is set exactly while one is there, and aborted tasks are over). `OneLoop`
itself says nothing of the call between its test of the flag and its spawn, where
a second loop could come from. The condition is needed: without it TLC finds, after
the user moved to another server, two loops, and a flag that is not true to them.

**OutputInv** (`DesktopProofs`) follows each chunk from hand to hand: `OnlyTaken`
(what is sent, pending, held or given up are chunks that were handed over), `InHand`
(a receiver holds chunks only while its flush sends) and `Accounted`: a chunk is
somewhere, but for the last one while the task that took it still asks who is
bound. No step of a connection, of its clean-up or of a shutdown disturbs more
than the places the chunks are in, so overlapping connections, receivers that
outlive theirs and shutdowns at any point need nothing further; what does is
that each step which takes chunks from a place puts every one of them into
another: the flush that puts back what the cap then cuts, the snapshot that
stands for what was pending only as far as it reaches, the shutdown that gives up
what is pending between a bind's two locks.

**TerminalInv** (`DesktopProofs`) is about positions. `BufferOk`: while nothing was
dropped the buffer is the chunks that were taken, in order. `FlushedOk`: the
prefix that is counted as flushed is in the log. `FlushOk`: a flush under way
writes the part that follows a prefix which was in the log when it was read, so
two flushes that overlap may write a chunk twice but leave no hole.
`LastOk`: the last flush of a process that has ended goes to the buffer's end.
`Places`, `Stopped`, `RowFirst` and `CleanUp` say who may be at work when.

**IInv** (`SessionProofs`) rests on the types of sessions and histories (`STypes`,
`HTypes`), which need the merge's algorithms: sorting loses no entry, removing
duplicates leaves every selection, the limit cuts only what is over it, so what
`Kept`, `Validated` and `Merged` return is a history with each selection once.
With them `Deletion` (the row goes first, then the entry), `Committed` (the worker's
commit has a current entry), `AcknowledgedIsKept`, and `FlushInv`: `Snapshots` (a
snapshot is an earlier state of the cached session, as its revision tells),
`WrittenLast` (a clean entry has been written, by now and by every flush that may
still write), `FilesStored` (the row has the files of a clean entry but
between the worker's two writes) and `Promised` (an acknowledged rename is in
the cache, in the snapshot or in the row). `CleanIsStored` alone is lost when a
flush resets flags for a snapshot that it wrote before an edit; the revision in
`Snapshots` excludes it. `FlushInv` has the excuses of the properties as its
condition: a snapshot written out of order is a way of the code to lose data, not
of the proof.

**FollowInv** (`SessionProofs`) adds for `SelectionFollowsHistory` the order of the
times of cache, row and snapshots (`Times`) and what the worker owes the cache
between commit and apply (`Followed`, `Told`). The property's condition after a crash is
what the proof needed and the code does: the worker commits a
selection, an edit of a plain field is flushed before the worker applies the
selection to the cache, the process ends; the row has the files of before and
the history the new selection.

**BInv** (`BillingProofs`) is `BillingTypeOK` with `ChargesMatchUsage`,
`ReservedWhilePending` and three facts they need. `HoldsLock`: a settler that
has read the balances has the usage row locked, so the charge is still open and
nobody else settles it. `ReleasesSettled`: the two calls that release a
reservation come after the commit. `PendingIsEstimate`: an open charge is the
estimate. `ChargesMatchUsage` alone would not survive the settlement's write,
which adds the difference to the estimate. **PInv** adds `WebhookTypeOK`,
`PaidOnce`, `CompletedIsCredited` and `AtWork`: a delivery at work is of a
payment that was made, and one that is done has been credited, though by another
worker.

**RInv** (`DeviceRelayProofs`) says of the connection table that an entry's
actor is one of the device it is entered for and has not left (`EntriesLive`),
and that a second desktop is in the table only while one of the two is between
its entry and the removal of the other (`Crowded`).

**Kept** (`DeviceRelayProofs`) is about the events. `Reached` says what
`BufferedReachesDevice` says of a device whose replay is over from the moment the
buffer is copied for it: an event in the buffer that was sent and is newer
than what it had stored has been handled, is in the mailbox or is in the copy. An event
that is numbered or recorded but not yet sent is owed to nobody, as the
broadcast will reach whoever is in the table then. `BufferedOnce` keeps the
copies apart: no event is in the buffer before it has its number, and a gap is
recorded by the one replay that found it.

**WInv** (`WorkflowProofs`). Handlers decide on a clone of the workflow and act
on what they decided some locks later, so the two invariants need what each task
still knows at its place: `Work` says that a task about to create stages holds
only stages whose predecessor is done, that one about to complete the workflow
knows that all is done or that it ended early, that one about to list a retry
holds a row of the failed job's stage, that a report of success has a row that
succeeded, and that a recovery only repeats jobs whose rows are there. It has to
be true of the list as well (`Listed`: a listed job has a row of its stage, and is
only called completed if the row is) and of the workers (`Hands`: no worker holds
a job whose row is missing or completed). Why old knowledge stays true is one
lemma each (`DoneKept`, `WorkKept`, `EntryKept`): every step is `Kept`, that is,
rows stay, keep their stage, and a success is never taken back. The end of the
process forgets everything but the rows, and `WInv` asks no more of them than the
two invariants. The proof assumes `WorkflowAssumption` (one stage and one
row at least) and holds for any number of handlers, stages and rows.

**AInv** (`WorkflowProofs`) is an account of a stage's jobs. The start, each counted
attempt of a stage up to it and each retry or resume pay for one; `Paid` says that the
jobs of the stage (`Jobbing`), the tasks that may still create one (`Tasking`) and
a pause that will be resumed never cost more. A job of an earlier stage that has not
ended, and the handler of its end, stand for the one job they may go on to.
That they go on to one only needs `Singles` (there is never more than one next
stage), which needs `BornListed` (the list has every stage up to that of any job);
after the end of the process nothing creates a job (`Over`). The first form of
`AttemptLimit` counted the attempts of the stage itself only; the account would
not balance, and an instance with a status query during a retry showed why
(section 3).

**SInv** (`WorkflowProofs`) says that one thing at a time is under way as long as no
command was given (`OneAtATime`): a job, or the handler of its end, with the
exception of a handler that has queued a retry and has still to list it. That the
handler of a completion makes one job only is `Singles` again. Where a
handler has written the state and not yet the row, the state is what it wrote
(`StateAt`). The condition of `RowFollowsState` is not the proof's: with commands the
property is false. A cancel that has written the state, meets a completion and
writes its row after it leaves a completed workflow with a canceled row; TLC finds
such a history for each kind of command.

**SequenceLemmas** has what several proofs need of numbers and sequences. The
model's recursive functions, such as `SortedBy` and `Deduped`, are functions on
`0..n`; that they are defined and what each of their steps keeps is shown by
`FoldExists` and by induction over a set of numbers (`SetInduction`, from
`LeastNumber`), without an operator as a parameter.

**Only model-checked:**
- `NoBlindOverwrite`: what the limit cuts off is last in the order of `After`, which
  compares sequence numbers of one device and times of two, and is not transitive
  for all values; that it is for the histories devices can make is not shown.
- Liveness (`EveryJobSettles`, `EveryCallReturns`, `WorkflowEnds`), which is
  outside what the prover handles.

## 5. Where the code and its documents part

Each is a configuration whose counterexample is the scenario; those named
`..._claims` and `..._terminals` list several properties, each violated: keep one
line to see its trace. `PROJECT.json` quotes the sentences in full.

**Engine** (`MCJobDispatch_claims.cfg` unless named)

* `TerminalIsFinal`: "Invalid transitions are rejected"
  (`src/website/src/messages/en/docs.json:1776`); a worker that has dequeued a
  job writes `preparing` over `canceled` (`jobs/dispatcher.rs:138`).
* `CancelKeepsOutcome`: "If job is already in a terminal state, no action
  needed" (`cancellation.rs:26`): the test is made before the call to the queue,
  the write after it has no condition.
* `CanceledNeverStarts` (run `sessioncancel`): "Cancel all active jobs for a
  session" (`cancellation.rs:295`): the queue's entries stay, and are run later.
* `StaleRunningIsFailed`: "Stale jobs (running status after app restart) are
  marked failed" (`docs.json:1828`): only those running for over an hour are.
* `WorkflowFailureIsReported`: "ALWAYS pass to WorkflowOrchestrator if job has
  workflowId" (`jobs/dispatcher.rs:748`): not a failure returned as `Ok`.

**Workflows** (`MCWorkflow_claims.cfg` unless named)

* `ActiveStageIsNotScheduled`: the test for an active stage is made on a clone;
  a resume and a completion that overlap both create the next stage's job.
* `PausedStartsNothing`: the completion handler does not look for a pause.
* `CancelReachesEveryJob`: the jobs are read before the workflow is marked; a
  completion under way still creates one.
* `CompletedStageIsKept`: a status query that finds a job it does not list
  repeats the completion of completed stages with no result, as failures.
* `RetryRescuesWorkflow` (run `wf_rescue`): the superseded job stays before the
  retry, and the scheduler stops at the first job of a stage.
* `RestartRecoversWorkflow` (`MCWorkflow_recovery.cfg`): recovery adds jobs only
  to workflows in a map that is empty.
* `NeverStalled` (`MCWorkflow_lost.cfg`, `MCWorkflow_stall.cfg`): a retry that
  ends before it is listed, or a stage job that cannot be created, leaves a
  running workflow with no job.

**Sessions** (`MCSession_claims.cfg`)

* `SelectionIsFiles`: the history worker stores a JSON array in columns that are
  read line by line.
* `EditTakesEffect`: an edit that restores an earlier selection drops its own
  entry as the duplicate.

**Charges and payments**

* `LedgerMatchesBalance` (run `ledger`): a settlement writes balances computed
  from an unlocked read.
* `EveryPaymentIsCredited` (`MCBilling_lost.cfg`): the answer is always 200, and
  the retry of failed events has no caller.
* `EveryChargeSettles` (`MCBilling_settle.cfg`): the loop queries under row-level
  policies without a user.
* `OneTopOff` (`MCBilling_topoff.cfg`): the lock of a top-off is gone before the
  invoice is made.

**Relay** (`MCDeviceRelay_claims.cfg`)

* `NewConnectionStays`: the user's entry is removed after it was found empty.
* `StatusFollowsTable`: `set_offline` of a replaced connection runs when it likes.
* `NothingMissed`: numbers pass each other on the way, and begin again with the
  server; a replay skips events and announces no gap.

**Terminals, connection, files** (`MCDesktop_claims.cfg` unless named)

* `OneProcess`, `AttachShowsAll`, `BufferIsLogged`, `RunningIsRestorable`
  (`MCDesktop_terminals.cfg`): two starts make two processes; output between the
  snapshot and the channel's entry reaches neither; a buffer that drops bytes
  during a flush counts others as flushed; a session started again keeps a
  status that is not restored.
* `LogBounded` (`MCDesktop_log.cfg`): a flush longer than the log makes it longer.
* `InOrder`, `SentOnce`: a chunk kept while a bind completes comes behind later
  ones; a snapshot and the flush after it have the same output.
* `ForwardsWhenOn`, `OffCloses`, `OneTask`: off and on between two heartbeats
  leaves a client without a sender; the receiver outlives the setting; an ending
  task clears the flag and the slot of the next.
* `NoDeadlock`, `NoOverwrite`: a move holds one lock while it waits for another,
  in no order; a destination that is not there is protected by the directory's
  lock, which a write does not take.

## 6. Not modelled

The map covers about an eighth of the implementation's lines. What keeps state
that several tasks change is modelled; what is left is, for the larger part, code without a
state machine of its own:

* **job processors and prompts**: build texts, call a model, parse its answer. A
  processor is what it returns (`JobDispatch`), a stage what its result is good
  for (`WorkflowOrchestrator`).
* **streaming handler, provider clients, request proxy**: convert formats and
  count tokens; how a stream ends and who settles its charge is in `Billing`.
* **repositories' queries, metadata and cost columns**: SQL over data no
  decision of the modelled components depends on; the statements that write
  status, balances, revisions or logs are actions.
* **remote API and routing of remote calls**: a table of names and calls of
  commands modelled elsewhere; the server's side is a look-up and a send.
* **desktop authentication**: one token behind one lock; what depends on its
  being there is in `DeviceLink`.
* **caches, backups**: read-through maps and file copies on a timer.
* **server authentication stores, rate limits**: maps with expiry and counters
  per window: their behaviour is the passing of time.
* **interface, mobile client, website, infrastructure, migrations**: no state of
  the components above; the phone is the messages it sends in `DeviceRelay`,
  `TerminalLink` and `HistorySequencer`.

Components called *partly* in `PROJECT.json` name there what is left out of
them. No module that is proved about uses RECURSIVE operators.
