---------------------------- MODULE TerminalSession ----------------------------
(***************************************************************************)
(* services/terminal_manager.rs for one terminal session: the processes     *)
(* that were started for it, the task that takes each one's output, the     *)
(* buffer and its flushes to the session's row, the channels of the UI, the *)
(* clean-up when the application closes and the restoration when it starts. *)
(*                                                                         *)
(* Output is counted in chunks.  Tasks run on several threads: what one     *)
(* does under a lock, or in one statement of SQLite, is a step.             *)
(***************************************************************************)
EXTENDS Naturals, SequencesExt

CONSTANTS
    Handles,     \* processes with their SessionHandle; each is used once
    Callers,     \* commands: of the UI, with a channel, and of the phone
    Phones,      \* the callers without a channel
    BufferCap,   \* TERMINAL_IN_MEMORY_BUFFER_BYTES
    LogCap,      \* TERMINAL_DB_LOG_MAX_BYTES
    Budgets,     \* budget: how many processes, attachments, chunks of output, flushes of
                 \* the periodic flusher, errors and ends of the application there are
    Nobody

ASSUME TerminalAssumption ==
    /\ Phones \subseteq Callers /\ Nobody \notin Handles /\ Handles \cap {"timer", "exit"} = {}
    /\ BufferCap \in Nat \ {0} /\ LogCap \in Nat \ {0}
    /\ Budgets \subseteq [{"starts", "attaches", "chunks", "ticks", "errors", "ends"} -> Nat]

VARIABLES
    app,      \* "up", "closing" or "down"
    current,  \* the entry of TerminalManager.sessions
    process,  \* what became of each process
    handle,   \* its SessionHandle
    task,     \* where the task is that takes its output
    flush,    \* the flushes under way: one of the periodic flusher, one of the
              \* clean-up, and one at each process's end
    close,    \* where the clean-up of a closing application is
    row,      \* the session's row in terminal_sessions
    caller,   \* the commands
    missed,   \* the callers whose channel was not sent all the output
    budget    \* what is left of the budget

uiVars == <<caller, missed>>
terminalVars == <<app, current, process, handle, task, flush, close, row, uiVars, budget>>

Flushers == Handles \cup {"timer", "exit"}

NoHandle == [state |-> "none", code |-> "none", buffer |-> <<>>, taken |-> 0, flushed |-> 0, subs |-> {}]

AtRest == [at |-> "rest", h |-> Nobody, from |-> 0, to |-> 0, window |-> <<>>]

NotClosing == [at |-> "not", h |-> Nobody, was |-> "none"]

NoRow == [status |-> "none", log |-> <<>>]

TerminalInit ==
    /\ app = "up" /\ current = Nobody
    /\ process = [h \in Handles |-> "none"]
    /\ handle = [h \in Handles |-> NoHandle] /\ task = [h \in Handles |-> "none"]
    /\ flush = [f \in Flushers |-> AtRest]
    /\ close = NotClosing /\ row = NoRow
    /\ caller = [c \in Callers |-> [at |-> "idle", h |-> Nobody, upto |-> 0]]
    /\ missed = {}
    /\ budget \in Budgets

Spend(what) == budget[what] > 0 /\ budget' = [budget EXCEPT ![what] = @ - 1]

\* A statement may fail, a bounded number of times.
Fails == Spend("errors")

\* The flusher and the clean-up keep their reference into the map of sessions across
\* the awaits of a flush, and so its shard locked.
ShardLocked == flush["timer"].at # "rest" \/ close.at \in {"flush", "take", "kill", "save"}

Go(c, at, h) == caller' = [caller EXCEPT ![c] = [at |-> at, h |-> h, upto |-> 0]]

LastOf(n, s) == IF Len(s) <= n THEN s ELSE SubSeq(s, Len(s) - n + 1, Len(s))

-------------------------------------------------------------------------------
(* Starting and attaching.                                                    *)

\* A session that runs gets one more channel; another one is started.
StartSession(c) ==
    /\ app # "down" /\ caller[c].at = "idle"
    /\ IF current # Nobody /\ handle[current].state = "running"
       THEN c \notin Phones /\ Spend("attaches") /\ Go(c, "attach", current)
       ELSE Spend("starts") /\ Go(c, "ensure", Nobody)
    /\ UNCHANGED <<app, current, process, handle, task, flush, close, row, missed>>

\* ensure_session leaves a row that exists as it is.
EnsureSession(c) ==
    /\ caller[c].at = "ensure"
    /\ \/ /\ row' = IF row.status = "none" THEN [status |-> "running", log |-> <<>>] ELSE row
          /\ Go(c, "spawn", Nobody) /\ UNCHANGED budget
       \/ Fails /\ Go(c, "idle", Nobody) /\ UNCHANGED row
    /\ UNCHANGED <<app, current, process, handle, task, flush, close, missed>>

\* Which of the processes that are left is next does not matter.
NextHandle == CHOOSE h \in Handles : process[h] = "none"

\* The process is made; if its number cannot be stored it is given up with its terminal.
Spawn(c, h) ==
    /\ caller[c].at = "spawn" /\ process[h] = "none" /\ h = NextHandle
    /\ \/ /\ process' = [process EXCEPT ![h] = "alive"]
          /\ Go(c, "insert", h) /\ UNCHANGED budget
       \/ /\ process' = [process EXCEPT ![h] = "bad"]
          /\ Fails /\ Go(c, "idle", Nobody)
    /\ UNCHANGED <<app, current, handle, task, flush, close, row, missed>>

\* Its handle takes the place of whatever the session has, and its output is taken.
InsertHandle(c) ==
    LET h == caller[c].h IN
    /\ caller[c].at = "insert" /\ ~ShardLocked
    /\ current' = h
    /\ handle' = [handle EXCEPT ![h].state = "running", ![h].subs = {c} \ Phones]
    /\ task' = [task EXCEPT ![h] = "receive"]
    /\ missed' = missed \ {c}
    /\ Go(c, "idle", Nobody)
    /\ UNCHANGED <<app, process, flush, close, row, budget>>

\* The chunks the channels were sent so far.
Sent(h) == IF task[h] = "notify" THEN handle[h].taken - 1 ELSE handle[h].taken

\* reconnect_to_session: a snapshot of the buffer, and then the channel is added.
AttachSnapshot(c) ==
    /\ caller[c].at = "attach"
    /\ caller' = [caller EXCEPT ![c].at = "push", ![c].upto = handle[caller[c].h].taken]
    /\ missed' = missed \ {c}
    /\ UNCHANGED <<app, current, process, handle, task, flush, close, row, budget>>

AttachPush(c) ==
    LET h == caller[c].h IN
    /\ caller[c].at = "push"
    /\ handle' = [handle EXCEPT ![h].subs = @ \cup {c}]
    /\ missed' = IF Sent(h) > caller[c].upto THEN missed \cup {c} ELSE missed
    /\ Go(c, "idle", Nobody)
    /\ UNCHANGED <<app, current, process, task, flush, close, row, budget>>

\* kill: only a running process is killed, and a restored session becomes an error.
Kill ==
    LET h == current IN
    /\ app # "down" /\ h # Nobody
    /\ handle[h].state \in {"running", "restored"}
    /\ handle' = [handle EXCEPT ![h].state = IF @ = "running" THEN "killed" ELSE "error"]
    /\ process' = IF process[h] = "alive" THEN [process EXCEPT ![h] = "bad"] ELSE process
    /\ UNCHANGED <<app, current, task, flush, close, row, uiVars, budget>>

-------------------------------------------------------------------------------
(* A process and the task that takes its output.                              *)

\* It ends by itself, well or not, also because it was asked to (graceful_exit).
ProcessEnds(h, code) ==
    /\ process[h] = "alive"
    /\ process' = [process EXCEPT ![h] = code]
    /\ UNCHANGED <<app, current, handle, task, flush, close, row, uiVars, budget>>

\* On Windows a task polls for the end.
PollExit(h) ==
    /\ handle[h].state = "running" /\ process[h] # "alive"
    /\ handle' = [handle EXCEPT ![h].state = "exited", ![h].code = process[h]]
    /\ UNCHANGED <<app, current, process, task, flush, close, row, uiVars, budget>>

\* The next chunk the process has written, before it ended, goes into the buffer, from
\* which the oldest ones fall.
Receive(h) ==
    LET n == handle[h].taken + 1
        full == Len(handle[h].buffer) = BufferCap
    IN
    /\ task[h] = "receive" /\ Spend("chunks")
    /\ handle' = [handle EXCEPT
          ![h].taken = n,
          ![h].buffer = LastOf(BufferCap, Append(@, <<h, n>>)),
          ![h].flushed = IF full /\ @ > 0 THEN @ - 1 ELSE @]
    /\ task' = [task EXCEPT ![h] = "notify"]
    /\ UNCHANGED <<app, current, process, flush, close, row, uiVars>>

\* Then the channels and the device link get it (TerminalLink).
Notify(h) ==
    /\ task[h] = "notify"
    /\ task' = [task EXCEPT ![h] = "receive"]
    /\ UNCHANGED <<app, current, process, handle, flush, close, row, uiVars, budget>>

\* At the end of the output the state is taken, and the process waited for if nobody
\* has seen its end.
TakeState(h) ==
    /\ task[h] = "receive" /\ process[h] # "alive"
    /\ handle' = [handle EXCEPT
          ![h].code = CASE handle[h].state = "running" -> process[h]
                        [] handle[h].state = "exited"  -> @
                        [] OTHER -> "bad",
          ![h].state = IF @ \in {"running", "exited", "killed"} THEN "cleaning" ELSE "zombie"]
    /\ task' = [task EXCEPT ![h] = "exited"]
    /\ UNCHANGED <<app, current, process, flush, close, row, uiVars, budget>>

SetExited(h) ==
    /\ task[h] = "exited"
    /\ handle' = [handle EXCEPT ![h].state = "exited"]
    /\ task' = [task EXCEPT ![h] = "flush"]
    /\ UNCHANGED <<app, current, process, flush, close, row, uiVars, budget>>

\* What is left is flushed, and the end written to the row, if that works.
SaveResult(h) ==
    /\ task[h] = "flushed"
    /\ \/ /\ row' = [row EXCEPT !.status = IF handle[h].code = "ok" THEN "completed" ELSE "failed"]
          /\ UNCHANGED budget
       \/ Fails /\ UNCHANGED row
    /\ task' = [task EXCEPT ![h] = "done"]
    /\ UNCHANGED <<app, current, process, handle, flush, close, uiVars>>

-------------------------------------------------------------------------------
(* Flushes: of the buffer, from what was flushed before to its end, to the row. *)

Flush(f, at) == flush' = [flush EXCEPT ![f].at = at]

\* A mutant: one chunk too many.
FlushReadsPast(f, h) ==
    flush' = [flush EXCEPT ![f] = [at |-> "slice", h |-> h, from |-> handle[h].flushed,
                                   to |-> Len(handle[h].buffer) + 1, window |-> <<>>]]

\* What a flush finds when it looks; the lengths are read under the buffer's lock.
FlushReads(f, h) ==
    LET len == Len(handle[h].buffer)
        from == handle[h].flushed
    IN  flush' = [flush EXCEPT ![f] =
                    IF len <= from THEN AtRest
                    ELSE [at |-> "slice", h |-> h, from |-> from, to |-> len, window |-> <<>>]]

\* flush_if_due, when the time has come.
FlushIfDue ==
    /\ app # "down" /\ flush["timer"] = AtRest
    /\ current # Nobody /\ Len(handle[current].buffer) > handle[current].flushed
    /\ Spend("ticks")
    /\ FlushReads("timer", current)
    /\ UNCHANGED <<app, current, process, handle, task, close, row, uiVars>>

\* A mutant: a flush that is under way is taken to be enough.
FlushUnlessFlushing(h) ==
    /\ task[h] = "flush" /\ flush[h] = AtRest
    /\ IF flush["timer"].at # "rest" THEN UNCHANGED flush ELSE FlushReads(h, h)
    /\ task' = [task EXCEPT ![h] = IF flush'[h] = AtRest THEN "flushed" ELSE "flushing"]
    /\ UNCHANGED <<app, current, process, handle, close, row, uiVars, budget>>

\* flush_all_pending_for_session, at the end of a process.
FlushAllPending(h) ==
    /\ task[h] = "flush" /\ flush[h] = AtRest
    /\ FlushReads(h, h)
    /\ task' = [task EXCEPT ![h] = IF flush'[h] = AtRest THEN "flushed" ELSE "flushing"]
    /\ UNCHANGED <<app, current, process, handle, close, row, uiVars, budget>>

\* The window is cut from the buffer there is now, with the lock taken again.
FlushSlice(f) ==
    /\ flush[f].at = "slice"
    /\ flush' = [flush EXCEPT ![f].at = "append",
                              ![f].window = SubSeq(handle[flush[f].h].buffer, flush[f].from + 1, flush[f].to)]
    /\ UNCHANGED <<app, current, process, handle, task, close, row, uiVars, budget>>

\* append_output.  SQLite's substr takes the last characters for a negative number, all
\* of them for 0, and those from a position on for a positive one.
Appended(log, window) ==
    LET keep == LogCap - Len(window)
        kept == CASE Len(log) + Len(window) <= LogCap -> log
                  [] keep > 0 -> LastOf(keep, log)
                  [] keep = 0 -> log
                  [] OTHER -> SubSeq(log, Len(window) - LogCap, Len(log))
    IN  kept \o window

\* Where the task or the clean-up goes on when its flush is over.
FlushOver(f) ==
    /\ task' = IF f \in Handles THEN [task EXCEPT ![f] = "flushed"] ELSE task
    /\ close' = IF f = "exit" THEN [close EXCEPT !.at = "take"] ELSE close

\* An error ends the flush: the flusher comes back after a pause, the others do not.
FlushAppend(f) ==
    /\ flush[f].at = "append"
    /\ \/ /\ row' = [row EXCEPT !.log = Appended(@, flush[f].window)]
          /\ Flush(f, "set") /\ UNCHANGED <<task, close, budget>>
       \/ /\ Fails /\ FlushOver(f)
          /\ flush' = [flush EXCEPT ![f] = IF f \in Handles THEN [AtRest EXCEPT !.at = "failed"] ELSE AtRest]
          /\ UNCHANGED row
    /\ UNCHANGED <<app, current, process, handle, uiVars>>

\* A mutant: everything that is in the buffer by now counts as flushed.
FlushSetAll(f) ==
    /\ flush[f].at = "set"
    /\ handle' = [handle EXCEPT ![flush[f].h].flushed = Len(handle[flush[f].h].buffer)]
    /\ flush' = [flush EXCEPT ![f] = AtRest]
    /\ FlushOver(f)
    /\ UNCHANGED <<app, current, process, row, uiVars, budget>>

\* What was flushed before is counted from the length that was read.
FlushSet(f) ==
    /\ flush[f].at = "set"
    /\ handle' = [handle EXCEPT ![flush[f].h].flushed = flush[f].to]
    /\ flush' = [flush EXCEPT ![f] = AtRest]
    /\ FlushOver(f)
    /\ UNCHANGED <<app, current, process, row, uiVars, budget>>

-------------------------------------------------------------------------------
(* The application closes, ends and starts.                                   *)

\* cleanup_all_sessions: what is left is flushed,
CloseBegin ==
    /\ app = "up" /\ app' = "closing"
    /\ IF current = Nobody
       THEN close' = [NotClosing EXCEPT !.at = "over"] /\ UNCHANGED flush
       ELSE /\ FlushReads("exit", current)
            /\ close' = [at |-> IF flush'["exit"] = AtRest THEN "take" ELSE "flush",
                         h |-> current, was |-> "none"]
    /\ UNCHANGED <<current, process, handle, task, row, uiVars, budget>>

\* the state taken,
CloseTake ==
    /\ close.at = "take"
    /\ close' = [close EXCEPT !.was = handle[close.h].state,
                              !.at = IF handle[close.h].state = "running" THEN "kill" ELSE "save"]
    /\ handle' = [handle EXCEPT ![close.h].state = "cleaning"]
    /\ UNCHANGED <<app, current, process, task, flush, row, uiVars, budget>>

\* a process that runs killed and waited for,
CloseKill ==
    /\ close.at = "kill"
    /\ process' = [process EXCEPT ![close.h] = IF @ = "alive" THEN "bad" ELSE @]
    /\ close' = [close EXCEPT !.at = "save"]
    /\ UNCHANGED <<app, current, handle, task, flush, row, uiVars, budget>>

\* and its end saved; an error ends the clean-up.
CloseSave ==
    LET code == CASE close.was = "running" -> process[close.h]
                  [] close.was = "exited"  -> handle[close.h].code
                  [] OTHER -> "none"
    IN
    /\ close.at = "save"
    /\ handle' = IF close.was \in {"running", "zombie"}
                 THEN [handle EXCEPT ![close.h].state = "killed"] ELSE handle
    /\ \/ /\ row' = [row EXCEPT !.status = IF code = "ok" THEN "completed" ELSE "failed"]
          /\ close' = [close EXCEPT !.at = "remove"] /\ UNCHANGED budget
       \/ Fails /\ close' = [close EXCEPT !.at = "over"] /\ UNCHANGED row
    /\ UNCHANGED <<app, current, process, task, flush, uiVars>>

CloseRemove ==
    /\ close.at = "remove" /\ ~ShardLocked
    /\ current' = Nobody
    /\ close' = [close EXCEPT !.at = "over"]
    /\ UNCHANGED <<app, process, handle, task, flush, row, uiVars, budget>>

\* A crash, an exit or the five seconds for the clean-up: only the row is left.
Down ==
    /\ app # "down" /\ Spend("ends")
    /\ app' = "down" /\ current' = Nobody /\ close' = NotClosing
    /\ process' = [h \in Handles |-> IF process[h] = "none" THEN "none" ELSE "past"]
    /\ handle' = [h \in Handles |-> NoHandle] /\ task' = [h \in Handles |-> "none"]
    /\ flush' = [f \in Flushers |-> AtRest]
    /\ caller' = [c \in Callers |-> [at |-> "idle", h |-> Nobody, upto |-> 0]]
    /\ missed' = {}
    /\ UNCHANGED row

\* restore_sessions, if the row can be read and is not older than a day.
Restored(h) ==
    /\ row.status \in {"running", "completed"} /\ process[h] = "none" /\ h = NextHandle
    /\ current' = h
    /\ process' = [process EXCEPT ![h] = "past"]
    /\ handle' = [handle EXCEPT ![h].state = "restored", ![h].buffer = row.log, ![h].flushed = Len(row.log)]
    /\ row' = [row EXCEPT !.status = "restored"] \/ UNCHANGED row

Restart ==
    /\ app = "down" /\ app' = "up"
    /\ \/ \E h \in Handles : Restored(h)
       \/ UNCHANGED <<current, process, handle, row>>
    /\ UNCHANGED <<task, flush, close, uiVars, budget>>

TerminalNext ==
    \/ \E c \in Callers :
         \/ StartSession(c) \/ EnsureSession(c) \/ InsertHandle(c)
         \/ AttachSnapshot(c) \/ AttachPush(c)
         \/ \E h \in Handles : Spawn(c, h)
    \/ Kill
    \/ \E h \in Handles :
         \/ ProcessEnds(h, "ok") \/ ProcessEnds(h, "bad") \/ PollExit(h)
         \/ Receive(h) \/ Notify(h) \/ TakeState(h) \/ SetExited(h)
         \/ FlushAllPending(h) \/ SaveResult(h)
    \/ FlushIfDue
    \/ \E f \in Flushers : FlushSlice(f) \/ FlushAppend(f) \/ FlushSet(f)
    \/ CloseBegin \/ CloseTake \/ CloseKill \/ CloseSave \/ CloseRemove
    \/ Down \/ Restart

TerminalSpec == TerminalInit /\ [][TerminalNext]_terminalVars

-------------------------------------------------------------------------------

TerminalTypeOK ==
    /\ app \in {"up", "closing", "down"} /\ current \in Handles \cup {Nobody}
    /\ \A h \in Handles :
         /\ process[h] \in {"none", "alive", "ok", "bad", "past"}
         /\ handle[h].state \in {"none", "running", "killed", "exited", "cleaning", "zombie", "restored", "error"}
         /\ handle[h].taken \in Nat /\ handle[h].subs \subseteq Callers
         /\ handle[h].flushed \in 0..Len(handle[h].buffer)
         /\ task[h] \in {"none", "receive", "notify", "exited", "flush", "flushing", "flushed", "done"}
    /\ \A f \in Flushers :
         /\ flush[f].at \in {"rest", "slice", "append", "set", "failed"}
         /\ flush[f].at # "rest" /\ flush[f].at # "failed" =>
              flush[f].from < flush[f].to /\ flush[f].to <= Len(handle[flush[f].h].buffer)
    /\ row.status \in {"none", "running", "completed", "failed", "restored"}

Whole == Len(row.log) < LogCap

Logged(chunk) == \E i \in DOMAIN row.log : row.log[i] = chunk

\* What is counted as flushed is in the row's log, whichever flushes overlapped and
\* failed, as long as neither the buffer nor the log had to drop anything.
FlushedIsLogged ==
    \A h \in Handles : Whole /\ handle[h].taken <= BufferCap =>
        \A i \in 1..handle[h].flushed : Logged(handle[h].buffer[i])

\* When the end of a process is saved, all its output is in the log, unless the last
\* flush of it failed, or the buffer or the log had to drop something.
SavedIsLogged ==
    \A h \in Handles :
        Whole /\ task[h] = "done" /\ flush[h].at # "failed" /\ handle[h].taken <= BufferCap =>
            \A n \in 1..handle[h].taken : Logged(<<h, n>>)

\* What is said of the terminals and is not so.
\* start_session: a session that has an active process is attached to, not started twice.
OneProcess == \A g, h \in Handles : process[g] = "alive" /\ process[h] = "alive" => g = h

\* reconnect_to_session: a channel is sent the buffer "to catch up", and then the rest.
AttachShowsAll == \A c \in Callers, h \in Handles : c \in handle[h].subs => c \notin missed

\* The flush at the end of a process "ensures durability before marking session as
\* completed": whatever the buffer still has is in the log then.
BufferIsLogged ==
    \A h \in Handles : Whole /\ task[h] = "done" /\ flush[h].at # "failed" =>
        \A i \in DOMAIN handle[h].buffer : Logged(handle[h].buffer[i])

\* append_output: the log has at most TERMINAL_DB_LOG_MAX_BYTES.
LogBounded == Len(row.log) <= LogCap

\* "Restore any sessions from previous app runs": a session whose process runs can be.
RunningIsRestorable == app = "up" /\ current # Nobody /\ handle[current].state = "running"
                         => row.status \in {"running", "completed"}
===============================================================================
