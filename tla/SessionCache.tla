------------------------------ MODULE SessionCache ------------------------------
(***************************************************************************)
(* services/session_cache.rs with the commands on top of it and the row of  *)
(* one session below it.  The cache is the place that is read and written;  *)
(* a timer and some commands flush dirty entries to the row.  A flush is    *)
(* three steps: a snapshot under the read lock, an UPDATE that may merge    *)
(* with what the row says, and the reset of the dirty flags if the entry    *)
(* still has the snapshot's revision.                                       *)
(*                                                                          *)
(* A session is its name, which stands for all plain fields and is the      *)
(* number of the edit that gave it, and two sets of files.  Sessions share  *)
(* nothing but the order in which a flush writes them, so one is enough.    *)
(*                                                                          *)
(* The row keeps a set of files as text, one file a line, and inc and exc   *)
(* of the row are the lines of that text.  HistorySequencer also stores a   *)
(* JSON array, which is one line: a path that is not a file.                *)
(***************************************************************************)
EXTENDS Naturals, Sequences, FiniteSets, SequencesExt

CONSTANTS
    Tasks,      \* commands that may be in progress at once
    Timer,      \* the periodic flush of initialize_session_cache
    Files,
    MaxNames,   \* bound: edits of plain fields
    MaxErrors,  \* bound: UPDATEs that fail
    MaxCrashes  \* bound: ends of the process

Flushers == Tasks \cup {Timer}

ASSUME SessionAssumption ==
    /\ Timer \notin Tasks
    /\ MaxNames \in Nat /\ MaxErrors \in Nat /\ MaxCrashes \in Nat

VARIABLES
    row,       \* the row of table sessions
    cache,     \* SessionCache.map[id]
    pc, snap,  \* each task: place, and the session it has in its hands
    wanted,    \* the name each rename is about
    clock,     \* date_utils::get_timestamp
    names,     \* the number of the latest edit of the name
    stored,    \* history: revision of the last snapshot that was written
    saved,     \* history: latest name whose command has returned Ok
    excuses,   \* history: what has gone wrong between cache and row
    deleted,   \* history: a DELETE of the row has been committed
    errors, crashes

history == <<stored, saved, excuses, deleted>>
bounds == <<names, errors, crashes>>
sessionVars == <<row, cache, pc, snap, wanted, clock, history, bounds>>

NoSession == [there |-> FALSE, name |-> 0, inc |-> {}, exc |-> {}, at |-> 0,
              dirtyFields |-> FALSE, dirtyFiles |-> FALSE, rev |-> 0]

\* The JSON array of a set of files, as one line.
Listing(fs) == [list |-> fs]

Paths == Files \cup {Listing(fs) : fs \in SUBSET Files}

Session == [there : BOOLEAN, name : 0..MaxNames, inc : SUBSET Paths, exc : SUBSET Paths,
            at : Nat, dirtyFields : BOOLEAN, dirtyFiles : BOOLEAN, rev : Nat]

Excuses == {"outdated", "replaced", "reloaded", "failed"}

SessionTypeOK ==
    /\ row \in Session /\ cache \in Session
    /\ snap \in [Flushers -> Session] /\ wanted \in [Tasks -> 0..MaxNames]
    /\ clock \in Nat /\ names \in 0..MaxNames /\ stored \in Nat
    /\ saved \in 0..MaxNames /\ excuses \subseteq Excuses /\ deleted \in BOOLEAN

Fresh == [NoSession EXCEPT !.there = TRUE]

\* The process has just started.
Idle ==
    /\ pc = [t \in Flushers |-> "idle"] /\ snap = [t \in Flushers |-> NoSession]
    /\ wanted = [t \in Tasks |-> 0]
    /\ clock = 1 /\ names = 0 /\ stored = 0 /\ saved = 0 /\ excuses = {}
    /\ deleted = FALSE /\ errors = 0 /\ crashes = 0

\* A session that was loaded at startup (initialize_from_db), or none yet.
SessionInit == Idle /\ row \in {Fresh, NoSession} /\ cache = row
--------------------------------------------------------------------------------
Dirty(c) == c.there /\ (c.dirtyFields \/ c.dirtyFiles)

Goto(t, p) == pc' = [pc EXCEPT ![t] = p]
Hold(t, s) == snap' = [snap EXCEPT ![t] = s]

\* updated_at only matters against later or earlier writes of the row, so the clock
\* advances with those.  The time of an edit is read before the lock is waited for.
EditTimes == {clock - 1, clock}

Excuse(es) == excuses' = excuses \cup es

\* The entry that a load from the row makes.
Loaded(r) == [r EXCEPT !.dirtyFields = FALSE, !.dirtyFiles = FALSE, !.rev = 0]

\* update_files_delta: removals first, then additions; a file is in one set.
WithFiles(addInc, remInc, addExc, remExc, at) ==
    [cache EXCEPT
        !.inc = ((@ \ remInc) \cup addInc) \ addExc,
        !.exc = ((@ \ remExc) \ addInc) \cup addExc,
        !.at = at, !.dirtyFiles = TRUE, !.rev = @ + 1]
--------------------------------------------------------------------------------
(* Flush *)

\* A flush is over; a rename returns Ok.
Answer(t) ==
    /\ Goto(t, "idle") /\ Hold(t, NoSession)
    /\ IF t = Timer THEN UNCHANGED <<saved, wanted>>
       ELSE /\ saved' = IF wanted[t] > saved THEN wanted[t] ELSE saved
            /\ wanted' = [wanted EXCEPT ![t] = 0]

\* flush_dirty_to_db up to the repository: only a dirty entry is written.
FlushSnapshot(t) ==
    /\ pc[t] = (IF t = Timer THEN "idle" ELSE "flush")
    /\ Dirty(cache)
    /\ Hold(t, cache) /\ Goto(t, "write")
    /\ UNCHANGED <<row, cache, wanted, clock, history, bounds>>

FlushNothing(t) ==
    /\ pc[t] = "flush"
    /\ ~Dirty(cache)
    /\ Answer(t)
    /\ UNCHANGED <<row, cache, clock, stored, excuses, deleted, bounds>>

\* update_session: if the row is newer than the session's own time, its included
\* files are kept; the session's exclusions win in either case.  A missing row
\* is an error.
Written(s, at) ==
    [s EXCEPT !.inc = (IF row.at > s.at THEN row.inc \cup s.inc ELSE s.inc) \ s.exc,
              !.at = at, !.dirtyFields = FALSE, !.dirtyFiles = FALSE, !.rev = 0]
UpdateOrInsertSession(s, at) == Written(s, at)
UpdateSession(s, at) == IF row.there THEN Written(s, at) ELSE row

FlushWrite(t) ==
    /\ pc[t] = "write"
    /\ row' = UpdateSession(snap[t], clock + 1)
    /\ IF row.there
       THEN Goto(t, "clear") /\ clock' = clock + 1 /\ UNCHANGED <<snap, wanted, saved>>
       ELSE Answer(t) /\ UNCHANGED clock
    /\ stored' = snap[t].rev
    /\ Excuse(IF snap[t].rev < stored THEN {"outdated"} ELSE {})
    /\ UNCHANGED <<cache, deleted, bounds>>

\* An UPDATE that fails is logged; the command returns Ok all the same.
FlushError(t) ==
    /\ pc[t] = "write" /\ row.there /\ errors < MaxErrors
    /\ errors' = errors + 1
    /\ Answer(t) /\ Excuse({"failed"})
    /\ UNCHANGED <<row, cache, clock, stored, deleted, names, crashes>>

\* The flags are reset only if nobody has edited the session since the snapshot.
CleanedAnyRevision(t) ==
    IF cache.there
    THEN [cache EXCEPT !.dirtyFields = FALSE, !.dirtyFiles = FALSE] ELSE cache
Cleaned(t) ==
    IF cache.there /\ cache.rev = snap[t].rev
    THEN [cache EXCEPT !.dirtyFields = FALSE, !.dirtyFiles = FALSE] ELSE cache

FlushClear(t) ==
    /\ pc[t] = "clear"
    /\ cache' = Cleaned(t)
    /\ Answer(t)
    /\ UNCHANGED <<row, clock, stored, excuses, deleted, bounds>>
--------------------------------------------------------------------------------
(* Commands *)

\* rename_session_command and update_session_fields_command with a name: the
\* cached session, then flush_session_if_dirty.
Rename(t) ==
    /\ pc[t] = "idle" /\ t # Timer /\ cache.there /\ names < MaxNames
    /\ names' = names + 1
    /\ wanted' = [wanted EXCEPT ![t] = names + 1]
    /\ \E n \in EditTimes :
          cache' = [cache EXCEPT !.name = names + 1, !.at = n, !.dirtyFields = TRUE,
                                  !.rev = @ + 1]
    /\ Goto(t, "flush")
    /\ UNCHANGED <<row, snap, clock, history, errors, crashes>>

\* update_session_fields_command without a name: nothing is flushed.
EditFields(t) ==
    /\ pc[t] = "idle" /\ t # Timer /\ cache.there /\ names < MaxNames
    /\ names' = names + 1
    /\ \E n \in EditTimes :
          cache' = [cache EXCEPT !.name = names + 1, !.at = n, !.dirtyFields = TRUE,
                                  !.rev = @ + 1]
    /\ UNCHANGED <<row, pc, snap, wanted, clock, history, errors, crashes>>

\* update_session_command: the cached files and the client's fields, with the
\* time of the client's copy ...
UpdateRead(t) ==
    /\ pc[t] = "idle" /\ t # Timer /\ cache.there /\ names < MaxNames
    /\ Hold(t, [cache EXCEPT !.name = names + 1])
    /\ names' = names + 1
    /\ Goto(t, "upsert")
    /\ UNCHANGED <<row, cache, wanted, clock, history, errors, crashes>>

\* ... and upsert_session: the flags say what differs from the entry it replaces,
\* not what the row still lacks.
Upserted(s) ==
    [s EXCEPT !.there = TRUE,
              !.dirtyFields = ~cache.there \/ cache.name # s.name,
              !.dirtyFiles = cache.there /\ <<cache.inc, cache.exc>> # <<s.inc, s.exc>>,
              !.rev = IF cache.there THEN cache.rev + 1 ELSE 1]

Upsert(t) ==
    /\ pc[t] = "upsert"
    /\ cache' = Upserted(snap[t])
    /\ Excuse(IF cache.there /\ (\/ cache.dirtyFields /\ ~cache'.dirtyFields
                                 \/ cache.dirtyFiles /\ ~cache'.dirtyFiles
                                 \/ cache'.dirtyFiles
                                 \/ cache.name > cache'.name)
              THEN {"replaced"} ELSE {})
    /\ Goto(t, "idle") /\ Hold(t, NoSession)
    /\ UNCHANGED <<row, wanted, clock, stored, saved, deleted, bounds>>

\* get_session of a session that is not cached: the row, then the entry, which
\* replaces one that has been made since.
GetRead(t) ==
    /\ pc[t] = "idle" /\ t # Timer /\ ~cache.there /\ row.there
    /\ Hold(t, Loaded(row)) /\ Goto(t, "insert")
    /\ UNCHANGED <<row, cache, wanted, clock, history, bounds>>

GetInsert(t) ==
    /\ pc[t] = "insert"
    /\ cache' = snap[t]
    /\ Excuse(IF cache.there \/ Loaded(row) # snap[t] THEN {"reloaded"} ELSE {})
    /\ Goto(t, "idle") /\ Hold(t, NoSession)
    /\ UNCHANGED <<row, wanted, clock, stored, saved, deleted, bounds>>

\* create_session_command and duplicate_session_command: the row first.
Create(t) ==
    /\ pc[t] = "idle" /\ t # Timer /\ ~row.there /\ ~deleted /\ ~cache.there
    /\ row' = [Fresh EXCEPT !.at = clock + 1] /\ clock' = clock + 1
    /\ Hold(t, row') /\ Goto(t, "upsert")
    /\ UNCHANGED <<cache, wanted, history, bounds>>

\* delete_session_command: the row, then the entry.
\* clear_all_project_sessions_command stops after the rows.
DeleteRow(t) ==
    /\ pc[t] = "idle" /\ t # Timer /\ row.there
    /\ row' = NoSession /\ deleted' = TRUE
    /\ pc' \in {[pc EXCEPT ![t] = "remove"], pc}
    /\ UNCHANGED <<cache, snap, wanted, clock, stored, saved, excuses, bounds>>

RemoveEntry(t) ==
    /\ pc[t] = "remove"
    /\ cache' = NoSession
    /\ Goto(t, "idle")
    /\ UNCHANGED <<row, snap, wanted, clock, history, bounds>>

\* The process ends and starts again: the cache is read from the rows.
Crash ==
    /\ crashes < MaxCrashes
    /\ crashes' = crashes + 1
    /\ cache' = IF row.there THEN Loaded(row) ELSE NoSession
    /\ pc' = [t \in Flushers |-> "idle"]
    /\ snap' = [t \in Flushers |-> NoSession]
    /\ wanted' = [t \in Tasks |-> 0]
    /\ stored' = 0
    /\ UNCHANGED <<row, clock, saved, excuses, deleted, names, errors>>

FlushStep(t) ==
    \/ FlushSnapshot(t) \/ FlushNothing(t) \/ FlushWrite(t) \/ FlushError(t) \/ FlushClear(t)

\* What a command that has begun does next.
CommandStep(t) == Upsert(t) \/ GetInsert(t) \/ RemoveEntry(t)

Begin(t) ==
    Rename(t) \/ EditFields(t) \/ UpdateRead(t) \/ GetRead(t) \/ Create(t) \/ DeleteRow(t)

SessionNext ==
    \/ \E t \in Flushers : FlushStep(t)
    \/ \E t \in Tasks : CommandStep(t) \/ Begin(t)
    \/ Crash
--------------------------------------------------------------------------------
(* Properties *)

\* An entry that says it is clean is what the row says: no edit is forgotten,
\* whatever flushes and edits overlap.  The row may only have more files, those a
\* merge has kept.  What the code does not exclude is named in excuses: a flush
\* that writes a snapshot older than one already written; a whole-session update
\* that replaces an entry whose edits were not flushed; a load that comes after
\* the entry it replaces.
CleanMeansStored ==
    row.there /\ cache.there /\ ~Dirty(cache) /\ excuses \cap {"outdated", "replaced", "reloaded"} = {}
        => /\ row.name = cache.name
           /\ cache.inc \ cache.exc \subseteq row.inc
           /\ cache.exc = row.exc

\* "Ensure immediate persistence so DB reads reflect the new name"
\* (session_commands.rs): once a rename has returned, the row has that name or a
\* later one, crashes included, unless one of the excuses applies.
RenameIsDurable == row.there /\ excuses = {} => row.name >= saved

\* A deleted session does not come back: neither a flush that took its snapshot
\* before, nor a late load or update of a cached copy, makes a row.
DeletedStaysDeleted == deleted => ~row.there
================================================================================
