---------------------------- MODULE HistorySequencer ----------------------------
(***************************************************************************)
(* services/history_state_sequencer.rs over the session cache: the history  *)
(* of file selections of one session.  Commands read the history, make a    *)
(* new state from it and queue it with the version they have read; one      *)
(* worker per session applies the queue.  A state made from another version *)
(* is merged with the stored one.  Every applied state is written to the    *)
(* history and to the sessions row in one transaction, and to the cache     *)
(* after it.                                                                *)
(*                                                                          *)
(* The history of the task description takes the same path with another     *)
(* rule for duplicates and is left out.  Entries of different devices are   *)
(* more than 100 ms apart, the window in which the device decides.          *)
(***************************************************************************)
EXTENDS SessionCache

CONSTANTS
    Phones,      \* the tasks that act for the mobile client
    MaxEdits,    \* bound: new entries and moves of the index
    MaxHistory   \* entries that are kept: 50

ASSUME HistoryAssumption ==
    /\ Phones \subseteq Tasks /\ MaxEdits \in Nat /\ MaxHistory \in Nat \ {0}
    /\ \A fs \in SUBSET Files : Listing(fs) \notin Files  \* a JSON array is not a path

VARIABLES
    hist,   \* file_selection_history with the session's version and current index
    edit,   \* each task: the history as it has read it, and the operation it waits for
    ops,    \* the unbounded channel of the session's worker
    work,   \* the worker
    edits   \* number of the latest edit, which is also its time

historyVars == <<hist, edit, ops, work, edits>>
vars == <<sessionVars, historyVars>>

Devices == {"desktop", "phone"}

\* A selection: a file is included or excluded, not both.
Entry == {e \in [inc : SUBSET Files, exc : SUBSET Files, at : Nat, seq : Nat, dev : Devices] :
            e.inc \cap e.exc = {}}

NoHistory == [entries |-> <<>>, index |-> 0, version |-> 1]
NoEdit == [entries |-> <<>>, index |-> 0, version |-> 0, op |-> 0]
NoWork == [step |-> "recv", merged |-> FALSE, base |-> <<{}, {}>>, local |-> NoHistory]

Selection(e) == <<e.inc, e.exc>>
HasCurrent(h) == h.index < Len(h.entries)
Current(h) == h.entries[h.index + 1]
Selections(h) == {Selection(h.entries[i]) : i \in DOMAIN h.entries}

HistoryTypeOK ==
    /\ SessionTypeOK
    /\ Range(hist.entries) \subseteq Entry /\ hist.index \in Nat /\ hist.version \in Nat
    /\ Len(hist.entries) <= MaxHistory
    /\ Len(hist.entries) > 0 => HasCurrent(hist)
    /\ \A i \in DOMAIN ops : Range(ops[i].entries) \subseteq Entry
    /\ work.step \in {"recv", "read", "merge", "cache", "apply", "reply"}
    /\ edits \in 0..MaxEdits

NothingQueued ==
    /\ edit = [t \in Tasks |-> NoEdit]
    /\ ops = <<>> /\ work = NoWork /\ edits = 0

HistoryInit == SessionInit /\ hist = NoHistory /\ NothingQueued
--------------------------------------------------------------------------------
(* The algorithms on histories *)

\* compare_file_entries.
After(a, b) == IF a.dev = b.dev /\ a.seq # b.seq THEN a.seq > b.seq ELSE a.at > b.at
Later(a, b) == a.at > b.at

SortedBy(Greater(_, _), s) ==
    LET Insert(acc, e) ==
            InsertAt(acc, Cardinality({i \in DOMAIN acc : ~Greater(acc[i], e)}) + 1, e)
        sorted[n \in 0..Len(s)] == IF n = 0 THEN <<>> ELSE Insert(sorted[n - 1], s[n])
    IN  sorted[Len(s)]

\* Of equal selections the first is kept.
Deduped(s) ==
    LET Add(acc, e) == IF \E i \in DOMAIN acc : Selection(acc[i]) = Selection(e)
                       THEN acc ELSE Append(acc, e)
        kept[n \in 0..Len(s)] == IF n = 0 THEN <<>> ELSE Add(kept[n - 1], s[n])
    IN  kept[Len(s)]

Newest(s) == IF Len(s) > MaxHistory THEN SubSeq(s, Len(s) - MaxHistory + 1, Len(s)) ELSE s

Kept(s) == Newest(Deduped(SortedBy(After, s)))

\* validate_file_history_entries: the index follows its entry; if the entry is
\* gone as a duplicate, it is cut to the new length.
ClampToLength(i, s) == IF i < Len(s) THEN i ELSE Len(s)
Clamp(i, s) == IF i < Len(s) THEN i ELSE Len(s) - 1
Validated(s, i) ==
    IF s = <<>> THEN [entries |-> s, index |-> 0]
    ELSE LET kept == Kept(s)
             current == {k \in DOMAIN kept : kept[k] = s[Clamp(i, s) + 1]}
         IN  [entries |-> kept,
              index |-> IF current # {} THEN (CHOOSE k \in current : TRUE) - 1 ELSE Clamp(i, kept)]

\* get_file_history_state reads in order of time; the stored index counts in the
\* order of compare_file_entries.
ReadHistory(entries, index, version) ==
    LET v == Validated(SortedBy(Later, entries), index)
    IN  [entries |-> v.entries, index |-> v.index, version |-> version]

\* merge_file_history_states: the newest entry becomes the current one.
MergedLocal(local, remote) ==
    LET kept == Kept(local.entries)
    IN  [entries |-> kept, index |-> IF kept = <<>> THEN 0 ELSE Len(kept) - 1]
Merged(local, remote) ==
    LET kept == Kept(local.entries \o remote.entries)
    IN  [entries |-> kept, index |-> IF kept = <<>> THEN 0 ELSE Len(kept) - 1]

NextSeq(s) ==
    IF s = <<>> THEN 0
    ELSE 1 + (CHOOSE n \in {s[i].seq : i \in DOMAIN s} : \A i \in DOMAIN s : s[i].seq <= n)
--------------------------------------------------------------------------------
(* Commands *)

\* get_file_history_state, first statement: the version and the index.
HistoryReadVersion(t) ==
    /\ pc[t] = "idle" /\ row.there /\ edits < MaxEdits
    /\ edit' = [edit EXCEPT ![t] = [NoEdit EXCEPT !.index = hist.index, !.version = hist.version]]
    /\ Goto(t, "entries")
    /\ UNCHANGED <<row, cache, snap, wanted, clock, history, bounds, hist, ops, work, edits>>

\* Second statement: the entries, which may be newer.
HistoryReadEntries(t) ==
    /\ pc[t] = "entries"
    /\ LET h == ReadHistory(hist.entries, edit[t].index, edit[t].version)
       IN  edit' = [edit EXCEPT ![t] = [entries |-> h.entries, index |-> h.index,
                                        version |-> h.version, op |-> 0]]
    /\ Goto(t, "change")
    /\ UNCHANGED <<row, cache, snap, wanted, clock, history, bounds, hist, ops, work, edits>>

\* enqueue_op, and the caller waits.
Enqueue(t, kind, entries, index, wants) ==
    /\ edits' = edits + 1
    /\ ops' = Append(ops, [by |-> t, id |-> edits + 1, kind |-> kind, entries |-> entries,
                           index |-> index, version |-> edit[t].version,
                           known |-> Range(edit[t].entries), wants |-> wants])
    /\ edit' = [edit EXCEPT ![t] = [NoEdit EXCEPT !.op = edits + 1]]
    /\ Goto(t, "wait")
    /\ UNCHANGED <<row, snap, wanted, clock, history, bounds, hist, work>>

\* The selection an edit starts from; get_session fills the cache if it must.
Base(t) == IF HasCurrent(edit[t]) THEN Selection(Current(edit[t]))
           ELSE IF cache.there THEN Selection(cache) ELSE Selection(row)
Filled(t) == IF ~HasCurrent(edit[t]) /\ ~cache.there /\ row.there THEN Loaded(row) ELSE cache

NewEntry(t, inc, exc) ==
    [inc |-> inc, exc |-> exc, at |-> edits + 1, seq |-> NextSeq(edit[t].entries),
     dev |-> IF t \in Phones THEN "phone" ELSE "desktop"]

\* update_session_files_command, and auto_apply_files_for_job, which only adds:
\* what was undone is cut off, the new entry is the current one.
EditFiles(t) ==
    /\ pc[t] = "change" /\ t \notin Phones /\ edits < MaxEdits
    /\ cache' = Filled(t)
    /\ \E inc, exc \in SUBSET Files :
          /\ inc \cap exc = {} /\ <<inc, exc>> # Base(t)
          /\ LET upto == IF HasCurrent(edit[t])
                          THEN SubSeq(edit[t].entries, 1, edit[t].index + 1) ELSE <<>>
                 all == Newest(Append(upto, NewEntry(t, inc, exc)))
             IN  Enqueue(t, "sync", all, Len(all) - 1, <<inc, exc>>)

\* A command that changes nothing returns the cached session.
EditNothing(t) ==
    /\ pc[t] = "change"
    /\ cache' = Filled(t)
    /\ Goto(t, "idle") /\ edit' = [edit EXCEPT ![t] = NoEdit]
    /\ UNCHANGED <<row, snap, wanted, clock, history, bounds, hist, ops, work, edits>>

\* sync_history_state_command of an undo or a redo: another index.
MoveIndex(t) ==
    /\ pc[t] = "change" /\ edits < MaxEdits
    /\ \E i \in 0..(Len(edit[t].entries) - 1) :
          /\ i # edit[t].index
          /\ Enqueue(t, "sync", edit[t].entries, i, Selection(edit[t].entries[i + 1]))
    /\ UNCHANGED cache

\* merge_history_state_command and handle_session_merge_history_state.
PhoneMerge(t) ==
    /\ pc[t] = "change" /\ t \in Phones /\ edits < MaxEdits
    /\ \E inc, exc \in SUBSET Files :
          /\ inc \cap exc = {}
          /\ LET all == Append(edit[t].entries, NewEntry(t, inc, exc))
             IN  Enqueue(t, "merge", all, Len(all) - 1, <<inc, exc>>)
    /\ UNCHANGED cache

\* HISTORY_OP_TIMEOUT_SECS is over: the caller gives up, the operation stays queued.
TimeOut(t) ==
    /\ pc[t] = "wait"
    /\ Goto(t, "idle") /\ edit' = [edit EXCEPT ![t] = NoEdit]
    /\ UNCHANGED <<row, cache, snap, wanted, clock, history, bounds, hist, ops, work, edits>>
--------------------------------------------------------------------------------
(* The worker *)

op == Head(ops)
At(step) == work.step = step
Step(s) == work' = [work EXCEPT !.step = s]

\* sync_file_history_state in a transaction whose version was the expected one:
\* an equal state is not written.
Synced(s) ==
    LET v == Validated(s.entries, s.index)
    IN  IF v.entries = hist.entries /\ v.index = hist.index THEN hist
        ELSE [entries |-> v.entries, index |-> v.index, version |-> hist.version + 1]

\* The columns of the sessions row get the current entry's JSON texts.
Columns(h) == IF HasCurrent(h) THEN <<{Listing(Current(h).inc)}, {Listing(Current(h).exc)}>>
              ELSE <<{}, {}>>

Commit(s) ==
    /\ hist' = Synced(s)
    /\ IF hist' = hist THEN UNCHANGED <<row, clock>>
       ELSE /\ row' = [row EXCEPT !.inc = Columns(hist')[1], !.exc = Columns(hist')[2],
                                  !.at = clock + 1]
            /\ clock' = clock + 1
    /\ work' = [work EXCEPT !.step = "cache"]

AnyVersion(version) == TRUE
VersionMatches(version) == hist.version = version

WorkerSync ==
    /\ At("recv") /\ ops # <<>>
    /\ CASE ~row.there -> Step("reply") /\ UNCHANGED <<row, clock, hist>>
         [] row.there /\ op.kind = "sync" /\ VersionMatches(op.version) -> Commit(op)
         [] OTHER -> Step("read") /\ UNCHANGED <<row, clock, hist>>
    /\ UNCHANGED <<cache, pc, snap, wanted, history, bounds, edit, ops, edits>>

\* A conflict or a merge: the stored state ...
WorkerRead ==
    /\ At("read")
    /\ work' = IF row.there
               THEN [work EXCEPT !.step = "merge", !.merged = TRUE,
                                 !.local = ReadHistory(hist.entries, hist.index, hist.version)]
               ELSE [work EXCEPT !.step = "reply"]
    /\ UNCHANGED <<sessionVars, hist, edit, ops, edits>>

\* ... and the merged one under its version; a second conflict is an error.
WorkerMerge ==
    /\ At("merge")
    /\ IF row.there /\ VersionMatches(work.local.version) THEN Commit(Merged(work.local, op))
       ELSE Step("reply") /\ UNCHANGED <<row, clock, hist>>
    /\ UNCHANGED <<cache, pc, snap, wanted, history, bounds, edit, ops, edits>>

\* get_session: the cached selection the delta is computed from.
WorkerGet ==
    /\ At("cache")
    /\ cache' = IF cache.there \/ ~row.there THEN cache ELSE Loaded(row)
    /\ work' = IF cache'.there /\ HasCurrent(hist)
               THEN [work EXCEPT !.step = "apply", !.base = Selection(cache')]
               ELSE [work EXCEPT !.step = "reply"]
    /\ UNCHANGED <<row, pc, snap, wanted, clock, history, bounds, hist, edit, ops, edits>>

\* update_files_delta with the differences.  No other task writes the history, so
\* the current entry is still the one the worker has committed.
AppliedAdditions(inc, exc, at) ==
    WithFiles(inc \ work.base[1], {}, exc \ work.base[2], {}, at)
Applied(inc, exc, at) ==
    WithFiles(inc \ work.base[1], work.base[1] \ inc, exc \ work.base[2], work.base[2] \ exc, at)

WorkerApply ==
    /\ At("apply")
    /\ IF cache.there /\ HasCurrent(hist)
       THEN \E n \in EditTimes : cache' = Applied(Current(hist).inc, Current(hist).exc, n)
       ELSE UNCHANGED cache
    /\ Step("reply")
    /\ UNCHANGED <<row, pc, snap, wanted, clock, history, bounds, hist, edit, ops, edits>>

\* The answer reaches its caller if it still waits.
WorkerReply ==
    /\ At("reply")
    /\ work' = NoWork /\ ops' = Tail(ops)
    /\ IF edit[op.by].op = op.id
       THEN Goto(op.by, "idle") /\ edit' = [edit EXCEPT ![op.by] = NoEdit]
       ELSE UNCHANGED <<pc, edit>>
    /\ UNCHANGED <<row, cache, snap, wanted, clock, history, bounds, hist, edits>>
--------------------------------------------------------------------------------
HistoryBegin(t) == HistoryReadVersion(t)

HistoryStep(t) ==
    \/ HistoryReadEntries(t) \/ EditFiles(t) \/ EditNothing(t) \/ MoveIndex(t)
    \/ PhoneMerge(t) \/ TimeOut(t)

WorkerStep == WorkerSync \/ WorkerRead \/ WorkerMerge \/ WorkerGet \/ WorkerApply \/ WorkerReply

\* The history of a deleted session is deleted with it (ON DELETE CASCADE).
Cascade ==
    /\ hist' = IF row'.there THEN hist ELSE NoHistory
    /\ UNCHANGED <<edit, ops, work, edits>>

\* The end of the process loses the queue.
Restart ==
    /\ Crash
    /\ edit' = [t \in Tasks |-> NoEdit] /\ ops' = <<>> /\ work' = NoWork
    /\ UNCHANGED <<hist, edits>>

Next ==
    \/ \E t \in Flushers : FlushStep(t) /\ Cascade
    \/ \E t \in Tasks : (CommandStep(t) \/ Begin(t)) /\ Cascade
    \/ \E t \in Tasks : HistoryBegin(t) \/ HistoryStep(t)
    \/ WorkerStep
    \/ Restart

Spec == HistoryInit /\ [][Next]_vars
--------------------------------------------------------------------------------
(* Properties *)

\* While the worker has nothing half done, an entry that says it is clean is what
\* the row says (see SessionCache).
CleanIsStored == At("recv") => CleanMeansStored

\* No state replaces an entry that its author had not read: a state made from an
\* older version is merged, never written over the stored one.  An entry goes
\* only as a duplicate, as one of more than MaxHistory, or with its session.
NoBlindOverwrite ==
    [][hist' = hist \/ \A i \in DOMAIN hist.entries :
          LET e == hist.entries[i]
          IN  \/ e \in Range(hist'.entries)
              \/ ~row'.there
              \/ e \in op.known
              \/ Selection(e) \in Selections(hist')
              \/ /\ Len(hist'.entries) = MaxHistory
                 /\ \A k \in DOMAIN hist'.entries : ~After(e, hist'.entries[k])]_vars

\* Whatever conflicts and merges it takes, the selection of an operation that is
\* answered with Ok is in the history, unless the history is full.
AcknowledgedIsKept ==
    At("cache") /\ row.there /\ Len(hist.entries) < MaxHistory => op.wants \in Selections(hist)

\* With nothing queued, the cached session has the files of the current entry: the
\* desktop shows and sends to the models what the history says.  This is so until
\* the process ends.  Afterwards the session has what its row had, which is the
\* current entry as JSON texts or, once that has been flushed, as files; but only if
\* no plain field was edited: an edit between the worker's commit and its update of
\* the cache is flushed with the files of before.
SelectionFollowsHistory ==
    ops = <<>> /\ row.there /\ cache.there /\ HasCurrent(hist) /\ excuses = {}
    /\ (crashes = 0 \/ (names = 0 /\ cache.inc \cup cache.exc \subseteq Files))
        => Selection(cache) = Selection(Current(hist))

\* "Update session files with delta-based mutations (add/remove with mutual
\* exclusivity)" (session_commands.rs): an edit that met no conflict is the
\* current selection afterwards.  The code does not keep this.
EditTakesEffect ==
    At("cache") /\ ~work.merged /\ row.there => Selection(Current(hist)) = op.wants

\* "Persists into sessions.included_files / sessions.force_excluded_files
\* (newline-delimited TEXT)" (file_selection_auto_apply.rs): a session that is
\* loaded from its row has files.  The code does not keep this.
SelectionIsFiles == cache.inc \cup cache.exc \subseteq Files
================================================================================
