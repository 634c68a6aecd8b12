------------------------------- MODULE MCSession -------------------------------
(* A small instance of the session cache with the history worker.             *)
EXTENDS HistorySequencer

CONSTANTS Part  \* what is explored, a subset of the names below

VARIABLE part

mcVars == <<vars, part>>

\* No caller gives up.
AnswersOnly == \A t \in Tasks : pc[t] = "wait" /\ pc'[t] # "wait" => At("reply")

\* "fields":  SessionCache alone;
\* "queue":   the histories alone, with all the edits;
\* "flush":   both, with one edit less and no time-out;
\* "deletes": both, with two edits less, a deletion or an end of the process.
\* Some file has been selected before: two entries, written and flushed.
Old(n, inc) == [inc |-> inc, exc |-> {}, at |-> 0, seq |-> n, dev |-> "desktop"]
Earlier == [entries |-> <<Old(0, {}), Old(1, Files)>>, index |-> 1, version |-> 3]

MCInit ==
    /\ part \in Part
    /\ IF part = "queue"
       THEN /\ row = [Fresh EXCEPT !.inc = Files] /\ cache = row /\ hist = Earlier
            /\ Idle /\ NothingQueued
       ELSE HistoryInit /\ (part = "flush" => row.there)

MCNext ==
    /\ Next
    /\ errors' + crashes' < 2
    /\ part = "fields" => UNCHANGED <<hist, edit>>
    /\ part # "fields" => names' = 0 /\ errors' = 0
    /\ part \in {"queue", "flush"} => ~deleted' /\ crashes' = 0
    /\ part = "queue" => pc'[Timer] = "idle" /\ cache'.at \in {cache.at, clock}
    /\ part = "flush" => edits' < MaxEdits /\ (ops # <<>> => AnswersOnly)
    /\ part = "deletes" => edits' < MaxEdits - 1 /\ (deleted' => crashes' = 0)
    /\ UNCHANGED part

MCSpec == MCInit /\ [][MCNext]_mcVars
================================================================================
