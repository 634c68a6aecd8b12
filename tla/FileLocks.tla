------------------------------- MODULE FileLocks -------------------------------
(***************************************************************************)
(* utils/file_lock_manager.rs and the functions of utils/fs_utils.rs that   *)
(* use it: files of one directory are written, appended to, removed and     *)
(* moved by commands that run at the same time.                             *)
(*                                                                         *)
(* Paths are the normalized ones, without links: the same before and after  *)
(* the file is there.  A step is what happens between two awaits.           *)
(***************************************************************************)
EXTENDS Naturals, Sequences

CONSTANTS
    Files,    \* paths of files
    Root,     \* the path of their directory
    Clients,  \* commands
    MaxOps,   \* bound: commands begun
    NoFile, Free

ASSUME LocksAssumption ==
    /\ Root \notin Files /\ Free \notin Clients /\ \A s \in SUBSET Clients : NoFile # s
    /\ MaxOps \in Nat

VARIABLES
    disk,   \* each file: whose data it has, or NoFile
    unlinked, \* the commands whose open file is not the one in the directory any more
    locks,  \* active_locks: who has the lock of a path
    op,     \* each command: its kind and paths, where it is, the path it waits for, and
            \* the paths of its guards
    ops     \* commands begun so far

lockVars == <<disk, unlinked, locks, op, ops>>
diskVars == <<disk, unlinked>>

Paths == Files \cup {Root}

NoOp == [kind |-> "none", src |-> Root, dst |-> Root, over |-> FALSE, at |-> "idle",
         want |-> Root, held |-> {}]

LocksInit ==
    /\ disk \in [Files -> {NoFile, {}}]
    /\ locks = [p \in Paths |-> Free]
    /\ op = [c \in Clients |-> NoOp] /\ ops = 0 /\ unlinked = {}

Exists(f) == disk[f] # NoFile

Begin(c, kind, s, d, over, at) ==
    /\ op[c].at = "idle" /\ ops < MaxOps /\ ops' = ops + 1
    /\ op' = [op EXCEPT ![c] = [kind |-> kind, src |-> s, dst |-> d, over |-> over, at |-> at,
                                want |-> s, held |-> {}]]
    /\ UNCHANGED <<diskVars, locks>>

GoesTo(c, at) == op' = [op EXCEPT ![c].at = at]

-------------------------------------------------------------------------------
(* FileLockManager.                                                           *)

\* A mutant: the guard is dropped where it is returned.
AcquireAndDrop(c, from, to) ==
    /\ op[c].at = from /\ locks[op[c].want] = Free
    /\ op' = [op EXCEPT ![c].at = to, ![c].held = @ \cup {op[c].want}]
    /\ UNCHANGED <<diskVars, locks, ops>>

\* acquire looks every 10 ms until the path is free.
Acquire(c, from, to) ==
    /\ op[c].at = from /\ locks[op[c].want] = Free
    /\ locks' = [locks EXCEPT ![op[c].want] = c]
    /\ op' = [op EXCEPT ![c].at = to, ![c].held = @ \cup {op[c].want}]
    /\ UNCHANGED <<diskVars, ops>>

\* The guards are dropped one after the other, the last one first.
Release(c, p) ==
    /\ op[c].at = "drop" /\ p \in op[c].held /\ (p = op[c].src => op[c].held = {p})
    /\ locks' = [locks EXCEPT ![p] = IF @ = c THEN Free ELSE @]
    /\ op' = [op EXCEPT ![c].held = @ \ {p}]
    /\ UNCHANGED <<diskVars, ops>>

Return(c) ==
    /\ op[c].at = "drop" /\ op[c].held = {}
    /\ op' = [op EXCEPT ![c] = NoOp]
    /\ UNCHANGED <<diskVars, locks, ops>>

\* Each call of the file system may fail, which drops the guards.
CallFails(c) ==
    /\ op[c].at \in {"open", "fill", "remove", "check", "replace", "rename"}
    /\ GoesTo(c, "drop")
    /\ UNCHANGED <<diskVars, locks, ops>>

-------------------------------------------------------------------------------
(* write_string_to_file, write_bytes_to_file and append_bytes_to_file.         *)

\* The file is made, or emptied if it is written anew,
OpenFile(c) ==
    LET f == op[c].src IN
    /\ op[c].at = "open" /\ GoesTo(c, "fill")
    /\ disk' = [disk EXCEPT ![f] = IF op[c].kind = "append" /\ Exists(f) THEN @ ELSE {}]
    /\ unlinked' = unlinked \ {c}
    /\ UNCHANGED <<locks, ops>>

\* and the data are written, to the file that was opened.
FillFile(c) ==
    LET f == op[c].src IN
    /\ op[c].at = "fill" /\ GoesTo(c, "drop")
    /\ disk' = IF c \in unlinked THEN disk ELSE [disk EXCEPT ![f] = @ \cup {c}]
    /\ UNCHANGED <<unlinked, locks, ops>>

\* Another file takes the place of f, or none: what was open is not in the directory.
Unlink(f) == unlinked' = unlinked \cup {c \in Clients : op[c].at = "fill" /\ op[c].src = f}

-------------------------------------------------------------------------------
(* remove_file.                                                               *)

\* A file that is not there need not be removed.
BeginRemove(c, f) == Exists(f) /\ Begin(c, "remove", f, f, FALSE, "first")

RemoveFile(c) ==
    /\ op[c].at = "remove" /\ GoesTo(c, "drop")
    /\ disk' = [disk EXCEPT ![op[c].src] = NoFile] /\ Unlink(op[c].src)
    /\ UNCHANGED <<locks, ops>>

-------------------------------------------------------------------------------
(* move_item.                                                                 *)

\* The source has to be there.
BeginMove(c, s, d, over) == Exists(s) /\ Begin(c, "move", s, d, over, "first")

\* With the source locked: what stands for the destination is the file, if there is one,
\* and its directory otherwise.
LookAtDestination(c) ==
    LET d == op[c].dst IN
    /\ op[c].at = "look"
    /\ op' = [op EXCEPT ![c].at = "second", ![c].want = IF Exists(d) THEN d ELSE Root]
    /\ UNCHANGED <<diskVars, locks, ops>>

\* A file that is there is an error or is removed,
CheckDestination(c) ==
    /\ op[c].at = "check"
    /\ GoesTo(c, IF ~Exists(op[c].dst) THEN "rename" ELSE IF op[c].over THEN "replace" ELSE "drop")
    /\ UNCHANGED <<diskVars, locks, ops>>

ReplaceDestination(c) ==
    /\ op[c].at = "replace" /\ Exists(op[c].dst) /\ GoesTo(c, "rename")
    /\ disk' = [disk EXCEPT ![op[c].dst] = NoFile] /\ Unlink(op[c].dst)
    /\ UNCHANGED <<locks, ops>>

\* and the source renamed, onto whatever is there by then.
RenameSource(c) ==
    LET s == op[c].src
        d == op[c].dst
    IN
    /\ op[c].at = "rename" /\ Exists(s) /\ GoesTo(c, "drop")
    /\ disk' = [disk EXCEPT ![s] = NoFile, ![d] = disk[s]] /\ Unlink(d)
    /\ UNCHANGED <<locks, ops>>

\* Where a command goes on with its first lock.
First == [write |-> "open", append |-> "open", remove |-> "remove", move |-> "look"]

ClientStep(c) ==
    \/ \E k \in DOMAIN First : op[c].kind = k /\ Acquire(c, "first", First[k])
    \/ Acquire(c, "second", "check")
    \/ OpenFile(c) \/ FillFile(c) \/ RemoveFile(c)
    \/ LookAtDestination(c) \/ CheckDestination(c) \/ ReplaceDestination(c) \/ RenameSource(c)
    \/ \E p \in Paths : Release(c, p)
    \/ Return(c) \/ CallFails(c)

LocksNext == \E c \in Clients :
    \/ \E f \in Files :
         \/ \E k \in {"write", "append"} : Begin(c, k, f, f, FALSE, "first")
         \/ BeginRemove(c, f)
         \/ \E d \in Files, over \in BOOLEAN : BeginMove(c, f, d, over)
    \/ ClientStep(c)

LocksSpec == LocksInit /\ [][LocksNext]_lockVars

-------------------------------------------------------------------------------

Stages == {"idle", "first", "second", "open", "fill", "remove", "look", "check", "replace",
           "rename", "drop"}

LocksTypeOK ==
    /\ disk \in [Files -> {NoFile} \cup SUBSET Clients]
    /\ locks \in [Paths -> Clients \cup {Free}]
    /\ op \in [Clients -> [kind : {"none", "write", "append", "remove", "move"}, src : Paths,
                           dst : Paths, over : BOOLEAN, at : Stages, want : Paths,
                           held : SUBSET Paths]]
    /\ unlinked \subseteq Clients /\ ops \in 0..MaxOps

\* A file whose lock a command holds is changed under it by no other command, from any
\* acquisition to any release, whatever waits, fails and returns meanwhile; but by a move
\* that found no file there and has the directory's lock in place of the file's.
LockedFileIsStable ==
    [][\A c \in Clients, f \in Files :
          f \in op[c].held /\ op'[c] = op[c] /\ disk'[f] # disk[f] =>
              \E m \in Clients : op[m].kind = "move" /\ op[m].dst = f /\ Root \in op[m].held]_lockVars

\* What is said of the locks and is not so.
\* "wait until we can acquire": nobody waits for a lock that waits, at some remove, for him.
Waits(c) == op[c].at \in {"first", "second"}
NoDeadlock ==
    \A S \in SUBSET Clients \ {{}} :
        \E c \in S : ~(Waits(c) /\ locks[op[c].want] \in S)

\* "Destination path already exists and overwrite is not specified": then it stays.
NoOverwrite ==
    [][\A c \in Clients : op[c].at = "rename" /\ op'[c].at = "drop" /\ ~op[c].over =>
          ~Exists(op[c].dst) \/ disk'[op[c].dst] = disk[op[c].dst]]_lockVars
================================================================================
