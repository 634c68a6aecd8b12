----------------------------- MODULE DesktopProofs -----------------------------
(***************************************************************************)
(* For any files, processes, callers, chunks, tasks, connections and        *)
(* bounds: a file whose lock a command holds is changed under it by nobody  *)
(* else but a move that has the directory's lock in place of the file's     *)
(* (FileLocks), one reconnection loop at most runs (DeviceLink), no chunk   *)
(* of output is forgotten on its way to the phone (TerminalLink), what was  *)
(* flushed is in the session's log (TerminalSession), and all of them, side *)
(* by side as the desktop application runs them, are type correct.          *)
(***************************************************************************)
EXTENDS MCDesktop, SequenceLemmas

-------------------------------------------------------------------------------
(* The locks of files.                                                        *)

OpType == [kind : {"none", "write", "append", "remove", "move"}, src : Paths, dst : Paths,
           over : BOOLEAN, at : Stages, want : Paths, held : SUBSET Paths]

\* A guard stands for an entry of the table.
GuardsAreLocks == \A c \in Clients : \A p \in op[c].held : locks[p] = c

\* What a command waits for, and what it holds where it works on files.
WaitsFor(o) ==
    /\ o.at # "idle" => o.src \in Files
    /\ o.at = "first" => o.want = o.src
    /\ o.at = "second" => o.want \in {o.dst, Root}

WorksWith(o) ==
    /\ o.at \in {"open", "fill", "remove", "look", "second", "check", "replace", "rename"} => o.src \in o.held
    /\ o.at \in {"look", "second", "check", "replace", "rename"} => o.kind = "move"
    /\ o.at \in {"check", "replace", "rename"} => o.dst \in o.held \/ Root \in o.held

Worked == \A c \in Clients : WaitsFor(op[c]) /\ WorksWith(op[c])

\* The file that is open for writing is there, unless it was unlinked.
Filled == \A c \in Clients : op[c].at = "fill" /\ c \notin unlinked => Exists(op[c].src)

\* The inductive invariant.
LInv == LocksTypeOK /\ GuardsAreLocks /\ Worked /\ Filled

\* One command goes on, without touching the table: with what it held before, and with
\* what it needs where it comes to.
LEMMA CommandStep ==
    ASSUME LInv, NEW c \in Clients, NEW o \in OpType,
           op' = [op EXCEPT ![c] = o], locks' = locks, o.held \subseteq op[c].held,
           WaitsFor(o), WorksWith(o),
           disk' \in [Files -> {NoFile} \cup SUBSET Clients], unlinked' \subseteq Clients,
           ops' \in 0..MaxOps, Filled'
    PROVE  LInv'
  <1>1. op \in [Clients -> OpType]
    BY DEF LInv, LocksTypeOK, OpType
  <1>2. op' \in [Clients -> OpType]
    BY <1>1
  <1>3. LocksTypeOK'
    BY <1>2 DEF LInv, LocksTypeOK, OpType
  <1>4. \A d \in Clients : op'[d] = IF d = c THEN o ELSE op[d]
    BY <1>1
  <1>5. GuardsAreLocks'
    BY <1>4 DEF LInv, GuardsAreLocks
  <1>6. Worked'
    BY <1>4 DEF LInv, Worked
  <1> QED
    BY <1>3, <1>5, <1>6 DEF LInv

LEMMA InitLInv == LocksInit => LInv
  <1> SUFFICES ASSUME LocksInit PROVE LInv
    OBVIOUS
  <1>1. LocksTypeOK
    BY LocksAssumption DEF LocksInit, LocksTypeOK, NoOp, Paths, Stages
  <1>2. GuardsAreLocks
    BY DEF LocksInit, GuardsAreLocks, NoOp
  <1>3. Worked
    BY DEF LocksInit, Worked, WaitsFor, WorksWith, NoOp
  <1>4. Filled
    BY DEF LocksInit, Filled, NoOp
  <1> QED
    BY <1>1, <1>2, <1>3, <1>4 DEF LInv

LEMMA AcquireKeeps ==
    ASSUME LInv, NEW c \in Clients, NEW from, NEW to, Acquire(c, from, to),
           to \in Stages \ {"idle", "first", "second", "fill"}, op[c].at # "idle",
           WorksWith([op[c] EXCEPT !.at = to, !.held = @ \cup {op[c].want}])
    PROVE  LInv'
  <1> DEFINE p == op[c].want
             o == [op[c] EXCEPT !.at = to, !.held = @ \cup {p}]
  <1>1. /\ op \in [Clients -> OpType] /\ locks \in [Paths -> Clients \cup {Free}]
        /\ op[c] \in OpType /\ p \in Paths
    BY DEF LInv, LocksTypeOK, OpType
  <1>2. o \in OpType /\ o.held = op[c].held \cup {p}
    BY <1>1 DEF OpType
  <1>3. /\ op' = [op EXCEPT ![c] = o] /\ locks' = [locks EXCEPT ![p] = c] /\ locks[p] = Free
        /\ UNCHANGED <<disk, unlinked, ops>>
    BY <1>1 DEF Acquire, diskVars, OpType
  <1>4. \A d \in Clients : op'[d] = IF d = c THEN o ELSE op[d]
    BY <1>1, <1>3
  <1>5. LocksTypeOK'
    <2>1. op' \in [Clients -> OpType]
      BY <1>1, <1>2, <1>3
    <2>2. locks' \in [Paths -> Clients \cup {Free}]
      BY <1>1, <1>3
    <2> QED
      BY <1>3, <2>1, <2>2 DEF LInv, LocksTypeOK, OpType
  <1>6. GuardsAreLocks'
    <2> SUFFICES ASSUME NEW d \in Clients, NEW q \in op'[d].held PROVE locks'[q] = d
      BY DEF GuardsAreLocks
    <2>1. q \in Paths
      BY <1>5 DEF LocksTypeOK
    <2>2. CASE q = p
      <3>1. d = c
        BY <1>3, <1>4, <2>2, LocksAssumption DEF LInv, GuardsAreLocks
      <3> QED
        BY <1>1, <1>3, <2>2, <3>1
    <2>3. CASE q # p
      <3>1. q \in op[d].held
        BY <1>2, <1>4, <2>3
      <3> QED
        BY <1>1, <1>3, <2>1, <2>3, <3>1 DEF LInv, GuardsAreLocks
    <2> QED
      BY <2>2, <2>3
  <1>7. Worked'
    <2>1. o.at = to /\ o.kind = op[c].kind /\ o.src = op[c].src
      BY <1>1 DEF OpType
    <2>2. WaitsFor(o) /\ WorksWith(o)
      BY <2>1 DEF WaitsFor, LInv, Worked
    <2> QED
      BY <1>4, <2>2 DEF LInv, Worked
  <1>8. Filled'
    <2>1. o.at # "fill"
      BY <1>1 DEF OpType
    <2> QED
      BY <1>3, <1>4, <2>1 DEF LInv, Filled, Exists
  <1> QED
    BY <1>5, <1>6, <1>7, <1>8 DEF LInv

LEMMA ReleaseKeeps ==
    ASSUME LInv, NEW c \in Clients, NEW p \in Paths, Release(c, p)
    PROVE  LInv'
  <1> DEFINE o == [op[c] EXCEPT !.held = @ \ {p}]
  <1>1. /\ op \in [Clients -> OpType] /\ locks \in [Paths -> Clients \cup {Free}] /\ op[c] \in OpType
    BY DEF LInv, LocksTypeOK, OpType
  <1>2. o \in OpType /\ o.at = "drop" /\ o.held = op[c].held \ {p} /\ o.src = op[c].src /\ op[c].at = "drop"
    BY <1>1 DEF OpType, Release
  <1>3. /\ op' = [op EXCEPT ![c] = o] /\ locks[p] = c /\ locks' = [locks EXCEPT ![p] = Free]
        /\ UNCHANGED <<disk, unlinked, ops>>
    BY <1>1 DEF Release, diskVars, LInv, GuardsAreLocks
  <1>4. \A d \in Clients : op'[d] = IF d = c THEN o ELSE op[d]
    BY <1>1, <1>3
  <1>5. LocksTypeOK'
    <2>1. op' \in [Clients -> OpType]
      BY <1>1, <1>2, <1>3
    <2>2. locks' \in [Paths -> Clients \cup {Free}]
      BY <1>1, <1>3
    <2> QED
      BY <1>3, <2>1, <2>2 DEF LInv, LocksTypeOK, OpType
  <1>6. GuardsAreLocks'
    <2> SUFFICES ASSUME NEW d \in Clients, NEW q \in op'[d].held PROVE locks'[q] = d
      BY DEF GuardsAreLocks
    <2>1. q \in op[d].held /\ (d = c => q # p)
      BY <1>2, <1>4
    <2>2. locks[q] = d /\ q # p /\ q \in Paths
      BY <1>1, <1>3, <2>1 DEF LInv, GuardsAreLocks, OpType
    <2> QED
      BY <1>1, <1>3, <2>2
  <1>7. Worked'
    BY <1>2, <1>4 DEF LInv, Worked, WaitsFor, WorksWith
  <1>8. Filled'
    BY <1>2, <1>3, <1>4 DEF LInv, Filled, Exists
  <1> QED
    BY <1>5, <1>6, <1>7, <1>8 DEF LInv

-------------------------------------------------------------------------------

\* A step that only moves a command on, or fails.
LEMMA GoesToKeeps ==
    ASSUME LInv, NEW c \in Clients, NEW at \in Stages, GoesTo(c, at), locks' = locks, ops' = ops,
           disk' \in [Files -> {NoFile} \cup SUBSET Clients], unlinked' \subseteq Clients,
           at \notin {"idle", "first", "second"}, op[c].at # "idle", Filled',
           WorksWith([op[c] EXCEPT !.at = at])
    PROVE  LInv'
  <1> DEFINE o == [op[c] EXCEPT !.at = at]
  <1>1. op \in [Clients -> OpType] /\ op[c] \in OpType /\ ops \in 0..MaxOps
    BY DEF LInv, LocksTypeOK, OpType
  <1>2. o \in OpType /\ o.at = at /\ o.held = op[c].held /\ o.kind = op[c].kind /\ o.src = op[c].src
    BY <1>1 DEF OpType
  <1>3. op' = [op EXCEPT ![c] = o]
    BY <1>1 DEF GoesTo
  <1>4. WaitsFor(o)
    BY <1>2 DEF WaitsFor, LInv, Worked
  <1> QED
    BY <1>1, <1>2, <1>3, <1>4, CommandStep

LEMMA BeginKeeps ==
    ASSUME LInv, NEW c \in Clients, NEW kind \in {"write", "append", "remove", "move"},
           NEW s \in Files, NEW d \in Files, NEW over \in BOOLEAN, Begin(c, kind, s, d, over, "first")
    PROVE  LInv'
  <1> DEFINE o == [kind |-> kind, src |-> s, dst |-> d, over |-> over, at |-> "first", want |-> s, held |-> {}]
  <1>1. o \in OpType
    BY DEF OpType, Paths, Stages
  <1>2. /\ op' = [op EXCEPT ![c] = o] /\ locks' = locks /\ disk' = disk /\ unlinked' = unlinked
        /\ ops' \in 0..MaxOps
    BY LocksAssumption DEF Begin, diskVars, LInv, LocksTypeOK
  <1>3. WaitsFor(o) /\ WorksWith(o)
    BY DEF WaitsFor, WorksWith
  <1>4. Filled'
    <2>1. op \in [Clients -> OpType]
      BY DEF LInv, LocksTypeOK, OpType
    <2> QED
      BY <1>2, <2>1 DEF LInv, Filled, Exists
  <1> QED
    BY <1>1, <1>2, <1>3, <1>4, CommandStep DEF LInv, LocksTypeOK

\* A step that leaves the files alone and opens none.
LEMMA FilledStays ==
    ASSUME LInv, NEW c \in Clients, NEW o \in OpType, op' = [op EXCEPT ![c] = o], o.at # "fill",
           disk' = disk, unlinked' = unlinked
    PROVE  Filled'
  BY DEF LInv, LocksTypeOK, OpType, Filled, Exists

\* A step of a command that changes one of its files leaves the others as they are.
LEMMA FilledChanges ==
    ASSUME LInv, NEW c \in Clients, NEW at \in Stages \ {"fill"}, GoesTo(c, at),
           \A d \in Clients : d # c /\ op[d].at = "fill" /\ d \notin unlinked' =>
                d \notin unlinked /\ (Exists(op[d].src) => disk'[op[d].src] # NoFile)
    PROVE  Filled'
  <1>1. op \in [Clients -> OpType]
    BY DEF LInv, LocksTypeOK, OpType
  <1>2. op'[c].at = at /\ \A d \in Clients \ {c} : op'[d] = op[d]
    BY <1>1 DEF GoesTo, OpType
  <1> QED
    BY <1>2 DEF LInv, Filled, Exists

\* Each step of a command keeps the invariant.
LEMMA ClientKeeps ==
    ASSUME LInv, NEW c \in Clients, ClientStep(c)
    PROVE  LInv'
  <1>1. /\ op \in [Clients -> OpType] /\ op[c] \in OpType /\ WaitsFor(op[c]) /\ WorksWith(op[c])
        /\ disk \in [Files -> {NoFile} \cup SUBSET Clients] /\ unlinked \subseteq Clients /\ ops \in 0..MaxOps
    BY DEF LInv, LocksTypeOK, OpType, Worked
  <1>2. ASSUME NEW at \in Stages
        PROVE  LET o == [op[c] EXCEPT !.at = at]
               IN  /\ o.at = at /\ o.held = op[c].held /\ o.src = op[c].src /\ o.dst = op[c].dst
                   /\ o.kind = op[c].kind
    BY <1>1 DEF OpType
  <1>3. ASSUME NEW k \in DOMAIN First, op[c].kind = k, Acquire(c, "first", First[k]) PROVE LInv'
    <2> DEFINE o == [op[c] EXCEPT !.at = First[k], !.held = @ \cup {op[c].want}]
    <2>1. /\ First[k] \in {"open", "remove", "look"} /\ (First[k] = "look" => k = "move")
          /\ First[k] \in Stages
      BY DEF First, Stages
    <2>2. op[c].at = "first" /\ o.at = First[k] /\ o.src \in o.held /\ o.kind = k
      BY <1>1, <1>3 DEF OpType, Acquire, WaitsFor
    <2>3. WorksWith(o)
      BY <2>1, <2>2 DEF WorksWith
    <2> QED
      BY <1>3, <2>1, <2>2, <2>3, AcquireKeeps
  <1>4. CASE Acquire(c, "second", "check")
    <2> DEFINE o == [op[c] EXCEPT !.at = "check", !.held = @ \cup {op[c].want}]
    <2>1. /\ op[c].at = "second" /\ o.src \in o.held /\ o.kind = "move"
          /\ o.dst \in o.held \/ Root \in o.held
      BY <1>1, <1>4 DEF OpType, Acquire, WaitsFor, WorksWith
    <2>2. WorksWith(o)
      BY <2>1 DEF WorksWith
    <2> QED
      BY <1>4, <2>1, <2>2, AcquireKeeps DEF Stages
  <1>5. CASE OpenFile(c)
    <2>1. WorksWith([op[c] EXCEPT !.at = "fill"])
      BY <1>1, <1>2, <1>5 DEF OpenFile, WorksWith, Stages
    <2>2. disk' \in [Files -> {NoFile} \cup SUBSET Clients] /\ unlinked' \subseteq Clients
      BY <1>1, <1>5 DEF OpenFile
    <2>3. Filled'
      <3>1. op[c].src \in Files
        BY <1>1, <1>5 DEF OpenFile, WaitsFor
      <3>2. {} # NoFile
        BY LocksAssumption
      <3>3. disk'[op[c].src] # NoFile /\ \A f \in Files \ {op[c].src} : disk'[f] = disk[f]
        BY <1>1, <1>5, <3>1, <3>2 DEF OpenFile, Exists
      <3>4. op'[c].src = op[c].src /\ \A d \in Clients \ {c} : op'[d] = op[d]
        BY <1>1, <1>5 DEF OpenFile, GoesTo, OpType
      <3>5. \A d \in Clients : op[d].at = "fill" => op[d].src \in Files
        BY DEF LInv, Worked, WaitsFor
      <3> QED
        BY <1>5, <3>3, <3>4, <3>5 DEF OpenFile, LInv, Filled, Exists
    <2> QED
      BY <1>1, <1>5, <2>1, <2>2, <2>3, GoesToKeeps DEF OpenFile, Stages
  <1>6. CASE FillFile(c)
    <2>1. WorksWith([op[c] EXCEPT !.at = "drop"])
      BY <1>2 DEF WorksWith, Stages
    <2>2. op[c].src \in Files /\ (c \notin unlinked => disk[op[c].src] \in SUBSET Clients)
      BY <1>1, <1>6 DEF FillFile, WaitsFor, LInv, Filled, Exists
    <2>3. disk' \in [Files -> {NoFile} \cup SUBSET Clients]
      BY <1>1, <1>6, <2>2 DEF FillFile
    <2>4. \A f \in Files : disk[f] # NoFile => disk'[f] # NoFile
      BY <1>1, <1>6, <2>2, LocksAssumption DEF FillFile
    <2>5. \A d \in Clients : op[d].at = "fill" => op[d].src \in Files
      BY DEF LInv, Worked, WaitsFor
    <2>6. Filled'
      BY <1>6, <2>4, <2>5, FilledChanges DEF FillFile, Exists, Stages
    <2> QED
      BY <1>1, <1>6, <2>1, <2>3, <2>6, GoesToKeeps DEF FillFile, Stages
  <1>7. CASE RemoveFile(c)
    <2>1. WorksWith([op[c] EXCEPT !.at = "drop"])
      BY <1>2 DEF WorksWith, Stages
    <2>2. \A d \in Clients : op[d].at = "fill" => op[d].src \in Files
      BY DEF LInv, Worked, WaitsFor
    <2>3. Filled'
      BY <1>1, <1>7, <2>2, FilledChanges DEF RemoveFile, Unlink, Exists, Stages
    <2> QED
      BY <1>1, <1>7, <2>1, <2>3, GoesToKeeps DEF RemoveFile, Unlink, Stages
  <1>8. CASE LookAtDestination(c)
    <2> DEFINE w == IF Exists(op[c].dst) THEN op[c].dst ELSE Root
               o == [op[c] EXCEPT !.at = "second", !.want = w]
    <2>1. o \in OpType /\ o.held = op[c].held
      BY <1>1 DEF OpType, Paths, Stages
    <2>2. WaitsFor(o) /\ WorksWith(o)
      BY <1>1, <1>8 DEF OpType, LookAtDestination, WaitsFor, WorksWith
    <2>3. op' = [op EXCEPT ![c] = o] /\ UNCHANGED <<disk, unlinked, locks, ops>>
      BY <1>1, <1>8 DEF LookAtDestination, diskVars
    <2>4. Filled'
      BY <1>1, <2>1, <2>3, FilledStays DEF OpType
    <2> HIDE DEF o
    <2> QED
      BY <1>1, <2>1, <2>2, <2>3, <2>4, CommandStep
  <1>9. CASE CheckDestination(c)
    <2> DEFINE to == IF ~Exists(op[c].dst) THEN "rename" ELSE IF op[c].over THEN "replace" ELSE "drop"
    <2>1. to \in {"rename", "replace", "drop"} /\ to \in Stages /\ GoesTo(c, to)
      BY <1>9 DEF CheckDestination, Stages
    <2>2. WorksWith([op[c] EXCEPT !.at = to])
      BY <1>1, <1>2, <1>9, <2>1 DEF CheckDestination, WorksWith
    <2> HIDE DEF to
    <2>3. Filled'
      BY <1>9, <2>1, FilledChanges DEF CheckDestination, diskVars, Exists
    <2> QED
      BY <1>1, <1>9, <2>1, <2>2, <2>3, GoesToKeeps DEF CheckDestination, diskVars
  <1>10. CASE ReplaceDestination(c)
    <2>1. WorksWith([op[c] EXCEPT !.at = "rename"])
      BY <1>1, <1>2, <1>10 DEF ReplaceDestination, WorksWith, Stages
    <2>2. \A d \in Clients : op[d].at = "fill" => op[d].src \in Files
      BY DEF LInv, Worked, WaitsFor
    <2>3. Filled'
      BY <1>1, <1>10, <2>2, FilledChanges DEF ReplaceDestination, Unlink, Exists, Stages
    <2> QED
      BY <1>1, <1>10, <2>1, <2>3, GoesToKeeps DEF ReplaceDestination, Unlink, Stages
  <1>11. CASE RenameSource(c)
    <2>1. WorksWith([op[c] EXCEPT !.at = "drop"])
      BY <1>2 DEF WorksWith, Stages
    <2>2. disk' \in [Files -> {NoFile} \cup SUBSET Clients]
      <3>1. op[c].src \in Files
        BY <1>1, <1>11 DEF RenameSource, WaitsFor
      <3> QED
        BY <1>1, <1>11, <3>1 DEF RenameSource
    <2>3. \A d \in Clients : op[d].at = "fill" => op[d].src \in Files /\ op[d].src \in op[d].held
      BY DEF LInv, Worked, WaitsFor, WorksWith
    <2>4. \A d \in Clients : d # c /\ op[d].at = "fill" => op[d].src # op[c].src
      BY <1>1, <1>11, <2>3 DEF RenameSource, WorksWith, LInv, GuardsAreLocks
    <2>5. Filled'
      BY <1>1, <1>11, <2>3, <2>4, FilledChanges DEF RenameSource, Unlink, Exists, Stages
    <2> QED
      BY <1>1, <1>11, <2>1, <2>2, <2>5, GoesToKeeps DEF RenameSource, Unlink, Stages
  <1>12. ASSUME NEW p \in Paths, Release(c, p) PROVE LInv'
    BY <1>12, ReleaseKeeps
  <1>13. CASE Return(c)
    <2>1. NoOp \in OpType /\ NoOp.held = {} /\ WaitsFor(NoOp) /\ WorksWith(NoOp)
      BY DEF NoOp, OpType, Paths, Stages, WaitsFor, WorksWith
    <2>2. NoOp.at # "fill"
      BY DEF NoOp
    <2>3. Filled'
      BY <1>13, <2>1, <2>2, FilledStays DEF Return, diskVars
    <2> QED
      BY <1>1, <1>13, <2>1, <2>3, CommandStep DEF Return, diskVars
  <1>14. CASE CallFails(c)
    <2>1. WorksWith([op[c] EXCEPT !.at = "drop"])
      BY <1>2 DEF WorksWith, Stages
    <2>2. Filled'
      BY <1>14, FilledChanges DEF CallFails, diskVars, Exists, Stages
    <2> QED
      BY <1>1, <1>14, <2>1, <2>2, GoesToKeeps DEF CallFails, diskVars, Stages
  <1> QED
    BY <1>3, <1>4, <1>5, <1>6, <1>7, <1>8, <1>9, <1>10, <1>11, <1>12, <1>13, <1>14 DEF ClientStep

LEMMA NextLInv == LInv /\ [LocksNext]_lockVars => LInv'
  <1> SUFFICES ASSUME LInv, [LocksNext]_lockVars PROVE LInv'
    OBVIOUS
  <1>1. CASE UNCHANGED lockVars
    BY <1>1 DEF lockVars, LInv, LocksTypeOK, GuardsAreLocks, Worked, WaitsFor, WorksWith, Filled, Exists
  <1>2. ASSUME NEW c \in Clients, NEW f \in Files, NEW k \in {"write", "append"},
               Begin(c, k, f, f, FALSE, "first")
        PROVE  LInv'
    BY <1>2, BeginKeeps
  <1>3. ASSUME NEW c \in Clients, NEW f \in Files, BeginRemove(c, f) PROVE LInv'
    BY <1>3, BeginKeeps DEF BeginRemove
  <1>4. ASSUME NEW c \in Clients, NEW f \in Files, NEW d \in Files, NEW over \in BOOLEAN,
               BeginMove(c, f, d, over)
        PROVE  LInv'
    BY <1>4, BeginKeeps DEF BeginMove
  <1>5. ASSUME NEW c \in Clients, ClientStep(c) PROVE LInv'
    BY <1>5, ClientKeeps
  <1> QED
    BY <1>1, <1>2, <1>3, <1>4, <1>5 DEF LocksNext

\* The invariant of every reachable state: who holds a guard has the lock, and who works on a
\* file holds the guards that the work needs.
THEOREM LockInvariant == LocksSpec => []LInv
  BY InitLInv, NextLInv, PTL DEF LocksSpec

\* The files, the table and the commands' records are well typed: no more than MaxOps
\* commands begin, and what is locked, waited for and held are paths.
THEOREM LocksTypeCorrect == LocksSpec => []LocksTypeOK
  <1>1. LInv => LocksTypeOK
    BY DEF LInv
  <1> QED
    BY LockInvariant, <1>1, PTL

\* A file whose lock a command holds is changed under it by no other command, but by a
\* move that found no file there and has the directory's lock.
THEOREM LockedFileStays == LocksSpec => LockedFileIsStable
  <1>1. ASSUME LInv, [LocksNext]_lockVars, NEW c \in Clients, NEW f \in Files,
               f \in op[c].held, op'[c] = op[c], disk'[f] # disk[f]
        PROVE  \E m \in Clients : op[m].kind = "move" /\ op[m].dst = f /\ Root \in op[m].held
    <2>1. /\ op \in [Clients -> OpType] /\ disk \in [Files -> {NoFile} \cup SUBSET Clients]
      BY <1>1 DEF LInv, LocksTypeOK, OpType
    <2>2. PICK m \in Clients : OpenFile(m) \/ FillFile(m) \/ RemoveFile(m) \/ ReplaceDestination(m) \/ RenameSource(m)
      BY <1>1 DEF LocksNext, lockVars, ClientStep, Begin, BeginRemove, BeginMove, Acquire, LookAtDestination,
                  CheckDestination, Release, Return, CallFails, diskVars
    <2>3. m # c
      <3>1. op'[m] # op[m]
        <4>1. op'[m].at # op[m].at
          BY <2>1, <2>2 DEF OpenFile, FillFile, RemoveFile, ReplaceDestination, RenameSource, GoesTo, OpType
        <4> QED
          BY <4>1
      <3> QED
        BY <1>1, <3>1
    <2>4. f \notin op[m].held
      BY <1>1, <2>3 DEF LInv, GuardsAreLocks
    <2>5. WorksWith(op[m])
      BY <1>1 DEF LInv, Worked
    <2>6. CASE OpenFile(m) \/ FillFile(m) \/ RemoveFile(m)
      <3>1. f = op[m].src
        BY <1>1, <2>1, <2>6 DEF OpenFile, FillFile, RemoveFile
      <3>2. op[m].src \in op[m].held
        BY <2>5, <2>6 DEF OpenFile, FillFile, RemoveFile, WorksWith
      <3> QED
        BY <2>4, <3>1, <3>2
    <2>7. CASE ReplaceDestination(m) \/ RenameSource(m)
      <3>1. f = op[m].dst \/ f = op[m].src
        BY <1>1, <2>1, <2>7 DEF ReplaceDestination, RenameSource
      <3>2. op[m].kind = "move" /\ op[m].src \in op[m].held /\ (op[m].dst \in op[m].held \/ Root \in op[m].held)
        BY <2>5, <2>7 DEF ReplaceDestination, RenameSource, WorksWith
      <3> QED
        BY <2>4, <3>1, <3>2
    <2> QED
      BY <2>2, <2>6, <2>7
  <1>2. LInv /\ [LocksNext]_lockVars =>
          [\A c \in Clients, f \in Files :
             f \in op[c].held /\ op'[c] = op[c] /\ disk'[f] # disk[f] =>
                \E m \in Clients : op[m].kind = "move" /\ op[m].dst = f /\ Root \in op[m].held]_lockVars
    BY <1>1
  <1> QED
    BY LockInvariant, <1>2, PTL DEF LocksSpec, LockedFileIsStable

-------------------------------------------------------------------------------
(* The connection to the relay.                                               *)

LoopPlaces == Awaiting \cup {"none", "restart", "clean", "ended", "clear", "gone"}

LinkTypes ==
    /\ LinkTypeOK
    /\ loop \in [Tasks -> [at : LoopPlaces, allow : BOOLEAN, link : Links \cup {NoOne}]]
    /\ used \in [changes : Nat, failures : Nat, moves : Nat]

\* The tasks that have begun and are not over.
Active == {t \in Tasks : loop[t].at \in Awaiting \cup {"restart", "clean", "ended"}}

\* What the calls know of the server, as long as the user has not moved to another one.
SameServer ==
    /\ known \in {NoOne, user.url}
    /\ known = NoOne => ~running
    /\ \A s \in Starters :
         /\ starter[s].at = "check" => starter[s].url = user.url
         /\ starter[s].at # "shut"

\* Of the tasks that are active and the calls that are about to spawn one there is one.
Alone ==
    /\ \A t, u \in Active : t = u
    /\ \A s, r \in Spawning : s = r
    /\ Active = {} \/ Spawning = {}

\* It is there when the flag is set, and tasks that were aborted are over.
Flagged ==
    /\ running <=> Active # {} \/ Spawning # {}
    /\ slot # NoOne => loop[slot].at # "none"
    /\ \A t \in aborted : loop[t].at \in {"clear", "gone"}

LinkInv == LinkTypes /\ (used.moves = 0 => SameServer /\ Alone /\ Flagged)

LEMMA InitLinkInv == LinkInit => LinkInv
  <1> SUFFICES ASSUME LinkInit PROVE LinkInv
    OBVIOUS
  <1> USE LinkAssumption
  <1>1. LinkTypes
    <2>1. loop \in [Tasks -> [at : LoopPlaces, allow : BOOLEAN, link : Links \cup {NoOne}]]
          /\ \A t \in Tasks : loop[t].at = "none"
      BY DEF LinkInit, NewTask, LoopPlaces
    <2>2. link \in [Links -> [up : BOOLEAN, heart : BOOLEAN, fresh : BOOLEAN]]
      BY DEF LinkInit
    <2>3. starter \in [Starters -> [at : StarterPlaces, url : Servers \cup {NoOne}]]
      BY DEF LinkInit, Idle, StarterPlaces
    <2>4. user \in [remote : BOOLEAN, token : BOOLEAN, url : Servers]
      BY DEF LinkInit
    <2> QED
      BY <2>1, <2>2, <2>3, <2>4 DEF LinkInit, LinkTypes, LinkTypeOK, LoopPlaces
  <1>2. Active = {} /\ Spawning = {}
    BY DEF LinkInit, Active, Spawning, NewTask, Idle, Awaiting
  <1>3. SameServer /\ Alone /\ Flagged
    BY <1>1, <1>2 DEF LinkInit, SameServer, Alone, Flagged, Idle
  <1> QED
    BY <1>1, <1>3 DEF LinkInv

\* What the user does leaves the tasks alone, and of the calls it makes none spawn.
LEMMA UserSteps ==
    ASSUME LinkInv,
           \/ \E s \in Starters : TokenRefreshed(s) \/ AllowRemote(s) \/ Login(s)
           \/ \E s \in Starters : StarterReadsToken(s) \/ StarterReadsSetting(s) \/ StarterReadsServer(s)
           \/ DenyRemote \/ DenyShutsDown \/ Logout \/ LogoutClearsToken
    PROVE  LinkInv'
  <1> USE LinkAssumption
  <1>1. LinkTypes'
    <2>1. (user \in [remote : BOOLEAN, token : BOOLEAN, url : Servers] /\ command \in {"none", "deny", "logout"})'
      <3>1. user \in [remote : BOOLEAN, token : BOOLEAN, url : Servers] /\ command \in {"none", "deny", "logout"}
        BY DEF LinkInv, LinkTypes, LinkTypeOK
      <3>2. \/ user' = user
            \/ \E b \in BOOLEAN : user' = [user EXCEPT !.remote = b] \/ user' = [user EXCEPT !.token = b]
        BY DEF TokenRefreshed, AllowRemote, Login,
           StarterReadsToken, StarterReadsSetting, StarterReadsServer, StarterGoes,
           DenyRemote, DenyShutsDown, Logout, LogoutClearsToken
      <3>3. command' \in {"none", "deny", "logout"}
        BY <3>1 DEF TokenRefreshed, AllowRemote, Login,
           StarterReadsToken, StarterReadsSetting, StarterReadsServer, StarterGoes,
           DenyRemote, DenyShutsDown, Logout, LogoutClearsToken
      <3> QED
        BY <3>1, <3>2, <3>3
    <2>2. (/\ known \in Servers \cup {NoOne} /\ running \in BOOLEAN /\ slot \in Tasks \cup {NoOne}
           /\ aborted \subseteq Tasks /\ sender \in Links \cup {NoOne})'
      BY DEF LinkInv, LinkTypes, LinkTypeOK, LoopPlaces, TokenRefreshed, AllowRemote, Login,
           StarterReadsToken, StarterReadsSetting, StarterReadsServer, StarterGoes,
           DenyRemote, DenyShutsDown, Logout, LogoutClearsToken, Call, Change, Shutdown, startVars, taskVars, Idle
    <2>3. (starter \in [Starters -> [at : StarterPlaces, url : Servers \cup {NoOne}]])'
      BY DEF LinkInv, LinkTypes, LinkTypeOK, LoopPlaces, TokenRefreshed, AllowRemote, Login,
           StarterReadsToken, StarterReadsSetting, StarterReadsServer, StarterGoes,
           DenyRemote, DenyShutsDown, Logout, LogoutClearsToken, Call, Change, Shutdown, startVars, taskVars, Idle,
           StarterPlaces
    <2>4. (loop \in [Tasks -> [at : LoopPlaces, allow : BOOLEAN, link : Links \cup {NoOne}]])'
      BY DEF LinkInv, LinkTypes, LinkTypeOK, LoopPlaces, TokenRefreshed, AllowRemote, Login,
           StarterReadsToken, StarterReadsSetting, StarterReadsServer, StarterGoes,
           DenyRemote, DenyShutsDown, Logout, LogoutClearsToken, Call, Change, Shutdown, startVars, taskVars, Idle
    <2>5. (link \in [Links -> [up : BOOLEAN, heart : BOOLEAN, fresh : BOOLEAN]])'
      BY DEF LinkInv, LinkTypes, LinkTypeOK, LoopPlaces, TokenRefreshed, AllowRemote, Login,
           StarterReadsToken, StarterReadsSetting, StarterReadsServer, StarterGoes,
           DenyRemote, DenyShutsDown, Logout, LogoutClearsToken, Call, Change, Shutdown, startVars, taskVars, Idle
    <2>6. (used \in [changes : Nat, failures : Nat, moves : Nat])'
      BY DEF LinkInv, LinkTypes, LinkTypeOK, LoopPlaces, TokenRefreshed, AllowRemote, Login,
           StarterReadsToken, StarterReadsSetting, StarterReadsServer, StarterGoes,
           DenyRemote, DenyShutsDown, Logout, LogoutClearsToken, Call, Change, Shutdown, startVars, taskVars, Idle
    <2> QED
      BY <2>1, <2>2, <2>3, <2>4, <2>5, <2>6 DEF LinkTypes, LinkTypeOK, LoopPlaces
  <1>2. loop' = loop /\ aborted' = aborted /\ running' = running /\ slot' = slot /\ known' = known
        /\ used'.moves = used.moves /\ user'.url = user.url
    BY DEF LinkInv, LinkTypes, LinkTypeOK, TokenRefreshed, AllowRemote, Login,
           StarterReadsToken, StarterReadsSetting, StarterReadsServer, StarterGoes,
           DenyRemote, DenyShutsDown, Logout, LogoutClearsToken, Call, Change, Shutdown, startVars, taskVars
  <1>3. \A s \in Starters : \/ starter'[s].at = starter[s].at /\ starter'[s].url = starter[s].url
                            \/ /\ starter[s].at \notin {"shut", "spawn"} /\ starter'[s].at \in {"idle", "read", "setting", "server"}
                            \/ /\ starter[s].at \notin {"shut", "spawn"}
                               /\ starter'[s].at = "check" /\ starter'[s].url = user'.url
    BY DEF LinkInv, LinkTypes, LinkTypeOK, TokenRefreshed, AllowRemote, Login,
           StarterReadsToken, StarterReadsSetting, StarterReadsServer, StarterGoes,
           DenyRemote, DenyShutsDown, Logout, LogoutClearsToken, Call, Change, Shutdown, startVars, taskVars, Idle
  <1>4. Active' = Active /\ Spawning' = Spawning
    BY <1>2, <1>3 DEF Active, Spawning
  <1> QED
    BY <1>1, <1>2, <1>3, <1>4 DEF LinkInv, SameServer, Alone, Flagged

LEMMA SelectStep == ASSUME LinkInv, NEW u \in Servers, SelectServer(u) PROVE LinkInv'
  <1>1. LinkTypes'
    <2>1. (user \in [remote : BOOLEAN, token : BOOLEAN, url : Servers] /\ command \in {"none", "deny", "logout"})'
      BY DEF LinkInv, LinkTypes, LinkTypeOK, SelectServer, startVars, taskVars
    <2>2. (/\ known \in Servers \cup {NoOne} /\ running \in BOOLEAN /\ slot \in Tasks \cup {NoOne}
           /\ aborted \subseteq Tasks /\ sender \in Links \cup {NoOne})'
      BY DEF LinkInv, LinkTypes, LinkTypeOK, SelectServer, startVars, taskVars
    <2>3. (starter \in [Starters -> [at : StarterPlaces, url : Servers \cup {NoOne}]])'
      BY DEF LinkInv, LinkTypes, LinkTypeOK, SelectServer, startVars, taskVars
    <2>4. (loop \in [Tasks -> [at : LoopPlaces, allow : BOOLEAN, link : Links \cup {NoOne}]])'
      BY DEF LinkInv, LinkTypes, LinkTypeOK, SelectServer, startVars, taskVars
    <2>5. (link \in [Links -> [up : BOOLEAN, heart : BOOLEAN, fresh : BOOLEAN]])'
      BY DEF LinkInv, LinkTypes, LinkTypeOK, SelectServer, startVars, taskVars
    <2>6. (used \in [changes : Nat, failures : Nat, moves : Nat])'
      <3>1. used \in [changes : Nat, failures : Nat, moves : Nat]
        BY DEF LinkInv, LinkTypes
      <3>2. used' = [used EXCEPT !.changes = @ + 1, !.moves = @ + 1]
        BY DEF SelectServer
      <3>3. used' = [changes |-> used.changes + 1, failures |-> used.failures, moves |-> used.moves + 1]
        BY <3>1, <3>2
      <3> QED
        BY <3>1, <3>3
    <2> QED
      BY <2>1, <2>2, <2>3, <2>4, <2>5, <2>6 DEF LinkTypes, LinkTypeOK, LoopPlaces
  <1>2. used'.moves # 0
    BY DEF LinkInv, LinkTypes, SelectServer
  <1> QED
    BY <1>1, <1>2 DEF LinkInv

LEMMA CheckStep == ASSUME LinkInv, NEW s \in Starters, StarterChecks(s) PROVE LinkInv'
  <1> USE LinkAssumption
  <1>1. LinkTypes'
    BY DEF LinkInv, LinkTypes, LinkTypeOK, StarterChecks, StarterPlaces, taskVars, Idle
  <1>2. SUFFICES ASSUME used.moves = 0 PROVE (SameServer /\ Alone /\ Flagged)'
    BY <1>1 DEF LinkInv, StarterChecks
  <1>3. SameServer /\ Alone /\ Flagged
    BY <1>2 DEF LinkInv
  <1>4. Active' = Active
    BY DEF Active, StarterChecks, taskVars
  <1>5. SameServer'
    BY <1>3 DEF LinkInv, LinkTypes, LinkTypeOK, SameServer, StarterChecks, taskVars, Idle
  <1>6. CASE running
    <2>1. Spawning' = Spawning
      BY <1>3, <1>6 DEF LinkInv, LinkTypes, LinkTypeOK, SameServer, Spawning, StarterChecks, taskVars, Idle
    <2> QED
      BY <1>3, <1>4, <1>5, <1>6, <2>1 DEF Alone, Flagged, StarterChecks, taskVars
  <1>7. CASE ~running
    <2>1. Spawning' = {s}
      BY <1>3, <1>7 DEF LinkInv, LinkTypes, LinkTypeOK, Flagged, Spawning, StarterChecks, taskVars, Idle
    <2> QED
      BY <1>3, <1>4, <1>5, <1>7, <2>1 DEF Alone, Flagged, StarterChecks, taskVars
  <1> QED
    BY <1>6, <1>7

LEMMA ShutStep == ASSUME LinkInv, NEW s \in Starters, StarterShutsDown(s) PROVE LinkInv'
  <1> USE LinkAssumption
  <1>1. LinkTypes'
    BY DEF LinkInv, LinkTypes, LinkTypeOK, StarterShutsDown, StarterPlaces, Shutdown, taskVars
  <1>2. used'.moves = used.moves /\ used.moves # 0
    BY DEF LinkInv, SameServer, StarterShutsDown
  <1> QED
    BY <1>1, <1>2 DEF LinkInv

\* Nothing but the call is under way when it spawns: what was there before is over.
LEMMA SpawnStep ==
    ASSUME LinkInv, NEW s \in Starters, NEW t \in Tasks, StarterSpawns(s, t)
    PROVE  LinkInv'
  <1> USE LinkAssumption
  <1>1. LinkTypes'
    BY DEF LinkInv, LinkTypes, LinkTypeOK, StarterSpawns, StarterPlaces, Idle, LoopPlaces, Awaiting
  <1>2. SUFFICES ASSUME used.moves = 0 PROVE (SameServer /\ Alone /\ Flagged)'
    BY <1>1 DEF LinkInv, StarterSpawns
  <1>3. SameServer /\ Alone /\ Flagged
    BY <1>2 DEF LinkInv
  <1>4. Spawning = {s} /\ Active = {} /\ running
    BY <1>3 DEF Alone, Flagged, Spawning, StarterSpawns
  <1>5. Spawning' = {}
    BY <1>4 DEF LinkInv, LinkTypes, LinkTypeOK, Spawning, StarterSpawns, Idle
  <1>6. \A u \in Tasks : loop'[u].at = IF u = t THEN "restart" ELSE loop[u].at
    BY <1>4 DEF LinkInv, LinkTypes, StarterSpawns, Active, Awaiting
  <1>7. Active' = {t}
    BY <1>4, <1>6 DEF Active, Awaiting
  <1>8. SameServer'
    BY <1>3 DEF LinkInv, LinkTypes, LinkTypeOK, SameServer, StarterSpawns, Idle
  <1>9. slot # NoOne => loop[slot].at \in {"clear", "gone"}
    BY <1>3, <1>4 DEF LinkInv, LinkTypes, LinkTypeOK, Flagged, Active, LoopPlaces, Awaiting
  <1>10. \A u \in aborted' : loop'[u].at \in {"clear", "gone"}
    BY <1>3, <1>6, <1>9 DEF LinkInv, LinkTypes, LinkTypeOK, Flagged, StarterSpawns
  <1>11. loop'[t].at # "none" /\ slot' = t /\ running' = running
    BY <1>6 DEF StarterSpawns
  <1>12. Alone'
    BY <1>5, <1>7 DEF Alone
  <1>13. Flagged'
    BY <1>4, <1>7, <1>10, <1>11 DEF Flagged
  <1> QED
    BY <1>8, <1>12, <1>13

\* A task goes on, without a word to the calls.
LEMMA TaskGoes ==
    ASSUME LinkInv, NEW t \in Tasks, NEW place \in LoopPlaces \ {"none"},
           LinkTypes', UNCHANGED <<starter, known, aborted>>, slot' \in {slot, NoOne},
           user' = user, used'.moves = used.moves,
           loop[t].at # "none",
           \A u \in Tasks : loop'[u].at = IF u = t THEN place ELSE loop[u].at,
           \/ /\ running' = running /\ loop[t].at \in Awaiting \cup {"restart", "clean"}
              /\ \/ place \in Awaiting \cup {"restart", "clean", "ended"}
                 \/ place = "gone" /\ t \in aborted
           \/ running' = FALSE /\ loop[t].at = "ended" /\ place = "clear"
           \/ running' = running /\ loop[t].at = "clear" /\ place = "gone"
    PROVE  LinkInv'
  <1> USE LinkAssumption
  <1>2. SUFFICES ASSUME used.moves = 0 PROVE (SameServer /\ Alone /\ Flagged)'
    BY DEF LinkInv
  <1>3. SameServer /\ Alone /\ Flagged
    BY <1>2 DEF LinkInv
  <1>4. t \in aborted => loop[t].at = "clear" \/ loop[t].at = "gone"
    BY <1>3 DEF Flagged
  <1>5. SameServer'
    BY <1>3 DEF SameServer, LinkInv, LinkTypes, LinkTypeOK
  <1>6. Spawning' = Spawning
    BY DEF Spawning
  <1>7. \A u \in aborted' : loop'[u].at \in {"clear", "gone"}
    BY <1>3, <1>4 DEF Flagged, LinkInv, LinkTypes, LinkTypeOK, Awaiting
  <1>8. slot' # NoOne => loop'[slot'].at # "none"
    BY <1>3 DEF Flagged, LinkInv, LinkTypes, LinkTypeOK
  <1>9. CASE loop[t].at \in Awaiting \cup {"restart", "clean"}
    <2>1. Active = {t} /\ Spawning = {} /\ running
      BY <1>3, <1>9 DEF Alone, Flagged, Active
    <2>2. Active' = {t}
      BY <1>4, <1>9, <2>1 DEF Active, Awaiting
    <2> QED
      BY <1>5, <1>6, <1>7, <1>8, <1>9, <2>1, <2>2 DEF Alone, Flagged, Awaiting
  <1>10. CASE loop[t].at = "ended" /\ place = "clear" /\ running' = FALSE
    <2>1. Active = {t} /\ Spawning = {}
      BY <1>3, <1>10 DEF Alone, Active
    <2>2. Active' = {}
      BY <1>10, <2>1 DEF Active, Awaiting
    <2> QED
      BY <1>5, <1>6, <1>7, <1>8, <1>10, <2>1, <2>2 DEF Alone, Flagged
  <1>11. CASE loop[t].at = "clear" /\ place = "gone" /\ running' = running
    <2>1. Active' = Active
      BY <1>11 DEF Active, Awaiting
    <2> QED
      BY <1>3, <1>5, <1>6, <1>7, <1>8, <1>11, <2>1 DEF Alone, Flagged
  <1> QED
    BY <1>9, <1>10, <1>11

LEMMA TaskSteps ==
    ASSUME LinkInv, NEW t \in Tasks,
           \/ TaskRestarts(t) \/ TaskLoops(t) \/ TaskReads(t) \/ TaskGivesUp(t) \/ TaskFails(t)
           \/ TaskRefused(t) \/ TaskCleans(t) \/ TaskResumes(t) \/ TaskEnds(t) \/ TaskClears(t)
           \/ \E l \in Links : TaskConnects(t, l)
    PROVE  LinkInv'
  <1> USE LinkAssumption
  <1> DEFINE place == loop'[t].at
  <1>1. LinkTypes'
    <2>1. (user \in [remote : BOOLEAN, token : BOOLEAN, url : Servers] /\ command \in {"none", "deny", "logout"})'
      BY DEF LinkInv, LinkTypes, LinkTypeOK, LoopPlaces, Awaiting, Goes, Shutdown, Fail, startVars, taskVars, TaskRestarts,
           TaskLoops, TaskReads, TaskGivesUp, TaskFails, TaskRefused, TaskCleans, TaskResumes, TaskEnds, TaskClears,
           TaskConnects
    <2>2. (/\ known \in Servers \cup {NoOne} /\ running \in BOOLEAN /\ slot \in Tasks \cup {NoOne}
           /\ aborted \subseteq Tasks /\ sender \in Links \cup {NoOne})'
      BY DEF LinkInv, LinkTypes, LinkTypeOK, LoopPlaces, Awaiting, Goes, Shutdown, Fail, startVars, taskVars, TaskRestarts,
           TaskLoops, TaskReads, TaskGivesUp, TaskFails, TaskRefused, TaskCleans, TaskResumes, TaskEnds, TaskClears,
           TaskConnects
    <2>3. (starter \in [Starters -> [at : StarterPlaces, url : Servers \cup {NoOne}]])'
      BY DEF LinkInv, LinkTypes, LinkTypeOK, LoopPlaces, Awaiting, Goes, Shutdown, Fail, startVars, taskVars, TaskRestarts,
           TaskLoops, TaskReads, TaskGivesUp, TaskFails, TaskRefused, TaskCleans, TaskResumes, TaskEnds, TaskClears,
           TaskConnects
    <2>4. (loop \in [Tasks -> [at : LoopPlaces, allow : BOOLEAN, link : Links \cup {NoOne}]])'
      <3>1. loop \in [Tasks -> [at : LoopPlaces, allow : BOOLEAN, link : Links \cup {NoOne}]] /\ user.remote \in BOOLEAN
        BY DEF LinkInv, LinkTypes, LinkTypeOK
      <3>2. \/ \E p \in LoopPlaces : loop' = [loop EXCEPT ![t].at = p]
            \/ loop' = [loop EXCEPT ![t].at = "connect", ![t].allow = user.remote]
            \/ \E l \in Links : loop' = [loop EXCEPT ![t].at = "live", ![t].link = l]
        BY DEF LoopPlaces, Awaiting, Goes, TaskRestarts, TaskLoops, TaskReads, TaskGivesUp, TaskFails, TaskRefused,
               TaskCleans, TaskResumes, TaskEnds, TaskClears, TaskConnects
      <3>3. {"connect", "live"} \subseteq LoopPlaces
        BY DEF LoopPlaces, Awaiting
      <3> QED
        BY <3>1, <3>2, <3>3
    <2>5. (link \in [Links -> [up : BOOLEAN, heart : BOOLEAN, fresh : BOOLEAN]])'
      <3>1. link \in [Links -> [up : BOOLEAN, heart : BOOLEAN, fresh : BOOLEAN]]
        BY DEF LinkInv, LinkTypes, LinkTypeOK
      <3>2. \/ link' = link
            \/ \E l \in Links : link' = [link EXCEPT ![l] = [up |-> TRUE, heart |-> TRUE, fresh |-> FALSE]]
        BY DEF TaskRestarts, TaskLoops, TaskReads, TaskGivesUp, TaskFails, TaskRefused,
               TaskCleans, TaskResumes, TaskEnds, TaskClears, TaskConnects
      <3>3. [up |-> TRUE, heart |-> TRUE, fresh |-> FALSE] \in [up : BOOLEAN, heart : BOOLEAN, fresh : BOOLEAN]
        OBVIOUS
      <3> QED
        BY <3>1, <3>2, <3>3
    <2>6. (used \in [changes : Nat, failures : Nat, moves : Nat])'
      BY DEF LinkInv, LinkTypes, LinkTypeOK, LoopPlaces, Awaiting, Goes, Shutdown, Fail, startVars, taskVars, TaskRestarts,
           TaskLoops, TaskReads, TaskGivesUp, TaskFails, TaskRefused, TaskCleans, TaskResumes, TaskEnds, TaskClears,
           TaskConnects
    <2> QED
      BY <2>1, <2>2, <2>3, <2>4, <2>5, <2>6 DEF LinkTypes, LinkTypeOK, LoopPlaces
  <1>2. place \in LoopPlaces \ {"none"} /\ loop[t].at # "none"
        /\ \A u \in Tasks : loop'[u].at = IF u = t THEN place ELSE loop[u].at
    BY DEF LinkInv, LinkTypes, LinkTypeOK, LoopPlaces, Awaiting, Goes, TaskRestarts,
           TaskLoops, TaskReads, TaskGivesUp, TaskFails, TaskRefused, TaskCleans, TaskResumes, TaskEnds, TaskClears,
           TaskConnects
  <1>3. UNCHANGED <<starter, known, aborted>> /\ slot' \in {slot, NoOne} /\ user' = user
        /\ used'.moves = used.moves
    BY DEF LinkInv, LinkTypes, Fail, startVars, TaskRestarts,
           TaskLoops, TaskReads, TaskGivesUp, TaskFails, TaskRefused, TaskCleans, TaskResumes, TaskEnds, TaskClears,
           TaskConnects
  <1>4. \/ /\ running' = running /\ loop[t].at \in Awaiting \cup {"restart", "clean"}
           /\ \/ place \in Awaiting \cup {"restart", "clean", "ended"}
              \/ place = "gone" /\ t \in aborted
        \/ running' = FALSE /\ loop[t].at = "ended" /\ place = "clear"
        \/ running' = running /\ loop[t].at = "clear" /\ place = "gone"
    BY DEF LinkInv, LinkTypes, LinkTypeOK, LoopPlaces, Awaiting, Goes, startVars, TaskRestarts,
           TaskLoops, TaskReads, TaskGivesUp, TaskFails, TaskRefused, TaskCleans, TaskResumes, TaskEnds, TaskClears,
           TaskConnects
  <1> HIDE DEF place
  <1> QED
    BY <1>1, <1>2, <1>3, <1>4, TaskGoes

\* The connection wakes the task that waits for it, if there is one.
LEMMA WakeSteps == ASSUME LinkInv, NEW l \in Links, HeartStops(l) \/ LinkBreaks(l) PROVE LinkInv'
  <1> USE LinkAssumption
  <1>1. LinkTypes'
    <2>1. (user \in [remote : BOOLEAN, token : BOOLEAN, url : Servers] /\ command \in {"none", "deny", "logout"})'
      BY DEF LinkInv, LinkTypes, LinkTypeOK, LoopPlaces, Awaiting, WokenBy, Fail, startVars, HeartStops, LinkBreaks
    <2>2. (/\ known \in Servers \cup {NoOne} /\ running \in BOOLEAN /\ slot \in Tasks \cup {NoOne}
           /\ aborted \subseteq Tasks /\ sender \in Links \cup {NoOne})'
      BY DEF LinkInv, LinkTypes, LinkTypeOK, LoopPlaces, Awaiting, WokenBy, Fail, startVars, HeartStops, LinkBreaks
    <2>3. (starter \in [Starters -> [at : StarterPlaces, url : Servers \cup {NoOne}]])'
      BY DEF LinkInv, LinkTypes, LinkTypeOK, LoopPlaces, Awaiting, WokenBy, Fail, startVars, HeartStops, LinkBreaks
    <2>4. (loop \in [Tasks -> [at : LoopPlaces, allow : BOOLEAN, link : Links \cup {NoOne}]])'
      <3>1. loop \in [Tasks -> [at : LoopPlaces, allow : BOOLEAN, link : Links \cup {NoOne}]] /\ "clean" \in LoopPlaces
        BY DEF LinkInv, LinkTypes, LoopPlaces
      <3>2. loop' = [t \in Tasks |-> IF loop[t].at = "live" /\ loop[t].link = l
                                    THEN [loop[t] EXCEPT !.at = "clean"] ELSE loop[t]]
        BY DEF HeartStops, LinkBreaks, WokenBy
      <3> QED
        BY <3>1, <3>2
    <2>5. (link \in [Links -> [up : BOOLEAN, heart : BOOLEAN, fresh : BOOLEAN]])'
      <3>1. link \in [Links -> [up : BOOLEAN, heart : BOOLEAN, fresh : BOOLEAN]]
        BY DEF LinkInv, LinkTypes, LinkTypeOK
      <3>2. link[l] \in [up : BOOLEAN, heart : BOOLEAN, fresh : BOOLEAN]
        BY <3>1
      <3>3. CASE HeartStops(l)
        BY <3>1, <3>3 DEF HeartStops
      <3>4. CASE LinkBreaks(l)
        <4>1. link' = [link EXCEPT ![l].up = FALSE, ![l].heart = FALSE]
          BY <3>4 DEF LinkBreaks
        <4>2. link'[l] = [link[l] EXCEPT !.up = FALSE, !.heart = FALSE]
          BY <3>1, <4>1
        <4>3. link'[l] = [up |-> FALSE, heart |-> FALSE, fresh |-> link[l].fresh]
          BY <3>2, <4>2
        <4>4. link'[l] \in [up : BOOLEAN, heart : BOOLEAN, fresh : BOOLEAN]
          BY <3>2, <4>3
        <4>5. \A x \in Links : x # l => link'[x] = link[x]
          BY <3>1, <4>1
        <4>6. link' = [x \in Links |-> link'[x]]
          BY <3>1, <4>1
        <4> QED
          BY <3>1, <4>4, <4>5, <4>6
      <3> QED
        BY <3>3, <3>4
    <2>6. (used \in [changes : Nat, failures : Nat, moves : Nat])'
      BY DEF LinkInv, LinkTypes, LinkTypeOK, LoopPlaces, Awaiting, WokenBy, Fail, startVars, HeartStops, LinkBreaks
    <2> QED
      BY <2>1, <2>2, <2>3, <2>4, <2>5, <2>6 DEF LinkTypes, LinkTypeOK, LoopPlaces
  <1>2. UNCHANGED <<starter, known, aborted, slot, user, running>> /\ used'.moves = used.moves
    BY DEF LinkInv, LinkTypes, Fail, startVars, HeartStops, LinkBreaks
  <1>3. \A t \in Tasks : \/ loop'[t].at = loop[t].at
                         \/ loop[t].at = "live" /\ loop'[t].at = "clean"
    BY DEF LinkInv, LinkTypes, WokenBy, HeartStops, LinkBreaks
  <1>4. Active' = Active /\ Spawning' = Spawning
    BY <1>2, <1>3 DEF Active, Spawning, Awaiting
  <1> QED
    BY <1>1, <1>2, <1>3, <1>4 DEF LinkInv, LinkTypes, LinkTypeOK, SameServer, Alone, Flagged

LEMMA NextLinkInv == LinkInv /\ [LinkNext]_linkVars => LinkInv'
  <1> SUFFICES ASSUME LinkInv, [LinkNext]_linkVars PROVE LinkInv'
    OBVIOUS
  <1>1. CASE UNCHANGED linkVars
    BY <1>1 DEF linkVars, LinkInv, LinkTypes, LinkTypeOK, SameServer, Alone, Flagged, Active, Spawning
  <1>2. CASE LinkNext
    BY <1>2, UserSteps, SelectStep, CheckStep, ShutStep, SpawnStep, TaskSteps, WakeSteps DEF LinkNext
  <1> QED
    BY <1>1, <1>2

\* The invariant of the connection's life: the types, and, as long as the user has not moved
\* to another server, that the address which the calls compare is the user's, that of the
\* active tasks and the calls about to spawn one there is one, and that the flag says so.
THEOREM LinkInvariant == LinkSpec => []LinkInv
  <1> QED
    BY InitLinkInv, NextLinkInv, PTL DEF LinkSpec

\* Settings, tasks, calls and connections are well typed, whatever is aborted where.
THEOREM LinkTypeCorrect == LinkSpec => []LinkTypeOK
  <1>1. LinkInv => LinkTypeOK
    BY DEF LinkInv, LinkTypes
  <1> QED
    BY <1>1, LinkInvariant, PTL

LEMMA AtMostOne ==
    ASSUME NEW S, \A x, y \in S : x = y
    PROVE  Cardinality(S) = IF S = {} THEN 0 ELSE 1
  <1>1. CASE S = {}
    BY <1>1, FS_EmptySet
  <1>2. ASSUME NEW x \in S PROVE Cardinality(S) = 1
    <2>1. S = {x}
      OBVIOUS
    <2> QED
      BY <2>1, FS_Singleton
  <1> QED
    BY <1>1, <1>2

\* For any tasks, calls, connections, settings, logins and failures: as long as the server
\* stays the same no two reconnection loops run, and DEVICE_LINK_RUNNING is never left set
\* without a task that will clear it.
THEOREM OneLoopOnly == LinkSpec => []OneLoop
  <1>1. ASSUME LinkInv PROVE OneLoop
    <2> SUFFICES ASSUME used.moves = 0 PROVE OneLoop
      BY DEF OneLoop
    <2>1. Alone /\ Flagged
      BY <1>1 DEF LinkInv
    <2>2. Looping \subseteq Active
      BY DEF Looping, Active
    <2>3. Looping # {} \/ (\E t \in Tasks : loop[t].at = "ended") <=> Active # {}
      BY <1>1, <2>1 DEF LinkInv, LinkTypes, LinkTypeOK, Flagged, Looping, Active, Awaiting
    <2>4. Cardinality(Looping) + Cardinality(Spawning) <= 1
      <3>1. Cardinality(Looping) = IF Looping = {} THEN 0 ELSE 1
        BY <2>1, <2>2, AtMostOne DEF Alone
      <3>2. Cardinality(Spawning) = IF Spawning = {} THEN 0 ELSE 1
        BY <2>1, AtMostOne DEF Alone
      <3> QED
        BY <2>1, <2>2, <3>1, <3>2 DEF Alone
    <2> QED
      BY <2>1, <2>3, <2>4 DEF OneLoop, Flagged
  <1> QED
    BY <1>1, LinkInvariant, PTL

-------------------------------------------------------------------------------
(* The output's way to the phone.                                             *)

BindPlaces == {"idle", "binding", "bound", "trimmed", "pending", "drop", "unmark", "snapshot", "flush", "send", "clear",
           "unbinding", "leave", "leaving", "empty", "emptied"}

Hands ==
    [at : {"idle", "connected", "binding", "bound", "channel", "send", "keep", "mark"}, channel : 0..MaxLinks]
Binds == [at : BindPlaces, snapshot : BOOLEAN, force : BOOLEAN, hold : Seq(Nat)]

OutputTypes ==
    /\ start \in [Connections -> StartPlaces] /\ open \subseteq Connections /\ receiving \subseteq Connections
    /\ shut \in [Closers -> ShutPlaces]
    /\ out \in [sender : BOOLEAN, binary : 0..MaxLinks]
    /\ set \in [bound : BOOLEAN, binding : BOOLEAN, trimmed : BOOLEAN]
    /\ taken \in 0..MaxChunks
    /\ output \in Hands
    /\ bind \in [Connections -> Binds]
    /\ pending \in Seq(Nat) /\ sent \in Seq(Nat)

\* The chunks that are spoken of are chunks that were handed over, and what is kept fits.
OnlyTaken ==
    /\ ToSet(pending) \subseteq 1..taken /\ ToSet(sent) \subseteq 1..taken
    /\ cut \subseteq 1..taken /\ gone \subseteq 1..taken
    /\ Len(pending) <= PendingCap
    /\ \A l \in Connections : ToSet(bind[l].hold) \subseteq 1..taken /\ Len(bind[l].hold) <= PendingCap

\* Only a flush holds chunks, and holds them as long as it sends; the task that takes the
\* output has one to give.
InHand ==
    /\ \A l \in Connections : bind[l].at = "send" <=> bind[l].hold # <<>>
    /\ output.at # "idle" => taken > 0

\* Each chunk but one that is still asked about is somewhere.
Accounted ==
    \A n \in 1..taken :
        \/ n \in ToSet(sent) \cup ToSet(pending) \cup Held \cup cut \cup gone
        \/ n = taken /\ output.at \notin {"idle", "mark"}

OutputInv == OutputTypes /\ OnlyTaken /\ InHand /\ Accounted

\* A step that leaves the flushes what they hold.
HoldsKept ==
    \A l \in Connections : bind'[l].hold = bind[l].hold /\ (bind'[l].at = "send" <=> bind[l].at = "send")

LEMMA SetOfAppend ==
    ASSUME NEW S, NEW s \in Seq(S), NEW e \in S
    PROVE  Append(s, e) \in Seq(S) /\ ToSet(Append(s, e)) = ToSet(s) \cup {e}
  <1>1. Append(s, e) \in Seq(S) /\ Len(Append(s, e)) = Len(s) + 1 /\ Append(s, e)[Len(s) + 1] = e
        /\ \A i \in 1..Len(s) : Append(s, e)[i] = s[i]
    BY AppendProperties
  <1>2. DOMAIN s = 1..Len(s) /\ DOMAIN Append(s, e) = 1..Len(s) + 1 /\ Len(s) \in Nat
    BY <1>1, LenProperties
  <1> QED
    BY <1>1, <1>2 DEF ToSet

LEMMA SetOfConcat ==
    ASSUME NEW S, NEW s \in Seq(S), NEW r \in Seq(S)
    PROVE  s \o r \in Seq(S) /\ ToSet(s \o r) = ToSet(s) \cup ToSet(r)
  <1>1. s \o r \in Seq(S) /\ Len(s \o r) = Len(s) + Len(r)
        /\ \A i \in 1..Len(s) + Len(r) : (s \o r)[i] = IF i <= Len(s) THEN s[i] ELSE r[i - Len(s)]
    BY ConcatProperties
  <1>2. DOMAIN s = 1..Len(s) /\ DOMAIN r = 1..Len(r) /\ DOMAIN (s \o r) = 1..Len(s) + Len(r)
        /\ Len(s) \in Nat /\ Len(r) \in Nat
    BY <1>1, LenProperties
  <1>3. ToSet(s \o r) \subseteq ToSet(s) \cup ToSet(r)
    BY <1>1, <1>2 DEF ToSet
  <1>4. ToSet(s) \subseteq ToSet(s \o r)
    BY <1>1, <1>2 DEF ToSet
  <1>5. ToSet(r) \subseteq ToSet(s \o r)
    <2> SUFFICES ASSUME NEW i \in 1..Len(r) PROVE r[i] \in ToSet(s \o r)
      BY <1>2 DEF ToSet
    <2>1. Len(s) + i \in 1..Len(s) + Len(r) /\ (s \o r)[Len(s) + i] = r[i]
      BY <1>1, <1>2
    <2> QED
      BY <1>2, <2>1 DEF ToSet
  <1> QED
    BY <1>1, <1>3, <1>4, <1>5

LEMMA SetOfEmpty == ToSet(<<>>) = {}
  BY DEF ToSet

LEMMA SetOfTail ==
    ASSUME NEW s \in Seq(Nat), s # <<>>
    PROVE  /\ Tail(s) \in Seq(Nat) /\ Head(s) \in Nat /\ ToSet(s) = {Head(s)} \cup ToSet(Tail(s))
           /\ Len(Tail(s)) = Len(s) - 1 /\ Len(s) \in Nat
           /\ (Len(s) # 1 <=> Tail(s) # <<>>)
  <1>1. /\ Head(s) \in Nat /\ Tail(s) \in Seq(Nat) /\ Len(Tail(s)) = Len(s) - 1
        /\ Head(s) = s[1] /\ \A i \in 1..Len(Tail(s)) : Tail(s)[i] = s[i + 1]
    BY HeadTailProperties
  <1>2. Len(s) \in Nat /\ Len(s) # 0 /\ DOMAIN s = 1..Len(s) /\ DOMAIN Tail(s) = 1..(Len(s) - 1)
    <2>1. Len(s) \in Nat /\ DOMAIN s = 1..Len(s)
      BY LenProperties
    <2>2. DOMAIN Tail(s) = 1..Len(Tail(s))
      BY <1>1, LenProperties
    <2>3. Len(s) # 0
      BY EmptySeq
    <2> QED
      BY <1>1, <2>1, <2>2, <2>3
  <1>3. ToSet(s) \subseteq {Head(s)} \cup ToSet(Tail(s))
    <2> SUFFICES ASSUME NEW i \in 1..Len(s), i # 1 PROVE s[i] \in ToSet(Tail(s))
      BY <1>1, <1>2 DEF ToSet
    <2>1. i - 1 \in 1..(Len(s) - 1) /\ Tail(s)[i - 1] = s[i]
      BY <1>1, <1>2
    <2> QED
      BY <1>2, <2>1 DEF ToSet
  <1>4. {Head(s)} \cup ToSet(Tail(s)) \subseteq ToSet(s)
    BY <1>1, <1>2 DEF ToSet
  <1>5. Len(s) # 1 <=> Tail(s) # <<>>
    <2>1. Tail(s) # <<>> => Len(Tail(s)) # 0
      BY <1>1, EmptySeq
    <2>2. Tail(s) = <<>> => Len(Tail(s)) = 0
      BY EmptySeq
    <2> QED
      BY <1>1, <1>2, <2>1, <2>2
  <1> QED
    BY <1>1, <1>2, <1>3, <1>4, <1>5

LEMMA CappedKeeps ==
    ASSUME NEW s \in Seq(Nat)
    PROVE  Capped(s) \in Seq(Nat) /\ Len(Capped(s)) <= PendingCap /\ ToSet(Capped(s)) \subseteq ToSet(s)
  <1> USE OutputAssumption
  <1>1. Len(s) \in Nat /\ DOMAIN s = 1..Len(s)
    BY LenProperties
  <1>2. CASE Len(s) <= PendingCap
    BY <1>1, <1>2 DEF Capped
  <1>3. CASE Len(s) > PendingCap
    <2> DEFINE first == Len(s) - PendingCap + 1
               r == SubSeq(s, first, Len(s))
    <2>1. first \in 1..Len(s) + 1 /\ Len(s) \in 0..Len(s)
      BY <1>1, <1>3
    <2>2. r \in Seq(Nat) /\ Len(r) = PendingCap /\ \A i \in 1..PendingCap : r[i] = s[first + i - 1]
      BY <1>1, <1>3, <2>1, SubSeqProperties
    <2>3. DOMAIN r = 1..PendingCap
      BY <2>2, LenProperties
    <2>4. ToSet(r) \subseteq ToSet(s)
      BY <1>1, <1>3, <2>2, <2>3 DEF ToSet
    <2> QED
      BY <1>1, <1>3, <2>2, <2>4 DEF Capped
  <1> QED
    BY <1>1, <1>2, <1>3

LEMMA SnapshotHas ==
    ASSUME taken \in Nat
    PROVE  Snapshot \in Seq(Nat) /\ ToSet(Snapshot) = {n \in 1..taken : InSnapshot(n)}
  <1> USE OutputAssumption
  <1> DEFINE older == IF taken > SnapshotCap THEN taken - SnapshotCap ELSE 0
  <1>1. older \in 0..taken /\ taken - older \in Nat
    OBVIOUS
  <1>2. Snapshot = [i \in 1..(taken - older) |-> older + i]
    BY DEF Snapshot
  <1>3. \A i \in 1..(taken - older) : older + i \in Nat
    BY <1>1
  <1>4. Snapshot \in Seq(Nat) /\ DOMAIN Snapshot = 1..(taken - older)
    BY <1>1, <1>2, <1>3, IsASeq
  <1>5. ASSUME NEW n \in 1..taken, InSnapshot(n) PROVE n \in ToSet(Snapshot)
    <2>1. n - older \in 1..(taken - older)
      BY <1>5 DEF InSnapshot
    <2>2. Snapshot[n - older] = n
      BY <1>1, <1>2, <2>1
    <2> QED
      BY <1>4, <2>1, <2>2 DEF ToSet
  <1>6. ASSUME NEW i \in 1..(taken - older) PROVE Snapshot[i] \in 1..taken /\ InSnapshot(Snapshot[i])
    BY <1>2 DEF InSnapshot
  <1> QED
    BY <1>4, <1>5, <1>6 DEF ToSet

LEMMA InitOutputInv == OutputInit => OutputInv
  <1> SUFFICES ASSUME OutputInit PROVE OutputInv
    OBVIOUS
  <1> USE OutputAssumption
  <1>1. RestingBind \in Binds /\ RestingBind.hold = <<>> /\ RestingBind.at = "idle"
    BY DEF RestingBind, Binds, BindPlaces
  <1>2. OutputTypes
    BY <1>1 DEF OutputInit, OutputTypes, StartPlaces, ShutPlaces, Hands
  <1>3. OnlyTaken /\ InHand /\ Accounted
    BY <1>1, SetOfEmpty DEF OutputInit, OnlyTaken, InHand, Accounted
  <1> QED
    BY <1>2, <1>3 DEF OutputInv

\* A step without a chunk.
LEMMA QuietStep ==
    ASSUME OutputInv, OutputTypes', HoldsKept, UNCHANGED <<pending, taken, output, sent, cut, gone>>
    PROVE  OutputInv'
  <1>1. Held' = Held
    BY DEF HoldsKept, Held
  <1> QED
    BY <1>1 DEF OutputInv, OnlyTaken, InHand, Accounted, HoldsKept

\* A step that gives up what is pending.
LEMMA GivesUpStep ==
    ASSUME OutputInv, OutputTypes', HoldsKept, UNCHANGED <<taken, output, sent>>, GivesUpPending
    PROVE  OutputInv'
  <1> USE OutputAssumption
  <1>1. Held' = Held
    BY DEF HoldsKept, Held
  <1>2. pending' = <<>> /\ gone' = gone \cup ToSet(pending) \cup cut /\ cut' = {}
    BY DEF GivesUpPending
  <1>3. OnlyTaken'
    <2>1. ToSet(pending') = {} /\ Len(pending') = 0 /\ 0 <= PendingCap
      BY <1>2, SetOfEmpty
    <2>2. cut' \subseteq 1..taken /\ gone' \subseteq 1..taken
      BY <1>2 DEF OutputInv, OnlyTaken
    <2> QED
      BY <2>1, <2>2 DEF OutputInv, OnlyTaken, HoldsKept
  <1>4. InHand'
    BY DEF OutputInv, InHand, HoldsKept
  <1>5. Accounted'
    BY <1>1, <1>2 DEF OutputInv, Accounted
  <1> QED
    BY <1>3, <1>4, <1>5 DEF OutputInv

\* The connections come, lose their tasks one by one and are cleaned up without a chunk.
LEMMA NetSteps ==
    ASSUME OutputInv, NEW l \in Connections,
           \/ Connect(l) \/ SetBinarySender(l) \/ RegisterFails(l) \/ Registered(l)
           \/ SenderEnds(l) \/ ReceiverEnds(l) \/ HeartbeatEnds(l)
           \/ TakeSender(l) \/ TakeBinarySender(l) \/ ClearBound(l) \/ ClearBinding(l)
    PROVE  OutputInv'
  <1> USE OutputAssumption
  <1>1. UNCHANGED <<pending, taken, output, bind, sent, cut, gone, shut>>
    BY DEF chunkVars, receiverVars, StartGoes, TaskEnded, Cleans, Connect, SetBinarySender, RegisterFails, Registered,
           SenderEnds, ReceiverEnds, HeartbeatEnds, TakeSender, TakeBinarySender, ClearBound, ClearBinding
  <1>2. (start \in [Connections -> StartPlaces])'
    BY DEF OutputInv, OutputTypes, StartPlaces, StartGoes, TaskEnded, Cleans, Connect, SetBinarySender, RegisterFails,
           Registered, SenderEnds, ReceiverEnds, HeartbeatEnds, TakeSender, TakeBinarySender, ClearBound, ClearBinding
  <1>3. (open \subseteq Connections /\ receiving \subseteq Connections)'
    BY DEF OutputInv, OutputTypes, Cleans, Connect, SetBinarySender, RegisterFails, Registered, SenderEnds,
           ReceiverEnds, HeartbeatEnds, TakeSender, TakeBinarySender, ClearBound, ClearBinding
  <1>4. (out \in [sender : BOOLEAN, binary : 0..MaxLinks])'
    <2>1. l \in 0..MaxLinks /\ 0 \in 0..MaxLinks
      BY DEF Connections
    <2> QED
      BY <2>1 DEF OutputInv, OutputTypes, TaskEnded, Connect, SetBinarySender, RegisterFails, Registered, SenderEnds,
             ReceiverEnds, HeartbeatEnds, TakeSender, TakeBinarySender, ClearBound, ClearBinding
  <1>5. (set \in [bound : BOOLEAN, binding : BOOLEAN, trimmed : BOOLEAN])'
    BY DEF OutputInv, OutputTypes, TaskEnded, Connect, SetBinarySender, RegisterFails, Registered, SenderEnds,
           ReceiverEnds, HeartbeatEnds, TakeSender, TakeBinarySender, ClearBound, ClearBinding
  <1>6. OutputTypes' /\ HoldsKept
    BY <1>1, <1>2, <1>3, <1>4, <1>5 DEF OutputInv, OutputTypes, HoldsKept
  <1> QED
    BY <1>1, <1>6, QuietStep

\* A shutdown gives up what is pending at one of its steps.
LEMMA ShutSteps ==
    ASSUME OutputInv, NEW k \in Closers,
           \/ ShutSender(k) \/ ShutBinarySender(k) \/ ShutBound(k)
           \/ ShutPending(k) \/ ShutTrimmed(k) \/ ShutBinding(k)
    PROVE  OutputInv'
  <1> USE OutputAssumption
  <1>1. UNCHANGED <<start, open, receiving, taken, output, bind, sent>>
    BY DEF receiverVars, Shuts, ShutSender, ShutBinarySender, ShutBound, ShutPending, ShutTrimmed, ShutBinding
  <1>2. (shut \in [Closers -> ShutPlaces])'
    <2>1. PICK from, to \in ShutPlaces : Shuts(k, from, to)
      BY DEF ShutPlaces, ShutSender, ShutBinarySender, ShutBound, ShutPending, ShutTrimmed, ShutBinding
    <2> QED
      BY <2>1 DEF OutputInv, OutputTypes, Shuts
  <1>3. (out \in [sender : BOOLEAN, binary : 0..MaxLinks])'
        /\ (set \in [bound : BOOLEAN, binding : BOOLEAN, trimmed : BOOLEAN])'
    <2> DEFINE Outs == [sender : BOOLEAN, binary : 0..MaxLinks]
               Sets == [bound : BOOLEAN, binding : BOOLEAN, trimmed : BOOLEAN]
    <2>1. out \in Outs /\ set \in Sets /\ 0 \in 0..MaxLinks
      BY DEF OutputInv, OutputTypes
    <2>2. [out EXCEPT !.sender = FALSE] \in Outs /\ [out EXCEPT !.binary = 0] \in Outs
      BY <2>1
    <2>3. /\ [set EXCEPT !.bound = FALSE] \in Sets /\ [set EXCEPT !.trimmed = FALSE] \in Sets
          /\ [set EXCEPT !.binding = FALSE] \in Sets
      BY <2>1
    <2> HIDE DEF Outs, Sets
    <2>4. (out \in Outs)' /\ (set \in Sets)'
      BY <2>1, <2>2, <2>3 DEF ShutSender, ShutBinarySender, ShutBound, ShutPending, ShutTrimmed, ShutBinding
    <2> QED
      BY <2>4 DEF Outs, Sets
  <1>4. CASE ShutPending(k)
    <2>1. GivesUpPending
      BY <1>4 DEF ShutPending
    <2>2. OutputTypes' /\ HoldsKept
      BY <1>1, <1>2, <1>3, <2>1 DEF GivesUpPending, OutputInv, OutputTypes, HoldsKept
    <2> QED
      BY <1>1, <2>1, <2>2, GivesUpStep
  <1>5. CASE ShutSender(k) \/ ShutBinarySender(k) \/ ShutBound(k) \/ ShutTrimmed(k) \/ ShutBinding(k)
    <2>1. UNCHANGED <<pending, cut, gone>>
      BY <1>5 DEF ShutSender, ShutBinarySender, ShutBound, ShutTrimmed, ShutBinding
    <2>2. OutputTypes' /\ HoldsKept
      BY <1>1, <1>2, <1>3, <2>1 DEF OutputInv, OutputTypes, HoldsKept
    <2> QED
      BY <1>1, <2>1, <2>2, QuietStep
  <1> QED
    BY <1>4, <1>5

LEMMA AskSteps ==
    ASSUME OutputInv, HandOver \/ AskConnected \/ AskBinding \/ AskBound \/ AskChannel
    PROVE  OutputInv'
  <1> USE OutputAssumption
  <1>1. UNCHANGED <<netVars, set, pending, bind, sent, cut, gone>>
    BY DEF receiverVars, HandOver, Asks, AskConnected, AskBinding, AskBound, AskChannel
  <1>2. /\ taken' \in 0..MaxChunks
        /\ \/ taken' = taken /\ output.at # "idle"
           \/ taken' = taken + 1 /\ output.at = "idle"
        /\ output'.at \notin {"idle", "mark"}
        /\ output.at # "mark"
    BY DEF OutputInv, OutputTypes, Hands, HandOver, Asks, AskConnected, AskBinding, AskBound, AskChannel
  <1>3. (output \in Hands)'
    <2>1. output \in Hands /\ out.binary \in 0..MaxLinks /\ 0 \in 0..MaxLinks
      BY DEF OutputInv, OutputTypes
    <2>2. CASE HandOver
      BY <2>1, <2>2 DEF HandOver, Hands
    <2>3. ASSUME NEW this, NEW yes, NEW next \in {"binding", "bound", "channel", "send"}, Asks(this, yes, next)
          PROVE  (output \in Hands)'
      <3>1. /\ (IF yes THEN next ELSE "keep") \in {"binding", "bound", "channel", "send", "keep"}
            /\ (IF this = "channel" THEN out.binary ELSE 0) \in 0..MaxLinks
        BY <2>1
      <3> QED
        BY <2>3, <3>1 DEF Asks, Hands
    <2> QED
      BY <2>2, <2>3 DEF AskConnected, AskBinding, AskBound, AskChannel
  <1>4. 1..taken \subseteq 1..taken' /\ \A n \in 1..taken' : n \in 1..taken \/ n = taken'
    BY <1>2 DEF OutputInv, OutputTypes
  <1>5. OutputTypes' /\ Held' = Held
    BY <1>1, <1>2, <1>3 DEF netVars, OutputInv, OutputTypes, Held
  <1>6. OnlyTaken'
    BY <1>1, <1>2, <1>4 DEF OutputInv, OutputTypes, OnlyTaken
  <1>7. InHand'
    BY <1>1, <1>2 DEF OutputInv, OutputTypes, InHand
  <1>8. Accounted'
    BY <1>1, <1>2, <1>4, <1>5 DEF OutputInv, OutputTypes, Accounted
  <1> QED
    BY <1>5, <1>6, <1>7, <1>8 DEF OutputInv

LEMMA SendStep == OutputInv /\ Send => OutputInv'
  <1> SUFFICES ASSUME OutputInv, Send PROVE OutputInv'
    OBVIOUS
  <1> USE OutputAssumption
  <1>1. UNCHANGED <<netVars, set, pending, taken, bind, cut, gone>>
    BY DEF receiverVars, Send
  <1>2. taken \in 1..taken /\ taken \in Nat /\ sent \in Seq(Nat)
    BY DEF OutputInv, OutputTypes, InHand, Send
  <1>3. (output \in Hands)'
    <2>1. output \in Hands
      BY DEF OutputInv, OutputTypes
    <2>2. [at |-> "idle", channel |-> 0] \in Hands /\ [output EXCEPT !.at = "keep"] \in Hands
      BY <2>1 DEF Hands
    <2> QED
      BY <2>2 DEF Send
  <1>4. sent' \in Seq(Nat)
        /\ \/ ToSet(sent') = ToSet(sent) \cup {taken}
           \/ sent' = sent /\ output'.at = "keep"
    <2>1. Append(sent, taken) \in Seq(Nat) /\ ToSet(Append(sent, taken)) = ToSet(sent) \cup {taken}
      BY <1>2, SetOfAppend
    <2>2. output \in Hands
      BY DEF OutputInv, OutputTypes
    <2> QED
      BY <1>2, <2>1, <2>2 DEF Send, Hands
  <1>5. OutputTypes' /\ Held' = Held
    BY <1>1, <1>3, <1>4 DEF netVars, OutputInv, OutputTypes, Held
  <1>6. OnlyTaken' /\ InHand'
    BY <1>1, <1>2, <1>4 DEF OutputInv, OnlyTaken, InHand
  <1>7. Accounted'
    BY <1>1, <1>2, <1>4, <1>5 DEF OutputInv, Accounted
  <1> QED
    BY <1>5, <1>6, <1>7 DEF OutputInv

LEMMA KeepStep == OutputInv /\ Keep => OutputInv'
  <1> SUFFICES ASSUME OutputInv, Keep PROVE OutputInv'
    OBVIOUS
  <1> USE OutputAssumption
  <1>1. UNCHANGED <<netVars, set, taken, bind, sent, gone>>
    BY DEF receiverVars, Keep
  <1>2. taken \in 1..taken /\ taken \in Nat /\ pending \in Seq(Nat)
    BY DEF OutputInv, OutputTypes, InHand, Keep
  <1>3. (output \in Hands)'
    BY DEF OutputInv, OutputTypes, Hands, Keep
  <1>4. Append(pending, taken) \in Seq(Nat) /\ ToSet(Append(pending, taken)) = ToSet(pending) \cup {taken}
    BY <1>2, SetOfAppend
  <1>5. pending' \in Seq(Nat) /\ Len(pending') <= PendingCap /\ ToSet(pending') \subseteq ToSet(pending) \cup {taken}
    BY <1>4, CappedKeeps DEF Keep
  <1>6. taken \in ToSet(pending')
    <2> DEFINE s == Append(pending, taken)
    <2>1. Len(s) = Len(pending) + 1 /\ s[Len(s)] = taken /\ Len(pending) \in Nat
      BY <1>2, AppendProperties, LenProperties
    <2>2. CASE Len(s) <= PendingCap
      <3>1. pending' = s
        BY <2>1, <2>2 DEF Keep, Capped
      <3> QED
        BY <1>4, <3>1
    <2>3. CASE Len(s) > PendingCap
      <3>1. pending' = SubSeq(s, Len(s) - PendingCap + 1, Len(s))
        BY <2>1, <2>3 DEF Keep, Capped
      <3>2. Len(s) - PendingCap + 1 \in 1..Len(s) + 1 /\ Len(s) \in 0..Len(s)
        BY <2>1, <2>3
      <3>3. Len(pending') = PendingCap /\ \A i \in 1..PendingCap : pending'[i] = s[Len(s) - PendingCap + 1 + i - 1]
        <4>1. Len(s) - (Len(s) - PendingCap + 1) + 1 = PendingCap /\ Len(s) - PendingCap + 1 <= Len(s)
          BY <2>1, <2>3
        <4> HIDE DEF s
        <4> QED
          BY <1>4, <2>3, <3>1, <3>2, <4>1, SubSeqProperties
      <3>4. pending'[PendingCap] = taken
        BY <2>1, <2>3, <3>3
      <3>5. PendingCap \in DOMAIN pending'
        BY <1>5, <3>3, LenProperties
      <3> QED
        BY <3>4, <3>5 DEF ToSet
    <2> QED
      BY <2>1, <2>2, <2>3
  <1>7. cut' = cut \cup (ToSet(pending) \ ToSet(pending'))
    BY DEF Keep
  <1>8. OutputTypes' /\ Held' = Held
    BY <1>1, <1>3, <1>5 DEF netVars, OutputInv, OutputTypes, Held
  <1>9. OnlyTaken' /\ InHand'
    <2>1. ToSet(pending) \subseteq 1..taken /\ cut \subseteq 1..taken
      BY DEF OutputInv, OnlyTaken
    <2>2. ToSet(pending') \subseteq 1..taken /\ cut' \subseteq 1..taken
      BY <1>2, <1>5, <1>7, <2>1
    <2> QED
      BY <1>1, <1>2, <1>5, <2>2 DEF OutputInv, OnlyTaken, InHand
  <1>10. Accounted'
    BY <1>1, <1>2, <1>6, <1>7, <1>8 DEF OutputInv, Accounted
  <1> QED
    BY <1>8, <1>9, <1>10 DEF OutputInv

LEMMA MarkStep == OutputInv /\ MarkTrimmed => OutputInv'
  <1> SUFFICES ASSUME OutputInv, MarkTrimmed PROVE OutputInv'
    OBVIOUS
  <1>1. UNCHANGED <<netVars, pending, taken, bind, sent, cut, gone>>
    BY DEF MarkTrimmed, receiverVars
  <1>2. output' \in Hands /\ output.at = "mark" /\ output'.at = "idle"
    BY DEF OutputInv, OutputTypes, MarkTrimmed, Hands
  <1>3. set' \in [bound : BOOLEAN, binding : BOOLEAN, trimmed : BOOLEAN]
    BY DEF OutputInv, OutputTypes, MarkTrimmed
  <1>4. OutputTypes' /\ Held' = Held
    BY <1>1, <1>2, <1>3 DEF netVars, OutputInv, OutputTypes, Held
  <1>5. OnlyTaken' /\ InHand' /\ Accounted'
    BY <1>1, <1>2, <1>4 DEF OutputInv, OnlyTaken, InHand, Accounted
  <1> QED
    BY <1>4, <1>5 DEF OutputInv

\* A receiver that neither comes to a flush's sending nor leaves it changes no hold.
LEMMA ReceiverGoes ==
    ASSUME OutputInv, NEW l \in Connections, bind[l].at # "send",
           NEW r \in Binds, r.at # "send", r.hold = <<>>, bind' = [bind EXCEPT ![l] = r]
    PROVE  bind' \in [Connections -> Binds] /\ HoldsKept
  <1>1. bind \in [Connections -> Binds] /\ bind[l].hold = <<>>
    BY DEF OutputInv, OutputTypes, InHand
  <1> QED
    BY <1>1 DEF HoldsKept

LEMMA BindGoesOn ==
    ASSUME OutputInv, NEW l \in Connections, NEW from \in BindPlaces \ {"send"}, NEW to \in BindPlaces \ {"send"},
           BindGoes(l, from, to)
    PROVE  bind' \in [Connections -> Binds] /\ HoldsKept /\ UNCHANGED <<netVars, taken, output, binds>>
  <1>1. bind \in [Connections -> Binds] /\ bind[l].at = from /\ bind[l].hold = <<>>
    BY DEF OutputInv, OutputTypes, InHand, BindGoes
  <1> DEFINE r == [bind[l] EXCEPT !.at = to]
  <1>2. r = [at |-> to, snapshot |-> bind[l].snapshot, force |-> bind[l].force, hold |-> <<>>]
    BY <1>1 DEF Binds
  <1>3. r \in Binds /\ r.at # "send" /\ r.hold = <<>>
    BY <1>1, <1>2 DEF Binds
  <1>4. bind' = [bind EXCEPT ![l] = r]
    BY DEF BindGoes
  <1> HIDE DEF r
  <1> QED
    BY <1>1, <1>3, <1>4, ReceiverGoes DEF BindGoes

\* The receiver goes on without a chunk.
BindOnly(l) ==
    \/ \E snapshot, force \in BOOLEAN : Request(l, "binding", snapshot, force)
    \/ Request(l, "leave", FALSE, FALSE)
    \/ BindBinding(l) \/ BindBound(l) \/ BindReadsTrimmed(l) \/ BindReadsPending(l) \/ BindUnmarks(l)
    \/ FlushUnmarks(l) \/ BindOver(l) \/ UnbindBound(l) \/ UnbindBinding(l) \/ UnbindTrimmed(l)

LEMMA BindOnlySteps == ASSUME OutputInv, NEW l \in Connections, BindOnly(l) PROVE OutputInv'
  <1>1. UNCHANGED <<netVars, pending, taken, output, sent, cut, gone>>
    BY DEF BindOnly, BindGoes, Answered, Request, BindBinding, BindBound, BindReadsTrimmed, BindReadsPending,
           BindUnmarks, FlushUnmarks, BindOver, UnbindBound, UnbindBinding, UnbindTrimmed
  <1>2. bind \in [Connections -> Binds] /\ set \in [bound : BOOLEAN, binding : BOOLEAN, trimmed : BOOLEAN]
    BY DEF OutputInv, OutputTypes
  <1>3. set' \in [bound : BOOLEAN, binding : BOOLEAN, trimmed : BOOLEAN]
    BY <1>2 DEF BindOnly, Request, BindBinding, BindBound, BindReadsTrimmed, BindReadsPending,
           BindUnmarks, FlushUnmarks, BindOver, UnbindBound, UnbindBinding, UnbindTrimmed
  <1>4. bind[l].hold = <<>> /\ bind[l].at # "send"
    BY DEF OutputInv, InHand, BindOnly, BindGoes, Answered, Request, BindBinding, BindBound, BindReadsTrimmed,
           BindReadsPending, BindUnmarks, FlushUnmarks, BindOver, UnbindBound, UnbindBinding, UnbindTrimmed
  <1>5. bind' \in [Connections -> Binds] /\ HoldsKept
    <2>1. ASSUME NEW at \in {"binding", "leave"}, NEW snapshot \in BOOLEAN, NEW force \in BOOLEAN,
                 Request(l, at, snapshot, force)
          PROVE  bind' \in [Connections -> Binds] /\ HoldsKept
      <3> DEFINE r == [at |-> at, snapshot |-> snapshot /\ ~force, force |-> force, hold |-> <<>>]
      <3>1. bind' = [bind EXCEPT ![l] = r]
        BY <2>1 DEF Request, Turns
      <3>2. r \in Binds /\ r.at # "send" /\ r.hold = <<>>
        BY DEF Binds, BindPlaces
      <3> HIDE DEF r
      <3> QED
        BY <1>4, <3>1, <3>2, ReceiverGoes
    <2>2. CASE bind' = [bind EXCEPT ![l] = RestingBind]
      <3>1. RestingBind \in Binds /\ RestingBind.at # "send" /\ RestingBind.hold = <<>>
        BY DEF RestingBind, Binds, BindPlaces
      <3> QED
        BY <1>4, <2>2, <3>1, ReceiverGoes
    <2>3. CASE BindReadsTrimmed(l)
      <3> DEFINE r == [at |-> "pending", snapshot |-> bind[l].snapshot, force |-> bind[l].force \/ set.trimmed,
                       hold |-> bind[l].hold]
      <3>1. bind' = [bind EXCEPT ![l] = r]
        BY <1>4, <2>3 DEF BindReadsTrimmed, Turns
      <3>2. r \in Binds /\ r.at # "send" /\ r.hold = <<>>
        <4>1. bind[l].snapshot \in BOOLEAN /\ (bind[l].force \/ set.trimmed) \in BOOLEAN
          BY <1>2 DEF Binds
        <4> QED
          BY <1>4, <4>1 DEF Binds, BindPlaces
      <3> HIDE DEF r
      <3> QED
        BY <1>4, <3>1, <3>2, ReceiverGoes
    <2>4. CASE BindReadsPending(l)
      <3> DEFINE at == CASE bind[l].force -> "drop"
                         [] bind[l].snapshot /\ pending = <<>> -> "snapshot"
                         [] OTHER -> "flush"
                 r == [at |-> at, snapshot |-> FALSE, force |-> bind[l].force, hold |-> bind[l].hold]
      <3>1. at \in {"drop", "snapshot", "flush"}
        OBVIOUS
      <3>2. bind' = [bind EXCEPT ![l] = r]
        BY <1>4, <2>4 DEF BindReadsPending, Turns
      <3> HIDE DEF at
      <3>3. r \in Binds /\ r.at # "send" /\ r.hold = <<>>
        BY <1>2, <1>4, <3>1 DEF Binds, BindPlaces
      <3> HIDE DEF r
      <3> QED
        BY <1>4, <3>2, <3>3, ReceiverGoes
    <2>5. CASE \E from, to \in BindPlaces \ {"send"} : BindGoes(l, from, to)
      BY <2>5, BindGoesOn
    <2>6. \/ \E from, to \in BindPlaces \ {"send"} : BindGoes(l, from, to)
          \/ \E snapshot, force \in BOOLEAN : Request(l, "binding", snapshot, force)
          \/ Request(l, "leave", FALSE, FALSE)
          \/ bind' = [bind EXCEPT ![l] = RestingBind]
          \/ BindReadsTrimmed(l) \/ BindReadsPending(l)
      BY DEF BindOnly, BindPlaces, Answered, BindBinding, BindBound, BindUnmarks, FlushUnmarks, BindOver, UnbindBound,
             UnbindBinding, UnbindTrimmed
    <2> QED
      BY <2>1, <2>2, <2>3, <2>4, <2>5, <2>6
  <1>6. OutputTypes'
    BY <1>1, <1>3, <1>5 DEF netVars, OutputInv, OutputTypes
  <1> QED
    BY <1>1, <1>5, <1>6, QuietStep

\* What is pending is dropped for a snapshot or given up with the binding,
LEMMA DropStep == ASSUME OutputInv, NEW l \in Connections, BindDropsPending(l) PROVE OutputInv'
  <1> USE OutputAssumption
  <1>1. bind' \in [Connections -> Binds] /\ HoldsKept /\ UNCHANGED <<netVars, taken, output, binds>>
    BY BindGoesOn DEF BindDropsPending, BindPlaces
  <1>2. set' = set /\ pending' = <<>> /\ sent' = sent
        /\ cut' = {n \in cut \cup ToSet(pending) : InSnapshot(n)}
        /\ gone' = gone \cup {n \in cut \cup ToSet(pending) : ~InSnapshot(n)}
    BY DEF BindDropsPending
  <1>3. OutputTypes' /\ Held' = Held
    BY <1>1, <1>2 DEF netVars, OutputInv, OutputTypes, HoldsKept, Held
  <1>4. OnlyTaken'
    <2>1. ToSet(pending') = {} /\ Len(pending') = 0 /\ 0 <= PendingCap
      BY <1>2, SetOfEmpty
    <2>2. cut' \subseteq 1..taken /\ gone' \subseteq 1..taken
      BY <1>2 DEF OutputInv, OnlyTaken
    <2> QED
      BY <1>1, <1>2, <2>1, <2>2 DEF OutputInv, OnlyTaken, HoldsKept
  <1>5. InHand'
    BY <1>1 DEF OutputInv, InHand, HoldsKept
  <1>6. Accounted'
    BY <1>1, <1>2, <1>3 DEF OutputInv, Accounted
  <1> QED
    BY <1>3, <1>4, <1>5, <1>6 DEF OutputInv

LEMMA UnbindStep == ASSUME OutputInv, NEW l \in Connections, UnbindPending(l) PROVE OutputInv'
  <1>1. bind' \in [Connections -> Binds] /\ HoldsKept /\ UNCHANGED <<netVars, taken, output, binds>>
    BY BindGoesOn DEF UnbindPending, BindPlaces
  <1>2. GivesUpPending /\ UNCHANGED <<set, sent>>
    BY DEF UnbindPending
  <1>3. OutputTypes'
    BY <1>1, <1>2 DEF GivesUpPending, netVars, OutputInv, OutputTypes
  <1> QED
    BY <1>1, <1>2, <1>3, GivesUpStep

\* and a snapshot stands for what was cut off, if its channel is open.
LEMMA SnapshotStep == ASSUME OutputInv, NEW l \in Connections, BindSnapshot(l) PROVE OutputInv'
  <1> USE OutputAssumption
  <1>1. bind' \in [Connections -> Binds] /\ HoldsKept /\ UNCHANGED <<netVars, taken, output, binds>>
    <2>1. PICK to \in {"unbinding", "flush"} : BindGoes(l, "snapshot", to)
      BY DEF BindSnapshot
    <2> QED
      BY <2>1, BindGoesOn DEF BindPlaces
  <1>2. pending' = pending /\ set' = set /\ cut' = {} /\ gone' = gone \cup {n \in cut : l \in open => ~InSnapshot(n)}
        /\ sent' = IF l \in open THEN sent \o Snapshot ELSE sent
    BY DEF BindSnapshot
  <1>3. sent \in Seq(Nat) /\ taken \in Nat
    BY DEF OutputInv, OutputTypes
  <1>4. Snapshot \in Seq(Nat) /\ ToSet(Snapshot) = {n \in 1..taken : InSnapshot(n)}
    BY <1>3, SnapshotHas
  <1>5. sent' \in Seq(Nat)
        /\ ToSet(sent') = IF l \in open THEN ToSet(sent) \cup {n \in 1..taken : InSnapshot(n)} ELSE ToSet(sent)
    <2>1. sent \o Snapshot \in Seq(Nat) /\ ToSet(sent \o Snapshot) = ToSet(sent) \cup ToSet(Snapshot)
      BY <1>3, <1>4, SetOfConcat
    <2> QED
      BY <1>2, <1>3, <1>4, <2>1
  <1>6. OutputTypes' /\ Held' = Held
    BY <1>1, <1>2, <1>5 DEF netVars, OutputInv, OutputTypes, HoldsKept, Held
  <1>7. OnlyTaken'
    BY <1>1, <1>2, <1>5 DEF OutputInv, OnlyTaken, HoldsKept
  <1>8. InHand'
    BY <1>1 DEF OutputInv, InHand, HoldsKept
  <1>9. Accounted'
    <2>1. cut \subseteq 1..taken
      BY DEF OutputInv, OnlyTaken
    <2>2. ToSet(sent) \cup cut \cup gone \subseteq ToSet(sent') \cup cut' \cup gone'
      BY <1>2, <1>5, <2>1
    <2> QED
      BY <1>1, <1>2, <1>6, <2>2 DEF OutputInv, Accounted
  <1> QED
    BY <1>6, <1>7, <1>8, <1>9 DEF OutputInv

\* The steps of a flush change the hold of one receiver,
LEMMA HoldChanges ==
    ASSUME OutputInv, NEW l \in Connections, NEW at \in BindPlaces, NEW hold \in Seq(Nat),
           FlushHolds(l, at, hold)
    PROVE  /\ bind' \in [Connections -> Binds]
           /\ bind'[l].at = at /\ bind'[l].hold = hold
           /\ \A m \in Connections \ {l} : bind'[m] = bind[m]
  <1>1. bind \in [Connections -> Binds]
    BY DEF OutputInv, OutputTypes
  <1> DEFINE r == [at |-> at, snapshot |-> bind[l].snapshot, force |-> bind[l].force, hold |-> hold]
  <1>2. bind' = [bind EXCEPT ![l] = r]
    BY DEF FlushHolds, Turns
  <1>3. r \in Binds
    BY <1>1 DEF Binds
  <1> QED
    BY <1>1, <1>2, <1>3

\* and the chunks of all holds with it.
LEMMA HeldChanges ==
    ASSUME NEW l \in Connections, \A m \in Connections \ {l} : bind'[m] = bind[m], NEW S,
           ToSet(bind[l].hold) \subseteq ToSet(bind'[l].hold) \cup S
    PROVE  Held \subseteq Held' \cup S
  BY DEF Held

LEMMA TakeStep == ASSUME OutputInv, NEW l \in Connections, FlushTakes(l) PROVE OutputInv'
  <1> USE OutputAssumption
  <1>1. UNCHANGED <<netVars, taken, output, set, sent, cut, gone>> /\ pending' = <<>> /\ pending \in Seq(Nat)
    BY DEF FlushTakes, OutputInv, OutputTypes
  <1> DEFINE at == IF pending = <<>> THEN "clear" ELSE "send"
  <1>2. at \in BindPlaces /\ (at = "send" <=> pending # <<>>)
    BY DEF BindPlaces
  <1>3. FlushHolds(l, at, pending)
    BY DEF FlushTakes
  <1> HIDE DEF at
  <1>4. /\ bind' \in [Connections -> Binds]
        /\ bind'[l].at = at /\ bind'[l].hold = pending
        /\ \A m \in Connections \ {l} : bind'[m] = bind[m]
    BY <1>1, <1>2, <1>3, HoldChanges
  <1>5. bind[l].hold = <<>>
    BY DEF OutputInv, InHand, FlushTakes
  <1>6. Held \subseteq Held' /\ ToSet(pending) \subseteq Held'
    BY <1>4, <1>5, SetOfEmpty DEF Held
  <1>7. OutputTypes'
    BY <1>1, <1>4 DEF netVars, OutputInv, OutputTypes
  <1>8. OnlyTaken'
    BY <1>1, <1>4, SetOfEmpty DEF OutputInv, OnlyTaken
  <1>9. InHand'
    BY <1>1, <1>2, <1>4 DEF OutputInv, InHand
  <1>10. Accounted'
    BY <1>1, <1>6 DEF OutputInv, Accounted
  <1> QED
    BY <1>7, <1>8, <1>9, <1>10 DEF OutputInv

LEMMA PieceStep == ASSUME OutputInv, NEW l \in Connections, FlushSends(l) PROVE OutputInv'
  <1> USE OutputAssumption
  <1> DEFINE hold == bind[l].hold
             at == IF Len(hold) = 1 THEN "clear" ELSE "send"
  <1>1. UNCHANGED <<netVars, taken, output, set, pending, cut, gone>>
    BY DEF FlushSends
  <1>2. hold \in Seq(Nat) /\ hold # <<>> /\ sent \in Seq(Nat)
    BY DEF OutputInv, OutputTypes, InHand, Binds, FlushSends
  <1>3. FlushHolds(l, at, Tail(hold)) /\ sent' = Append(sent, Head(hold))
    BY DEF FlushSends
  <1>4. at \in BindPlaces
    BY DEF BindPlaces
  <1>5. /\ Tail(hold) \in Seq(Nat) /\ Head(hold) \in Nat /\ ToSet(hold) = {Head(hold)} \cup ToSet(Tail(hold))
        /\ Len(Tail(hold)) = Len(hold) - 1 /\ Len(hold) \in Nat
        /\ (at = "send" <=> Tail(hold) # <<>>)
    BY <1>2, SetOfTail
  <1> HIDE DEF hold, at
  <1>6. /\ bind' \in [Connections -> Binds]
        /\ bind'[l].at = at /\ bind'[l].hold = Tail(hold)
        /\ \A m \in Connections \ {l} : bind'[m] = bind[m]
    BY <1>3, <1>4, <1>5, HoldChanges
  <1>7. sent' \in Seq(Nat) /\ ToSet(sent') = ToSet(sent) \cup {Head(hold)}
    BY <1>2, <1>3, <1>5, SetOfAppend
  <1>8. Held \subseteq Held' \cup {Head(hold)}
    <2>1. ToSet(bind[l].hold) \subseteq ToSet(bind'[l].hold) \cup {Head(hold)}
      BY <1>5, <1>6 DEF hold
    <2> QED
      BY <1>6, <2>1, HeldChanges
  <1>9. OutputTypes'
    BY <1>1, <1>6, <1>7 DEF netVars, OutputInv, OutputTypes
  <1>10. OnlyTaken'
    <2>1. ToSet(hold) \subseteq 1..taken /\ Len(hold) <= PendingCap
      BY DEF OutputInv, OnlyTaken, hold
    <2>2. \A m \in Connections : (ToSet(bind[m].hold) \subseteq 1..taken /\ Len(bind[m].hold) <= PendingCap)'
      <3>1. ToSet(Tail(hold)) \subseteq 1..taken /\ Len(Tail(hold)) <= PendingCap
        BY <1>5, <2>1
      <3> QED
        BY <1>1, <1>6, <3>1 DEF OutputInv, OnlyTaken
    <2>3. ToSet(sent') \subseteq 1..taken
      BY <1>5, <1>7, <2>1 DEF OutputInv, OnlyTaken
    <2> QED
      BY <1>1, <2>2, <2>3 DEF OutputInv, OnlyTaken
  <1>11. InHand'
    BY <1>1, <1>5, <1>6 DEF OutputInv, InHand
  <1>12. Accounted'
    BY <1>1, <1>7, <1>8 DEF OutputInv, Accounted
  <1> QED
    BY <1>9, <1>10, <1>11, <1>12 DEF OutputInv

LEMMA PutBackStep == ASSUME OutputInv, NEW l \in Connections, FlushPutsBack(l) PROVE OutputInv'
  <1> USE OutputAssumption
  <1> DEFINE all == bind[l].hold \o pending
  <1>1. UNCHANGED <<netVars, taken, output, set, sent, gone>>
    BY DEF FlushPutsBack
  <1>2. bind[l].hold \in Seq(Nat) /\ pending \in Seq(Nat) /\ <<>> \in Seq(Nat)
    BY DEF OutputInv, OutputTypes, Binds
  <1>3. FlushHolds(l, "clear", <<>>)
        /\ pending' = Capped(all) /\ cut' = cut \cup (ToSet(all) \ ToSet(pending'))
    BY DEF FlushPutsBack
  <1>4. all \in Seq(Nat) /\ ToSet(all) = ToSet(bind[l].hold) \cup ToSet(pending)
    BY <1>2, SetOfConcat
  <1> HIDE DEF all
  <1>5. /\ bind' \in [Connections -> Binds]
        /\ bind'[l].at = "clear" /\ bind'[l].hold = <<>>
        /\ \A m \in Connections \ {l} : bind'[m] = bind[m]
    <2>1. "clear" \in BindPlaces
      BY DEF BindPlaces
    <2> QED
      BY <1>2, <1>3, <2>1, HoldChanges
  <1>6. pending' \in Seq(Nat) /\ Len(pending') <= PendingCap /\ ToSet(pending') \subseteq ToSet(all)
    BY <1>3, <1>4, CappedKeeps
  <1>7. Held \subseteq Held' \cup ToSet(all)
    BY <1>4, <1>5, HeldChanges
  <1>8. OutputTypes'
    BY <1>1, <1>5, <1>6 DEF netVars, OutputInv, OutputTypes
  <1>9. OnlyTaken'
    <2>1. ToSet(all) \subseteq 1..taken
      BY <1>4 DEF OutputInv, OnlyTaken
    <2>2. ToSet(pending') \subseteq 1..taken /\ cut' \subseteq 1..taken
      BY <1>3, <1>6, <2>1 DEF OutputInv, OnlyTaken
    <2> QED
      BY <1>1, <1>5, <1>6, <2>2, SetOfEmpty DEF OutputInv, OnlyTaken
  <1>10. InHand'
    BY <1>1, <1>5 DEF OutputInv, InHand
  <1>11. Accounted'
    <2>1. ToSet(pending) \cup cut \cup ToSet(all) \subseteq ToSet(pending') \cup cut'
      BY <1>3, <1>4
    <2> QED
      BY <1>1, <1>7, <2>1 DEF OutputInv, Accounted
  <1> QED
    BY <1>8, <1>9, <1>10, <1>11 DEF OutputInv

LEMMA NextOutputInv == OutputInv /\ [OutputNext]_outputVars => OutputInv'
  <1> SUFFICES ASSUME OutputInv, [OutputNext]_outputVars PROVE OutputInv'
    OBVIOUS
  <1>1. CASE UNCHANGED outputVars
    <2>1. UNCHANGED <<start, open, receiving, shut, out, set, pending, taken, output, bind, binds, sent, cut, gone>>
      BY <1>1 DEF outputVars, netVars, chunkVars, receiverVars
    <2>2. OutputTypes' /\ HoldsKept
      BY <2>1 DEF OutputInv, OutputTypes, HoldsKept
    <2> QED
      BY <2>1, <2>2, QuietStep
  <1>2. CASE OutputNext
    BY <1>2, NetSteps, ShutSteps, AskSteps, SendStep, KeepStep, MarkStep, BindOnlySteps, DropStep, UnbindStep,
       SnapshotStep, TakeStep, PieceStep, PutBackStep
    DEF OutputNext, BindOnly
  <1> QED
    BY <1>1, <1>2

\* The invariant of the output's way to the phone: each chunk that was handed over is
\* accounted for, but for the last one while the task still has it in hand.
THEOREM OutputInvariant == OutputSpec => []OutputInv
  <1> QED
    BY InitOutputInv, NextOutputInv, PTL DEF OutputSpec

\* Connection, sets, buffers and the places of the two threads are well typed; a buffer
\* that the functions leave has at most PendingCap chunks.
THEOREM OutputTypeCorrect == OutputSpec => []OutputTypeOK
  <1>1. OutputInv => OutputTypeOK
    BY DEF OutputInv, OutputTypes, OnlyTaken, OutputTypeOK
  <1> QED
    BY <1>1, OutputInvariant, PTL

\* A chunk of output was sent into a channel, is pending, is held by a flush, was cut off
\* by the cap or given up with a binding, by a shutdown or for a snapshot: none is lost
\* between the locks, for any number of chunks, requests, shutdowns and connections, of
\* which receivers and starts may overlap and each task may end first.
THEOREM NoChunkIsForgotten == OutputSpec => []NoChunkForgotten
  <1>1. OutputInv => NoChunkForgotten
    BY DEF OutputInv, Accounted, NoChunkForgotten
  <1> QED
    BY <1>1, OutputInvariant, PTL

-------------------------------------------------------------------------------
(* A session: its processes, their output and its log.                        *)

Chunks == Handles \X Nat
HandleStates == {"none", "running", "killed", "exited", "cleaning", "zombie", "restored", "error"}
ExitCodes == {"none", "alive", "ok", "bad", "past"}
TaskStages == {"none", "receive", "notify", "exited", "flush", "flushing", "flushed", "done"}
HandleType ==
    [state : HandleStates, code : ExitCodes, buffer : Seq(Chunks), taken : Nat, flushed : Nat, subs : SUBSET Callers]
FlushType ==
    [at : {"rest", "slice", "append", "set", "failed"}, h : Handles \cup {Nobody}, from : Nat, to : Nat,
     window : Seq(Chunks)]
CloseType ==
    [at : {"not", "flush", "take", "kill", "save", "remove", "over"}, h : Handles \cup {Nobody}, was : HandleStates]
RowType ==
    [status : {"none", "running", "completed", "failed", "restored"}, log : Seq(Chunks)]
CallerType ==
    [at : {"idle", "ensure", "spawn", "insert", "attach", "push"}, h : Handles \cup {Nobody}, upto : Nat]

TerminalTypes ==
    /\ app \in {"up", "closing", "down"} /\ current \in Handles \cup {Nobody}
    /\ process \in [Handles -> ExitCodes] /\ handle \in [Handles -> HandleType] /\ task \in [Handles -> TaskStages]
    /\ flush \in [Flushers -> FlushType] /\ close \in CloseType /\ row \in RowType
    /\ caller \in [Callers -> CallerType]

Flushing == {"slice", "append", "set"}

\* Nothing is under way while the application is down.
Stopped ==
    app = "down" =>
        /\ task = [h \in Handles |-> "none"] /\ flush = [f \in Flushers |-> AtRest]
        /\ close = NotClosing /\ \A c \in Callers : caller[c].at = "idle"

\* A place that nobody but a caller about to fill it knows of.
Vacant(h) ==
    /\ handle[h] = NoHandle /\ task[h] = "none" /\ current # h /\ close.h # h
    /\ \A f \in Flushers : flush[f].h # h
    /\ \A c \in Callers : caller[c].h = h => caller[c].at = "insert"

\* Until a process is started its place is vacant; it is filled by its caller alone.
Places ==
    /\ \A h \in Handles : process[h] = "none" => Vacant(h) /\ \A c \in Callers : caller[c].h # h
    /\ \A c \in Callers : caller[c].at = "insert" =>
          /\ caller[c].h \in Handles /\ Vacant(caller[c].h)
          /\ \A d \in Callers \ {c} : caller[d].h # caller[c].h
    /\ \A c \in Callers : caller[c].at \in {"attach", "push"} => caller[c].h \in Handles
    /\ close.at \in {"flush", "take", "kill", "save", "remove"} => close.h \in Handles

\* The row is made before the first process.
RowFirst ==
    row.status = "none" =>
        /\ row.log = <<>> /\ \A h \in Handles : process[h] = "none"
        /\ \A c \in Callers : caller[c].at # "spawn"

\* The buffer has all the chunks that were taken, unless it had to drop some.
BufferOk(h) ==
    /\ handle[h].flushed <= Len(handle[h].buffer)
    /\ task[h] # "none" =>
         /\ Len(handle[h].buffer) <= BufferCap
         /\ handle[h].taken <= BufferCap =>
              /\ Len(handle[h].buffer) = handle[h].taken
              /\ \A i \in 1..handle[h].taken : handle[h].buffer[i] = <<h, i>>

\* Neither the log nor h's buffer had to drop anything.
Complete(h) == Whole /\ handle[h].taken <= BufferCap

\* The first n chunks of the buffer are in the log.
LoggedUpTo(h, n) == \A i \in 1..n : Logged(handle[h].buffer[i])

\* What is counted as flushed is in the log.
FlushedOk(h) == Complete(h) => LoggedUpTo(h, handle[h].flushed)

\* A flush under way writes the part of the buffer that follows what was logged before.
FlushOk(f) ==
    /\ flush[f].at \in Flushing <=> flush[f].h # Nobody
    /\ flush[f].at = "failed" => f \in Handles
    /\ flush[f].at \in Flushing =>
         /\ f \in Handles => flush[f].h = f
         /\ flush[f].from < flush[f].to /\ flush[f].to <= Len(handle[flush[f].h].buffer)
         /\ Complete(flush[f].h) =>
              /\ LoggedUpTo(flush[f].h, flush[f].from)
              /\ flush[f].at = "append" =>
                   flush[f].window = SubSeq(handle[flush[f].h].buffer, flush[f].from + 1, flush[f].to)
              /\ flush[f].at = "set" => LoggedUpTo(flush[f].h, flush[f].to)

\* A task whose process has ended flushes what is left, once, to the buffer's end.
LastOk(h) ==
    /\ task[h] \in {"none", "receive", "notify", "exited", "flush"} => flush[h].at = "rest"
    /\ task[h] = "flushing" => flush[h].at \in Flushing /\ flush[h].to = Len(handle[h].buffer)
    /\ task[h] \in {"flushed", "done"} =>
         /\ flush[h].at \in {"rest", "failed"}
         /\ Complete(h) /\ flush[h].at = "rest" => LoggedUpTo(h, Len(handle[h].buffer))

LogInv ==
    /\ \A h \in Handles : BufferOk(h) /\ FlushedOk(h) /\ LastOk(h)
    /\ \A f \in Flushers : FlushOk(f)

\* A closing application waits for the flush of its clean-up.
CleanUp ==
    /\ app = "up" => close.at = "not"
    /\ flush["exit"].at \in Flushing => close.at = "flush"

TerminalInv == TerminalTypes /\ Stopped /\ CleanUp /\ Places /\ RowFirst /\ LogInv

-------------------------------------------------------------------------------
(* Sequences.                                                                 *)

LEMMA LastOfIs ==
    ASSUME NEW S, NEW s \in Seq(S), NEW n \in Nat
    PROVE  /\ LastOf(n, s) \in Seq(S)
           /\ Len(s) <= n => LastOf(n, s) = s
           /\ Len(s) > n => Len(LastOf(n, s)) = n
  <1>1. Len(s) \in Nat
    BY LenProperties
  <1>2. CASE Len(s) <= n
    BY <1>1, <1>2 DEF LastOf
  <1>3. CASE Len(s) > n
    <2> DEFINE first == Len(s) - n + 1
    <2>1. first \in 1..Len(s) + 1 /\ Len(s) \in 0..Len(s) /\ Len(s) - first + 1 = n
      BY <1>1, <1>3
    <2>2. SubSeq(s, first, Len(s)) \in Seq(S) /\ (first <= Len(s) => Len(SubSeq(s, first, Len(s))) = n)
          /\ (first > Len(s) => Len(SubSeq(s, first, Len(s))) = 0)
      BY <2>1, SubSeqProperties
    <2>3. first > Len(s) => n = 0
      BY <1>1, <1>3
    <2> QED
      BY <1>1, <1>3, <2>1, <2>2, <2>3 DEF LastOf
  <1> QED
    BY <1>1, <1>2, <1>3

LEMMA WindowIs ==
    ASSUME NEW S, NEW s \in Seq(S), NEW m \in Nat, NEW n \in Nat, m < n, n <= Len(s)
    PROVE  /\ SubSeq(s, m + 1, n) \in Seq(S) /\ Len(SubSeq(s, m + 1, n)) = n - m
           /\ \A i \in 1..n - m : SubSeq(s, m + 1, n)[i] = s[m + i]
  <1>1. Len(s) \in Nat
    BY LenProperties
  <1>2. m + 1 \in 1..Len(s) + 1 /\ n \in m..Len(s) /\ m + 1 <= n
    BY <1>1
  <1>3. SubSeq(s, m + 1, n) \in Seq(S) /\ Len(SubSeq(s, m + 1, n)) = n - (m + 1) + 1
        /\ \A i \in 1..n - (m + 1) + 1 : SubSeq(s, m + 1, n)[i] = s[m + 1 + i - 1]
    BY <1>1, <1>2, SubSeqProperties
  <1>4. n - (m + 1) + 1 = n - m /\ \A i \in 1..n - m : m + 1 + i - 1 = m + i
    OBVIOUS
  <1> QED
    BY <1>3, <1>4

LEMMA SameWindow ==
    ASSUME NEW S, NEW s \in Seq(S), NEW r \in Seq(S), NEW m \in Nat, NEW n \in Nat, m < n, n <= Len(s),
           Len(s) <= Len(r), \A i \in 1..Len(s) : r[i] = s[i]
    PROVE  SubSeq(r, m + 1, n) = SubSeq(s, m + 1, n)
  <1>1. Len(s) \in Nat /\ Len(r) \in Nat
    BY LenProperties
  <1>2. n <= Len(r)
    BY <1>1
  <1>3. /\ SubSeq(s, m + 1, n) \in Seq(S) /\ Len(SubSeq(s, m + 1, n)) = n - m
        /\ \A i \in 1..n - m : SubSeq(s, m + 1, n)[i] = s[m + i]
    BY WindowIs
  <1>4. /\ SubSeq(r, m + 1, n) \in Seq(S) /\ Len(SubSeq(r, m + 1, n)) = n - m
        /\ \A i \in 1..n - m : SubSeq(r, m + 1, n)[i] = r[m + i]
    BY <1>2, WindowIs
  <1>5. \A i \in 1..n - m : m + i \in 1..Len(s)
    BY <1>1
  <1>6. \A i \in 1..n - m : SubSeq(r, m + 1, n)[i] = SubSeq(s, m + 1, n)[i]
    BY <1>3, <1>4, <1>5
  <1> QED
    BY <1>3, <1>4, <1>6, SeqEqual

LEMMA ConcatIs ==
    ASSUME NEW S, NEW s \in Seq(S), NEW r \in Seq(S)
    PROVE  /\ s \o r \in Seq(S) /\ Len(s \o r) = Len(s) + Len(r)
           /\ \A i \in 1..Len(s) : (s \o r)[i] = s[i]
           /\ \A i \in 1..Len(r) : (s \o r)[Len(s) + i] = r[i]
  <1>1. Len(s) \in Nat /\ Len(r) \in Nat
    BY LenProperties
  <1>2. s \o r \in Seq(S) /\ Len(s \o r) = Len(s) + Len(r)
        /\ \A i \in 1..Len(s) + Len(r) : (s \o r)[i] = IF i <= Len(s) THEN s[i] ELSE r[i - Len(s)]
    BY ConcatProperties
  <1>3. ASSUME NEW i \in 1..Len(r) PROVE (s \o r)[Len(s) + i] = r[i]
    <2>1. Len(s) + i \in 1..Len(s) + Len(r) /\ ~(Len(s) + i <= Len(s)) /\ Len(s) + i - Len(s) = i
      BY <1>1
    <2> QED
      BY <1>2, <2>1
  <1> QED
    BY <1>1, <1>2, <1>3

LEMMA AppendedIs ==
    ASSUME NEW S, NEW log \in Seq(S), NEW w \in Seq(S)
    PROVE  /\ Appended(log, w) \in Seq(S)
           /\ Len(Appended(log, w)) < LogCap => Len(log) < LogCap /\ Appended(log, w) = log \o w
  <1> USE TerminalAssumption
  <1>1. Len(log) \in Nat /\ Len(w) \in Nat
    BY LenProperties
  <1>2. CASE Len(log) + Len(w) <= LogCap
    <2> DEFINE keep == LogCap - Len(w)
    <2>0. keep \in Nat /\ Len(log) <= keep
      BY <1>1, <1>2
    <2>3. LastOf(keep, log) = log
      BY <2>0, LastOfIs
    <2>4. keep > 0 \/ keep = 0
      BY <2>0
    <2>1. Appended(log, w) = log \o w
      BY <1>2, <2>3, <2>4 DEF Appended
    <2>2. log \o w \in Seq(S) /\ Len(log \o w) = Len(log) + Len(w)
      BY ConcatIs
    <2> QED
      BY <1>1, <2>1, <2>2
  <1>3. CASE Len(log) + Len(w) > LogCap /\ Len(w) < LogCap
    <2> DEFINE keep == LogCap - Len(w)
    <2>1. keep \in Nat /\ keep > 0 /\ ~(Len(log) + Len(w) <= LogCap) /\ Len(log) > keep
      BY <1>1, <1>3
    <2>5. LogCap - Len(w) > 0 /\ ~(LogCap - Len(w) = 0)
      BY <2>1
    <2>2. Appended(log, w) = LastOf(keep, log) \o w
      BY <2>1, <2>5 DEF Appended
    <2>3. LastOf(keep, log) \in Seq(S) /\ Len(LastOf(keep, log)) = keep
      BY <2>1, LastOfIs
    <2>6. PICK kept \in Seq(S) : kept = LastOf(keep, log) /\ Len(kept) = keep
      BY <2>3
    <2>7. kept \o w \in Seq(S) /\ Len(kept \o w) = Len(kept) + Len(w)
      BY ConcatIs
    <2>4. Appended(log, w) \in Seq(S) /\ Len(Appended(log, w)) = keep + Len(w)
      BY <2>2, <2>6, <2>7
    <2> QED
      BY <1>1, <1>3, <2>1, <2>4
  <1>4. CASE Len(log) + Len(w) > LogCap /\ Len(w) >= LogCap
    <2> DEFINE kept == CASE Len(log) + Len(w) <= LogCap -> log
                         [] LogCap - Len(w) > 0 -> LastOf(LogCap - Len(w), log)
                         [] LogCap - Len(w) = 0 -> log
                         [] OTHER -> SubSeq(log, Len(w) - LogCap, Len(log))
    <2>1. SubSeq(log, Len(w) - LogCap, Len(log)) \in Seq(S) \/ LogCap - Len(w) = 0
      <3> SUFFICES ASSUME LogCap - Len(w) # 0 PROVE SubSeq(log, Len(w) - LogCap, Len(log)) \in Seq(S)
        OBVIOUS
      <3>1. Len(w) - LogCap \in Nat \ {0}
        BY <1>1, <1>4
      <3>2. \A i \in (Len(w) - LogCap)..Len(log) : log[i] \in S
        BY <1>1, <3>1, ElementOfSeq
      <3> QED
        BY <1>1, <3>1, <3>2, SubSeqProperties
    <2>2. kept \in Seq(S)
      BY <1>1, <1>4, <2>1
    <2>3. Appended(log, w) = kept \o w
      BY DEF Appended
    <2>4. Appended(log, w) \in Seq(S) /\ Len(Appended(log, w)) = Len(kept) + Len(w) /\ Len(kept) \in Nat
      BY <2>2, <2>3, ConcatIs, LenProperties
    <2> QED
      BY <1>1, <1>4, <2>4
  <1> QED
    BY <1>1, <1>2, <1>3, <1>4

-------------------------------------------------------------------------------
(* What a step must leave alone, for what is known of a buffer, a flush and a   *)
(* task's last flush to stay so.                                              *)

\* The log loses nothing that is spoken of.
LogGrows == Whole' => Whole /\ \A k \in Chunks : Logged(k) => Logged(k)'

\* And neither does the buffer of h.
Grows(h) ==
    /\ Len(handle[h].buffer) <= Len(handle'[h].buffer)
    /\ handle'[h].taken <= BufferCap =>
         handle[h].taken <= BufferCap /\ \A i \in 1..Len(handle[h].buffer) : handle'[h].buffer[i] = handle[h].buffer[i]

SameBuffer(h) ==
    /\ handle'[h].buffer = handle[h].buffer /\ handle'[h].taken = handle[h].taken
    /\ handle'[h].flushed = handle[h].flushed

TaskMoves(h) ==
    \/ task'[h] = task[h]
    \/ {task[h], task'[h]} \subseteq {"receive", "notify", "exited", "flush"}
    \/ task[h] = "flushed" /\ task'[h] = "done"
    \/ task[h] = "none" /\ task'[h] = "receive" /\ handle[h] = NoHandle

LEMMA BufferTypes ==
    ASSUME TerminalTypes, NEW h \in Handles
    PROVE  /\ handle[h].buffer \in Seq(Chunks) /\ Len(handle[h].buffer) \in Nat
           /\ handle[h].taken \in Nat /\ handle[h].flushed \in Nat
           /\ \A i \in 1..Len(handle[h].buffer) : handle[h].buffer[i] \in Chunks
  <1>1. handle[h] \in HandleType
    BY DEF TerminalTypes
  <1>2. handle[h].buffer \in Seq(Chunks) /\ handle[h].taken \in Nat /\ handle[h].flushed \in Nat
    BY <1>1 DEF HandleType
  <1>3. Len(handle[h].buffer) \in Nat /\ \A i \in 1..Len(handle[h].buffer) : handle[h].buffer[i] \in Chunks
    BY <1>2, LenProperties, ElementOfSeq
  <1> QED
    BY <1>2, <1>3

LEMMA SameLog ==
    ASSUME row'.log = row.log
    PROVE  LogGrows
  BY DEF LogGrows, Whole, Logged

LEMMA SameGrows ==
    ASSUME TerminalTypes, NEW h \in Handles, SameBuffer(h)
    PROVE  Grows(h)
  BY BufferTypes DEF SameBuffer, Grows

LEMMA BufferStays ==
    ASSUME NEW h \in Handles, BufferOk(h), SameBuffer(h),
           task[h] = "none" => task'[h] = "none" \/ handle[h] = NoHandle
    PROVE  BufferOk(h)'
  <1>1. CASE handle[h] = NoHandle
    <2>1. handle'[h].buffer = <<>> /\ handle'[h].taken = 0 /\ handle'[h].flushed = 0
      BY <1>1 DEF SameBuffer, NoHandle
    <2>2. Len(<<>>) = 0 /\ BufferCap \in Nat
      BY TerminalAssumption
    <2> QED
      BY <2>1, <2>2 DEF BufferOk
  <1>2. CASE task[h] = "none" => task'[h] = "none"
    BY <1>2 DEF BufferOk, SameBuffer
  <1> QED
    BY <1>1, <1>2

LEMMA LoggedStays ==
    ASSUME TerminalTypes, NEW h \in Handles, LogGrows, Grows(h), Complete(h)',
           NEW n \in Nat, n <= Len(handle[h].buffer), LoggedUpTo(h, n)
    PROVE  LoggedUpTo(h, n)'
  <1> SUFFICES ASSUME NEW i \in 1..n PROVE Logged(handle[h].buffer[i])'
    BY DEF LoggedUpTo
  <1>1. i \in 1..Len(handle[h].buffer)
    BY BufferTypes
  <1>2. handle'[h].buffer[i] = handle[h].buffer[i] /\ handle[h].buffer[i] \in Chunks
    BY <1>1, BufferTypes DEF Complete, Grows
  <1>3. Logged(handle[h].buffer[i])
    BY DEF LoggedUpTo
  <1>4. PICK k \in Chunks : k = handle[h].buffer[i]
    BY <1>2
  <1>5. Logged(k)'
    BY <1>3, <1>4 DEF LogGrows, Complete
  <1>6. k = handle'[h].buffer[i]
    BY <1>2, <1>4
  <1> QED
    BY <1>5, <1>6 DEF Logged

LEMMA CompleteBefore ==
    ASSUME NEW h \in Handles, LogGrows, Grows(h), Complete(h)'
    PROVE  Complete(h)
  BY DEF Complete, LogGrows, Grows

LEMMA FlushedStays ==
    ASSUME TerminalTypes, NEW h \in Handles, BufferOk(h), FlushedOk(h), LogGrows, Grows(h),
           handle'[h].taken <= BufferCap => handle'[h].flushed = handle[h].flushed
    PROVE  FlushedOk(h)'
  <1> SUFFICES ASSUME Complete(h)' PROVE LoggedUpTo(h, handle[h].flushed)'
    BY DEF FlushedOk
  <1>1. handle'[h].flushed = handle[h].flushed
    BY DEF Complete
  <1>2. PICK n \in Nat : n = handle[h].flushed
    BY BufferTypes
  <1>3. n <= Len(handle[h].buffer) /\ LoggedUpTo(h, n)
    BY <1>2, CompleteBefore DEF BufferOk, FlushedOk
  <1>4. LoggedUpTo(h, n)'
    BY <1>3, LoggedStays
  <1> QED
    BY <1>1, <1>2, <1>4 DEF LoggedUpTo

LEMMA FlushStays ==
    ASSUME TerminalTypes, NEW f \in Flushers, FlushOk(f), flush'[f] = flush[f], LogGrows,
           flush[f].at \in Flushing => flush[f].h \in Handles /\ Grows(flush[f].h),
           TerminalTypes'
    PROVE  FlushOk(f)'
  <1>1. CASE flush[f].at \notin Flushing
    BY <1>1 DEF FlushOk
  <1>2. CASE flush[f].at \in Flushing
    <2>1. PICK h \in Handles : h = flush[f].h
      BY <1>2
    <2>2. PICK x : x = flush[f]
      OBVIOUS
    <2>3. x \in FlushType
      BY <2>2 DEF TerminalTypes
    <2>4. x.from \in Nat /\ x.to \in Nat
      BY <2>3 DEF FlushType
    <2>5. Grows(h) /\ x.h = h /\ x.from < x.to /\ x.to <= Len(handle[h].buffer)
      BY <1>2, <2>1, <2>2 DEF FlushOk
    <2>6. x.to <= Len(handle'[h].buffer)
      BY <2>4, <2>5, BufferTypes DEF Grows, TerminalTypes, HandleType
    <2>7. ASSUME Complete(h)'
          PROVE  /\ LoggedUpTo(h, x.from)'
                 /\ x.at = "append" => x.window = SubSeq(handle'[h].buffer, x.from + 1, x.to)
                 /\ x.at = "set" => LoggedUpTo(h, x.to)'
      <3>1. Complete(h)
        BY <2>5, <2>7, CompleteBefore
      <3>2. LoggedUpTo(h, x.from) /\ (x.at = "set" => LoggedUpTo(h, x.to))
            /\ (x.at = "append" => x.window = SubSeq(handle[h].buffer, x.from + 1, x.to))
        BY <1>2, <2>1, <2>2, <3>1 DEF FlushOk
      <3>3. LoggedUpTo(h, x.from)' /\ (x.at = "set" => LoggedUpTo(h, x.to)')
        BY <2>4, <2>5, <2>7, <3>2, LoggedStays, BufferTypes
      <3>4. SubSeq(handle'[h].buffer, x.from + 1, x.to) = SubSeq(handle[h].buffer, x.from + 1, x.to)
        <4>1. /\ handle[h].buffer \in Seq(Chunks) /\ handle'[h].buffer \in Seq(Chunks)
              /\ Len(handle[h].buffer) <= Len(handle'[h].buffer)
              /\ \A i \in 1..Len(handle[h].buffer) : handle'[h].buffer[i] = handle[h].buffer[i]
          BY <2>5, <2>7 DEF Grows, Complete, TerminalTypes, HandleType
        <4>2. PICK s \in Seq(Chunks) : s = handle[h].buffer
          BY <4>1
        <4>3. PICK r \in Seq(Chunks) : r = handle'[h].buffer
          BY <4>1
        <4>4. Len(s) <= Len(r) /\ x.to <= Len(s) /\ \A i \in 1..Len(s) : r[i] = s[i]
          BY <2>5, <4>1, <4>2, <4>3
        <4>5. SubSeq(r, x.from + 1, x.to) = SubSeq(s, x.from + 1, x.to)
          BY <2>4, <2>5, <4>4, SameWindow
        <4> QED
          BY <4>2, <4>3, <4>5
      <3> QED
        BY <3>2, <3>3, <3>4
    <2>8. flush'[f] = x
      BY <2>2
    <2>9. (flush[f].at \in Flushing <=> flush[f].h # Nobody) /\ (f \in Handles => x.h = f)
      BY <1>2, <2>2 DEF FlushOk
    <2> QED
      BY <1>2, <2>2, <2>5, <2>6, <2>7, <2>8, <2>9 DEF FlushOk, LoggedUpTo, Flushing
  <1> QED
    BY <1>1, <1>2

LEMMA LastStays ==
    ASSUME TerminalTypes, NEW h \in Handles, LastOk(h), flush'[h] = flush[h], LogGrows, Grows(h), TaskMoves(h),
           handle'[h].buffer = handle[h].buffer \/ task[h] = "receive"
    PROVE  LastOk(h)'
  <1>1. CASE task'[h] \in {"none", "receive", "notify", "exited", "flush"}
    BY <1>1 DEF LastOk, TaskMoves
  <1>2. CASE task'[h] = "flushing"
    BY <1>2 DEF LastOk, TaskMoves
  <1>3. CASE task'[h] \in {"flushed", "done"}
    <2>1. task[h] \in {"flushed", "done"} /\ handle'[h].buffer = handle[h].buffer
      BY <1>3 DEF TaskMoves
    <2>2. flush'[h].at \in {"rest", "failed"}
      BY <2>1 DEF LastOk
    <2>3. ASSUME Complete(h)', flush'[h].at = "rest" PROVE LoggedUpTo(h, Len(handle[h].buffer))'
      <3>1. Complete(h)
        BY <2>3, CompleteBefore
      <3>2. PICK n \in Nat : n = Len(handle[h].buffer)
        BY BufferTypes
      <3>3. LoggedUpTo(h, n)
        BY <2>1, <2>3, <3>1, <3>2 DEF LastOk
      <3>4. LoggedUpTo(h, n)'
        BY <2>3, <3>2, <3>3, LoggedStays
      <3> QED
        BY <2>1, <3>2, <3>4 DEF LoggedUpTo
    <2> QED
      BY <1>3, <2>2, <2>3 DEF LastOk
  <1> QED
    BY <1>1, <1>2, <1>3 DEF LastOk

-------------------------------------------------------------------------------
(* What most steps leave as it is.                                            *)

LEMMA FlushesHandle ==
    ASSUME TerminalTypes, NEW f \in Flushers, FlushOk(f), flush[f].at \in Flushing
    PROVE  flush[f].h \in Handles
  <1>1. flush[f] \in FlushType
    BY DEF TerminalTypes
  <1>2. flush[f].h \in Handles \cup {Nobody}
    BY <1>1 DEF FlushType
  <1> QED
    BY <1>2 DEF FlushOk

LEMMA LogStays ==
    ASSUME TerminalTypes, TerminalTypes', LogInv, flush' = flush, row'.log = row.log,
           \A h \in Handles : SameBuffer(h) /\ TaskMoves(h)
    PROVE  LogInv'
  <1>1. LogGrows
    BY SameLog
  <1>2. \A h \in Handles : Grows(h)
    BY SameGrows
  <1>3. ASSUME NEW h \in Handles PROVE BufferOk(h)' /\ FlushedOk(h)' /\ LastOk(h)'
    <2>1. BufferOk(h) /\ FlushedOk(h) /\ LastOk(h) /\ SameBuffer(h) /\ TaskMoves(h) /\ Grows(h) /\ h \in Flushers
      BY <1>2 DEF LogInv, Flushers
    <2>2. BufferOk(h)'
      BY <2>1, BufferStays DEF TaskMoves
    <2>3. FlushedOk(h)'
      BY <1>1, <2>1, FlushedStays DEF SameBuffer
    <2>4. LastOk(h)'
      BY <1>1, <2>1, LastStays DEF SameBuffer
    <2> QED
      BY <2>2, <2>3, <2>4
  <1>4. ASSUME NEW f \in Flushers PROVE FlushOk(f)'
    <2>1. FlushOk(f) /\ flush'[f] = flush[f]
      BY DEF LogInv
    <2>2. flush[f].at \in Flushing => flush[f].h \in Handles
      BY <2>1, FlushesHandle
    <2> QED
      BY <1>1, <1>2, <2>1, <2>2, FlushStays
  <1> QED
    BY <1>3, <1>4 DEF LogInv

\* Filling and using a place is a matter of the commands.
LEMMA PlacesStay ==
    ASSUME Places, UNCHANGED caller,
           \A h \in Handles : process'[h] = "none" => process[h] = "none",
           \A h \in Handles : Vacant(h) =>
               /\ handle'[h] = NoHandle /\ task'[h] = "none" /\ current' # h /\ close'.h # h
               /\ \A f \in Flushers : flush'[f].h # h,
           close'.at \in {"flush", "take", "kill", "save", "remove"} => close'.h \in Handles
    PROVE  Places'
  <1>1. ASSUME NEW h \in Handles, Vacant(h) PROVE Vacant(h)'
    BY <1>1 DEF Vacant
  <1>2. ASSUME NEW h \in Handles, process'[h] = "none" PROVE Vacant(h)' /\ \A c \in Callers : caller'[c].h # h
    BY <1>1, <1>2 DEF Places
  <1>3. ASSUME NEW c \in Callers, caller'[c].at = "insert"
        PROVE  /\ caller'[c].h \in Handles /\ Vacant(caller[c].h)'
               /\ \A d \in Callers \ {c} : caller'[d].h # caller'[c].h
    <2>1. PICK h \in Handles : h = caller[c].h
      BY <1>3 DEF Places
    <2>2. Vacant(h) /\ \A d \in Callers \ {c} : caller'[d].h # caller'[c].h
      BY <1>3, <2>1 DEF Places
    <2>3. Vacant(h)'
      BY <1>1, <2>2
    <2> QED
      BY <2>1, <2>2, <2>3
  <1>4. \A c \in Callers : caller'[c].at \in {"attach", "push"} => caller'[c].h \in Handles
    BY DEF Places
  <1> QED
    BY <1>2, <1>3, <1>4 DEF Places

\* What has been used is not vacant.
LEMMA NotVacant ==
    ASSUME TerminalInv, NEW h \in Handles,
           \/ handle[h] # NoHandle \/ task[h] # "none" \/ current = h \/ close.h = h
           \/ \E f \in Flushers : flush[f].h = h
           \/ \E c \in Callers : caller[c].h = h /\ caller[c].at # "insert"
    PROVE  ~Vacant(h) /\ process[h] # "none" /\ row.status # "none"
  <1>1. ~Vacant(h)
    BY DEF Vacant
  <1>2. process[h] # "none"
    BY <1>1 DEF TerminalInv, Places
  <1> QED
    BY <1>1, <1>2 DEF TerminalInv, RowFirst

LEMMA InitTerminalInv == TerminalInit => TerminalInv
  <1> SUFFICES ASSUME TerminalInit PROVE TerminalInv
    OBVIOUS
  <1> USE TerminalAssumption
  <1>0. <<>> \in Seq(Chunks) /\ Len(<<>>) = 0
    OBVIOUS
  <1>1. NoHandle \in HandleType /\ AtRest \in FlushType /\ NotClosing \in CloseType /\ NoRow \in RowType
    BY <1>0 DEF HandleType, FlushType, CloseType, RowType, NoHandle, AtRest, NotClosing, NoRow, HandleStates, ExitCodes
  <1>2. [at |-> "idle", h |-> Nobody, upto |-> 0] \in CallerType
    BY DEF CallerType
  <1>3. TerminalTypes
    BY <1>1, <1>2 DEF TerminalInit, TerminalTypes, ExitCodes, TaskStages
  <1>4. Stopped /\ CleanUp /\ Places /\ RowFirst
    BY DEF TerminalInit, Stopped, CleanUp, Flushers, Flushing, Places, Vacant, RowFirst, NoRow, NotClosing, AtRest
  <1>5. ASSUME NEW h \in Handles PROVE BufferOk(h) /\ FlushedOk(h) /\ LastOk(h)
    <2>1. handle[h] = NoHandle /\ task[h] = "none" /\ flush[h] = AtRest
      BY DEF TerminalInit, Flushers
    <2> QED
      BY <1>0, <2>1 DEF BufferOk, FlushedOk, LastOk, LoggedUpTo, NoHandle, AtRest
  <1>6. ASSUME NEW f \in Flushers PROVE FlushOk(f)
    <2>1. flush[f] = AtRest
      BY DEF TerminalInit
    <2> QED
      BY <2>1 DEF FlushOk, AtRest, Flushing
  <1> QED
    BY <1>3, <1>4, <1>5, <1>6 DEF TerminalInv, LogInv

-------------------------------------------------------------------------------
(* Commands.                                                                  *)

\* A command that fills no place.
LEMMA CallerMoves ==
    ASSUME TerminalInv, NEW c \in Callers, NEW r \in CallerType, caller' = [caller EXCEPT ![c] = r],
           UNCHANGED <<app, current, process, task, flush, close>>, app # "down",
           r.at \notin {"insert", "spawn"} \/ (r.at = "spawn" /\ row'.status # "none"),
           r.at \in {"attach", "push"} => r.h \in Handles,
           r.h \in Handles => process[r.h] # "none" /\ ~Vacant(r.h),
           handle' \in [Handles -> HandleType], \A h \in Handles : SameBuffer(h),
           \A h \in Handles : Vacant(h) /\ (caller[c].at = "insert" => h # caller[c].h) => handle'[h] = handle[h],
           caller[c].at # "insert",
           row' \in RowType, row'.log = row.log, row.status # "none" => row'.status # "none"
    PROVE  TerminalInv'
  <1>1. caller' \in [Callers -> CallerType] /\ \A d \in Callers : caller'[d] = IF d = c THEN r ELSE caller[d]
    BY DEF TerminalInv, TerminalTypes
  <1>2. TerminalTypes'
    BY <1>1 DEF TerminalInv, TerminalTypes
  <1>3. Stopped' /\ CleanUp'
    BY DEF Stopped, CleanUp, TerminalInv
  <1>4. ASSUME NEW h \in Handles, Vacant(h), r.h # h PROVE Vacant(h)'
    BY <1>1, <1>4 DEF Vacant
  <1>5. ASSUME NEW h \in Handles, process'[h] = "none" PROVE Vacant(h)' /\ \A d \in Callers : caller'[d].h # h
    BY <1>1, <1>4, <1>5 DEF TerminalInv, Places
  <1>6. ASSUME NEW d \in Callers, caller'[d].at = "insert"
        PROVE  /\ caller'[d].h \in Handles /\ Vacant(caller[d].h)'
               /\ \A e \in Callers \ {d} : caller'[e].h # caller'[d].h
    <2>1. d # c /\ caller'[d] = caller[d] /\ caller[d].at = "insert"
      BY <1>1, <1>6
    <2>2. PICK h \in Handles : h = caller[d].h
      BY <2>1 DEF TerminalInv, Places
    <2>3. Vacant(h) /\ \A e \in Callers \ {d} : caller[e].h # h
      BY <2>1, <2>2 DEF TerminalInv, Places
    <2>4. r.h # h /\ \A e \in Callers \ {d} : caller'[e].h # h
      BY <1>1, <2>3
    <2>5. Vacant(h)'
      BY <1>4, <2>3, <2>4
    <2> QED
      BY <2>1, <2>2, <2>4, <2>5
  <1>7. \A d \in Callers : caller'[d].at \in {"attach", "push"} => caller'[d].h \in Handles
    BY <1>1 DEF TerminalInv, Places
  <1>8. Places'
    BY <1>5, <1>6, <1>7 DEF Places, TerminalInv
  <1>9. RowFirst'
    BY <1>1 DEF RowFirst, TerminalInv
  <1>10. LogInv'
    BY <1>2, LogStays DEF TerminalInv, TaskMoves
  <1> QED
    BY <1>2, <1>3, <1>8, <1>9, <1>10 DEF TerminalInv

LEMMA SameHandles ==
    ASSUME TerminalInv, UNCHANGED handle
    PROVE  handle' \in [Handles -> HandleType] /\ \A h \in Handles : SameBuffer(h) /\ handle'[h] = handle[h]
  BY DEF TerminalInv, TerminalTypes, SameBuffer

LEMMA StartSessionKeeps ==
    ASSUME TerminalInv, NEW c \in Callers, StartSession(c)
    PROVE  TerminalInv'
  <1>1. app # "down" /\ caller[c].at = "idle"
        /\ UNCHANGED <<app, current, process, handle, task, flush, close, row>>
    BY DEF StartSession
  <1>2. handle' \in [Handles -> HandleType] /\ \A h \in Handles : SameBuffer(h) /\ handle'[h] = handle[h]
    BY <1>1, SameHandles
  <1>3. row' \in RowType /\ row'.log = row.log /\ (row.status # "none" => row'.status # "none")
    BY <1>1 DEF TerminalInv, TerminalTypes
  <1>4. CASE Go(c, "attach", current) /\ current # Nobody
    <2> DEFINE r == [at |-> "attach", h |-> current, upto |-> 0]
    <2>1. current \in Handles
      BY <1>4 DEF TerminalInv, TerminalTypes
    <2>2. r \in CallerType /\ caller' = [caller EXCEPT ![c] = r]
      BY <1>4, <2>1 DEF CallerType, Go
    <2>3. process[current] # "none" /\ ~Vacant(current)
      BY <2>1, NotVacant
    <2>4. r.at = "attach" /\ r.h = current
      OBVIOUS
    <2> HIDE DEF r
    <2> QED
      BY <1>1, <1>2, <1>3, <2>1, <2>2, <2>3, <2>4, CallerMoves
  <1>5. CASE Go(c, "ensure", Nobody)
    <2> DEFINE r == [at |-> "ensure", h |-> Nobody, upto |-> 0]
    <2>1. r \in CallerType /\ caller' = [caller EXCEPT ![c] = r]
      BY <1>5 DEF CallerType, Go
    <2>2. r.at = "ensure" /\ r.h = Nobody /\ Nobody \notin Handles
      BY TerminalAssumption
    <2> HIDE DEF r
    <2> QED
      BY <1>1, <1>2, <1>3, <2>1, <2>2, CallerMoves
  <1> QED
    BY <1>4, <1>5 DEF StartSession

LEMMA EnsureSessionKeeps ==
    ASSUME TerminalInv, NEW c \in Callers, EnsureSession(c)
    PROVE  TerminalInv'
  <1>1. caller[c].at = "ensure" /\ UNCHANGED <<app, current, process, handle, task, flush, close>>
    BY DEF EnsureSession
  <1>2. app # "down"
    BY <1>1 DEF TerminalInv, Stopped
  <1>3. handle' \in [Handles -> HandleType] /\ \A h \in Handles : SameBuffer(h) /\ handle'[h] = handle[h]
    BY <1>1, SameHandles
  <1>4. CASE row' = (IF row.status = "none" THEN [status |-> "running", log |-> <<>>] ELSE row)
             /\ Go(c, "spawn", Nobody)
    <2> DEFINE r == [at |-> "spawn", h |-> Nobody, upto |-> 0]
    <2>1. r \in CallerType /\ caller' = [caller EXCEPT ![c] = r]
      BY <1>4 DEF CallerType, Go
    <2>2. r.at = "spawn" /\ r.h = Nobody /\ Nobody \notin Handles
      BY TerminalAssumption
    <2>3. CASE row.status = "none"
      <3>1. row' = [status |-> "running", log |-> <<>>] /\ row.log = <<>>
        BY <1>4, <2>3 DEF TerminalInv, RowFirst
      <3>2. row' \in RowType /\ row'.log = row.log /\ row'.status # "none"
        BY <3>1 DEF RowType
      <3> HIDE DEF r
      <3> QED
        BY <1>1, <1>2, <1>3, <2>1, <2>2, <3>2, CallerMoves
    <2>4. CASE row.status # "none"
      <3>1. row' = row /\ row' \in RowType
        BY <1>4, <2>4 DEF TerminalInv, TerminalTypes
      <3> HIDE DEF r
      <3> QED
        BY <1>1, <1>2, <1>3, <2>1, <2>2, <2>4, <3>1, CallerMoves
    <2> QED
      BY <2>3, <2>4
  <1>5. CASE Go(c, "idle", Nobody) /\ UNCHANGED row
    <2> DEFINE r == [at |-> "idle", h |-> Nobody, upto |-> 0]
    <2>1. r \in CallerType /\ caller' = [caller EXCEPT ![c] = r]
      BY <1>5 DEF CallerType, Go
    <2>2. r.at = "idle" /\ r.h = Nobody /\ Nobody \notin Handles
      BY TerminalAssumption
    <2>3. row' \in RowType /\ row' = row
      BY <1>5 DEF TerminalInv, TerminalTypes
    <2> HIDE DEF r
    <2> QED
      BY <1>1, <1>2, <1>3, <2>1, <2>2, <2>3, CallerMoves
  <1> QED
    BY <1>4, <1>5 DEF EnsureSession

LEMMA AttachKeeps ==
    ASSUME TerminalInv, NEW c \in Callers, AttachSnapshot(c) \/ AttachPush(c)
    PROVE  TerminalInv'
  <1>1. caller[c].at \in {"attach", "push"} /\ UNCHANGED <<app, current, process, task, flush, close, row>>
    BY DEF AttachSnapshot, AttachPush
  <1>2. app # "down"
    BY <1>1 DEF TerminalInv, Stopped
  <1>3. PICK h \in Handles : h = caller[c].h
    BY <1>1 DEF TerminalInv, Places
  <1>4. process[h] # "none" /\ ~Vacant(h)
    BY <1>1, <1>3, NotVacant
  <1>5. row' \in RowType /\ row' = row
    BY <1>1 DEF TerminalInv, TerminalTypes
  <1>6. CASE AttachSnapshot(c)
    <2> DEFINE r == [at |-> "push", h |-> h, upto |-> handle[h].taken]
    <2>1. caller \in [Callers -> CallerType] /\ caller[c] \in CallerType /\ handle[h].taken \in Nat
      BY BufferTypes DEF TerminalInv, TerminalTypes
    <2>2. r \in CallerType
      BY <2>1 DEF CallerType
    <2>3. caller' = [caller EXCEPT ![c].at = "push", ![c].upto = handle[h].taken]
      BY <1>3, <1>6 DEF AttachSnapshot
    <2>4. caller' \in [Callers -> CallerType] /\ caller'[c].at = "push" /\ caller'[c].h = h
          /\ caller'[c].upto = handle[h].taken /\ \A d \in Callers \ {c} : caller'[d] = caller[d]
      BY <1>3, <2>1, <2>3 DEF CallerType
    <2>5. caller'[c] = r
      BY <2>4 DEF CallerType
    <2>7. caller' = [caller EXCEPT ![c] = r]
      BY <2>1, <2>2, <2>4, <2>5
    <2>8. r.at = "push" /\ r.h = h
      OBVIOUS
    <2>6. handle' \in [Handles -> HandleType] /\ \A g \in Handles : SameBuffer(g) /\ handle'[g] = handle[g]
      BY <1>6, SameHandles DEF AttachSnapshot
    <2> HIDE DEF r
    <2> QED
      BY <1>1, <1>2, <1>4, <1>5, <2>2, <2>6, <2>7, <2>8, CallerMoves
  <1>7. CASE AttachPush(c)
    <2> DEFINE r == [at |-> "idle", h |-> Nobody, upto |-> 0]
    <2>1. r \in CallerType /\ caller' = [caller EXCEPT ![c] = r]
      BY <1>7 DEF CallerType, Go, AttachPush
    <2>2. r.at = "idle" /\ r.h = Nobody /\ Nobody \notin Handles
      BY TerminalAssumption
    <2>3. handle' = [handle EXCEPT ![h].subs = @ \cup {c}]
      BY <1>3, <1>7 DEF AttachPush
    <2>4. handle' \in [Handles -> HandleType] /\ \A g \in Handles : g # h => handle'[g] = handle[g]
      BY <2>3 DEF TerminalInv, TerminalTypes, HandleType
    <2>5. \A g \in Handles : SameBuffer(g)
      BY <2>3 DEF TerminalInv, TerminalTypes, HandleType, SameBuffer
    <2> HIDE DEF r
    <2> QED
      BY <1>1, <1>2, <1>4, <1>5, <2>1, <2>2, <2>4, <2>5, CallerMoves
  <1> QED
    BY <1>6, <1>7

\* The process is made before anybody else knows of its place.
LEMMA SpawnKeeps ==
    ASSUME TerminalInv, NEW c \in Callers, NEW h \in Handles, Spawn(c, h)
    PROVE  TerminalInv'
  <1>1. caller[c].at = "spawn" /\ process[h] = "none"
        /\ UNCHANGED <<app, current, handle, task, flush, close, row>>
    BY DEF Spawn
  <1>2. app # "down" /\ row.status # "none"
    BY <1>1 DEF TerminalInv, Stopped, RowFirst
  <1>3. PICK r \in CallerType :
          /\ caller' = [caller EXCEPT ![c] = r]
          /\ (r.at = "insert" /\ r.h = h) \/ (r.at = "idle" /\ r.h = Nobody)
    <2>1. Go(c, "insert", h) \/ Go(c, "idle", Nobody)
      BY DEF Spawn
    <2>2. [at |-> "insert", h |-> h, upto |-> 0] \in CallerType /\ [at |-> "idle", h |-> Nobody, upto |-> 0] \in CallerType
      BY DEF CallerType
    <2>3. CASE Go(c, "insert", h)
      <3>1. PICK r \in CallerType : r = [at |-> "insert", h |-> h, upto |-> 0]
        BY <2>2
      <3>2. caller' = [caller EXCEPT ![c] = r] /\ r.at = "insert" /\ r.h = h
        BY <2>3, <3>1 DEF Go
      <3> QED
        BY <3>2
    <2>4. CASE Go(c, "idle", Nobody)
      BY <2>2, <2>4 DEF Go
    <2> QED
      BY <2>1, <2>3, <2>4
  <1>4. process' \in [Handles -> ExitCodes] /\ process'[h] # "none" /\ \A g \in Handles \ {h} : process'[g] = process[g]
    BY DEF Spawn, TerminalInv, TerminalTypes, ExitCodes
  <1>5. caller' \in [Callers -> CallerType] /\ \A d \in Callers : caller'[d] = IF d = c THEN r ELSE caller[d]
    BY <1>3 DEF TerminalInv, TerminalTypes
  <1>6. Vacant(h) /\ \A d \in Callers : caller[d].h # h
    BY <1>1 DEF TerminalInv, Places
  <1>7. Nobody \notin Handles
    BY TerminalAssumption
  <1>8. TerminalTypes'
    BY <1>1, <1>4, <1>5 DEF TerminalInv, TerminalTypes
  <1>9. Stopped' /\ CleanUp' /\ RowFirst'
    BY <1>1, <1>2 DEF Stopped, CleanUp, RowFirst, TerminalInv
  <1>10. ASSUME NEW g \in Handles, Vacant(g) PROVE Vacant(g)'
    BY <1>1, <1>3, <1>5, <1>7, <1>10 DEF Vacant
  <1>11. ASSUME NEW g \in Handles, process'[g] = "none" PROVE Vacant(g)' /\ \A d \in Callers : caller'[d].h # g
    <2>1. g # h /\ process[g] = "none"
      BY <1>4, <1>11
    <2>2. Vacant(g) /\ \A d \in Callers : caller[d].h # g
      BY <2>1 DEF TerminalInv, Places
    <2> QED
      BY <1>3, <1>5, <1>7, <1>10, <2>1, <2>2
  <1>12. ASSUME NEW d \in Callers, caller'[d].at = "insert"
         PROVE  /\ caller'[d].h \in Handles /\ Vacant(caller[d].h)'
                /\ \A e \in Callers \ {d} : caller'[e].h # caller'[d].h
    <2>1. CASE d = c
      <3>1. caller'[d].h = h
        BY <1>3, <1>5, <1>12, <2>1
      <3>2. Vacant(h)' /\ \A e \in Callers \ {d} : caller'[e].h # h
        BY <1>5, <1>6, <1>10, <2>1
      <3> QED
        BY <3>1, <3>2
    <2>2. CASE d # c
      <3>1. caller'[d] = caller[d] /\ caller[d].at = "insert"
        BY <1>5, <1>12, <2>2
      <3>2. PICK g \in Handles : g = caller[d].h
        BY <3>1 DEF TerminalInv, Places
      <3>3. Vacant(g) /\ g # h /\ \A e \in Callers \ {d} : caller[e].h # g
        BY <1>6, <3>1, <3>2 DEF TerminalInv, Places
      <3>4. Vacant(g)' /\ \A e \in Callers \ {d} : caller'[e].h # g
        BY <1>3, <1>5, <1>7, <1>10, <3>3
      <3> QED
        BY <3>1, <3>2, <3>4
    <2> QED
      BY <2>1, <2>2
  <1>13. \A d \in Callers : caller'[d].at \in {"attach", "push"} => caller'[d].h \in Handles
    BY <1>3, <1>5 DEF TerminalInv, Places
  <1>14. Places'
    BY <1>1, <1>11, <1>12, <1>13 DEF Places, TerminalInv
  <1>15. LogInv'
    BY <1>1, <1>8, LogStays, SameHandles DEF TerminalInv, TaskMoves
  <1> QED
    BY <1>8, <1>9, <1>14, <1>15 DEF TerminalInv

\* Its handle is put into the place that was kept for it.
LEMMA InsertHandleKeeps ==
    ASSUME TerminalInv, NEW c \in Callers, InsertHandle(c)
    PROVE  TerminalInv'
  <1>1. caller[c].at = "insert" /\ UNCHANGED <<app, process, flush, close, row>>
    BY DEF InsertHandle
  <1>2. app # "down"
    BY <1>1 DEF TerminalInv, Stopped
  <1>3. PICK h \in Handles : h = caller[c].h
    BY <1>1 DEF TerminalInv, Places
  <1>4. Vacant(h) /\ process[h] # "none" /\ \A d \in Callers \ {c} : caller[d].h # h
    BY <1>1, <1>3 DEF TerminalInv, Places
  <1>5. handle' = [handle EXCEPT ![h].state = "running", ![h].subs = {c} \ Phones]
        /\ task' = [task EXCEPT ![h] = "receive"] /\ current' = h
        /\ caller' = [caller EXCEPT ![c] = [at |-> "idle", h |-> Nobody, upto |-> 0]]
    BY <1>3 DEF InsertHandle, Go
  <1>6. handle[h] = NoHandle /\ task[h] = "none"
    BY <1>4 DEF Vacant
  <1>7. handle \in [Handles -> HandleType] /\ task \in [Handles -> TaskStages] /\ caller \in [Callers -> CallerType]
    BY DEF TerminalInv, TerminalTypes
  <1>8. task' \in [Handles -> TaskStages] /\ task'[h] = "receive" /\ \A g \in Handles \ {h} : task'[g] = task[g]
    BY <1>5, <1>7 DEF TaskStages
  <1>9. [at |-> "idle", h |-> Nobody, upto |-> 0] \in CallerType
    BY DEF CallerType
  <1>10. caller' \in [Callers -> CallerType]
         /\ caller'[c] = [at |-> "idle", h |-> Nobody, upto |-> 0] /\ \A d \in Callers \ {c} : caller'[d] = caller[d]
    BY <1>5, <1>7, <1>9
  <1>11. handle' \in [Handles -> HandleType] /\ \A g \in Handles \ {h} : handle'[g] = handle[g]
    BY <1>5, <1>7 DEF HandleType, HandleStates
  <1>12. \A g \in Handles : SameBuffer(g) /\ TaskMoves(g)
    BY <1>5, <1>6, <1>7, <1>8, <1>11 DEF SameBuffer, TaskMoves, HandleType
  <1>13. TerminalTypes'
    BY <1>1, <1>5, <1>8, <1>10, <1>11 DEF TerminalInv, TerminalTypes
  <1>14. Stopped' /\ CleanUp' /\ RowFirst'
    BY <1>1, <1>2, <1>10 DEF Stopped, CleanUp, RowFirst, TerminalInv
  <1>15. ASSUME NEW g \in Handles, Vacant(g), g # h PROVE Vacant(g)'
    BY <1>1, <1>5, <1>8, <1>10, <1>11, <1>15, TerminalAssumption DEF Vacant
  <1>16. ASSUME NEW g \in Handles, process'[g] = "none" PROVE Vacant(g)' /\ \A d \in Callers : caller'[d].h # g
    <2>1. g # h /\ Vacant(g) /\ \A d \in Callers : caller[d].h # g
      BY <1>1, <1>4, <1>16 DEF TerminalInv, Places
    <2> QED
      BY <1>10, <1>15, <2>1, TerminalAssumption
  <1>17. ASSUME NEW d \in Callers, caller'[d].at = "insert"
         PROVE  /\ caller'[d].h \in Handles /\ Vacant(caller[d].h)'
                /\ \A e \in Callers \ {d} : caller'[e].h # caller'[d].h
    <2>1. d # c /\ caller'[d] = caller[d]
      BY <1>10, <1>17
    <2>2. PICK g \in Handles : g = caller[d].h
      BY <1>17, <2>1 DEF TerminalInv, Places
    <2>3. Vacant(g) /\ g # h /\ \A e \in Callers \ {d} : caller[e].h # g
      BY <1>4, <1>17, <2>1, <2>2 DEF TerminalInv, Places
    <2>4. Vacant(g)' /\ \A e \in Callers \ {d} : caller'[e].h # g
      BY <1>10, <1>15, <2>3, TerminalAssumption
    <2> QED
      BY <2>1, <2>2, <2>4
  <1>18. \A d \in Callers : caller'[d].at \in {"attach", "push"} => caller'[d].h \in Handles
    BY <1>10 DEF TerminalInv, Places
  <1>19. Places'
    BY <1>1, <1>16, <1>17, <1>18 DEF Places, TerminalInv
  <1>20. LogInv'
    BY <1>1, <1>12, <1>13, LogStays DEF TerminalInv
  <1> QED
    BY <1>13, <1>14, <1>19, <1>20 DEF TerminalInv

-------------------------------------------------------------------------------
(* Processes, the task's steps without output, and the clean-up.              *)

LEMMA QuietSteps ==
    ASSUME TerminalInv, TerminalTypes', Stopped', CleanUp', UNCHANGED <<caller, flush>>, row'.log = row.log,
           row.status # "none" => row'.status # "none",
           row.status = "none" => row'.status = "none",
           \A h \in Handles : SameBuffer(h) /\ TaskMoves(h),
           \A h \in Handles : process'[h] = "none" <=> process[h] = "none",
           \A h \in Handles : Vacant(h) =>
               handle'[h] = NoHandle /\ task'[h] = "none" /\ current' # h /\ close'.h # h,
           close'.at \in {"flush", "take", "kill", "save", "remove"} => close'.h \in Handles
    PROVE  TerminalInv'
  <1>1. Places'
    <2>1. \A h \in Handles : Vacant(h) => \A f \in Flushers : flush'[f].h # h
      BY DEF Vacant
    <2> QED
      BY <2>1, PlacesStay DEF TerminalInv
  <1>2. RowFirst'
    BY DEF RowFirst, TerminalInv
  <1>3. LogInv'
    BY LogStays DEF TerminalInv
  <1> QED
    BY <1>1, <1>2, <1>3 DEF TerminalInv

LEMMA KillKeeps ==
    ASSUME TerminalInv, Kill
    PROVE  TerminalInv'
  <1>1. app # "down" /\ UNCHANGED <<app, current, task, flush, close, row, caller>>
    BY DEF Kill, uiVars
  <1>2. PICK h \in Handles : h = current
    BY DEF Kill, TerminalInv, TerminalTypes
  <1>3. handle' = [handle EXCEPT ![h].state = IF @ = "running" THEN "killed" ELSE "error"]
        /\ process' = (IF process[h] = "alive" THEN [process EXCEPT ![h] = "bad"] ELSE process)
    BY <1>2 DEF Kill
  <1>4. process[h] # "none" /\ ~Vacant(h)
    BY <1>2, NotVacant
  <1>5. handle \in [Handles -> HandleType] /\ process \in [Handles -> ExitCodes]
    BY DEF TerminalInv, TerminalTypes
  <1>6. handle' \in [Handles -> HandleType] /\ \A g \in Handles \ {h} : handle'[g] = handle[g]
    BY <1>3, <1>5 DEF HandleType, HandleStates
  <1>7. \A g \in Handles : SameBuffer(g)
    BY <1>3, <1>5 DEF HandleType, SameBuffer
  <1>8. process' \in [Handles -> ExitCodes] /\ \A g \in Handles : process'[g] = "none" <=> process[g] = "none"
    BY <1>3, <1>4, <1>5 DEF ExitCodes
  <1>9. TerminalTypes' /\ Stopped' /\ CleanUp'
    BY <1>1, <1>6, <1>8 DEF TerminalInv, TerminalTypes, Stopped, CleanUp
  <1>10. \A g \in Handles : Vacant(g) => handle'[g] = NoHandle /\ task'[g] = "none" /\ current' # g /\ close'.h # g
    BY <1>1, <1>4, <1>6 DEF Vacant
  <1> QED
    BY <1>1, <1>7, <1>8, <1>9, <1>10, QuietSteps DEF TaskMoves, TerminalInv, Places

LEMMA ProcessEndsKeeps ==
    ASSUME TerminalInv, NEW h \in Handles, NEW code \in {"ok", "bad"}, ProcessEnds(h, code)
    PROVE  TerminalInv'
  <1>1. UNCHANGED <<app, current, handle, task, flush, close, row, caller>>
    BY DEF ProcessEnds, uiVars
  <1>2. process' \in [Handles -> ExitCodes] /\ \A g \in Handles : process'[g] = "none" <=> process[g] = "none"
    BY DEF ProcessEnds, TerminalInv, TerminalTypes, ExitCodes
  <1>3. TerminalTypes' /\ Stopped' /\ CleanUp'
    BY <1>1, <1>2 DEF TerminalInv, TerminalTypes, Stopped, CleanUp
  <1>4. \A g \in Handles : Vacant(g) => handle'[g] = NoHandle /\ task'[g] = "none" /\ current' # g /\ close'.h # g
    BY <1>1 DEF Vacant
  <1>5. \A g \in Handles : SameBuffer(g) /\ TaskMoves(g)
    BY <1>1 DEF SameBuffer, TaskMoves
  <1> QED
    BY <1>1, <1>2, <1>3, <1>4, <1>5, QuietSteps DEF TerminalInv, Places

\* What a task does without output, and what is seen of a process's end.
LEMMA TaskKeeps ==
    ASSUME TerminalInv, NEW h \in Handles,
           PollExit(h) \/ Notify(h) \/ TakeState(h) \/ SetExited(h) \/ SaveResult(h)
    PROVE  TerminalInv'
  <1>1. UNCHANGED <<app, current, process, flush, close, caller>>
    BY DEF PollExit, Notify, TakeState, SetExited, SaveResult, uiVars
  <1>2. task[h] # "none" \/ handle[h].state = "running"
    BY DEF PollExit, Notify, TakeState, SetExited, SaveResult
  <1>3. ~Vacant(h) /\ row.status # "none"
    BY <1>2, NotVacant DEF NoHandle
  <1>4. handle \in [Handles -> HandleType] /\ process \in [Handles -> ExitCodes] /\ task \in [Handles -> TaskStages]
        /\ row \in RowType
    BY DEF TerminalInv, TerminalTypes
  <1>5. handle[h] \in HandleType /\ process[h] \in ExitCodes
    BY <1>4
  <1>6. handle' \in [Handles -> HandleType] /\ (\A g \in Handles \ {h} : handle'[g] = handle[g]) /\ SameBuffer(h)
    <2>1. CASE Notify(h) \/ SaveResult(h)
      BY <1>4, <2>1 DEF Notify, SaveResult, SameBuffer
    <2>2. CASE SetExited(h)
      BY <1>4, <1>5, <2>2 DEF SetExited, HandleType, SameBuffer, HandleStates
    <2>3. CASE PollExit(h) \/ TakeState(h)
      <3>1. PICK code, state : handle' = [handle EXCEPT ![h].code = code, ![h].state = state]
                               /\ code \in ExitCodes /\ state \in HandleStates
        <4>1. CASE PollExit(h)
          <5>1. handle' = [handle EXCEPT ![h].state = "exited", ![h].code = process[h]]
            BY <4>1 DEF PollExit
          <5>2. handle' = [handle EXCEPT ![h].code = process[h], ![h].state = "exited"]
            BY <1>4, <5>1 DEF HandleType
          <5> QED
            BY <1>5, <5>2 DEF HandleStates
        <4>2. CASE TakeState(h)
          <5> DEFINE code == CASE handle[h].state = "running" -> process[h]
                        [] handle[h].state = "exited"  -> handle[h].code
                        [] OTHER -> "bad"
          <5>1. code \in ExitCodes
            BY <1>5 DEF HandleType, ExitCodes
          <5>2. handle' = [handle EXCEPT ![h].code = code, ![h].state =
                              IF @ \in {"running", "exited", "killed"} THEN "cleaning" ELSE "zombie"]
            BY <4>2 DEF TakeState
          <5> QED
            BY <1>4, <5>1, <5>2 DEF HandleStates, HandleType
        <4> QED
          BY <2>3, <4>1, <4>2
      <3> QED
        BY <1>4, <1>5, <3>1 DEF HandleType, SameBuffer
    <2> QED
      BY <2>1, <2>2, <2>3
  <1>7. task' \in [Handles -> TaskStages] /\ (\A g \in Handles \ {h} : task'[g] = task[g]) /\ TaskMoves(h)
    BY <1>4 DEF PollExit, Notify, TakeState, SetExited, SaveResult, TaskStages, TaskMoves
  <1>8. row' \in RowType /\ row'.log = row.log /\ row'.status # "none"
    BY <1>3, <1>4 DEF PollExit, Notify, TakeState, SetExited, SaveResult, RowType
  <1>9. app = "down" => task' = task
    BY DEF PollExit, Notify, TakeState, SetExited, SaveResult, TerminalInv, Stopped
  <1>10. TerminalTypes' /\ Stopped' /\ CleanUp'
    BY <1>1, <1>6, <1>7, <1>8, <1>9 DEF TerminalInv, TerminalTypes, Stopped, CleanUp
  <1>11. \A g \in Handles : Vacant(g) => handle'[g] = NoHandle /\ task'[g] = "none" /\ current' # g /\ close'.h # g
    BY <1>1, <1>3, <1>6, <1>7 DEF Vacant
  <1>12. \A g \in Handles : SameBuffer(g) /\ TaskMoves(g)
    BY <1>6, <1>7 DEF SameBuffer, TaskMoves
  <1> QED
    BY <1>1, <1>3, <1>8, <1>10, <1>11, <1>12, QuietSteps DEF TerminalInv, Places

\* The clean-up after its flush.
LEMMA CleanUpKeeps ==
    ASSUME TerminalInv, CloseTake \/ CloseKill \/ CloseSave \/ CloseRemove
    PROVE  TerminalInv'
  <1>1. close.at \in {"take", "kill", "save", "remove"} /\ UNCHANGED <<app, task, flush, caller>>
    BY DEF CloseTake, CloseKill, CloseSave, CloseRemove, uiVars
  <1>2. PICK h \in Handles : h = close.h
    BY <1>1 DEF TerminalInv, Places
  <1>3. app # "down"
    BY <1>1 DEF TerminalInv, Stopped, NotClosing
  <1>4. ~Vacant(h) /\ process[h] # "none" /\ row.status # "none"
    BY <1>2, NotVacant
  <1>5. handle \in [Handles -> HandleType] /\ process \in [Handles -> ExitCodes] /\ close \in CloseType /\ row \in RowType
    BY DEF TerminalInv, TerminalTypes
  <1>6. handle[h] \in HandleType
    BY <1>5
  <1>7. handle' \in [Handles -> HandleType] /\ (\A g \in Handles \ {h} : handle'[g] = handle[g]) /\ SameBuffer(h)
    <2>1. CASE CloseKill \/ CloseRemove
      BY <1>5, <2>1 DEF CloseKill, CloseRemove, SameBuffer
    <2>2. CASE CloseTake
      BY <1>2, <1>5, <1>6, <2>2 DEF CloseTake, HandleType, SameBuffer, HandleStates
    <2>3. CASE CloseSave
      BY <1>2, <1>5, <1>6, <2>3 DEF CloseSave, HandleType, SameBuffer, HandleStates
    <2> QED
      BY <2>1, <2>2, <2>3
  <1>8. process' \in [Handles -> ExitCodes] /\ \A g \in Handles : process'[g] = "none" <=> process[g] = "none"
    BY <1>2, <1>4, <1>5 DEF CloseTake, CloseKill, CloseSave, CloseRemove, ExitCodes
  <1>9. close' \in CloseType /\ close'.h = h
    BY <1>2, <1>5, <1>6 DEF CloseTake, CloseKill, CloseSave, CloseRemove, CloseType, HandleType
  <1>10. row' \in RowType /\ row'.log = row.log /\ row'.status # "none"
    BY <1>4, <1>5 DEF CloseTake, CloseKill, CloseSave, CloseRemove, RowType
  <1>11. current' \in {current, Nobody}
    BY DEF CloseTake, CloseKill, CloseSave, CloseRemove
  <1>12. TerminalTypes' /\ Stopped' /\ CleanUp'
    BY <1>1, <1>3, <1>7, <1>8, <1>9, <1>10, <1>11 DEF TerminalInv, TerminalTypes, Stopped, CleanUp
  <1>13. \A g \in Handles : Vacant(g) => handle'[g] = NoHandle /\ task'[g] = "none" /\ current' # g /\ close'.h # g
    BY <1>1, <1>4, <1>7, <1>9, <1>11, TerminalAssumption DEF Vacant
  <1>14. \A g \in Handles : SameBuffer(g) /\ TaskMoves(g)
    BY <1>1, <1>7 DEF SameBuffer, TaskMoves
  <1> QED
    BY <1>1, <1>4, <1>8, <1>9, <1>10, <1>12, <1>13, <1>14, QuietSteps

-------------------------------------------------------------------------------
(* Output.                                                                    *)

LEMMA ReceiveKeeps ==
    ASSUME TerminalInv, NEW h \in Handles, Receive(h)
    PROVE  TerminalInv'
  <1> USE TerminalAssumption
  <1>1. task[h] = "receive" /\ UNCHANGED <<app, current, process, flush, close, row, caller>>
    BY DEF Receive, uiVars
  <1>2. app # "down"
    BY <1>1 DEF TerminalInv, Stopped
  <1>3. ~Vacant(h)
    BY <1>1, NotVacant
  <1>4. PICK b \in Seq(Chunks), t \in Nat, n \in Nat : b = handle[h].buffer /\ t = handle[h].taken /\ n = handle[h].flushed
    BY BufferTypes DEF TerminalInv
  <1>5. PICK q : q = LastOf(BufferCap, Append(b, <<h, t + 1>>))
    OBVIOUS
  <1>6. PICK m : m = IF Len(b) = BufferCap /\ n > 0 THEN n - 1 ELSE n
    OBVIOUS
  <1>7. Len(b) \in Nat /\ Len(b) <= BufferCap /\ n <= Len(b)
        /\ (t <= BufferCap => Len(b) = t /\ \A i \in 1..t : b[i] = <<h, i>>)
    BY <1>1, <1>4, LenProperties DEF TerminalInv, LogInv, BufferOk
  <1>8. /\ Append(b, <<h, t + 1>>) \in Seq(Chunks) /\ Len(Append(b, <<h, t + 1>>)) = Len(b) + 1
        /\ Append(b, <<h, t + 1>>)[Len(b) + 1] = <<h, t + 1>>
        /\ \A i \in 1..Len(b) : Append(b, <<h, t + 1>>)[i] = b[i]
    <2>1. <<h, t + 1>> \in Chunks
      BY DEF Chunks
    <2> QED
      BY <2>1, AppendProperties
  <1>26. PICK a \in Seq(Chunks) : a = Append(b, <<h, t + 1>>)
    BY <1>8
  <1>27. Len(a) = Len(b) + 1 /\ q = LastOf(BufferCap, a)
    BY <1>5, <1>8, <1>26
  <1>28. q \in Seq(Chunks) /\ (Len(a) <= BufferCap => q = a) /\ (Len(a) > BufferCap => Len(q) = BufferCap)
    BY <1>27, LastOfIs
  <1>9. q \in Seq(Chunks) /\ Len(q) = IF Len(b) = BufferCap THEN BufferCap ELSE Len(b) + 1
    BY <1>7, <1>27, <1>28
  <1>10. Len(b) < BufferCap => q = Append(b, <<h, t + 1>>)
    <2>1. Len(b) < BufferCap => Len(a) <= BufferCap
      BY <1>7, <1>27
    <2>2. Len(b) < BufferCap => q = a
      BY <1>28, <2>1
    <2> QED
      BY <1>26, <2>2
  <1>11. m \in Nat /\ m <= Len(q) /\ Len(b) <= Len(q) /\ Len(q) <= BufferCap
    BY <1>6, <1>7, <1>9
  <1>12. t + 1 <= BufferCap =>
           /\ t <= BufferCap /\ Len(b) = t /\ Len(b) < BufferCap /\ m = n /\ Len(q) = t + 1
           /\ \A i \in 1..Len(b) : q[i] = b[i]
           /\ \A i \in 1..t + 1 : q[i] = <<h, i>>
    <2> SUFFICES ASSUME t + 1 <= BufferCap
                 PROVE  /\ t <= BufferCap /\ Len(b) = t /\ Len(b) < BufferCap /\ m = n /\ Len(q) = t + 1
                        /\ \A i \in 1..Len(b) : q[i] = b[i]
                        /\ \A i \in 1..t + 1 : q[i] = <<h, i>>
      OBVIOUS
    <2>1. t <= BufferCap /\ Len(b) = t /\ Len(b) < BufferCap
      BY <1>7
    <2>2. m = n /\ Len(q) = t + 1
      BY <1>6, <1>9, <2>1
    <2>3. (\A i \in 1..t : q[i] = b[i]) /\ q[t + 1] = <<h, t + 1>>
      BY <1>8, <1>10, <2>1
    <2>4. ASSUME NEW i \in 1..t + 1 PROVE q[i] = <<h, i>>
      <3>1. CASE i = t + 1
        BY <2>3, <3>1
      <3>2. CASE i \in 1..t
        BY <1>7, <2>1, <2>3, <3>2
      <3> QED
        BY <3>1, <3>2
    <2> QED
      BY <2>1, <2>2, <2>3, <2>4
  <1>13. handle \in [Handles -> HandleType] /\ task \in [Handles -> TaskStages]
    BY DEF TerminalInv, TerminalTypes
  <1>14. handle' = [handle EXCEPT ![h].taken = t + 1, ![h].buffer = q, ![h].flushed = m]
    BY <1>4, <1>5, <1>6, <1>13 DEF Receive, HandleType
  <1>15. /\ handle' \in [Handles -> HandleType] /\ \A g \in Handles \ {h} : handle'[g] = handle[g]
         /\ handle'[h].taken = t + 1 /\ handle'[h].buffer = q /\ handle'[h].flushed = m
    <2>1. handle[h] \in HandleType /\ t + 1 \in Nat
      BY <1>13
    <2>2. handle'[h] = [handle[h] EXCEPT !.taken = t + 1, !.buffer = q, !.flushed = m]
      BY <1>13, <1>14
    <2>3. handle'[h].taken = t + 1 /\ handle'[h].buffer = q /\ handle'[h].flushed = m /\ handle'[h] \in HandleType
      BY <1>9, <1>11, <2>1, <2>2 DEF HandleType
    <2>4. \A g \in Handles \ {h} : handle'[g] = handle[g]
      BY <1>13, <1>14
    <2>5. handle' = [g \in Handles |-> handle'[g]]
      BY <1>13, <1>14
    <2>6. \A g \in Handles : handle'[g] \in HandleType
      BY <1>13, <2>3, <2>4
    <2> QED
      BY <2>3, <2>4, <2>5, <2>6
  <1>16. task' = [task EXCEPT ![h] = "notify"] /\ task' \in [Handles -> TaskStages]
    BY <1>13 DEF Receive, TaskStages
  <1>17. TerminalTypes'
    BY <1>1, <1>15, <1>16 DEF TerminalInv, TerminalTypes
  <1>18. Stopped' /\ CleanUp' /\ RowFirst'
    BY <1>1, <1>2 DEF Stopped, CleanUp, RowFirst, TerminalInv
  <1>19. Places'
    <2>1. \A g \in Handles : Vacant(g) =>
            /\ handle'[g] = NoHandle /\ task'[g] = "none" /\ current' # g /\ close'.h # g
            /\ \A f \in Flushers : flush'[f].h # g
      BY <1>1, <1>3, <1>13, <1>15, <1>16 DEF Vacant
    <2> QED
      BY <1>1, <2>1, PlacesStay DEF TerminalInv, Places
  <1>20. LogGrows
    BY <1>1, SameLog
  <1>21. \A g \in Handles : Grows(g) /\ TaskMoves(g) /\ (g # h => SameBuffer(g))
    <2>1. Grows(h)
      BY <1>4, <1>11, <1>12, <1>15 DEF Grows
    <2>2. \A g \in Handles \ {h} : SameBuffer(g) /\ Grows(g)
      BY <1>15, SameGrows DEF SameBuffer, TerminalInv
    <2>3. \A g \in Handles : TaskMoves(g)
      BY <1>1, <1>13, <1>16 DEF TaskMoves
    <2> QED
      BY <2>1, <2>2, <2>3
  <1>22. BufferOk(h)'
    BY <1>11, <1>12, <1>15 DEF BufferOk
  <1>23. ASSUME NEW g \in Handles PROVE BufferOk(g)' /\ FlushedOk(g)' /\ LastOk(g)'
    <2>1. BufferOk(g) /\ FlushedOk(g) /\ LastOk(g) /\ flush'[g] = flush[g] /\ g \in Flushers
      BY <1>1 DEF TerminalInv, LogInv, Flushers
    <2>2. BufferOk(g)'
      BY <1>21, <1>22, <2>1, BufferStays DEF TaskMoves
    <2>3. handle'[g].taken <= BufferCap => handle'[g].flushed = handle[g].flushed
      BY <1>4, <1>12, <1>15
    <2>4. FlushedOk(g)'
      BY <1>20, <1>21, <2>1, <2>3, FlushedStays DEF TerminalInv
    <2>5. LastOk(g)'
      BY <1>1, <1>20, <1>21, <2>1, LastStays DEF TerminalInv, SameBuffer
    <2> QED
      BY <2>2, <2>4, <2>5
  <1>24. ASSUME NEW f \in Flushers PROVE FlushOk(f)'
    <2>1. FlushOk(f) /\ flush'[f] = flush[f]
      BY <1>1 DEF TerminalInv, LogInv
    <2>2. flush[f].at \in Flushing => flush[f].h \in Handles
      BY <2>1, FlushesHandle DEF TerminalInv
    <2> QED
      BY <1>17, <1>20, <1>21, <2>1, <2>2, FlushStays DEF TerminalInv
  <1>25. LogInv'
    BY <1>23, <1>24 DEF LogInv
  <1> QED
    BY <1>17, <1>18, <1>19, <1>25 DEF TerminalInv

-------------------------------------------------------------------------------
(* Flushes.                                                                   *)

\* What flushes have in common: one flusher goes on, and no buffer changes.
LEMMA FlushSteps ==
    ASSUME TerminalInv, TerminalTypes', CleanUp', NEW f \in Flushers,
           UNCHANGED <<process, current, caller>>, app # "down", app' # "down",
           row'.status = row.status, row.status = "none" => row'.log = row.log,
           \A g \in Flushers \ {f} : flush'[g] = flush[g],
           \A h \in Handles : Vacant(h) =>
               handle'[h] = NoHandle /\ task'[h] = "none" /\ close'.h # h /\ flush'[f].h # h,
           close'.at \in {"flush", "take", "kill", "save", "remove"} => close'.h \in Handles,
           LogGrows,
           \A h \in Handles : handle'[h].buffer = handle[h].buffer /\ handle'[h].taken = handle[h].taken,
           \A h \in Handles : BufferOk(h)' /\ FlushedOk(h)',
           \A h \in Handles \ {f} : task'[h] = task[h],
           f \in Handles => LastOk(f)',
           FlushOk(f)'
    PROVE  TerminalInv'
  <1>1. Stopped' /\ RowFirst'
    BY DEF Stopped, RowFirst, TerminalInv
  <1>2. Places'
    <2>1. \A h \in Handles : Vacant(h) =>
            /\ handle'[h] = NoHandle /\ task'[h] = "none" /\ current' # h /\ close'.h # h
            /\ \A g \in Flushers : flush'[g].h # h
      BY DEF Vacant
    <2> QED
      BY <2>1, PlacesStay DEF TerminalInv
  <1>3. \A h \in Handles : Grows(h)
    BY BufferTypes DEF Grows, TerminalInv
  <1>4. ASSUME NEW h \in Handles PROVE LastOk(h)'
    <2>1. CASE h # f
      <3>1. LastOk(h) /\ flush'[h] = flush[h] /\ TaskMoves(h)
        BY <2>1 DEF TerminalInv, LogInv, Flushers, TaskMoves
      <3> QED
        BY <1>3, <3>1, LastStays DEF TerminalInv
    <2> QED
      BY <2>1
  <1>5. ASSUME NEW g \in Flushers PROVE FlushOk(g)'
    <2>1. CASE g # f
      <3>1. FlushOk(g) /\ flush'[g] = flush[g]
        BY <2>1 DEF TerminalInv, LogInv
      <3>2. flush[g].at \in Flushing => flush[g].h \in Handles
        BY <3>1, FlushesHandle DEF TerminalInv
      <3> QED
        BY <1>3, <3>1, <3>2, FlushStays DEF TerminalInv
    <2> QED
      BY <2>1
  <1>6. LogInv'
    BY <1>4, <1>5 DEF LogInv
  <1> QED
    BY <1>1, <1>2, <1>6 DEF TerminalInv

LEMMA SameBuffers ==
    ASSUME TerminalInv, LogGrows, NEW h \in Handles, SameBuffer(h), task[h] = "none" => task'[h] = "none"
    PROVE  BufferOk(h)' /\ FlushedOk(h)'
  <1>1. BufferOk(h) /\ FlushedOk(h) /\ Grows(h)
    BY SameGrows DEF TerminalInv, LogInv
  <1>2. BufferOk(h)'
    BY <1>1, BufferStays
  <1>3. FlushedOk(h)'
    BY <1>1, FlushedStays DEF TerminalInv, SameBuffer
  <1> QED
    BY <1>2, <1>3

\* A flush begins where the last one has ended, and that much is in the log.
LEMMA FlushReadsOk ==
    ASSUME TerminalInv, NEW f \in Flushers, NEW h \in Handles, FlushReads(f, h),
           f \in Handles => f = h, UNCHANGED <<handle, row>>
    PROVE  /\ flush' \in [Flushers -> FlushType] /\ \A g \in Flushers \ {f} : flush'[g] = flush[g]
           /\ FlushOk(f)' /\ flush'[f].h \in {h, Nobody}
           /\ \/ /\ flush'[f] = AtRest
                 /\ Complete(h)' => LoggedUpTo(h, Len(handle[h].buffer))'
              \/ /\ flush'[f].at = "slice" /\ flush'[f].to = Len(handle'[h].buffer)
  <1>1. flush \in [Flushers -> FlushType] /\ h # Nobody
    BY TerminalAssumption DEF TerminalInv, TerminalTypes
  <1>2. PICK len \in Nat, from \in Nat : len = Len(handle[h].buffer) /\ from = handle[h].flushed
    BY BufferTypes DEF TerminalInv
  <1>3. BufferOk(h) /\ FlushedOk(h)
    BY DEF TerminalInv, LogInv
  <1>4. CASE len <= from
    <2>1. flush' = [flush EXCEPT ![f] = AtRest]
      BY <1>2, <1>4 DEF FlushReads
    <2>2. AtRest \in FlushType /\ AtRest.at = "rest" /\ AtRest.h = Nobody
      BY DEF AtRest, FlushType, Chunks
    <2>3. flush' \in [Flushers -> FlushType] /\ flush'[f] = AtRest /\ \A g \in Flushers \ {f} : flush'[g] = flush[g]
      BY <1>1, <2>1, <2>2
    <2>4. FlushOk(f)'
      BY <2>2, <2>3 DEF FlushOk, Flushing
    <2>5. from = len
      BY <1>2, <1>3, <1>4 DEF BufferOk
    <2>6. ASSUME Complete(h)' PROVE LoggedUpTo(h, Len(handle[h].buffer))'
      <3>1. Complete(h)
        BY <2>6 DEF Complete, Whole
      <3>2. LoggedUpTo(h, len)
        BY <1>2, <1>3, <2>5, <3>1 DEF FlushedOk
      <3> QED
        BY <1>2, <3>2 DEF LoggedUpTo, Logged
    <2> QED
      BY <2>2, <2>3, <2>4, <2>6
  <1>5. CASE len > from
    <2> DEFINE r == [at |-> "slice", h |-> h, from |-> from, to |-> len, window |-> <<>>]
    <2>0. ~(Len(handle[h].buffer) <= handle[h].flushed)
      BY <1>2, <1>5
    <2>1. flush' = [flush EXCEPT ![f] = r]
      BY <1>2, <2>0 DEF FlushReads
    <2>2. r \in FlushType
      BY <1>2 DEF FlushType, Chunks
    <2>3. flush' \in [Flushers -> FlushType] /\ flush'[f] = r /\ \A g \in Flushers \ {f} : flush'[g] = flush[g]
      BY <1>1, <2>1, <2>2
    <2>4. Complete(h)' => LoggedUpTo(h, from)'
      <3>1. Complete(h)' => Complete(h)
        BY DEF Complete, Whole
      <3>2. Complete(h) => LoggedUpTo(h, from)
        BY <1>2, <1>3 DEF FlushedOk
      <3> QED
        BY <3>1, <3>2 DEF LoggedUpTo, Logged
    <2>5. r.at = "slice" /\ r.h = h /\ r.from = from /\ r.to = len
      OBVIOUS
    <2> HIDE DEF r
    <2>6. FlushOk(f)'
      BY <1>1, <1>2, <1>5, <2>3, <2>4, <2>5 DEF FlushOk, Flushing, LoggedUpTo
    <2> QED
      BY <1>2, <2>3, <2>5, <2>6
  <1> QED
    BY <1>2, <1>4, <1>5

LEMMA FlushIfDueKeeps ==
    ASSUME TerminalInv, FlushIfDue
    PROVE  TerminalInv'
  <1>1. app # "down" /\ current # Nobody /\ FlushReads("timer", current)
        /\ UNCHANGED <<app, current, process, handle, task, close, row, caller>>
    BY DEF FlushIfDue, uiVars
  <1>2. PICK f \in Flushers : f = "timer" /\ f \notin Handles
    BY TerminalAssumption DEF Flushers
  <1>3. PICK h \in Handles : h = current
    BY <1>1 DEF TerminalInv, TerminalTypes
  <1>4. ~Vacant(h)
    BY <1>3, NotVacant
  <1>5. /\ flush' \in [Flushers -> FlushType] /\ \A g \in Flushers \ {f} : flush'[g] = flush[g]
        /\ FlushOk(f)' /\ flush'[f].h \in {h, Nobody}
    BY <1>1, <1>2, <1>3, FlushReadsOk
  <1>6. TerminalTypes'
    BY <1>1, <1>5 DEF TerminalInv, TerminalTypes
  <1>7. LogGrows
    BY <1>1, SameLog
  <1>8. \A g \in Handles : BufferOk(g)' /\ FlushedOk(g)'
    BY <1>1, <1>7, SameBuffers DEF SameBuffer
  <1>9. \A g \in Handles : Vacant(g) =>
          handle'[g] = NoHandle /\ task'[g] = "none" /\ close'.h # g /\ flush'[f].h # g
    BY <1>1, <1>4, <1>5, TerminalAssumption DEF Vacant
  <1>30. CleanUp'
    <2>1. "exit" \in Flushers /\ "exit" \notin Handles
      BY TerminalAssumption DEF Flushers
    <2> QED
      BY <1>1, <1>2, <1>5, <2>1 DEF CleanUp, TerminalInv, Flushing
  <1> QED
    BY <1>1, <1>2, <1>5, <1>6, <1>7, <1>8, <1>9, <1>30, FlushSteps DEF TerminalInv, Places

LEMMA FlushAllPendingKeeps ==
    ASSUME TerminalInv, NEW h \in Handles, FlushAllPending(h)
    PROVE  TerminalInv'
  <1>1. task[h] = "flush" /\ FlushReads(h, h)
        /\ task' = [task EXCEPT ![h] = IF flush'[h] = AtRest THEN "flushed" ELSE "flushing"]
        /\ UNCHANGED <<app, current, process, handle, close, row, caller>>
    BY DEF FlushAllPending, uiVars
  <1>2. app # "down"
    BY <1>1 DEF TerminalInv, Stopped
  <1>3. h \in Flushers
    BY DEF Flushers
  <1>4. ~Vacant(h)
    BY <1>1, NotVacant
  <1>5. /\ flush' \in [Flushers -> FlushType] /\ \A g \in Flushers \ {h} : flush'[g] = flush[g]
        /\ FlushOk(h)' /\ flush'[h].h \in {h, Nobody}
        /\ \/ flush'[h] = AtRest /\ (Complete(h)' => LoggedUpTo(h, Len(handle[h].buffer))')
           \/ flush'[h].at = "slice" /\ flush'[h].to = Len(handle'[h].buffer)
    BY <1>1, <1>3, FlushReadsOk
  <1>6. task \in [Handles -> TaskStages]
    BY DEF TerminalInv, TerminalTypes
  <1>7. /\ task' \in [Handles -> TaskStages] /\ \A g \in Handles \ {h} : task'[g] = task[g]
        /\ task'[h] = IF flush'[h] = AtRest THEN "flushed" ELSE "flushing"
    BY <1>1, <1>6 DEF TaskStages
  <1>8. TerminalTypes'
    BY <1>1, <1>5, <1>7 DEF TerminalInv, TerminalTypes
  <1>9. LogGrows
    BY <1>1, SameLog
  <1>10. \A g \in Handles : BufferOk(g)' /\ FlushedOk(g)'
    BY <1>1, <1>7, <1>9, SameBuffers DEF SameBuffer
  <1>11. \A g \in Handles : Vacant(g) =>
           handle'[g] = NoHandle /\ task'[g] = "none" /\ close'.h # g /\ flush'[h].h # g
    BY <1>1, <1>4, <1>5, <1>7, TerminalAssumption DEF Vacant
  <1>12. LastOk(h)'
    <2>1. CASE flush'[h] = AtRest /\ (Complete(h)' => LoggedUpTo(h, Len(handle[h].buffer))')
      BY <1>7, <2>1 DEF LastOk, AtRest
    <2>2. CASE flush'[h].at = "slice" /\ flush'[h].to = Len(handle'[h].buffer)
      BY <1>7, <2>2 DEF LastOk, AtRest, Flushing
    <2> QED
      BY <1>5, <2>1, <2>2
  <1>30. CleanUp'
    <2>1. "exit" \in Flushers /\ "exit" \notin Handles
      BY TerminalAssumption DEF Flushers
    <2> QED
      BY <1>1, <1>5, <2>1 DEF CleanUp, TerminalInv, Flushing
  <1> QED
    BY <1>1, <1>2, <1>3, <1>5, <1>7, <1>8, <1>9, <1>10, <1>11, <1>12, <1>30, FlushSteps DEF TerminalInv, Places

LEMMA CloseBeginKeeps ==
    ASSUME TerminalInv, CloseBegin
    PROVE  TerminalInv'
  <1>1. app = "up" /\ app' = "closing" /\ UNCHANGED <<current, process, handle, task, row, caller>>
    BY DEF CloseBegin, uiVars
  <1>2. PICK f \in Flushers : f = "exit" /\ f \notin Handles
    BY TerminalAssumption DEF Flushers
  <1>3. LogGrows
    BY <1>1, SameLog
  <1>4. CASE current = Nobody
    <2>1. close' = [NotClosing EXCEPT !.at = "over"] /\ UNCHANGED flush
      BY <1>4 DEF CloseBegin
    <2>2. close' \in CloseType /\ close'.h = Nobody /\ close'.at = "over"
      BY <2>1 DEF NotClosing, CloseType, HandleStates
    <2>3. TerminalTypes' /\ Stopped' /\ CleanUp'
      BY <1>1, <2>1, <2>2 DEF TerminalInv, TerminalTypes, Stopped, CleanUp
    <2>4. \A h \in Handles : Vacant(h) => handle'[h] = NoHandle /\ task'[h] = "none" /\ current' # h /\ close'.h # h
      BY <1>1, <2>2, TerminalAssumption DEF Vacant
    <2>5. \A h \in Handles : SameBuffer(h) /\ TaskMoves(h)
      BY <1>1 DEF SameBuffer, TaskMoves
    <2> QED
      BY <1>1, <2>1, <2>2, <2>3, <2>4, <2>5, QuietSteps
  <1>5. CASE current # Nobody
    <2>1. PICK h \in Handles : h = current
      BY <1>5 DEF TerminalInv, TerminalTypes
    <2>2. FlushReads(f, h) /\ close' = [at |-> IF flush'["exit"] = AtRest THEN "take" ELSE "flush",
                                        h |-> h, was |-> "none"]
      BY <1>2, <1>5, <2>1 DEF CloseBegin
    <2>3. ~Vacant(h)
      BY <2>1, NotVacant
    <2>4. /\ flush' \in [Flushers -> FlushType] /\ \A g \in Flushers \ {f} : flush'[g] = flush[g]
          /\ FlushOk(f)' /\ flush'[f].h \in {h, Nobody}
      BY <1>1, <1>2, <2>2, FlushReadsOk
    <2>5. close' \in CloseType /\ close'.h = h
      BY <2>2 DEF CloseType, HandleStates
    <2>6. TerminalTypes'
      BY <1>1, <2>4, <2>5 DEF TerminalInv, TerminalTypes
    <2>7. \A g \in Handles : BufferOk(g)' /\ FlushedOk(g)'
      BY <1>1, <1>3, SameBuffers DEF SameBuffer
    <2>8. \A g \in Handles : Vacant(g) =>
            handle'[g] = NoHandle /\ task'[g] = "none" /\ close'.h # g /\ flush'[f].h # g
      BY <1>1, <2>3, <2>4, <2>5, TerminalAssumption DEF Vacant
    <2>9. CleanUp'
      BY <1>1, <1>2, <2>2, <2>4 DEF CleanUp, Flushing, AtRest, FlushReads
    <2> QED
      BY <1>1, <1>2, <1>3, <2>4, <2>5, <2>6, <2>7, <2>8, <2>9, FlushSteps
  <1> QED
    BY <1>4, <1>5

LEMMA FlushSliceKeeps ==
    ASSUME TerminalInv, NEW f \in Flushers, FlushSlice(f)
    PROVE  TerminalInv'
  <1>1. flush[f].at = "slice" /\ UNCHANGED <<app, current, process, handle, task, close, row, caller>>
    BY DEF FlushSlice, uiVars
  <1>2. app # "down"
    BY <1>1 DEF TerminalInv, Stopped, AtRest
  <1>3. FlushOk(f) /\ flush \in [Flushers -> FlushType] /\ flush[f] \in FlushType
    BY DEF TerminalInv, LogInv, TerminalTypes
  <1>4. PICK h \in Handles : h = flush[f].h
    BY <1>1, <1>3, FlushesHandle DEF TerminalInv, Flushing
  <1>5. ~Vacant(h)
    BY <1>4, NotVacant
  <1>6. PICK b \in Seq(Chunks), m \in Nat, n \in Nat : b = handle[h].buffer /\ m = flush[f].from /\ n = flush[f].to
    BY <1>3, BufferTypes DEF TerminalInv, FlushType
  <1>7. m < n /\ n <= Len(b)
    BY <1>1, <1>3, <1>4, <1>6 DEF FlushOk, Flushing
  <1>8. PICK w \in Seq(Chunks) : w = SubSeq(b, m + 1, n)
    BY <1>7, WindowIs
  <1>9. flush' = [flush EXCEPT ![f].at = "append", ![f].window = w]
    BY <1>4, <1>6, <1>8 DEF FlushSlice
  <1>10. flush'[f] = [flush[f] EXCEPT !.at = "append", !.window = w]
    BY <1>3, <1>9
  <1>11. /\ flush'[f] \in FlushType /\ flush'[f].at = "append" /\ flush'[f].window = w
         /\ flush'[f].h = h /\ flush'[f].from = m /\ flush'[f].to = n
    BY <1>3, <1>4, <1>6, <1>10 DEF FlushType
  <1>12. \A g \in Flushers \ {f} : flush'[g] = flush[g]
    BY <1>3, <1>9
  <1>13. flush' = [g \in Flushers |-> flush'[g]]
    BY <1>3, <1>9
  <1>14. flush' \in [Flushers -> FlushType]
    BY <1>3, <1>11, <1>12, <1>13
  <1>15. TerminalTypes'
    BY <1>1, <1>14 DEF TerminalInv, TerminalTypes
  <1>16. LogGrows
    BY <1>1, SameLog
  <1>17. \A g \in Handles : BufferOk(g)' /\ FlushedOk(g)'
    BY <1>1, <1>16, SameBuffers DEF SameBuffer
  <1>18. \A g \in Handles : Vacant(g) =>
           handle'[g] = NoHandle /\ task'[g] = "none" /\ close'.h # g /\ flush'[f].h # g
    BY <1>1, <1>5, <1>11 DEF Vacant
  <1>19. FlushOk(f)'
    <2>1. Complete(h)' => LoggedUpTo(h, m)'
      <3>1. Complete(h) => LoggedUpTo(h, m)
        BY <1>1, <1>3, <1>4, <1>6 DEF FlushOk, Flushing
      <3> QED
        BY <1>1, <3>1 DEF Complete, Whole, LoggedUpTo, Logged
    <2>2. f \in Handles => h = f
      BY <1>1, <1>3, <1>4 DEF FlushOk, Flushing
    <2>3. w = SubSeq(handle'[h].buffer, m + 1, n) /\ n <= Len(handle'[h].buffer)
      BY <1>1, <1>6, <1>7, <1>8
    <2> QED
      BY <1>7, <1>11, <2>1, <2>2, <2>3, TerminalAssumption DEF FlushOk, Flushing, LoggedUpTo
  <1>20. f \in Handles => LastOk(f)'
    <2> SUFFICES ASSUME f \in Handles PROVE LastOk(f)'
      OBVIOUS
    <2>1. LastOk(f) /\ h = f
      BY <1>1, <1>3, <1>4 DEF TerminalInv, LogInv, FlushOk, Flushing
    <2>2. task[f] = "flushing" /\ flush[f].to = Len(handle[f].buffer)
      BY <1>1, <2>1 DEF LastOk, TerminalInv, TerminalTypes, TaskStages
    <2> QED
      BY <1>1, <1>6, <1>11, <2>2 DEF LastOk, Flushing
  <1>30. CleanUp'
    <2>1. "exit" \in Flushers /\ "exit" \notin Handles
      BY TerminalAssumption DEF Flushers
    <2> QED
      BY <1>1, <1>11, <1>12, <2>1 DEF CleanUp, TerminalInv, Flushing
  <1> QED
    BY <1>1, <1>2, <1>12, <1>15, <1>16, <1>17, <1>18, <1>19, <1>20, <1>30, FlushSteps DEF TerminalInv, Places

\* Where a flush ends, the task or the clean-up goes on.
LEMMA FlushEnds ==
    ASSUME TerminalInv, NEW f \in Flushers, flush[f].at \in Flushing, FlushOver(f)
    PROVE  /\ app # "down" /\ flush[f].h \in Handles /\ ~Vacant(flush[f].h) /\ row.status # "none"
           /\ f \in Handles => flush[f].h = f /\ task[f] = "flushing" /\ flush[f].to = Len(handle[f].buffer)
           /\ task' \in [Handles -> TaskStages] /\ \A h \in Handles \ {f} : task'[h] = task[h]
           /\ f \in Handles => task'[f] = "flushed"
           /\ close' \in CloseType /\ close'.h = close.h
           /\ close'.at \in {"flush", "take", "kill", "save", "remove"} => close'.h \in Handles
           /\ \A h \in Handles : task[h] = "none" => task'[h] = "none"
           /\ \A h \in Handles : Vacant(h) => task'[h] = "none" /\ close'.h # h
  <1>1. FlushOk(f) /\ task \in [Handles -> TaskStages] /\ close \in CloseType
    BY DEF TerminalInv, LogInv, TerminalTypes
  <1>2. app # "down"
    BY DEF TerminalInv, Stopped, AtRest, Flushing
  <1>3. PICK h \in Handles : h = flush[f].h
    BY <1>1, FlushesHandle DEF TerminalInv
  <1>4. ~Vacant(h) /\ row.status # "none"
    BY <1>3, NotVacant
  <1>5. f \in Handles => h = f
    BY <1>1, <1>3 DEF FlushOk
  <1>6. f \in Handles => task[f] = "flushing" /\ flush[f].to = Len(handle[f].buffer)
    <2> SUFFICES ASSUME f \in Handles PROVE task[f] = "flushing" /\ flush[f].to = Len(handle[f].buffer)
      OBVIOUS
    <2>1. LastOk(f) /\ task[f] \in TaskStages
      BY <1>1 DEF TerminalInv, LogInv
    <2> QED
      BY <2>1 DEF LastOk, TaskStages, Flushing
  <1>7. task' \in [Handles -> TaskStages] /\ (\A g \in Handles \ {f} : task'[g] = task[g])
        /\ (f \in Handles => task'[f] = "flushed")
    BY <1>1 DEF FlushOver, TaskStages
  <1>8. close' \in CloseType /\ close'.h = close.h
    BY <1>1 DEF FlushOver, CloseType
  <1>9. close'.at \in {"flush", "take", "kill", "save", "remove"} => close'.h \in Handles
    <2>1. CASE f # "exit"
      BY <2>1 DEF FlushOver, TerminalInv, Places
    <2>2. CASE f = "exit"
      BY <1>8, <2>2 DEF TerminalInv, CleanUp, Places
    <2> QED
      BY <2>1, <2>2
  <1>10. \A g \in Handles : task[g] = "none" => task'[g] = "none"
    BY <1>6, <1>7
  <1>11. \A g \in Handles : Vacant(g) => task'[g] = "none" /\ close'.h # g
    BY <1>8, <1>10 DEF Vacant
  <1> QED
    BY <1>2, <1>3, <1>4, <1>5, <1>6, <1>7, <1>8, <1>9, <1>10, <1>11

LEMMA FlushAppendKeeps ==
    ASSUME TerminalInv, NEW f \in Flushers, FlushAppend(f)
    PROVE  TerminalInv'
  <1>1. flush[f].at = "append" /\ UNCHANGED <<app, current, process, handle, caller>>
    BY DEF FlushAppend, uiVars
  <1>2. FlushOk(f) /\ flush \in [Flushers -> FlushType] /\ flush[f] \in FlushType /\ row \in RowType
        /\ task \in [Handles -> TaskStages] /\ close \in CloseType
    BY DEF TerminalInv, LogInv, TerminalTypes
  <1>3. PICK h \in Handles : h = flush[f].h
    BY <1>1, <1>2, FlushesHandle DEF TerminalInv, Flushing
  <1>4. ~Vacant(h) /\ row.status # "none"
    BY <1>3, NotVacant
  <1>5. app # "down"
    BY <1>1 DEF TerminalInv, Stopped, AtRest
  <1>6. "exit" \in Flushers /\ "exit" \notin Handles
    BY TerminalAssumption DEF Flushers
  <1>7. CASE row' = [row EXCEPT !.log = Appended(@, flush[f].window)] /\ Flush(f, "set") /\ UNCHANGED <<task, close>>
    <2>1. PICK b \in Seq(Chunks), m \in Nat, n \in Nat, w \in Seq(Chunks), log \in Seq(Chunks) :
            b = handle[h].buffer /\ m = flush[f].from /\ n = flush[f].to /\ w = flush[f].window /\ log = row.log
      BY <1>2, BufferTypes DEF TerminalInv, FlushType, RowType
    <2>2. m < n /\ n <= Len(b) /\ (f \in Handles => h = f)
          /\ (Complete(h) => LoggedUpTo(h, m) /\ w = SubSeq(b, m + 1, n))
      BY <1>1, <1>2, <1>3, <2>1 DEF FlushOk, Flushing
    <2>3. Appended(log, w) \in Seq(Chunks) /\ (Len(Appended(log, w)) < LogCap => Len(log) < LogCap /\ Appended(log, w) = log \o w)
      BY AppendedIs
    <2>4. row' \in RowType /\ row'.log = Appended(log, w) /\ row'.status = row.status
      BY <1>2, <1>7, <2>1, <2>3 DEF RowType
    <2>5. /\ Len(log) \in Nat /\ Len(w) \in Nat /\ DOMAIN (log \o w) = 1..Len(log) + Len(w) /\ DOMAIN log = 1..Len(log)
          /\ \A i \in 1..Len(log) : (log \o w)[i] = log[i]
          /\ \A i \in 1..Len(w) : (log \o w)[Len(log) + i] = w[i]
      BY ConcatIs, LenProperties
    <2>6. Whole' => Whole /\ row'.log = log \o w
      BY <2>1, <2>3, <2>4 DEF Whole
    <2>7. LogGrows
      <3> SUFFICES ASSUME Whole', NEW k \in Chunks, Logged(k) PROVE Logged(k)'
        BY <2>6 DEF LogGrows
      <3>1. PICK i \in 1..Len(log) : log[i] = k
        BY <2>1, <2>5 DEF Logged
      <3>2. i \in 1..Len(log) + Len(w) /\ (log \o w)[i] = k
        BY <2>5, <3>1
      <3> QED
        BY <2>5, <2>6, <3>2 DEF Logged
    <2>8. \A g \in Handles : SameBuffer(g) /\ Grows(g)
      BY <1>1, SameGrows DEF SameBuffer, TerminalInv
    <2>9. Complete(h)' => LoggedUpTo(h, n)'
      <3> SUFFICES ASSUME Complete(h)', NEW i \in 1..n PROVE Logged(handle[h].buffer[i])'
        BY DEF LoggedUpTo
      <3>1. Complete(h) /\ LoggedUpTo(h, m) /\ w = SubSeq(b, m + 1, n) /\ row'.log = log \o w
        BY <2>2, <2>6, <2>7, <2>8, CompleteBefore DEF Complete
      <3>2. CASE i <= m
        <4>0. m <= Len(handle[h].buffer) /\ Grows(h)
          BY <2>1, <2>2, <2>8, LenProperties
        <4>1. LoggedUpTo(h, m)'
          BY <2>7, <3>1, <4>0, LoggedStays DEF TerminalInv
        <4> QED
          BY <3>2, <4>1 DEF LoggedUpTo
      <3>3. CASE i > m
        <4>1. Len(w) = n - m /\ \A j \in 1..n - m : w[j] = b[m + j]
          BY <2>2, <3>1, WindowIs
        <4>2. PICK j \in 1..n - m : i = m + j
          <5>1. i - m \in 1..n - m /\ i = m + (i - m)
            BY <3>3
          <5> QED
            BY <5>1
        <4>4. i - m = j /\ w[i - m] = b[i]
          BY <4>1, <4>2
        <4>3. (log \o w)[Len(log) + (i - m)] = b[i] /\ Len(log) + (i - m) \in 1..Len(log) + Len(w)
          BY <2>5, <4>1, <4>2, <4>4
        <4> QED
          BY <1>1, <2>1, <2>5, <3>1, <4>3 DEF Logged
      <3> QED
        BY <3>2, <3>3
    <2>10. flush' = [flush EXCEPT ![f].at = "set"]
      BY <1>7 DEF Flush
    <2>11. /\ flush' \in [Flushers -> FlushType] /\ \A g \in Flushers \ {f} : flush'[g] = flush[g]
           /\ flush'[f].at = "set" /\ flush'[f].h = h /\ flush'[f].from = m /\ flush'[f].to = n
      BY <1>2, <1>3, <2>1, <2>10 DEF FlushType
    <2>12. TerminalTypes'
      BY <1>1, <1>2, <1>7, <2>4, <2>11 DEF TerminalInv, TerminalTypes
    <2>13. CleanUp'
      BY <1>1, <1>6, <1>7, <2>11 DEF CleanUp, TerminalInv, Flushing
    <2>14. \A g \in Handles : BufferOk(g)' /\ FlushedOk(g)'
      BY <1>7, <2>7, <2>8, SameBuffers
    <2>15. \A g \in Handles : Vacant(g) =>
             handle'[g] = NoHandle /\ task'[g] = "none" /\ close'.h # g /\ flush'[f].h # g
      BY <1>1, <1>4, <1>7, <2>11 DEF Vacant
    <2>16. FlushOk(f)'
      <3>1. n <= Len(handle'[h].buffer) /\ h # Nobody /\ f \notin {} /\ (f \in Handles => h = f)
        BY <1>1, <2>1, <2>2, TerminalAssumption
      <3>2. Complete(h)' => LoggedUpTo(h, m)'
        BY <2>2, <2>9 DEF LoggedUpTo
      <3> QED
        BY <2>2, <2>9, <2>11, <3>1, <3>2 DEF FlushOk, Flushing, LoggedUpTo
    <2>17. f \in Handles => LastOk(f)'
      <3> SUFFICES ASSUME f \in Handles PROVE LastOk(f)'
        OBVIOUS
      <3>1. LastOk(f) /\ h = f /\ task[f] \in TaskStages
        BY <1>2, <2>2 DEF TerminalInv, LogInv
      <3>2. task[f] = "flushing" /\ flush[f].to = Len(handle[f].buffer)
        BY <1>1, <3>1 DEF LastOk, TaskStages
      <3> QED
        BY <1>1, <1>7, <2>1, <2>11, <3>2 DEF LastOk, Flushing
    <2> QED
      BY <1>1, <1>4, <1>5, <1>7, <2>4, <2>7, <2>8, <2>11, <2>12, <2>13, <2>14, <2>15, <2>16, <2>17, FlushSteps
         DEF SameBuffer, TerminalInv, Places
  <1>8. CASE /\ FlushOver(f) /\ UNCHANGED row
             /\ flush' = [flush EXCEPT ![f] = IF f \in Handles THEN [AtRest EXCEPT !.at = "failed"] ELSE AtRest]
    <2>1. /\ task' \in [Handles -> TaskStages] /\ \A g \in Handles \ {f} : task'[g] = task[g]
          /\ f \in Handles => task'[f] = "flushed"
          /\ close' \in CloseType
          /\ close'.at \in {"flush", "take", "kill", "save", "remove"} => close'.h \in Handles
          /\ \A g \in Handles : task[g] = "none" => task'[g] = "none"
          /\ \A g \in Handles : Vacant(g) => task'[g] = "none" /\ close'.h # g
      BY <1>1, <1>8, FlushEnds DEF Flushing
    <2>2. PICK x \in FlushType : /\ x.at = (IF f \in Handles THEN "failed" ELSE "rest") /\ x.h = Nobody
                                 /\ flush' = [flush EXCEPT ![f] = x]
      <3>2. [AtRest EXCEPT !.at = "failed"] = [at |-> "failed", h |-> Nobody, from |-> 0, to |-> 0, window |-> <<>>]
        BY DEF AtRest
      <3>3. <<>> \in Seq(Chunks)
        OBVIOUS
      <3>4. AtRest \in FlushType
        BY <3>3 DEF AtRest, FlushType
      <3>5. [at |-> "failed", h |-> Nobody, from |-> 0, to |-> 0, window |-> <<>>] \in FlushType
        BY <3>3 DEF FlushType
      <3>1. AtRest \in FlushType /\ [AtRest EXCEPT !.at = "failed"] \in FlushType
        BY <3>2, <3>4, <3>5
      <3> QED
        BY <1>8, <3>1 DEF AtRest
    <2>3. flush' \in [Flushers -> FlushType] /\ flush'[f] = x /\ \A g \in Flushers \ {f} : flush'[g] = flush[g]
      BY <1>2, <2>2
    <2>4. TerminalTypes'
      BY <1>1, <1>8, <2>1, <2>3 DEF TerminalInv, TerminalTypes
    <2>5. CleanUp'
      BY <1>1, <1>5, <1>6, <1>8, <2>2, <2>3 DEF CleanUp, TerminalInv, Flushing, FlushOver
    <2>6. LogGrows
      BY <1>8, SameLog
    <2>7. \A g \in Handles : BufferOk(g)' /\ FlushedOk(g)'
      BY <1>1, <2>1, <2>6, SameBuffers DEF SameBuffer
    <2>8. \A g \in Handles : Vacant(g) =>
            handle'[g] = NoHandle /\ task'[g] = "none" /\ close'.h # g /\ flush'[f].h # g
      BY <1>1, <2>1, <2>2, <2>3, TerminalAssumption DEF Vacant
    <2>9. FlushOk(f)'
      BY <2>2, <2>3 DEF FlushOk, Flushing
    <2>10. f \in Handles => LastOk(f)'
      BY <2>1, <2>2, <2>3 DEF LastOk
    <2> QED
      BY <1>1, <1>5, <1>8, <2>1, <2>3, <2>4, <2>5, <2>6, <2>7, <2>8, <2>9, <2>10, FlushSteps
  <1> QED
    BY <1>7, <1>8 DEF FlushAppend

LEMMA FlushSetKeeps ==
    ASSUME TerminalInv, NEW f \in Flushers, FlushSet(f)
    PROVE  TerminalInv'
  <1>1. flush[f].at = "set" /\ FlushOver(f) /\ flush' = [flush EXCEPT ![f] = AtRest]
        /\ UNCHANGED <<app, current, process, row, caller>>
    BY DEF FlushSet, uiVars
  <1>2. FlushOk(f) /\ flush \in [Flushers -> FlushType] /\ flush[f] \in FlushType
        /\ handle \in [Handles -> HandleType]
    BY DEF TerminalInv, LogInv, TerminalTypes
  <1>3. PICK h \in Handles : h = flush[f].h
    BY <1>1, <1>2, FlushesHandle DEF TerminalInv, Flushing
  <1>4. ~Vacant(h)
    BY <1>3, NotVacant
  <1>5. app # "down"
    BY <1>1 DEF TerminalInv, Stopped, AtRest
  <1>6. "exit" \in Flushers /\ "exit" \notin Handles
    BY TerminalAssumption DEF Flushers
  <1>7. PICK n \in Nat : n = flush[f].to
    BY <1>2 DEF FlushType
  <1>8. n <= Len(handle[h].buffer) /\ (Complete(h) => LoggedUpTo(h, n)) /\ (f \in Handles => h = f)
    BY <1>1, <1>2, <1>3, <1>7 DEF FlushOk, Flushing
  <1>9. /\ f \in Handles => task[f] = "flushing" /\ flush[f].to = Len(handle[f].buffer)
        /\ task' \in [Handles -> TaskStages] /\ \A g \in Handles \ {f} : task'[g] = task[g]
        /\ f \in Handles => task'[f] = "flushed"
        /\ close' \in CloseType
        /\ close'.at \in {"flush", "take", "kill", "save", "remove"} => close'.h \in Handles
        /\ \A g \in Handles : task[g] = "none" => task'[g] = "none"
        /\ \A g \in Handles : Vacant(g) => task'[g] = "none" /\ close'.h # g
    BY <1>1, FlushEnds DEF Flushing
  <1>10. AtRest \in FlushType /\ AtRest.at = "rest" /\ AtRest.h = Nobody
    BY DEF AtRest, FlushType, Chunks
  <1>11. flush' \in [Flushers -> FlushType] /\ flush'[f] = AtRest /\ \A g \in Flushers \ {f} : flush'[g] = flush[g]
    BY <1>1, <1>2, <1>10
  <1>12. handle' = [handle EXCEPT ![h].flushed = n]
    BY <1>3, <1>7 DEF FlushSet
  <1>13. /\ handle' \in [Handles -> HandleType] /\ \A g \in Handles \ {h} : handle'[g] = handle[g]
         /\ handle'[h].flushed = n
         /\ \A g \in Handles : handle'[g].buffer = handle[g].buffer /\ handle'[g].taken = handle[g].taken
    BY <1>2, <1>12 DEF HandleType
  <1>14. TerminalTypes'
    BY <1>1, <1>9, <1>11, <1>13 DEF TerminalInv, TerminalTypes
  <1>15. CleanUp'
    BY <1>1, <1>5, <1>6, <1>10, <1>11 DEF CleanUp, TerminalInv, Flushing, FlushOver
  <1>16. LogGrows
    BY <1>1, SameLog
  <1>17. Complete(h)' => LoggedUpTo(h, n)'
    BY <1>1, <1>8, <1>13 DEF Complete, Whole, LoggedUpTo, Logged
  <1>18. BufferOk(h)' /\ FlushedOk(h)'
    <2>1. BufferOk(h)
      BY DEF TerminalInv, LogInv
    <2>2. BufferOk(h)'
      BY <1>8, <1>9, <1>13, <2>1 DEF BufferOk
    <2>3. FlushedOk(h)'
      BY <1>13, <1>17 DEF FlushedOk, LoggedUpTo
    <2> QED
      BY <2>2, <2>3
  <1>19. ASSUME NEW g \in Handles PROVE BufferOk(g)' /\ FlushedOk(g)'
    <2>1. CASE g # h
      <3>1. SameBuffer(g)
        BY <1>13, <2>1 DEF SameBuffer
      <3> QED
        BY <1>9, <1>16, <3>1, SameBuffers
    <2> QED
      BY <1>18, <2>1
  <1>20. \A g \in Handles : Vacant(g) =>
           handle'[g] = NoHandle /\ task'[g] = "none" /\ close'.h # g /\ flush'[f].h # g
    BY <1>4, <1>9, <1>10, <1>11, <1>13, TerminalAssumption DEF Vacant
  <1>21. FlushOk(f)'
    BY <1>10, <1>11 DEF FlushOk, Flushing
  <1>22. f \in Handles => LastOk(f)'
    BY <1>7, <1>8, <1>9, <1>10, <1>11, <1>13, <1>17 DEF LastOk, LoggedUpTo
  <1> QED
    BY <1>1, <1>5, <1>9, <1>11, <1>13, <1>14, <1>15, <1>16, <1>19, <1>20, <1>21, <1>22, FlushSteps

-------------------------------------------------------------------------------
(* The application's end and start.                                           *)

LEMMA DownKeeps ==
    ASSUME TerminalInv, Down
    PROVE  TerminalInv'
  <1> DEFINE idle == [at |-> "idle", h |-> Nobody, upto |-> 0]
  <1>1. app' = "down" /\ current' = Nobody /\ close' = NotClosing
        /\ process' = [h \in Handles |-> IF process[h] = "none" THEN "none" ELSE "past"]
        /\ handle' = [h \in Handles |-> NoHandle] /\ task' = [h \in Handles |-> "none"]
        /\ flush' = [f \in Flushers |-> AtRest] /\ caller' = [c \in Callers |-> idle] /\ row' = row
    BY DEF Down
  <1>2. NoHandle \in HandleType /\ AtRest \in FlushType /\ NotClosing \in CloseType /\ idle \in CallerType
    BY DEF HandleType, FlushType, CloseType, CallerType, NoHandle, AtRest, NotClosing, HandleStates, ExitCodes, Chunks
  <1>3. TerminalTypes'
    BY <1>1, <1>2 DEF TerminalInv, TerminalTypes, ExitCodes, TaskStages
  <1>4. Stopped' /\ CleanUp' /\ RowFirst'
    BY <1>1 DEF Stopped, CleanUp, RowFirst, TerminalInv, NotClosing, AtRest, Flushing, Flushers
  <1>5. Places'
    BY <1>1, TerminalAssumption DEF Places, Vacant, NotClosing, AtRest
  <1>6. ASSUME NEW h \in Handles PROVE BufferOk(h)' /\ FlushedOk(h)' /\ LastOk(h)'
    <2>1. handle'[h] = NoHandle /\ task'[h] = "none" /\ flush'[h] = AtRest
      BY <1>1 DEF Flushers
    <2>2. Len(<<>>) = 0
      OBVIOUS
    <2> QED
      BY <2>1, <2>2 DEF BufferOk, FlushedOk, LastOk, LoggedUpTo, NoHandle, AtRest
  <1>7. ASSUME NEW f \in Flushers PROVE FlushOk(f)'
    <2>1. flush'[f] = AtRest
      BY <1>1
    <2> QED
      BY <2>1 DEF FlushOk, AtRest, Flushing
  <1> QED
    BY <1>3, <1>4, <1>5, <1>6, <1>7 DEF TerminalInv, LogInv

\* A restored handle has the log for its buffer, all of it flushed.
LEMMA RestartKeeps ==
    ASSUME TerminalInv, Restart
    PROVE  TerminalInv'
  <1>1. app = "down" /\ app' = "up" /\ UNCHANGED <<task, flush, close, caller>>
    BY DEF Restart, uiVars
  <1>2. /\ task = [h \in Handles |-> "none"] /\ flush = [f \in Flushers |-> AtRest]
        /\ close = NotClosing /\ \A c \in Callers : caller[c].at = "idle"
    BY <1>1 DEF TerminalInv, Stopped
  <1>3. Stopped' /\ CleanUp'
    BY <1>1, <1>2 DEF Stopped, CleanUp, NotClosing, AtRest, Flushers, Flushing
  <1>4. CASE UNCHANGED <<current, process, handle, row>>
    <2>1. TerminalTypes'
      BY <1>1, <1>4 DEF TerminalInv, TerminalTypes
    <2>2. \A h \in Handles : SameBuffer(h) /\ TaskMoves(h)
      BY <1>1, <1>4 DEF SameBuffer, TaskMoves
    <2>3. \A h \in Handles : Vacant(h) => handle'[h] = NoHandle /\ task'[h] = "none" /\ current' # h /\ close'.h # h
      BY <1>1, <1>4 DEF Vacant
    <2> QED
      BY <1>1, <1>3, <1>4, <2>1, <2>2, <2>3, QuietSteps DEF TerminalInv, Places
  <1>5. ASSUME NEW h \in Handles, Restored(h) PROVE TerminalInv'
    <2>1. row.status \in {"running", "completed"} /\ process[h] = "none" /\ current' = h
          /\ process' = [process EXCEPT ![h] = "past"]
          /\ handle' = [handle EXCEPT ![h].state = "restored", ![h].buffer = row.log, ![h].flushed = Len(row.log)]
          /\ (row' = [row EXCEPT !.status = "restored"] \/ row' = row)
      BY <1>5 DEF Restored
    <2>2. handle \in [Handles -> HandleType] /\ process \in [Handles -> ExitCodes] /\ row \in RowType
      BY DEF TerminalInv, TerminalTypes
    <2>3. PICK log \in Seq(Chunks) : log = row.log
      BY <2>2 DEF RowType
    <2>4. Len(log) \in Nat /\ DOMAIN log = 1..Len(log)
      BY LenProperties
    <2>5. Vacant(h) /\ \A c \in Callers : caller[c].h # h
      BY <2>1 DEF TerminalInv, Places
    <2>6. handle[h] = NoHandle
      BY <2>5 DEF Vacant
    <2>7. row' \in RowType /\ row'.log = log /\ row'.status # "none"
      BY <2>1, <2>2, <2>3 DEF RowType
    <2>8. process' \in [Handles -> ExitCodes] /\ process'[h] = "past" /\ \A g \in Handles \ {h} : process'[g] = process[g]
      BY <2>1, <2>2 DEF ExitCodes
    <2>9. handle'[h] = [handle[h] EXCEPT !.state = "restored", !.buffer = log, !.flushed = Len(log)]
      BY <2>1, <2>2, <2>3
    <2>10. /\ handle'[h] \in HandleType /\ handle'[h].buffer = log /\ handle'[h].flushed = Len(log)
           /\ handle'[h].state = "restored"
      <3>1. handle[h] \in HandleType
        BY <2>2
      <3>2. PICK n \in Nat : n = Len(log)
        BY <2>4
      <3> QED
        BY <2>9, <3>1, <3>2 DEF HandleType, HandleStates
    <2>11. \A g \in Handles \ {h} : handle'[g] = handle[g]
      BY <2>1, <2>2
    <2>12. handle' = [g \in Handles |-> handle'[g]]
      BY <2>1, <2>2
    <2>13. handle' \in [Handles -> HandleType]
      BY <2>2, <2>10, <2>11, <2>12
    <2>14. TerminalTypes'
      BY <1>1, <2>1, <2>7, <2>8, <2>13 DEF TerminalInv, TerminalTypes
    <2>15. RowFirst'
      BY <2>7 DEF RowFirst
    <2>16. Places'
      <3>1. ASSUME NEW g \in Handles, Vacant(g), g # h PROVE Vacant(g)'
        BY <1>1, <2>1, <2>11, <3>1 DEF Vacant
      <3>2. ASSUME NEW g \in Handles, process'[g] = "none" PROVE Vacant(g)' /\ \A c \in Callers : caller'[c].h # g
        <4>1. g # h /\ process[g] = "none"
          BY <2>8, <3>2
        <4>2. Vacant(g) /\ \A c \in Callers : caller[c].h # g
          BY <4>1 DEF TerminalInv, Places
        <4> QED
          BY <1>1, <3>1, <4>1, <4>2
      <3> QED
        BY <1>1, <1>2, <3>2 DEF Places, NotClosing
    <2>17. ASSUME NEW g \in Handles PROVE BufferOk(g)' /\ FlushedOk(g)' /\ LastOk(g)'
      <3>1. g \in Flushers /\ task'[g] = "none" /\ flush'[g] = AtRest
        BY <1>1, <1>2 DEF Flushers
      <3>2. LastOk(g)'
        BY <3>1 DEF LastOk, AtRest
      <3>3. LogGrows
        BY <2>3, <2>7, SameLog
      <3>4. CASE g # h
        <4>1. SameBuffer(g)
          BY <2>11, <3>4 DEF SameBuffer
        <4> QED
          BY <1>1, <3>1, <3>2, <3>3, <4>1, SameBuffers
      <3>5. CASE g = h
        <4>1. BufferOk(h)'
          BY <2>4, <2>10, <3>1, <3>5 DEF BufferOk
        <4>2. FlushedOk(h)'
          BY <2>4, <2>7, <2>10 DEF FlushedOk, LoggedUpTo, Logged
        <4> QED
          BY <3>2, <3>5, <4>1, <4>2
      <3> QED
        BY <3>4, <3>5
    <2>18. ASSUME NEW f \in Flushers PROVE FlushOk(f)'
      <3>1. flush'[f] = AtRest
        BY <1>1, <1>2
      <3> QED
        BY <3>1 DEF FlushOk, AtRest, Flushing
    <2>19. LogInv'
      BY <2>17, <2>18 DEF LogInv
    <2> QED
      BY <1>3, <2>14, <2>15, <2>16, <2>19 DEF TerminalInv
  <1> QED
    BY <1>4, <1>5 DEF Restart

-------------------------------------------------------------------------------

LEMMA TerminalStep == TerminalInv /\ [TerminalNext]_terminalVars => TerminalInv'
  <1> SUFFICES ASSUME TerminalInv, [TerminalNext]_terminalVars PROVE TerminalInv'
    OBVIOUS
  <1>1. ASSUME NEW c \in Callers,
               \/ StartSession(c) \/ EnsureSession(c) \/ InsertHandle(c) \/ AttachSnapshot(c) \/ AttachPush(c)
               \/ \E h \in Handles : Spawn(c, h)
        PROVE  TerminalInv'
    BY <1>1, StartSessionKeeps, EnsureSessionKeeps, InsertHandleKeeps, AttachKeeps, SpawnKeeps
  <1>2. ASSUME NEW h \in Handles,
               \/ ProcessEnds(h, "ok") \/ ProcessEnds(h, "bad") \/ PollExit(h)
               \/ Receive(h) \/ Notify(h) \/ TakeState(h) \/ SetExited(h)
               \/ FlushAllPending(h) \/ SaveResult(h)
        PROVE  TerminalInv'
    BY <1>2, ProcessEndsKeeps, TaskKeeps, ReceiveKeeps, FlushAllPendingKeeps
  <1>3. ASSUME NEW f \in Flushers, FlushSlice(f) \/ FlushAppend(f) \/ FlushSet(f) PROVE TerminalInv'
    BY <1>3, FlushSliceKeeps, FlushAppendKeeps, FlushSetKeeps
  <1>4. CASE Kill \/ FlushIfDue
    BY <1>4, KillKeeps, FlushIfDueKeeps
  <1>5. CASE CloseBegin \/ CloseTake \/ CloseKill \/ CloseSave \/ CloseRemove
    BY <1>5, CloseBeginKeeps, CleanUpKeeps
  <1>6. CASE Down \/ Restart
    BY <1>6, DownKeeps, RestartKeeps
  <1>7. CASE UNCHANGED terminalVars
    <2>1. UNCHANGED <<app, current, process, handle, task, flush, close, row, caller>>
      BY <1>7 DEF terminalVars, uiVars
    <2>2. TerminalTypes' /\ Stopped' /\ CleanUp'
      BY <2>1 DEF TerminalInv, TerminalTypes, Stopped, CleanUp
    <2>3. \A h \in Handles : SameBuffer(h) /\ TaskMoves(h)
      BY <2>1 DEF SameBuffer, TaskMoves
    <2>4. \A h \in Handles : Vacant(h) => handle'[h] = NoHandle /\ task'[h] = "none" /\ current' # h /\ close'.h # h
      BY <2>1 DEF Vacant
    <2> QED
      BY <2>1, <2>2, <2>3, <2>4, QuietSteps DEF TerminalInv, Places
  <1> QED
    BY <1>1, <1>2, <1>3, <1>4, <1>5, <1>6, <1>7 DEF TerminalNext

\* The invariant of a session's processes, tasks and flushes: the types, whose place is
\* vacant, and what is in the log of that which the buffer and the flushes count as flushed.
THEOREM TerminalInvariant == TerminalSpec => []TerminalInv
  BY InitTerminalInv, TerminalStep, PTL DEF TerminalSpec

\* The session is well typed: in particular what was flushed and what a flush is about to
\* write never goes beyond the buffer, whatever falls out of it meanwhile.
THEOREM TerminalTypeCorrect == TerminalSpec => []TerminalTypeOK
  <1>1. TerminalInv => TerminalTypeOK
    <2> SUFFICES ASSUME TerminalInv PROVE TerminalTypeOK
      OBVIOUS
    <2>1. ASSUME NEW h \in Handles
          PROVE  /\ process[h] \in ExitCodes /\ handle[h].state \in HandleStates /\ task[h] \in TaskStages
                 /\ handle[h].taken \in Nat /\ handle[h].subs \subseteq Callers
                 /\ handle[h].flushed \in 0..Len(handle[h].buffer)
      <3>1. handle[h] \in HandleType /\ process[h] \in ExitCodes /\ task[h] \in TaskStages
        BY DEF TerminalInv, TerminalTypes
      <3>2. handle[h].flushed <= Len(handle[h].buffer)
        BY DEF TerminalInv, LogInv, BufferOk
      <3>3. handle[h].flushed \in Nat /\ Len(handle[h].buffer) \in Nat
        BY BufferTypes DEF TerminalInv
      <3> QED
        BY <3>1, <3>2, <3>3 DEF HandleType
    <2>2. ASSUME NEW f \in Flushers
          PROVE  /\ flush[f].at \in {"rest", "slice", "append", "set", "failed"}
                 /\ flush[f].at # "rest" /\ flush[f].at # "failed" =>
                      flush[f].from < flush[f].to /\ flush[f].to <= Len(handle[flush[f].h].buffer)
      <3>1. flush[f] \in FlushType /\ FlushOk(f)
        BY DEF TerminalInv, TerminalTypes, LogInv
      <3> QED
        BY <3>1 DEF FlushType, FlushOk, Flushing
    <2>3. app \in {"up", "closing", "down"} /\ current \in Handles \cup {Nobody}
          /\ row.status \in {"none", "running", "completed", "failed", "restored"}
      BY DEF TerminalInv, TerminalTypes, RowType
    <2> QED
      BY <2>1, <2>2, <2>3 DEF TerminalTypeOK, ExitCodes, HandleStates, TaskStages
  <1> QED
    BY <1>1, TerminalInvariant, PTL

\* What SessionHandle counts as flushed is in the row's log, for any number of flushes that
\* overlap, repeat or fail, as long as neither the buffer nor the log had to drop anything.
THEOREM FlushedIsInTheLog == TerminalSpec => []FlushedIsLogged
  <1>1. TerminalInv => FlushedIsLogged
    BY DEF TerminalInv, LogInv, FlushedOk, Complete, LoggedUpTo, FlushedIsLogged
  <1> QED
    BY <1>1, TerminalInvariant, PTL

\* The flush at a process's end is enough: when its end is saved all its output is in the
\* log, unless that flush failed or something had to be dropped.
THEOREM SavedIsInTheLog == TerminalSpec => []SavedIsLogged
  <1>1. TerminalInv => SavedIsLogged
    <2> SUFFICES ASSUME TerminalInv, NEW h \in Handles, Whole, task[h] = "done", flush[h].at # "failed",
                        handle[h].taken <= BufferCap, NEW n \in 1..handle[h].taken
                 PROVE  Logged(<<h, n>>)
      BY DEF SavedIsLogged
    <2>1. BufferOk(h) /\ LastOk(h)
      BY DEF TerminalInv, LogInv
    <2>2. Len(handle[h].buffer) = handle[h].taken /\ handle[h].buffer[n] = <<h, n>>
      BY <2>1 DEF BufferOk
    <2>3. LoggedUpTo(h, Len(handle[h].buffer))
      BY <2>1 DEF LastOk, Complete
    <2> QED
      BY <2>2, <2>3 DEF LoggedUpTo
  <1> QED
    BY <1>1, TerminalInvariant, PTL

-------------------------------------------------------------------------------
(* The desktop's parts side by side.                                          *)

desktopVars == <<part, terminalVars, outputVars, linkVars, lockVars>>

DesktopSpec == MCInit /\ [][MCNext]_desktopVars

\* A step of one part leaves the other three as they are.
LEMMA EachPart ==
    DesktopSpec => TerminalSpec /\ OutputSpec /\ LinkSpec /\ LocksSpec
  <1>1. MCInit => TerminalInit /\ OutputInit /\ LinkInit /\ LocksInit
    BY DEF MCInit
  <1>2. [MCNext]_desktopVars => [TerminalNext]_terminalVars
    BY DEF MCNext, desktopVars
  <1>3. [MCNext]_desktopVars => [OutputNext]_outputVars
    BY DEF MCNext, MCOutputNext, desktopVars
  <1>4. [MCNext]_desktopVars => [LinkNext]_linkVars
    BY DEF MCNext, desktopVars
  <1>5. [MCNext]_desktopVars => [LocksNext]_lockVars
    BY DEF MCNext, desktopVars
  <1> QED
    BY <1>1, <1>2, <1>3, <1>4, <1>5, PTL DEF DesktopSpec, TerminalSpec, OutputSpec, LinkSpec, LocksSpec

\* Sessions, output, connection and file locks stay well typed next to each other.
THEOREM DesktopTypeCorrect == DesktopSpec => []DesktopTypeOK
  <1>1. TerminalTypeOK /\ OutputTypeOK /\ LinkTypeOK /\ LocksTypeOK => DesktopTypeOK
    BY DEF DesktopTypeOK
  <1> QED
    BY <1>1, EachPart, TerminalTypeCorrect, OutputTypeCorrect, LinkTypeCorrect, LocksTypeCorrect, PTL
=================================================================================
