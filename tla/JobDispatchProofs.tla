--------------------------- MODULE JobDispatchProofs ---------------------------
(***************************************************************************)
(* Theorems about JobDispatch, for any sets of jobs, workers and commands    *)
(* and any bounds.                                                           *)
(***************************************************************************)
EXTENDS JobDispatch, SequenceLemmas
--------------------------------------------------------------------------------
(* The inductive invariant *)

\* A worker has a Job value from Dequeue to the end of its round, a command has
\* a target while it runs, nothing runs while the application is down, and a job
\* that was not created has no copy.  With SingleCopy this gives each job's row
\* one writer at a time among the workers, so the retry count a worker compared
\* with the limit is still the one it increments.
Custody ==
    /\ \A w \in Workers : pc[w] = "idle" <=> cur[w] = NoJob
    /\ \A c \in Clients : cmd[c] = "idle" <=> target[c] = NoJob
    /\ \A w \in Workers :
        pc[w] = "recording" => result[w] \in {"completed", "failed", "canceled"}
    /\ \A w \in Workers : pc[w] = "retrying" => retry[cur[w]] < MaxRetry
    /\ \A j \in Jobs : status[j] = "unborn" => ~Held(j)
    /\ ~up =>
        /\ queue = <<>>
        /\ \A w \in Workers : pc[w] = "idle"
        /\ \A c \in Clients : cmd[c] = "idle"

IInv == TypeOK /\ SingleCopy /\ Custody
--------------------------------------------------------------------------------
(* Types *)

\* The initial state is well typed.
LEMMA TypeInit == Init => TypeOK
<1>. SUFFICES ASSUME Init PROVE TypeOK
  OBVIOUS
<1>. USE BoundAssumption DEF Init
<1>1. /\ status \in [Jobs -> RowStates] /\ retry \in [Jobs -> 0..MaxRetry]
      /\ execs \in [Jobs -> Nat] /\ told \in [Jobs -> Nat] /\ promised \in SUBSET Jobs
  BY DEF RowStates
<1>2. /\ pc \in [Workers -> WorkerStates] /\ cur \in [Workers -> Jobs \cup {NoJob}]
      /\ result \in [Workers -> Results]
  BY DEF WorkerStates, Results
<1>3. cmd \in [Clients -> CommandStates] /\ target \in [Clients -> Jobs \cup {NoJob}]
  BY DEF CommandStates
<1>4. queue \in Seq(Entry) /\ up \in BOOLEAN
  BY EmptySeq
<1>5. crashes \in 0..MaxCrashes /\ dbErrors \in 0..MaxDbErrors
  OBVIOUS
<1>. QED
  BY <1>1, <1>2, <1>3, <1>4, <1>5 DEF TypeOK

\* What recovery builds: a sequence of due entries, one for each recovered job.
LEMMA RecoveredQueue ==
    ASSUME NEW zombies, NEW unreadable, StartJobSystem(zombies, unreadable)
    PROVE  /\ queue' \in Seq(Entry)
           /\ \A i \in 1..Len(queue') :
                queue'[i].job \in Recoverable \ unreadable
           /\ \A i, k \in 1..Len(queue') :
                queue'[i].job = queue'[k].job => i = k
<1> DEFINE R == Recoverable \ unreadable
<1>1. IsFiniteSet(R) /\ Cardinality(R) \in Nat /\ R \subseteq Jobs
  BY JobsAssumption, FS_Subset, FS_CardinalityType DEF Recoverable
<1>2. PICK order \in SetToSeqs(R) :
        queue' = [i \in 1..Len(order) |-> [job |-> order[i], ready |-> TRUE]]
  BY DEF StartJobSystem
<1>. HIDE DEF R
<1>3. /\ order \in [1..Cardinality(R) -> R]
      /\ \A i, k \in 1..Cardinality(R) : i # k => order[i] # order[k]
  BY <1>2 DEF SetToSeqs
<1>4. order \in Seq(R) /\ Len(order) = Cardinality(R)
  BY <1>1, <1>3
<1>5. queue' \in [1..Cardinality(R) -> Entry]
  BY <1>1, <1>2, <1>3, <1>4 DEF Entry
<1>6. queue' \in Seq(Entry) /\ Len(queue') = Cardinality(R)
  BY <1>1, <1>5
<1>7. \A i \in 1..Cardinality(R) : queue'[i].job = order[i]
  BY <1>2, <1>4
<1>. QED
  BY <1>3, <1>6, <1>7 DEF R

\* Whoever is busy is busy with a job.
LEMMA Holders ==
    IInv => /\ \A w \in Workers : pc[w] # "idle" => cur[w] \in Jobs
            /\ \A c \in Clients : cmd[c] # "idle" => target[c] \in Jobs
BY DEF IInv, TypeOK, Custody

\* Every step of a command, a worker or the application keeps the types.
LEMMA TypeStep == IInv /\ [Next]_vars => TypeOK'
<1>. SUFFICES ASSUME IInv, [Next]_vars PROVE TypeOK'
  OBVIOUS
<1>. USE BoundAssumption, SubsetAssumption, Holders
     DEF IInv, TypeOK, RowStates, JobStatuses, ActiveStatuses, TerminalStatuses,
         WorkerStates, Results, CommandStates, HasRow, SetStatus, Release, Goto,
         rowVars, workerVars, clientVars, historyVars, boundVars
<1>1. ASSUME NEW c \in Clients, NEW j \in Jobs, Create(c, j)
      PROVE  TypeOK'
  <2>1. status' \in [Jobs -> RowStates]
    BY <1>1 DEF Create
  <2>2. cmd' \in [Clients -> CommandStates] /\ target' \in [Clients -> Jobs \cup {NoJob}]
    <3>1. \/ UNCHANGED clientVars
          \/ /\ cmd' = [cmd EXCEPT ![c] = "dispatch"]
             /\ target' = [target EXCEPT ![c] = j]
      BY <1>1 DEF Create
    <3>2. [cmd EXCEPT ![c] = "dispatch"] \in [Clients -> CommandStates]
      OBVIOUS
    <3>3. [target EXCEPT ![c] = j] \in [Clients -> Jobs \cup {NoJob}]
      OBVIOUS
    <3>. QED
      BY <3>1, <3>2, <3>3, Zenon
  <2>. QED
    BY <1>1, <2>1, <2>2 DEF Create
<1>2. ASSUME NEW c \in Clients, Dispatch(c)
      PROVE  TypeOK'
  <2>1. queue' \in Seq(Entry)
    BY <1>2 DEF Dispatch, Entry
  <2>2. cmd' = [cmd EXCEPT ![c] = "idle"] /\ target' = [target EXCEPT ![c] = NoJob]
    BY <1>2 DEF Dispatch
  <2>3. cmd' \in [Clients -> CommandStates]
    BY <2>2
  <2>4. target' \in [Clients -> Jobs \cup {NoJob}]
    BY <2>2
  <2>. QED
    BY <1>2, <2>1, <2>3, <2>4 DEF Dispatch
<1>3. ASSUME NEW c \in Clients, NEW j \in Jobs, CancelRead(c, j)
      PROVE  TypeOK'
  BY <1>3 DEF CancelRead
<1>4. ASSUME NEW c \in Clients, CancelUnqueue(c)
      PROVE  TypeOK'
  <2>1. queue' \in Seq(Entry)
    <3>1. CASE PositionsOf(target[c]) = {} /\ queue' = queue
      BY <3>1
    <3>2. ASSUME NEW i \in 1..Len(queue), queue' = RemoveAt(queue, i)
          PROVE  queue' \in Seq(Entry)
      BY <3>2, RemoveAtProperties
    <3>. QED
      BY <1>4, <3>1, <3>2 DEF CancelUnqueue, PositionsOf
  <2>2. cmd' \in [Clients -> CommandStates] /\ target' \in [Clients -> Jobs \cup {NoJob}]
    BY <1>4 DEF CancelUnqueue, PositionsOf
  <2>. QED
    BY <1>4, <2>1, <2>2 DEF CancelUnqueue
<1>5. ASSUME NEW c \in Clients, CancelMark(c)
      PROVE  TypeOK'
  <2>1. status' \in [Jobs -> RowStates]
    BY <1>5 DEF CancelMark
  <2>2. cmd' \in [Clients -> CommandStates] /\ target' \in [Clients -> Jobs \cup {NoJob}]
    BY <1>5 DEF CancelMark
  <2>. QED
    BY <1>5, <2>1, <2>2 DEF CancelMark
<1>6. ASSUME NEW c \in Clients, CancelError(c)
      PROVE  TypeOK'
  BY <1>6 DEF CancelError
<1>7. ASSUME NEW S \in Sessions, CancelSession(S)
      PROVE  TypeOK'
  BY <1>7 DEF CancelSession
<1>8. ASSUME NEW j \in Jobs, Delete(j)
      PROVE  TypeOK'
  BY <1>8 DEF Delete
<1>9. ASSUME NEW old \in SUBSET Jobs, ClearHistory(old)
      PROVE  TypeOK'
  BY <1>9 DEF ClearHistory
<1>10. ASSUME NEW w \in Workers, Dequeue(w)
      PROVE  TypeOK'
  <2>1. PICK i \in 1..Len(queue) :
            cur' = [cur EXCEPT ![w] = queue[i].job] /\ queue' = RemoveAt(queue, i)
    BY <1>10 DEF Dequeue, FirstReady
  <2>2. queue' \in Seq(Entry)
    BY <2>1, RemoveAtProperties
  <2>3. queue[i].job \in Jobs
    <3>1. queue[i] \in Entry
      BY <2>1, ElementOfSeq
    <3>. QED
      BY <3>1 DEF Entry
  <2>4. /\ pc' \in [Workers -> WorkerStates] /\ cur' \in [Workers -> Jobs \cup {NoJob}]
        /\ result' \in [Workers -> Results]
    BY <1>10, <2>1, <2>3 DEF Dequeue
  <2>. QED
    BY <1>10, <2>2, <2>4 DEF Dequeue
<1>11. ASSUME NEW w \in Workers, Claim(w)
      PROVE  TypeOK'
  BY <1>11 DEF Claim
<1>12. ASSUME NEW w \in Workers, Acknowledge(w)
      PROVE  TypeOK'
  BY <1>12 DEF Acknowledge
<1>13. ASSUME NEW w \in Workers, MatchProcessor(w)
      PROVE  TypeOK'
  BY <1>13 DEF MatchProcessor
<1>14. ASSUME NEW w \in Workers, NoProcessor(w)
      PROVE  TypeOK'
  BY <1>14 DEF NoProcessor
<1>15. ASSUME NEW w \in Workers, MarkRunning(w)
      PROVE  TypeOK'
  BY <1>15 DEF MarkRunning
<1>16. ASSUME NEW w \in Workers, Enter(w)
      PROVE  TypeOK'
  BY <1>16 DEF Enter
<1>17. ASSUME NEW w \in Workers, EnterWithoutRow(w)
      PROVE  TypeOK'
  BY <1>17 DEF EnterWithoutRow
<1>18. ASSUME NEW w \in Workers, NEW r \in {"completed", "failed", "canceled"}, Finish(w, r)
      PROVE  TypeOK'
  BY <1>18 DEF Finish
<1>19. ASSUME NEW w \in Workers, NEW r \in {"error", "fatal"}, Fail(w, r)
      PROVE  TypeOK'
  BY <1>19 DEF Fail
<1>20. ASSUME NEW w \in Workers, Record(w)
      PROVE  TypeOK'
  <2>1. status' \in [Jobs -> RowStates]
    <3>1. result[w] \in {"completed", "failed", "canceled"}
      BY <1>20 DEF Record, Custody
    <3>. QED
      BY <1>20, <3>1 DEF Record
  <2>2. /\ pc' \in [Workers -> WorkerStates] /\ cur' \in [Workers -> Jobs \cup {NoJob}]
        /\ result' \in [Workers -> Results]
    BY <1>20 DEF Record
  <2>. QED
    BY <1>20, <2>1, <2>2 DEF Record
<1>21. ASSUME NEW w \in Workers, Tell(w)
      PROVE  TypeOK'
  <2>1. told' \in [Jobs -> Nat]
    BY <1>21 DEF Tell
  <2>2. /\ pc' \in [Workers -> WorkerStates] /\ cur' \in [Workers -> Jobs \cup {NoJob}]
        /\ result' \in [Workers -> Results]
    BY <1>21 DEF Tell
  <2>. QED
    BY <1>21, <2>1, <2>2 DEF Tell
<1>22. ASSUME NEW w \in Workers, ReadFailure(w)
      PROVE  TypeOK'
  <2>1. /\ pc' \in [Workers -> WorkerStates] /\ cur' \in [Workers -> Jobs \cup {NoJob}]
        /\ result' \in [Workers -> Results]
    <3>1. CASE ~HasRow(cur[w])
      BY <1>22, <3>1 DEF ReadFailure
    <3>2. CASE HasRow(cur[w])
      <4>1. \/ Goto(w, "retrying")
            \/ Goto(w, "giving_up")
        BY <1>22, <3>2 DEF ReadFailure
      <4>. QED
        BY <4>1
    <3>. QED
      BY <3>1, <3>2
  <2>. QED
    BY <1>22, <2>1 DEF ReadFailure
<1>23. ASSUME NEW w \in Workers, WriteRetry(w)
      PROVE  TypeOK'
  <2>1. status' \in [Jobs -> RowStates]
    BY <1>23 DEF WriteRetry
  <2>2. retry' \in [Jobs -> 0..MaxRetry]
    <3>1. retry[cur[w]] < MaxRetry /\ cur[w] \in Jobs
      BY <1>23 DEF WriteRetry, Custody
    <3>2. retry[cur[w]] + 1 \in 0..MaxRetry
      BY <3>1
    <3>. QED
      BY <1>23, <3>1, <3>2 DEF WriteRetry
  <2>3. /\ pc' \in [Workers -> WorkerStates] /\ cur' \in [Workers -> Jobs \cup {NoJob}]
        /\ result' \in [Workers -> Results]
    BY <1>23 DEF WriteRetry
  <2>. QED
    BY <1>23, <2>1, <2>2, <2>3 DEF WriteRetry
<1>24. ASSUME NEW w \in Workers, Requeue(w)
      PROVE  TypeOK'
  <2>1. queue' \in Seq(Entry)
    BY <1>24 DEF Requeue, Entry
  <2>2. /\ pc' \in [Workers -> WorkerStates] /\ cur' \in [Workers -> Jobs \cup {NoJob}]
        /\ result' \in [Workers -> Results]
    BY <1>24 DEF Requeue, Entry
  <2>. QED
    BY <1>24, <2>1, <2>2 DEF Requeue
<1>25. ASSUME NEW w \in Workers, GiveUp(w)
      PROVE  TypeOK'
  <2>1. status' \in [Jobs -> RowStates]
    BY <1>25 DEF GiveUp
  <2>2. /\ pc' \in [Workers -> WorkerStates] /\ cur' \in [Workers -> Jobs \cup {NoJob}]
        /\ result' \in [Workers -> Results]
    BY <1>25 DEF GiveUp
  <2>. QED
    BY <1>25, <2>1, <2>2 DEF GiveUp
<1>26. ASSUME NEW w \in Workers, DbError(w)
      PROVE  TypeOK'
  <2>1. /\ pc' \in [Workers -> WorkerStates] /\ cur' \in [Workers -> Jobs \cup {NoJob}]
        /\ result' \in [Workers -> Results]
    BY <1>26 DEF DbError
  <2>2. dbErrors' \in 0..MaxDbErrors
    BY <1>26 DEF DbError
  <2>. QED
    BY <1>26, <2>1, <2>2 DEF DbError
<1>27. ASSUME NEW i \in 1..Len(queue), DelayElapses(i)
      PROVE  TypeOK'
  <2>1. [queue[i] EXCEPT !.ready = TRUE] \in Entry
    <3>1. queue[i] \in Entry
      BY <1>27, ElementOfSeq
    <3>. QED
      BY <3>1 DEF Entry
  <2>2. queue' \in Seq(Entry)
    BY <1>27, <2>1, ExceptSeq DEF DelayElapses
  <2>. QED
    BY <1>27, <2>2 DEF DelayElapses
<1>28. CASE Crash
  <2>1. queue' \in Seq(Entry)
    BY <1>28 DEF Crash
  <2>2. /\ pc' \in [Workers -> WorkerStates] /\ cur' \in [Workers -> Jobs \cup {NoJob}]
        /\ result' \in [Workers -> Results]
    BY <1>28 DEF Crash
  <2>3. cmd' \in [Clients -> CommandStates] /\ target' \in [Clients -> Jobs \cup {NoJob}]
    BY <1>28 DEF Crash
  <2>4. crashes' \in 0..MaxCrashes
    BY <1>28 DEF Crash
  <2>. QED
    BY <1>28, <2>1, <2>2, <2>3, <2>4 DEF Crash
<1>29. ASSUME NEW zombies \in SUBSET {x \in Jobs : status[x] = "running"},
             NEW unreadable \in SUBSET Recoverable, StartJobSystem(zombies, unreadable)
      PROVE  TypeOK'
  <2>1. status' \in [Jobs -> RowStates]
    BY <1>29 DEF StartJobSystem, SetToSeqs, Recoverable
  <2>2. queue' \in Seq(Entry)
    BY <1>29, RecoveredQueue
  <2>. QED
    BY <1>29, <2>1, <2>2 DEF StartJobSystem
<1>30. CASE UNCHANGED vars
  BY <1>30 DEF vars
<1>. QED
  BY <1>1, <1>2, <1>3, <1>4, <1>5, <1>6, <1>7, <1>8, <1>9, <1>10, <1>11,
     <1>12, <1>13, <1>14, <1>15, <1>16, <1>17, <1>18, <1>19, <1>20, <1>21,
     <1>22, <1>23, <1>24, <1>25, <1>26, <1>27, <1>28, <1>29, <1>30
  DEF Next, WorkerStep, CommandStep
--------------------------------------------------------------------------------
(* One copy *)

\* Taking an entry out leaves the other jobs' entries.
LEMMA QueueRemove ==
    ASSUME TypeOK, SingleCopy, NEW i \in 1..Len(queue), queue' = RemoveAt(queue, i)
    PROVE  /\ \A a, b \in 1..Len(queue') : queue'[a].job = queue'[b].job => a = b
           /\ \A j : InQueue(j)' => InQueue(j) /\ j # queue[i].job
<1>1. queue \in Seq(Entry) /\ Len(queue) \in Nat
  BY DEF TypeOK
<1>2. /\ Len(queue') = Len(queue) - 1
      /\ \A k \in 1..(Len(queue) - 1) :
            queue'[k] = IF k < i THEN queue[k] ELSE queue[k + 1]
  BY <1>1, RemoveAtProperties
<1>3. \A a, b \in 1..Len(queue) : queue[a].job = queue[b].job => a = b
  BY DEF SingleCopy
<1>4. ASSUME NEW a \in 1..Len(queue')
      PROVE  \E b \in 1..Len(queue) :
                /\ b # i /\ queue'[a] = queue[b]
                /\ b = IF a < i THEN a ELSE a + 1
  BY <1>1, <1>2
<1>5. ASSUME NEW a \in 1..Len(queue'), NEW b \in 1..Len(queue'),
             queue'[a].job = queue'[b].job
      PROVE  a = b
  <2>1. PICK x \in 1..Len(queue) :
            queue'[a] = queue[x] /\ x = IF a < i THEN a ELSE a + 1
    BY <1>4
  <2>2. PICK y \in 1..Len(queue) :
            queue'[b] = queue[y] /\ y = IF b < i THEN b ELSE b + 1
    BY <1>4
  <2>3. x = y
    BY <1>3, <1>5, <2>1, <2>2
  <2>. QED
    BY <1>1, <1>2, <2>1, <2>2, <2>3
<1>6. ASSUME NEW j, InQueue(j)'
      PROVE  InQueue(j) /\ j # queue[i].job
  <2>1. PICK a \in 1..Len(queue') : queue'[a].job = j
    BY <1>6 DEF InQueue, PositionsOf
  <2>2. PICK b \in 1..Len(queue) : b # i /\ queue'[a] = queue[b]
    BY <1>4
  <2>. QED
    BY <1>3, <2>1, <2>2 DEF InQueue, PositionsOf
<1>. QED
  BY <1>5, <1>6

\* An entry is added for a job that has none.
LEMMA QueueAppend ==
    ASSUME TypeOK, SingleCopy, NEW j \in Jobs, NEW r \in BOOLEAN, ~InQueue(j),
           queue' = Append(queue, [job |-> j, ready |-> r])
    PROVE  /\ \A a, b \in 1..Len(queue') : queue'[a].job = queue'[b].job => a = b
           /\ \A k : InQueue(k)' => InQueue(k) \/ k = j
<1>1. queue \in Seq(Entry) /\ Len(queue) \in Nat
  BY DEF TypeOK
<1>2. /\ Len(queue') = Len(queue) + 1
      /\ \A k \in 1..Len(queue) : queue'[k] = queue[k]
      /\ queue'[Len(queue) + 1].job = j
  BY <1>1 DEF Entry
<1>3. \A a, b \in 1..Len(queue) : queue[a].job = queue[b].job => a = b
  BY DEF SingleCopy
<1>4. \A k \in 1..Len(queue) : queue[k].job # j
  BY DEF InQueue, PositionsOf
<1>5. \A a, b \in 1..Len(queue') : queue'[a].job = queue'[b].job => a = b
  BY <1>1, <1>2, <1>3, <1>4
<1>6. \A k : InQueue(k)' => InQueue(k) \/ k = j
  BY <1>1, <1>2 DEF InQueue, PositionsOf
<1>. QED
  BY <1>5, <1>6

\* A step that only takes copies away keeps SingleCopy.
LEMMA FewerCopies ==
    ASSUME SingleCopy,
           \A a, b \in 1..Len(queue') : queue'[a].job = queue'[b].job => a = b,
           \A j \in Jobs : InQueue(j)' => InQueue(j),
           \A w \in Workers : cur'[w] = cur[w] \/ cur'[w] = NoJob,
           \A c \in Clients : cmd'[c] = "dispatch" =>
                cmd[c] = "dispatch" /\ target'[c] = target[c]
    PROVE  SingleCopy' /\ \A j \in Jobs : Held(j)' => Held(j)
BY JobsAssumption DEF SingleCopy, AtWorker, InDispatch, Held, NoJob

\* A copy comes from another copy of the job or from its row.
HeldOrNew ==
    \A j \in Jobs : Held(j)' =>
        \/ Held(j)
        \/ status[j] = "queued"
        \/ status[j] = "unborn" /\ status'[j] = "queued"

\* A job's copy only moves: from the command that created it to the queue, from
\* the queue to one worker, from a worker that retries back to the queue, and
\* from a queued row to the queue when the application starts.
LEMMA CopyStep == IInv /\ [Next]_vars => SingleCopy' /\ HeldOrNew
<1>. SUFFICES ASSUME IInv, [Next]_vars PROVE SingleCopy' /\ HeldOrNew
  OBVIOUS
<1>. USE Holders DEF IInv, HeldOrNew
<1>1. ASSUME NEW c \in Clients, NEW j \in Jobs, Create(c, j)
      PROVE  SingleCopy' /\ HeldOrNew
  <2>1. queue' = queue /\ cur' = cur
    BY <1>1 DEF Create, workerVars
  <2>2. ~Held(j)
    BY <1>1 DEF Create, Custody
  <2>3. \A d \in Clients : cmd'[d] = "dispatch" =>
            \/ cmd[d] = "dispatch" /\ target'[d] = target[d]
            \/ d = c /\ target'[d] = j
    BY <1>1 DEF Create, TypeOK, clientVars
  <2>4. \A d \in Clients : d = c => cmd[d] # "dispatch"
    BY <1>1 DEF Create
  <2>5. SingleCopy'
    BY <2>1, <2>2, <2>3, <2>4
    DEF SingleCopy, Held, InQueue, PositionsOf, AtWorker, InDispatch
  <2>6. status[j] = "unborn" /\ status'[j] = "queued"
    BY <1>1 DEF Create, TypeOK
  <2>7. HeldOrNew
    BY <2>1, <2>3, <2>6 DEF Held, InQueue, PositionsOf, AtWorker, InDispatch
  <2>. QED
    BY <2>5, <2>7
<1>2. ASSUME NEW c \in Clients, Dispatch(c)
      PROVE  SingleCopy' /\ HeldOrNew
  <2>1. /\ target[c] \in Jobs /\ InDispatch(target[c])
        /\ ~InQueue(target[c]) /\ ~AtWorker(target[c])
    BY <1>2 DEF Dispatch, InDispatch, SingleCopy
  <2>2. /\ \A a, b \in 1..Len(queue') : queue'[a].job = queue'[b].job => a = b
        /\ \A k : InQueue(k)' => InQueue(k) \/ k = target[c]
    BY <1>2, <2>1, QueueAppend DEF Dispatch
  <2>3. cur' = cur /\ \A d \in Clients : cmd'[d] = "dispatch" =>
            d # c /\ cmd[d] = "dispatch" /\ target'[d] = target[d]
    BY <1>2 DEF Dispatch, TypeOK, workerVars
  <2>4. \A d \in Clients : cmd[d] = "dispatch" /\ d # c => target[d] # target[c]
    BY <1>2 DEF Dispatch, SingleCopy
  <2>. QED
    BY <2>1, <2>2, <2>3, <2>4 DEF SingleCopy, Held, AtWorker, InDispatch
<1>3. ASSUME NEW c \in Clients, NEW j \in Jobs, CancelRead(c, j)
      PROVE  SingleCopy' /\ HeldOrNew
  <2>1. /\ queue' = queue
        /\ \A v \in Workers : cur'[v] = cur[v] \/ cur'[v] = NoJob
        /\ \A d \in Clients : cmd'[d] = "dispatch" =>
                cmd[d] = "dispatch" /\ target'[d] = target[d]
    BY <1>3 DEF CancelRead, TypeOK, Release, Goto, rowVars, workerVars, clientVars
  <2>. QED
    BY <2>1, FewerCopies DEF SingleCopy, InQueue, PositionsOf
<1>4. ASSUME NEW c \in Clients, CancelUnqueue(c)
      PROVE  SingleCopy' /\ HeldOrNew
  <2>1. cur' = cur /\ \A d \in Clients : cmd'[d] = "dispatch" =>
            cmd[d] = "dispatch" /\ target'[d] = target[d]
    BY <1>4 DEF CancelUnqueue, TypeOK, workerVars
  <2>2. CASE queue' = queue
    BY <2>1, <2>2, FewerCopies DEF SingleCopy, InQueue, PositionsOf
  <2>3. ASSUME NEW i \in 1..Len(queue), queue' = RemoveAt(queue, i)
        PROVE  SingleCopy' /\ HeldOrNew
    BY <2>1, <2>3, QueueRemove, FewerCopies
  <2>. QED
    BY <1>4, <2>2, <2>3 DEF CancelUnqueue, PositionsOf
<1>5. ASSUME NEW c \in Clients, CancelMark(c)
      PROVE  SingleCopy' /\ HeldOrNew
  <2>1. /\ queue' = queue
        /\ \A v \in Workers : cur'[v] = cur[v] \/ cur'[v] = NoJob
        /\ \A d \in Clients : cmd'[d] = "dispatch" =>
                cmd[d] = "dispatch" /\ target'[d] = target[d]
    BY <1>5 DEF CancelMark, TypeOK, Release, Goto, rowVars, workerVars, clientVars
  <2>. QED
    BY <2>1, FewerCopies DEF SingleCopy, InQueue, PositionsOf
<1>6. ASSUME NEW c \in Clients, CancelError(c)
      PROVE  SingleCopy' /\ HeldOrNew
  <2>1. /\ queue' = queue
        /\ \A v \in Workers : cur'[v] = cur[v] \/ cur'[v] = NoJob
        /\ \A d \in Clients : cmd'[d] = "dispatch" =>
                cmd[d] = "dispatch" /\ target'[d] = target[d]
    BY <1>6 DEF CancelError, TypeOK, Release, Goto, rowVars, workerVars, clientVars
  <2>. QED
    BY <2>1, FewerCopies DEF SingleCopy, InQueue, PositionsOf
<1>7. ASSUME NEW S \in Sessions, CancelSession(S)
      PROVE  SingleCopy' /\ HeldOrNew
  <2>1. /\ queue' = queue
        /\ \A v \in Workers : cur'[v] = cur[v] \/ cur'[v] = NoJob
        /\ \A d \in Clients : cmd'[d] = "dispatch" =>
                cmd[d] = "dispatch" /\ target'[d] = target[d]
    BY <1>7 DEF CancelSession, TypeOK, Release, Goto, rowVars, workerVars, clientVars
  <2>. QED
    BY <2>1, FewerCopies DEF SingleCopy, InQueue, PositionsOf
<1>8. ASSUME NEW j \in Jobs, Delete(j)
      PROVE  SingleCopy' /\ HeldOrNew
  <2>1. /\ queue' = queue
        /\ \A v \in Workers : cur'[v] = cur[v] \/ cur'[v] = NoJob
        /\ \A d \in Clients : cmd'[d] = "dispatch" =>
                cmd[d] = "dispatch" /\ target'[d] = target[d]
    BY <1>8 DEF Delete, TypeOK, Release, Goto, rowVars, workerVars, clientVars
  <2>. QED
    BY <2>1, FewerCopies DEF SingleCopy, InQueue, PositionsOf
<1>9. ASSUME NEW old \in SUBSET Jobs, ClearHistory(old)
      PROVE  SingleCopy' /\ HeldOrNew
  <2>1. /\ queue' = queue
        /\ \A v \in Workers : cur'[v] = cur[v] \/ cur'[v] = NoJob
        /\ \A d \in Clients : cmd'[d] = "dispatch" =>
                cmd[d] = "dispatch" /\ target'[d] = target[d]
    BY <1>9 DEF ClearHistory, TypeOK, Release, Goto, rowVars, workerVars, clientVars
  <2>. QED
    BY <2>1, FewerCopies DEF SingleCopy, InQueue, PositionsOf
<1>10. ASSUME NEW w \in Workers, Dequeue(w)
      PROVE  SingleCopy' /\ HeldOrNew
  <2>1. PICK i \in 1..Len(queue) :
            cur' = [cur EXCEPT ![w] = queue[i].job] /\ queue' = RemoveAt(queue, i)
    BY <1>10 DEF Dequeue, FirstReady
  <2>2. /\ \A a, b \in 1..Len(queue') : queue'[a].job = queue'[b].job => a = b
        /\ \A j : InQueue(j)' => InQueue(j) /\ j # queue[i].job
    BY <2>1, QueueRemove
  <2>3. queue[i].job \in Jobs /\ InQueue(queue[i].job)
    <3>1. queue[i] \in Entry
      BY <2>1, ElementOfSeq DEF TypeOK
    <3>. QED
      BY <3>1 DEF Entry, InQueue, PositionsOf
  <2>4. ~AtWorker(queue[i].job) /\ ~InDispatch(queue[i].job)
    BY <2>3 DEF SingleCopy
  <2>5. /\ cmd' = cmd /\ target' = target
        /\ \A v \in Workers : cur'[v] = IF v = w THEN queue[i].job ELSE cur[v]
    BY <1>10, <2>1 DEF Dequeue, TypeOK, clientVars
  <2>. QED
    BY <2>2, <2>3, <2>4, <2>5 DEF SingleCopy, Held, AtWorker, InDispatch
<1>11. ASSUME NEW w \in Workers, Claim(w)
      PROVE  SingleCopy' /\ HeldOrNew
  <2>1. /\ queue' = queue
        /\ \A v \in Workers : cur'[v] = cur[v] \/ cur'[v] = NoJob
        /\ \A d \in Clients : cmd'[d] = "dispatch" =>
                cmd[d] = "dispatch" /\ target'[d] = target[d]
    BY <1>11 DEF Claim, TypeOK, Release, Goto, rowVars, workerVars, clientVars
  <2>. QED
    BY <2>1, FewerCopies DEF SingleCopy, InQueue, PositionsOf
<1>12. ASSUME NEW w \in Workers, Acknowledge(w)
      PROVE  SingleCopy' /\ HeldOrNew
  <2>1. /\ queue' = queue
        /\ \A v \in Workers : cur'[v] = cur[v] \/ cur'[v] = NoJob
        /\ \A d \in Clients : cmd'[d] = "dispatch" =>
                cmd[d] = "dispatch" /\ target'[d] = target[d]
    BY <1>12 DEF Acknowledge, TypeOK, Release, Goto, rowVars, workerVars, clientVars
  <2>. QED
    BY <2>1, FewerCopies DEF SingleCopy, InQueue, PositionsOf
<1>13. ASSUME NEW w \in Workers, MatchProcessor(w)
      PROVE  SingleCopy' /\ HeldOrNew
  <2>1. /\ queue' = queue
        /\ \A v \in Workers : cur'[v] = cur[v] \/ cur'[v] = NoJob
        /\ \A d \in Clients : cmd'[d] = "dispatch" =>
                cmd[d] = "dispatch" /\ target'[d] = target[d]
    BY <1>13 DEF MatchProcessor, TypeOK, Release, Goto, rowVars, workerVars, clientVars
  <2>. QED
    BY <2>1, FewerCopies DEF SingleCopy, InQueue, PositionsOf
<1>14. ASSUME NEW w \in Workers, NoProcessor(w)
      PROVE  SingleCopy' /\ HeldOrNew
  <2>1. /\ queue' = queue
        /\ \A v \in Workers : cur'[v] = cur[v] \/ cur'[v] = NoJob
        /\ \A d \in Clients : cmd'[d] = "dispatch" =>
                cmd[d] = "dispatch" /\ target'[d] = target[d]
    BY <1>14 DEF NoProcessor, TypeOK, Release, Goto, rowVars, workerVars, clientVars
  <2>. QED
    BY <2>1, FewerCopies DEF SingleCopy, InQueue, PositionsOf
<1>15. ASSUME NEW w \in Workers, MarkRunning(w)
      PROVE  SingleCopy' /\ HeldOrNew
  <2>1. /\ queue' = queue
        /\ \A v \in Workers : cur'[v] = cur[v] \/ cur'[v] = NoJob
        /\ \A d \in Clients : cmd'[d] = "dispatch" =>
                cmd[d] = "dispatch" /\ target'[d] = target[d]
    BY <1>15 DEF MarkRunning, TypeOK, Release, Goto, rowVars, workerVars, clientVars
  <2>. QED
    BY <2>1, FewerCopies DEF SingleCopy, InQueue, PositionsOf
<1>16. ASSUME NEW w \in Workers, Enter(w)
      PROVE  SingleCopy' /\ HeldOrNew
  <2>1. /\ queue' = queue
        /\ \A v \in Workers : cur'[v] = cur[v] \/ cur'[v] = NoJob
        /\ \A d \in Clients : cmd'[d] = "dispatch" =>
                cmd[d] = "dispatch" /\ target'[d] = target[d]
    BY <1>16 DEF Enter, TypeOK, Release, Goto, rowVars, workerVars, clientVars
  <2>. QED
    BY <2>1, FewerCopies DEF SingleCopy, InQueue, PositionsOf
<1>17. ASSUME NEW w \in Workers, EnterWithoutRow(w)
      PROVE  SingleCopy' /\ HeldOrNew
  <2>1. /\ queue' = queue
        /\ \A v \in Workers : cur'[v] = cur[v] \/ cur'[v] = NoJob
        /\ \A d \in Clients : cmd'[d] = "dispatch" =>
                cmd[d] = "dispatch" /\ target'[d] = target[d]
    BY <1>17 DEF EnterWithoutRow, TypeOK, Release, Goto, rowVars, workerVars, clientVars
  <2>. QED
    BY <2>1, FewerCopies DEF SingleCopy, InQueue, PositionsOf
<1>18. ASSUME NEW w \in Workers, NEW r \in {"completed", "failed", "canceled"}, Finish(w, r)
      PROVE  SingleCopy' /\ HeldOrNew
  <2>1. /\ queue' = queue
        /\ \A v \in Workers : cur'[v] = cur[v] \/ cur'[v] = NoJob
        /\ \A d \in Clients : cmd'[d] = "dispatch" =>
                cmd[d] = "dispatch" /\ target'[d] = target[d]
    BY <1>18 DEF Finish, TypeOK, Release, Goto, rowVars, workerVars, clientVars
  <2>. QED
    BY <2>1, FewerCopies DEF SingleCopy, InQueue, PositionsOf
<1>19. ASSUME NEW w \in Workers, NEW r \in {"error", "fatal"}, Fail(w, r)
      PROVE  SingleCopy' /\ HeldOrNew
  <2>1. /\ queue' = queue
        /\ \A v \in Workers : cur'[v] = cur[v] \/ cur'[v] = NoJob
        /\ \A d \in Clients : cmd'[d] = "dispatch" =>
                cmd[d] = "dispatch" /\ target'[d] = target[d]
    BY <1>19 DEF Fail, TypeOK, Release, Goto, rowVars, workerVars, clientVars
  <2>. QED
    BY <2>1, FewerCopies DEF SingleCopy, InQueue, PositionsOf
<1>20. ASSUME NEW w \in Workers, Record(w)
      PROVE  SingleCopy' /\ HeldOrNew
  <2>1. /\ queue' = queue
        /\ \A v \in Workers : cur'[v] = cur[v] \/ cur'[v] = NoJob
        /\ \A d \in Clients : cmd'[d] = "dispatch" =>
                cmd[d] = "dispatch" /\ target'[d] = target[d]
    BY <1>20 DEF Record, TypeOK, Release, Goto, rowVars, workerVars, clientVars
  <2>. QED
    BY <2>1, FewerCopies DEF SingleCopy, InQueue, PositionsOf
<1>21. ASSUME NEW w \in Workers, Tell(w)
      PROVE  SingleCopy' /\ HeldOrNew
  <2>1. /\ queue' = queue
        /\ \A v \in Workers : cur'[v] = cur[v] \/ cur'[v] = NoJob
        /\ \A d \in Clients : cmd'[d] = "dispatch" =>
                cmd[d] = "dispatch" /\ target'[d] = target[d]
    BY <1>21 DEF Tell, TypeOK, Release, Goto, rowVars, workerVars, clientVars
  <2>. QED
    BY <2>1, FewerCopies DEF SingleCopy, InQueue, PositionsOf
<1>22. ASSUME NEW w \in Workers, ReadFailure(w)
      PROVE  SingleCopy' /\ HeldOrNew
  <2>1. /\ queue' = queue
        /\ \A v \in Workers : cur'[v] = cur[v] \/ cur'[v] = NoJob
        /\ \A d \in Clients : cmd'[d] = "dispatch" =>
                cmd[d] = "dispatch" /\ target'[d] = target[d]
    BY <1>22 DEF ReadFailure, TypeOK, Release, Goto, rowVars, workerVars, clientVars
  <2>. QED
    BY <2>1, FewerCopies DEF SingleCopy, InQueue, PositionsOf
<1>23. ASSUME NEW w \in Workers, WriteRetry(w)
      PROVE  SingleCopy' /\ HeldOrNew
  <2>1. /\ queue' = queue
        /\ \A v \in Workers : cur'[v] = cur[v] \/ cur'[v] = NoJob
        /\ \A d \in Clients : cmd'[d] = "dispatch" =>
                cmd[d] = "dispatch" /\ target'[d] = target[d]
    BY <1>23 DEF WriteRetry, TypeOK, Release, Goto, rowVars, workerVars, clientVars
  <2>. QED
    BY <2>1, FewerCopies DEF SingleCopy, InQueue, PositionsOf
<1>24. ASSUME NEW w \in Workers, Requeue(w)
      PROVE  SingleCopy' /\ HeldOrNew
  <2>1. /\ cur[w] \in Jobs /\ AtWorker(cur[w])
        /\ ~InQueue(cur[w]) /\ ~InDispatch(cur[w])
    BY <1>24 DEF Requeue, AtWorker, SingleCopy
  <2>2. /\ \A a, b \in 1..Len(queue') : queue'[a].job = queue'[b].job => a = b
        /\ \A k : InQueue(k)' => InQueue(k) \/ k = cur[w]
    BY <1>24, <2>1, QueueAppend DEF Requeue
  <2>3. /\ cmd' = cmd /\ target' = target
        /\ \A v \in Workers : cur'[v] = IF v = w THEN NoJob ELSE cur[v]
    BY <1>24 DEF Requeue, Release, TypeOK, clientVars
  <2>4. \A v \in Workers : v # w => cur[v] # cur[w]
    BY <2>1, JobsAssumption DEF SingleCopy, NoJob
  <2>. QED
    BY <2>1, <2>2, <2>3, <2>4, JobsAssumption
    DEF SingleCopy, Held, AtWorker, InDispatch, NoJob
<1>25. ASSUME NEW w \in Workers, GiveUp(w)
      PROVE  SingleCopy' /\ HeldOrNew
  <2>1. /\ queue' = queue
        /\ \A v \in Workers : cur'[v] = cur[v] \/ cur'[v] = NoJob
        /\ \A d \in Clients : cmd'[d] = "dispatch" =>
                cmd[d] = "dispatch" /\ target'[d] = target[d]
    BY <1>25 DEF GiveUp, TypeOK, Release, Goto, rowVars, workerVars, clientVars
  <2>. QED
    BY <2>1, FewerCopies DEF SingleCopy, InQueue, PositionsOf
<1>26. ASSUME NEW w \in Workers, DbError(w)
      PROVE  SingleCopy' /\ HeldOrNew
  <2>1. /\ queue' = queue
        /\ \A v \in Workers : cur'[v] = cur[v] \/ cur'[v] = NoJob
        /\ \A d \in Clients : cmd'[d] = "dispatch" =>
                cmd[d] = "dispatch" /\ target'[d] = target[d]
    BY <1>26 DEF DbError, TypeOK, Release, Goto, rowVars, workerVars, clientVars
  <2>. QED
    BY <2>1, FewerCopies DEF SingleCopy, InQueue, PositionsOf
<1>27. ASSUME NEW i \in 1..Len(queue), DelayElapses(i)
      PROVE  SingleCopy' /\ HeldOrNew
  <2>1. queue \in Seq(Entry) /\ Len(queue) \in Nat
    BY DEF TypeOK
  <2>2. queue[i] \in Entry /\ [queue[i] EXCEPT !.ready = TRUE] \in Entry
    <3>1. queue[i] \in Entry
      BY <1>27, <2>1, ElementOfSeq
    <3>. QED
      BY <3>1 DEF Entry
  <2>3. Len(queue') = Len(queue) /\ \A k \in 1..Len(queue) : queue'[k].job = queue[k].job
    BY <1>27, <2>1, <2>2, ExceptSeq DEF DelayElapses, Entry
  <2>4. cur' = cur /\ cmd' = cmd /\ target' = target
    BY <1>27 DEF DelayElapses, workerVars, clientVars
  <2>. QED
    BY <2>3, <2>4, FewerCopies DEF SingleCopy, InQueue, PositionsOf
<1>28. CASE Crash
  <2>1. /\ queue' = <<>> /\ Len(queue') = 0
        /\ \A w \in Workers : cur'[w] = NoJob
        /\ \A c \in Clients : cmd'[c] = "idle"
    BY <1>28 DEF Crash
  <2>. QED
    BY <2>1, JobsAssumption
    DEF SingleCopy, Held, InQueue, PositionsOf, AtWorker, InDispatch, NoJob
<1>29. ASSUME NEW zombies \in SUBSET {x \in Jobs : status[x] = "running"},
             NEW unreadable \in SUBSET Recoverable, StartJobSystem(zombies, unreadable)
      PROVE  SingleCopy' /\ HeldOrNew
  <2>1. /\ \A w \in Workers : cur'[w] = NoJob
        /\ \A c \in Clients : cmd'[c] = "idle"
    <3>1. cur' = cur /\ cmd' = cmd /\ ~up
      BY <1>29 DEF StartJobSystem, workerVars, clientVars
    <3>. QED
      BY <3>1 DEF Custody
  <2>2. SingleCopy'
    BY <1>29, <2>1, RecoveredQueue, JobsAssumption
    DEF SingleCopy, InQueue, PositionsOf, AtWorker, InDispatch, NoJob
  <2>3. \A j \in Recoverable : status[j] = "queued"
    BY DEF Recoverable
  <2>4. HeldOrNew
    BY <1>29, <2>1, <2>3, RecoveredQueue, JobsAssumption
    DEF Held, InQueue, PositionsOf, AtWorker, InDispatch, NoJob
  <2>. QED
    BY <2>2, <2>4
<1>30. CASE UNCHANGED vars
  <2>1. /\ queue' = queue
        /\ \A v \in Workers : cur'[v] = cur[v] \/ cur'[v] = NoJob
        /\ \A d \in Clients : cmd'[d] = "dispatch" =>
                cmd[d] = "dispatch" /\ target'[d] = target[d]
    BY <1>30 DEF vars, TypeOK, Release, Goto, rowVars, workerVars, clientVars
  <2>. QED
    BY <2>1, FewerCopies DEF SingleCopy, InQueue, PositionsOf
<1>. QED
  BY <1>1, <1>2, <1>3, <1>4, <1>5, <1>6, <1>7, <1>8, <1>9, <1>10, <1>11,
     <1>12, <1>13, <1>14, <1>15, <1>16, <1>17, <1>18, <1>19, <1>20, <1>21,
     <1>22, <1>23, <1>24, <1>25, <1>26, <1>27, <1>28, <1>29, <1>30
  DEF Next, WorkerStep, CommandStep
--------------------------------------------------------------------------------
(* Custody *)

\* The parts of Custody about one kind of task each.
WorkerCustody ==
    \A w \in Workers :
        /\ pc[w] = "idle" <=> cur[w] = NoJob
        /\ pc[w] = "recording" => result[w] \in {"completed", "failed", "canceled"}
        /\ pc[w] = "retrying" => retry[cur[w]] < MaxRetry

ClientCustody == \A c \in Clients : cmd[c] = "idle" <=> target[c] = NoJob

DownCustody ==
    ~up =>
        /\ queue = <<>>
        /\ \A w \in Workers : pc[w] = "idle"
        /\ \A c \in Clients : cmd[c] = "idle"

\* Custody taken apart.
LEMMA CustodyParts ==
    Custody <=> /\ WorkerCustody /\ ClientCustody /\ DownCustody
                /\ \A j \in Jobs : status[j] = "unborn" => ~Held(j)
BY DEF Custody, WorkerCustody, ClientCustody, DownCustody

\* A row that was inserted is never again one that was not.
LEMMA UnbornStep ==
    IInv /\ [Next]_vars =>
        \A j \in Jobs : status'[j] = "unborn" => status[j] = "unborn"
<1>. SUFFICES ASSUME IInv, [Next]_vars, NEW j \in Jobs, status'[j] = "unborn"
              PROVE  status[j] = "unborn"
  OBVIOUS
<1>. USE Holders DEF IInv, TypeOK, SetStatus, rowVars
<1>1. ASSUME NEW c \in Clients, NEW k \in Jobs, Create(c, k)
      PROVE  status[j] = "unborn"
  BY <1>1 DEF Create
<1>2. ASSUME NEW c \in Clients, Dispatch(c)
      PROVE  status[j] = "unborn"
  BY <1>2 DEF Dispatch
<1>3. ASSUME NEW c \in Clients, NEW k \in Jobs, CancelRead(c, k)
      PROVE  status[j] = "unborn"
  BY <1>3 DEF CancelRead
<1>4. ASSUME NEW c \in Clients, CancelUnqueue(c)
      PROVE  status[j] = "unborn"
  BY <1>4 DEF CancelUnqueue
<1>5. ASSUME NEW c \in Clients, CancelMark(c)
      PROVE  status[j] = "unborn"
  BY <1>5 DEF CancelMark
<1>6. ASSUME NEW c \in Clients, CancelError(c)
      PROVE  status[j] = "unborn"
  BY <1>6 DEF CancelError
<1>7. ASSUME NEW S \in Sessions, CancelSession(S)
      PROVE  status[j] = "unborn"
  BY <1>7 DEF CancelSession
<1>8. ASSUME NEW k \in Jobs, Delete(k)
      PROVE  status[j] = "unborn"
  BY <1>8 DEF Delete
<1>9. ASSUME NEW old \in SUBSET Jobs, ClearHistory(old)
      PROVE  status[j] = "unborn"
  BY <1>9 DEF ClearHistory
<1>10. ASSUME NEW w \in Workers, Dequeue(w)
      PROVE  status[j] = "unborn"
  BY <1>10 DEF Dequeue
<1>11. ASSUME NEW w \in Workers, Claim(w)
      PROVE  status[j] = "unborn"
  BY <1>11 DEF Claim
<1>12. ASSUME NEW w \in Workers, Acknowledge(w)
      PROVE  status[j] = "unborn"
  BY <1>12 DEF Acknowledge
<1>13. ASSUME NEW w \in Workers, MatchProcessor(w)
      PROVE  status[j] = "unborn"
  BY <1>13 DEF MatchProcessor
<1>14. ASSUME NEW w \in Workers, NoProcessor(w)
      PROVE  status[j] = "unborn"
  BY <1>14 DEF NoProcessor
<1>15. ASSUME NEW w \in Workers, MarkRunning(w)
      PROVE  status[j] = "unborn"
  BY <1>15 DEF MarkRunning
<1>16. ASSUME NEW w \in Workers, Enter(w)
      PROVE  status[j] = "unborn"
  BY <1>16 DEF Enter
<1>17. ASSUME NEW w \in Workers, EnterWithoutRow(w)
      PROVE  status[j] = "unborn"
  BY <1>17 DEF EnterWithoutRow
<1>18. ASSUME NEW w \in Workers, NEW r \in {"completed", "failed", "canceled"}, Finish(w, r)
      PROVE  status[j] = "unborn"
  BY <1>18 DEF Finish
<1>19. ASSUME NEW w \in Workers, NEW r \in {"error", "fatal"}, Fail(w, r)
      PROVE  status[j] = "unborn"
  BY <1>19 DEF Fail
<1>20. ASSUME NEW w \in Workers, Record(w)
      PROVE  status[j] = "unborn"
  <2>1. result[w] \in {"completed", "failed", "canceled"}
    BY <1>20  DEF Record, Custody
  <2>. QED
    BY <1>20, <2>1 DEF Record
<1>21. ASSUME NEW w \in Workers, Tell(w)
      PROVE  status[j] = "unborn"
  BY <1>21 DEF Tell
<1>22. ASSUME NEW w \in Workers, ReadFailure(w)
      PROVE  status[j] = "unborn"
  BY <1>22 DEF ReadFailure
<1>23. ASSUME NEW w \in Workers, WriteRetry(w)
      PROVE  status[j] = "unborn"
  BY <1>23 DEF WriteRetry
<1>24. ASSUME NEW w \in Workers, Requeue(w)
      PROVE  status[j] = "unborn"
  BY <1>24 DEF Requeue
<1>25. ASSUME NEW w \in Workers, GiveUp(w)
      PROVE  status[j] = "unborn"
  BY <1>25 DEF GiveUp
<1>26. ASSUME NEW w \in Workers, DbError(w)
      PROVE  status[j] = "unborn"
  BY <1>26 DEF DbError
<1>27. ASSUME NEW i \in 1..Len(queue), DelayElapses(i)
      PROVE  status[j] = "unborn"
  BY <1>27 DEF DelayElapses
<1>28. CASE Crash
  BY <1>28 DEF Crash
<1>29. ASSUME NEW zombies \in SUBSET {x \in Jobs : status[x] = "running"},
             NEW unreadable \in SUBSET Recoverable, StartJobSystem(zombies, unreadable)
      PROVE  status[j] = "unborn"
  BY <1>29 DEF StartJobSystem
<1>30. CASE UNCHANGED vars
  BY <1>30 DEF vars
<1>. QED
  BY <1>1, <1>2, <1>3, <1>4, <1>5, <1>6, <1>7, <1>8, <1>9, <1>10, <1>11,
     <1>12, <1>13, <1>14, <1>15, <1>16, <1>17, <1>18, <1>19, <1>20, <1>21,
     <1>22, <1>23, <1>24, <1>25, <1>26, <1>27, <1>28, <1>29, <1>30
  DEF Next, WorkerStep, CommandStep

\* Every step keeps Custody.
LEMMA CustodyStep == IInv /\ [Next]_vars => Custody'
<1>. SUFFICES ASSUME IInv, [Next]_vars PROVE Custody'
  OBVIOUS
<1>unborn. \A j \in Jobs : status'[j] = "unborn" => ~Held(j)'
  <2>. SUFFICES ASSUME NEW j \in Jobs, status'[j] = "unborn"
                PROVE  ~Held(j)'
    OBVIOUS
  <2>1. status[j] = "unborn"
    BY UnbornStep
  <2>2. ~Held(j)
    BY <2>1 DEF IInv, Custody
  <2>3. HeldOrNew
    BY CopyStep
  <2>. QED
    BY <2>1, <2>2, <2>3 DEF HeldOrNew
<1>. SUFFICES WorkerCustody' /\ ClientCustody' /\ DownCustody'
  BY <1>unborn DEF Custody, WorkerCustody, ClientCustody, DownCustody
<1>. USE Holders, JobsAssumption
     DEF IInv, TypeOK, Release, Goto, NoJob, rowVars, workerVars, clientVars
<1>1. ASSUME NEW c \in Clients, NEW j \in Jobs, Create(c, j)
      PROVE  WorkerCustody' /\ ClientCustody' /\ DownCustody'
  <2>1. WorkerCustody'
    BY <1>1, CustodyParts DEF Create, WorkerCustody
  <2>2. ClientCustody'
    BY <1>1, CustodyParts DEF Create, ClientCustody
  <2>3. DownCustody'
    BY <1>1, CustodyParts DEF Create, DownCustody
  <2>. QED
    BY <2>1, <2>2, <2>3
<1>2. ASSUME NEW c \in Clients, Dispatch(c)
      PROVE  WorkerCustody' /\ ClientCustody' /\ DownCustody'
  <2>1. WorkerCustody'
    BY <1>2, CustodyParts DEF Dispatch, WorkerCustody
  <2>2. ClientCustody'
    BY <1>2, CustodyParts DEF Dispatch, ClientCustody
  <2>3. DownCustody'
    BY <1>2, CustodyParts DEF Dispatch, DownCustody
  <2>. QED
    BY <2>1, <2>2, <2>3
<1>3. ASSUME NEW c \in Clients, NEW j \in Jobs, CancelRead(c, j)
      PROVE  WorkerCustody' /\ ClientCustody' /\ DownCustody'
  <2>1. WorkerCustody'
    BY <1>3, CustodyParts DEF CancelRead, WorkerCustody
  <2>2. ClientCustody'
    BY <1>3, CustodyParts DEF CancelRead, ClientCustody
  <2>3. DownCustody'
    BY <1>3, CustodyParts DEF CancelRead, DownCustody
  <2>. QED
    BY <2>1, <2>2, <2>3
<1>4. ASSUME NEW c \in Clients, CancelUnqueue(c)
      PROVE  WorkerCustody' /\ ClientCustody' /\ DownCustody'
  <2>1. WorkerCustody'
    BY <1>4, CustodyParts DEF CancelUnqueue, WorkerCustody
  <2>2. ClientCustody'
    BY <1>4, CustodyParts DEF CancelUnqueue, ClientCustody
  <2>3. DownCustody'
    BY <1>4, CustodyParts DEF CancelUnqueue, DownCustody
  <2>. QED
    BY <2>1, <2>2, <2>3
<1>5. ASSUME NEW c \in Clients, CancelMark(c)
      PROVE  WorkerCustody' /\ ClientCustody' /\ DownCustody'
  <2>1. WorkerCustody'
    BY <1>5, CustodyParts DEF CancelMark, WorkerCustody
  <2>2. ClientCustody'
    BY <1>5, CustodyParts DEF CancelMark, ClientCustody
  <2>3. DownCustody'
    BY <1>5, CustodyParts DEF CancelMark, DownCustody
  <2>. QED
    BY <2>1, <2>2, <2>3
<1>6. ASSUME NEW c \in Clients, CancelError(c)
      PROVE  WorkerCustody' /\ ClientCustody' /\ DownCustody'
  <2>1. WorkerCustody'
    BY <1>6, CustodyParts DEF CancelError, WorkerCustody
  <2>2. ClientCustody'
    BY <1>6, CustodyParts DEF CancelError, ClientCustody
  <2>3. DownCustody'
    BY <1>6, CustodyParts DEF CancelError, DownCustody
  <2>. QED
    BY <2>1, <2>2, <2>3
<1>7. ASSUME NEW S \in Sessions, CancelSession(S)
      PROVE  WorkerCustody' /\ ClientCustody' /\ DownCustody'
  <2>1. WorkerCustody'
    BY <1>7, CustodyParts DEF CancelSession, WorkerCustody
  <2>2. ClientCustody'
    BY <1>7, CustodyParts DEF CancelSession, ClientCustody
  <2>3. DownCustody'
    BY <1>7, CustodyParts DEF CancelSession, DownCustody
  <2>. QED
    BY <2>1, <2>2, <2>3
<1>8. ASSUME NEW j \in Jobs, Delete(j)
      PROVE  WorkerCustody' /\ ClientCustody' /\ DownCustody'
  <2>1. WorkerCustody'
    BY <1>8, CustodyParts DEF Delete, WorkerCustody
  <2>2. ClientCustody'
    BY <1>8, CustodyParts DEF Delete, ClientCustody
  <2>3. DownCustody'
    BY <1>8, CustodyParts DEF Delete, DownCustody
  <2>. QED
    BY <2>1, <2>2, <2>3
<1>9. ASSUME NEW old \in SUBSET Jobs, ClearHistory(old)
      PROVE  WorkerCustody' /\ ClientCustody' /\ DownCustody'
  <2>1. WorkerCustody'
    BY <1>9, CustodyParts DEF ClearHistory, WorkerCustody
  <2>2. ClientCustody'
    BY <1>9, CustodyParts DEF ClearHistory, ClientCustody
  <2>3. DownCustody'
    BY <1>9, CustodyParts DEF ClearHistory, DownCustody
  <2>. QED
    BY <2>1, <2>2, <2>3
<1>10. ASSUME NEW w \in Workers, Dequeue(w)
      PROVE  WorkerCustody' /\ ClientCustody' /\ DownCustody'
  <2>1. WorkerCustody'
    <3>1. PICK i \in FirstReady : cur' = [cur EXCEPT ![w] = queue[i].job]
      BY <1>10 DEF Dequeue
    <3>2. i \in 1..Len(queue) /\ queue[i] \in Entry
      BY <3>1, ElementOfSeq DEF FirstReady
    <3>3. queue[i].job \in Jobs /\ queue[i].job # "none"
      BY <3>2 DEF Entry
    <3>4. /\ pc' = [pc EXCEPT ![w] = "claimed"]
          /\ UNCHANGED <<retry, result>>
      BY <1>10 DEF Dequeue
    <3>. QED
      BY <3>1, <3>3, <3>4, CustodyParts DEF WorkerCustody
  <2>2. ClientCustody'
    BY <1>10, CustodyParts DEF Dequeue, ClientCustody
  <2>3. DownCustody'
    BY <1>10, CustodyParts DEF Dequeue, DownCustody
  <2>. QED
    BY <2>1, <2>2, <2>3
<1>11. ASSUME NEW w \in Workers, Claim(w)
      PROVE  WorkerCustody' /\ ClientCustody' /\ DownCustody'
  <2>1. WorkerCustody'
    BY <1>11, CustodyParts DEF Claim, WorkerCustody
  <2>2. ClientCustody'
    BY <1>11, CustodyParts DEF Claim, ClientCustody
  <2>3. DownCustody'
    BY <1>11, CustodyParts DEF Claim, DownCustody
  <2>. QED
    BY <2>1, <2>2, <2>3
<1>12. ASSUME NEW w \in Workers, Acknowledge(w)
      PROVE  WorkerCustody' /\ ClientCustody' /\ DownCustody'
  <2>1. WorkerCustody'
    BY <1>12, CustodyParts DEF Acknowledge, WorkerCustody
  <2>2. ClientCustody'
    BY <1>12, CustodyParts DEF Acknowledge, ClientCustody
  <2>3. DownCustody'
    BY <1>12, CustodyParts DEF Acknowledge, DownCustody
  <2>. QED
    BY <2>1, <2>2, <2>3
<1>13. ASSUME NEW w \in Workers, MatchProcessor(w)
      PROVE  WorkerCustody' /\ ClientCustody' /\ DownCustody'
  <2>1. WorkerCustody'
    BY <1>13, CustodyParts DEF MatchProcessor, WorkerCustody
  <2>2. ClientCustody'
    BY <1>13, CustodyParts DEF MatchProcessor, ClientCustody
  <2>3. DownCustody'
    BY <1>13, CustodyParts DEF MatchProcessor, DownCustody
  <2>. QED
    BY <2>1, <2>2, <2>3
<1>14. ASSUME NEW w \in Workers, NoProcessor(w)
      PROVE  WorkerCustody' /\ ClientCustody' /\ DownCustody'
  <2>1. WorkerCustody'
    BY <1>14, CustodyParts DEF NoProcessor, WorkerCustody
  <2>2. ClientCustody'
    BY <1>14, CustodyParts DEF NoProcessor, ClientCustody
  <2>3. DownCustody'
    BY <1>14, CustodyParts DEF NoProcessor, DownCustody
  <2>. QED
    BY <2>1, <2>2, <2>3
<1>15. ASSUME NEW w \in Workers, MarkRunning(w)
      PROVE  WorkerCustody' /\ ClientCustody' /\ DownCustody'
  <2>1. WorkerCustody'
    BY <1>15, CustodyParts DEF MarkRunning, WorkerCustody
  <2>2. ClientCustody'
    BY <1>15, CustodyParts DEF MarkRunning, ClientCustody
  <2>3. DownCustody'
    BY <1>15, CustodyParts DEF MarkRunning, DownCustody
  <2>. QED
    BY <2>1, <2>2, <2>3
<1>16. ASSUME NEW w \in Workers, Enter(w)
      PROVE  WorkerCustody' /\ ClientCustody' /\ DownCustody'
  <2>1. WorkerCustody'
    BY <1>16, CustodyParts DEF Enter, WorkerCustody
  <2>2. ClientCustody'
    BY <1>16, CustodyParts DEF Enter, ClientCustody
  <2>3. DownCustody'
    BY <1>16, CustodyParts DEF Enter, DownCustody
  <2>. QED
    BY <2>1, <2>2, <2>3
<1>17. ASSUME NEW w \in Workers, EnterWithoutRow(w)
      PROVE  WorkerCustody' /\ ClientCustody' /\ DownCustody'
  <2>1. WorkerCustody'
    BY <1>17, CustodyParts DEF EnterWithoutRow, WorkerCustody
  <2>2. ClientCustody'
    BY <1>17, CustodyParts DEF EnterWithoutRow, ClientCustody
  <2>3. DownCustody'
    BY <1>17, CustodyParts DEF EnterWithoutRow, DownCustody
  <2>. QED
    BY <2>1, <2>2, <2>3
<1>18. ASSUME NEW w \in Workers, NEW r \in {"completed", "failed", "canceled"}, Finish(w, r)
      PROVE  WorkerCustody' /\ ClientCustody' /\ DownCustody'
  <2>1. WorkerCustody'
    BY <1>18, CustodyParts DEF Finish, WorkerCustody
  <2>2. ClientCustody'
    BY <1>18, CustodyParts DEF Finish, ClientCustody
  <2>3. DownCustody'
    BY <1>18, CustodyParts DEF Finish, DownCustody
  <2>. QED
    BY <2>1, <2>2, <2>3
<1>19. ASSUME NEW w \in Workers, NEW r \in {"error", "fatal"}, Fail(w, r)
      PROVE  WorkerCustody' /\ ClientCustody' /\ DownCustody'
  <2>1. WorkerCustody'
    BY <1>19, CustodyParts DEF Fail, WorkerCustody
  <2>2. ClientCustody'
    BY <1>19, CustodyParts DEF Fail, ClientCustody
  <2>3. DownCustody'
    BY <1>19, CustodyParts DEF Fail, DownCustody
  <2>. QED
    BY <2>1, <2>2, <2>3
<1>20. ASSUME NEW w \in Workers, Record(w)
      PROVE  WorkerCustody' /\ ClientCustody' /\ DownCustody'
  <2>1. WorkerCustody'
    BY <1>20, CustodyParts DEF Record, WorkerCustody
  <2>2. ClientCustody'
    BY <1>20, CustodyParts DEF Record, ClientCustody
  <2>3. DownCustody'
    BY <1>20, CustodyParts DEF Record, DownCustody
  <2>. QED
    BY <2>1, <2>2, <2>3
<1>21. ASSUME NEW w \in Workers, Tell(w)
      PROVE  WorkerCustody' /\ ClientCustody' /\ DownCustody'
  <2>1. WorkerCustody'
    BY <1>21, CustodyParts DEF Tell, WorkerCustody
  <2>2. ClientCustody'
    BY <1>21, CustodyParts DEF Tell, ClientCustody
  <2>3. DownCustody'
    BY <1>21, CustodyParts DEF Tell, DownCustody
  <2>. QED
    BY <2>1, <2>2, <2>3
<1>22. ASSUME NEW w \in Workers, ReadFailure(w)
      PROVE  WorkerCustody' /\ ClientCustody' /\ DownCustody'
  <2>1. WorkerCustody'
    BY <1>22, CustodyParts DEF ReadFailure, WorkerCustody
  <2>2. ClientCustody'
    BY <1>22, CustodyParts DEF ReadFailure, ClientCustody
  <2>3. DownCustody'
    BY <1>22, CustodyParts DEF ReadFailure, DownCustody
  <2>. QED
    BY <2>1, <2>2, <2>3
<1>23. ASSUME NEW w \in Workers, WriteRetry(w)
      PROVE  WorkerCustody' /\ ClientCustody' /\ DownCustody'
  <2>1. WorkerCustody'
    <3>1. /\ pc[w] = "retrying" /\ cur[w] # "none" /\ cur[w] \in Jobs
          /\ pc' = [pc EXCEPT ![w] = "requeuing"]
          /\ UNCHANGED <<cur, result>>
      BY <1>23, CustodyParts DEF WriteRetry, WorkerCustody
    <3>2. \A j \in Jobs : j # cur[w] => retry'[j] = retry[j]
      BY <1>23 DEF WriteRetry
    <3>3. \A v \in Workers : v # w => cur[v] # cur[w]
      BY <3>1 DEF SingleCopy
    <3>4. ASSUME NEW v \in Workers, pc'[v] = "retrying"
          PROVE  retry'[cur'[v]] < MaxRetry
      <4>1. v # w /\ pc[v] = "retrying" /\ cur'[v] = cur[v]
        BY <3>1, <3>4
      <4>2. cur[v] \in Jobs /\ retry[cur[v]] < MaxRetry
        BY <4>1, CustodyParts DEF WorkerCustody
      <4>. QED
        BY <4>1, <4>2, <3>2, <3>3
    <3>. QED
      BY <3>1, <3>4, CustodyParts DEF WorkerCustody
  <2>2. ClientCustody'
    BY <1>23, CustodyParts DEF WriteRetry, ClientCustody
  <2>3. DownCustody'
    BY <1>23, CustodyParts DEF WriteRetry, DownCustody
  <2>. QED
    BY <2>1, <2>2, <2>3
<1>24. ASSUME NEW w \in Workers, Requeue(w)
      PROVE  WorkerCustody' /\ ClientCustody' /\ DownCustody'
  <2>1. WorkerCustody'
    BY <1>24, CustodyParts DEF Requeue, WorkerCustody
  <2>2. ClientCustody'
    BY <1>24, CustodyParts DEF Requeue, ClientCustody
  <2>3. DownCustody'
    BY <1>24, CustodyParts DEF Requeue, DownCustody
  <2>. QED
    BY <2>1, <2>2, <2>3
<1>25. ASSUME NEW w \in Workers, GiveUp(w)
      PROVE  WorkerCustody' /\ ClientCustody' /\ DownCustody'
  <2>1. WorkerCustody'
    BY <1>25, CustodyParts DEF GiveUp, WorkerCustody
  <2>2. ClientCustody'
    BY <1>25, CustodyParts DEF GiveUp, ClientCustody
  <2>3. DownCustody'
    BY <1>25, CustodyParts DEF GiveUp, DownCustody
  <2>. QED
    BY <2>1, <2>2, <2>3
<1>26. ASSUME NEW w \in Workers, DbError(w)
      PROVE  WorkerCustody' /\ ClientCustody' /\ DownCustody'
  <2>1. WorkerCustody'
    BY <1>26, CustodyParts DEF DbError, WorkerCustody
  <2>2. ClientCustody'
    BY <1>26, CustodyParts DEF DbError, ClientCustody
  <2>3. DownCustody'
    BY <1>26, CustodyParts DEF DbError, DownCustody
  <2>. QED
    BY <2>1, <2>2, <2>3
<1>27. ASSUME NEW i \in 1..Len(queue), DelayElapses(i)
      PROVE  WorkerCustody' /\ ClientCustody' /\ DownCustody'
  <2>1. WorkerCustody'
    BY <1>27, CustodyParts DEF DelayElapses, WorkerCustody
  <2>2. ClientCustody'
    BY <1>27, CustodyParts DEF DelayElapses, ClientCustody
  <2>3. DownCustody'
    BY <1>27, CustodyParts DEF DelayElapses, DownCustody
  <2>. QED
    BY <2>1, <2>2, <2>3
<1>28. CASE Crash
  <2>1. WorkerCustody'
    BY <1>28, CustodyParts DEF Crash, WorkerCustody
  <2>2. ClientCustody'
    BY <1>28, CustodyParts DEF Crash, ClientCustody
  <2>3. DownCustody'
    BY <1>28, CustodyParts DEF Crash, DownCustody
  <2>. QED
    BY <2>1, <2>2, <2>3
<1>29. ASSUME NEW zombies \in SUBSET {x \in Jobs : status[x] = "running"},
             NEW unreadable \in SUBSET Recoverable, StartJobSystem(zombies, unreadable)
      PROVE  WorkerCustody' /\ ClientCustody' /\ DownCustody'
  <2>1. WorkerCustody'
    BY <1>29, CustodyParts DEF StartJobSystem, WorkerCustody
  <2>2. ClientCustody'
    BY <1>29, CustodyParts DEF StartJobSystem, ClientCustody
  <2>3. DownCustody'
    BY <1>29, CustodyParts DEF StartJobSystem, DownCustody
  <2>. QED
    BY <2>1, <2>2, <2>3
<1>30. CASE UNCHANGED vars
  <2>1. WorkerCustody'
    BY <1>30, CustodyParts DEF vars, WorkerCustody
  <2>2. ClientCustody'
    BY <1>30, CustodyParts DEF vars, ClientCustody
  <2>3. DownCustody'
    BY <1>30, CustodyParts DEF vars, DownCustody
  <2>. QED
    BY <2>1, <2>2, <2>3
<1>. QED
  BY <1>1, <1>2, <1>3, <1>4, <1>5, <1>6, <1>7, <1>8, <1>9, <1>10, <1>11,
     <1>12, <1>13, <1>14, <1>15, <1>16, <1>17, <1>18, <1>19, <1>20, <1>21,
     <1>22, <1>23, <1>24, <1>25, <1>26, <1>27, <1>28, <1>29, <1>30
  DEF Next, WorkerStep, CommandStep
--------------------------------------------------------------------------------
(* The invariant *)

\* The program starts with no row, no entry and nobody at work.
LEMMA InvInit == Init => IInv
<1>. SUFFICES ASSUME Init PROVE IInv
  OBVIOUS
<1>1. TypeOK
  BY TypeInit
<1>2. /\ Len(queue) = 0 /\ queue = <<>>
      /\ \A w \in Workers : cur[w] = NoJob /\ pc[w] = "idle"
      /\ \A c \in Clients : target[c] = NoJob /\ cmd[c] = "idle"
  BY DEF Init
<1>3. \A j \in Jobs : ~InQueue(j) /\ ~AtWorker(j) /\ ~InDispatch(j)
  BY <1>2, JobsAssumption DEF InQueue, PositionsOf, AtWorker, InDispatch, NoJob
<1>4. SingleCopy
  BY <1>2, <1>3 DEF SingleCopy
<1>5. Custody
  BY <1>2, <1>3 DEF Custody, Held
<1>. QED
  BY <1>1, <1>4, <1>5 DEF IInv

\* IInv is inductive.
LEMMA InvStep == IInv /\ [Next]_vars => IInv'
BY TypeStep, CopyStep, CustodyStep DEF IInv

\* IInv holds in every reachable state.
LEMMA Invariance == Spec => []IInv
BY InvInit, InvStep, PTL DEF Spec

\* Rows, queue, workers and commands keep their types in every behaviour.
THEOREM TypeCorrect == Spec => []TypeOK
<1>. IInv => TypeOK
  BY DEF IInv
<1>. QED
  BY Invariance, PTL

\* However commands, workers, failed statements, crashes and recoveries
\* interleave, no job is ever in two hands (queue.rs, dispatcher.rs, mod.rs).
THEOREM OneCopy == Spec => []SingleCopy
<1>. IInv => SingleCopy
  BY DEF IInv
<1>. QED
  BY Invariance, PTL
--------------------------------------------------------------------------------
(* How often a job's processor runs: the theorems that bound it, for any     *)
(* sets of jobs, workers and commands and any bounds.                        *)

(* What a job has been through agrees with where its copy is. *)

\* A job at work has a row that was created and is not queued any more.
AtWork ==
    \A w \in Workers :
        pc[w] \notin {"idle", "claimed", "requeuing"} =>
            status[cur[w]] \notin {"queued", "unborn"}

\* The dispatcher retries no job of a workflow.
RetryKind ==
    \A w \in Workers :
        pc[w] \in {"retrying", "requeuing"} => cur[w] \notin WorkflowJobs

\* A completed job has no copy but the one its worker reports.
DonePast ==
    \A j \in Jobs : status[j] = "completed" =>
        /\ ~InQueue(j) /\ ~InDispatch(j)
        /\ \A w \in Workers : cur[w] = j => pc[w] = "telling"

Progress == AtWork /\ RetryKind /\ DonePast

\* Some worker has j and has not entered its processor in this round.
Ahead(j) ==
    \E w \in Workers :
        /\ cur[w] = j
        /\ pc[w] \in {"claimed", "matching", "ready", "entering", "requeuing"}

\* The jobs that may yet enter a processor.
MayRun(j) ==
    /\ status[j] # "deleted"
    /\ status[j] \in {"queued", "unborn"} \/ InQueue(j) \/ InDispatch(j) \/ Ahead(j)

\* A job that may still run has room for it: its runs so far are covered by
\* counted retries and failed statements.
Budget ==
    \A j \in Jobs : /\ execs[j] <= 1 + retry[j] + dbErrors
                    /\ MayRun(j) => execs[j] <= retry[j] + dbErrors

\* A job of a workflow may still run only if it never did, and may still be
\* reported only if it never was.
Once ==
    \A j \in WorkflowJobs :
        /\ execs[j] <= 1 /\ told[j] <= 1
        /\ MayRun(j) => execs[j] = 0
        /\ Held(j) \/ status[j] \in {"queued", "unborn"} => told[j] = 0

\* The inductive invariant of this module.
RInv == IInv /\ Progress /\ Budget /\ Once
--------------------------------------------------------------------------------
\* The counters that bound runs grow, and the histories change in one action.
Counted ==
    /\ dbErrors' \in Nat /\ dbErrors \in Nat /\ dbErrors <= dbErrors'
    /\ \A j \in Jobs : /\ retry'[j] \in Nat /\ retry[j] \in Nat
                       /\ retry[j] <= retry'[j]
    /\ execs' = execs \/ \E w \in Workers : Enter(w)
    /\ told' = told \/ \E w \in Workers : Tell(w)

\* The counters only grow, and by one step at a time: a run begins at a worker
\* about to enter, a report is made by a worker that has it to make.
LEMMA HistoryStep == IInv /\ Progress /\ [Next]_vars => Counted
<1>. SUFFICES ASSUME IInv, Progress, [Next]_vars PROVE  Counted
  OBVIOUS
<1>. USE Holders, UnbornStep, BoundAssumption
     DEF IInv, TypeOK, HasRow, SetStatus, Release, Goto, NoJob, rowVars,
         workerVars, clientVars, historyVars, Counted, boundVars
<1>1. ASSUME NEW c \in Clients, NEW k \in Jobs, Create(c, k)
      PROVE  Counted
  BY <1>1 DEF Create
<1>2. ASSUME NEW c \in Clients, Dispatch(c)
      PROVE  Counted
  BY <1>2 DEF Dispatch
<1>3. ASSUME NEW c \in Clients, NEW k \in Jobs, CancelRead(c, k)
      PROVE  Counted
  BY <1>3 DEF CancelRead
<1>4. ASSUME NEW c \in Clients, CancelUnqueue(c)
      PROVE  Counted
  BY <1>4 DEF CancelUnqueue
<1>5. ASSUME NEW c \in Clients, CancelMark(c)
      PROVE  Counted
  BY <1>5 DEF CancelMark
<1>6. ASSUME NEW c \in Clients, CancelError(c)
      PROVE  Counted
  BY <1>6 DEF CancelError
<1>7. ASSUME NEW S \in Sessions, CancelSession(S)
      PROVE  Counted
  BY <1>7 DEF CancelSession
<1>8. ASSUME NEW k \in Jobs, Delete(k)
      PROVE  Counted
  BY <1>8 DEF Delete
<1>9. ASSUME NEW old \in SUBSET Jobs, ClearHistory(old)
      PROVE  Counted
  BY <1>9 DEF ClearHistory
<1>10. ASSUME NEW w \in Workers, Dequeue(w)
      PROVE  Counted
  BY <1>10 DEF Dequeue
<1>11. ASSUME NEW w \in Workers, Claim(w)
      PROVE  Counted
  BY <1>11 DEF Claim
<1>12. ASSUME NEW w \in Workers, Acknowledge(w)
      PROVE  Counted
  BY <1>12 DEF Acknowledge
<1>13. ASSUME NEW w \in Workers, MatchProcessor(w)
      PROVE  Counted
  BY <1>13 DEF MatchProcessor
<1>14. ASSUME NEW w \in Workers, NoProcessor(w)
      PROVE  Counted
  BY <1>14 DEF NoProcessor
<1>15. ASSUME NEW w \in Workers, MarkRunning(w)
      PROVE  Counted
  BY <1>15 DEF MarkRunning
<1>16. ASSUME NEW w \in Workers, Enter(w)
      PROVE  Counted
  <2>1. execs' = execs \/ \E v \in Workers : Enter(v)
    BY <1>16
  <2>2. told' = told /\ UNCHANGED <<dbErrors, retry>>
    BY <1>16 DEF Enter
  <2>. QED
    BY <2>1, <2>2
<1>17. ASSUME NEW w \in Workers, EnterWithoutRow(w)
      PROVE  Counted
  BY <1>17 DEF EnterWithoutRow
<1>18. ASSUME NEW w \in Workers, NEW r \in {"completed", "failed", "canceled"}, Finish(w, r)
      PROVE  Counted
  BY <1>18 DEF Finish
<1>19. ASSUME NEW w \in Workers, NEW r \in {"error", "fatal"}, Fail(w, r)
      PROVE  Counted
  BY <1>19 DEF Fail
<1>20. ASSUME NEW w \in Workers, Record(w)
      PROVE  Counted
  BY <1>20 DEF Record
<1>21. ASSUME NEW w \in Workers, Tell(w)
      PROVE  Counted
  <2>1. told' = told \/ \E v \in Workers : Tell(v)
    BY <1>21
  <2>2. execs' = execs /\ UNCHANGED <<dbErrors, retry>>
    BY <1>21 DEF Tell
  <2>. QED
    BY <2>1, <2>2
<1>22. ASSUME NEW w \in Workers, ReadFailure(w)
      PROVE  Counted
  BY <1>22 DEF ReadFailure
<1>23. ASSUME NEW w \in Workers, WriteRetry(w)
      PROVE  Counted
  BY <1>23 DEF WriteRetry
<1>24. ASSUME NEW w \in Workers, Requeue(w)
      PROVE  Counted
  BY <1>24 DEF Requeue
<1>25. ASSUME NEW w \in Workers, GiveUp(w)
      PROVE  Counted
  BY <1>25 DEF GiveUp
<1>26. ASSUME NEW w \in Workers, DbError(w)
      PROVE  Counted
  BY <1>26 DEF DbError
<1>27. ASSUME NEW i \in 1..Len(queue), DelayElapses(i)
      PROVE  Counted
  BY <1>27 DEF DelayElapses
<1>28. CASE Crash
  BY <1>28 DEF Crash
<1>29. ASSUME NEW zombies \in SUBSET {x \in Jobs : status[x] = "running"},
             NEW unreadable \in SUBSET Recoverable, StartJobSystem(zombies, unreadable)
      PROVE  Counted
  BY <1>29 DEF StartJobSystem
<1>30. CASE UNCHANGED vars
  BY <1>30 DEF vars
<1>. QED
  BY <1>1, <1>2, <1>3, <1>4, <1>5, <1>6, <1>7, <1>8, <1>9, <1>10, <1>11,
     <1>12, <1>13, <1>14, <1>15, <1>16, <1>17, <1>18, <1>19, <1>20, <1>21,
     <1>22, <1>23, <1>24, <1>25, <1>26, <1>27, <1>28, <1>29, <1>30
  DEF Next, WorkerStep, CommandStep

\* Every step keeps AtWork.
LEMMA AtWorkStep == IInv /\ AtWork /\ [Next]_vars => AtWork'
<1>. SUFFICES ASSUME IInv, AtWork, [Next]_vars PROVE  AtWork'
  OBVIOUS
<1>. USE Holders, UnbornStep, SubsetAssumption
     DEF IInv, TypeOK, AtWork, HasRow, SetStatus, Release, Goto, NoJob, rowVars,
         workerVars, clientVars, historyVars, boundVars
<1>. SingleCopy /\ Custody
  OBVIOUS
<1>1. ASSUME NEW c \in Clients, NEW k \in Jobs, Create(c, k)
      PROVE  AtWork'
  BY <1>1 DEF Create
<1>2. ASSUME NEW c \in Clients, Dispatch(c)
      PROVE  AtWork'
  BY <1>2 DEF Dispatch
<1>3. ASSUME NEW c \in Clients, NEW k \in Jobs, CancelRead(c, k)
      PROVE  AtWork'
  BY <1>3 DEF CancelRead
<1>4. ASSUME NEW c \in Clients, CancelUnqueue(c)
      PROVE  AtWork'
  BY <1>4 DEF CancelUnqueue
<1>5. ASSUME NEW c \in Clients, CancelMark(c)
      PROVE  AtWork'
  BY <1>5 DEF CancelMark
<1>6. ASSUME NEW c \in Clients, CancelError(c)
      PROVE  AtWork'
  BY <1>6 DEF CancelError
<1>7. ASSUME NEW S \in Sessions, CancelSession(S)
      PROVE  AtWork'
  BY <1>7 DEF CancelSession
<1>8. ASSUME NEW k \in Jobs, Delete(k)
      PROVE  AtWork'
  BY <1>8 DEF Delete
<1>9. ASSUME NEW old \in SUBSET Jobs, ClearHistory(old)
      PROVE  AtWork'
  BY <1>9 DEF ClearHistory
<1>10. ASSUME NEW w \in Workers, Dequeue(w)
      PROVE  AtWork'
  BY <1>10 DEF Dequeue
<1>11. ASSUME NEW w \in Workers, Claim(w)
      PROVE  AtWork'
  <2>. SUFFICES ASSUME NEW v \in Workers, pc'[v] \notin {"idle", "claimed", "requeuing"}
               PROVE  status'[cur'[v]] \notin {"queued", "unborn"}
    OBVIOUS
  <2>1. cur[w] \in Jobs /\ status[cur[w]] # "unborn"
    BY <1>11 DEF Claim, Custody, Held, AtWorker
  <2>2. v # w => cur[v] # cur[w]
    BY <2>1, JobsAssumption DEF SingleCopy
  <2>3. status'[cur[w]] \notin {"queued", "unborn"}
    BY <1>11, <2>1 DEF Claim, JobStatuses, ActiveStatuses
  <2>4. /\ v # w => pc'[v] = pc[v]
        /\ \A j \in Jobs : j # cur[w] => status'[j] = status[j]
        /\ cur' = cur
    BY <1>11 DEF Claim
  <2>5. CASE v = w
    BY <2>3, <2>4, <2>5
  <2>6. CASE v # w
    <3>1. pc[v] = pc'[v] /\ cur[v] \in Jobs /\ cur[v] # cur[w]
      BY <2>2, <2>4, <2>6
    <3>. QED
      BY <2>4, <3>1
  <2>. QED
    BY <2>5, <2>6
<1>12. ASSUME NEW w \in Workers, Acknowledge(w)
      PROVE  AtWork'
  BY <1>12 DEF Acknowledge
<1>13. ASSUME NEW w \in Workers, MatchProcessor(w)
      PROVE  AtWork'
  BY <1>13 DEF MatchProcessor
<1>14. ASSUME NEW w \in Workers, NoProcessor(w)
      PROVE  AtWork'
  BY <1>14 DEF NoProcessor
<1>15. ASSUME NEW w \in Workers, MarkRunning(w)
      PROVE  AtWork'
  BY <1>15 DEF MarkRunning
<1>16. ASSUME NEW w \in Workers, Enter(w)
      PROVE  AtWork'
  BY <1>16 DEF Enter
<1>17. ASSUME NEW w \in Workers, EnterWithoutRow(w)
      PROVE  AtWork'
  BY <1>17 DEF EnterWithoutRow
<1>18. ASSUME NEW w \in Workers, NEW r \in {"completed", "failed", "canceled"}, Finish(w, r)
      PROVE  AtWork'
  BY <1>18 DEF Finish
<1>19. ASSUME NEW w \in Workers, NEW r \in {"error", "fatal"}, Fail(w, r)
      PROVE  AtWork'
  BY <1>19 DEF Fail
<1>20. ASSUME NEW w \in Workers, Record(w)
      PROVE  AtWork'
  <2>. SUFFICES ASSUME NEW v \in Workers, pc'[v] \notin {"idle", "claimed", "requeuing"}
               PROVE  status'[cur'[v]] \notin {"queued", "unborn"}
    OBVIOUS
  <2>1. result[w] \in {"completed", "failed", "canceled"}
    BY <1>20 DEF Record, Custody
  <2>2. \A j \in Jobs : status'[j] = status[j] \/ status'[j] = result[w]
    BY <1>20 DEF Record
  <2>3. pc[v] \notin {"idle", "claimed", "requeuing"} /\ cur'[v] = cur[v]
    BY <1>20 DEF Record
  <2>. QED
    BY <2>1, <2>2, <2>3
<1>21. ASSUME NEW w \in Workers, Tell(w)
      PROVE  AtWork'
  BY <1>21 DEF Tell
<1>22. ASSUME NEW w \in Workers, ReadFailure(w)
      PROVE  AtWork'
  <2>. SUFFICES ASSUME NEW v \in Workers, pc'[v] \notin {"idle", "claimed", "requeuing"}
               PROVE  status'[cur'[v]] \notin {"queued", "unborn"}
    OBVIOUS
  <2>1. pc[v] \notin {"idle", "claimed", "requeuing"} /\ cur'[v] = cur[v]
    <3>1. CASE v = w
      BY <1>22, <3>1 DEF ReadFailure
    <3>2. CASE v # w
      BY <1>22, <3>2 DEF ReadFailure
    <3>. QED
      BY <3>1, <3>2
  <2>. QED
    BY <1>22, <2>1 DEF ReadFailure
<1>23. ASSUME NEW w \in Workers, WriteRetry(w)
      PROVE  AtWork'
  <2>1. cur[w] \in Jobs
    BY <1>23 DEF WriteRetry
  <2>2. \A v \in Workers : v # w /\ pc[v] # "idle" => cur[v] # cur[w]
    BY <2>1, JobsAssumption DEF SingleCopy
  <2>3. /\ \A v \in Workers : v # w => pc'[v] = pc[v] /\ cur'[v] = cur[v]
        /\ \A j \in Jobs : j # cur[w] => status'[j] = status[j]
        /\ pc'[w] = "requeuing"
    BY <1>23 DEF WriteRetry
  <2>. QED
    BY <2>1, <2>2, <2>3
<1>24. ASSUME NEW w \in Workers, Requeue(w)
      PROVE  AtWork'
  BY <1>24 DEF Requeue
<1>25. ASSUME NEW w \in Workers, GiveUp(w)
      PROVE  AtWork'
  <2>1. \A j \in Jobs : status'[j] = status[j] \/ status'[j] = "failed"
    BY <1>25 DEF GiveUp
  <2>2. /\ \A v \in Workers : v # w => pc'[v] = pc[v] /\ cur'[v] = cur[v]
        /\ pc[w] = "giving_up"
    BY <1>25 DEF GiveUp
  <2>3. \/ pc' = [pc EXCEPT ![w] = "telling"] /\ cur' = cur
        \/ pc' = [pc EXCEPT ![w] = "idle"]
    BY <1>25 DEF GiveUp
  <2>. QED
    BY <2>1, <2>2, <2>3
<1>26. ASSUME NEW w \in Workers, DbError(w)
      PROVE  AtWork'
  <2>. SUFFICES ASSUME NEW v \in Workers, pc'[v] \notin {"idle", "claimed", "requeuing"}
               PROVE  status'[cur'[v]] \notin {"queued", "unborn"}
    OBVIOUS
  <2>1. status' = status
    BY <1>26 DEF DbError
  <2>2. CASE v # w
    <3>1. pc[v] = pc'[v] /\ cur'[v] = cur[v]
      BY <1>26, <2>2 DEF DbError
    <3>. QED
      BY <2>1, <3>1
  <2>3. CASE v = w
    <3>1. pc[w] \in {"entering", "giving_up"} /\ cur' = cur
      BY <1>26, <2>3 DEF DbError
    <3>. QED
      BY <2>1, <2>3, <3>1
  <2>. QED
    BY <2>2, <2>3
<1>27. ASSUME NEW i \in 1..Len(queue), DelayElapses(i)
      PROVE  AtWork'
  BY <1>27 DEF DelayElapses
<1>28. CASE Crash
  BY <1>28 DEF Crash
<1>29. ASSUME NEW zombies \in SUBSET {x \in Jobs : status[x] = "running"},
             NEW unreadable \in SUBSET Recoverable, StartJobSystem(zombies, unreadable)
      PROVE  AtWork'
  BY <1>29 DEF StartJobSystem
<1>30. CASE UNCHANGED vars
  BY <1>30 DEF vars
<1>. QED
  BY <1>1, <1>2, <1>3, <1>4, <1>5, <1>6, <1>7, <1>8, <1>9, <1>10, <1>11,
     <1>12, <1>13, <1>14, <1>15, <1>16, <1>17, <1>18, <1>19, <1>20, <1>21,
     <1>22, <1>23, <1>24, <1>25, <1>26, <1>27, <1>28, <1>29, <1>30
  DEF Next, WorkerStep, CommandStep

\* Every step keeps RetryKind.
LEMMA RetryKindStep == IInv /\ RetryKind /\ [Next]_vars => RetryKind'
<1>. SUFFICES ASSUME IInv, RetryKind, [Next]_vars PROVE  RetryKind'
  OBVIOUS
<1>. USE Holders, UnbornStep, SubsetAssumption
     DEF IInv, TypeOK, RetryKind, HasRow, SetStatus, Release, Goto, NoJob, rowVars,
         workerVars, clientVars, historyVars, boundVars
<1>. SingleCopy /\ Custody
  OBVIOUS
<1>1. ASSUME NEW c \in Clients, NEW k \in Jobs, Create(c, k)
      PROVE  RetryKind'
  BY <1>1 DEF Create
<1>2. ASSUME NEW c \in Clients, Dispatch(c)
      PROVE  RetryKind'
  BY <1>2 DEF Dispatch
<1>3. ASSUME NEW c \in Clients, NEW k \in Jobs, CancelRead(c, k)
      PROVE  RetryKind'
  BY <1>3 DEF CancelRead
<1>4. ASSUME NEW c \in Clients, CancelUnqueue(c)
      PROVE  RetryKind'
  BY <1>4 DEF CancelUnqueue
<1>5. ASSUME NEW c \in Clients, CancelMark(c)
      PROVE  RetryKind'
  BY <1>5 DEF CancelMark
<1>6. ASSUME NEW c \in Clients, CancelError(c)
      PROVE  RetryKind'
  BY <1>6 DEF CancelError
<1>7. ASSUME NEW S \in Sessions, CancelSession(S)
      PROVE  RetryKind'
  BY <1>7 DEF CancelSession
<1>8. ASSUME NEW k \in Jobs, Delete(k)
      PROVE  RetryKind'
  BY <1>8 DEF Delete
<1>9. ASSUME NEW old \in SUBSET Jobs, ClearHistory(old)
      PROVE  RetryKind'
  BY <1>9 DEF ClearHistory
<1>10. ASSUME NEW w \in Workers, Dequeue(w)
      PROVE  RetryKind'
  BY <1>10 DEF Dequeue
<1>11. ASSUME NEW w \in Workers, Claim(w)
      PROVE  RetryKind'
  BY <1>11 DEF Claim
<1>12. ASSUME NEW w \in Workers, Acknowledge(w)
      PROVE  RetryKind'
  BY <1>12 DEF Acknowledge
<1>13. ASSUME NEW w \in Workers, MatchProcessor(w)
      PROVE  RetryKind'
  BY <1>13 DEF MatchProcessor
<1>14. ASSUME NEW w \in Workers, NoProcessor(w)
      PROVE  RetryKind'
  BY <1>14 DEF NoProcessor
<1>15. ASSUME NEW w \in Workers, MarkRunning(w)
      PROVE  RetryKind'
  BY <1>15 DEF MarkRunning
<1>16. ASSUME NEW w \in Workers, Enter(w)
      PROVE  RetryKind'
  BY <1>16 DEF Enter
<1>17. ASSUME NEW w \in Workers, EnterWithoutRow(w)
      PROVE  RetryKind'
  BY <1>17 DEF EnterWithoutRow
<1>18. ASSUME NEW w \in Workers, NEW r \in {"completed", "failed", "canceled"}, Finish(w, r)
      PROVE  RetryKind'
  BY <1>18 DEF Finish
<1>19. ASSUME NEW w \in Workers, NEW r \in {"error", "fatal"}, Fail(w, r)
      PROVE  RetryKind'
  BY <1>19 DEF Fail
<1>20. ASSUME NEW w \in Workers, Record(w)
      PROVE  RetryKind'
  BY <1>20 DEF Record
<1>21. ASSUME NEW w \in Workers, Tell(w)
      PROVE  RetryKind'
  BY <1>21 DEF Tell
<1>22. ASSUME NEW w \in Workers, ReadFailure(w)
      PROVE  RetryKind'
  BY <1>22 DEF ReadFailure
<1>23. ASSUME NEW w \in Workers, WriteRetry(w)
      PROVE  RetryKind'
  BY <1>23 DEF WriteRetry
<1>24. ASSUME NEW w \in Workers, Requeue(w)
      PROVE  RetryKind'
  BY <1>24 DEF Requeue
<1>25. ASSUME NEW w \in Workers, GiveUp(w)
      PROVE  RetryKind'
  BY <1>25 DEF GiveUp
<1>26. ASSUME NEW w \in Workers, DbError(w)
      PROVE  RetryKind'
  BY <1>26 DEF DbError
<1>27. ASSUME NEW i \in 1..Len(queue), DelayElapses(i)
      PROVE  RetryKind'
  BY <1>27 DEF DelayElapses
<1>28. CASE Crash
  BY <1>28 DEF Crash
<1>29. ASSUME NEW zombies \in SUBSET {x \in Jobs : status[x] = "running"},
             NEW unreadable \in SUBSET Recoverable, StartJobSystem(zombies, unreadable)
      PROVE  RetryKind'
  BY <1>29 DEF StartJobSystem
<1>30. CASE UNCHANGED vars
  BY <1>30 DEF vars
<1>. QED
  BY <1>1, <1>2, <1>3, <1>4, <1>5, <1>6, <1>7, <1>8, <1>9, <1>10, <1>11,
     <1>12, <1>13, <1>14, <1>15, <1>16, <1>17, <1>18, <1>19, <1>20, <1>21,
     <1>22, <1>23, <1>24, <1>25, <1>26, <1>27, <1>28, <1>29, <1>30
  DEF Next, WorkerStep, CommandStep
--------------------------------------------------------------------------------
(* How copies and rows move *)

\* Where a new queue entry comes from.
QueueMoves ==
    \A j \in Jobs : InQueue(j)' =>
        \/ InQueue(j) \/ InDispatch(j) \/ status[j] = "queued"
        \/ \E w \in Workers : cur[w] = j /\ pc[w] = "requeuing"

\* Where a Job value about to be dispatched comes from.
ClientMoves ==
    \A j \in Jobs : InDispatch(j)' => InDispatch(j) \/ status[j] = "unborn"

\* How a worker comes by its copy and where its round goes: back to the queue only
\* by a counted retry or one whose count could not be stored.
WorkerMoves ==
    \A w \in Workers : pc'[w] # "idle" =>
        \/ pc[w] = "idle" /\ pc'[w] = "claimed" /\ InQueue(cur'[w])
        \/ /\ pc[w] # "idle" /\ cur'[w] = cur[w]
           /\ pc[w] = "telling" => pc'[w] = "telling"
           /\ pc'[w] \in {"claimed", "matching", "ready", "entering"} =>
                pc[w] \in {"claimed", "matching", "ready", "entering"}
           /\ pc'[w] = "requeuing" =>
                \/ pc[w] = "requeuing"
                \/ pc[w] = "retrying" /\ WriteRetry(w)
                \/ pc[w] = "retrying" /\ dbErrors' = dbErrors + 1

\* What may happen to a row: a deleted one is never rewritten, only Record
\* completes one and only a creation or a retry queues one.
RowMoves ==
    \A j \in Jobs :
        /\ status[j] = "deleted" => status'[j] = "deleted"
        /\ status'[j] = "completed" =>
            \/ status[j] = "completed"
            \/ \E w \in Workers : Record(w) /\ cur[w] = j
        /\ status'[j] = "queued" =>
            \/ status[j] \in {"queued", "unborn"}
            \/ \E w \in Workers : WriteRetry(w) /\ HasRow(j) /\ cur[w] = j

\* Who may replace what an ended row says by something other than "canceled".
RowWriters ==
    \A j \in Jobs :
        \/ status'[j] \in {status[j], "canceled", "deleted"}
        \/ status[j] \in {"unborn", "queued", "running"}
        \/ \E w \in Workers : cur[w] = j /\ pc[w] \notin {"idle", "telling"}

\* Most updates of one row write a status that RowMoves says nothing of.
LEMMA OtherStatus ==
    ASSUME TypeOK, NEW k, NEW s, SetStatus(k, s),
           s \notin {"deleted", "completed", "queued"}
    PROVE  RowMoves
BY DEF TypeOK, SetStatus, HasRow, RowMoves, JobStatuses, ActiveStatuses, TerminalStatuses

\* Entries come from a dispatch, a retry or a queued row.
LEMMA QueueMovesStep == IInv /\ [Next]_vars => QueueMoves
<1>. SUFFICES ASSUME IInv, [Next]_vars PROVE  QueueMoves
  OBVIOUS
<1>. USE Holders, JobsAssumption
     DEF IInv, TypeOK, HasRow, SetStatus, Release, Goto, NoJob, rowVars,
         workerVars, clientVars, historyVars, boundVars
<1>. SingleCopy /\ Custody
  OBVIOUS
<1>1. ASSUME NEW c \in Clients, NEW k \in Jobs, Create(c, k)
      PROVE  QueueMoves
  <2>1. queue' = queue
    BY <1>1 DEF Create
  <2>. QED
    BY <2>1 DEF InQueue, PositionsOf, QueueMoves
<1>2. ASSUME NEW c \in Clients, Dispatch(c)
      PROVE  QueueMoves
  <2>1. target[c] \in Jobs /\ InDispatch(target[c])
    BY <1>2 DEF Dispatch, InDispatch
  <2>2. ~InQueue(target[c])
    BY <2>1 DEF SingleCopy
  <2>3. \A k : InQueue(k)' => InQueue(k) \/ k = target[c]
    BY <1>2, <2>1, <2>2, QueueAppend DEF Dispatch
  <2>. QED
    BY <2>1, <2>3 DEF QueueMoves
<1>3. ASSUME NEW c \in Clients, NEW k \in Jobs, CancelRead(c, k)
      PROVE  QueueMoves
  <2>1. queue' = queue
    BY <1>3 DEF CancelRead
  <2>. QED
    BY <2>1 DEF InQueue, PositionsOf, QueueMoves
<1>4. ASSUME NEW c \in Clients, CancelUnqueue(c)
      PROVE  QueueMoves
  <2>1. CASE queue' = queue
    BY <2>1 DEF QueueMoves, InQueue, PositionsOf
  <2>2. ASSUME NEW i \in 1..Len(queue), queue' = RemoveAt(queue, i)
        PROVE  QueueMoves
    BY <2>2, QueueRemove DEF QueueMoves
  <2>. QED
    BY <1>4, <2>1, <2>2 DEF CancelUnqueue, PositionsOf
<1>5. ASSUME NEW c \in Clients, CancelMark(c)
      PROVE  QueueMoves
  <2>1. queue' = queue
    BY <1>5 DEF CancelMark
  <2>. QED
    BY <2>1 DEF InQueue, PositionsOf, QueueMoves
<1>6. ASSUME NEW c \in Clients, CancelError(c)
      PROVE  QueueMoves
  <2>1. queue' = queue
    BY <1>6 DEF CancelError
  <2>. QED
    BY <2>1 DEF InQueue, PositionsOf, QueueMoves
<1>7. ASSUME NEW S \in Sessions, CancelSession(S)
      PROVE  QueueMoves
  <2>1. queue' = queue
    BY <1>7 DEF CancelSession
  <2>. QED
    BY <2>1 DEF InQueue, PositionsOf, QueueMoves
<1>8. ASSUME NEW k \in Jobs, Delete(k)
      PROVE  QueueMoves
  <2>1. queue' = queue
    BY <1>8 DEF Delete
  <2>. QED
    BY <2>1 DEF InQueue, PositionsOf, QueueMoves
<1>9. ASSUME NEW old \in SUBSET Jobs, ClearHistory(old)
      PROVE  QueueMoves
  <2>1. queue' = queue
    BY <1>9 DEF ClearHistory
  <2>. QED
    BY <2>1 DEF InQueue, PositionsOf, QueueMoves
<1>10. ASSUME NEW w \in Workers, Dequeue(w)
      PROVE  QueueMoves
  <2>1. PICK i \in 1..Len(queue) : queue' = RemoveAt(queue, i)
    BY <1>10 DEF Dequeue, FirstReady
  <2>. QED
    BY <2>1, QueueRemove DEF QueueMoves
<1>11. ASSUME NEW w \in Workers, Claim(w)
      PROVE  QueueMoves
  <2>1. queue' = queue
    BY <1>11 DEF Claim
  <2>. QED
    BY <2>1 DEF InQueue, PositionsOf, QueueMoves
<1>12. ASSUME NEW w \in Workers, Acknowledge(w)
      PROVE  QueueMoves
  <2>1. queue' = queue
    BY <1>12 DEF Acknowledge
  <2>. QED
    BY <2>1 DEF InQueue, PositionsOf, QueueMoves
<1>13. ASSUME NEW w \in Workers, MatchProcessor(w)
      PROVE  QueueMoves
  <2>1. queue' = queue
    BY <1>13 DEF MatchProcessor
  <2>. QED
    BY <2>1 DEF InQueue, PositionsOf, QueueMoves
<1>14. ASSUME NEW w \in Workers, NoProcessor(w)
      PROVE  QueueMoves
  <2>1. queue' = queue
    BY <1>14 DEF NoProcessor
  <2>. QED
    BY <2>1 DEF InQueue, PositionsOf, QueueMoves
<1>15. ASSUME NEW w \in Workers, MarkRunning(w)
      PROVE  QueueMoves
  <2>1. queue' = queue
    BY <1>15 DEF MarkRunning
  <2>. QED
    BY <2>1 DEF InQueue, PositionsOf, QueueMoves
<1>16. ASSUME NEW w \in Workers, Enter(w)
      PROVE  QueueMoves
  <2>1. queue' = queue
    BY <1>16 DEF Enter
  <2>. QED
    BY <2>1 DEF InQueue, PositionsOf, QueueMoves
<1>17. ASSUME NEW w \in Workers, EnterWithoutRow(w)
      PROVE  QueueMoves
  <2>1. queue' = queue
    BY <1>17 DEF EnterWithoutRow
  <2>. QED
    BY <2>1 DEF InQueue, PositionsOf, QueueMoves
<1>18. ASSUME NEW w \in Workers, NEW r \in {"completed", "failed", "canceled"}, Finish(w, r)
      PROVE  QueueMoves
  <2>1. queue' = queue
    BY <1>18 DEF Finish
  <2>. QED
    BY <2>1 DEF InQueue, PositionsOf, QueueMoves
<1>19. ASSUME NEW w \in Workers, NEW r \in {"error", "fatal"}, Fail(w, r)
      PROVE  QueueMoves
  <2>1. queue' = queue
    BY <1>19 DEF Fail
  <2>. QED
    BY <2>1 DEF InQueue, PositionsOf, QueueMoves
<1>20. ASSUME NEW w \in Workers, Record(w)
      PROVE  QueueMoves
  <2>1. queue' = queue
    BY <1>20 DEF Record
  <2>. QED
    BY <2>1 DEF InQueue, PositionsOf, QueueMoves
<1>21. ASSUME NEW w \in Workers, Tell(w)
      PROVE  QueueMoves
  <2>1. queue' = queue
    BY <1>21 DEF Tell
  <2>. QED
    BY <2>1 DEF InQueue, PositionsOf, QueueMoves
<1>22. ASSUME NEW w \in Workers, ReadFailure(w)
      PROVE  QueueMoves
  <2>1. queue' = queue
    BY <1>22 DEF ReadFailure
  <2>. QED
    BY <2>1 DEF InQueue, PositionsOf, QueueMoves
<1>23. ASSUME NEW w \in Workers, WriteRetry(w)
      PROVE  QueueMoves
  <2>1. queue' = queue
    BY <1>23 DEF WriteRetry
  <2>. QED
    BY <2>1 DEF InQueue, PositionsOf, QueueMoves
<1>24. ASSUME NEW w \in Workers, Requeue(w)
      PROVE  QueueMoves
  <2>1. cur[w] \in Jobs /\ pc[w] = "requeuing"
    BY <1>24 DEF Requeue
  <2>2. ~InQueue(cur[w])
    BY <2>1 DEF SingleCopy, AtWorker
  <2>3. \A k : InQueue(k)' => InQueue(k) \/ k = cur[w]
    BY <1>24, <2>1, <2>2, QueueAppend DEF Requeue
  <2>. QED
    BY <2>1, <2>3 DEF QueueMoves
<1>25. ASSUME NEW w \in Workers, GiveUp(w)
      PROVE  QueueMoves
  <2>1. queue' = queue
    BY <1>25 DEF GiveUp
  <2>. QED
    BY <2>1 DEF InQueue, PositionsOf, QueueMoves
<1>26. ASSUME NEW w \in Workers, DbError(w)
      PROVE  QueueMoves
  <2>1. queue' = queue
    BY <1>26 DEF DbError
  <2>. QED
    BY <2>1 DEF InQueue, PositionsOf, QueueMoves
<1>27. ASSUME NEW i \in 1..Len(queue), DelayElapses(i)
      PROVE  QueueMoves
  <2>1. Len(queue') = Len(queue) /\ \A k \in 1..Len(queue) : queue'[k].job = queue[k].job
    <3>1. queue' = [queue EXCEPT ![i].ready = TRUE]
      BY <1>27 DEF DelayElapses
    <3>2. \A k \in 1..Len(queue) : queue[k] \in Entry
      BY ElementOfSeq
    <3>. QED
      BY <3>1, <3>2, ExceptSeq DEF Entry
  <2>. QED
    BY <2>1 DEF InQueue, PositionsOf, QueueMoves
<1>28. CASE Crash
  <2>1. queue' = <<>>
    BY <1>28 DEF Crash
  <2>. QED
    BY <2>1 DEF InQueue, PositionsOf, QueueMoves
<1>29. ASSUME NEW zombies \in SUBSET {x \in Jobs : status[x] = "running"},
             NEW unreadable \in SUBSET Recoverable, StartJobSystem(zombies, unreadable)
      PROVE  QueueMoves
  <2>1. \A i \in 1..Len(queue') : status[queue'[i].job] = "queued"
    BY <1>29, RecoveredQueue DEF Recoverable
  <2>. QED
    BY <2>1 DEF InQueue, PositionsOf, QueueMoves
<1>30. CASE UNCHANGED vars
  <2>1. queue' = queue
    BY <1>30 DEF vars
  <2>. QED
    BY <2>1 DEF InQueue, PositionsOf, QueueMoves
<1>. QED
  BY <1>1, <1>2, <1>3, <1>4, <1>5, <1>6, <1>7, <1>8, <1>9, <1>10, <1>11,
     <1>12, <1>13, <1>14, <1>15, <1>16, <1>17, <1>18, <1>19, <1>20, <1>21,
     <1>22, <1>23, <1>24, <1>25, <1>26, <1>27, <1>28, <1>29, <1>30
  DEF Next, WorkerStep, CommandStep

\* A command has a copy to dispatch from the row it created.
LEMMA ClientMovesStep == IInv /\ [Next]_vars => ClientMoves
<1>. SUFFICES ASSUME IInv, [Next]_vars PROVE  ClientMoves
  OBVIOUS
<1>. USE Holders, JobsAssumption
     DEF IInv, TypeOK, HasRow, SetStatus, Release, Goto, NoJob, rowVars,
         workerVars, clientVars, historyVars, boundVars
<1>. SingleCopy /\ Custody
  OBVIOUS
<1>1. ASSUME NEW c \in Clients, NEW k \in Jobs, Create(c, k)
      PROVE  ClientMoves
  BY <1>1 DEF Create, InDispatch, ClientMoves
<1>2. ASSUME NEW c \in Clients, Dispatch(c)
      PROVE  ClientMoves
  BY <1>2 DEF Dispatch, InDispatch, ClientMoves
<1>3. ASSUME NEW c \in Clients, NEW k \in Jobs, CancelRead(c, k)
      PROVE  ClientMoves
  BY <1>3 DEF CancelRead, InDispatch, ClientMoves
<1>4. ASSUME NEW c \in Clients, CancelUnqueue(c)
      PROVE  ClientMoves
  BY <1>4 DEF CancelUnqueue, InDispatch, ClientMoves
<1>5. ASSUME NEW c \in Clients, CancelMark(c)
      PROVE  ClientMoves
  BY <1>5 DEF CancelMark, InDispatch, ClientMoves
<1>6. ASSUME NEW c \in Clients, CancelError(c)
      PROVE  ClientMoves
  BY <1>6 DEF CancelError, InDispatch, ClientMoves
<1>7. ASSUME NEW S \in Sessions, CancelSession(S)
      PROVE  ClientMoves
  BY <1>7 DEF CancelSession, InDispatch, ClientMoves
<1>8. ASSUME NEW k \in Jobs, Delete(k)
      PROVE  ClientMoves
  BY <1>8 DEF Delete, InDispatch, ClientMoves
<1>9. ASSUME NEW old \in SUBSET Jobs, ClearHistory(old)
      PROVE  ClientMoves
  BY <1>9 DEF ClearHistory, InDispatch, ClientMoves
<1>10. ASSUME NEW w \in Workers, Dequeue(w)
      PROVE  ClientMoves
  BY <1>10 DEF Dequeue, InDispatch, ClientMoves
<1>11. ASSUME NEW w \in Workers, Claim(w)
      PROVE  ClientMoves
  BY <1>11 DEF Claim, InDispatch, ClientMoves
<1>12. ASSUME NEW w \in Workers, Acknowledge(w)
      PROVE  ClientMoves
  BY <1>12 DEF Acknowledge, InDispatch, ClientMoves
<1>13. ASSUME NEW w \in Workers, MatchProcessor(w)
      PROVE  ClientMoves
  BY <1>13 DEF MatchProcessor, InDispatch, ClientMoves
<1>14. ASSUME NEW w \in Workers, NoProcessor(w)
      PROVE  ClientMoves
  BY <1>14 DEF NoProcessor, InDispatch, ClientMoves
<1>15. ASSUME NEW w \in Workers, MarkRunning(w)
      PROVE  ClientMoves
  BY <1>15 DEF MarkRunning, InDispatch, ClientMoves
<1>16. ASSUME NEW w \in Workers, Enter(w)
      PROVE  ClientMoves
  BY <1>16 DEF Enter, InDispatch, ClientMoves
<1>17. ASSUME NEW w \in Workers, EnterWithoutRow(w)
      PROVE  ClientMoves
  BY <1>17 DEF EnterWithoutRow, InDispatch, ClientMoves
<1>18. ASSUME NEW w \in Workers, NEW r \in {"completed", "failed", "canceled"}, Finish(w, r)
      PROVE  ClientMoves
  BY <1>18 DEF Finish, InDispatch, ClientMoves
<1>19. ASSUME NEW w \in Workers, NEW r \in {"error", "fatal"}, Fail(w, r)
      PROVE  ClientMoves
  BY <1>19 DEF Fail, InDispatch, ClientMoves
<1>20. ASSUME NEW w \in Workers, Record(w)
      PROVE  ClientMoves
  BY <1>20 DEF Record, InDispatch, ClientMoves
<1>21. ASSUME NEW w \in Workers, Tell(w)
      PROVE  ClientMoves
  BY <1>21 DEF Tell, InDispatch, ClientMoves
<1>22. ASSUME NEW w \in Workers, ReadFailure(w)
      PROVE  ClientMoves
  BY <1>22 DEF ReadFailure, InDispatch, ClientMoves
<1>23. ASSUME NEW w \in Workers, WriteRetry(w)
      PROVE  ClientMoves
  BY <1>23 DEF WriteRetry, InDispatch, ClientMoves
<1>24. ASSUME NEW w \in Workers, Requeue(w)
      PROVE  ClientMoves
  BY <1>24 DEF Requeue, InDispatch, ClientMoves
<1>25. ASSUME NEW w \in Workers, GiveUp(w)
      PROVE  ClientMoves
  BY <1>25 DEF GiveUp, InDispatch, ClientMoves
<1>26. ASSUME NEW w \in Workers, DbError(w)
      PROVE  ClientMoves
  BY <1>26 DEF DbError, InDispatch, ClientMoves
<1>27. ASSUME NEW i \in 1..Len(queue), DelayElapses(i)
      PROVE  ClientMoves
  BY <1>27 DEF DelayElapses, InDispatch, ClientMoves
<1>28. CASE Crash
  BY <1>28 DEF Crash, InDispatch, ClientMoves
<1>29. ASSUME NEW zombies \in SUBSET {x \in Jobs : status[x] = "running"},
             NEW unreadable \in SUBSET Recoverable, StartJobSystem(zombies, unreadable)
      PROVE  ClientMoves
  BY <1>29 DEF StartJobSystem, InDispatch, ClientMoves
<1>30. CASE UNCHANGED vars
  BY <1>30 DEF vars, InDispatch, ClientMoves
<1>. QED
  BY <1>1, <1>2, <1>3, <1>4, <1>5, <1>6, <1>7, <1>8, <1>9, <1>10, <1>11,
     <1>12, <1>13, <1>14, <1>15, <1>16, <1>17, <1>18, <1>19, <1>20, <1>21,
     <1>22, <1>23, <1>24, <1>25, <1>26, <1>27, <1>28, <1>29, <1>30
  DEF Next, WorkerStep, CommandStep

\* A worker takes its copy from the queue and walks on through its round.
LEMMA WorkerMovesStep == IInv /\ [Next]_vars => WorkerMoves
<1>. SUFFICES ASSUME IInv, [Next]_vars PROVE  WorkerMoves
  OBVIOUS
<1>. USE Holders, JobsAssumption
     DEF IInv, TypeOK, HasRow, SetStatus, Release, Goto, NoJob, rowVars,
         workerVars, clientVars, historyVars, boundVars
<1>. SingleCopy /\ Custody
  OBVIOUS
<1>1. ASSUME NEW c \in Clients, NEW k \in Jobs, Create(c, k)
      PROVE  WorkerMoves
  BY <1>1 DEF Create, WorkerMoves
<1>2. ASSUME NEW c \in Clients, Dispatch(c)
      PROVE  WorkerMoves
  BY <1>2 DEF Dispatch, WorkerMoves
<1>3. ASSUME NEW c \in Clients, NEW k \in Jobs, CancelRead(c, k)
      PROVE  WorkerMoves
  BY <1>3 DEF CancelRead, WorkerMoves
<1>4. ASSUME NEW c \in Clients, CancelUnqueue(c)
      PROVE  WorkerMoves
  BY <1>4 DEF CancelUnqueue, WorkerMoves
<1>5. ASSUME NEW c \in Clients, CancelMark(c)
      PROVE  WorkerMoves
  BY <1>5 DEF CancelMark, WorkerMoves
<1>6. ASSUME NEW c \in Clients, CancelError(c)
      PROVE  WorkerMoves
  BY <1>6 DEF CancelError, WorkerMoves
<1>7. ASSUME NEW S \in Sessions, CancelSession(S)
      PROVE  WorkerMoves
  BY <1>7 DEF CancelSession, WorkerMoves
<1>8. ASSUME NEW k \in Jobs, Delete(k)
      PROVE  WorkerMoves
  BY <1>8 DEF Delete, WorkerMoves
<1>9. ASSUME NEW old \in SUBSET Jobs, ClearHistory(old)
      PROVE  WorkerMoves
  BY <1>9 DEF ClearHistory, WorkerMoves
<1>10. ASSUME NEW w \in Workers, Dequeue(w)
      PROVE  WorkerMoves
  <2>1. PICK i \in 1..Len(queue) : cur' = [cur EXCEPT ![w] = queue[i].job]
    BY <1>10 DEF Dequeue, FirstReady
  <2>2. pc[w] = "idle" /\ pc' = [pc EXCEPT ![w] = "claimed"]
    BY <1>10 DEF Dequeue
  <2>3. InQueue(queue[i].job)
    BY DEF InQueue, PositionsOf
  <2>. QED
    BY <2>1, <2>2, <2>3 DEF WorkerMoves
<1>11. ASSUME NEW w \in Workers, Claim(w)
      PROVE  WorkerMoves
  BY <1>11 DEF Claim, WorkerMoves
<1>12. ASSUME NEW w \in Workers, Acknowledge(w)
      PROVE  WorkerMoves
  BY <1>12 DEF Acknowledge, WorkerMoves
<1>13. ASSUME NEW w \in Workers, MatchProcessor(w)
      PROVE  WorkerMoves
  BY <1>13 DEF MatchProcessor, WorkerMoves
<1>14. ASSUME NEW w \in Workers, NoProcessor(w)
      PROVE  WorkerMoves
  BY <1>14 DEF NoProcessor, WorkerMoves
<1>15. ASSUME NEW w \in Workers, MarkRunning(w)
      PROVE  WorkerMoves
  BY <1>15 DEF MarkRunning, WorkerMoves
<1>16. ASSUME NEW w \in Workers, Enter(w)
      PROVE  WorkerMoves
  BY <1>16 DEF Enter, WorkerMoves
<1>17. ASSUME NEW w \in Workers, EnterWithoutRow(w)
      PROVE  WorkerMoves
  BY <1>17 DEF EnterWithoutRow, WorkerMoves
<1>18. ASSUME NEW w \in Workers, NEW r \in {"completed", "failed", "canceled"}, Finish(w, r)
      PROVE  WorkerMoves
  BY <1>18 DEF Finish, WorkerMoves
<1>19. ASSUME NEW w \in Workers, NEW r \in {"error", "fatal"}, Fail(w, r)
      PROVE  WorkerMoves
  BY <1>19 DEF Fail, WorkerMoves
<1>20. ASSUME NEW w \in Workers, Record(w)
      PROVE  WorkerMoves
  BY <1>20 DEF Record, WorkerMoves
<1>21. ASSUME NEW w \in Workers, Tell(w)
      PROVE  WorkerMoves
  BY <1>21 DEF Tell, WorkerMoves
<1>22. ASSUME NEW w \in Workers, ReadFailure(w)
      PROVE  WorkerMoves
  BY <1>22 DEF ReadFailure, WorkerMoves
<1>23. ASSUME NEW w \in Workers, WriteRetry(w)
      PROVE  WorkerMoves
  <2>1. WriteRetry(w)
    BY <1>23
  <2>2. /\ pc[w] = "retrying" /\ pc' = [pc EXCEPT ![w] = "requeuing"]
        /\ cur' = cur
    BY <1>23 DEF WriteRetry
  <2>. QED
    BY <2>1, <2>2 DEF WorkerMoves
<1>24. ASSUME NEW w \in Workers, Requeue(w)
      PROVE  WorkerMoves
  BY <1>24 DEF Requeue, WorkerMoves
<1>25. ASSUME NEW w \in Workers, GiveUp(w)
      PROVE  WorkerMoves
  BY <1>25 DEF GiveUp, WorkerMoves
<1>26. ASSUME NEW w \in Workers, DbError(w)
      PROVE  WorkerMoves
  BY <1>26 DEF DbError, WorkerMoves
<1>27. ASSUME NEW i \in 1..Len(queue), DelayElapses(i)
      PROVE  WorkerMoves
  BY <1>27 DEF DelayElapses, WorkerMoves
<1>28. CASE Crash
  BY <1>28 DEF Crash, WorkerMoves
<1>29. ASSUME NEW zombies \in SUBSET {x \in Jobs : status[x] = "running"},
             NEW unreadable \in SUBSET Recoverable, StartJobSystem(zombies, unreadable)
      PROVE  WorkerMoves
  BY <1>29 DEF StartJobSystem, WorkerMoves
<1>30. CASE UNCHANGED vars
  BY <1>30 DEF vars, WorkerMoves
<1>. QED
  BY <1>1, <1>2, <1>3, <1>4, <1>5, <1>6, <1>7, <1>8, <1>9, <1>10, <1>11,
     <1>12, <1>13, <1>14, <1>15, <1>16, <1>17, <1>18, <1>19, <1>20, <1>21,
     <1>22, <1>23, <1>24, <1>25, <1>26, <1>27, <1>28, <1>29, <1>30
  DEF Next, WorkerStep, CommandStep

\* Only the worker that has a job writes more than an end into its row.
LEMMA RowWritersStep == IInv /\ [Next]_vars => RowWriters
<1>. SUFFICES ASSUME IInv, [Next]_vars PROVE  RowWriters
  OBVIOUS
<1>. USE Holders, JobsAssumption
     DEF IInv, TypeOK, HasRow, SetStatus, Release, Goto, NoJob, rowVars,
         workerVars, clientVars, historyVars, boundVars
<1>. SingleCopy /\ Custody
  OBVIOUS
<1>1. ASSUME NEW c \in Clients, NEW k \in Jobs, Create(c, k)
      PROVE  RowWriters
  BY <1>1 DEF Create, RowWriters
<1>2. ASSUME NEW c \in Clients, Dispatch(c)
      PROVE  RowWriters
  BY <1>2 DEF Dispatch, RowWriters
<1>3. ASSUME NEW c \in Clients, NEW k \in Jobs, CancelRead(c, k)
      PROVE  RowWriters
  BY <1>3 DEF CancelRead, RowWriters
<1>4. ASSUME NEW c \in Clients, CancelUnqueue(c)
      PROVE  RowWriters
  BY <1>4 DEF CancelUnqueue, RowWriters
<1>5. ASSUME NEW c \in Clients, CancelMark(c)
      PROVE  RowWriters
  BY <1>5 DEF CancelMark, RowWriters
<1>6. ASSUME NEW c \in Clients, CancelError(c)
      PROVE  RowWriters
  BY <1>6 DEF CancelError, RowWriters
<1>7. ASSUME NEW S \in Sessions, CancelSession(S)
      PROVE  RowWriters
  BY <1>7 DEF CancelSession, RowWriters
<1>8. ASSUME NEW k \in Jobs, Delete(k)
      PROVE  RowWriters
  BY <1>8 DEF Delete, RowWriters
<1>9. ASSUME NEW old \in SUBSET Jobs, ClearHistory(old)
      PROVE  RowWriters
  BY <1>9 DEF ClearHistory, RowWriters
<1>10. ASSUME NEW w \in Workers, Dequeue(w)
      PROVE  RowWriters
  BY <1>10 DEF Dequeue, RowWriters
<1>11. ASSUME NEW w \in Workers, Claim(w)
      PROVE  RowWriters
  BY <1>11 DEF Claim, RowWriters
<1>12. ASSUME NEW w \in Workers, Acknowledge(w)
      PROVE  RowWriters
  BY <1>12 DEF Acknowledge, RowWriters
<1>13. ASSUME NEW w \in Workers, MatchProcessor(w)
      PROVE  RowWriters
  BY <1>13 DEF MatchProcessor, RowWriters
<1>14. ASSUME NEW w \in Workers, NoProcessor(w)
      PROVE  RowWriters
  BY <1>14 DEF NoProcessor, RowWriters
<1>15. ASSUME NEW w \in Workers, MarkRunning(w)
      PROVE  RowWriters
  BY <1>15 DEF MarkRunning, RowWriters
<1>16. ASSUME NEW w \in Workers, Enter(w)
      PROVE  RowWriters
  BY <1>16 DEF Enter, RowWriters
<1>17. ASSUME NEW w \in Workers, EnterWithoutRow(w)
      PROVE  RowWriters
  BY <1>17 DEF EnterWithoutRow, RowWriters
<1>18. ASSUME NEW w \in Workers, NEW r \in {"completed", "failed", "canceled"}, Finish(w, r)
      PROVE  RowWriters
  BY <1>18 DEF Finish, RowWriters
<1>19. ASSUME NEW w \in Workers, NEW r \in {"error", "fatal"}, Fail(w, r)
      PROVE  RowWriters
  BY <1>19 DEF Fail, RowWriters
<1>20. ASSUME NEW w \in Workers, Record(w)
      PROVE  RowWriters
  BY <1>20 DEF Record, RowWriters
<1>21. ASSUME NEW w \in Workers, Tell(w)
      PROVE  RowWriters
  BY <1>21 DEF Tell, RowWriters
<1>22. ASSUME NEW w \in Workers, ReadFailure(w)
      PROVE  RowWriters
  BY <1>22 DEF ReadFailure, RowWriters
<1>23. ASSUME NEW w \in Workers, WriteRetry(w)
      PROVE  RowWriters
  BY <1>23 DEF WriteRetry, RowWriters
<1>24. ASSUME NEW w \in Workers, Requeue(w)
      PROVE  RowWriters
  BY <1>24 DEF Requeue, RowWriters
<1>25. ASSUME NEW w \in Workers, GiveUp(w)
      PROVE  RowWriters
  BY <1>25 DEF GiveUp, RowWriters
<1>26. ASSUME NEW w \in Workers, DbError(w)
      PROVE  RowWriters
  BY <1>26 DEF DbError, RowWriters
<1>27. ASSUME NEW i \in 1..Len(queue), DelayElapses(i)
      PROVE  RowWriters
  BY <1>27 DEF DelayElapses, RowWriters
<1>28. CASE Crash
  BY <1>28 DEF Crash, RowWriters
<1>29. ASSUME NEW zombies \in SUBSET {x \in Jobs : status[x] = "running"},
             NEW unreadable \in SUBSET Recoverable, StartJobSystem(zombies, unreadable)
      PROVE  RowWriters
  BY <1>29 DEF StartJobSystem, Recoverable, RowWriters
<1>30. CASE UNCHANGED vars
  BY <1>30 DEF vars, RowWriters
<1>. QED
  BY <1>1, <1>2, <1>3, <1>4, <1>5, <1>6, <1>7, <1>8, <1>9, <1>10, <1>11,
     <1>12, <1>13, <1>14, <1>15, <1>16, <1>17, <1>18, <1>19, <1>20, <1>21,
     <1>22, <1>23, <1>24, <1>25, <1>26, <1>27, <1>28, <1>29, <1>30
  DEF Next, WorkerStep, CommandStep

\* Rows are queued by their creation or a retry, and completed by Record.
LEMMA RowMovesStep == IInv /\ [Next]_vars => RowMoves
<1>. SUFFICES ASSUME IInv, [Next]_vars PROVE  RowMoves
  OBVIOUS
<1>. TypeOK /\ SingleCopy /\ Custody
  BY DEF IInv
<1>. USE DEF rowVars
<1>1. ASSUME NEW c \in Clients, NEW k \in Jobs, Create(c, k)
      PROVE  RowMoves
  BY <1>1
  DEF Create, TypeOK, HasRow, ClearableStatuses, JobStatuses, TerminalStatuses,
      ActiveStatuses, RowMoves
<1>2. ASSUME NEW c \in Clients, Dispatch(c)
      PROVE  RowMoves
  BY <1>2 DEF Dispatch, RowMoves
<1>3. ASSUME NEW c \in Clients, NEW k \in Jobs, CancelRead(c, k)
      PROVE  RowMoves
  BY <1>3 DEF CancelRead, RowMoves
<1>4. ASSUME NEW c \in Clients, CancelUnqueue(c)
      PROVE  RowMoves
  BY <1>4 DEF CancelUnqueue, RowMoves
<1>5. ASSUME NEW c \in Clients, CancelMark(c)
      PROVE  RowMoves
  <2>1. SetStatus(target[c], "canceled")
    BY <1>5 DEF CancelMark
  <2>. QED
    BY <2>1, OtherStatus
<1>6. ASSUME NEW c \in Clients, CancelError(c)
      PROVE  RowMoves
  BY <1>6 DEF CancelError, RowMoves
<1>7. ASSUME NEW S \in Sessions, CancelSession(S)
      PROVE  RowMoves
  BY <1>7 DEF CancelSession, SessionCancelable, TypeOK, RowMoves
<1>8. ASSUME NEW k \in Jobs, Delete(k)
      PROVE  RowMoves
  BY <1>8
  DEF Delete, TypeOK, HasRow, ClearableStatuses, JobStatuses, TerminalStatuses,
      ActiveStatuses, RowMoves
<1>9. ASSUME NEW old \in SUBSET Jobs, ClearHistory(old)
      PROVE  RowMoves
  BY <1>9
  DEF ClearHistory, TypeOK, HasRow, ClearableStatuses, JobStatuses, TerminalStatuses,
      ActiveStatuses, RowMoves
<1>10. ASSUME NEW w \in Workers, Dequeue(w)
      PROVE  RowMoves
  BY <1>10 DEF Dequeue, RowMoves
<1>11. ASSUME NEW w \in Workers, Claim(w)
      PROVE  RowMoves
  <2>1. SetStatus(cur[w], "preparing")
    BY <1>11 DEF Claim
  <2>. QED
    BY <2>1, OtherStatus
<1>12. ASSUME NEW w \in Workers, Acknowledge(w)
      PROVE  RowMoves
  <2>1. SetStatus(cur[w], "acknowledged_by_worker")
    BY <1>12 DEF Acknowledge
  <2>. QED
    BY <2>1, OtherStatus
<1>13. ASSUME NEW w \in Workers, MatchProcessor(w)
      PROVE  RowMoves
  <2>1. SetStatus(cur[w], "preparing")
    BY <1>13 DEF MatchProcessor
  <2>. QED
    BY <2>1, OtherStatus
<1>14. ASSUME NEW w \in Workers, NoProcessor(w)
      PROVE  RowMoves
  BY <1>14 DEF NoProcessor, RowMoves
<1>15. ASSUME NEW w \in Workers, MarkRunning(w)
      PROVE  RowMoves
  <2>1. SetStatus(cur[w], "running")
    BY <1>15 DEF MarkRunning
  <2>. QED
    BY <2>1, OtherStatus
<1>16. ASSUME NEW w \in Workers, Enter(w)
      PROVE  RowMoves
  <2>1. SetStatus(cur[w], "running")
    BY <1>16 DEF Enter
  <2>. QED
    BY <2>1, OtherStatus
<1>17. ASSUME NEW w \in Workers, EnterWithoutRow(w)
      PROVE  RowMoves
  BY <1>17 DEF EnterWithoutRow, RowMoves
<1>18. ASSUME NEW w \in Workers, NEW r \in {"completed", "failed", "canceled"}, Finish(w, r)
      PROVE  RowMoves
  BY <1>18 DEF Finish, RowMoves
<1>19. ASSUME NEW w \in Workers, NEW r \in {"error", "fatal"}, Fail(w, r)
      PROVE  RowMoves
  BY <1>19 DEF Fail, RowMoves
<1>20. ASSUME NEW w \in Workers, Record(w)
      PROVE  RowMoves
  <2>1. result[w] \in {"completed", "failed", "canceled"} /\ SetStatus(cur[w], result[w])
    BY <1>20 DEF Record, Custody
  <2>2. \A j \in Jobs : \/ status'[j] = status[j]
                        \/ HasRow(j) /\ j = cur[w] /\ status'[j] = result[w]
    BY <2>1 DEF SetStatus, TypeOK
  <2>3. Record(w)
    BY <1>20
  <2>. QED
    BY <2>1, <2>2, <2>3 DEF HasRow, JobStatuses, ActiveStatuses, TerminalStatuses, RowMoves
<1>21. ASSUME NEW w \in Workers, Tell(w)
      PROVE  RowMoves
  BY <1>21 DEF Tell, RowMoves
<1>22. ASSUME NEW w \in Workers, ReadFailure(w)
      PROVE  RowMoves
  BY <1>22 DEF ReadFailure, RowMoves
<1>23. ASSUME NEW w \in Workers, WriteRetry(w)
      PROVE  RowMoves
  <2>1. SetStatus(cur[w], "queued")
    BY <1>23 DEF WriteRetry
  <2>2. \A j \in Jobs : \/ status'[j] = status[j]
                        \/ HasRow(j) /\ j = cur[w] /\ status'[j] = "queued"
    BY <2>1 DEF SetStatus, TypeOK
  <2>3. WriteRetry(w)
    BY <1>23
  <2>. QED
    BY <2>1, <2>2, <2>3 DEF HasRow, JobStatuses, ActiveStatuses, TerminalStatuses, RowMoves
<1>24. ASSUME NEW w \in Workers, Requeue(w)
      PROVE  RowMoves
  BY <1>24 DEF Requeue, RowMoves
<1>25. ASSUME NEW w \in Workers, GiveUp(w)
      PROVE  RowMoves
  <2>1. SetStatus(cur[w], "failed")
    BY <1>25 DEF GiveUp
  <2>. QED
    BY <2>1, OtherStatus
<1>26. ASSUME NEW w \in Workers, DbError(w)
      PROVE  RowMoves
  BY <1>26 DEF DbError, RowMoves
<1>27. ASSUME NEW i \in 1..Len(queue), DelayElapses(i)
      PROVE  RowMoves
  BY <1>27 DEF DelayElapses, RowMoves
<1>28. CASE Crash
  BY <1>28 DEF Crash, RowMoves
<1>29. ASSUME NEW zombies \in SUBSET {x \in Jobs : status[x] = "running"},
             NEW unreadable \in SUBSET Recoverable, StartJobSystem(zombies, unreadable)
      PROVE  RowMoves
  BY <1>29 DEF StartJobSystem, Recoverable, TypeOK, RowMoves
<1>30. CASE UNCHANGED vars
  BY <1>30 DEF vars, RowMoves
<1>. QED
  BY <1>1, <1>2, <1>3, <1>4, <1>5, <1>6, <1>7, <1>8, <1>9, <1>10, <1>11,
     <1>12, <1>13, <1>14, <1>15, <1>16, <1>17, <1>18, <1>19, <1>20, <1>21,
     <1>22, <1>23, <1>24, <1>25, <1>26, <1>27, <1>28, <1>29, <1>30
  DEF Next, WorkerStep, CommandStep
--------------------------------------------------------------------------------
(* Runs stay within the budget *)

\* A recorded success is not taken up by anyone.
LEMMA DonePastStep ==
    IInv /\ Progress /\ [Next]_vars => DonePast'
<1>. SUFFICES ASSUME IInv, Progress, [Next]_vars,
                     NEW j \in Jobs, status'[j] = "completed"
              PROVE  /\ ~InQueue(j)' /\ ~InDispatch(j)'
                     /\ \A w \in Workers : cur'[w] = j => pc'[w] = "telling"
  BY DEF DonePast
<1>. IInv' /\ SingleCopy /\ Custody /\ Custody' /\ DonePast
  BY InvStep DEF IInv, Progress
<1>1. QueueMoves /\ ClientMoves /\ WorkerMoves /\ RowMoves
  BY QueueMovesStep, ClientMovesStep, WorkerMovesStep, RowMovesStep
<1>2. CASE status[j] = "completed"
  <2>1. ~InQueue(j) /\ ~InDispatch(j) /\ \A w \in Workers : cur[w] = j => pc[w] = "telling"
    BY <1>2 DEF DonePast
  <2>2. ~InQueue(j)' /\ ~InDispatch(j)'
    BY <1>1, <1>2, <2>1 DEF QueueMoves, ClientMoves
  <2>3. ASSUME NEW w \in Workers, cur'[w] = j
        PROVE  pc'[w] = "telling"
    <3>1. pc'[w] # "idle"
      BY <2>3, JobsAssumption DEF Custody, NoJob
    <3>2. pc[w] # "idle" /\ cur[w] = j
      BY <1>1, <2>1, <2>3, <3>1 DEF WorkerMoves
    <3>. QED
      BY <1>1, <2>1, <2>3, <3>1, <3>2 DEF WorkerMoves
  <2>. QED
    BY <2>2, <2>3
<1>3. CASE status[j] # "completed"
  <2>1. PICK v \in Workers : Record(v) /\ cur[v] = j
    BY <1>1, <1>3 DEF RowMoves
  <2>2. /\ queue' = queue /\ cmd' = cmd /\ target' = target
        /\ \/ pc' = [pc EXCEPT ![v] = "telling"] /\ cur' = cur
           \/ cur' = [cur EXCEPT ![v] = NoJob]
    BY <2>1 DEF Record, Goto, Release, clientVars
  <2>3. ~InQueue(j) /\ ~InDispatch(j) /\ \A w \in Workers : cur[w] = j => w = v
    BY <2>1, JobsAssumption DEF SingleCopy, AtWorker, NoJob
  <2>4. ~InQueue(j)' /\ ~InDispatch(j)'
    BY <2>2, <2>3 DEF InQueue, PositionsOf, InDispatch
  <2>5. \A w \in Workers : cur'[w] = j => pc'[w] = "telling"
    BY <2>2, <2>3, JobsAssumption DEF IInv, TypeOK, NoJob
  <2>. QED
    BY <2>4, <2>5
<1>. QED
  BY <1>2, <1>3

\* Every step keeps Progress.
LEMMA ProgressStep == IInv /\ Progress /\ [Next]_vars => Progress'
BY AtWorkStep, RetryKindStep, DonePastStep DEF Progress

\* A job that may run could run before, or its retry was counted, or the
\* statement that should have counted it failed; and then it is no workflow's.
LEMMA MayRunStep ==
    ASSUME IInv, Progress, [Next]_vars, NEW j \in Jobs, MayRun(j)'
    PROVE  \/ MayRun(j)
           \/ /\ j \notin WorkflowJobs
              /\ retry'[j] + dbErrors' >= retry[j] + dbErrors + 1
<1>. SingleCopy /\ Custody /\ TypeOK /\ AtWork /\ RetryKind
  BY DEF IInv, Progress
<1>1. QueueMoves /\ ClientMoves /\ WorkerMoves /\ RowMoves /\ Counted
  BY QueueMovesStep, ClientMovesStep, WorkerMovesStep, RowMovesStep, HistoryStep
<1>2. status[j] # "deleted" /\ status'[j] # "deleted"
  BY <1>1 DEF RowMoves, MayRun
<1>. SUFFICES ASSUME ~MayRun(j)
              PROVE  /\ j \notin WorkflowJobs
                     /\ retry'[j] + dbErrors' >= retry[j] + dbErrors + 1
  OBVIOUS
<1>3. /\ status[j] \notin {"queued", "unborn"}
      /\ ~InQueue(j) /\ ~InDispatch(j) /\ ~Ahead(j)
  BY <1>2 DEF MayRun
<1>4. ~InQueue(j)' /\ ~InDispatch(j)' /\ status'[j] # "unborn"
  BY <1>1, <1>3, UnbornStep DEF QueueMoves, ClientMoves, Ahead
<1>5. ASSUME NEW w \in Workers, WriteRetry(w), cur[w] = j
      PROVE  /\ j \notin WorkflowJobs
             /\ retry'[j] + dbErrors' >= retry[j] + dbErrors + 1
  <2>1. pc[w] = "retrying"
    BY <1>5 DEF WriteRetry
  <2>2. j \notin WorkflowJobs
    BY <1>5, <2>1 DEF RetryKind
  <2>3. status[j] \in RowStates /\ status[j] \in JobStatuses
    BY <1>2, <1>3 DEF TypeOK, RowStates
  <2>4. retry' = [retry EXCEPT ![j] = @ + 1] /\ dbErrors' = dbErrors
    BY <1>5, <2>3 DEF WriteRetry, HasRow, boundVars
  <2>5. retry'[j] = retry[j] + 1
    BY <2>4 DEF TypeOK
  <2>. QED
    BY <1>1, <2>2, <2>4, <2>5 DEF Counted
<1>6. CASE status'[j] = "queued"
  BY <1>1, <1>3, <1>5, <1>6 DEF RowMoves
<1>7. CASE Ahead(j)'
  <2>1. PICK w \in Workers :
            /\ cur'[w] = j
            /\ pc'[w] \in {"claimed", "matching", "ready", "entering", "requeuing"}
    BY <1>7 DEF Ahead
  <2>2. cur[w] = j /\ pc[w] # "idle"
    BY <1>1, <1>3, <2>1 DEF WorkerMoves
  <2>3. pc[w] \notin {"claimed", "matching", "ready", "entering", "requeuing"}
    BY <1>3, <2>2 DEF Ahead
  <2>4. pc[w] = "retrying" /\ (WriteRetry(w) \/ dbErrors' = dbErrors + 1)
    BY <1>1, <2>1, <2>2, <2>3 DEF WorkerMoves
  <2>5. CASE WriteRetry(w)
    BY <1>5, <2>2, <2>5
  <2>6. CASE dbErrors' = dbErrors + 1
    <3>1. j \notin WorkflowJobs
      BY <2>2, <2>4 DEF RetryKind
    <3>2. retry'[j] >= retry[j] /\ retry[j] \in Nat /\ retry'[j] \in Nat /\ dbErrors \in Nat
      BY <1>1 DEF Counted
    <3>. QED
      BY <2>6, <3>1, <3>2
  <2>. QED
    BY <2>4, <2>5, <2>6
<1>. QED
  BY <1>4, <1>6, <1>7 DEF MayRun

\* A job that enters its processor may not run again until it is retried.
LEMMA EnterSpends ==
    ASSUME IInv, [Next]_vars, NEW w \in Workers, Enter(w)
    PROVE  /\ cur[w] \in Jobs /\ MayRun(cur[w]) /\ ~MayRun(cur[w])'
           /\ \A j \in Jobs :
                execs'[j] = IF j = cur[w] THEN execs[j] + 1 ELSE execs[j]
<1>. TypeOK /\ SingleCopy /\ Custody
  BY DEF IInv
<1>1. /\ pc[w] = "entering" /\ pc' = [pc EXCEPT ![w] = "executing"] /\ cur' = cur
      /\ queue' = queue /\ cmd' = cmd /\ target' = target
  BY DEF Enter, Goto, clientVars
<1>2. cur[w] \in Jobs /\ HasRow(cur[w])
  BY <1>1, Holders DEF Enter
<1>3. MayRun(cur[w])
  BY <1>1, <1>2 DEF MayRun, Ahead, HasRow, JobStatuses, ActiveStatuses, TerminalStatuses
<1>4. status'[cur[w]] = "running"
  BY <1>2 DEF Enter, SetStatus, TypeOK
<1>5. /\ ~InQueue(cur[w]) /\ ~InDispatch(cur[w])
      /\ \A v \in Workers : cur[v] = cur[w] => v = w
  BY <1>2, JobsAssumption DEF SingleCopy, AtWorker, NoJob
<1>6. ~InQueue(cur[w])' /\ ~InDispatch(cur[w])' /\ ~Ahead(cur[w])'
  BY <1>1, <1>5 DEF InQueue, PositionsOf, InDispatch, Ahead, TypeOK
<1>7. ~MayRun(cur[w])'
  BY <1>1, <1>4, <1>6 DEF MayRun
<1>8. \A j \in Jobs : execs'[j] = IF j = cur[w] THEN execs[j] + 1 ELSE execs[j]
  BY <1>2 DEF Enter, TypeOK
<1>. QED
  BY <1>2, <1>3, <1>7, <1>8

\* Every step keeps the budget: Enter spends what a retry or a failed statement
\* has provided.
LEMMA BudgetStep == IInv /\ Progress /\ Budget /\ [Next]_vars => Budget'
<1>. SUFFICES ASSUME IInv, Progress, Budget, [Next]_vars, NEW j \in Jobs
              PROVE  /\ execs'[j] <= 1 + retry'[j] + dbErrors'
                     /\ MayRun(j)' => execs'[j] <= retry'[j] + dbErrors'
  BY DEF Budget
<1>1. /\ retry[j] \in Nat /\ retry'[j] \in Nat /\ dbErrors \in Nat /\ dbErrors' \in Nat
      /\ retry[j] <= retry'[j] /\ dbErrors <= dbErrors'
      /\ execs' = execs \/ \E w \in Workers : Enter(w)
  BY HistoryStep DEF Counted
<1>2. execs[j] \in Nat
  BY DEF IInv, TypeOK
<1>3. /\ execs[j] <= 1 + retry[j] + dbErrors
      /\ MayRun(j) => execs[j] <= retry[j] + dbErrors
  BY DEF Budget
<1>4. MayRun(j)' => MayRun(j) \/ retry'[j] + dbErrors' >= retry[j] + dbErrors + 1
  BY MayRunStep
<1>5. CASE execs' = execs
  BY <1>1, <1>2, <1>3, <1>4, <1>5
<1>6. ASSUME NEW w \in Workers, Enter(w)
      PROVE  /\ execs'[j] <= 1 + retry'[j] + dbErrors'
             /\ MayRun(j)' => execs'[j] <= retry'[j] + dbErrors'
  <2>1. CASE j # cur[w]
    <3>1. execs'[j] = execs[j]
      BY <1>6, <2>1, EnterSpends
    <3>. QED
      BY <1>1, <1>2, <1>3, <1>4, <3>1
  <2>2. CASE j = cur[w]
    <3>1. execs'[j] = execs[j] + 1 /\ MayRun(j)
      BY <1>6, <2>2, EnterSpends
    <3>2. cur'[w] = cur[w]
      BY <1>6 DEF Enter, Goto
    <3>3. ~MayRun(cur[w])'
      BY <1>6, EnterSpends
    <3>4. ~MayRun(j)'
      BY <2>2, <3>2, <3>3 DEF MayRun
    <3>. QED
      BY <1>1, <1>2, <1>3, <3>1, <3>4
  <2>. QED
    BY <2>1, <2>2
<1>. QED
  BY <1>1, <1>5, <1>6

\* Every step keeps Once: no step gives a workflow's job a second run or report.
LEMMA OnceStep == IInv /\ Progress /\ Once /\ [Next]_vars => Once'
<1>. SUFFICES ASSUME IInv, Progress, Once, [Next]_vars, NEW j \in WorkflowJobs
              PROVE  /\ execs'[j] <= 1 /\ told'[j] <= 1
                     /\ MayRun(j)' => execs'[j] = 0
                     /\ Held(j)' \/ status'[j] \in {"queued", "unborn"} => told'[j] = 0
  BY DEF Once
<1>. TypeOK /\ SingleCopy /\ AtWork /\ j \in Jobs
  BY SubsetAssumption DEF IInv, Progress
<1>1. /\ execs' = execs \/ \E w \in Workers : Enter(w)
      /\ told' = told \/ \E w \in Workers : Tell(w)
  BY HistoryStep DEF Counted
<1>2. /\ execs[j] \in Nat /\ told[j] \in Nat
      /\ execs[j] <= 1 /\ told[j] <= 1
      /\ MayRun(j) => execs[j] = 0
      /\ Held(j) \/ status[j] \in {"queued", "unborn"} => told[j] = 0
  BY DEF Once, TypeOK
<1>3. MayRun(j)' => MayRun(j)
  BY MayRunStep
<1>4. Held(j)' \/ status'[j] \in {"queued", "unborn"} =>
        Held(j) \/ status[j] \in {"queued", "unborn"}
  <2>1. Held(j)' => Held(j) \/ status[j] \in {"queued", "unborn"}
    BY CopyStep DEF HeldOrNew
  <2>2. status'[j] = "queued" =>
            Held(j) \/ status[j] \in {"queued", "unborn"}
    BY RowMovesStep DEF RowMoves, Held, AtWorker
  <2>. QED
    BY <2>1, <2>2, UnbornStep
<1>5. execs'[j] <= 1 /\ (MayRun(j)' => execs'[j] = 0)
  <2>1. CASE execs' = execs
    BY <1>2, <1>3, <2>1
  <2>2. ASSUME NEW w \in Workers, Enter(w)
        PROVE  execs'[j] <= 1 /\ (MayRun(j)' => execs'[j] = 0)
    <3>1. CASE j # cur[w]
      <4>1. execs'[j] = execs[j]
        BY <2>2, <3>1, EnterSpends
      <4>. QED
        BY <1>2, <1>3, <4>1
    <3>2. CASE j = cur[w]
      <4>1. execs'[j] = execs[j] + 1 /\ MayRun(j)
        BY <2>2, <3>2, EnterSpends
      <4>2. cur'[w] = cur[w]
        BY <2>2 DEF Enter, Goto
      <4>3. ~MayRun(cur[w])'
        BY <2>2, EnterSpends
      <4>4. ~MayRun(j)'
        BY <3>2, <4>2, <4>3 DEF MayRun
      <4>. QED
        BY <1>2, <4>1, <4>4
    <3>. QED
      BY <3>1, <3>2
  <2>. QED
    BY <1>1, <2>1, <2>2
<1>6. told'[j] <= 1 /\ (Held(j)' \/ status'[j] \in {"queued", "unborn"} => told'[j] = 0)
  <2>1. CASE told' = told
    BY <1>2, <1>4, <2>1
  <2>2. ASSUME NEW w \in Workers, Tell(w)
        PROVE  /\ told'[j] <= 1
               /\ Held(j)' \/ status'[j] \in {"queued", "unborn"} => told'[j] = 0
    <3>1. /\ pc[w] = "telling" /\ cur[w] \in Jobs
          /\ status' = status /\ queue' = queue /\ cmd' = cmd /\ target' = target
          /\ cur' = [cur EXCEPT ![w] = NoJob]
      BY <2>2, Holders DEF Tell, Release, rowVars, clientVars
    <3>2. CASE j # cur[w]
      <4>1. told'[j] = told[j]
        BY <2>2, <3>1, <3>2 DEF Tell, TypeOK
      <4>. QED
        BY <1>2, <1>4, <4>1
    <3>3. CASE j = cur[w]
      <4>1. told[j] = 0 /\ told'[j] \in {told[j], told[j] + 1}
        BY <1>2, <2>2, <3>1, <3>3 DEF Tell, TypeOK, Held, AtWorker
      <4>2. /\ ~InQueue(j) /\ ~InDispatch(j)
            /\ \A v \in Workers : cur[v] = j => v = w
        BY <3>1, <3>3, JobsAssumption DEF SingleCopy, AtWorker, NoJob
      <4>3. ~Held(j)'
        BY <3>1, <3>3, <4>2, JobsAssumption
        DEF Held, InQueue, PositionsOf, InDispatch, AtWorker, NoJob, TypeOK
      <4>4. status'[j] \notin {"queued", "unborn"}
        BY <3>1, <3>3 DEF AtWork
      <4>. QED
        BY <4>1, <4>3, <4>4
    <3>. QED
      BY <3>2, <3>3
  <2>. QED
    BY <1>1, <2>1, <2>2
<1>. QED
  BY <1>5, <1>6

\* Nothing has run at the start.
LEMMA RInvInit == Init => RInv
<1>. SUFFICES ASSUME Init PROVE RInv
  OBVIOUS
<1>1. IInv
  BY InvInit
<1>2. /\ \A w \in Workers : pc[w] = "idle"
      /\ \A j \in Jobs : /\ status[j] = "unborn" /\ retry[j] = 0
                         /\ execs[j] = 0 /\ told[j] = 0
      /\ dbErrors = 0
  BY DEF Init
<1>3. Progress
  BY <1>2 DEF Progress, AtWork, RetryKind, DonePast
<1>4. Budget /\ Once
  BY <1>2, SubsetAssumption DEF Budget, Once
<1>. QED
  BY <1>1, <1>3, <1>4 DEF RInv

\* RInv holds in every reachable state.
LEMMA RInvariance == Spec => []RInv
<1>1. RInv /\ [Next]_vars => RInv'
  BY InvStep, ProgressStep, BudgetStep, OnceStep DEF RInv
<1>. QED
  BY <1>1, RInvInit, PTL DEF Spec

\* However crashes, recoveries, cancellations and retries interleave, a job
\* enters its processor at most once more than its row counts retries, plus one
\* for each failed statement (dispatcher.rs, retry_utils.rs).
THEOREM BoundedRuns == Spec => []RetryBudget
<1>1. RInv => RetryBudget
  BY DEF RInv, Budget, RetryBudget
<1>. QED
  BY <1>1, RInvariance, PTL

\* A workflow's job enters its processor once in its life and its end is
\* reported at most once: its retries are the orchestrator's (dispatcher.rs).
THEOREM WorkflowJobOnce == Spec => []WorkflowJobRunsOnce
<1>1. RInv => WorkflowJobRunsOnce
  BY DEF RInv, Once, WorkflowJobRunsOnce
<1>. QED
  BY <1>1, RInvariance, PTL

\* What has ended and left every hand stays so: nothing takes it up again.
THEOREM SettledForGood == Spec => SettledStaysSettled
<1>1. IInv /\ [Next]_vars => \A j \in Jobs : Settled(j) => Settled(j)'
  <2>. SUFFICES ASSUME IInv, [Next]_vars, NEW j \in Jobs, Settled(j)
                PROVE  Settled(j)'
    OBVIOUS
  <2>1. status[j] \in TerminalStatuses \cup {"deleted"} /\ ~Held(j)
    BY DEF Settled
  <2>2. status[j] \notin {"unborn", "queued", "running"}
    BY <2>1 DEF TerminalStatuses
  <2>3. ~Held(j)'
    BY <2>1, <2>2, CopyStep DEF HeldOrNew
  <2>4. \A w \in Workers : cur[w] # j
    BY <2>1 DEF Held, AtWorker
  <2>5. status'[j] \in {status[j], "canceled", "deleted"}
    BY <2>2, <2>4, RowWritersStep DEF RowWriters
  <2>6. status'[j] \in TerminalStatuses \cup {"deleted"}
    BY <2>1, <2>5 DEF TerminalStatuses
  <2>. QED
    BY <2>3, <2>6 DEF Settled
<1>2. IInv /\ [Next]_vars => [\A j \in Jobs : Settled(j) => Settled(j)']_vars
  BY <1>1
<1>. QED
  BY <1>2, Invariance, PTL DEF Spec, SettledStaysSettled

\* A recorded success is never run again nor turned into a failure.
THEOREM CompletedForGood == Spec => CompletedIsNeverRerun
<1>1. RInv /\ [Next]_vars =>
        \A j \in Jobs : status[j] = "completed" =>
            status'[j] \in {"completed", "canceled", "deleted"}
  <2>. SUFFICES ASSUME RInv, [Next]_vars, NEW j \in Jobs, status[j] = "completed"
                PROVE  status'[j] \in {"completed", "canceled", "deleted"}
    OBVIOUS
  <2>1. \A w \in Workers : cur[w] = j => pc[w] = "telling"
    BY DEF RInv, Progress, DonePast
  <2>. QED
    BY <2>1, RowWritersStep DEF RInv, RowWriters
<1>2. RInv /\ [Next]_vars =>
        [\A j \in Jobs : status[j] = "completed" =>
            status'[j] \in {"completed", "canceled", "deleted"}]_vars
  BY <1>1
<1>. QED
  BY <1>2, RInvariance, PTL DEF Spec, CompletedIsNeverRerun
--------------------------------------------------------------------------------
(* Queued rows that nobody has.                                            *)

\* Who leaves a queued row to nobody: a failed statement, and it leaves one.
Leaves(j) ==
    /\ j \in Jobs \ MasterJobs /\ status'[j] = "queued" /\ ~Held(j)' /\ ~CancelPending(j)'
    /\ ~(status[j] = "queued" /\ ~Held(j) /\ ~CancelPending(j))

StrandedMoves ==
    up' => \/ \A j : ~Leaves(j)
           \/ dbErrors' = dbErrors + 1 /\ \A j, k : Leaves(j) /\ Leaves(k) => j = k

\* A job's copy and its pending cancellation depend on queue, workers and commands.
LEMMA SameHands ==
    ASSUME UNCHANGED <<queue, cur, cmd, target>>
    PROVE  \A j : (Held(j)' <=> Held(j)) /\ (CancelPending(j)' <=> CancelPending(j))
<1>1. \A j : InQueue(j)' <=> InQueue(j)
  BY DEF InQueue, PositionsOf
<1>. QED
  BY <1>1 DEF Held, AtWorker, InDispatch, CancelPending

\* A worker that only walks on leaves nobody alone.
LEMMA WalksOn ==
    ASSUME UNCHANGED <<queue, cur, cmd, target>>,
           \A j \in Jobs : status'[j] = "queued" => status[j] = "queued" \/ AtWorker(j)
    PROVE  StrandedMoves
<1>1. \A j : AtWorker(j) => Held(j)
  BY DEF Held
<1>. QED
  BY <1>1, SameHands DEF StrandedMoves, Leaves

\* A worker that lets go of a job whose row is not queued leaves nobody alone.
LEMMA LetsGo ==
    ASSUME TypeOK, NEW w \in Workers, UNCHANGED <<queue, cmd, target>>, Release(w), cur[w] \in Jobs,
           \A j \in Jobs \ MasterJobs : status'[j] = "queued" => status[j] = "queued" /\ j # cur[w]
    PROVE  StrandedMoves
<1>1. \A j : InQueue(j)' <=> InQueue(j)
  BY DEF InQueue, PositionsOf
<1>2. \A j : AtWorker(j) /\ j # cur[w] => AtWorker(j)'
  BY DEF AtWorker, Release, TypeOK
<1>3. \A j : j # cur[w] => (Held(j) => Held(j)')
  BY <1>1, <1>2 DEF Held, InDispatch
<1>. QED
  BY <1>3 DEF StrandedMoves, Leaves, CancelPending

\* A failed statement leaves the job it was about.
LEMMA ErrorLeaves ==
    ASSUME TypeOK, dbErrors' = dbErrors + 1, NEW w \in Workers, UNCHANGED <<status, queue, cmd, target>>,
           \A v \in Workers \ {w} : cur'[v] = cur[v]
    PROVE  StrandedMoves
<1>1. \A j : InQueue(j)' <=> InQueue(j)
  BY DEF InQueue, PositionsOf
<1>2. \A j : AtWorker(j) /\ j # cur[w] => AtWorker(j)'
  BY DEF AtWorker
<1>3. \A j : j # cur[w] => (Held(j) => Held(j)')
  BY <1>1, <1>2 DEF Held, InDispatch
<1>4. \A j : Leaves(j) => j = cur[w]
  BY <1>3 DEF Leaves, CancelPending
<1>. QED
  BY <1>4 DEF StrandedMoves

\* Taking out an entry keeps the jobs of the others.
LEMMA QueueKeeps ==
    ASSUME TypeOK, NEW i \in 1..Len(queue), queue' = RemoveAt(queue, i)
    PROVE  \A j : InQueue(j) /\ j # queue[i].job => InQueue(j)'
<1>1. queue \in Seq(Entry) /\ Len(queue) \in Nat
  BY DEF TypeOK
<1>2. /\ Len(queue') = Len(queue) - 1
      /\ \A k \in 1..(Len(queue) - 1) : queue'[k] = IF k < i THEN queue[k] ELSE queue[k + 1]
  BY <1>1, RemoveAtProperties
<1>3. ASSUME NEW j, NEW b \in 1..Len(queue), queue[b].job = j, j # queue[i].job
      PROVE  \E a \in 1..Len(queue') : queue'[a].job = j
  <2>1. CASE b < i
    <3>1. b \in 1..(Len(queue) - 1) /\ queue'[b] = queue[b]
      BY <1>1, <1>2, <2>1
    <3>. QED
      BY <1>2, <1>3, <3>1
  <2>2. CASE b > i
    <3>1. b - 1 \in 1..(Len(queue) - 1) /\ ~(b - 1 < i) /\ (b - 1) + 1 = b
      BY <1>1, <2>2
    <3>2. queue'[b - 1] = queue[b]
      BY <1>2, <3>1
    <3>. QED
      BY <1>2, <1>3, <3>1, <3>2
  <2>. QED
    BY <1>1, <1>3, <2>1, <2>2
<1>. QED
  BY <1>3 DEF InQueue, PositionsOf

\* Every row that recover_queued_jobs reads gets its entry.
LEMMA RecoveredInQueue ==
    ASSUME NEW zombies, NEW unreadable, StartJobSystem(zombies, unreadable)
    PROVE  \A j \in Recoverable \ unreadable : InQueue(j)'
<1>1. PICK order \in SetToSeqs(Recoverable \ unreadable) :
        queue' = [i \in 1..Len(order) |-> [job |-> order[i], ready |-> TRUE]]
  BY DEF StartJobSystem
<1>2. IsFiniteSet(Recoverable \ unreadable)
  BY JobsAssumption, FS_Subset DEF Recoverable
<1>. DEFINE S == Recoverable \ unreadable
            n == Cardinality(S)
<1>3. order \in [1..n -> S] /\ \A i, k \in 1..n : order[i] = order[k] => i = k
  BY <1>1 DEF SetToSeqs
<1>4. n \in Nat /\ IsFiniteSet(1..n) /\ Cardinality(1..n) = n
  <2>1. n \in Nat
    BY <1>2, FS_CardinalityType
  <2>2. \A m \in Nat : IsFiniteSet(1..m) /\ Cardinality(1..m) = IF 1 > m THEN 0 ELSE m - 1 + 1
    BY FS_Interval
  <2>. QED
    BY <2>1, <2>2
<1>. HIDE DEF S, n
<1>5. order \in Surjection(1..n, S)
  <2>1. order \in Injection(1..n, S)
    BY <1>3 DEF Injection, IsInjective
  <2>. QED
    BY <1>2, <1>4, <2>1, FS_Injection DEF S, n
<1>6. Len(order) = n /\ Len(queue') = n
  BY <1>1, <1>3, <1>4
<1>. QED
  BY <1>1, <1>5, <1>6 DEF S, Surjection, InQueue, PositionsOf

\* After start_job_system no queued row is left over.
LEMMA StartLeavesNone == ASSUME IInv, [Next]_vars, ~up, up' PROVE Stranded' = {}
<1>1. PICK zombies, unreadable : StartJobSystem(zombies, unreadable)
  BY DEF Next, WorkerStep, CommandStep, Dispatch, CancelUnqueue, CancelMark, CancelError, Create, CancelRead,
         CancelSession, Delete, ClearHistory, Dequeue, Claim, Acknowledge, MatchProcessor, NoProcessor, MarkRunning,
         Enter, EnterWithoutRow, Finish, Fail, Record, Tell, ReadFailure, WriteRetry, Requeue, GiveUp, DbError,
         DelayElapses, Crash, vars
<1>2. \A j \in Jobs : status'[j] = "queued" => j \in Recoverable \ unreadable
  BY <1>1 DEF StartJobSystem, Recoverable
<1>. QED
  BY <1>1, <1>2, RecoveredInQueue DEF Stranded, Held

\* Only a failed statement strands a queued row, and one at a time.
LEMMA StrandedStep == IInv /\ AtWork /\ [Next]_vars => StrandedMoves
<1>. SUFFICES ASSUME IInv, AtWork, [Next]_vars PROVE StrandedMoves
  OBVIOUS
<1>. USE Holders, JobsAssumption
     DEF IInv, TypeOK, HasRow, SetStatus, Release, Goto, NoJob, rowVars,
         workerVars, clientVars, historyVars, boundVars
<1>. SingleCopy /\ Custody
  OBVIOUS
<1>1. ASSUME NEW c \in Clients, NEW k \in Jobs, Create(c, k)
      PROVE  StrandedMoves
  <2>1. queue' = queue /\ cur' = cur /\ \A j : InQueue(j)' <=> InQueue(j)
    BY <1>1 DEF Create, InQueue, PositionsOf
  <2>2. \A d \in Clients : cmd[d] = "dispatch" \/ cmd[d] = "mark" => cmd'[d] = cmd[d] /\ target'[d] = target[d]
    BY <1>1 DEF Create
  <2>3. \A j : Held(j) => Held(j)'
    BY <2>1, <2>2 DEF Held, AtWorker, InDispatch
  <2>4. k \notin MasterJobs => Held(k)'
    BY <1>1 DEF Create, Held, InDispatch
  <2>5. \A j \in Jobs : status'[j] = "queued" => status[j] = "queued" \/ j = k
    BY <1>1 DEF Create
  <2>6. \A j : CancelPending(j) => CancelPending(j)'
    BY <2>2 DEF CancelPending
  <2>. QED
    BY <2>3, <2>4, <2>5, <2>6 DEF StrandedMoves, Leaves
<1>2. ASSUME NEW c \in Clients, Dispatch(c)
      PROVE  StrandedMoves
  <2>1. PICK k \in Jobs : k = target[c] /\ queue' = Append(queue, [job |-> k, ready |-> TRUE])
    BY <1>2 DEF Dispatch
  <2>2. Len(queue') = Len(queue) + 1 /\ Len(queue) \in Nat /\ queue'[Len(queue) + 1].job = k
        /\ \A i \in 1..Len(queue) : queue'[i] = queue[i]
    BY <2>1
  <2>3. \A j : InQueue(j) \/ j = k => InQueue(j)'
    <3>1. \A i \in 1..Len(queue) : i \in 1..Len(queue')
      BY <2>2
    <3>2. Len(queue) + 1 \in 1..Len(queue')
      BY <2>2
    <3>. QED
      BY <2>2, <3>1, <3>2 DEF InQueue, PositionsOf
  <2>4. \A j : InDispatch(j) /\ j # k => InDispatch(j)'
    BY <1>2, <2>1 DEF Dispatch, InDispatch
  <2>5. \A j : CancelPending(j) => CancelPending(j)'
    BY <1>2 DEF Dispatch, CancelPending
  <2>. QED
    BY <1>2, <2>3, <2>4, <2>5 DEF Dispatch, StrandedMoves, Leaves, Held, AtWorker
<1>3. ASSUME NEW c \in Clients, NEW k \in Jobs, CancelRead(c, k)
      PROVE  StrandedMoves
  <2>1. UNCHANGED <<queue, cur, status>> /\ \A j : InQueue(j)' <=> InQueue(j)
    BY <1>3 DEF CancelRead, InQueue, PositionsOf
  <2>2. \A d \in Clients : cmd[d] = "dispatch" \/ cmd[d] = "mark" => cmd'[d] = cmd[d] /\ target'[d] = target[d]
    BY <1>3 DEF CancelRead
  <2>3. \A j : (InDispatch(j) => InDispatch(j)') /\ (CancelPending(j) => CancelPending(j)')
    BY <2>2 DEF InDispatch, CancelPending
  <2>. QED
    BY <2>1, <2>3 DEF StrandedMoves, Leaves, Held, AtWorker
<1>4. ASSUME NEW c \in Clients, CancelUnqueue(c)
      PROVE  StrandedMoves
  <2>1. \A j : InQueue(j) /\ j # target[c] => InQueue(j)'
    <3>1. CASE queue' = queue
      BY <3>1 DEF InQueue, PositionsOf
    <3>2. ASSUME NEW i \in PositionsOf(target[c]), queue' = RemoveAt(queue, i)
          PROVE  \A j : InQueue(j) /\ j # target[c] => InQueue(j)'
      BY <3>2, QueueKeeps DEF PositionsOf
    <3>. QED
      BY <1>4, <3>1, <3>2 DEF CancelUnqueue
  <2>2. CancelPending(target[c])'
    BY <1>4 DEF CancelUnqueue, CancelPending
  <2>3. \A d \in Clients : cmd[d] = "dispatch" \/ cmd[d] = "mark" => cmd'[d] = cmd[d] /\ target'[d] = target[d]
    BY <1>4 DEF CancelUnqueue
  <2>. QED
    BY <1>4, <2>1, <2>2, <2>3 DEF CancelUnqueue, StrandedMoves, Leaves, Held, AtWorker, InDispatch, CancelPending
<1>5. ASSUME NEW c \in Clients, CancelMark(c)
      PROVE  StrandedMoves
  <2>1. UNCHANGED <<queue, cur>> /\ \A j : InQueue(j)' <=> InQueue(j)
    BY <1>5 DEF CancelMark, InQueue, PositionsOf
  <2>2. \A d \in Clients \ {c} : cmd'[d] = cmd[d] /\ target'[d] = target[d]
    BY <1>5 DEF CancelMark
  <2>3. \A j \in Jobs : status'[j] = "queued" => status[j] = "queued" /\ j # target[c]
    BY <1>5 DEF CancelMark, JobStatuses, TerminalStatuses, ActiveStatuses
  <2>4. cmd[c] = "mark"
    BY <1>5 DEF CancelMark
  <2>5. \A j : InDispatch(j) => InDispatch(j)'
    BY <2>2, <2>4 DEF InDispatch
  <2>6. \A j : CancelPending(j) /\ j # target[c] => CancelPending(j)'
    BY <2>2 DEF CancelPending
  <2>. QED
    BY <2>1, <2>3, <2>5, <2>6 DEF StrandedMoves, Leaves, Held, AtWorker
<1>6. ASSUME NEW c \in Clients, CancelError(c)
      PROVE  StrandedMoves
  <2>1. UNCHANGED <<queue, cur, status>> /\ \A j : InQueue(j)' <=> InQueue(j)
    BY <1>6 DEF CancelError, InQueue, PositionsOf
  <2>2. \A d \in Clients \ {c} : cmd'[d] = cmd[d] /\ target'[d] = target[d]
    BY <1>6 DEF CancelError
  <2>3. cmd[c] = "mark" /\ dbErrors' = dbErrors + 1
    BY <1>6 DEF CancelError
  <2>4. \A j : Leaves(j) => j = target[c]
    BY <2>1, <2>2, <2>3 DEF Leaves, Held, AtWorker, InDispatch, CancelPending
  <2>. QED
    BY <2>3, <2>4 DEF StrandedMoves
<1>7. ASSUME NEW S \in Sessions, CancelSession(S)
      PROVE  StrandedMoves
  <2>1. UNCHANGED <<queue, cur, cmd, target>> /\ \A j \in Jobs : status'[j] = "queued" => status[j] = "queued"
    BY <1>7 DEF CancelSession
  <2>. QED
    BY <2>1, WalksOn
<1>8. ASSUME NEW k \in Jobs, Delete(k)
      PROVE  StrandedMoves
  <2>1. UNCHANGED <<queue, cur, cmd, target>> /\ \A j \in Jobs : status'[j] = "queued" => status[j] = "queued"
    BY <1>8 DEF Delete
  <2>. QED
    BY <2>1, WalksOn
<1>9. ASSUME NEW old \in SUBSET Jobs, ClearHistory(old)
      PROVE  StrandedMoves
  <2>1. UNCHANGED <<queue, cur, cmd, target>> /\ \A j \in Jobs : status'[j] = "queued" => status[j] = "queued"
    BY <1>9 DEF ClearHistory
  <2>. QED
    BY <2>1, WalksOn
<1>10. ASSUME NEW w \in Workers, Dequeue(w)
      PROVE  StrandedMoves
  <2>1. PICK i \in 1..Len(queue) : cur' = [cur EXCEPT ![w] = queue[i].job] /\ queue' = RemoveAt(queue, i)
    BY <1>10 DEF Dequeue, FirstReady
  <2>2. \A j : InQueue(j) /\ j # queue[i].job => InQueue(j)'
    BY <2>1, QueueKeeps
  <2>3. cur[w] = NoJob /\ cur'[w] = queue[i].job /\ \A v \in Workers \ {w} : cur'[v] = cur[v]
    BY <1>10, <2>1 DEF Dequeue, Custody
  <2>4. \A j \in Jobs : Held(j) => Held(j)'
    <3>1. UNCHANGED <<cmd, target>>
      BY <1>10 DEF Dequeue
    <3>. QED
      BY <2>2, <2>3, <3>1 DEF Held, AtWorker, InDispatch
  <2>. QED
    BY <1>10, <2>4 DEF Dequeue, StrandedMoves, Leaves, CancelPending
<1>11. ASSUME NEW w \in Workers, Claim(w)
      PROVE  StrandedMoves
  <2>1. UNCHANGED <<queue, cur, cmd, target>>
        /\ \A j \in Jobs : status'[j] = "queued" => status[j] = "queued"
    BY <1>11 DEF Claim
  <2>. QED
    BY <2>1, WalksOn
<1>12. ASSUME NEW w \in Workers, Acknowledge(w)
      PROVE  StrandedMoves
  <2>1. UNCHANGED <<queue, cmd, target>> /\ cur[w] \in Jobs
        /\ \A j \in Jobs \ MasterJobs : status'[j] = "queued" => status[j] = "queued" /\ j # cur[w]
    BY <1>12 DEF Acknowledge, JobStatuses, TerminalStatuses, ActiveStatuses
  <2>2. Release(w)
    BY <1>12 DEF Acknowledge
  <2>. QED
    BY <2>1, <2>2, LetsGo
<1>13. ASSUME NEW w \in Workers, MatchProcessor(w)
      PROVE  StrandedMoves
  <2>1. UNCHANGED <<queue, cur, cmd, target>>
        /\ \A j \in Jobs : status'[j] = "queued" => status[j] = "queued"
    BY <1>13 DEF MatchProcessor
  <2>. QED
    BY <2>1, WalksOn
<1>14. ASSUME NEW w \in Workers, NoProcessor(w)
      PROVE  StrandedMoves
  <2>1. UNCHANGED <<queue, cur, cmd, target>>
        /\ \A j \in Jobs : status'[j] = "queued" => status[j] = "queued"
    BY <1>14 DEF NoProcessor
  <2>. QED
    BY <2>1, WalksOn
<1>15. ASSUME NEW w \in Workers, MarkRunning(w)
      PROVE  StrandedMoves
  <2>1. UNCHANGED <<queue, cur, cmd, target>>
        /\ \A j \in Jobs : status'[j] = "queued" => status[j] = "queued"
    BY <1>15 DEF MarkRunning
  <2>. QED
    BY <2>1, WalksOn
<1>16. ASSUME NEW w \in Workers, Enter(w)
      PROVE  StrandedMoves
  <2>1. UNCHANGED <<queue, cur, cmd, target>>
        /\ \A j \in Jobs : status'[j] = "queued" => status[j] = "queued"
    BY <1>16 DEF Enter
  <2>. QED
    BY <2>1, WalksOn
<1>17. ASSUME NEW w \in Workers, EnterWithoutRow(w)
      PROVE  StrandedMoves
  <2>1. UNCHANGED <<queue, cur, cmd, target>>
        /\ \A j \in Jobs : status'[j] = "queued" => status[j] = "queued"
    BY <1>17 DEF EnterWithoutRow
  <2>. QED
    BY <2>1, WalksOn
<1>18. ASSUME NEW w \in Workers, NEW r \in {"completed", "failed", "canceled"}, Finish(w, r)
      PROVE  StrandedMoves
  <2>1. UNCHANGED <<queue, cur, cmd, target, status>>
    BY <1>18 DEF Finish
  <2>. QED
    BY <2>1, WalksOn
<1>19. ASSUME NEW w \in Workers, NEW r \in {"error", "fatal"}, Fail(w, r)
      PROVE  StrandedMoves
  <2>1. UNCHANGED <<queue, cur, cmd, target, status>>
    BY <1>19 DEF Fail
  <2>. QED
    BY <2>1, WalksOn
<1>20. ASSUME NEW w \in Workers, Record(w)
      PROVE  StrandedMoves
  <2>1. UNCHANGED <<queue, cmd, target>> /\ cur[w] \in Jobs
        /\ \A j \in Jobs : status'[j] = "queued" => status[j] = "queued" /\ j # cur[w]
    BY <1>20 DEF Record, Custody, JobStatuses, TerminalStatuses, ActiveStatuses
  <2>2. cur' = cur \/ Release(w)
    BY <1>20 DEF Record
  <2>. QED
    BY <2>1, <2>2, LetsGo, WalksOn
<1>21. ASSUME NEW w \in Workers, Tell(w)
      PROVE  StrandedMoves
  <2>1. UNCHANGED <<queue, cmd, target>> /\ cur[w] \in Jobs
        /\ \A j \in Jobs \ MasterJobs : status'[j] = "queued" => status[j] = "queued" /\ j # cur[w]
    BY <1>21 DEF Tell, AtWork
  <2>2. Release(w)
    BY <1>21 DEF Tell
  <2>. QED
    BY <2>1, <2>2, LetsGo
<1>22. ASSUME NEW w \in Workers, ReadFailure(w)
      PROVE  StrandedMoves
  <2>1. UNCHANGED <<queue, cmd, target>> /\ cur[w] \in Jobs
        /\ \A j \in Jobs : status'[j] = "queued" => status[j] = "queued" /\ j # cur[w]
    BY <1>22 DEF ReadFailure, AtWork
  <2>2. cur' = cur \/ Release(w)
    BY <1>22 DEF ReadFailure
  <2>. QED
    BY <2>1, <2>2, LetsGo, WalksOn
<1>23. ASSUME NEW w \in Workers, WriteRetry(w)
      PROVE  StrandedMoves
  <2>1. UNCHANGED <<queue, cur, cmd, target>>
        /\ \A j \in Jobs : status'[j] = "queued" => status[j] = "queued" \/ AtWorker(j)
    BY <1>23 DEF WriteRetry, AtWorker
  <2>. QED
    BY <2>1, WalksOn
<1>24. ASSUME NEW w \in Workers, Requeue(w)
      PROVE  StrandedMoves
  <2>1. PICK k \in Jobs : k = cur[w] /\ queue' = Append(queue, [job |-> k, ready |-> FALSE])
    BY <1>24 DEF Requeue
  <2>2. Len(queue') = Len(queue) + 1 /\ Len(queue) \in Nat /\ queue'[Len(queue) + 1].job = k
        /\ \A i \in 1..Len(queue) : queue'[i] = queue[i]
    BY <2>1
  <2>3. \A j : InQueue(j) \/ j = k => InQueue(j)'
    <3>1. \A i \in 1..Len(queue) : i \in 1..Len(queue')
      BY <2>2
    <3>2. Len(queue) + 1 \in 1..Len(queue')
      BY <2>2
    <3>. QED
      BY <2>2, <3>1, <3>2 DEF InQueue, PositionsOf
  <2>4. \A j : AtWorker(j) /\ j # k => AtWorker(j)'
    BY <1>24, <2>1 DEF Requeue, AtWorker
  <2>. QED
    BY <1>24, <2>3, <2>4 DEF Requeue, StrandedMoves, Leaves, Held, InDispatch, CancelPending
<1>25. ASSUME NEW w \in Workers, GiveUp(w)
      PROVE  StrandedMoves
  <2>1. UNCHANGED <<queue, cmd, target>> /\ cur[w] \in Jobs
        /\ \A j \in Jobs : status'[j] = "queued" => status[j] = "queued" /\ j # cur[w]
    BY <1>25 DEF GiveUp, JobStatuses, TerminalStatuses, ActiveStatuses
  <2>2. cur' = cur \/ Release(w)
    BY <1>25 DEF GiveUp
  <2>. QED
    BY <2>1, <2>2, LetsGo, WalksOn
<1>26. ASSUME NEW w \in Workers, DbError(w)
      PROVE  StrandedMoves
  <2>1. UNCHANGED <<status, queue, cmd, target>> /\ dbErrors' = dbErrors + 1
    BY <1>26 DEF DbError
  <2>2. \A v \in Workers \ {w} : cur'[v] = cur[v]
    BY <1>26 DEF DbError
  <2>. QED
    BY <2>1, <2>2, ErrorLeaves
<1>27. ASSUME NEW i \in 1..Len(queue), DelayElapses(i)
      PROVE  StrandedMoves
  <2>1. Len(queue') = Len(queue) /\ \A k \in 1..Len(queue) : queue'[k].job = queue[k].job
    BY <1>27 DEF DelayElapses, Entry
  <2>2. \A j : InQueue(j) => InQueue(j)'
    BY <2>1 DEF InQueue, PositionsOf
  <2>. QED
    BY <1>27, <2>2 DEF DelayElapses, StrandedMoves, Leaves, Held, AtWorker, InDispatch, CancelPending
<1>28. CASE Crash
  BY <1>28 DEF Crash, StrandedMoves
<1>29. ASSUME NEW zombies \in SUBSET {x \in Jobs : status[x] = "running"}, NEW unreadable \in SUBSET Recoverable,
             StartJobSystem(zombies, unreadable)
      PROVE  StrandedMoves
  <2>1. \A j \in Jobs : status'[j] = "queued" => j \in Recoverable \ unreadable
    BY <1>29 DEF StartJobSystem, Recoverable
  <2>2. \A j \in Recoverable \ unreadable : InQueue(j)'
    BY <1>29, RecoveredInQueue
  <2>. QED
    BY <2>1, <2>2 DEF StrandedMoves, Leaves, Held
<1>30. CASE UNCHANGED vars
  <2>1. UNCHANGED <<queue, cur, cmd, target, status>>
    BY <1>30 DEF vars
  <2>. QED
    BY <2>1, WalksOn
<1>. QED
  BY <1>1, <1>2, <1>3, <1>4, <1>5, <1>6, <1>7, <1>8, <1>9, <1>10, <1>11,
     <1>12, <1>13, <1>14, <1>15, <1>16, <1>17, <1>18, <1>19, <1>20, <1>21,
     <1>22, <1>23, <1>24, <1>25, <1>26, <1>27, <1>28, <1>29, <1>30
  DEF Next, WorkerStep, CommandStep

\* The limit of QueuedIsHeld holds for the failed statements so far, while the application
\* runs; an end of the process leaves nothing to count until the next start.
LEMMA HeldStep == IInv /\ Progress /\ QueuedIsHeld /\ [Next]_vars => QueuedIsHeld'
<1>. SUFFICES ASSUME IInv, Progress, QueuedIsHeld, [Next]_vars, up'
              PROVE  Cardinality(Stranded') <= dbErrors'
  BY DEF QueuedIsHeld
<1>. dbErrors \in Nat /\ dbErrors' \in Nat /\ dbErrors <= dbErrors'
  BY HistoryStep DEF Counted
<1>1. IsFiniteSet(Stranded) /\ Stranded \subseteq Jobs /\ Stranded' \subseteq Jobs /\ IsFiniteSet(Stranded')
  BY JobsAssumption, FS_Subset DEF Stranded
<1>2. \A j \in Stranded' \ Stranded : Leaves(j)
  BY DEF Stranded, Leaves
<1>3. CASE ~up
  <2>1. Stranded' = {}
    BY <1>3, StartLeavesNone
  <2>. QED
    BY <2>1, FS_EmptySet
<1>4. CASE up /\ \A j : ~Leaves(j)
  <2>1. Stranded' \subseteq Stranded
    BY <1>2, <1>4
  <2>2. Cardinality(Stranded') <= Cardinality(Stranded) /\ Cardinality(Stranded) \in Nat /\ Cardinality(Stranded') \in Nat
    BY <1>1, <2>1, FS_Subset, FS_CardinalityType
  <2>. QED
    BY <1>4, <2>2 DEF QueuedIsHeld
<1>5. CASE up /\ dbErrors' = dbErrors + 1 /\ \A j, k : Leaves(j) /\ Leaves(k) => j = k
  <2>1. CASE Stranded' \subseteq Stranded
    <3>1. Cardinality(Stranded') <= Cardinality(Stranded) /\ Cardinality(Stranded) \in Nat /\ Cardinality(Stranded') \in Nat
      BY <1>1, <2>1, FS_Subset, FS_CardinalityType
    <3>. QED
      BY <1>5, <3>1 DEF QueuedIsHeld
  <2>2. ASSUME NEW k \in Stranded' \ Stranded PROVE Cardinality(Stranded') <= dbErrors'
    <3>1. Stranded' \subseteq Stranded \cup {k}
      BY <1>2, <1>5, <2>2
    <3>2. IsFiniteSet(Stranded \cup {k}) /\ Cardinality(Stranded \cup {k}) = Cardinality(Stranded) + 1
      BY <1>1, <2>2, FS_AddElement
    <3>3. Cardinality(Stranded') <= Cardinality(Stranded \cup {k}) /\ Cardinality(Stranded) \in Nat /\ Cardinality(Stranded') \in Nat
      BY <1>1, <3>1, <3>2, FS_Subset, FS_CardinalityType
    <3>. QED
      BY <1>5, <3>2, <3>3 DEF QueuedIsHeld
  <2>. QED
    BY <2>1, <2>2
<1>. QED
  BY <1>3, <1>4, <1>5, StrandedStep DEF StrandedMoves, Progress

\* While the application runs, a row that says queued has a task that will take it further; each
\* failed statement strands one at most (dispatcher.rs leaves its round by "?").
THEOREM QueuedHeld == Spec => []QueuedIsHeld
<1>1. Init => QueuedIsHeld
  BY DEF Init, QueuedIsHeld
<1>2. RInv => IInv /\ Progress
  BY DEF RInv
<1>. QED
  BY <1>1, <1>2, HeldStep, RInvariance, PTL DEF Spec
================================================================================
