---------------------------- MODULE WorkflowProofs ----------------------------
(***************************************************************************)
(* Proofs about WorkflowOrchestrator: type correctness, the order of the    *)
(* stages, that a workflow called completed is, the limit of attempts, and  *)
(* that a workflow's row says how it ended.                                 *)
(***************************************************************************)
EXTENDS WorkflowOrchestrator, SequenceTheorems, FiniteSetTheorems, WellFoundedInduction, TLAPS

(* The invariant. *)

Born(j) == row[j] # "none"
AllDone == \A s \in Stages : Done(s)

\* What a task's work list holds: jobs, stages, or what a query has found.
Finding == [id : Jobs, status : Active \cup Ended]
Items == Jobs \cup Stages \cup Finding

\* A stage job that the workflow lists has a row of that stage, and has only completed
\* if the row has.
Entry(e) ==
    /\ Born(e.id) /\ stageOf[e.id] = e.stage
    /\ e.status = "completed" => row[e.id] = "completed"

Listed == \A i \in 1..Len(stages) : Entry(stages[i])

\* A job's stage was due.
Due(j) == Born(j) /\ stageOf[j] > 1 => Done(stageOf[j] - 1)

Hands == \A j \in working : row[j] \notin {"none", "completed"}

\* Where a lazy recovery goes on with the jobs it repeats.
Repeating == {"rerun", "failing", "resetting", "queueing", "replacing", "abort", "abortRow", "verdict"}

\* What a task at place p knows of its job j, its work list q and h, where it goes on.
WorkOf(p, j, q, h) ==
    /\ p \in {"report", "completing", "failing", "resetting", "queueing", "replacing"} => Born(j)
    /\ p = "report" => h \in Ended /\ (h = "completed" => row[j] = "completed")
    /\ p = "creating" =>
          q # <<>> /\ \A i \in 1..Len(q) : q[i] \in Stages /\ (q[i] > 1 => Done(q[i] - 1))
    /\ p = "canceling" => \A i \in 1..Len(q) : q[i] \in Jobs
    /\ p = "recovering" => \A i \in 1..Len(q) : q[i] \in Finding /\ Born(q[i].id)
                                /\ (q[i].status = "completed" => row[q[i].id] = "completed")
    /\ p = "replacing" => q # <<>> /\ q[1] \in Jobs /\ Born(q[1]) /\ stageOf[q[1]] = stageOf[j]
    /\ p \in {"recovering", "rerun"} => h = "none"
    /\ p = "rerun" => q # <<>>
    /\ p \in Repeating /\ h = "none" => \A i \in 1..Len(q) : q[i] \in Jobs /\ Born(q[i])
    /\ p \in {"completing", "complete", "completeRow", "fail", "failRow"} => h # "none"
    /\ p \in {"complete", "completeRow"} => early \/ AllDone

Work == \A t \in Tasks : WorkOf(pc[t], job[t], pend[t], then[t])

Types == TypeOK /\ pend \in [Tasks -> Seq(Items)] /\ early \in BOOLEAN

\* The inductive invariant.
WInv ==
    /\ Types
    /\ Listed /\ Hands /\ Work
    /\ StagesInOrder /\ CompletedIsComplete

--------------------------------------------------------------------------------
(* Lemmas about numbers and lists. *)

\* The jobs and stages are finite sets of numbers.
LEMMA Finite ==
    /\ IsFiniteSet(Jobs) /\ IsFiniteSet(Stages)
    /\ Jobs \subseteq Nat /\ Stages \subseteq Nat /\ 1 \in Jobs /\ 1 \in Stages
<1>1. 1 \in Int /\ NumStages \in Int /\ MaxJobs \in Int
  BY WorkflowAssumption
<1>2. IsFiniteSet(Jobs) /\ IsFiniteSet(Stages)
  BY <1>1, FS_Interval DEF Jobs, Stages
<1>. QED  BY <1>2, WorkflowAssumption DEF Jobs, Stages

\* A set of numbers that is not empty has a least one.
LEMMA Least ==
    ASSUME NEW S, S \subseteq Nat, S # {}
    PROVE  \E x \in S : \A y \in S : x <= y
<1>1. PICK x \in S : \A y \in S : ~(<<y, x>> \in OpToRel(<, Nat))
  BY NatLessThanWellFounded, WFMin
<1>2. ASSUME NEW y \in S PROVE x <= y
  <2>1. x \in Nat /\ y \in Nat
    OBVIOUS
  <2>2. ~(y < x)
    BY <1>1, <2>1 DEF OpToRel
  <2>. QED  BY <2>1, <2>2
<1>. QED  BY <1>2

\* While a row can be created, FreeJob is one that has not been.
LEMMA Free ==
    ASSUME CanCreate
    PROVE  FreeJob \in Jobs /\ row[FreeJob] = "none"
<1> DEFINE S == {j \in Jobs : row[j] = "none"}
<1>1. S # {} /\ S \subseteq Nat
  BY Finite DEF CanCreate
<1>2. \E x \in S : \A y \in S : x <= y
  <2> HIDE DEF S
  <2>. QED  BY <1>1, Least
<1>3. \E j \in Jobs : row[j] = "none" /\ \A k \in Jobs : row[k] = "none" => j <= k
  BY <1>2
<1>. QED  BY <1>3 DEF FreeJob

\* The sequences of a finite set have its members, as many as there are.
LEMMA Ordered ==
    ASSUME NEW S, IsFiniteSet(S), NEW q \in Ascending(S)
    PROVE  /\ q \in Seq(S) /\ Len(q) = Cardinality(S)
           /\ \A i \in 1..Len(q) : q[i] \in S
           /\ DOMAIN q = 1..Len(q)
           /\ S # {} => q # <<>>
<1>1. Cardinality(S) \in Nat /\ (S # {} => Cardinality(S) # 0)
  BY FS_CardinalityType, FS_EmptySet
<1>2. q \in [1..Cardinality(S) -> S]
  BY DEF Ascending
<1>3. q \in Seq(S) /\ Len(q) = Cardinality(S)
  BY <1>1, <1>2
<1>4. \A i \in 1..Len(q) : q[i] \in S
  BY <1>2, <1>3
<1>5. S # {} => Len(q) # 0
  BY <1>1, <1>3
<1>6. Len(<<>>) = 0
  OBVIOUS
<1>. QED  BY <1>2, <1>3, <1>4, <1>5, <1>6

\* What may be started is a set of stages, empty only if nothing is due or no slot is
\* free; and each has its dependency.
LEMMA ToStart ==
    ASSUME stages \in Seq(StageJob)
    PROVE  /\ StagesToStart \subseteq NextStages /\ NextStages \subseteq Stages
           /\ IsFiniteSet(StagesToStart)
           /\ NextStages # {} /\ Slots # 0 => StagesToStart # {}
           /\ \A s \in NextStages : DependenciesMet(s)
<1>1. StagesToStart \subseteq NextStages
  BY DEF StagesToStart
<1>2. NextStages \subseteq Stages /\ \A s \in NextStages : DependenciesMet(s)
  BY DEF NextStages
<1>3. IsFiniteSet(StagesToStart)
  BY <1>1, <1>2, Finite, FS_Subset
<1>4. ASSUME NextStages # {}, Slots # 0
      PROVE  StagesToStart # {}
  <2>1. PICK s \in NextStages : \A x \in NextStages : s <= x
    BY <1>4, <1>2, Finite, Least
  <2>2. {x \in NextStages : x < s} = {}
    <3>1. ASSUME NEW x \in NextStages PROVE ~(x < s)
      <4>1. x \in Nat /\ s \in Nat /\ s <= x
        BY <2>1, <1>2, Finite
      <4>. QED  BY <4>1
    <3>. QED  BY <3>1
  <2>3. Cardinality({x \in NextStages : x < s}) = 0
    BY <2>2, FS_EmptySet
  <2>4. Slots \in Nat
    <3>1. Len(stages) \in Nat /\ DOMAIN stages = 1..Len(stages)
      BY LenProperties
    <3>2. 1 \in Int /\ Len(stages) \in Int
      BY <3>1
    <3>3. IsFiniteSet(DOMAIN stages)
      BY <3>1, <3>2, FS_Interval
    <3>4. IsFiniteSet({i \in DOMAIN stages : stages[i].status = "running"})
      BY <3>3, FS_Subset
    <3>5. Cardinality({i \in DOMAIN stages : stages[i].status = "running"}) \in Nat
      BY <3>4, FS_CardinalityType
    <3>. QED  BY <3>5 DEF Slots
  <2>5. 0 < Slots
    BY <2>4, <1>4
  <2>. QED  BY <2>1, <2>3, <2>5 DEF StagesToStart
<1>. QED  BY <1>1, <1>2, <1>3, <1>4
--------------------------------------------------------------------------------
(* What the steps have in common. *)

\* Rows stay and keep their stage, and a success is never taken back.
Kept ==
    /\ \A j \in Jobs : Born(j) => row'[j] # "none" /\ stageOf'[j] = stageOf[j]
    /\ \A j \in Jobs : row[j] = "completed" => row'[j] = "completed"
    /\ early => early'

\* A stage that is done stays done.
LEMMA DoneKept ==
    ASSUME Kept, NEW s, Done(s)
    PROVE  Done(s)'
<1>1. PICK j \in Jobs : stageOf[j] = s /\ row[j] = "completed"
  BY DEF Done
<1>2. Born(j)
  BY <1>1 DEF Born
<1>3. row'[j] = "completed" /\ stageOf'[j] = s
  BY <1>1, <1>2 DEF Kept
<1>. QED  BY <1>3 DEF Done

\* What a task that stands still knows stays true.
LEMMA WorkKept ==
    ASSUME Kept, NEW p, NEW j \in Jobs, NEW q \in Seq(Items), NEW h, WorkOf(p, j, q, h)
    PROVE  WorkOf(p, j, q, h)'
<1>1. Born(j) => Born(j)' /\ stageOf'[j] = stageOf[j]
  BY DEF Kept, Born
<1>2. row[j] = "completed" => row'[j] = "completed"
  BY DEF Kept
<1>3. ASSUME p = "creating"
      PROVE  q # <<>> /\ \A i \in 1..Len(q) : q[i] \in Stages /\ (q[i] > 1 => Done(q[i] - 1)')
  <2>1. q # <<>> /\ \A i \in 1..Len(q) : q[i] \in Stages /\ (q[i] > 1 => Done(q[i] - 1))
    BY <1>3 DEF WorkOf
  <2>2. ASSUME NEW i \in 1..Len(q), q[i] > 1
        PROVE  Done(q[i] - 1)'
    BY <2>1, <2>2, DoneKept
  <2>. QED  BY <2>1, <2>2
<1>4. ASSUME p = "recovering", NEW i \in 1..Len(q)
      PROVE  /\ q[i] \in Finding /\ Born(q[i].id)'
             /\ q[i].status = "completed" => row'[q[i].id] = "completed"
  <2>1. /\ q[i] \in Finding /\ Born(q[i].id)
        /\ q[i].status = "completed" => row[q[i].id] = "completed"
    BY <1>4 DEF WorkOf
  <2>2. q[i].id \in Jobs
    BY <2>1 DEF Finding
  <2>. QED  BY <2>1, <2>2 DEF Kept, Born
<1>5. ASSUME p = "replacing"
      PROVE  q # <<>> /\ q[1] \in Jobs /\ Born(q[1])' /\ stageOf'[q[1]] = stageOf'[j]
  BY <1>5, <1>1 DEF WorkOf, Kept, Born
<1>6. ASSUME p \in Repeating, h = "none", NEW i \in 1..Len(q)
      PROVE  q[i] \in Jobs /\ Born(q[i])'
  <2>1. q[i] \in Jobs /\ Born(q[i])
    BY <1>6 DEF WorkOf
  <2>. QED  BY <2>1 DEF Kept, Born
<1>7. ASSUME p \in {"complete", "completeRow"}
      PROVE  early' \/ AllDone'
  <2>1. early \/ AllDone
    BY <1>7, Zenon DEF WorkOf
  <2>2. ASSUME AllDone, NEW s \in Stages
        PROVE  Done(s)'
    BY <2>2, DoneKept DEF AllDone
  <2>3. CASE early
    BY <2>3 DEF Kept
  <2>4. CASE AllDone
    BY <2>2, <2>4 DEF AllDone
  <2>. QED  BY <2>1, <2>3, <2>4
<1>8. p \in {"completing", "complete", "completeRow", "fail", "failRow"} => h # "none"
  BY DEF WorkOf
<1>9. (p \in {"recovering", "rerun"} => h = "none") /\ (p = "rerun" => q # <<>>)
  BY DEF WorkOf
<1>10. p = "canceling" => \A i \in 1..Len(q) : q[i] \in Jobs
  BY DEF WorkOf
<1>11. p = "report" => h \in Ended /\ (h = "completed" => row[j] = "completed")
  BY DEF WorkOf
<1>12. p \in {"report", "completing", "failing", "resetting", "queueing", "replacing"} => Born(j)
  BY DEF WorkOf
<1>. QED
  BY <1>1, <1>2, <1>3, <1>4, <1>5, <1>6, <1>7, <1>8, <1>9, <1>10, <1>11, <1>12, Zenon DEF WorkOf

\* The invariants about rows, for a step that creates rows of stages that are due and
\* calls a workflow completed that is.
LEMMA Rows ==
    ASSUME WInv, Kept,
           \A j \in Jobs : row[j] = "none" => Due(j)',
           wf' = "completed" \/ master' = "completed" =>
               wf = "completed" \/ master = "completed" \/ early' \/ AllDone'
    PROVE  StagesInOrder' /\ CompletedIsComplete'
<1>1. ASSUME NEW j \in Jobs
      PROVE  Due(j)'
  <2>1. CASE row[j] = "none"
    BY <2>1
  <2>2. CASE row[j] # "none"
    <3>1. PICK s : s = stageOf[j]
      OBVIOUS
    <3>2. stageOf'[j] = s /\ (s > 1 => Done(s - 1))
      BY <2>2, <3>1 DEF Kept, Born, WInv, StagesInOrder
    <3>3. s > 1 => Done(s - 1)'
      BY <3>2, DoneKept
    <3>. QED  BY <3>2, <3>3 DEF Due
  <2>. QED  BY <2>1, <2>2
<1>2. StagesInOrder'
  BY <1>1 DEF StagesInOrder, Due, Born
<1>3. ASSUME wf = "completed" \/ master = "completed"
      PROVE  early' \/ AllDone'
  <2>1. early \/ AllDone
    BY <1>3 DEF WInv, CompletedIsComplete, AllDone
  <2>2. CASE early
    BY <2>2 DEF Kept
  <2>3. CASE AllDone
    BY <2>3, DoneKept DEF AllDone
  <2>. QED  BY <2>1, <2>2, <2>3
<1>4. CompletedIsComplete'
  BY <1>3 DEF CompletedIsComplete, AllDone
<1>. QED  BY <1>2, <1>4

\* Where a task goes on, or what it reports.
Goals == {"idle", "handler", "none"} \cup Ended

\* The type of what the tasks share.
Shared ==
    /\ wf \in {"none", "running", "paused"} \cup Ended
    /\ stages \in Seq(StageJob)
    /\ attempts \in [Stages -> 0..MaxAttempts]
    /\ row \in [Jobs -> {"none"} \cup Active \cup Ended]
    /\ stageOf \in [Jobs -> Stages]
    /\ master \in {"acknowledged"} \cup Ended
    /\ working \subseteq Jobs
    /\ early \in BOOLEAN

\* One task goes on: to place p, with job j, work list q and goal h.
Becomes(t, p, j, q, h) ==
    /\ p \in Places /\ j \in Jobs /\ q \in Seq(Items) /\ h \in Goals
    /\ pc' = [pc EXCEPT ![t] = p] /\ job' = [job EXCEPT ![t] = j]
    /\ pend' = [pend EXCEPT ![t] = q] /\ then' = [then EXCEPT ![t] = h]

LEMMA TypesOf ==
    Types <=> /\ Shared
              /\ pc \in [Tasks -> Places] /\ job \in [Tasks -> Jobs]
              /\ pend \in [Tasks -> Seq(Items)] /\ then \in [Tasks -> Goals]
BY DEF Types, TypeOK, Shared, Goals

\* Nothing but rows, lists and the workflow's status change.
LEMMA Still ==
    ASSUME WInv, Kept, Shared', Listed', Hands', UNCHANGED tasks,
           \A j \in Jobs : row[j] = "none" => Due(j)',
           wf' = "completed" \/ master' = "completed" =>
               wf = "completed" \/ master = "completed" \/ early' \/ AllDone'
    PROVE  WInv'
<1>1. StagesInOrder' /\ CompletedIsComplete'
  BY Rows
<1>2. pc' = pc /\ job' = job /\ pend' = pend /\ then' = then
  BY DEF tasks
<1>3. Types /\ Work
  BY DEF WInv
<1>4. Types'
  BY <1>2, <1>3, TypesOf DEF Types, TypeOK, Shared, Goals
<1>5. ASSUME NEW u \in Tasks
      PROVE  WorkOf(pc[u], job[u], pend[u], then[u])'
  <2>1. PICK p, j, q, h : p = pc[u] /\ j = job[u] /\ q = pend[u] /\ h = then[u]
    OBVIOUS
  <2>2. j \in Jobs /\ q \in Seq(Items)
    BY <2>1, <1>3, TypesOf
  <2>3. WorkOf(p, j, q, h)
    BY <2>1, <1>3 DEF Work
  <2>4. WorkOf(p, j, q, h)'
    BY <2>2, <2>3, WorkKept
  <2>5. p = pc'[u] /\ j = job'[u] /\ q = pend'[u] /\ h = then'[u]
    BY <2>1, <1>2
  <2>. QED  BY <2>4, <2>5, Zenon DEF WorkOf
<1>6. Work'
  BY <1>5, Zenon DEF Work
<1>. QED  BY <1>1, <1>4, <1>6, Zenon DEF WInv

\* One task goes on, and knows what its new place asks for.
LEMMA Moves ==
    ASSUME WInv, Kept, Shared', Listed', Hands',
           \A j \in Jobs : row[j] = "none" => Due(j)',
           wf' = "completed" \/ master' = "completed" =>
               wf = "completed" \/ master = "completed" \/ early' \/ AllDone',
           NEW t \in Tasks, NEW p, NEW j, NEW q, NEW h,
           Becomes(t, p, j, q, h), WorkOf(p, j, q, h)'
    PROVE  WInv'
<1>1. StagesInOrder' /\ CompletedIsComplete'
  BY Rows
<1>2. Types /\ Work
  BY DEF WInv
<1>3. /\ pc \in [Tasks -> Places] /\ job \in [Tasks -> Jobs]
      /\ pend \in [Tasks -> Seq(Items)] /\ then \in [Tasks -> Goals]
  BY <1>2, TypesOf
<1>4. /\ pc' \in [Tasks -> Places] /\ job' \in [Tasks -> Jobs]
      /\ pend' \in [Tasks -> Seq(Items)] /\ then' \in [Tasks -> Goals]
      /\ pc'[t] = p /\ job'[t] = j /\ pend'[t] = q /\ then'[t] = h
      /\ \A u \in Tasks : u # t =>
            pc'[u] = pc[u] /\ job'[u] = job[u] /\ pend'[u] = pend[u] /\ then'[u] = then[u]
  BY <1>3 DEF Becomes
<1>5. Types'
  BY <1>4 DEF Types, TypeOK, Shared, Goals
<1>6. ASSUME NEW u \in Tasks
      PROVE  WorkOf(pc[u], job[u], pend[u], then[u])'
  <2>1. CASE u = t
    BY <2>1, <1>4, Zenon DEF WorkOf
  <2>2. CASE u # t
    <3>1. PICK x, y, z, w : x = pc[u] /\ y = job[u] /\ z = pend[u] /\ w = then[u]
      OBVIOUS
    <3>2. y \in Jobs /\ z \in Seq(Items)
      BY <3>1, <1>3
    <3>3. WorkOf(x, y, z, w)
      BY <3>1, <1>2 DEF Work
    <3>4. WorkOf(x, y, z, w)'
      BY <3>2, <3>3, WorkKept
    <3>5. x = pc'[u] /\ y = job'[u] /\ z = pend'[u] /\ w = then'[u]
      BY <3>1, <2>2, <1>4
    <3>. QED  BY <3>4, <3>5, Zenon DEF WorkOf
  <2>. QED  BY <2>1, <2>2
<1>7. Work'
  BY <1>6, Zenon DEF Work
<1>. QED  BY <1>1, <1>5, <1>7, Zenon DEF WInv

\* A task goes on without touching a row or the list.
LEMMA Quiet ==
    ASSUME WInv, UNCHANGED <<stages, row, stageOf, working, early>>,
           attempts' \in [Stages -> 0..MaxAttempts],
           wf' \in {"none", "running", "paused"} \cup Ended,
           master' \in {"acknowledged"} \cup Ended,
           wf' = "completed" \/ master' = "completed" =>
               wf = "completed" \/ master = "completed" \/ early \/ AllDone,
           NEW t \in Tasks, NEW p, NEW j, NEW q, NEW h,
           Becomes(t, p, j, q, h), WorkOf(p, j, q, h)
    PROVE  WInv'
<1>1. Kept
  <2>1. row' = row /\ stageOf' = stageOf /\ early' = early
    OBVIOUS
  <2>2. early \in BOOLEAN
    BY DEF WInv, Types
  <2>3. early => early'
    BY <2>1, <2>2
  <2>4. \A i \in Jobs : Born(i) => row'[i] # "none" /\ stageOf'[i] = stageOf[i]
    BY <2>1 DEF Born
  <2>5. \A i \in Jobs : row[i] = "completed" => row'[i] = "completed"
    BY <2>1
  <2>. QED  BY <2>3, <2>4, <2>5, Zenon DEF Kept
<1>2. Shared
  BY TypesOf DEF WInv
<1>3. Shared'
  BY <1>2 DEF Shared
<1>4. Listed'
  BY DEF WInv, Listed, Entry, Born
<1>5. Hands'
  BY DEF WInv, Hands
<1>6. ASSUME NEW i \in Jobs, row[i] = "none"
      PROVE  Due(i)'
  BY <1>6 DEF Due, Born
<1>7. j \in Jobs /\ q \in Seq(Items)
  BY DEF Becomes
<1>8. WorkOf(p, j, q, h)'
  BY <1>1, <1>7, WorkKept
<1>9. AllDone => AllDone'
  BY <1>1, DoneKept DEF AllDone
<1>10. wf' = "completed" \/ master' = "completed" =>
          wf = "completed" \/ master = "completed" \/ early' \/ AllDone'
  BY <1>9
<1>. QED  BY <1>1, <1>3, <1>4, <1>5, <1>6, <1>8, <1>10, Moves, Zenon

\* Where a task stands, by names that do not change in the step.
Stands(t, p, j, q, h) ==
    /\ p = pc[t] /\ j = job[t] /\ q = pend[t] /\ h = then[t]
    /\ WorkOf(p, j, q, h)
    /\ job = [job EXCEPT ![t] = j] /\ pend = [pend EXCEPT ![t] = q]
    /\ then = [then EXCEPT ![t] = h]

LEMMA Here ==
    ASSUME WInv, NEW t \in Tasks
    PROVE  \E p \in Places, j \in Jobs, q \in Seq(Items), h \in Goals : Stands(t, p, j, q, h)
<1>1. Types /\ Work
  BY DEF WInv
<1>2. /\ pc \in [Tasks -> Places] /\ job \in [Tasks -> Jobs]
      /\ pend \in [Tasks -> Seq(Items)] /\ then \in [Tasks -> Goals]
  BY <1>1, TypesOf
<1>3. /\ pc[t] \in Places /\ job[t] \in Jobs /\ pend[t] \in Seq(Items) /\ then[t] \in Goals
      /\ job = [job EXCEPT ![t] = job[t]] /\ pend = [pend EXCEPT ![t] = pend[t]]
      /\ then = [then EXCEPT ![t] = then[t]]
  BY <1>2
<1>4. WorkOf(pc[t], job[t], pend[t], then[t])
  BY <1>1 DEF Work
<1>. QED  BY <1>3, <1>4 DEF Stands

\* What the workflow lists as completed has succeeded.
LEMMA ListedDone ==
    ASSUME WInv, NEW s, StageDone(s)
    PROVE  Done(s)
<1>1. stages \in Seq(StageJob) /\ Listed
  BY DEF WInv, Types, TypeOK
<1>2. PICK i \in 1..Len(stages) : stages[i].stage = s /\ stages[i].status = "completed"
  BY <1>1, LenProperties DEF StageDone, Positions
<1>3. stages[i] \in StageJob /\ Entry(stages[i])
  BY <1>1, <1>2, ElementOfSeq DEF Listed
<1>4. stages[i].id \in Jobs /\ stageOf[stages[i].id] = s /\ row[stages[i].id] = "completed"
  BY <1>2, <1>3 DEF Entry, StageJob
<1>. QED  BY <1>4 DEF Done

\* A list of stages that may be started is a work list for their creation.
LEMMA StartList ==
    ASSUME WInv, NEW q \in Ascending(StagesToStart)
    PROVE  /\ q \in Seq(Items)
           /\ \A i \in 1..Len(q) : q[i] \in Stages /\ (q[i] > 1 => Done(q[i] - 1))
           /\ StagesToStart # {} => q # <<>>
<1>1. stages \in Seq(StageJob)
  BY DEF WInv, Types, TypeOK
<1>2. /\ StagesToStart \subseteq NextStages /\ NextStages \subseteq Stages
      /\ IsFiniteSet(StagesToStart) /\ \A s \in NextStages : DependenciesMet(s)
  BY <1>1, ToStart
<1>3. /\ q \in Seq(StagesToStart) /\ \A i \in 1..Len(q) : q[i] \in StagesToStart
      /\ StagesToStart # {} => q # <<>>
  BY <1>2, Ordered
<1>4. q \in Seq(Items)
  BY <1>2, <1>3, SeqMonotonic DEF Items
<1>5. ASSUME NEW s \in StagesToStart
      PROVE  s \in Stages /\ (s > 1 => Done(s - 1))
  <2>1. s \in Stages /\ DependenciesMet(s)
    BY <1>2
  <2>2. ASSUME s > 1
        PROVE  s - 1 \in Stages /\ (s - 1) + 1 = s
    BY <2>1, <2>2, WorkflowAssumption DEF Stages
  <2>3. ASSUME s > 1
        PROVE  StageDone(s - 1)
    BY <2>1, <2>2, <2>3 DEF DependenciesMet
  <2>. QED  BY <2>1, <2>3, ListedDone
<1>. QED  BY <1>3, <1>4, <1>5
--------------------------------------------------------------------------------
(* Steps that change neither rows nor the list. *)

LEMMA StepStageCompleted ==
    ASSUME WInv, NEW t \in Tasks, StageCompleted(t)
    PROVE  WInv'
<1>1. PICK p \in Places, j \in Jobs, q \in Seq(Items), h \in Goals : Stands(t, p, j, q, h)
  BY Here
<1>2. PICK l \in Ascending(StagesToStart) : pend' = [pend EXCEPT ![t] = l]
  BY DEF StageCompleted
<1>3. /\ l \in Seq(Items)
      /\ \A i \in 1..Len(l) : l[i] \in Stages /\ (l[i] > 1 => Done(l[i] - 1))
      /\ StagesToStart # {} => l # <<>>
  BY <1>2, StartList
<1>4. p = "completing" /\ h # "none"
  BY <1>1 DEF StageCompleted, Stands, WorkOf
<1>5. PICK n \in {"idle", "creating", "fail", "complete"} :
          /\ pc' = [pc EXCEPT ![t] = n]
          /\ n = "creating" => NextStages # {} /\ Slots # 0
          /\ n = "complete" => IsComplete
  BY DEF StageCompleted, Goto, MustStop
<1>6. n = "creating" => l # <<>>
  <2>1. stages \in Seq(StageJob)
    BY DEF WInv, Types, TypeOK
  <2>. QED  BY <1>3, <1>5, <2>1, ToStart
<1>7. n = "complete" => AllDone
  BY <1>5, ListedDone DEF IsComplete, AllDone
<1>8. WorkOf(n, j, l, h)
  BY <1>3, <1>4, <1>5, <1>6, <1>7 DEF WorkOf, Repeating
<1>9. Becomes(t, n, j, l, h)
  BY <1>1, <1>2, <1>3, <1>5 DEF Becomes, StageCompleted, Stands, Places
<1>10. UNCHANGED <<stages, row, stageOf, working, early, wf, attempts, master>>
  BY DEF StageCompleted, memory, db
<1>11. Shared
  BY TypesOf DEF WInv
<1>. QED  BY <1>8, <1>9, <1>10, <1>11, Quiet DEF Shared

LEMMA StepExtractionFails ==
    ASSUME WInv, NEW t \in Tasks, ExtractionFails(t)
    PROVE  WInv'
<1>1. PICK p \in Places, j \in Jobs, q \in Seq(Items), h \in Goals : Stands(t, p, j, q, h)
  BY Here
<1>2. Shared
  BY TypesOf DEF WInv
<1>3. p = "completing" /\ h # "none"
  BY <1>1 DEF ExtractionFails, Stands, WorkOf
<1>4. WorkOf("failing", j, q, h)
  BY <1>1, <1>3 DEF Stands, WorkOf, Repeating
<1>5. Becomes(t, "failing", j, q, h)
  BY <1>1 DEF Becomes, ExtractionFails, Goto, Stands, Places
<1>6. UNCHANGED <<stages, row, stageOf, working, early, wf, attempts, master>>
  BY DEF ExtractionFails, memory, db
<1>. QED  BY <1>2, <1>4, <1>5, <1>6, Quiet DEF Shared

\* What is left of a work list.
LEMMA Rest ==
    ASSUME NEW S, NEW q \in Seq(S), q # <<>>
    PROVE  /\ Tail(q) \in Seq(S) /\ Len(q) \in Nat \ {0}
           /\ Head(q) = q[1] /\ q[1] \in S
           /\ \A i \in 1..Len(Tail(q)) : i + 1 \in 1..Len(q) /\ Tail(q)[i] = q[i + 1]
           /\ Len(q) # 1 => Tail(q) # <<>>
<1>1. Tail(q) \in Seq(S) /\ Len(Tail(q)) = Len(q) - 1
      /\ \A i \in 1..Len(Tail(q)) : Tail(q)[i] = q[i + 1]
  BY HeadTailProperties
<1>2. Len(q) \in Nat \ {0}
  BY EmptySeq
<1>3. 1 \in 1..Len(q)
  BY <1>2
<1>4. q[1] \in S /\ Head(q) = q[1]
  BY <1>3, ElementOfSeq
<1>5. ASSUME Len(q) # 1
      PROVE  Tail(q) # <<>>
  <2>1. Len(Tail(q)) # 0
    BY <1>1, <1>2, <1>5
  <2>. QED  BY <2>1, EmptySeq
<1>. QED  BY <1>1, <1>2, <1>4, <1>5

LEMMA StepCreateFails ==
    ASSUME WInv, NEW t \in Tasks, CreateFails(t)
    PROVE  WInv'
<1>1. PICK p \in Places, j \in Jobs, q \in Seq(Items), h \in Goals : Stands(t, p, j, q, h)
  BY Here
<1>2. Shared
  BY TypesOf DEF WInv
<1>3. /\ p = "creating" /\ q # <<>>
      /\ \A i \in 1..Len(q) : q[i] \in Stages /\ (q[i] > 1 => Done(q[i] - 1))
  BY <1>1 DEF CreateFails, Stands, WorkOf
<1>4. PICK l : l = Tail(q)
  OBVIOUS
<1>5. /\ l \in Seq(Items) /\ (Len(q) # 1 => l # <<>>)
      /\ \A i \in 1..Len(l) : i + 1 \in 1..Len(q) /\ l[i] = q[i + 1]
  BY <1>3, <1>4, Rest
<1>6. PICK n \in {"idle", "creating"} :
          pc' = [pc EXCEPT ![t] = n] /\ (n = "creating" => Len(q) # 1)
  BY <1>1 DEF CreateFails, Goto, Stands
<1>7. WorkOf(n, j, l, h)
  BY <1>3, <1>5, <1>6 DEF WorkOf, Repeating
<1>8. Becomes(t, n, j, l, h)
  BY <1>1, <1>4, <1>5, <1>6 DEF Becomes, CreateFails, Stands, Places
<1>9. UNCHANGED <<stages, row, stageOf, working, early, wf, attempts, master>>
  BY DEF CreateFails, memory, db
<1>. QED  BY <1>2, <1>7, <1>8, <1>9, Quiet DEF Shared

\* Whoever ends an abort or a completion is done, or repeats the next job.
LEMMA Returns ==
    ASSUME NEW t, NEW p, NEW j, NEW q, NEW h, Stands(t, p, j, q, h), Return(t),
           p \in {"complete", "completeRow", "failRow", "verdict"}
    PROVE  \E n \in {"idle", "rerun"} : pc' = [pc EXCEPT ![t] = n] /\ WorkOf(n, j, q, h)
<1>1. WorkOf("idle", j, q, h)
  BY DEF WorkOf, Repeating
<1>2. ASSUME h = "none", q # <<>>
      PROVE  WorkOf("rerun", j, q, h)
  <2>1. p = "verdict"
    BY <1>2 DEF Stands, WorkOf
  <2>2. \A i \in 1..Len(q) : q[i] \in Jobs /\ Born(q[i])
    BY <2>1, <1>2 DEF Stands, WorkOf, Repeating
  <2>. QED  BY <2>2, <1>2 DEF WorkOf
<1>3. CASE h = "none" /\ q # <<>>
  BY <1>2, <1>3 DEF Return, Goto, Stands
<1>4. CASE ~(h = "none" /\ q # <<>>)
  BY <1>1, <1>4 DEF Return, Goto, Stands
<1>. QED  BY <1>3, <1>4

LEMMA StepMarkCompleted ==
    ASSUME WInv, NEW t \in Tasks, MarkCompleted(t)
    PROVE  WInv'
<1>1. PICK p \in Places, j \in Jobs, q \in Seq(Items), h \in Goals : Stands(t, p, j, q, h)
  BY Here
<1>2. Shared
  BY TypesOf DEF WInv
<1>3. p = "complete" /\ h # "none" /\ (early \/ AllDone)
  BY <1>1, Zenon DEF MarkCompleted, Stands, WorkOf
<1>4. UNCHANGED <<stages, row, stageOf, working, early, attempts, master>>
  BY DEF MarkCompleted, memory, db
<1>5. CASE wf = "completed"
  <2>1. PICK n \in {"idle", "rerun"} : pc' = [pc EXCEPT ![t] = n] /\ WorkOf(n, j, q, h)
    BY <1>1, <1>3, <1>5, Returns DEF MarkCompleted
  <2>2. Becomes(t, n, j, q, h)
    BY <1>1, <2>1 DEF Becomes, MarkCompleted, Stands, Places
  <2>3. wf' = wf
    BY <1>5 DEF MarkCompleted
  <2>. QED  BY <1>2, <1>4, <2>1, <2>2, <2>3, Quiet DEF Shared
<1>6. CASE wf # "completed"
  <2>1. WorkOf("completeRow", j, q, h)
    BY <1>3, Zenon DEF WorkOf, Repeating
  <2>2. Becomes(t, "completeRow", j, q, h)
    BY <1>1, <1>6 DEF Becomes, MarkCompleted, Goto, Stands, Places
  <2>3. wf' = "completed"
    BY <1>6 DEF MarkCompleted
  <2>4. wf' \in {"none", "running", "paused"} \cup Ended
    BY <2>3 DEF Ended
  <2>. QED  BY <1>2, <1>3, <1>4, <2>1, <2>2, <2>4, Quiet DEF Shared
<1>. QED  BY <1>5, <1>6

LEMMA StepMarkFailed ==
    ASSUME WInv, NEW t \in Tasks, MarkFailed(t)
    PROVE  WInv'
<1>1. PICK p \in Places, j \in Jobs, q \in Seq(Items), h \in Goals : Stands(t, p, j, q, h)
  BY Here
<1>2. Shared
  BY TypesOf DEF WInv
<1>3. PICK n \in {"failRow", "abortRow"} :
          /\ pc' = [pc EXCEPT ![t] = n]
          /\ p = (IF n = "failRow" THEN "fail" ELSE "abort")
  BY <1>1 DEF MarkFailed, Goto, Stands
<1>4. WorkOf(n, j, q, h)
  BY <1>1, <1>3 DEF Stands, WorkOf, Repeating
<1>5. Becomes(t, n, j, q, h)
  BY <1>1, <1>3 DEF Becomes, MarkFailed, Stands, Places
<1>6. UNCHANGED <<stages, row, stageOf, working, early, attempts, master>> /\ wf' = "failed"
  BY DEF MarkFailed, memory, db
<1>7. wf' \in {"none", "running", "paused"} \cup Ended
  BY <1>6 DEF Ended
<1>. QED  BY <1>2, <1>4, <1>5, <1>6, <1>7, Quiet DEF Shared

LEMMA StepMarkMaster ==
    ASSUME WInv, NEW t \in Tasks, MarkMaster(t)
    PROVE  WInv'
<1>1. PICK p \in Places, j \in Jobs, q \in Seq(Items), h \in Goals : Stands(t, p, j, q, h)
  BY Here
<1>2. Shared
  BY TypesOf DEF WInv
<1>3. /\ UNCHANGED <<stages, row, stageOf, working, early, attempts, wf>>
      /\ master' = IF p = "completeRow" THEN "completed" ELSE "failed"
      /\ p \in {"completeRow", "failRow", "abortRow"}
  BY <1>1 DEF MarkMaster, memory, db, Stands
<1>4. p = "completeRow" => early \/ AllDone
  BY <1>1, Zenon DEF Stands, WorkOf
<1>5. \E n \in Places : pc' = [pc EXCEPT ![t] = n] /\ WorkOf(n, j, q, h)
  <2>1. CASE p = "abortRow"
    <3>1. WorkOf("verdict", j, q, h)
      BY <1>1, <2>1 DEF Stands, WorkOf, Repeating
    <3>2. pc' = [pc EXCEPT ![t] = "verdict"]
      BY <1>1, <2>1 DEF MarkMaster, Goto, Stands
    <3>. QED  BY <3>1, <3>2 DEF Places
  <2>2. CASE p # "abortRow"
    <3>1. Return(t) /\ p \in {"completeRow", "failRow"}
      BY <1>1, <1>3, <2>2 DEF MarkMaster, Stands
    <3>2. PICK n \in {"idle", "rerun"} : pc' = [pc EXCEPT ![t] = n] /\ WorkOf(n, j, q, h)
      BY <1>1, <3>1, Returns
    <3>. QED  BY <3>2 DEF Places
  <2>. QED  BY <2>1, <2>2
<1>6. PICK n \in Places : pc' = [pc EXCEPT ![t] = n] /\ WorkOf(n, j, q, h)
  BY <1>5
<1>7. Becomes(t, n, j, q, h)
  BY <1>1, <1>6 DEF Becomes, MarkMaster, Stands
<1>8. master' \in {"acknowledged"} \cup Ended
  BY <1>3 DEF Ended
<1>9. wf' = "completed" \/ master' = "completed" =>
          wf = "completed" \/ master = "completed" \/ early \/ AllDone
  BY <1>3, <1>4
<1>. QED  BY <1>2, <1>3, <1>6, <1>7, <1>8, <1>9, Quiet DEF Shared

LEMMA StepVerdict ==
    ASSUME WInv, NEW t \in Tasks, Verdict(t)
    PROVE  WInv'
<1>1. PICK p \in Places, j \in Jobs, q \in Seq(Items), h \in Goals : Stands(t, p, j, q, h)
  BY Here
<1>2. Shared
  BY TypesOf DEF WInv
<1>3. p = "verdict" /\ Return(t) /\ wf' = "failed"
      /\ UNCHANGED <<stages, row, stageOf, working, early, attempts, master>>
  BY <1>1 DEF Verdict, Stands, db
<1>4. PICK n \in {"idle", "rerun"} : pc' = [pc EXCEPT ![t] = n] /\ WorkOf(n, j, q, h)
  BY <1>1, <1>3, Returns
<1>5. Becomes(t, n, j, q, h)
  BY <1>1, <1>4 DEF Becomes, Verdict, Stands, Places
<1>6. wf' \in {"none", "running", "paused"} \cup Ended
  BY <1>3 DEF Ended
<1>. QED  BY <1>2, <1>3, <1>4, <1>5, <1>6, Quiet DEF Shared

LEMMA StepStageFailed ==
    ASSUME WInv, NEW t \in Tasks, StageFailed(t)
    PROVE  WInv'
<1>1. PICK p \in Places, j \in Jobs, q \in Seq(Items), h \in Goals : Stands(t, p, j, q, h)
  BY Here
<1>2. Shared
  BY TypesOf DEF WInv
<1>3. p = "failing" /\ Born(j)
  BY <1>1 DEF StageFailed, Stands, WorkOf
<1>4. stageOf[j] \in Stages /\ attempts \in [Stages -> 0..MaxAttempts]
  BY <1>2 DEF Shared
<1>5. PICK n \in {"resetting", "abort"} : pc' = [pc EXCEPT ![t] = n]
  BY DEF StageFailed, Goto
<1>6. PICK g : g = IF h = "none" THEN h ELSE "handler"
  OBVIOUS
<1>7. g \in Goals /\ then' = [then EXCEPT ![t] = g] /\ (g = "none" => h = "none")
  BY <1>1, <1>6 DEF StageFailed, Stands, Goals
<1>8. WorkOf(n, j, q, g)
  BY <1>1, <1>3, <1>5, <1>7 DEF Stands, WorkOf, Repeating
<1>9. Becomes(t, n, j, q, g)
  BY <1>1, <1>5, <1>7 DEF Becomes, StageFailed, Stands, Places
<1>10. UNCHANGED <<stages, row, stageOf, working, early, wf, master>>
  BY DEF StageFailed, db
<1>11. attempts' \in [Stages -> 0..MaxAttempts]
  <2>1. CASE MayRetry(stageOf[j])
    <3>1. attempts' = [attempts EXCEPT ![stageOf[j]] = @ + 1]
      BY <1>1, <2>1 DEF StageFailed, Stands
    <3>2. attempts[stageOf[j]] + 1 \in 0..MaxAttempts
      BY <1>4, <2>1, WorkflowAssumption DEF MayRetry
    <3>. QED  BY <1>4, <3>1, <3>2
  <2>2. CASE ~MayRetry(stageOf[j])
    BY <1>1, <1>4, <2>2 DEF StageFailed, Stands
  <2>. QED  BY <2>1, <2>2
<1>. QED  BY <1>2, <1>8, <1>9, <1>10, <1>11, Quiet DEF Shared

LEMMA StepQueueFails ==
    ASSUME WInv, NEW t \in Tasks, QueueFails(t)
    PROVE  WInv'
<1>1. PICK p \in Places, j \in Jobs, q \in Seq(Items), h \in Goals : Stands(t, p, j, q, h)
  BY Here
<1>2. Shared
  BY TypesOf DEF WInv
<1>3. p = "queueing"
  BY <1>1 DEF QueueFails, Stands
<1>4. PICK n \in {"idle", "abort"} : pc' = [pc EXCEPT ![t] = n]
  BY DEF QueueFails, Goto
<1>5. WorkOf(n, j, q, h)
  BY <1>1, <1>3, <1>4 DEF Stands, WorkOf, Repeating
<1>6. Becomes(t, n, j, q, h)
  BY <1>1, <1>4 DEF Becomes, QueueFails, Stands, Places
<1>7. UNCHANGED <<stages, row, stageOf, working, early, wf, attempts, master>>
  BY DEF QueueFails, memory, db
<1>. QED  BY <1>2, <1>5, <1>6, <1>7, Quiet DEF Shared

LEMMA StepPause ==
    ASSUME WInv, NEW t \in Tasks, Pause(t)
    PROVE  WInv'
<1>1. PICK p \in Places, j \in Jobs, q \in Seq(Items), h \in Goals : Stands(t, p, j, q, h)
  BY Here
<1>2. Shared /\ pc \in [Tasks -> Places]
  BY TypesOf DEF WInv
<1>3. /\ UNCHANGED <<stages, row, stageOf, working, early, attempts, master>>
      /\ UNCHANGED <<pc, job, pend, then>> /\ wf' = "paused"
  BY DEF Pause, db, tasks
<1>4. pc' = [pc EXCEPT ![t] = p]
  BY <1>1, <1>2, <1>3 DEF Stands
<1>5. Becomes(t, p, j, q, h) /\ WorkOf(p, j, q, h)
  BY <1>1, <1>3, <1>4 DEF Becomes, Stands
<1>. QED  BY <1>2, <1>3, <1>5, Quiet DEF Shared

LEMMA StepResume ==
    ASSUME WInv, NEW t \in Tasks, Resume(t)
    PROVE  WInv'
<1>1. PICK p \in Places, j \in Jobs, q \in Seq(Items), h \in Goals : Stands(t, p, j, q, h)
  BY Here
<1>2. Shared
  BY TypesOf DEF WInv
<1>3. UNCHANGED <<stages, row, stageOf, working, early, attempts, master>> /\ wf' = "running"
  BY DEF Resume, db
<1>4. WorkOf("resuming", j, q, "idle")
  BY DEF WorkOf, Repeating
<1>5. Becomes(t, "resuming", j, q, "idle")
  BY <1>1 DEF Becomes, Resume, Goto, Stands, Places, Goals
<1>. QED  BY <1>2, <1>3, <1>4, <1>5, Quiet DEF Shared

LEMMA StepStartNext ==
    ASSUME WInv, NEW t \in Tasks, StartNext(t)
    PROVE  WInv'
<1>1. PICK p \in Places, j \in Jobs, q \in Seq(Items), h \in Goals : Stands(t, p, j, q, h)
  BY Here
<1>2. Shared
  BY TypesOf DEF WInv
<1>3. PICK l \in Ascending(StagesToStart) : pend' = [pend EXCEPT ![t] = l]
  BY DEF StartNext
<1>4. /\ l \in Seq(Items)
      /\ \A i \in 1..Len(l) : l[i] \in Stages /\ (l[i] > 1 => Done(l[i] - 1))
      /\ StagesToStart # {} => l # <<>>
  BY <1>3, StartList
<1>5. PICK n \in {"idle", "creating"} :
          pc' = [pc EXCEPT ![t] = n] /\ (n = "creating" => StagesToStart # {})
  BY DEF StartNext, Goto
<1>6. WorkOf(n, j, l, h)
  BY <1>4, <1>5 DEF WorkOf, Repeating
<1>7. Becomes(t, n, j, l, h)
  BY <1>1, <1>3, <1>4, <1>5 DEF Becomes, StartNext, Stands, Places
<1>8. UNCHANGED <<stages, row, stageOf, working, early, wf, attempts, master>>
  BY DEF StartNext, memory, db
<1>. QED  BY <1>2, <1>6, <1>7, <1>8, Quiet DEF Shared

\* What a command has read of the rows is a list of jobs.
LEMMA JobList ==
    ASSUME NEW S \in SUBSET Jobs, NEW q \in Ascending(S)
    PROVE  /\ q \in Seq(Jobs) /\ \A i \in 1..Len(q) : q[i] \in S
           /\ Len(q) \in Nat /\ DOMAIN q = 1..Len(q)
<1>1. IsFiniteSet(S)
  BY Finite, FS_Subset
<1>2. /\ q \in Seq(S) /\ \A i \in 1..Len(q) : q[i] \in S
      /\ DOMAIN q = 1..Len(q)
  BY <1>1, Ordered
<1>. QED  BY <1>2, SeqMonotonic, LenProperties

LEMMA StepCancelRead ==
    ASSUME WInv, NEW t \in Tasks, CancelRead(t)
    PROVE  WInv'
<1>1. PICK p \in Places, j \in Jobs, q \in Seq(Items), h \in Goals : Stands(t, p, j, q, h)
  BY Here
<1>2. Shared
  BY TypesOf DEF WInv
<1>3. PICK l \in Ascending({i \in Jobs : row[i] \in Active}) : pend' = [pend EXCEPT ![t] = l]
  BY DEF CancelRead
<1>4. l \in Seq(Jobs) /\ \A i \in 1..Len(l) : l[i] \in Jobs
  BY <1>3, JobList
<1>5. l \in Seq(Items)
  BY <1>4, SeqMonotonic DEF Items
<1>6. WorkOf("canceling", j, l, "idle")
  BY <1>4 DEF WorkOf, Repeating
<1>7. Becomes(t, "canceling", j, l, "idle")
  BY <1>1, <1>3, <1>5 DEF Becomes, CancelRead, Goto, Stands, Places, Goals
<1>8. UNCHANGED <<stages, row, stageOf, working, early, wf, attempts, master>>
  BY DEF CancelRead, memory, db
<1>. QED  BY <1>2, <1>6, <1>7, <1>8, Quiet DEF Shared

LEMMA StepCancelState ==
    ASSUME WInv, NEW t \in Tasks, CancelState(t)
    PROVE  WInv'
<1>1. PICK p \in Places, j \in Jobs, q \in Seq(Items), h \in Goals : Stands(t, p, j, q, h)
  BY Here
<1>2. Shared
  BY TypesOf DEF WInv
<1>3. UNCHANGED <<stages, row, stageOf, working, early, attempts, master>> /\ wf' = "canceled"
  BY DEF CancelState, db
<1>4. WorkOf("cancelRow", j, q, h)
  BY DEF WorkOf, Repeating
<1>5. Becomes(t, "cancelRow", j, q, h)
  BY <1>1 DEF Becomes, CancelState, Goto, Stands, Places
<1>6. wf' \in {"none", "running", "paused"} \cup Ended
  BY <1>3 DEF Ended
<1>. QED  BY <1>2, <1>3, <1>4, <1>5, <1>6, Quiet DEF Shared

LEMMA StepCancelRow ==
    ASSUME WInv, NEW t \in Tasks, CancelRow(t)
    PROVE  WInv'
<1>1. PICK p \in Places, j \in Jobs, q \in Seq(Items), h \in Goals : Stands(t, p, j, q, h)
  BY Here
<1>2. Shared
  BY TypesOf DEF WInv
<1>3. UNCHANGED <<stages, row, stageOf, working, early, attempts, wf>> /\ master' = "canceled"
  BY DEF CancelRow, memory
<1>4. WorkOf("idle", j, q, h)
  BY DEF WorkOf, Repeating
<1>5. Becomes(t, "idle", j, q, h)
  BY <1>1 DEF Becomes, CancelRow, Goto, Stands, Places
<1>6. master' \in {"acknowledged"} \cup Ended
  BY <1>3 DEF Ended
<1>. QED  BY <1>2, <1>3, <1>4, <1>5, <1>6, Quiet DEF Shared

\* What the workflow lists is a job whose row is there.
LEMMA ListedJob ==
    ASSUME WInv, NEW i \in DOMAIN stages
    PROVE  /\ i \in 1..Len(stages) /\ stages[i] \in StageJob /\ stages[i].id \in Jobs
           /\ Entry(stages[i])
<1>1. stages \in Seq(StageJob) /\ Listed
  BY DEF WInv, Types, TypeOK
<1>2. i \in 1..Len(stages)
  BY <1>1, LenProperties
<1>3. stages[i] \in StageJob
  BY <1>1, <1>2, ElementOfSeq
<1>. QED  BY <1>1, <1>2, <1>3 DEF StageJob, Listed

LEMMA StepRetryStage ==
    ASSUME WInv, NEW t \in Tasks, NEW i \in DOMAIN stages, RetryStage(t, i)
    PROVE  WInv'
<1>1. PICK p \in Places, j \in Jobs, q \in Seq(Items), h \in Goals : Stands(t, p, j, q, h)
  BY Here
<1>2. Shared
  BY TypesOf DEF WInv
<1>3. PICK k : k = stages[i].id
  OBVIOUS
<1>4. k \in Jobs /\ Born(k)
  BY <1>3, ListedJob DEF Entry
<1>5. <<>> \in Seq(Items)
  BY EmptySeq
<1>6. WorkOf("resetting", k, <<>>, "idle")
  BY <1>4 DEF WorkOf, Repeating
<1>7. Becomes(t, "resetting", k, <<>>, "idle")
  BY <1>1, <1>3, <1>4, <1>5 DEF Becomes, RetryStage, Goto, Stands, Places, Goals
<1>8. UNCHANGED <<stages, row, stageOf, working, early, wf, attempts, master>>
  BY DEF RetryStage, memory, db
<1>. QED  BY <1>2, <1>6, <1>7, <1>8, Quiet DEF Shared

LEMMA StepRerun ==
    ASSUME WInv, NEW t \in Tasks, Rerun(t)
    PROVE  WInv'
<1>1. PICK p \in Places, j \in Jobs, q \in Seq(Items), h \in Goals : Stands(t, p, j, q, h)
  BY Here
<1>2. Shared
  BY TypesOf DEF WInv
<1>3. p = "rerun" /\ h = "none" /\ q # <<>>
  BY <1>1 DEF Rerun, Stands, WorkOf
<1>4. \A i \in 1..Len(q) : q[i] \in Jobs /\ Born(q[i])
  BY <1>1, <1>3 DEF Stands, WorkOf, Repeating
<1>5. PICK k, l : k = Head(q) /\ l = Tail(q)
  OBVIOUS
<1>6. /\ l \in Seq(Items) /\ k = q[1] /\ 1 \in 1..Len(q)
      /\ \A i \in 1..Len(l) : i + 1 \in 1..Len(q) /\ l[i] = q[i + 1]
  BY <1>3, <1>5, Rest
<1>7. k \in Jobs /\ Born(k) /\ \A i \in 1..Len(l) : l[i] \in Jobs /\ Born(l[i])
  BY <1>4, <1>6
<1>8. WorkOf("failing", k, l, h)
  BY <1>3, <1>7 DEF WorkOf, Repeating
<1>9. Becomes(t, "failing", k, l, h)
  BY <1>1, <1>5, <1>6, <1>7 DEF Becomes, Rerun, Goto, Stands, Places
<1>10. UNCHANGED <<stages, row, stageOf, working, early, wf, attempts, master>>
  BY DEF Rerun, memory, db
<1>. QED  BY <1>2, <1>8, <1>9, <1>10, Quiet DEF Shared

LEMMA StepQueryRead ==
    ASSUME WInv, NEW t \in Tasks, QueryRead(t)
    PROVE  WInv'
<1>1. PICK p \in Places, j \in Jobs, q \in Seq(Items), h \in Goals : Stands(t, p, j, q, h)
  BY Here
<1>2. Shared
  BY TypesOf DEF WInv
<1>3. PICK l \in Ascending({i \in Jobs : row[i] # "none" /\ stageOf[i] > 1}) :
          pend' = [pend EXCEPT ![t] = [i \in DOMAIN l |-> [id |-> l[i], status |-> row[l[i]]]]]
  BY DEF QueryRead
<1>4. /\ l \in Seq(Jobs) /\ Len(l) \in Nat /\ DOMAIN l = 1..Len(l)
      /\ \A i \in 1..Len(l) : l[i] \in Jobs /\ row[l[i]] # "none"
  BY <1>3, JobList
<1>5. PICK m : m = [i \in DOMAIN l |-> [id |-> l[i], status |-> row[l[i]]]]
  OBVIOUS
<1>6. ASSUME NEW i \in 1..Len(l)
      PROVE  /\ m[i] \in Finding /\ Born(m[i].id)
             /\ m[i].status = "completed" => row[m[i].id] = "completed"
  <2>1. m[i] = [id |-> l[i], status |-> row[l[i]]]
    BY <1>4, <1>5
  <2>2. l[i] \in Jobs /\ row[l[i]] # "none"
    BY <1>4
  <2>3. row[l[i]] \in Active \cup Ended
    BY <1>2, <2>2 DEF Shared
  <2>. QED  BY <2>1, <2>2, <2>3 DEF Finding, Born
<1>7. m \in [1..Len(l) -> Finding] /\ Len(m) = Len(l)
  BY <1>4, <1>5, <1>6
<1>8. m \in Seq(Items)
  <2>1. m \in Seq(Finding)
    BY <1>4, <1>7
  <2>. QED  BY <2>1, SeqMonotonic DEF Items
<1>9. WorkOf("recovering", j, m, "none")
  BY <1>6, <1>7 DEF WorkOf, Repeating
<1>10. Becomes(t, "recovering", j, m, "none")
  BY <1>1, <1>3, <1>5, <1>8 DEF Becomes, QueryRead, Goto, Stands, Places, Goals
<1>11. UNCHANGED <<stages, row, stageOf, working, early, wf, attempts, master>>
  BY DEF QueryRead, memory, db
<1>. QED  BY <1>2, <1>9, <1>10, <1>11, Quiet DEF Shared
--------------------------------------------------------------------------------
(* Steps that change the list. *)

\* What is true of a listed job stays true.
LEMMA EntryKept ==
    ASSUME Kept, NEW e \in StageJob, Entry(e)
    PROVE  Entry(e)'
<1>1. e.id \in Jobs
  BY DEF StageJob
<1>. QED  BY <1>1 DEF Kept, Entry, Born

\* A task goes on, with the list changed.
LEMMA Relist ==
    ASSUME WInv, UNCHANGED <<row, stageOf, working>>,
           early' \in BOOLEAN, early => early',
           stages' \in Seq(StageJob), \A i \in 1..Len(stages') : Entry(stages'[i]),
           attempts' \in [Stages -> 0..MaxAttempts],
           wf' \in {"none", "running", "paused"} \cup Ended,
           master' \in {"acknowledged"} \cup Ended,
           wf' = "completed" \/ master' = "completed" => wf = "completed" \/ master = "completed",
           NEW t \in Tasks, NEW p, NEW j, NEW q, NEW h,
           Becomes(t, p, j, q, h), WorkOf(p, j, q, h)'
    PROVE  WInv'
<1>1. row' = row /\ stageOf' = stageOf /\ working' = working
  OBVIOUS
<1>2. \A i \in Jobs : Born(i) => row'[i] # "none" /\ stageOf'[i] = stageOf[i]
  BY <1>1 DEF Born
<1>3. \A i \in Jobs : row[i] = "completed" => row'[i] = "completed"
  BY <1>1
<1>4. Kept
  BY <1>2, <1>3, Zenon DEF Kept
<1>5. Shared'
  BY TypesOf, <1>1 DEF WInv, Shared
<1>6. Listed'
  BY <1>1 DEF Listed, Entry, Born
<1>7. Hands'
  BY <1>1 DEF WInv, Hands
<1>8. ASSUME NEW i \in Jobs, row[i] = "none"
      PROVE  Due(i)'
  BY <1>1, <1>8 DEF Due, Born
<1>9. wf' = "completed" \/ master' = "completed" =>
          wf = "completed" \/ master = "completed" \/ early' \/ AllDone'
  OBVIOUS
<1>. QED  BY <1>4, <1>5, <1>6, <1>7, <1>8, <1>9, Moves, Zenon

\* A list with the same jobs is a list.
LEMMA Relisted ==
    ASSUME WInv, NEW f \in [DOMAIN stages -> StageJob], \A i \in DOMAIN stages : Entry(f[i])
    PROVE  f \in Seq(StageJob) /\ \A i \in 1..Len(f) : Entry(f[i])
<1>1. stages \in Seq(StageJob)
  BY DEF WInv, Types, TypeOK
<1>2. DOMAIN stages = 1..Len(stages) /\ Len(stages) \in Nat
  BY <1>1, LenProperties
<1>3. f \in Seq(StageJob) /\ Len(f) = Len(stages)
  BY <1>2
<1>. QED  BY <1>2, <1>3

\* The statuses of a listed job.
Statuses == {"queued", "running", "completed", "failed", "canceled"}

\* A job of the list gets a status that is true of its row.
LEMMA SetStageKeeps ==
    ASSUME WInv, NEW k, NEW st \in Statuses, st = "completed" => row[k] = "completed"
    PROVE  /\ SetStage(k, st) \in Seq(StageJob)
           /\ \A i \in 1..Len(SetStage(k, st)) : Entry(SetStage(k, st)[i])
<1>1. ASSUME NEW i \in DOMAIN stages
      PROVE  SetStage(k, st)[i] \in StageJob /\ Entry(SetStage(k, st)[i])
  <2>1. stages[i] \in StageJob /\ Entry(stages[i])
    BY ListedJob
  <2>2. CASE stages[i].id = k
    <3>1. SetStage(k, st)[i] = [stages[i] EXCEPT !.status = st]
      BY <2>2 DEF SetStage
    <3>2. [stages[i] EXCEPT !.status = st] \in StageJob
      BY <2>1 DEF StageJob, Statuses
    <3>3. /\ [stages[i] EXCEPT !.status = st].id = k
          /\ [stages[i] EXCEPT !.status = st].stage = stages[i].stage
          /\ [stages[i] EXCEPT !.status = st].status = st
      BY <2>1, <2>2 DEF StageJob
    <3>. QED  BY <2>1, <2>2, <3>1, <3>2, <3>3 DEF Entry
  <2>3. CASE stages[i].id # k
    BY <2>1, <2>3 DEF SetStage
  <2>. QED  BY <2>2, <2>3
<1>2. SetStage(k, st) \in [DOMAIN stages -> StageJob]
  BY <1>1 DEF SetStage
<1>. QED  BY <1>1, <1>2, Relisted

LEMMA StepEndsEarly ==
    ASSUME WInv, NEW t \in Tasks, EndsEarly(t)
    PROVE  WInv'
<1>1. PICK p \in Places, j \in Jobs, q \in Seq(Items), h \in Goals : Stands(t, p, j, q, h)
  BY Here
<1>2. Shared
  BY TypesOf DEF WInv
<1>3. p = "completing" /\ h # "none"
  BY <1>1 DEF EndsEarly, Stands, WorkOf
<1>4. early' = TRUE /\ UNCHANGED <<stages, row, stageOf, working, wf, attempts, master>>
  BY DEF EndsEarly, memory, db
<1>5. WorkOf("complete", j, q, h)'
  BY <1>3, <1>4, Zenon DEF WorkOf, Repeating
<1>6. Becomes(t, "complete", j, q, h)
  BY <1>1 DEF Becomes, EndsEarly, Goto, Stands, Places
<1>7. \A i \in 1..Len(stages') : Entry(stages'[i])
  BY <1>4 DEF WInv, Listed
<1>. QED  BY <1>2, <1>4, <1>5, <1>6, <1>7, Relist DEF Shared

LEMMA StepReport ==
    ASSUME WInv, NEW t \in Tasks, Report(t)
    PROVE  WInv'
<1>1. PICK p \in Places, j \in Jobs, q \in Seq(Items), h \in Goals : Stands(t, p, j, q, h)
  BY Here
<1>2. Shared
  BY TypesOf DEF WInv
<1>3. /\ p = "report" /\ Born(j) /\ h \in Ended
      /\ h = "completed" => row[j] = "completed"
  BY <1>1 DEF Report, Stands, WorkOf
<1>4. UNCHANGED <<row, stageOf, master, working, early, attempts>>
  BY DEF Report, db, memory
<1>5. CASE ~Registered(job[t])
  <2>1. Becomes(t, "idle", j, q, "idle")
    BY <1>1, <1>5 DEF Becomes, Report, Goto, Stands, Places, Goals
  <2>2. WorkOf("idle", j, q, "idle")
    BY DEF WorkOf, Repeating
  <2>3. UNCHANGED <<stages, wf>>
    BY <1>5 DEF Report, memory
  <2>. QED  BY <1>2, <1>4, <2>1, <2>2, <2>3, Quiet DEF Shared
<1>6. CASE Registered(job[t])
  <2>1. stages' = SetStage(j, h)
    BY <1>1, <1>6 DEF Report, Stands
  <2>2. h \in Statuses
    BY <1>3 DEF Statuses, Ended
  <2>3. stages' \in Seq(StageJob) /\ \A i \in 1..Len(stages') : Entry(stages'[i])
    BY <1>3, <2>1, <2>2, SetStageKeeps
  <2>4. PICK n \in {"completing", "failing", "idle"} :
            /\ pc' = [pc EXCEPT ![t] = n]
            /\ wf' \in {wf, "canceled"}
    <3>1. CASE h = "completed"
      BY <1>1, <1>6, <3>1 DEF Report, Goto, Stands
    <3>2. CASE h = "failed"
      BY <1>1, <1>6, <3>2 DEF Report, Goto, Stands
    <3>3. CASE h = "canceled"
      BY <1>1, <1>6, <3>3 DEF Report, Goto, Stands
    <3>. QED  BY <1>3, <3>1, <3>2, <3>3 DEF Ended
  <2>5. Becomes(t, n, j, q, "idle")
    BY <1>1, <2>4 DEF Becomes, Report, Stands, Places, Goals
  <2>6. WorkOf(n, j, q, "idle")'
    BY <1>3, <1>4, <2>4 DEF WorkOf, Repeating, Born
  <2>7. wf' \in {"none", "running", "paused"} \cup Ended /\ (wf' = "completed" => wf = "completed")
    BY <1>2, <2>4 DEF Shared, Ended
  <2>. QED  BY <1>2, <1>4, <2>3, <2>5, <2>6, <2>7, Relist DEF Shared
<1>. QED  BY <1>5, <1>6

LEMMA StepResetLater ==
    ASSUME WInv, NEW t \in Tasks, ResetLater(t)
    PROVE  WInv'
<1>1. PICK p \in Places, j \in Jobs, q \in Seq(Items), h \in Goals : Stands(t, p, j, q, h)
  BY Here
<1>2. Shared
  BY TypesOf DEF WInv
<1>3. p = "resetting"
  BY <1>1 DEF ResetLater, Stands
<1>4. \E hit : stages' = [i \in DOMAIN stages |->
                    IF i \in hit THEN [stages[i] EXCEPT !.status = "canceled"] ELSE stages[i]]
  BY DEF ResetLater
<1>5. PICK hit : stages' = [i \in DOMAIN stages |->
                    IF i \in hit THEN [stages[i] EXCEPT !.status = "canceled"] ELSE stages[i]]
  BY <1>4
<1>6. PICK f : f = [i \in DOMAIN stages |->
                    IF i \in hit THEN [stages[i] EXCEPT !.status = "canceled"] ELSE stages[i]]
  OBVIOUS
<1>7. ASSUME NEW i \in DOMAIN stages
      PROVE  f[i] \in StageJob /\ Entry(f[i])
  <2>1. stages[i] \in StageJob /\ Entry(stages[i])
    BY ListedJob
  <2>2. CASE i \in hit
    <3>1. f[i] = [stages[i] EXCEPT !.status = "canceled"]
      BY <1>6, <2>2
    <3>. QED  BY <2>1, <3>1 DEF StageJob, Entry
  <2>3. CASE i \notin hit
    BY <1>6, <2>1, <2>3
  <2>. QED  BY <2>2, <2>3
<1>8. f \in [DOMAIN stages -> StageJob]
  BY <1>6, <1>7
<1>9. f \in Seq(StageJob) /\ \A i \in 1..Len(f) : Entry(f[i])
  BY <1>7, <1>8, Relisted
<1>10. stages' \in Seq(StageJob) /\ \A i \in 1..Len(stages') : Entry(stages'[i])
  BY <1>5, <1>6, <1>9
<1>11. UNCHANGED <<row, stageOf, master, working, early, attempts, wf>>
  BY DEF ResetLater, db
<1>12. WorkOf("queueing", j, q, h)
  BY <1>1, <1>3 DEF Stands, WorkOf, Repeating
<1>13. Kept
  BY <1>2, <1>11 DEF Kept, Shared, Born
<1>14. WorkOf("queueing", j, q, h)'
  BY <1>12, <1>13, WorkKept
<1>15. Becomes(t, "queueing", j, q, h)
  BY <1>1 DEF Becomes, ResetLater, Goto, Stands, Places
<1>. QED  BY <1>2, <1>10, <1>11, <1>14, <1>15, Relist DEF Shared

\* A job added to the end of a list.
LEMMA Listing ==
    ASSUME NEW s \in Seq(StageJob), \A i \in 1..Len(s) : Entry(s[i]),
           NEW e \in StageJob, Entry(e)
    PROVE  /\ Append(s, e) \in Seq(StageJob)
           /\ \A i \in 1..Len(Append(s, e)) : Entry(Append(s, e)[i])
<1>1. /\ Append(s, e) \in Seq(StageJob) /\ Len(Append(s, e)) = Len(s) + 1
      /\ \A i \in 1..Len(s) : Append(s, e)[i] = s[i]
      /\ Append(s, e)[Len(s) + 1] = e
  BY AppendProperties
<1>2. Len(s) \in Nat
  BY LenProperties
<1>3. ASSUME NEW i \in 1..Len(Append(s, e))
      PROVE  Entry(Append(s, e)[i])
  <2>1. CASE i \in 1..Len(s)
    <3>1. Append(s, e)[i] = s[i]
      BY <1>1, <2>1
    <3>. QED  BY <2>1, <3>1
  <2>2. CASE i = Len(s) + 1
    BY <1>1, <2>2
  <2>. QED  BY <1>1, <1>2, <2>1, <2>2
<1>. QED  BY <1>1, <1>3

LEMMA StepSupersede ==
    ASSUME WInv, NEW t \in Tasks, Supersede(t)
    PROVE  WInv'
<1>1. PICK p \in Places, j \in Jobs, q \in Seq(Items), h \in Goals : Stands(t, p, j, q, h)
  BY Here
<1>2. Shared
  BY TypesOf DEF WInv
<1>3. /\ p = "replacing" /\ Born(j) /\ q # <<>>
      /\ q[1] \in Jobs /\ Born(q[1]) /\ stageOf[q[1]] = stageOf[j]
  BY <1>1 DEF Supersede, Stands, WorkOf
<1>4. PICK s, e, l : s = SetStage(j, "canceled") /\ l = Tail(q)
                     /\ e = NewStageJob(Head(q), stageOf[j], "display")
  OBVIOUS
<1>5. /\ l \in Seq(Items) /\ Head(q) = q[1] /\ Len(q) \in Nat \ {0}
      /\ \A i \in 1..Len(l) : i + 1 \in 1..Len(q) /\ l[i] = q[i + 1]
      /\ Len(q) # 1 => l # <<>>
  BY <1>3, <1>4, Rest
<1>6. s \in Seq(StageJob) /\ \A i \in 1..Len(s) : Entry(s[i])
  BY <1>4, SetStageKeeps DEF Statuses
<1>7. e \in StageJob /\ Entry(e)
  <2>1. stageOf[j] \in Stages
    BY <1>2 DEF Shared
  <2>2. e = [id |-> q[1], stage |-> stageOf[j], name |-> "display", status |-> "queued"]
    BY <1>4, <1>5 DEF NewStageJob
  <2>. QED  BY <1>3, <2>1, <2>2 DEF StageJob, Entry
<1>8. stages' = Append(s, e)
  BY <1>1, <1>4 DEF Supersede, Stands
<1>9. stages' \in Seq(StageJob) /\ \A i \in 1..Len(stages') : Entry(stages'[i])
  BY <1>6, <1>7, <1>8, Listing
<1>10. UNCHANGED <<row, stageOf, master, working, early, attempts, wf>>
  BY DEF Supersede, db
<1>11. PICK n \in {"idle", "rerun"} :
           pc' = [pc EXCEPT ![t] = n] /\ (n = "rerun" => h = "none" /\ Len(q) > 1)
  BY <1>1 DEF Supersede, Goto, Stands
<1>12. n = "rerun" => l # <<>> /\ \A i \in 1..Len(l) : l[i] \in Jobs /\ Born(l[i])
  <2>1. ASSUME n = "rerun"
        PROVE  l # <<>> /\ \A i \in 1..Len(q) : q[i] \in Jobs /\ Born(q[i])
    <3>1. h = "none" /\ Len(q) # 1
      BY <1>5, <1>11, <2>1
    <3>. QED  BY <1>1, <1>3, <1>5, <3>1 DEF Stands, WorkOf, Repeating
  <2>. QED  BY <1>5, <2>1
<1>13. WorkOf(n, j, l, h)
  BY <1>11, <1>12 DEF WorkOf, Repeating
<1>14. Kept
  BY <1>2, <1>10 DEF Kept, Shared, Born
<1>15. WorkOf(n, j, l, h)'
  BY <1>5, <1>13, <1>14, WorkKept
<1>16. Becomes(t, n, j, l, h)
  BY <1>1, <1>4, <1>5, <1>11 DEF Becomes, Supersede, Stands, Places
<1>. QED  BY <1>2, <1>9, <1>10, <1>15, <1>16, Relist DEF Shared
--------------------------------------------------------------------------------
(* Steps that change rows. *)

\* A new row: its stage was due, and nothing that was known changes.
LEMMA Inserted ==
    ASSUME WInv, NEW s \in Stages, InsertRow(s), s > 1 => Done(s - 1),
           UNCHANGED <<working, early>>
    PROVE  \E k \in Jobs :
              /\ k = FreeJob /\ row'[k] = "queued" /\ stageOf'[k] = s
              /\ Kept /\ Hands' /\ master' = master
              /\ \A j \in Jobs : row[j] = "none" => Due(j)'
              /\ row' \in [Jobs -> {"none"} \cup Active \cup Ended]
              /\ stageOf' \in [Jobs -> Stages]
<1>1. Shared
  BY TypesOf DEF WInv
<1>2. PICK k \in Jobs : k = FreeJob /\ row[k] = "none"
  BY Free DEF InsertRow
<1>3. /\ row' = [row EXCEPT ![k] = "queued"] /\ stageOf' = [stageOf EXCEPT ![k] = s]
      /\ master' = master
  BY <1>2 DEF InsertRow
<1>4. /\ row' \in [Jobs -> {"none"} \cup Active \cup Ended] /\ stageOf' \in [Jobs -> Stages]
      /\ row'[k] = "queued" /\ stageOf'[k] = s
      /\ \A j \in Jobs : j # k => row'[j] = row[j] /\ stageOf'[j] = stageOf[j]
  BY <1>1, <1>3 DEF Shared, Active
<1>5. Kept
  BY <1>1, <1>2, <1>4 DEF Kept, Born, Shared
<1>6. Hands'
  BY <1>1, <1>2, <1>4 DEF WInv, Hands, Shared
<1>7. ASSUME NEW j \in Jobs, row[j] = "none"
      PROVE  Due(j)'
  <2>1. CASE j = k
    <3>1. s > 1 => Done(s - 1)'
      BY <1>5, DoneKept
    <3>. QED  BY <2>1, <3>1, <1>4 DEF Due
  <2>2. CASE j # k
    BY <2>2, <1>4, <1>7 DEF Due, Born
  <2>. QED  BY <2>1, <2>2
<1>. QED  BY <1>2, <1>3, <1>4, <1>5, <1>6, <1>7

\* The list of the workflow, looked at after the step: those listed before, and more.
LEMMA Longer ==
    ASSUME WInv, Kept, NEW m \in Seq(StageJob), \A i \in 1..Len(m) : Entry(m[i])',
           NEW g, g = stages \o m
    PROVE  g \in Seq(StageJob) /\ \A i \in 1..Len(g) : Entry(g[i])'
<1>1. stages \in Seq(StageJob) /\ Listed
  BY DEF WInv, Types, TypeOK
<1>2. PICK l : l = stages
  OBVIOUS
<1>3. ASSUME NEW i \in 1..Len(l)
      PROVE  Entry(l[i])'
  <2>1. l[i] \in StageJob /\ Entry(l[i])
    BY <1>1, <1>2, ElementOfSeq DEF Listed
  <2>. QED  BY <2>1, EntryKept
<1>4. g = l \o m
  BY <1>2
<1>5. /\ g \in Seq(StageJob) /\ Len(g) = Len(l) + Len(m)
      /\ \A i \in 1..Len(l) : g[i] = l[i]
      /\ \A i \in (Len(l) + 1)..(Len(l) + Len(m)) : g[i] = m[i - Len(l)]
      /\ Len(l) \in Nat /\ Len(m) \in Nat
  BY <1>1, <1>2, <1>4, ConcatProperties, LenProperties
<1>6. ASSUME NEW i \in 1..Len(g)
      PROVE  Entry(g[i])'
  <2>1. CASE i \in 1..Len(l)
    <3>1. g[i] = l[i]
      BY <2>1, <1>5
    <3>. QED  BY <3>1, <2>1, <1>3
  <2>2. CASE i \notin 1..Len(l)
    <3>1. i \in (Len(l) + 1)..(Len(l) + Len(m)) /\ i - Len(l) \in 1..Len(m)
      BY <2>2, <1>5
    <3>2. g[i] = m[i - Len(l)]
      BY <3>1, <1>5
    <3>. QED  BY <3>1, <3>2
  <2>. QED  BY <2>1, <2>2
<1>. QED  BY <1>5, <1>6

\* One job more in the list.
LEMMA OneMore ==
    ASSUME WInv, Kept, NEW e \in StageJob, Entry(e)', stages' = Append(stages, e)
    PROVE  stages' \in Seq(StageJob) /\ Listed'
<1>1. stages \in Seq(StageJob)
  BY DEF WInv, Types, TypeOK
<1>2. PICK m : m = <<e>>
  OBVIOUS
<1>3. m \in Seq(StageJob) /\ Len(m) = 1 /\ m[1] = e
  BY <1>2
<1>4. \A i \in 1..Len(m) : Entry(m[i])'
  <2>1. ASSUME NEW i \in 1..Len(m)
        PROVE  Entry(m[i])'
    <3>1. i = 1
      BY <1>3
    <3>. QED  BY <3>1, <1>3
  <2>. QED  BY <2>1
<1>5. stages' = stages \o m
  BY <1>1, <1>2, AppendIsConcat
<1>6. PICK g : g = stages \o m
  OBVIOUS
<1>7. g \in Seq(StageJob) /\ \A i \in 1..Len(g) : Entry(g[i])'
  BY <1>3, <1>4, <1>6, Longer
<1>8. stages' = g
  BY <1>5, <1>6
<1>. QED  BY <1>7, <1>8, Zenon DEF Listed, Entry, Born

LEMMA StepStart ==
    ASSUME WInv, Start
    PROVE  WInv'
<1>1. Shared /\ Work
  BY TypesOf DEF WInv
<1>2. /\ wf' = "running" /\ UNCHANGED tasks
      /\ working' = working /\ early' = early /\ attempts' = attempts
  BY DEF Start
<1>3. InsertRow(1) /\ 1 \in Stages
  BY Finite DEF Start
<1>4. PICK k \in Jobs :
          /\ k = FreeJob /\ row'[k] = "queued" /\ stageOf'[k] = 1
          /\ Kept /\ Hands' /\ master' = master
          /\ \A j \in Jobs : row[j] = "none" => Due(j)'
          /\ row' \in [Jobs -> {"none"} \cup Active \cup Ended]
          /\ stageOf' \in [Jobs -> Stages]
  BY <1>2, <1>3, Inserted
<1>5. PICK e : e = NewStageJob(k, 1, "definition")
  OBVIOUS
<1>6. e = [id |-> k, stage |-> 1, name |-> "definition", status |-> "queued"]
  BY <1>5 DEF NewStageJob
<1>7. e \in StageJob /\ Entry(e)'
  <2>1. e \in StageJob
    BY <1>3, <1>6 DEF StageJob
  <2>2. e.id = k /\ e.stage = 1 /\ e.status = "queued"
    BY <1>6
  <2>. QED  BY <2>1, <2>2, <1>4 DEF Entry, Born
<1>8. stages' = <<e>>
  BY <1>4, <1>5 DEF Start
<1>9. stages' \in Seq(StageJob) /\ Len(stages') = 1 /\ stages'[1] = e
  BY <1>7, <1>8
<1>10. Listed'
  <2>1. ASSUME NEW i \in 1..1
        PROVE  Entry(e)' /\ i = 1
    BY <1>7
  <2>. QED  BY <1>9, <2>1 DEF Listed, Entry, Born
<1>11. Shared'
  BY <1>1, <1>2, <1>4, <1>9 DEF Shared
<1>12. wf' # "completed"
  BY <1>2
<1>. QED  BY <1>2, <1>4, <1>10, <1>11, <1>12, Still, Zenon

LEMMA StepCreateStage ==
    ASSUME WInv, NEW t \in Tasks, CreateStage(t)
    PROVE  WInv'
<1>1. PICK p \in Places, j \in Jobs, q \in Seq(Items), h \in Goals : Stands(t, p, j, q, h)
  BY Here
<1>2. Shared
  BY TypesOf DEF WInv
<1>3. /\ p = "creating" /\ q # <<>>
      /\ \A i \in 1..Len(q) : q[i] \in Stages /\ (q[i] > 1 => Done(q[i] - 1))
  BY <1>1 DEF CreateStage, Stands, WorkOf
<1>4. PICK s, l : s = Head(q) /\ l = Tail(q)
  OBVIOUS
<1>5. /\ l \in Seq(Items) /\ (Len(q) # 1 => l # <<>>) /\ s = q[1] /\ 1 \in 1..Len(q)
      /\ \A i \in 1..Len(l) : i + 1 \in 1..Len(q) /\ l[i] = q[i + 1]
  BY <1>3, <1>4, Rest
<1>6. s \in Stages /\ (s > 1 => Done(s - 1))
  BY <1>3, <1>5
<1>7. /\ InsertRow(s) /\ stages' = Append(stages, NewStageJob(FreeJob, s, "definition"))
      /\ UNCHANGED <<wf, attempts, working, early>>
  BY <1>1, <1>4 DEF CreateStage, Stands
<1>8. PICK k \in Jobs :
          /\ k = FreeJob /\ row'[k] = "queued" /\ stageOf'[k] = s
          /\ Kept /\ Hands' /\ master' = master
          /\ \A i \in Jobs : row[i] = "none" => Due(i)'
          /\ row' \in [Jobs -> {"none"} \cup Active \cup Ended]
          /\ stageOf' \in [Jobs -> Stages]
  BY <1>6, <1>7, Inserted
<1>9. PICK e : e = [id |-> k, stage |-> s, name |-> "definition", status |-> "queued"]
  OBVIOUS
<1>10. e \in StageJob /\ Entry(e)'
  <2>1. e \in StageJob
    BY <1>6, <1>9 DEF StageJob
  <2>2. e.id = k /\ e.stage = s /\ e.status = "queued"
    BY <1>9
  <2>. QED  BY <2>1, <2>2, <1>8 DEF Entry, Born
<1>11. stages' = Append(stages, e)
  BY <1>7, <1>8, <1>9 DEF NewStageJob
<1>12. stages' \in Seq(StageJob) /\ Listed'
  BY <1>8, <1>10, <1>11, OneMore
<1>13. Shared'
  BY <1>2, <1>7, <1>8, <1>12 DEF Shared
<1>14. PICK n \in {"idle", "creating"} :
          pc' = [pc EXCEPT ![t] = n] /\ (n = "creating" => Len(q) # 1)
  BY <1>1 DEF CreateStage, Goto, Stands
<1>15. WorkOf(n, j, l, h)
  BY <1>3, <1>5, <1>14 DEF WorkOf, Repeating
<1>16. WorkOf(n, j, l, h)'
  BY <1>5, <1>8, <1>15, WorkKept
<1>17. Becomes(t, n, j, l, h)
  BY <1>1, <1>4, <1>5, <1>14 DEF Becomes, CreateStage, Stands, Places
<1>18. wf' = wf
  BY <1>7
<1>. QED  BY <1>8, <1>12, <1>13, <1>16, <1>17, <1>18, Moves, Zenon

LEMMA StepQueueRetry ==
    ASSUME WInv, NEW t \in Tasks, QueueRetry(t)
    PROVE  WInv'
<1>1. PICK p \in Places, j \in Jobs, q \in Seq(Items), h \in Goals : Stands(t, p, j, q, h)
  BY Here
<1>2. Shared
  BY TypesOf DEF WInv
<1>3. p = "queueing" /\ Born(j)
  BY <1>1 DEF QueueRetry, Stands, WorkOf
<1>4. PICK s : s = stageOf[j]
  OBVIOUS
<1>5. s \in Stages /\ (s > 1 => Done(s - 1))
  BY <1>2, <1>3, <1>4 DEF Shared, WInv, StagesInOrder, Born
<1>6. InsertRow(s) /\ UNCHANGED <<wf, stages, attempts, working, early>>
  BY <1>1, <1>4 DEF QueueRetry, Stands, memory
<1>7. PICK k \in Jobs :
          /\ k = FreeJob /\ row'[k] = "queued" /\ stageOf'[k] = s
          /\ Kept /\ Hands' /\ master' = master
          /\ \A i \in Jobs : row[i] = "none" => Due(i)'
          /\ row' \in [Jobs -> {"none"} \cup Active \cup Ended]
          /\ stageOf' \in [Jobs -> Stages]
  BY <1>5, <1>6, Inserted
<1>8. PICK l : l = <<k>> \o q
  OBVIOUS
<1>9. /\ l \in Seq(Items) /\ l # <<>> /\ l[1] = k
      /\ \A i \in 1..Len(l) : i = 1 \/ (i - 1 \in 1..Len(q) /\ l[i] = q[i - 1])
  <2>1. PICK m : m = <<k>>
    OBVIOUS
  <2>2. m \in Seq(Items) /\ Len(m) = 1 /\ m[1] = k
    BY <2>1 DEF Items
  <2>3. l = m \o q
    BY <1>8, <2>1
  <2>4. /\ l \in Seq(Items) /\ Len(l) = Len(m) + Len(q)
        /\ \A i \in 1..Len(m) : l[i] = m[i]
        /\ \A i \in (Len(m) + 1)..(Len(m) + Len(q)) : l[i] = q[i - Len(m)]
    BY <2>2, <2>3, ConcatProperties
  <2>5. Len(q) \in Nat
    BY LenProperties
  <2>6. Len(l) # 0
    BY <2>2, <2>4, <2>5
  <2>7. l[1] = k
    BY <2>2, <2>4
  <2>8. ASSUME NEW i \in 1..Len(l), i # 1
        PROVE  i - 1 \in 1..Len(q) /\ l[i] = q[i - 1]
    BY <2>2, <2>4, <2>5, <2>8
  <2>. QED  BY <2>4, <2>6, <2>7, <2>8, EmptySeq
<1>10. Kept /\ Born(k)' /\ stageOf'[j] = s /\ Born(j)'
  BY <1>3, <1>4, <1>7 DEF Kept, Born
<1>11. ASSUME h = "none", NEW i \in 1..Len(l)
       PROVE  l[i] \in Jobs /\ Born(l[i])'
  <2>1. \A x \in 1..Len(q) : q[x] \in Jobs /\ Born(q[x])
    BY <1>1, <1>3, <1>11 DEF Stands, WorkOf, Repeating
  <2>2. \A x \in 1..Len(q) : q[x] \in Jobs /\ Born(q[x])'
    BY <2>1, <1>10 DEF Kept, Born
  <2>. QED  BY <2>2, <1>9, <1>10
<1>12. WorkOf("replacing", j, l, h)'
  BY <1>7, <1>9, <1>10, <1>11 DEF WorkOf, Repeating
<1>13. Becomes(t, "replacing", j, l, h)
  <2>1. pend' = [pend EXCEPT ![t] = l]
    BY <1>1, <1>7, <1>8 DEF QueueRetry, Stands
  <2>. QED  BY <1>1, <1>9, <2>1 DEF Becomes, QueueRetry, Goto, Stands, Places
<1>14. Shared'
  BY <1>2, <1>6, <1>7 DEF Shared
<1>15. Listed'
  <2>1. PICK l0 : l0 = stages
    OBVIOUS
  <2>2. l0 \in Seq(StageJob) /\ \A i \in 1..Len(l0) : Entry(l0[i])
    BY <1>2, <2>1 DEF WInv, Listed, Shared
  <2>3. \A i \in 1..Len(l0) : Entry(l0[i])'
    BY <2>2, <1>7, EntryKept, ElementOfSeq
  <2>4. l0 = stages'
    BY <2>1, <1>6
  <2>. QED  BY <2>3, <2>4, Zenon DEF Listed, Entry, Born
<1>16. wf' = wf
  BY <1>6
<1>. QED  BY <1>7, <1>12, <1>13, <1>14, <1>15, <1>16, Moves, Zenon

\* One row that is there and has not completed gets another status.
LEMMA Updated ==
    ASSUME WInv, NEW k \in Jobs, NEW st \in Active \cup Ended, Born(k), row[k] # "completed",
           UNCHANGED <<stages, stageOf, early>>, row' = [row EXCEPT ![k] = st]
    PROVE  /\ Kept /\ Listed' /\ row'[k] = st
           /\ row' \in [Jobs -> {"none"} \cup Active \cup Ended]
           /\ \A j \in Jobs : row[j] = "none" => Due(j)'
           /\ \A j \in Jobs : j # k => row'[j] = row[j]
<1>1. Shared
  BY TypesOf DEF WInv
<1>2. /\ row' \in [Jobs -> {"none"} \cup Active \cup Ended] /\ row'[k] = st /\ st # "none"
      /\ \A j \in Jobs : j # k => row'[j] = row[j]
  BY <1>1 DEF Shared, Active, Ended
<1>3. Kept
  BY <1>1, <1>2 DEF Kept, Born, Shared
<1>4. \A j \in Jobs : row[j] = "none" => Due(j)'
  BY <1>2 DEF Due, Born
<1>5. Listed'
  <2>1. PICK l : l = stages
    OBVIOUS
  <2>2. l \in Seq(StageJob) /\ \A i \in 1..Len(l) : Entry(l[i])
    BY <1>1, <2>1 DEF WInv, Listed, Shared
  <2>3. \A i \in 1..Len(l) : Entry(l[i])'
    BY <2>2, <1>3, EntryKept, ElementOfSeq
  <2>4. l = stages'
    BY <2>1
  <2>. QED  BY <2>3, <2>4, Zenon DEF Listed, Entry, Born
<1>. QED  BY <1>2, <1>3, <1>4, <1>5

LEMMA StepRunJob ==
    ASSUME WInv, NEW j \in Jobs, RunJob(j)
    PROVE  WInv'
<1>1. Shared /\ Hands
  BY TypesOf DEF WInv
<1>2. /\ row[j] = "queued" /\ row' = [row EXCEPT ![j] = "running"]
      /\ working' = working \cup {j}
      /\ UNCHANGED <<wf, stages, attempts, stageOf, master, early, tasks>>
  BY DEF RunJob, memory
<1>3. /\ Kept /\ Listed' /\ row'[j] = "running"
      /\ row' \in [Jobs -> {"none"} \cup Active \cup Ended]
      /\ \A i \in Jobs : row[i] = "none" => Due(i)'
      /\ \A i \in Jobs : i # j => row'[i] = row[i]
  BY <1>2, Updated DEF Active, Born
<1>4. Hands'
  BY <1>1, <1>2, <1>3 DEF Hands, Shared
<1>5. Shared'
  BY <1>1, <1>2, <1>3 DEF Shared
<1>6. wf' = wf /\ master' = master /\ UNCHANGED tasks
  BY <1>2
<1>. QED  BY <1>3, <1>4, <1>5, <1>6, Still, Zenon

LEMMA StepEndJob ==
    ASSUME WInv, NEW t \in Tasks, NEW k \in Jobs, NEW o \in Ended, EndJob(t, k, o)
    PROVE  WInv'
<1>1. PICK p \in Places, j \in Jobs, q \in Seq(Items), h \in Goals : Stands(t, p, j, q, h)
  BY Here
<1>2. Shared /\ Hands
  BY TypesOf DEF WInv
<1>3. /\ k \in working /\ row' = [row EXCEPT ![k] = o] /\ working' = working \ {k}
      /\ UNCHANGED <<wf, stages, attempts, stageOf, master, early>>
  BY DEF EndJob, memory
<1>4. row[k] \notin {"none", "completed"}
  BY <1>2, <1>3 DEF Hands
<1>5. /\ Kept /\ Listed' /\ row'[k] = o
      /\ row' \in [Jobs -> {"none"} \cup Active \cup Ended]
      /\ \A i \in Jobs : row[i] = "none" => Due(i)'
      /\ \A i \in Jobs : i # k => row'[i] = row[i]
  BY <1>3, <1>4, Updated DEF Born
<1>6. Hands'
  BY <1>2, <1>3, <1>5 DEF Hands, Shared
<1>7. Shared'
  BY <1>2, <1>3, <1>5 DEF Shared
<1>8. o \in Goals /\ o # "none"
  BY DEF Goals, Ended
<1>9. WorkOf("report", k, q, o)'
  BY <1>5, <1>8 DEF WorkOf, Repeating, Born, Ended
<1>10. Becomes(t, "report", k, q, o)
  BY <1>1, <1>8 DEF Becomes, EndJob, Goto, Stands, Places
<1>11. wf' = wf /\ master' = master
  BY <1>3
<1>. QED  BY <1>5, <1>6, <1>7, <1>9, <1>10, <1>11, Moves, Zenon

LEMMA StepCancelJob ==
    ASSUME WInv, NEW t \in Tasks, CancelJob(t)
    PROVE  WInv'
<1>1. PICK p \in Places, j \in Jobs, q \in Seq(Items), h \in Goals : Stands(t, p, j, q, h)
  BY Here
<1>2. Shared /\ Hands
  BY TypesOf DEF WInv
<1>3. p = "canceling" /\ \A i \in 1..Len(q) : q[i] \in Jobs
  BY <1>1 DEF CancelJob, Stands, WorkOf
<1>4. UNCHANGED <<wf, stages, attempts, stageOf, master, working, early>>
  BY DEF CancelJob, memory
<1>5. CASE q = <<>>
  <2>1. UNCHANGED row /\ pc' = [pc EXCEPT ![t] = "cancelState"] /\ pend' = pend
    BY <1>1, <1>5 DEF CancelJob, Goto, Stands
  <2>2. WorkOf("cancelState", j, q, h)
    BY DEF WorkOf, Repeating
  <2>3. Becomes(t, "cancelState", j, q, h)
    BY <1>1, <2>1 DEF Becomes, CancelJob, Stands, Places
  <2>. QED  BY <1>2, <1>4, <2>1, <2>2, <2>3, Quiet DEF Shared
<1>6. CASE q # <<>>
  <2>1. PICK k, l : k = Head(q) /\ l = Tail(q)
    OBVIOUS
  <2>2. /\ l \in Seq(Items) /\ k = q[1] /\ 1 \in 1..Len(q)
        /\ \A i \in 1..Len(l) : i + 1 \in 1..Len(q) /\ l[i] = q[i + 1]
    BY <1>6, <2>1, Rest
  <2>3. k \in Jobs /\ \A i \in 1..Len(l) : l[i] \in Jobs
    BY <1>3, <2>2
  <2>4. WorkOf("canceling", j, l, h)
    BY <2>3 DEF WorkOf, Repeating
  <2>5. pc' = pc /\ pend' = [pend EXCEPT ![t] = l] /\ job' = job /\ then' = then
    BY <1>1, <1>6, <2>1 DEF CancelJob, Stands
  <2>6. pc = [pc EXCEPT ![t] = "canceling"]
    <3>1. pc \in [Tasks -> Places] /\ pc[t] = "canceling"
      BY <1>1, <1>3 DEF WInv, Types, TypeOK, Stands
    <3>. QED  BY <3>1
  <2>7. Becomes(t, "canceling", j, l, h)
    BY <1>1, <2>2, <2>5, <2>6 DEF Becomes, Stands, Places
  <2>8. row' = [row EXCEPT ![k] = IF row[k] \in Active THEN "canceled" ELSE row[k]]
    BY <1>1, <1>6, <2>1 DEF CancelJob, Stands
  <2>9. CASE row[k] \in Active
    <3>1. row' = [row EXCEPT ![k] = "canceled"] /\ Born(k) /\ row[k] # "completed"
      BY <2>8, <2>9 DEF Active, Born
    <3>2. /\ Kept /\ Listed' /\ row'[k] = "canceled"
          /\ row' \in [Jobs -> {"none"} \cup Active \cup Ended]
          /\ \A i \in Jobs : row[i] = "none" => Due(i)'
          /\ \A i \in Jobs : i # k => row'[i] = row[i]
      BY <1>4, <2>3, <3>1, Updated DEF Ended
    <3>3. Hands'
      BY <1>2, <1>4, <3>2 DEF Hands, Shared
    <3>4. Shared'
      BY <1>2, <1>4, <3>2 DEF Shared
    <3>5. WorkOf("canceling", j, l, h)'
      BY <2>2, <2>4, <3>2, WorkKept
    <3>6. wf' = wf /\ master' = master
      BY <1>4
    <3>. QED  BY <2>7, <3>2, <3>3, <3>4, <3>5, <3>6, Moves, Zenon
  <2>10. CASE row[k] \notin Active
    <3>1. row' = row
      BY <1>2, <2>8, <2>10 DEF Shared
    <3>. QED  BY <1>2, <1>4, <2>4, <2>7, <3>1, Quiet DEF Shared
  <2>. QED  BY <2>9, <2>10
<1>. QED  BY <1>5, <1>6

\* A query adds to the list jobs that have a row, of the stage that row says.
LEMMA RecoverAdds ==
    ASSUME WInv, NEW t \in Tasks, Recover(t)
    PROVE  \E f \in Seq(StageJob) : stages' = stages \o f /\ \A i \in 1..Len(f) : Entry(f[i])
<1>1. PICK p \in Places, j \in Jobs, q \in Seq(Items), h \in Goals : Stands(t, p, j, q, h)
  BY Here
<1>2. Shared
  BY TypesOf DEF WInv
<1>3. /\ p = "recovering" /\ h = "none"
      /\ \A i \in 1..Len(q) : q[i] \in Finding /\ Born(q[i].id)
                                /\ (q[i].status = "completed" => row[q[i].id] = "completed")
  BY <1>1 DEF Recover, Stands, WorkOf
<1>. DEFINE Found(i) == pend[t][i]
            Added(r) == [NewStageJob(r.id, stageOf[r.id], "definition") EXCEPT !.status = r.status]
<1>4. PICK lost : lost = {i \in DOMAIN pend[t] : ~Registered(Found(i).id)}
  OBVIOUS
<1>5. /\ \E a \in Ascending(lost) : stages' = stages \o [i \in DOMAIN a |-> Added(Found(a[i]))]
      /\ \E b \in Ascending({i \in DOMAIN stages' : stages'[i].status = "completed"}) :
            pend' = [pend EXCEPT ![t] = IF lost = {} THEN <<>>
                                        ELSE [i \in DOMAIN b |-> stages'[b[i]].id]]
      /\ Goto(t, IF lost = {} \/ {i \in DOMAIN stages' : stages'[i].status = "completed"} = {}
                 THEN "idle" ELSE "rerun")
  BY <1>4, Zenon DEF Recover
<1>6. PICK a \in Ascending(lost) : stages' = stages \o [i \in DOMAIN a |-> Added(Found(a[i]))]
  BY <1>5
<1>7. PICK f : f = [i \in DOMAIN a |-> Added(Found(a[i]))] /\ stages' = stages \o f
  BY <1>6
<1>8. \A i \in DOMAIN a : f[i] = Added(Found(a[i]))
  BY <1>7
<1>9. /\ Len(a) \in Nat /\ DOMAIN a = 1..Len(a) /\ \A i \in 1..Len(a) : a[i] \in 1..Len(q)
  <2>1. DOMAIN q = 1..Len(q) /\ 1 \in Int /\ Len(q) \in Int /\ lost \subseteq DOMAIN q
    BY <1>1, <1>4, LenProperties DEF Stands
  <2>2. IsFiniteSet(lost)
    BY <2>1, FS_Interval, FS_Subset
  <2>3. a \in Seq(lost) /\ DOMAIN a = 1..Len(a) /\ \A i \in 1..Len(a) : a[i] \in lost
    BY <1>6, <2>2, Ordered
  <2>. QED  BY <2>1, <2>3, LenProperties
<1>11. ASSUME NEW i \in 1..Len(a)
      PROVE  f[i] \in StageJob /\ Entry(f[i])
  <2>1. PICK r : r = q[a[i]]
    OBVIOUS
  <2>2. r \in Finding /\ Born(r.id) /\ (r.status = "completed" => row[r.id] = "completed")
    BY <1>3, <1>9, <2>1
  <2>3. r.id \in Jobs /\ r.status \in Active \cup Ended /\ stageOf[r.id] \in Stages
    BY <1>2, <2>2 DEF Finding, Shared
  <2>4. f[i] = [id |-> r.id, stage |-> stageOf[r.id], name |-> "definition", status |-> r.status]
    <3>1. i \in DOMAIN a /\ Found(a[i]) = r
      BY <1>1, <1>9, <2>1 DEF Stands
    <3>2. f[i] = Added(r)
      <4> HIDE DEF Found, Added
      <4>. QED  BY <3>1, <1>8
    <3>. QED  BY <3>2 DEF NewStageJob
  <2>5. f[i] \in StageJob
    BY <2>3, <2>4 DEF StageJob, Active, Ended
  <2>6. f[i].id = r.id /\ f[i].stage = stageOf[r.id] /\ f[i].status = r.status
    BY <2>4
  <2>. QED  BY <2>2, <2>5, <2>6 DEF Entry
<1>12. f \in Seq(StageJob) /\ Len(f) = Len(a)
  <2>1. DOMAIN f = 1..Len(a)
    BY <1>9, <1>7
  <2>2. f \in [1..Len(a) -> StageJob]
    BY <1>9, <1>11, <1>7, <2>1
  <2>. QED  BY <1>9, <2>2
<1>. QED  BY <1>7, <1>11, <1>12

LEMMA StepRecover ==
    ASSUME WInv, NEW t \in Tasks, Recover(t)
    PROVE  WInv'
<1>1. PICK p \in Places, j \in Jobs, q \in Seq(Items), h \in Goals : Stands(t, p, j, q, h)
  BY Here
<1>2. Shared
  BY TypesOf DEF WInv
<1>3. /\ p = "recovering" /\ h = "none"
      /\ \A i \in 1..Len(q) : q[i] \in Finding /\ Born(q[i].id)
                                /\ (q[i].status = "completed" => row[q[i].id] = "completed")
  BY <1>1 DEF Recover, Stands, WorkOf
<1>4. PICK lost : lost = {i \in DOMAIN pend[t] : ~Registered(pend[t][i].id)}
  OBVIOUS
<1>5. /\ \E b \in Ascending({i \in DOMAIN stages' : stages'[i].status = "completed"}) :
            pend' = [pend EXCEPT ![t] = IF lost = {} THEN <<>>
                                        ELSE [i \in DOMAIN b |-> stages'[b[i]].id]]
      /\ Goto(t, IF lost = {} \/ {i \in DOMAIN stages' : stages'[i].status = "completed"} = {}
                 THEN "idle" ELSE "rerun")
  BY <1>4, Zenon DEF Recover
<1>7. PICK f \in Seq(StageJob) : stages' = stages \o f /\ \A i \in 1..Len(f) : Entry(f[i])
  BY RecoverAdds
<1>10. Kept
  <2>1. UNCHANGED <<row, stageOf, early>>
    BY DEF Recover, db
  <2>. QED  BY <1>2, <2>1 DEF Kept, Shared, Born
<1>13. \A i \in 1..Len(f) : Entry(f[i])'
  <2>1. ASSUME NEW i \in 1..Len(f)
        PROVE  Entry(f[i])'
    <3>1. f[i] \in StageJob /\ Entry(f[i])
      BY <1>7, ElementOfSeq
    <3>. QED  BY <3>1, <1>10, EntryKept
  <2>. QED  BY <2>1
<1>14. PICK g : g = stages \o f
  OBVIOUS
<1>15. g \in Seq(StageJob) /\ (\A i \in 1..Len(g) : Entry(g[i])') /\ stages' = g
  BY <1>10, <1>13, <1>14, <1>7, Longer
<1>16. stages' \in Seq(StageJob) /\ Listed'
  BY <1>15, Zenon DEF Listed, Entry, Born
<1>17. PICK done : done = {i \in DOMAIN stages' : stages'[i].status = "completed"}
  OBVIOUS
<1>18. PICK b \in Ascending(done) :
          pend' = [pend EXCEPT ![t] = IF lost = {} THEN <<>> ELSE [i \in DOMAIN b |-> stages'[b[i]].id]]
  BY <1>5, <1>17
<1>19. PICK l : /\ l = IF lost = {} THEN <<>> ELSE [i \in DOMAIN b |-> stages'[b[i]].id]
                /\ pend' = [pend EXCEPT ![t] = l]
  BY <1>18
<1>20. PICK n \in {"idle", "rerun"} :
          pc' = [pc EXCEPT ![t] = n] /\ (n = "rerun" => lost # {} /\ done # {})
  BY <1>5, <1>17 DEF Goto
<1>21. /\ Len(b) \in Nat /\ DOMAIN b = 1..Len(b) /\ \A i \in 1..Len(b) : b[i] \in 1..Len(g)
       /\ done # {} => Len(b) # 0
  <2>1. DOMAIN g = 1..Len(g) /\ 1 \in Int /\ Len(g) \in Int /\ done \subseteq DOMAIN g
    BY <1>15, <1>17, LenProperties
  <2>2. IsFiniteSet(done)
    BY <2>1, FS_Interval, FS_Subset
  <2>3. /\ b \in Seq(done) /\ DOMAIN b = 1..Len(b) /\ \A i \in 1..Len(b) : b[i] \in done
        /\ done # {} => b # <<>>
    BY <1>18, <2>2, Ordered
  <2>. QED  BY <2>1, <2>3, LenProperties, EmptySeq
<1>22. ASSUME NEW i \in 1..Len(b)
       PROVE  g[b[i]].id \in Jobs /\ Born(g[b[i]].id)'
  <2>1. g[b[i]] \in StageJob /\ Entry(g[b[i]])'
    BY <1>15, <1>21, ElementOfSeq
  <2>. QED  BY <2>1, Zenon DEF StageJob, Entry, Born
<1>23. l \in Seq(Jobs) /\ (\A i \in 1..Len(l) : Born(l[i])') /\ (n = "rerun" => l # <<>>)
  <2>1. CASE lost = {}
    <3>1. l = <<>> /\ n = "idle"
      BY <1>20, <1>19, <2>1
    <3>2. l \in Seq(Jobs) /\ Len(l) = 0
      BY <3>1
    <3>. QED  BY <3>1, <3>2
  <2>2. CASE lost # {}
    <3>1. l = [i \in DOMAIN b |-> stages'[b[i]].id] /\ DOMAIN b = 1..Len(b)
      BY <1>21, <1>19, <2>2
    <3>2. l \in [1..Len(b) -> Jobs] /\ \A i \in 1..Len(b) : l[i] = g[b[i]].id
      BY <3>1, <1>15, <1>22
    <3>3. l \in Seq(Jobs) /\ Len(l) = Len(b)
      BY <1>21, <3>2
    <3>4. \A i \in 1..Len(l) : Born(l[i])'
      <4>1. ASSUME NEW i \in 1..Len(l)
            PROVE  Born(l[i])'
        BY <3>2, <3>3, <1>22
      <4>. QED  BY <4>1
    <3>5. n = "rerun" => l # <<>>
      BY <1>20, <1>21, <3>3, EmptySeq
    <3>. QED  BY <3>3, <3>4, <3>5
  <2>. QED  BY <2>1, <2>2
<1>24. l \in Seq(Items) /\ \A i \in 1..Len(l) : l[i] \in Jobs
  BY <1>23, SeqMonotonic, ElementOfSeq DEF Items
<1>25. WorkOf(n, j, l, h)'
  <2>1. n = "idle" \/ n = "rerun"
    BY <1>20
  <2>. QED  BY <1>3, <1>23, <1>24, <2>1 DEF WorkOf, Repeating
<1>26. Becomes(t, n, j, l, h)
  BY <1>1, <1>20, <1>24, <1>19 DEF Becomes, Recover, Stands, Places
<1>27. UNCHANGED <<row, stageOf, master, working, early, attempts, wf>>
  BY DEF Recover, db
<1>28. \A i \in 1..Len(stages') : Entry(stages'[i])
  BY <1>16, <1>27 DEF Listed, Entry, Born
<1>. QED  BY <1>2, <1>16, <1>25, <1>26, <1>27, <1>28, Relist DEF Shared

\* The process ends: nothing that was in memory is known any more.
LEMMA StepCrash ==
    ASSUME WInv, Crash
    PROVE  WInv'
<1>1. Shared /\ job \in [Tasks -> Jobs]
  BY TypesOf DEF WInv
<1>2. /\ wf' = "none" /\ stages' = <<>> /\ attempts' = [s \in Stages |-> 0] /\ working' = {}
      /\ pc' = [u \in Tasks |-> "idle"] /\ pend' = [u \in Tasks |-> <<>>]
      /\ then' = [u \in Tasks |-> "idle"]
      /\ UNCHANGED <<row, stageOf, master, job, early>>
  BY DEF Crash, db
<1>3. Kept
  BY <1>1, <1>2 DEF Kept, Shared, Born
<1>4. \A i \in Jobs : row[i] = "none" => Due(i)'
  BY <1>2 DEF Due, Born
<1>5. StagesInOrder' /\ CompletedIsComplete'
  BY <1>2, <1>3, <1>4, Rows
<1>6. stages' \in Seq(StageJob) /\ Len(stages') = 0
  BY <1>2
<1>7. attempts' \in [Stages -> 0..MaxAttempts]
  BY <1>2, WorkflowAssumption
<1>8. pend' \in [Tasks -> Seq(Items)]
  BY <1>2
<1>9. Types'
  BY <1>1, <1>2, <1>6, <1>7, <1>8 DEF Shared, Types, TypeOK, Places
<1>10. Listed' /\ Hands'
  BY <1>2, <1>6 DEF Listed, Hands
<1>11. Work'
  BY <1>2 DEF Work, WorkOf, Repeating
<1>. QED  BY <1>5, <1>9, <1>10, <1>11, Zenon DEF WInv

LEMMA Initially ==
    ASSUME Init
    PROVE  WInv
<1>1. 1 \in Jobs /\ 1 \in Stages
  BY Finite
<1>2. stages \in Seq(StageJob) /\ Len(stages) = 0
  BY DEF Init
<1>3. pend \in [Tasks -> Seq(Items)]
  BY DEF Init
<1>4. attempts \in [Stages -> 0..MaxAttempts]
  BY WorkflowAssumption DEF Init
<1>5. Types
  BY <1>1, <1>2, <1>3, <1>4 DEF Init, Types, TypeOK, Places
<1>6. Listed /\ Hands
  BY <1>2 DEF Init, Listed, Hands
<1>7. Work
  BY DEF Init, Work, WorkOf, Repeating
<1>8. StagesInOrder /\ CompletedIsComplete
  BY DEF Init, StagesInOrder, CompletedIsComplete, Ended
<1>. QED  BY <1>5, <1>6, <1>7, <1>8 DEF WInv
--------------------------------------------------------------------------------
(* The theorems. *)

\* Every step of a handler, a command, a worker, and the end of the process keep the
\* inductive invariant.
LEMMA Step ==
    ASSUME WInv, [Next]_vars
    PROVE  WInv'
<1>1. CASE Start
  BY <1>1, StepStart
<1>2. CASE Crash
  BY <1>2, StepCrash
<1>3. CASE \E j \in Jobs : RunJob(j)
  BY <1>3, StepRunJob
<1>4. ASSUME NEW t \in Tasks, TaskStep(t)
      PROVE  WInv'
  BY <1>4, StepReport, StepStageCompleted, StepCreateStage, StepMarkCompleted, StepMarkFailed,
     StepMarkMaster, StepStageFailed, StepResetLater, StepQueueRetry, StepSupersede, StepVerdict,
     StepStartNext, StepCancelJob, StepCancelState, StepCancelRow, StepRecover, StepRerun
     DEF TaskStep
<1>5. ASSUME NEW t \in Tasks,
             EndsEarly(t) \/ ExtractionFails(t) \/ CreateFails(t) \/ QueueFails(t)
      PROVE  WInv'
  BY <1>5, StepEndsEarly, StepExtractionFails, StepCreateFails, StepQueueFails
<1>6. ASSUME NEW t \in Tasks, NEW j \in Jobs, NEW o \in Ended, EndJob(t, j, o)
      PROVE  WInv'
  BY <1>6, StepEndJob
<1>7. ASSUME NEW t \in Tasks,
             \/ Pause(t) \/ Resume(t) \/ CancelRead(t) \/ QueryRead(t)
             \/ \E i \in DOMAIN stages : RetryStage(t, i)
      PROVE  WInv'
  BY <1>7, StepPause, StepResume, StepCancelRead, StepQueryRead, StepRetryStage
<1>8. CASE UNCHANGED vars
  <2>1. UNCHANGED <<wf, stages, attempts, row, stageOf, master, working, early, tasks>>
    BY <1>8 DEF vars, memory, db
  <2>2. Shared /\ Listed /\ Hands
    BY TypesOf DEF WInv
  <2>3. Kept
    BY <2>1, <2>2 DEF Kept, Shared, Born
  <2>4. Shared'
    BY <2>1, <2>2 DEF Shared
  <2>5. Listed' /\ Hands'
    BY <2>1, <2>2 DEF Listed, Entry, Born, Hands
  <2>6. \A i \in Jobs : row[i] = "none" => Due(i)'
    BY <2>1 DEF Due, Born
  <2>7. wf' = wf /\ master' = master /\ UNCHANGED tasks
    BY <2>1
  <2>. QED  BY <2>3, <2>4, <2>5, <2>6, <2>7, Still, Zenon
<1>. QED  BY <1>1, <1>2, <1>3, <1>4, <1>5, <1>6, <1>7, <1>8, Zenon DEF Next

\* The inductive invariant holds in every state of every behaviour.
THEOREM WorkflowInvariant == Spec => []WInv
BY Initially, Step, PTL DEF Spec

\* Statuses in memory and in the rows, the list of stage jobs and the places of the
\* handlers keep their types, for any number of handlers, stages and jobs.
THEOREM WorkflowTypeCorrect == Spec => []TypeOK
<1>1. WInv => TypeOK
  BY DEF WInv, Types
<1>. QED  BY <1>1, WorkflowInvariant, PTL

\* No stage's job is created before some job of the stage before it has succeeded,
\* though handlers decide on clones, and others create, retry, resume, cancel and
\* recover meanwhile.
THEOREM StagesAreInOrder == Spec => []StagesInOrder
<1>1. WInv => StagesInOrder
  BY DEF WInv
<1>. QED  BY <1>1, WorkflowInvariant, PTL

\* A workflow whose state or row says completed has had a success of every stage, or
\* one of them has said that the rest is not needed.
THEOREM CompletedComplete == Spec => []CompletedIsComplete
<1>1. WInv => CompletedIsComplete
  BY DEF WInv
<1>. QED  BY <1>1, WorkflowInvariant, PTL
--------------------------------------------------------------------------------
(* The limit of attempts.  Every job of a stage, and every task that may still create one,
   has been paid for by the start, by a counted attempt or by a command; a job of an earlier
   stage that has not ended, and its handler after it, stand for the job they may go on to. *)

\* A job that has used up what it was created with at stage s, or may yet go on to it.
Jobbing(s) == {j \in Jobs : row[j] # "none" /\ (stageOf[j] = s \/ (stageOf[j] < s /\ Alive(j)))}

\* A task at place p, with job j and work list q, may still create a job of stage s, or of one that
\* comes before it.
Coming(p, j, q, s) ==
    \/ p = "resuming"
    \/ p = "creating" /\ q[1] <= s
    \/ p \in {"resetting", "queueing"} /\ stageOf[j] <= s
    \/ p \in {"report", "completing"} /\ stageOf[j] < s

Tasking(s) == {t \in Tasks : Coming(pc[t], job[t], pend[t], s)}

\* The attempts counted for the stages up to s.
Counted(s) == {x \in Retryable \X (1..MaxAttempts) : x[1] <= s /\ x[2] <= attempts[x[1]]}

\* A pause will be followed by a resume.
Held == IF wf = "paused" THEN 1 ELSE 0

\* What is there and what may still come was paid for.
Paid(s) ==
    Cardinality(Jobbing(s)) + Cardinality(Tasking(s)) + Held
        <= 1 + Cardinality(Counted(s)) + used["retry"] + used["pause"]

Balance == \A s \in Stages : IsFiniteSet(Tasking(s)) /\ Paid(s)

\* The workflow lists every stage up to that of any job.
BornListed == \A j \in Jobs : Born(j) => \A x \in Stages : x <= stageOf[j] => Positions(x) # {}

\* There is never more than one next stage.
Singles == \A t \in Tasks : pc[t] = "creating" => Len(pend[t]) = 1

\* After the end of the process nothing creates a job.
Over == stages = <<>> /\ \A t \in Tasks : pc[t] \in {"idle", "report"}

AInv ==
    /\ used \in [Commands -> Nat]
    /\ AttemptLimit
    /\ wf # "none" => Balance /\ BornListed /\ Singles
    /\ wf = "none" => Over

LEMMA Within ==
    ASSUME NEW T, IsFiniteSet(T), NEW S, S \subseteq T
    PROVE  /\ IsFiniteSet(S) /\ Cardinality(S) \in Nat /\ Cardinality(T) \in Nat
           /\ Cardinality(S) <= Cardinality(T)
BY FS_Subset, FS_CardinalityType

LEMMA WithOne ==
    ASSUME NEW T, IsFiniteSet(T), NEW x, NEW S, S \subseteq T \cup {x}
    PROVE  /\ IsFiniteSet(S) /\ Cardinality(S) \in Nat /\ Cardinality(T) \in Nat
           /\ Cardinality(S) <= Cardinality(T) + 1
<1>1. /\ IsFiniteSet(T \cup {x})
      /\ Cardinality(T \cup {x}) \in {Cardinality(T), Cardinality(T) + 1}
      /\ Cardinality(T) \in Nat
  BY FS_AddElement, FS_CardinalityType
<1>2. IsFiniteSet(S) /\ Cardinality(S) \in Nat /\ Cardinality(S) <= Cardinality(T \cup {x})
  BY <1>1, FS_Subset, FS_CardinalityType
<1>. QED  BY <1>1, <1>2

LEMMA WithoutOne ==
    ASSUME NEW T, IsFiniteSet(T), NEW x \in T, NEW S, S \subseteq T \ {x}
    PROVE  /\ IsFiniteSet(S) /\ Cardinality(S) \in Nat /\ Cardinality(T) \in Nat
           /\ Cardinality(S) + 1 <= Cardinality(T)
<1>1. /\ IsFiniteSet(T \ {x}) /\ Cardinality(T) \in Nat /\ Cardinality(T \ {x}) = Cardinality(T) - 1
  BY FS_RemoveElement, FS_CardinalityType
<1>2. IsFiniteSet(S) /\ Cardinality(S) \in Nat /\ Cardinality(S) <= Cardinality(T \ {x})
  BY <1>1, FS_Subset, FS_CardinalityType
<1>. QED  BY <1>1, <1>2

LEMMA Countings ==
    ASSUME WInv, NEW s \in Stages
    PROVE  /\ IsFiniteSet(Jobbing(s)) /\ Cardinality(Jobbing(s)) \in Nat
           /\ IsFiniteSet(Counted(s)) /\ Cardinality(Counted(s)) \in Nat
           /\ Cardinality(Counted(s)) <= Cardinality({x \in Retryable : x <= s}) * MaxAttempts
<1>1. IsFiniteSet(Jobbing(s)) /\ Cardinality(Jobbing(s)) \in Nat
  BY Finite, FS_Subset, FS_CardinalityType DEF Jobbing
<1> DEFINE early_ == {x \in Retryable : x <= s}
           nums == 1..MaxAttempts
<1>2. IsFiniteSet(early_)
  BY Finite, WorkflowAssumption, FS_Subset
<1>3. MaxAttempts \in Nat
  BY WorkflowAssumption
<1>4. IsFiniteSet(nums) /\ Cardinality(nums) = MaxAttempts
  <2>1. 1 \in Int /\ MaxAttempts \in Int
    BY <1>3
  <2>2. IsFiniteSet(nums) /\ Cardinality(nums) = IF 1 > MaxAttempts THEN 0 ELSE MaxAttempts - 1 + 1
    BY <2>1, FS_Interval
  <2>. QED  BY <1>3, <2>2
<1>5. Counted(s) \subseteq early_ \X nums
  BY DEF Counted
<1> HIDE DEF early_, nums
<1>6. /\ IsFiniteSet(early_ \X nums)
      /\ Cardinality(early_ \X nums) = Cardinality(early_) * Cardinality(nums)
  BY <1>2, <1>4, FS_Product
<1>7. /\ IsFiniteSet(Counted(s)) /\ Cardinality(Counted(s)) \in Nat
      /\ Cardinality(Counted(s)) <= Cardinality(early_) * Cardinality(nums)
  BY <1>5, <1>6, Within
<1>. QED  BY <1>1, <1>4, <1>7 DEF early_

\* The jobs and the attempts are finite sets after a step as well.
LEMMA CountingsNat ==
    ASSUME NEW s \in Stages
    PROVE  /\ IsFiniteSet(Jobbing(s)) /\ Cardinality(Jobbing(s)) \in Nat
           /\ IsFiniteSet(Counted(s)) /\ Cardinality(Counted(s)) \in Nat
           /\ IsFiniteSet(Jobbing(s)') /\ Cardinality(Jobbing(s)') \in Nat
           /\ IsFiniteSet(Counted(s)') /\ Cardinality(Counted(s)') \in Nat
<1>1. /\ Jobbing(s) \subseteq Jobs /\ Jobbing(s)' \subseteq Jobs
      /\ Counted(s) \subseteq Retryable \X (1..MaxAttempts)
      /\ Counted(s)' \subseteq Retryable \X (1..MaxAttempts)
  BY DEF Jobbing, Counted
<1>2. IsFiniteSet(Retryable \X (1..MaxAttempts))
  <2>1. 1 \in Int /\ MaxAttempts \in Int
    BY WorkflowAssumption
  <2>2. IsFiniteSet(1..MaxAttempts)
    BY <2>1, FS_Interval
  <2>3. IsFiniteSet(Retryable)
    BY Finite, WorkflowAssumption, FS_Subset
  <2>. QED  BY <2>2, <2>3, FS_Product
<1>3. /\ IsFiniteSet(Jobbing(s)) /\ IsFiniteSet(Jobbing(s)')
      /\ IsFiniteSet(Counted(s)) /\ IsFiniteSet(Counted(s)')
  BY <1>1, <1>2, Finite, FS_Subset
<1>. QED  BY <1>3, FS_CardinalityType

\* The number of jobs of a stage is one of the numbers that were paid for.
LEMMA LimitKept ==
    WInv /\ used \in [Commands -> Nat] /\ Balance => AttemptLimit
<1> SUFFICES ASSUME WInv, used \in [Commands -> Nat], Balance, NEW s \in Stages
             PROVE  Cardinality({j \in Jobs : row[j] # "none" /\ stageOf[j] = s})
                       <= 1 + Cardinality({x \in Retryable : x <= s}) * MaxAttempts + used["retry"] + used["pause"]
  BY DEF AttemptLimit
<1> DEFINE rows == {j \in Jobs : row[j] # "none" /\ stageOf[j] = s}
           limit == Cardinality({x \in Retryable : x <= s}) * MaxAttempts
<1>1. rows \subseteq Jobbing(s)
  BY DEF Jobbing
<1> HIDE DEF rows
<1>2. /\ Cardinality(Jobbing(s)) \in Nat /\ Cardinality(Counted(s)) \in Nat
      /\ Cardinality(Counted(s)) <= limit
  BY Countings
<1>3. Cardinality(rows) \in Nat /\ Cardinality(rows) <= Cardinality(Jobbing(s))
  BY <1>1, Countings, Within
<1>4. Cardinality(Tasking(s)) \in Nat
  BY FS_CardinalityType DEF Balance
<1>5. used["retry"] \in Nat /\ used["pause"] \in Nat
  BY DEF Commands
<1>6. limit \in Int
  <2>1. IsFiniteSet({x \in Retryable : x <= s})
    BY Finite, WorkflowAssumption, FS_Subset
  <2>2. Cardinality({x \in Retryable : x <= s}) \in Nat /\ MaxAttempts \in Nat
    BY <2>1, FS_CardinalityType, WorkflowAssumption
  <2>. QED  BY <2>2
<1> HIDE DEF limit
<1>7. Cardinality(Jobbing(s)) + Cardinality(Tasking(s)) + Held
        <= 1 + Cardinality(Counted(s)) + used["retry"] + used["pause"]
  BY DEF Paid, Balance
<1>8. Cardinality(rows) <= 1 + limit + used["retry"] + used["pause"]
  <2>1. Cardinality(Jobbing(s)) <= 1 + Cardinality(Counted(s)) + used["retry"] + used["pause"]
    BY <1>2, <1>4, <1>5, <1>7 DEF Held
  <2>. QED  BY <1>2, <1>3, <1>5, <1>6, <2>1
<1>. QED  BY <1>8 DEF rows, limit

\* While there is a workflow, the invariant is what its parts say.
LEMMA Balanced ==
    ASSUME WInv', wf' # "none", used' \in [Commands -> Nat], BornListed', Singles',
           \A s \in Stages : IsFiniteSet(Tasking(s)') /\ Paid(s)'
    PROVE  AInv'
<1>1. Balance'
  BY DEF Balance
<1>2. AttemptLimit'
  <2>1. (WInv /\ used \in [Commands -> Nat] /\ Balance => AttemptLimit)'
    BY LimitKept, PTL
  <2>. QED  BY <1>1, <2>1
<1>. QED  BY <1>1, <1>2 DEF AInv

\* One more job, task or pause has been paid for, or another one has gone.
LEMMA Settled ==
    ASSUME WInv, WInv', AInv, wf # "none", used' \in [Commands -> Nat], NEW s \in Stages,
           NEW dj \in Int, NEW dt \in Int, NEW du \in Int,
           Cardinality(Jobbing(s)') <= Cardinality(Jobbing(s)) + dj,
           IsFiniteSet(Tasking(s)'), Cardinality(Tasking(s)') <= Cardinality(Tasking(s)) + dt,
           Cardinality(Counted(s)) + used["retry"] + used["pause"] + du
              <= Cardinality(Counted(s)') + used'["retry"] + used'["pause"],
           dj + dt + Held' <= Held + du
    PROVE  Paid(s)'
<1>1. used \in [Commands -> Nat] /\ IsFiniteSet(Tasking(s)) /\ Paid(s)
  BY DEF AInv, Balance
<1>2. /\ used["retry"] \in Nat /\ used["pause"] \in Nat /\ used'["retry"] \in Nat /\ used'["pause"] \in Nat
      /\ Held \in Nat /\ Held' \in Nat
  BY <1>1 DEF Commands, Held
<1>3. Cardinality(Tasking(s)) \in Nat /\ Cardinality(Tasking(s)') \in Nat
  BY <1>1, FS_CardinalityType
<1>4. /\ Cardinality(Jobbing(s)) \in Nat /\ Cardinality(Counted(s)) \in Nat
      /\ Cardinality(Jobbing(s)') \in Nat /\ Cardinality(Counted(s)') \in Nat
  BY CountingsNat
<1>5. Cardinality(Jobbing(s)) + Cardinality(Tasking(s)) + Held
        <= 1 + Cardinality(Counted(s)) + used["retry"] + used["pause"]
  BY <1>1 DEF Paid
<1>6. PICK j \in Nat, k \in Nat, c \in Nat, d \in Nat, t \in Nat, u \in Nat :
          /\ j = Cardinality(Jobbing(s)) /\ k = Cardinality(Jobbing(s)')
          /\ c = Cardinality(Counted(s)) /\ d = Cardinality(Counted(s)')
          /\ t = Cardinality(Tasking(s)) /\ u = Cardinality(Tasking(s)')
  BY <1>3, <1>4
<1>7. PICK a \in Nat, b \in Nat, h \in Nat, i \in Nat :
          /\ a = used["retry"] + used["pause"] /\ b = used'["retry"] + used'["pause"]
          /\ h = Held /\ i = Held'
  BY <1>2
<1>8. j + t + h <= 1 + (c + a)
  BY <1>2, <1>5, <1>6, <1>7
<1>9. k <= j + dj /\ u <= t + dt /\ dj + dt + i <= h + du
  BY <1>6, <1>7
<1>10. (c + a) + du <= d + b
  BY <1>2, <1>6, <1>7
<1>11. k + u + i <= 1 + (d + b)
  BY <1>8, <1>9, <1>10
<1>12. Cardinality(Jobbing(s)') + Cardinality(Tasking(s)') + Held'
        <= 1 + Cardinality(Counted(s)') + used'["retry"] + used'["pause"]
  BY <1>2, <1>6, <1>7, <1>11
<1>. QED  BY <1>12 DEF Paid

\* What the state holds, with its types.
LEMMA Shape ==
    ASSUME WInv
    PROVE  /\ pc \in [Tasks -> Places] /\ job \in [Tasks -> Jobs] /\ pend \in [Tasks -> Seq(Items)]
           /\ row \in [Jobs -> {"none"} \cup Active \cup Ended] /\ stageOf \in [Jobs -> Stages]
           /\ attempts \in [Stages -> 0..MaxAttempts]
BY TypesOf DEF WInv, Shared

\* Another task's job keeps its stage, so that it may create what it might before.
LEMMA Elsewhere ==
    ASSUME WInv, Kept, NEW u \in Tasks, UNCHANGED <<pc[u], job[u], pend[u]>>, NEW s \in Stages
    PROVE  Coming(pc[u], job[u], pend[u], s)' <=> Coming(pc[u], job[u], pend[u], s)
<1>1. job[u] \in Jobs /\ WorkOf(pc[u], job[u], pend[u], then[u])
  BY Shape DEF WInv, Work
<1>2. pc[u] \in {"resetting", "queueing", "report", "completing"} => stageOf'[job[u]] = stageOf[job[u]]
  BY <1>1 DEF WorkOf, Kept
<1>. QED  BY <1>2 DEF Coming

\* Places from which nothing is created.
Quiescent == Places \ {"resuming", "creating", "resetting", "queueing", "report", "completing"}

\* Tasks go on, and none of them, nor a job, may lead to more than before.
LEMMA Calm ==
    ASSUME WInv, WInv', AInv, wf # "none", wf' # "none", wf' = "paused" => wf = "paused",
           UNCHANGED <<stageOf, attempts>>, used' \in [Commands -> Nat],
           used["retry"] <= used'["retry"], used["pause"] <= used'["pause"],
           \A j \in Jobs : (row'[j] # "none" => row[j] # "none") /\ (Alive(j)' => Alive(j)),
           \A x \in Stages : Positions(x) # {} => Positions(x)' # {},
           \A u \in Tasks, s \in Stages :
              Coming(pc[u], job[u], pend[u], s)' => Coming(pc[u], job[u], pend[u], s),
           Singles'
    PROVE  AInv'
<1>1. /\ used \in [Commands -> Nat] /\ BornListed
      /\ \A s \in Stages : IsFiniteSet(Tasking(s)) /\ Paid(s)
  BY DEF AInv, Balance
<1>2. BornListed'
  BY <1>1 DEF BornListed, Born
<1>3. ASSUME NEW s \in Stages
      PROVE  IsFiniteSet(Tasking(s)') /\ Paid(s)'
  <2>1. Tasking(s)' \subseteq Tasking(s)
    BY DEF Tasking
  <2>2. Jobbing(s)' \subseteq Jobbing(s)
    BY DEF Jobbing
  <2>3. Counted(s)' = Counted(s)
    BY DEF Counted
  <2>4. IsFiniteSet(Tasking(s)') /\ Cardinality(Tasking(s)') <= Cardinality(Tasking(s)) + 0
    <3>1. /\ IsFiniteSet(Tasking(s)') /\ Cardinality(Tasking(s)') <= Cardinality(Tasking(s))
          /\ Cardinality(Tasking(s)) \in Nat
      BY <1>1, <2>1, Within
    <3>. QED  BY <3>1
  <2>5. Cardinality(Jobbing(s)') <= Cardinality(Jobbing(s)) + 0
    <3>1. IsFiniteSet(Jobbing(s))
      BY CountingsNat
    <3>2. /\ Cardinality(Jobbing(s)') <= Cardinality(Jobbing(s)) /\ Cardinality(Jobbing(s)) \in Nat
      BY <2>2, <3>1, Within
    <3>. QED  BY <3>2
  <2>6. Cardinality(Counted(s)) + used["retry"] + used["pause"] + 0
          <= Cardinality(Counted(s)') + used'["retry"] + used'["pause"]
    <3>1. Cardinality(Counted(s)) \in Nat /\ Cardinality(Counted(s)') = Cardinality(Counted(s))
      BY <2>3, CountingsNat
    <3>2. /\ used["retry"] \in Nat /\ used["pause"] \in Nat
          /\ used'["retry"] \in Nat /\ used'["pause"] \in Nat
      BY <1>1 DEF Commands
    <3>. QED  BY <3>1, <3>2
  <2>7. 0 + 0 + Held' <= Held + 0
    BY DEF Held
  <2>8. 0 \in Int
    OBVIOUS
  <2>9. Paid(s)'
    BY <2>4, <2>5, <2>6, <2>7, <2>8, Settled
  <2>. QED  BY <2>4, <2>9
<1>. QED  BY <1>2, <1>3, Balanced

\* One task goes on to a place where it may create no more than before.
LEMMA CalmTask ==
    ASSUME WInv, WInv', AInv, wf # "none", wf' # "none", wf' = "paused" => wf = "paused",
           UNCHANGED <<stageOf, attempts>>, used' \in [Commands -> Nat],
           used["retry"] <= used'["retry"], used["pause"] <= used'["pause"],
           \A j \in Jobs : (row'[j] # "none" <=> row[j] # "none") /\ (Alive(j)' => Alive(j))
                           /\ (row[j] = "completed" => row'[j] = "completed"),
           early => early',
           \A x \in Stages : Positions(x) # {} => Positions(x)' # {},
           NEW t \in Tasks, \A u \in Tasks \ {t} : UNCHANGED <<pc[u], job[u], pend[u]>>,
           \A s \in Stages : Coming(pc[t], job[t], pend[t], s)' => Coming(pc[t], job[t], pend[t], s),
           pc'[t] = "creating" => Len(pend'[t]) = 1
    PROVE  AInv'
<1>1. Kept
  BY DEF Kept, Born
<1>2. ASSUME NEW u \in Tasks, NEW s \in Stages
      PROVE  Coming(pc[u], job[u], pend[u], s)' => Coming(pc[u], job[u], pend[u], s)
  <2>1. CASE u = t
    BY <2>1
  <2>2. CASE u # t
    <3>1. UNCHANGED <<pc[u], job[u], pend[u]>>
      BY <2>2
    <3>. QED  BY <1>1, <3>1, Elsewhere
  <2>. QED  BY <2>1, <2>2
<1>3. Singles'
  BY DEF AInv, Singles
<1>. QED  BY <1>2, <1>3, Calm

\* One task goes on to a place where it creates nothing, and the rows stay.
LEMMA CalmPlace ==
    ASSUME WInv, WInv', AInv, wf # "none", wf' # "none", wf' = "paused" => wf = "paused",
           UNCHANGED <<row, stageOf, working, attempts>>, early => early', used' \in [Commands -> Nat],
           used["retry"] <= used'["retry"], used["pause"] <= used'["pause"],
           \A x \in Stages : Positions(x) # {} => Positions(x)' # {},
           NEW t \in Tasks, NEW p \in Quiescent, pc' = [pc EXCEPT ![t] = p],
           \A u \in Tasks \ {t} : UNCHANGED <<job[u], pend[u]>>
    PROVE  AInv'
<1>1. pc'[t] = p /\ \A u \in Tasks \ {t} : pc'[u] = pc[u]
  BY Shape
<1>2. \A u \in Tasks \ {t} : UNCHANGED <<pc[u], job[u], pend[u]>>
  BY <1>1
<1>3. \A s \in Stages : ~Coming(pc[t], job[t], pend[t], s)'
  BY <1>1 DEF Coming, Quiescent
<1>4. pc'[t] # "creating"
  BY <1>1 DEF Quiescent
<1>5. \A j \in Jobs : (row'[j] # "none" <=> row[j] # "none") /\ (Alive(j)' => Alive(j))
                      /\ (row[j] = "completed" => row'[j] = "completed")
  BY DEF Alive
<1>. QED  BY <1>2, <1>3, <1>4, <1>5, CalmTask

\* The stages that are listed stay listed, whatever becomes of their jobs' statuses.
LEMMA StagesStay ==
    ASSUME \A i \in DOMAIN stages : i \in DOMAIN stages' /\ stages'[i].stage = stages[i].stage,
           NEW x \in Stages, Positions(x) # {}
    PROVE  Positions(x)' # {}
<1>1. PICK i \in DOMAIN stages : stages[i].stage = x
  BY DEF Positions
<1>2. i \in DOMAIN stages' /\ stages'[i].stage = x
  BY <1>1
<1>. QED  BY <1>2 DEF Positions

\* A command is counted.
LEMMA OneUsed ==
    ASSUME AInv, NEW c \in Commands, used' = [used EXCEPT ![c] = @ + 1]
    PROVE  /\ used' \in [Commands -> Nat]
           /\ used["retry"] <= used'["retry"] /\ used["pause"] <= used'["pause"]
           /\ used["retry"] \in Nat /\ used["pause"] \in Nat
           /\ c = "retry" => used'["retry"] = used["retry"] + 1
           /\ c = "pause" => used'["pause"] = used["pause"] + 1
<1>1. used \in [Commands -> Nat]
  BY DEF AInv
<1>2. "retry" \in Commands /\ "pause" \in Commands
  BY DEF Commands
<1>. QED  BY <1>1, <1>2

\* Nothing is counted.
LEMMA NoneUsed ==
    ASSUME AInv, used' = used
    PROVE  /\ used' \in [Commands -> Nat]
           /\ used["retry"] <= used'["retry"] /\ used["pause"] <= used'["pause"]
<1>1. used \in [Commands -> Nat]
  BY DEF AInv
<1>2. used["retry"] \in Nat /\ used["pause"] \in Nat
  BY <1>1 DEF Commands
<1>. QED  BY <1>1, <1>2

\* How a workflow ends, aborts or is canceled leads to no job.
LEMMA EndsCalmly ==
    ASSUME WInv, WInv', AInv, wf # "none", NEW t \in Tasks,
           \/ EndsEarly(t) \/ ExtractionFails(t) \/ MarkCompleted(t) \/ MarkFailed(t) \/ MarkMaster(t)
           \/ Verdict(t) \/ CancelState(t) \/ CancelRow(t) \/ QueueFails(t) \/ Rerun(t)
    PROVE  AInv'
<1>1. /\ UNCHANGED <<row, stageOf, working, attempts, stages, used>>
      /\ wf' \in {wf, "completed", "failed", "canceled"}
  BY DEF EndsEarly, ExtractionFails, MarkCompleted, MarkFailed, MarkMaster, Verdict, CancelState,
     CancelRow, QueueFails, Rerun, memory, db, counts
<1>2. early => early'
  <2>1. early' = early \/ early' = TRUE
    BY DEF EndsEarly, ExtractionFails, MarkCompleted, MarkFailed, MarkMaster, Verdict, CancelState,
       CancelRow, QueueFails, Rerun
  <2>. QED  BY <2>1
<1>3. \A u \in Tasks \ {t} : UNCHANGED <<job[u], pend[u]>>
  <2>1. CASE Rerun(t)
    BY <2>1, Shape DEF Rerun
  <2>2. CASE ~Rerun(t)
    <3>1. job' = job /\ pend' = pend
      BY <2>2 DEF EndsEarly, ExtractionFails, MarkCompleted, MarkFailed, MarkMaster, Verdict, CancelState,
         CancelRow, QueueFails
    <3>. QED  BY <3>1
  <2>. QED  BY <2>1, <2>2
<1>4. PICK p \in Quiescent : pc' = [pc EXCEPT ![t] = p]
  <2>1. \E p \in {"complete", "failing", "completeRow", "failRow", "abortRow", "verdict", "idle", "rerun",
                  "cancelRow", "abort"} : pc' = [pc EXCEPT ![t] = p]
    BY DEF EndsEarly, ExtractionFails, MarkCompleted, MarkFailed, MarkMaster, Verdict, CancelState,
       CancelRow, QueueFails, Rerun, Return, Goto
  <2>. QED  BY <2>1 DEF Quiescent, Places
<1>5. \A x \in Stages : Positions(x) # {} => Positions(x)' # {}
  BY <1>1 DEF Positions
<1>6. used' \in [Commands -> Nat] /\ used["retry"] <= used'["retry"] /\ used["pause"] <= used'["pause"]
  BY <1>1, NoneUsed
<1>7. wf' # "none" /\ (wf' = "paused" => wf = "paused")
  BY <1>1
<1>. QED  BY <1>1, <1>2, <1>3, <1>4, <1>5, <1>6, <1>7, CalmPlace

\* The commands read the rows.
LEMMA ReadsCalmly ==
    ASSUME WInv, WInv', AInv, NEW t \in Tasks, CancelRead(t) \/ QueryRead(t)
    PROVE  AInv'
<1>1. UNCHANGED <<row, stageOf, working, attempts, stages, wf, early, job>>
  BY DEF CancelRead, QueryRead, memory, db
<1>2. PICK c \in Commands : used' = [used EXCEPT ![c] = @ + 1]
  BY DEF CancelRead, QueryRead, Begin, Commands
<1>3. \A u \in Tasks \ {t} : UNCHANGED <<job[u], pend[u]>>
  BY <1>1, Shape DEF CancelRead, QueryRead
<1>4. PICK p \in Quiescent : pc' = [pc EXCEPT ![t] = p]
  BY DEF CancelRead, QueryRead, Goto, Quiescent, Places
<1>5. \A x \in Stages : Positions(x) # {} => Positions(x)' # {}
  BY <1>1 DEF Positions
<1>6. used' \in [Commands -> Nat] /\ used["retry"] <= used'["retry"] /\ used["pause"] <= used'["pause"]
  BY <1>2, OneUsed
<1>7. wf # "none" /\ wf' # "none" /\ (wf' = "paused" => wf = "paused")
  BY <1>1 DEF CancelRead, QueryRead, Begin
<1>8. early => early'
  BY <1>1
<1>. QED  BY <1>1, <1>3, <1>4, <1>5, <1>6, <1>7, <1>8, CalmPlace

\* A row that is canceled no longer stands for a job to come.
LEMMA CancelsCalmly ==
    ASSUME WInv, WInv', AInv, wf # "none", NEW t \in Tasks, CancelJob(t)
    PROVE  AInv'
<1>1. /\ UNCHANGED <<stageOf, working, attempts, stages, wf, early, job, used>>
      /\ pc[t] = "canceling"
  BY DEF CancelJob, memory, counts
<1>2. \A u \in Tasks \ {t} : UNCHANGED <<job[u], pend[u]>>
  BY <1>1, Shape DEF CancelJob
<1>3. PICK p \in {"canceling", "cancelState"} : pc' = [pc EXCEPT ![t] = p]
  BY Shape DEF CancelJob, Goto
<1>4. \A x \in Stages : Positions(x) # {} => Positions(x)' # {}
  BY <1>1 DEF Positions
<1>5. used' \in [Commands -> Nat] /\ used["retry"] <= used'["retry"] /\ used["pause"] <= used'["pause"]
  BY <1>1, NoneUsed
<1>6. \A j \in Jobs : (row'[j] # "none" <=> row[j] # "none") /\ (Alive(j)' => Alive(j))
                      /\ (row[j] = "completed" => row'[j] = "completed")
  <2>1. CASE row' = row
    BY <1>1, <2>1 DEF Alive
  <2>2. CASE row' # row
    <3>1. PICK k : row' = [row EXCEPT ![k] = IF @ \in Active THEN "canceled" ELSE @]
      BY <2>2 DEF CancelJob
    <3>2. \A j \in Jobs : row'[j] = row[j] \/ (row[j] \in Active /\ row'[j] = "canceled")
      BY <3>1, Shape
    <3>. QED  BY <1>1, <3>2 DEF Alive, Active
  <2>. QED  BY <2>1, <2>2
<1>7. pc'[t] = p /\ \A u \in Tasks \ {t} : pc'[u] = pc[u]
  BY <1>3, Shape
<1>8. \A u \in Tasks \ {t} : UNCHANGED <<pc[u], job[u], pend[u]>>
  BY <1>2, <1>7
<1>9. \A s \in Stages : ~Coming(pc[t], job[t], pend[t], s)'
  BY <1>7 DEF Coming
<1>10. pc'[t] # "creating" /\ wf' # "none" /\ (wf' = "paused" => wf = "paused") /\ (early => early')
  BY <1>1, <1>7
<1>. QED  BY <1>1, <1>4, <1>5, <1>6, <1>8, <1>9, <1>10, CalmTask

\* A job that is marked keeps its place in the list.
LEMMA MarkedStays ==
    ASSUME WInv, NEW k, NEW st
    PROVE  \A i \in DOMAIN stages : i \in DOMAIN SetStage(k, st) /\ SetStage(k, st)[i].stage = stages[i].stage
<1> SUFFICES ASSUME NEW i \in DOMAIN stages
             PROVE  SetStage(k, st)[i].stage = stages[i].stage
  BY DEF SetStage
<1>1. stages[i] \in StageJob
  BY ListedJob
<1>2. stages[i].id = k => SetStage(k, st)[i] = [stages[i] EXCEPT !.status = st]
  BY DEF SetStage
<1>3. stages[i].id # k => SetStage(k, st)[i] = stages[i]
  BY DEF SetStage
<1>. QED  BY <1>1, <1>2, <1>3 DEF StageJob

\* A job that takes another one's place, or that a query has found, is listed after the others.
LEMMA ListsCalmly ==
    ASSUME WInv, WInv', AInv, wf # "none", NEW t \in Tasks, Supersede(t) \/ Recover(t)
    PROVE  AInv'
<1>1. UNCHANGED <<row, stageOf, working, attempts, wf, early, job, used>>
  BY DEF Supersede, Recover, db, counts
<1>2. \A u \in Tasks \ {t} : UNCHANGED <<job[u], pend[u]>>
  <2>1. \A u \in Tasks \ {t} : pend'[u] = pend[u]
    BY Shape DEF Supersede, Recover
  <2>. QED  BY <1>1, <2>1
<1>3. PICK p \in Quiescent : pc' = [pc EXCEPT ![t] = p]
  BY DEF Supersede, Recover, Goto, Quiescent, Places
<1>4. \A i \in DOMAIN stages : i \in DOMAIN stages' /\ stages'[i].stage = stages[i].stage
  <2>1. stages \in Seq(StageJob)
    BY DEF WInv, Types, TypeOK
  <2>2. ASSUME NEW i \in DOMAIN stages
        PROVE  i \in DOMAIN stages' /\ stages'[i].stage = stages[i].stage
    <3>1. CASE Supersede(t)
      <4>1. PICK s, e : /\ s = SetStage(job[t], "canceled")
                        /\ e = NewStageJob(Head(pend[t]), stageOf[job[t]], "display")
        OBVIOUS
      <4>2. stages' = Append(s, e)
        BY <3>1, <4>1 DEF Supersede
      <4>3. s \in Seq(StageJob)
        BY <4>1, SetStageKeeps DEF Statuses
      <4>4. i \in DOMAIN s /\ s[i].stage = stages[i].stage
        BY <4>1, MarkedStays
      <4>5. /\ DOMAIN s = 1..Len(s) /\ Len(s) \in Nat
            /\ DOMAIN stages' = 1..(Len(s) + 1) /\ \A k \in 1..Len(s) : stages'[k] = s[k]
        BY <4>2, <4>3
      <4>. QED  BY <4>4, <4>5
    <3>2. CASE Recover(t)
      <4>1. PICK m \in Seq(StageJob) : stages' = stages \o m
        BY <3>2, RecoverAdds
      <4>. QED  BY <2>1, <4>1, ConcatProperties
    <3>. QED  BY <3>1, <3>2
  <2>. QED  BY <2>2
<1>5. \A x \in Stages : Positions(x) # {} => Positions(x)' # {}
  BY <1>4, StagesStay
<1>6. used' \in [Commands -> Nat] /\ used["retry"] <= used'["retry"] /\ used["pause"] <= used'["pause"]
  BY <1>1, NoneUsed
<1>7. wf' # "none" /\ (wf' = "paused" => wf = "paused") /\ (early => early')
  BY <1>1
<1>. QED  BY <1>1, <1>2, <1>3, <1>5, <1>6, <1>7, CalmPlace

\* The end of a stage is reported: its completion may lead on to the stages that the report might.
LEMMA ReportsCalmly ==
    ASSUME WInv, WInv', AInv, wf # "none", NEW t \in Tasks, Report(t)
    PROVE  AInv'
<1>1. /\ UNCHANGED <<row, stageOf, working, attempts, early, job, pend, used>>
      /\ pc[t] = "report" /\ wf' \in {wf, "canceled"}
      /\ stages' = stages \/ stages' = SetStage(job[t], then[t])
  <2>1. then[t] \in Ended
    BY DEF Report, WInv, Work, WorkOf
  <2>2. UNCHANGED <<row, stageOf, working, attempts, early, job, pend, used>> /\ pc[t] = "report"
    BY DEF Report, memory, db, counts
  <2>3. CASE ~Registered(job[t])
    BY <2>2, <2>3 DEF Report, memory
  <2>4. CASE Registered(job[t])
    <3>1. stages' = SetStage(job[t], then[t])
      BY <2>4 DEF Report
    <3>2. wf' \in {wf, "canceled"}
      BY <2>1, <2>4 DEF Report, Ended
    <3>. QED  BY <2>2, <3>1, <3>2
  <2>. QED  BY <2>3, <2>4
<1>2. \A i \in DOMAIN stages : i \in DOMAIN stages' /\ stages'[i].stage = stages[i].stage
  BY <1>1, MarkedStays
<1>3. \A x \in Stages : Positions(x) # {} => Positions(x)' # {}
  BY <1>2, StagesStay
<1>4. used' \in [Commands -> Nat] /\ used["retry"] <= used'["retry"] /\ used["pause"] <= used'["pause"]
  BY <1>1, NoneUsed
<1>5. PICK p \in {"idle", "completing", "failing"} : pc' = [pc EXCEPT ![t] = p]
  <2>1. then[t] \in Ended
    BY <1>1 DEF WInv, Work, WorkOf
  <2>. QED  BY <2>1 DEF Report, Goto, Ended
<1>6. pc'[t] = p /\ \A u \in Tasks \ {t} : pc'[u] = pc[u]
  BY <1>5, Shape
<1>7. \A u \in Tasks \ {t} : UNCHANGED <<pc[u], job[u], pend[u]>>
  BY <1>1, <1>6
<1>8. \A s \in Stages : Coming(pc[t], job[t], pend[t], s)' => Coming(pc[t], job[t], pend[t], s)
  BY <1>1, <1>6 DEF Coming
<1>9. \A j \in Jobs : (row'[j] # "none" <=> row[j] # "none") /\ (Alive(j)' => Alive(j))
                      /\ (row[j] = "completed" => row'[j] = "completed")
  BY <1>1 DEF Alive
<1>10. pc'[t] # "creating" /\ wf' # "none" /\ (wf' = "paused" => wf = "paused") /\ (early => early')
  BY <1>1, <1>6
<1>. QED  BY <1>1, <1>3, <1>4, <1>7, <1>8, <1>9, <1>10, CalmTask

\* A retry that a command or a failure asked for cancels jobs in the list before it creates one.
LEMMA ResetsCalmly ==
    ASSUME WInv, WInv', AInv, wf # "none", NEW t \in Tasks, ResetLater(t)
    PROVE  AInv'
<1>1. /\ UNCHANGED <<row, stageOf, working, attempts, early, job, pend, used, wf>>
      /\ pc[t] = "resetting" /\ pc' = [pc EXCEPT ![t] = "queueing"]
  BY DEF ResetLater, Goto, db, counts
<1>2. \A i \in DOMAIN stages : i \in DOMAIN stages' /\ stages'[i].stage = stages[i].stage
  <2>1. PICK hit : stages' = [i \in DOMAIN stages |->
                       IF i \in hit THEN [stages[i] EXCEPT !.status = "canceled"] ELSE stages[i]]
    BY DEF ResetLater
  <2>2. ASSUME NEW i \in DOMAIN stages
        PROVE  i \in DOMAIN stages' /\ stages'[i].stage = stages[i].stage
    <3>1. stages[i] \in StageJob
      BY ListedJob
    <3>2. i \in DOMAIN stages' /\ stages'[i] \in {stages[i], [stages[i] EXCEPT !.status = "canceled"]}
      BY <2>1
    <3>. QED  BY <3>1, <3>2 DEF StageJob
  <2>. QED  BY <2>2
<1>3. \A x \in Stages : Positions(x) # {} => Positions(x)' # {}
  BY <1>2, StagesStay
<1>4. used' \in [Commands -> Nat] /\ used["retry"] <= used'["retry"] /\ used["pause"] <= used'["pause"]
  BY <1>1, NoneUsed
<1>6. pc'[t] = "queueing" /\ \A u \in Tasks \ {t} : pc'[u] = pc[u]
  BY <1>1, Shape
<1>7. \A u \in Tasks \ {t} : UNCHANGED <<pc[u], job[u], pend[u]>>
  BY <1>1, <1>6
<1>8. \A s \in Stages : Coming(pc[t], job[t], pend[t], s)' => Coming(pc[t], job[t], pend[t], s)
  BY <1>1, <1>6 DEF Coming
<1>9. \A j \in Jobs : (row'[j] # "none" <=> row[j] # "none") /\ (Alive(j)' => Alive(j))
                      /\ (row[j] = "completed" => row'[j] = "completed")
  BY <1>1 DEF Alive
<1>10. pc'[t] # "creating" /\ wf' # "none" /\ (wf' = "paused" => wf = "paused") /\ (early => early')
  BY <1>1, <1>6
<1>. QED  BY <1>1, <1>3, <1>4, <1>7, <1>8, <1>9, <1>10, CalmTask

\* There is at most one next stage: the first that is not listed.
LEMMA NextSingle ==
    ASSUME WInv, BornListed, NEW a \in NextStages, NEW b \in NextStages
    PROVE  a = b
<1>1. ASSUME NEW x \in NextStages, NEW y \in NextStages
      PROVE  ~(x < y)
  <2>1. /\ x \in Stages /\ y \in Stages /\ Positions(x) = {} /\ DependenciesMet(y)
        /\ x \in Nat /\ y \in Nat /\ x >= 1
    BY Finite DEF NextStages, Stages
  <2>2. ASSUME x < y
        PROVE  FALSE
    <3>1. y - 1 \in Stages /\ (y - 1) + 1 = y /\ x <= y - 1
      BY <2>1, <2>2, WorkflowAssumption DEF Stages
    <3>2. StageDone(y - 1)
      BY <2>1, <3>1 DEF DependenciesMet
    <3>3. PICK i \in DOMAIN stages : stages[i].stage = y - 1
      BY <3>2 DEF StageDone, Positions
    <3>4. stages[i] \in StageJob /\ Entry(stages[i])
      BY ListedJob
    <3>5. stages[i].id \in Jobs /\ Born(stages[i].id) /\ stageOf[stages[i].id] = y - 1
      BY <3>3, <3>4 DEF StageJob, Entry
    <3>6. Positions(x) # {}
      BY <2>1, <3>1, <3>5 DEF BornListed
    <3>. QED  BY <2>1, <3>6
  <2>. QED  BY <2>2
<1>2. a \in Nat /\ b \in Nat
  BY Finite DEF NextStages
<1>3. ~(a < b) /\ ~(b < a)
  BY <1>1
<1>. QED  BY <1>2, <1>3

\* What is to be started is that stage.
LEMMA StartOne ==
    ASSUME WInv, BornListed, StagesToStart # {}, NEW q \in Ascending(StagesToStart)
    PROVE  Len(q) = 1 /\ q[1] \in Stages /\ Positions(q[1]) = {}
<1>1. stages \in Seq(StageJob)
  BY DEF WInv, Types, TypeOK
<1>2. StagesToStart \subseteq NextStages /\ IsFiniteSet(StagesToStart)
  BY <1>1, ToStart
<1>3. PICK a : a \in StagesToStart
  OBVIOUS
<1>4. StagesToStart = {a}
  <2>1. \A b \in StagesToStart : b = a
    BY <1>2, <1>3, NextSingle
  <2>. QED  BY <1>3, <2>1
<1>5. Cardinality({a}) = 1
  BY FS_Singleton
<1>6. Len(q) = 1 /\ \A i \in 1..Len(q) : q[i] = a
  BY <1>2, <1>4, <1>5, Ordered
<1>7. a \in Stages /\ Positions(a) = {}
  BY <1>2, <1>3 DEF NextStages
<1>. QED  BY <1>6, <1>7

\* A stage that completes leads to a later one: those up to its own are listed.
LEMMA StartsCalmly ==
    ASSUME WInv, WInv', AInv, wf # "none", NEW t \in Tasks, StageCompleted(t) \/ StartNext(t)
    PROVE  AInv'
<1>1. /\ UNCHANGED <<row, stageOf, working, attempts, stages, early, job, used, wf>>
      /\ pc[t] = "completing" \/ pc[t] = "resuming"
  BY DEF StageCompleted, StartNext, memory, db, counts
<1>2. PICK q \in Ascending(StagesToStart) : pend' = [pend EXCEPT ![t] = q]
  BY DEF StageCompleted, StartNext
<1>3. PICK p \in {"idle", "creating", "fail", "complete"} :
          pc' = [pc EXCEPT ![t] = p] /\ (p = "creating" => StagesToStart # {})
  <2>1. stages \in Seq(StageJob)
    BY DEF WInv, Types, TypeOK
  <2>2. CASE StageCompleted(t)
    BY <2>1, <2>2, ToStart DEF StageCompleted, Goto
  <2>3. CASE StartNext(t)
    BY <2>3 DEF StartNext, Goto
  <2>. QED  BY <2>2, <2>3
<1>4. /\ pc'[t] = p /\ pend'[t] = q
      /\ \A u \in Tasks \ {t} : pc'[u] = pc[u] /\ pend'[u] = pend[u]
  BY <1>2, <1>3, Shape
<1>5. \A u \in Tasks \ {t} : UNCHANGED <<pc[u], job[u], pend[u]>>
  BY <1>1, <1>4
<1>6. BornListed
  BY DEF AInv
<1>7. p = "creating" => Len(q) = 1 /\ q[1] \in Stages /\ Positions(q[1]) = {}
  BY <1>3, <1>6, StartOne
<1>8. ASSUME NEW s \in Stages, Coming(pc[t], job[t], pend[t], s)'
      PROVE  Coming(pc[t], job[t], pend[t], s)
  <2>1. p = "creating" /\ q[1] <= s
    BY <1>4, <1>8 DEF Coming
  <2>2. CASE pc[t] = "resuming"
    BY <2>2 DEF Coming
  <2>3. CASE pc[t] = "completing"
    <3>1. job[t] \in Jobs /\ Born(job[t]) /\ stageOf[job[t]] \in Stages
      BY <2>3, Shape DEF WInv, Work, WorkOf
    <3>2. ~(q[1] <= stageOf[job[t]])
      BY <1>6, <1>7, <2>1, <3>1 DEF BornListed
    <3>3. stageOf[job[t]] \in Nat /\ q[1] \in Nat /\ s \in Nat
      BY <1>7, <2>1, <3>1, Finite
    <3>4. stageOf[job[t]] < s
      BY <2>1, <3>2, <3>3
    <3>. QED  BY <2>3, <3>4 DEF Coming
  <2>. QED  BY <1>1, <2>2, <2>3
<1>9. used' \in [Commands -> Nat] /\ used["retry"] <= used'["retry"] /\ used["pause"] <= used'["pause"]
  BY <1>1, NoneUsed
<1>10. \A j \in Jobs : (row'[j] # "none" <=> row[j] # "none") /\ (Alive(j)' => Alive(j))
                      /\ (row[j] = "completed" => row'[j] = "completed")
  BY <1>1 DEF Alive
<1>11. \A x \in Stages : Positions(x) # {} => Positions(x)' # {}
  BY <1>1 DEF Positions
<1>12. pc'[t] = "creating" => Len(pend'[t]) = 1
  BY <1>4, <1>7
<1>13. wf' # "none" /\ (wf' = "paused" => wf = "paused") /\ (early => early')
  BY <1>1
<1>. QED  BY <1>1, <1>5, <1>8, <1>9, <1>10, <1>11, <1>12, <1>13, CalmTask

\* A stage job that cannot be created was the only one.
LEMMA GivesUpCalmly ==
    ASSUME WInv, WInv', AInv, wf # "none", NEW t \in Tasks, CreateFails(t)
    PROVE  AInv'
<1>1. UNCHANGED <<row, stageOf, working, attempts, stages, early, job, used, wf>>
  BY DEF CreateFails, memory, db
<1>2. Len(pend[t]) = 1
  BY DEF AInv, Singles, CreateFails
<1>3. pc' = [pc EXCEPT ![t] = "idle"]
  BY <1>2 DEF CreateFails, Goto
<1>4. \A u \in Tasks \ {t} : UNCHANGED <<job[u], pend[u]>>
  BY <1>1, Shape DEF CreateFails
<1>5. used' \in [Commands -> Nat] /\ used["retry"] <= used'["retry"] /\ used["pause"] <= used'["pause"]
  BY <1>1, NoneUsed
<1>6. \A x \in Stages : Positions(x) # {} => Positions(x)' # {}
  BY <1>1 DEF Positions
<1>7. "idle" \in Quiescent
  BY DEF Quiescent, Places
<1>8. wf' # "none" /\ (wf' = "paused" => wf = "paused") /\ (early => early')
  BY <1>1
<1>. QED  BY <1>1, <1>3, <1>4, <1>5, <1>6, <1>7, <1>8, CalmPlace

\* One task goes on: what the others may create stays.
LEMMA OneTask ==
    ASSUME WInv, AInv, wf # "none", Kept, NEW t \in Tasks,
           \A u \in Tasks \ {t} : UNCHANGED <<pc[u], job[u], pend[u]>>, NEW s \in Stages
    PROVE  /\ IsFiniteSet(Tasking(s)') /\ Cardinality(Tasking(s)') <= Cardinality(Tasking(s)) + 1
           /\ (Coming(pc[t], job[t], pend[t], s)' => Coming(pc[t], job[t], pend[t], s))
                 => Cardinality(Tasking(s)') <= Cardinality(Tasking(s)) + 0
           /\ ~Coming(pc[t], job[t], pend[t], s)' /\ Coming(pc[t], job[t], pend[t], s)
                 => Cardinality(Tasking(s)') <= Cardinality(Tasking(s)) + (-1)
<1>1. IsFiniteSet(Tasking(s))
  BY DEF AInv, Balance
<1>2. ASSUME NEW u \in Tasking(s)', u # t
      PROVE  u \in Tasking(s)
  <2>1. u \in Tasks /\ UNCHANGED <<pc[u], job[u], pend[u]>> /\ Coming(pc[u], job[u], pend[u], s)'
    BY <1>2 DEF Tasking
  <2>2. Coming(pc[u], job[u], pend[u], s)
    BY <2>1, Elsewhere
  <2>. QED  BY <2>1, <2>2 DEF Tasking
<1>3. Tasking(s)' \subseteq Tasking(s) \cup {t}
  BY <1>2
<1>4. /\ IsFiniteSet(Tasking(s)') /\ Cardinality(Tasking(s)') <= Cardinality(Tasking(s)) + 1
      /\ Cardinality(Tasking(s)) \in Nat /\ Cardinality(Tasking(s)') \in Nat
  BY <1>1, <1>3, WithOne
<1>5. ASSUME Coming(pc[t], job[t], pend[t], s)' => Coming(pc[t], job[t], pend[t], s)
      PROVE  Cardinality(Tasking(s)') <= Cardinality(Tasking(s)) + 0
  <2>1. t \in Tasking(s)' => t \in Tasking(s)
    BY <1>5 DEF Tasking
  <2>2. Tasking(s)' \subseteq Tasking(s)
    BY <1>2, <2>1
  <2>3. Cardinality(Tasking(s)') <= Cardinality(Tasking(s))
    BY <1>1, <2>2, Within
  <2>. QED  BY <1>4, <2>3
<1>6. ASSUME ~Coming(pc[t], job[t], pend[t], s)', Coming(pc[t], job[t], pend[t], s)
      PROVE  Cardinality(Tasking(s)') <= Cardinality(Tasking(s)) + (-1)
  <2>1. t \notin Tasking(s)' /\ t \in Tasking(s)
    BY <1>6 DEF Tasking
  <2>2. Tasking(s)' \subseteq Tasking(s) \ {t}
    BY <1>2, <2>1
  <2>3. Cardinality(Tasking(s)') + 1 <= Cardinality(Tasking(s))
    BY <1>1, <2>1, <2>2, WithoutOne
  <2>. QED  BY <1>4, <2>3
<1>. QED  BY <1>4, <1>5, <1>6

\* The rows that are not created anew stand for no more than before.
LEMMA SameJobs ==
    ASSUME NEW s \in Stages, Jobbing(s)' \subseteq Jobbing(s)
    PROVE  Cardinality(Jobbing(s)') <= Cardinality(Jobbing(s)) + 0
<1>1. IsFiniteSet(Jobbing(s)) /\ Cardinality(Jobbing(s)) \in Nat /\ Cardinality(Jobbing(s)') \in Nat
  BY CountingsNat
<1>2. Cardinality(Jobbing(s)') <= Cardinality(Jobbing(s))
  BY <1>1, Within
<1>. QED  BY <1>1, <1>2

\* A command is counted, and with it a pause is on, or a task that may create a job.
LEMMA CommandPays ==
    ASSUME WInv, WInv', AInv, wf # "none", wf' # "none", NEW c \in {"retry", "pause"},
           used' = [used EXCEPT ![c] = @ + 1], UNCHANGED <<row, stageOf, working, attempts, stages, early>>,
           NEW t \in Tasks, \A u \in Tasks \ {t} : UNCHANGED <<pc[u], job[u], pend[u]>>,
           \/ pc'[t] = "resetting" /\ wf' = wf
           \/ UNCHANGED <<pc[t], job[t], pend[t]>> /\ wf' = "paused" /\ wf # "paused"
    PROVE  AInv'
<1>1. /\ used' \in [Commands -> Nat]
      /\ used["retry"] \in Nat /\ used["pause"] \in Nat
      /\ used["retry"] <= used'["retry"] /\ used["pause"] <= used'["pause"]
      /\ used["retry"] + used["pause"] + 1 <= used'["retry"] + used'["pause"]
      /\ used'["retry"] \in Nat /\ used'["pause"] \in Nat
  <2>1. c \in Commands
    BY DEF Commands
  <2>2. /\ used' \in [Commands -> Nat]
        /\ used["retry"] <= used'["retry"] /\ used["pause"] <= used'["pause"]
        /\ used["retry"] \in Nat /\ used["pause"] \in Nat
        /\ c = "retry" => used'["retry"] = used["retry"] + 1
        /\ c = "pause" => used'["pause"] = used["pause"] + 1
    BY <2>1, OneUsed
  <2>3. used'["retry"] \in Nat /\ used'["pause"] \in Nat
    BY <2>2 DEF Commands
  <2>. QED  BY <2>2, <2>3
<1>2. Kept
  BY DEF Kept, Born
<1>3. ASSUME NEW s \in Stages
      PROVE  IsFiniteSet(Tasking(s)') /\ Paid(s)'
  <2>1. Cardinality(Jobbing(s)') <= Cardinality(Jobbing(s)) + 0
    <3>1. Jobbing(s)' \subseteq Jobbing(s)
      BY DEF Jobbing, Alive
    <3>. QED  BY <3>1, SameJobs
  <2>2. Cardinality(Counted(s)) + used["retry"] + used["pause"] + 1
          <= Cardinality(Counted(s)') + used'["retry"] + used'["pause"]
    <3>1. Counted(s)' = Counted(s)
      BY DEF Counted
    <3>2. Cardinality(Counted(s)) \in Nat /\ Cardinality(Counted(s)') = Cardinality(Counted(s))
      BY <3>1, CountingsNat
    <3>. QED  BY <1>1, <3>2
  <2>3. /\ IsFiniteSet(Tasking(s)') /\ Cardinality(Tasking(s)') <= Cardinality(Tasking(s)) + 1
        /\ (Coming(pc[t], job[t], pend[t], s)' => Coming(pc[t], job[t], pend[t], s))
              => Cardinality(Tasking(s)') <= Cardinality(Tasking(s)) + 0
    BY <1>2, OneTask
  <2>4. 0 \in Int /\ 1 \in Int
    OBVIOUS
  <2>5. CASE wf' = wf
    <3>1. 0 + 1 + Held' <= Held + 1
      BY <2>5 DEF Held
    <3>2. Paid(s)'
      BY <1>1, <2>1, <2>2, <2>3, <2>4, <3>1, Settled
    <3>. QED  BY <2>3, <3>2
  <2>6. CASE wf' # wf
    <3>1. UNCHANGED <<pc[t], job[t], pend[t]>> /\ wf' = "paused" /\ wf # "paused"
      BY <2>6
    <3>2. Coming(pc[t], job[t], pend[t], s)' => Coming(pc[t], job[t], pend[t], s)
      BY <1>2, <3>1, Elsewhere
    <3>3. 0 + 0 + Held' <= Held + 1
      BY <3>1 DEF Held
    <3>4. Cardinality(Tasking(s)') <= Cardinality(Tasking(s)) + 0
      BY <2>3, <3>2
    <3>5. Paid(s)'
      BY <1>1, <2>1, <2>2, <2>3, <2>4, <3>3, <3>4, Settled
    <3>. QED  BY <2>3, <3>5
  <2>. QED  BY <2>5, <2>6
<1>4. BornListed'
  BY DEF AInv, BornListed, Born, Positions
<1>5. Singles'
  BY DEF AInv, Singles
<1>. QED  BY <1>1, <1>3, <1>4, <1>5, Balanced

LEMMA PauseOrRetryPays ==
    ASSUME WInv, WInv', AInv, NEW t \in Tasks, Pause(t) \/ \E i \in DOMAIN stages : RetryStage(t, i)
    PROVE  AInv'
<1>1. CASE Pause(t)
  <2>1. /\ UNCHANGED <<row, stageOf, working, attempts, stages, early, pc, job, pend>>
        /\ used' = [used EXCEPT !["pause"] = @ + 1] /\ wf' = "paused" /\ wf = "running"
    BY <1>1 DEF Pause, Begin, db, tasks
  <2>. QED  BY <2>1, CommandPays
<1>2. CASE \E i \in DOMAIN stages : RetryStage(t, i)
  <2>1. PICK i \in DOMAIN stages : RetryStage(t, i)
    BY <1>2
  <2>2. /\ UNCHANGED <<row, stageOf, working, attempts, stages, early, wf>>
        /\ used' = [used EXCEPT !["retry"] = @ + 1] /\ wf # "none"
    BY <2>1 DEF RetryStage, Begin, memory, db
  <2>3. /\ pc'[t] = "resetting"
        /\ \A u \in Tasks \ {t} : UNCHANGED <<pc[u], job[u], pend[u]>>
    BY <2>1, Shape DEF RetryStage, Goto
  <2>. QED  BY <2>2, <2>3, CommandPays
<1>. QED  BY <1>1, <1>2

\* The pause that has been counted becomes a task that may create a job.
LEMMA ResumePays ==
    ASSUME WInv, WInv', AInv, NEW t \in Tasks, Resume(t)
    PROVE  AInv'
<1>1. /\ UNCHANGED <<row, stageOf, working, attempts, stages, early, job, pend, used>>
      /\ wf = "paused" /\ wf' = "running"
  BY DEF Resume, db, counts
<1>2. pc'[t] = "resuming" /\ \A u \in Tasks \ {t} : UNCHANGED <<pc[u], job[u], pend[u]>>
  BY <1>1, Shape DEF Resume, Goto
<1>3. used' \in [Commands -> Nat] /\ used["retry"] \in Nat /\ used["pause"] \in Nat
  BY <1>1 DEF AInv, Commands
<1>4. Kept
  BY <1>1 DEF Kept, Born
<1>5. ASSUME NEW s \in Stages
      PROVE  IsFiniteSet(Tasking(s)') /\ Paid(s)'
  <2>1. Cardinality(Jobbing(s)') <= Cardinality(Jobbing(s)) + 0
    <3>1. Jobbing(s)' \subseteq Jobbing(s)
      BY <1>1 DEF Jobbing, Alive
    <3>. QED  BY <3>1, SameJobs
  <2>2. Cardinality(Counted(s)) + used["retry"] + used["pause"] + 0
          <= Cardinality(Counted(s)') + used'["retry"] + used'["pause"]
    <3>1. Counted(s)' = Counted(s)
      BY <1>1 DEF Counted
    <3>2. Cardinality(Counted(s)) \in Nat /\ Cardinality(Counted(s)') = Cardinality(Counted(s))
      BY <3>1, CountingsNat
    <3>. QED  BY <1>1, <1>3, <3>2
  <2>3. IsFiniteSet(Tasking(s)') /\ Cardinality(Tasking(s)') <= Cardinality(Tasking(s)) + 1
    BY <1>1, <1>2, <1>4, OneTask
  <2>4. 0 \in Int /\ 1 \in Int /\ 0 + 1 + Held' <= Held + 0
    BY <1>1 DEF Held
  <2>5. Paid(s)'
    BY <1>1, <1>3, <2>1, <2>2, <2>3, <2>4, Settled
  <2>. QED  BY <2>3, <2>5
<1>6. BornListed'
  BY <1>1 DEF AInv, BornListed, Born, Positions
<1>7. Singles'
  BY <1>1, <1>2 DEF AInv, Singles
<1>. QED  BY <1>1, <1>3, <1>5, <1>6, <1>7, Balanced

\* An attempt more is counted for the stage, and so for every later one.
LEMMA OneCounted ==
    ASSUME WInv, NEW x \in Stages, MayRetry(x), attempts' = [attempts EXCEPT ![x] = @ + 1], NEW s \in Stages
    PROVE  /\ Cardinality(Counted(s)) <= Cardinality(Counted(s)')
           /\ x <= s => Cardinality(Counted(s)) + 1 <= Cardinality(Counted(s)')
<1>1. /\ attempts[x] \in Nat /\ attempts[x] + 1 \in 1..MaxAttempts /\ x \in Retryable
      /\ attempts'[x] = attempts[x] + 1 /\ \A y \in Stages : y # x => attempts'[y] = attempts[y]
  BY Shape, WorkflowAssumption DEF MayRetry
<1>2. IsFiniteSet(Counted(s)')
  BY CountingsNat
<1>3. ASSUME NEW z \in Counted(s)
      PROVE  z \in Counted(s)' /\ z # <<x, attempts[x] + 1>>
  <2>1. PICK y \in Retryable, n \in 1..MaxAttempts : z = <<y, n>>
    BY DEF Counted
  <2>2. y <= s /\ n <= attempts[y] /\ y \in Stages /\ n \in Nat
    BY <2>1, WorkflowAssumption DEF Counted
  <2>3. n <= attempts'[y] /\ (y = x => n # attempts[x] + 1)
    BY <1>1, <2>2
  <2>. QED  BY <2>1, <2>2, <2>3 DEF Counted
<1>4. Cardinality(Counted(s)) <= Cardinality(Counted(s)')
  BY <1>2, <1>3, Within
<1>5. ASSUME x <= s
      PROVE  Cardinality(Counted(s)) + 1 <= Cardinality(Counted(s)')
  <2>1. <<x, attempts[x] + 1>> \in Counted(s)'
    BY <1>1, <1>5 DEF Counted
  <2>2. Counted(s) \subseteq Counted(s)' \ {<<x, attempts[x] + 1>>}
    BY <1>3
  <2>. QED  BY <1>2, <2>1, <2>2, WithoutOne
<1>. QED  BY <1>4, <1>5

\* A failure is retried on a counted attempt, or aborts.
LEMMA FailurePays ==
    ASSUME WInv, WInv', AInv, wf # "none", NEW t \in Tasks, StageFailed(t)
    PROVE  AInv'
<1>1. /\ UNCHANGED <<row, stageOf, working, stages, early, job, pend, used, wf>>
      /\ pc[t] = "failing"
  BY DEF StageFailed, db, counts
<1>2. used' \in [Commands -> Nat] /\ used["retry"] <= used'["retry"] /\ used["pause"] <= used'["pause"]
  BY <1>1, NoneUsed
<1>3. PICK x \in Stages : x = stageOf[job[t]]
  BY Shape
<1>4. CASE ~MayRetry(x)
  <2>1. pc' = [pc EXCEPT ![t] = "abort"] /\ attempts' = attempts
    BY <1>3, <1>4 DEF StageFailed, Goto
  <2>2. "abort" \in Quiescent
    BY DEF Quiescent, Places
  <2>3. \A y \in Stages : Positions(y) # {} => Positions(y)' # {}
    BY <1>1 DEF Positions
  <2>4. wf' # "none" /\ (wf' = "paused" => wf = "paused") /\ (early => early')
        /\ \A u \in Tasks \ {t} : UNCHANGED <<job[u], pend[u]>>
    BY <1>1
  <2>. QED  BY <1>1, <1>2, <2>1, <2>2, <2>3, <2>4, CalmPlace
<1>5. CASE MayRetry(x)
  <2>1. pc'[t] = "resetting" /\ attempts' = [attempts EXCEPT ![x] = @ + 1]
        /\ \A u \in Tasks \ {t} : UNCHANGED <<pc[u], job[u], pend[u]>>
    BY <1>1, <1>3, <1>5, Shape DEF StageFailed, Goto
  <2>2. Kept
    BY <1>1 DEF Kept, Born
  <2>3. ASSUME NEW s \in Stages
        PROVE  IsFiniteSet(Tasking(s)') /\ Paid(s)'
    <3>1. Cardinality(Jobbing(s)') <= Cardinality(Jobbing(s)) + 0
      <4>1. Jobbing(s)' \subseteq Jobbing(s)
        BY <1>1 DEF Jobbing, Alive
      <4>. QED  BY <4>1, SameJobs
    <3>2. /\ IsFiniteSet(Tasking(s)') /\ Cardinality(Tasking(s)') <= Cardinality(Tasking(s)) + 1
          /\ (Coming(pc[t], job[t], pend[t], s)' => Coming(pc[t], job[t], pend[t], s))
                => Cardinality(Tasking(s)') <= Cardinality(Tasking(s)) + 0
      BY <1>1, <2>1, <2>2, OneTask
    <3>3. /\ Cardinality(Counted(s)) <= Cardinality(Counted(s)')
          /\ x <= s => Cardinality(Counted(s)) + 1 <= Cardinality(Counted(s)')
      BY <1>5, <2>1, OneCounted
    <3>4. /\ Cardinality(Counted(s)) \in Nat /\ Cardinality(Counted(s)') \in Nat
          /\ used["retry"] \in Nat /\ used["pause"] \in Nat
      BY <1>1, <1>2, CountingsNat DEF Commands
    <3>5. 0 \in Int /\ 1 \in Int
      OBVIOUS
    <3>6. CASE x <= s
      <4>1. Cardinality(Counted(s)) + used["retry"] + used["pause"] + 1
              <= Cardinality(Counted(s)') + used'["retry"] + used'["pause"]
        BY <1>1, <3>3, <3>4, <3>6
      <4>2. 0 + 1 + Held' <= Held + 1
        BY <1>1 DEF Held
      <4>3. Paid(s)'
        BY <1>1, <1>2, <3>1, <3>2, <3>5, <4>1, <4>2, Settled
      <4>. QED  BY <3>2, <4>3
    <3>7. CASE ~(x <= s)
      <4>1. Cardinality(Counted(s)) + used["retry"] + used["pause"] + 0
              <= Cardinality(Counted(s)') + used'["retry"] + used'["pause"]
        BY <1>1, <3>3, <3>4
      <4>2. 0 + 0 + Held' <= Held + 0
        BY <1>1 DEF Held
      <4>3. ~Coming(pc[t], job[t], pend[t], s)'
        BY <1>1, <1>3, <2>1, <3>7 DEF Coming
      <4>4. Cardinality(Tasking(s)') <= Cardinality(Tasking(s)) + 0
        BY <3>2, <4>3
      <4>5. Paid(s)'
        BY <1>1, <1>2, <3>1, <3>2, <3>5, <4>1, <4>2, <4>4, Settled
      <4>. QED  BY <3>2, <4>5
    <3>. QED  BY <3>6, <3>7
  <2>4. BornListed'
    BY <1>1 DEF AInv, BornListed, Born, Positions
  <2>5. Singles'
    BY <1>1, <2>1 DEF AInv, Singles
  <2>. QED  BY <1>1, <1>2, <2>3, <2>4, <2>5, Balanced
<1>. QED  BY <1>4, <1>5

\* A task that was to create a job has done so.
LEMMA CreationPays ==
    ASSUME WInv, WInv', AInv, wf # "none", NEW x \in Stages, InsertRow(x), x > 1 => Done(x - 1),
           UNCHANGED <<working, early, attempts, used, wf>>, BornListed', 
           NEW t \in Tasks, \A u \in Tasks \ {t} : UNCHANGED <<pc[u], job[u], pend[u]>>,
           \A s \in Stages : x <= s => Coming(pc[t], job[t], pend[t], s), pc'[t] \in Quiescent
    PROVE  AInv'
<1>1. Kept
  BY Inserted
<1>2. PICK k \in Jobs : k = FreeJob /\ row[k] = "none"
  BY Free DEF InsertRow
<1>3. /\ row' = [row EXCEPT ![k] = "queued"] /\ stageOf' = [stageOf EXCEPT ![k] = x]
  BY <1>2 DEF InsertRow
<1>4. /\ stageOf'[k] = x /\ row'[k] = "queued"
      /\ \A j \in Jobs : j # k => row'[j] = row[j] /\ stageOf'[j] = stageOf[j]
  BY <1>3, Shape
<1>5. used' \in [Commands -> Nat] /\ used["retry"] \in Nat /\ used["pause"] \in Nat
  BY DEF AInv, Commands
<1>6. ASSUME NEW s \in Stages
      PROVE  IsFiniteSet(Tasking(s)') /\ Paid(s)'
  <2>1. Cardinality(Counted(s)) + used["retry"] + used["pause"] + 0
          <= Cardinality(Counted(s)') + used'["retry"] + used'["pause"]
    <3>1. Counted(s)' = Counted(s)
      BY DEF Counted
    <3>2. Cardinality(Counted(s)) \in Nat /\ Cardinality(Counted(s)') = Cardinality(Counted(s))
      BY <3>1, CountingsNat
    <3>. QED  BY <1>5, <3>2
  <2>2. ~Coming(pc[t], job[t], pend[t], s)'
    BY DEF Coming, Quiescent
  <2>3. /\ IsFiniteSet(Tasking(s)')
        /\ Cardinality(Tasking(s)') <= Cardinality(Tasking(s)) + 0
        /\ Coming(pc[t], job[t], pend[t], s)
              => Cardinality(Tasking(s)') <= Cardinality(Tasking(s)) + (-1)
    BY <1>1, <2>2, OneTask
  <2>4. /\ 0 \in Int /\ 1 \in Int /\ -1 \in Int
        /\ 0 + 0 + Held' <= Held + 0 /\ 1 + (-1) + Held' <= Held + 0
    BY DEF Held
  <2>5. ASSUME NEW j \in Jobbing(s)', j # k
        PROVE  j \in Jobbing(s)
    <3>1. j \in Jobs /\ row'[j] = row[j] /\ stageOf'[j] = stageOf[j]
      BY <1>4, <2>5 DEF Jobbing
    <3>. QED  BY <2>5, <3>1 DEF Jobbing, Alive
  <2>6. CASE x <= s
    <3>1. Cardinality(Jobbing(s)') <= Cardinality(Jobbing(s)) + 1
      <4>1. Jobbing(s)' \subseteq Jobbing(s) \cup {k} /\ IsFiniteSet(Jobbing(s))
        BY <2>5, CountingsNat
      <4>. QED  BY <4>1, WithOne
    <3>2. Cardinality(Tasking(s)') <= Cardinality(Tasking(s)) + (-1)
      BY <2>3, <2>6
    <3>3. Paid(s)'
      BY <1>5, <2>1, <2>3, <2>4, <3>1, <3>2, Settled
    <3>. QED  BY <2>3, <3>3
  <2>7. CASE ~(x <= s)
    <3>1. k \notin Jobbing(s)'
      <4>1. x \in Nat /\ s \in Nat
        BY Finite
      <4>2. ~(x = s) /\ ~(x < s)
        BY <2>7, <4>1
      <4>. QED  BY <1>4, <4>2 DEF Jobbing
    <3>2. Cardinality(Jobbing(s)') <= Cardinality(Jobbing(s)) + 0
      BY <2>5, <3>1, SameJobs
    <3>3. Paid(s)'
      BY <1>5, <2>1, <2>3, <2>4, <3>2, Settled
    <3>. QED  BY <2>3, <3>3
  <2>. QED  BY <2>6, <2>7
<1>7. Singles'
  BY DEF AInv, Singles, Quiescent
<1>. QED  BY <1>5, <1>6, <1>7, Balanced

LEMMA CreateStagePays ==
    ASSUME WInv, WInv', AInv, wf # "none", NEW t \in Tasks, CreateStage(t)
    PROVE  AInv'
<1>1. PICK q \in Seq(Items) : q = pend[t]
  BY Shape
<1>2. /\ pc[t] = "creating" /\ q # <<>> /\ Len(q) = 1
      /\ \A i \in 1..Len(q) : q[i] \in Stages /\ (q[i] > 1 => Done(q[i] - 1))
  BY <1>1 DEF CreateStage, AInv, Singles, WInv, Work, WorkOf
<1>3. PICK x : x = Head(q)
  OBVIOUS
<1>4. x = q[1] /\ x \in Stages /\ (x > 1 => Done(x - 1))
  BY <1>2, <1>3, Rest
<1>5. /\ InsertRow(x) /\ stages' = Append(stages, NewStageJob(FreeJob, x, "definition"))
      /\ UNCHANGED <<wf, attempts, working, early, job, used>>
      /\ pc' = [pc EXCEPT ![t] = "idle"]
  BY <1>1, <1>2, <1>3 DEF CreateStage, Goto, counts
<1>6. pc'[t] \in Quiescent /\ \A u \in Tasks \ {t} : UNCHANGED <<pc[u], job[u], pend[u]>>
  <2>1. pc'[t] = "idle" /\ \A u \in Tasks \ {t} : pc'[u] = pc[u] /\ pend'[u] = pend[u]
    BY <1>5, Shape DEF CreateStage
  <2>. QED  BY <1>5, <2>1 DEF Quiescent, Places
<1>7. \A s \in Stages : x <= s => Coming(pc[t], job[t], pend[t], s)
  BY <1>1, <1>2, <1>4 DEF Coming
<1>8. PICK k \in Jobs :
          /\ k = FreeJob /\ stageOf'[k] = x /\ Kept
          /\ \A i \in Jobs : i # k => (row'[i] = row[i] /\ stageOf'[i] = stageOf[i])
  <2>1. PICK k \in Jobs : k = FreeJob /\ row[k] = "none"
    BY <1>5, Free DEF InsertRow
  <2>2. row' = [row EXCEPT ![k] = "queued"] /\ stageOf' = [stageOf EXCEPT ![k] = x]
    BY <1>5, <2>1 DEF InsertRow
  <2>3. Kept
    BY <1>4, <1>5, Inserted
  <2>. QED  BY <2>1, <2>2, <2>3, Shape
<1>9. /\ \A i \in DOMAIN stages : i \in DOMAIN stages' /\ stages'[i].stage = stages[i].stage
      /\ Positions(x)' # {}
  <2>1. stages \in Seq(StageJob)
    BY DEF WInv, Types, TypeOK
  <2>2. PICK e : e = NewStageJob(FreeJob, x, "definition")
    OBVIOUS
  <2>3. e.stage = x
    BY <2>2 DEF NewStageJob
  <2>4. /\ DOMAIN stages = 1..Len(stages) /\ Len(stages) \in Nat
        /\ DOMAIN stages' = 1..(Len(stages) + 1) /\ stages'[Len(stages) + 1] = e
        /\ \A i \in 1..Len(stages) : stages'[i] = stages[i]
    BY <1>5, <2>1, <2>2
  <2>5. Len(stages) + 1 \in Positions(x)'
    BY <2>3, <2>4 DEF Positions
  <2>. QED  BY <2>4, <2>5
<1>10. BornListed'
  <2>1. BornListed
    BY DEF AInv
  <2>2. ASSUME NEW j \in Jobs, Born(j)', NEW y \in Stages, y <= stageOf'[j]
        PROVE  Positions(y)' # {}
    <3>1. CASE j # k
      <4>1. Born(j) /\ y <= stageOf[j]
        BY <1>8, <2>2, <3>1 DEF Born
      <4>2. Positions(y) # {}
        BY <2>1, <4>1 DEF BornListed
      <4>. QED  BY <1>9, <4>2, StagesStay
    <3>2. CASE j = k /\ y # x
      <4>1. x \in Nat /\ y \in Nat /\ x >= 1 /\ y >= 1 /\ y <= x
        BY <1>4, <1>8, <2>2, <3>2, Finite DEF Stages
      <4>2. x - 1 \in Stages /\ x > 1 /\ y <= x - 1
        BY <1>4, <3>2, <4>1, WorkflowAssumption DEF Stages
      <4>3. PICK d \in Jobs : stageOf[d] = x - 1 /\ Born(d)
        BY <1>4, <4>2 DEF Done, Born
      <4>4. Positions(y) # {}
        BY <2>1, <4>2, <4>3 DEF BornListed
      <4>. QED  BY <1>9, <4>4, StagesStay
    <3>3. CASE y = x
      BY <1>9, <3>3
    <3>. QED  BY <3>1, <3>2, <3>3
  <2>. QED  BY <2>2 DEF BornListed
<1>. QED  BY <1>4, <1>5, <1>6, <1>7, <1>10, CreationPays

LEMMA QueueRetryPays ==
    ASSUME WInv, WInv', AInv, wf # "none", NEW t \in Tasks, QueueRetry(t)
    PROVE  AInv'
<1>1. PICK x \in Stages : x = stageOf[job[t]]
  BY Shape
<1>2. /\ InsertRow(x) /\ pc[t] = "queueing"
      /\ UNCHANGED <<wf, attempts, working, early, job, used, stages>>
      /\ pc' = [pc EXCEPT ![t] = "replacing"]
  BY <1>1 DEF QueueRetry, Goto, memory, counts
<1>3. job[t] \in Jobs /\ Born(job[t])
  BY <1>2, Shape DEF WInv, Work, WorkOf
<1>4. x > 1 => Done(x - 1)
  BY <1>1, <1>3 DEF WInv, StagesInOrder, Born
<1>5. pc'[t] \in Quiescent /\ \A u \in Tasks \ {t} : UNCHANGED <<pc[u], job[u], pend[u]>>
  <2>1. pc'[t] = "replacing" /\ \A u \in Tasks \ {t} : pc'[u] = pc[u] /\ pend'[u] = pend[u]
    BY <1>2, Shape DEF QueueRetry
  <2>. QED  BY <1>2, <2>1 DEF Quiescent, Places
<1>6. \A s \in Stages : x <= s => Coming(pc[t], job[t], pend[t], s)
  BY <1>1, <1>2 DEF Coming
<1>7. PICK k \in Jobs :
          /\ k = FreeJob /\ stageOf'[k] = x
          /\ \A i \in Jobs : i # k => (row'[i] = row[i] /\ stageOf'[i] = stageOf[i])
  <2>1. PICK k \in Jobs : k = FreeJob /\ row[k] = "none"
    BY <1>2, Free DEF InsertRow
  <2>2. row' = [row EXCEPT ![k] = "queued"] /\ stageOf' = [stageOf EXCEPT ![k] = x]
    BY <1>2, <2>1 DEF InsertRow
  <2>. QED  BY <2>1, <2>2, Shape
<1>8. BornListed'
  <2>1. BornListed
    BY DEF AInv
  <2>2. ASSUME NEW j \in Jobs, Born(j)', NEW y \in Stages, y <= stageOf'[j]
        PROVE  Positions(y)' # {}
    <3>1. PICK d \in Jobs : Born(d) /\ y <= stageOf[d]
      BY <1>1, <1>3, <1>7, <2>2 DEF Born
    <3>2. Positions(y) # {}
      BY <2>1, <3>1 DEF BornListed
    <3>. QED  BY <1>2, <3>2 DEF Positions
  <2>. QED  BY <2>2 DEF BornListed
<1>. QED  BY <1>2, <1>4, <1>5, <1>6, <1>8, CreationPays

\* A worker takes a job that waits, which stands for as much as before.
LEMMA RunPays ==
    ASSUME WInv, WInv', AInv, wf # "none", NEW j \in Jobs, RunJob(j)
    PROVE  AInv'
<1>1. /\ UNCHANGED <<wf, stages, attempts, stageOf, pc, job, pend, used>>
      /\ row[j] = "queued" /\ row' = [row EXCEPT ![j] = "running"] /\ working' = working \cup {j}
  BY DEF RunJob, memory, tasks, counts
<1>2. \A i \in Jobs : (row'[i] # "none" => row[i] # "none") /\ (Alive(i)' => Alive(i))
  <2>1. \A i \in Jobs : i # j => (row'[i] = row[i] /\ (i \in working' <=> i \in working))
    BY <1>1, Shape
  <2>2. \A i \in Jobs : i # j => ((row'[i] # "none" => row[i] # "none") /\ (Alive(i)' => Alive(i)))
    BY <2>1 DEF Alive
  <2>3. row[j] # "none" /\ Alive(j)
    BY <1>1 DEF Alive
  <2>. QED  BY <2>2, <2>3
<1>3. used' \in [Commands -> Nat] /\ used["retry"] <= used'["retry"] /\ used["pause"] <= used'["pause"]
  BY <1>1, NoneUsed
<1>4. \A x \in Stages : Positions(x) # {} => Positions(x)' # {}
  BY <1>1 DEF Positions
<1>5. \A u \in Tasks, s \in Stages :
          Coming(pc[u], job[u], pend[u], s)' => Coming(pc[u], job[u], pend[u], s)
  BY <1>1 DEF Coming
<1>6. Singles'
  BY <1>1 DEF AInv, Singles
<1>. QED  BY <1>1, <1>2, <1>3, <1>4, <1>5, <1>6, Calm

\* A job ends, and the task that reports it stands for what it may go on to.
LEMMA EndPays ==
    ASSUME WInv, WInv', AInv, wf # "none", NEW t \in Tasks, NEW j \in Jobs, NEW o \in Ended, EndJob(t, j, o)
    PROVE  AInv'
<1>1. /\ UNCHANGED <<wf, stages, attempts, stageOf, pend, used, early>> /\ j \in working
      /\ pc[t] = "idle" /\ row' = [row EXCEPT ![j] = o] /\ working' = working \ {j}
  BY DEF EndJob, memory, counts
<1>2. /\ row'[j] = o /\ o # "queued" /\ o # "none"
      /\ \A i \in Jobs : i # j => (row'[i] = row[i] /\ (i \in working' <=> i \in working))
  BY <1>1, Shape DEF Ended
<1>3. /\ row[j] # "none" /\ row[j] # "completed"
  BY <1>1 DEF WInv, Hands
<1>4. /\ pc'[t] = "report" /\ job'[t] = j
      /\ \A u \in Tasks \ {t} : UNCHANGED <<pc[u], job[u], pend[u]>>
  BY <1>1, Shape DEF EndJob, Goto
<1>5. Kept
  BY <1>1, <1>2, <1>3 DEF Kept, Born
<1>6. used' \in [Commands -> Nat] /\ used["retry"] \in Nat /\ used["pause"] \in Nat
  BY <1>1 DEF AInv, Commands
<1>7. ASSUME NEW s \in Stages
      PROVE  IsFiniteSet(Tasking(s)') /\ Paid(s)'
  <2>1. Cardinality(Counted(s)) + used["retry"] + used["pause"] + 0
          <= Cardinality(Counted(s)') + used'["retry"] + used'["pause"]
    <3>1. Counted(s)' = Counted(s)
      BY <1>1 DEF Counted
    <3>2. Cardinality(Counted(s)) \in Nat /\ Cardinality(Counted(s)') = Cardinality(Counted(s))
      BY <3>1, CountingsNat
    <3>. QED  BY <1>1, <1>6, <3>2
  <2>2. /\ IsFiniteSet(Tasking(s)') /\ Cardinality(Tasking(s)') <= Cardinality(Tasking(s)) + 1
        /\ (Coming(pc[t], job[t], pend[t], s)' => Coming(pc[t], job[t], pend[t], s))
              => Cardinality(Tasking(s)') <= Cardinality(Tasking(s)) + 0
    BY <1>4, <1>5, OneTask
  <2>3. /\ 0 \in Int /\ 1 \in Int /\ -1 \in Int
        /\ 0 + 0 + Held' <= Held + 0 /\ (-1) + 1 + Held' <= Held + 0
    BY <1>1 DEF Held
  <2>4. ASSUME NEW i \in Jobbing(s)'
        PROVE  i \in Jobbing(s) /\ (i = j => stageOf[j] = s)
    <3>1. CASE i # j
      <4>1. i \in Jobs /\ row'[i] = row[i] /\ stageOf'[i] = stageOf[i] /\ (i \in working' => i \in working)
        BY <1>1, <1>2, <2>4, <3>1 DEF Jobbing
      <4>. QED  BY <2>4, <3>1, <4>1 DEF Jobbing, Alive
    <3>2. CASE i = j
      <4>1. ~Alive(j)'
        BY <1>1, <1>2 DEF Alive
      <4>. QED  BY <1>1, <1>3, <2>4, <3>2, <4>1 DEF Jobbing
    <3>. QED  BY <3>1, <3>2
  <2>5. CASE stageOf[j] < s
    <3>1. j \in Jobbing(s)
      BY <1>1, <1>3, <2>5 DEF Jobbing, Alive
    <3>2. stageOf[j] # s
      BY <2>5, Shape, Finite
    <3>3. Jobbing(s)' \subseteq Jobbing(s) \ {j}
      BY <2>4, <3>2
    <3>4. Cardinality(Jobbing(s)') <= Cardinality(Jobbing(s)) + (-1)
      <4>1. IsFiniteSet(Jobbing(s)) /\ Cardinality(Jobbing(s)) \in Nat /\ Cardinality(Jobbing(s)') \in Nat
        BY CountingsNat
      <4>2. Cardinality(Jobbing(s)') + 1 <= Cardinality(Jobbing(s))
        BY <3>1, <3>3, <4>1, WithoutOne
      <4>. QED  BY <4>1, <4>2
    <3>5. Paid(s)'
      BY <1>6, <2>1, <2>2, <2>3, <3>4, Settled
    <3>. QED  BY <2>2, <3>5
  <2>6. CASE ~(stageOf[j] < s)
    <3>1. Cardinality(Jobbing(s)') <= Cardinality(Jobbing(s)) + 0
      BY <2>4, SameJobs
    <3>2. ~Coming(pc[t], job[t], pend[t], s)'
      BY <1>1, <1>4, <2>6 DEF Coming
    <3>3. Cardinality(Tasking(s)') <= Cardinality(Tasking(s)) + 0
      BY <2>2, <3>2
    <3>4. Paid(s)'
      BY <1>6, <2>1, <2>2, <2>3, <3>1, <3>3, Settled
    <3>. QED  BY <2>2, <3>4
  <2>. QED  BY <2>5, <2>6
<1>8. BornListed'
  BY <1>1, <1>2, <1>3 DEF AInv, BornListed, Born, Positions
<1>9. Singles'
  BY <1>1, <1>4 DEF AInv, Singles
<1>. QED  BY <1>1, <1>6, <1>7, <1>8, <1>9, Balanced

\* The first job is what the start pays for.
LEMMA StartPays ==
    ASSUME WInv, WInv', AInv, Start
    PROVE  AInv'
<1>1. /\ wf = "none" /\ \A j \in Jobs : row[j] = "none"
      /\ wf' = "running" /\ UNCHANGED <<attempts, working, pc, job, pend, used>>
      /\ InsertRow(1) /\ stages' = <<NewStageJob(FreeJob, 1, "definition")>>
  BY DEF Start, tasks, counts
<1>2. \A t \in Tasks : pc[t] = "idle"
  <2>1. ASSUME NEW t \in Tasks
        PROVE  pc[t] = "idle"
    <3>1. pc[t] \in {"idle", "report"}
      BY <1>1 DEF AInv, Over
    <3>2. pc[t] = "report" => Born(job[t]) /\ job[t] \in Jobs
      BY Shape DEF WInv, Work, WorkOf
    <3>. QED  BY <1>1, <3>1, <3>2 DEF Born
  <2>. QED  BY <2>1
<1>3. PICK k \in Jobs : k = FreeJob /\ row[k] = "none"
  BY <1>1, Free DEF InsertRow
<1>4. /\ stageOf'[k] = 1
      /\ \A j \in Jobs : j # k => row'[j] = "none"
  <2>1. row' = [row EXCEPT ![k] = "queued"] /\ stageOf' = [stageOf EXCEPT ![k] = 1]
    BY <1>1, <1>3 DEF InsertRow
  <2>. QED  BY <1>1, <2>1, Shape
<1>5. used' \in [Commands -> Nat] /\ used'["retry"] \in Nat /\ used'["pause"] \in Nat
  BY <1>1 DEF AInv, Commands
<1>6. ASSUME NEW s \in Stages
      PROVE  IsFiniteSet(Tasking(s)') /\ Paid(s)'
  <2>1. Tasking(s)' = {}
    BY <1>1, <1>2 DEF Tasking, Coming
  <2>2. IsFiniteSet(Tasking(s)') /\ Cardinality(Tasking(s)') = 0
    BY <2>1, FS_EmptySet
  <2>3. Jobbing(s)' \subseteq {k}
    BY <1>4 DEF Jobbing
  <2>4. Cardinality(Jobbing(s)') <= 1 /\ Cardinality(Jobbing(s)') \in Nat
    <3>1. IsFiniteSet({k}) /\ Cardinality({k}) = 1
      BY FS_Singleton
    <3>2. Cardinality(Jobbing(s)') <= Cardinality({k})
      BY <2>3, <3>1, Within
    <3>. QED  BY <3>1, <3>2, CountingsNat
  <2>5. Cardinality(Counted(s)') \in Nat
    BY CountingsNat
  <2>6. Held' = 0
    BY <1>1 DEF Held
  <2>7. Cardinality(Jobbing(s)') + Cardinality(Tasking(s)') + Held'
          <= 1 + Cardinality(Counted(s)') + used'["retry"] + used'["pause"]
    BY <1>5, <2>2, <2>4, <2>5, <2>6
  <2>. QED  BY <2>2, <2>7 DEF Paid
<1>7. BornListed'
  <2>1. ASSUME NEW j \in Jobs, Born(j)', NEW x \in Stages, x <= stageOf'[j]
        PROVE  Positions(x)' # {}
    <3>1. x = 1
      BY <1>4, <2>1, Finite DEF Born, Stages
    <3>2. PICK e : e = NewStageJob(FreeJob, 1, "definition")
      OBVIOUS
    <3>3. stages' = <<e>> /\ e.stage = 1
      BY <1>1, <3>2 DEF NewStageJob
    <3>4. 1 \in DOMAIN stages' /\ stages'[1] = e
      BY <3>3
    <3>. QED  BY <3>1, <3>3, <3>4 DEF Positions
  <2>. QED  BY <2>1 DEF BornListed
<1>8. Singles'
  BY <1>1, <1>2 DEF Singles
<1>. QED  BY <1>1, <1>5, <1>6, <1>7, <1>8, Balanced

\* No row is added.
LEMMA LimitStays ==
    ASSUME AttemptLimit, \A j \in Jobs : row'[j] # "none" <=> row[j] # "none", UNCHANGED <<stageOf, used>>
    PROVE  AttemptLimit'
<1> SUFFICES ASSUME NEW s \in Stages
             PROVE  Cardinality({j \in Jobs : row'[j] # "none" /\ stageOf'[j] = s})
                       <= 1 + Cardinality({x \in Retryable : x <= s}) * MaxAttempts + used'["retry"] + used'["pause"]
  BY DEF AttemptLimit
<1>1. {j \in Jobs : row'[j] # "none" /\ stageOf'[j] = s} = {j \in Jobs : row[j] # "none" /\ stageOf[j] = s}
  OBVIOUS
<1>2. Cardinality({j \in Jobs : row[j] # "none" /\ stageOf[j] = s})
        <= 1 + Cardinality({x \in Retryable : x <= s}) * MaxAttempts + used["retry"] + used["pause"]
  BY DEF AttemptLimit
<1>. QED  BY <1>1, <1>2

\* Without a workflow in memory jobs end and are reported, to nobody.
LEMMA NobodyPays ==
    ASSUME WInv, AInv, wf = "none", UNCHANGED <<wf, stages, stageOf, used>>,
           \A j \in Jobs : row'[j] # "none" <=> row[j] # "none",
           \A t \in Tasks : pc'[t] \in {"idle", "report"}
    PROVE  AInv'
<1>1. AttemptLimit'
  BY LimitStays DEF AInv
<1>. QED  BY <1>1 DEF AInv, Over

LEMMA DormantPays ==
    ASSUME WInv, AInv, wf = "none", NEW t \in Tasks,
           \/ TaskStep(t) \/ EndsEarly(t) \/ ExtractionFails(t) \/ CreateFails(t) \/ QueueFails(t)
           \/ \E j \in Jobs, o \in Ended : EndJob(t, j, o)
           \/ Pause(t) \/ Resume(t) \/ CancelRead(t) \/ QueryRead(t)
           \/ \E i \in DOMAIN stages : RetryStage(t, i)
    PROVE  AInv'
<1>1. stages = <<>> /\ \A u \in Tasks : pc[u] \in {"idle", "report"}
  BY DEF AInv, Over
<1>2. ~Registered(job[t])
  BY <1>1 DEF Registered
<1>3. Report(t) \/ \E j \in Jobs, o \in Ended : EndJob(t, j, o)
  BY <1>1 DEF TaskStep, EndsEarly, ExtractionFails, CreateFails, QueueFails, Pause, Resume, CancelRead,
     QueryRead, RetryStage, Begin, StageCompleted, CreateStage, MarkCompleted, MarkFailed, MarkMaster,
     StageFailed, ResetLater, QueueRetry, Supersede, Verdict, StartNext, CancelJob, CancelState,
     CancelRow, Recover, Rerun
<1>4. CASE Report(t)
  <2>1. UNCHANGED <<wf, stages, stageOf, used, row>> /\ pc' = [pc EXCEPT ![t] = "idle"]
    BY <1>2, <1>4 DEF Report, memory, db, counts, Goto
  <2>2. \A u \in Tasks : pc'[u] \in {"idle", "report"}
    BY <1>1, <2>1, Shape
  <2>. QED  BY <2>1, <2>2, NobodyPays
<1>5. CASE \E j \in Jobs, o \in Ended : EndJob(t, j, o)
  <2>1. PICK j \in Jobs, o \in Ended : EndJob(t, j, o)
    BY <1>5
  <2>2. /\ UNCHANGED <<wf, stages, stageOf, used>> /\ pc' = [pc EXCEPT ![t] = "report"]
        /\ row' = [row EXCEPT ![j] = o] /\ j \in working
    BY <2>1 DEF EndJob, memory, counts, Goto
  <2>3. \A u \in Tasks : pc'[u] \in {"idle", "report"}
    BY <1>1, <2>2, Shape
  <2>4. row[j] # "none"
    BY <2>2 DEF WInv, Hands
  <2>5. \A i \in Jobs : row'[i] # "none" <=> row[i] # "none"
    BY <2>2, <2>4, Shape DEF Ended
  <2>. QED  BY <2>2, <2>3, <2>5, NobodyPays
<1>. QED  BY <1>3, <1>4, <1>5

\* Every step keeps the balance.
LEMMA StepPays ==
    ASSUME WInv, AInv, [Next]_vars
    PROVE  AInv'
<1>0. WInv'
  BY Step
<1>1. CASE Start
  BY <1>0, <1>1, StartPays
<1>2. CASE Crash
  <2>1. /\ wf' = "none" /\ stages' = <<>> /\ UNCHANGED <<row, stageOf, used>>
        /\ \A t \in Tasks : pc'[t] = "idle"
    BY <1>2 DEF Crash, db
  <2>2. AttemptLimit'
    BY <2>1, LimitStays DEF AInv
  <2>. QED  BY <2>1, <2>2 DEF AInv, Over
<1>3. ASSUME NEW j \in Jobs, RunJob(j)
      PROVE  AInv'
  <2>1. CASE wf # "none"
    BY <1>0, <1>3, <2>1, RunPays
  <2>2. CASE wf = "none"
    <3>1. /\ UNCHANGED <<wf, stages, stageOf, used, pc>>
          /\ row' = [row EXCEPT ![j] = "running"] /\ row[j] = "queued"
      BY <1>3 DEF RunJob, memory, tasks, counts
    <3>2. \A i \in Jobs : row'[i] # "none" <=> row[i] # "none"
      BY <3>1, Shape
    <3>3. \A t \in Tasks : pc'[t] \in {"idle", "report"}
      BY <2>2, <3>1 DEF AInv, Over
    <3>. QED  BY <2>2, <3>1, <3>2, <3>3, NobodyPays
  <2>. QED  BY <2>1, <2>2
<1>4. ASSUME NEW t \in Tasks,
             \/ TaskStep(t) \/ EndsEarly(t) \/ ExtractionFails(t) \/ CreateFails(t) \/ QueueFails(t)
             \/ \E j \in Jobs, o \in Ended : EndJob(t, j, o)
             \/ Pause(t) \/ Resume(t) \/ CancelRead(t) \/ QueryRead(t)
             \/ \E i \in DOMAIN stages : RetryStage(t, i)
      PROVE  AInv'
  <2>1. CASE wf = "none"
    BY <1>4, <2>1, DormantPays
  <2>2. CASE wf # "none" /\ TaskStep(t)
    BY <1>0, <2>2, ReportsCalmly, StartsCalmly, CreateStagePays, EndsCalmly, FailurePays, ResetsCalmly,
       QueueRetryPays, ListsCalmly, CancelsCalmly DEF TaskStep
  <2>3. CASE wf # "none" /\ (EndsEarly(t) \/ ExtractionFails(t) \/ CreateFails(t) \/ QueueFails(t))
    BY <1>0, <2>3, EndsCalmly, GivesUpCalmly
  <2>4. CASE wf # "none" /\ \E j \in Jobs, o \in Ended : EndJob(t, j, o)
    BY <1>0, <2>4, EndPays
  <2>5. CASE \/ Pause(t) \/ Resume(t) \/ CancelRead(t) \/ QueryRead(t)
             \/ \E i \in DOMAIN stages : RetryStage(t, i)
    BY <1>0, <2>5, PauseOrRetryPays, ResumePays, ReadsCalmly
  <2>. QED  BY <1>4, <2>1, <2>2, <2>3, <2>4, <2>5
<1>5. CASE UNCHANGED vars
  <2>1. UNCHANGED <<wf, stages, attempts, row, stageOf, working, pc, job, pend, used>>
    BY <1>5 DEF vars, memory, db, tasks, counts
  <2>2. CASE wf = "none"
    <3>1. \A t \in Tasks : pc'[t] \in {"idle", "report"}
      BY <2>1, <2>2 DEF AInv, Over
    <3>. QED  BY <2>1, <2>2, <3>1, NobodyPays
  <2>3. CASE wf # "none"
    <3>1. \A j \in Jobs : (row'[j] # "none" => row[j] # "none") /\ (Alive(j)' => Alive(j))
      BY <2>1 DEF Alive
    <3>2. used' \in [Commands -> Nat] /\ used["retry"] <= used'["retry"] /\ used["pause"] <= used'["pause"]
      BY <2>1, NoneUsed
    <3>3. /\ \A x \in Stages : Positions(x) # {} => Positions(x)' # {}
          /\ \A u \in Tasks, s \in Stages :
                Coming(pc[u], job[u], pend[u], s)' => Coming(pc[u], job[u], pend[u], s)
      BY <2>1 DEF Positions, Coming
    <3>4. Singles'
      BY <2>1, <2>3 DEF AInv, Singles
    <3>. QED  BY <1>0, <2>1, <2>3, <3>1, <3>2, <3>3, <3>4, Calm
  <2>. QED  BY <2>2, <2>3
<1>. QED  BY <1>1, <1>2, <1>3, <1>4, <1>5, Zenon DEF Next

\* Before the start there is nothing to pay for.
LEMMA NothingYet == Init => AInv
<1> SUFFICES ASSUME Init
             PROVE  AInv
  OBVIOUS
<1>1. used \in [Commands -> Nat] /\ wf = "none" /\ Over
  BY DEF Init, Over
<1>2. ASSUME NEW s \in Stages
      PROVE  Cardinality({j \in Jobs : row[j] # "none" /\ stageOf[j] = s})
                <= 1 + Cardinality({x \in Retryable : x <= s}) * MaxAttempts + used["retry"] + used["pause"]
  <2>1. {j \in Jobs : row[j] # "none" /\ stageOf[j] = s} = {}
    BY DEF Init
  <2>2. Cardinality({j \in Jobs : row[j] # "none" /\ stageOf[j] = s}) = 0
    BY <2>1, FS_EmptySet
  <2>3. Cardinality({x \in Retryable : x <= s}) \in Nat /\ MaxAttempts \in Nat
    BY Finite, WorkflowAssumption, FS_Subset, FS_CardinalityType
  <2>4. used["retry"] = 0 /\ used["pause"] = 0
    BY DEF Init, Commands
  <2>5. Cardinality({x \in Retryable : x <= s}) * MaxAttempts \in Nat
    BY <2>3
  <2>. QED  BY <2>2, <2>4, <2>5
<1>3. AttemptLimit
  BY <1>2 DEF AttemptLimit
<1>. QED  BY <1>1, <1>3 DEF AInv

\* The account of every reachable state.
THEOREM LimitInvariant == Spec => []AInv
<1>1. WInv /\ AInv /\ [Next]_vars => AInv'
  BY StepPays
<1>. QED  BY <1>1, NothingYet, WorkflowInvariant, PTL DEF Spec

\* No stage is paid for more often than the strategies' limits and the commands allow,
\* for any number of handlers that report, retry, resume and recover at once.
THEOREM AttemptsLimited == Spec => []AttemptLimit
<1>1. AInv => AttemptLimit
  BY DEF AInv
<1>. QED  BY <1>1, LimitInvariant, PTL

--------------------------------------------------------------------------------
(* State and row.  As long as no command was given one thing at a time is under way: a job, or
   the handler of its end, which writes state and row before the next one is there. *)

NoCommandYet == \A c \in Commands : used[c] = 0

\* A handler that has queued a retry has handed over to the new job.
Moving(t) == pc[t] \notin {"idle", "replacing"}

OneAtATime ==
    /\ \A t, u \in Tasks : Moving(t) /\ Moving(u) => t = u
    /\ \A j, k \in Jobs : Alive(j) /\ Alive(k) => j = k
    /\ \A t \in Tasks, j \in Jobs : ~(Moving(t) /\ Alive(j))

\* Places that are only reached from a command.
Commanded == {"resuming", "canceling", "cancelState", "cancelRow", "recovering", "rerun"}

\* Places where the state has been written and the row will be.
Writing == {"completeRow", "failRow", "abortRow"}

HasEnded == wf \in {"completed", "failed"}

\* What a task at place p knows of state and row.
StateAt(p) ==
    /\ p \notin Commanded
    /\ p = "completeRow" => wf = "completed"
    /\ p \in {"failRow", "abortRow"} => wf = "failed"
    /\ p = "verdict" => wf = "failed" /\ master = "failed"
    /\ HasEnded => p \in Writing \cup {"idle", "replacing", "verdict"}

Alone ==
    /\ wf # "paused"
    /\ OneAtATime
    /\ \A t \in Tasks : StateAt(pc[t]) /\ then[t] # "none"
    /\ HasEnded => \A j \in Jobs : ~Alive(j)
    /\ HasEnded => master = wf \/ \E t \in Tasks : pc[t] \in Writing

SInv == NoCommandYet => Alone

\* What is known of the types, and of the life of a job.
LEMMA Basics ==
    ASSUME WInv
    PROVE  /\ pc \in [Tasks -> Places] /\ then \in [Tasks -> Goals]
           /\ row \in [Jobs -> {"none"} \cup Active \cup Ended] /\ working \subseteq Jobs
BY TypesOf DEF WInv, Shared

\* A step of the one task that moves, which makes no job: where it goes on it knows what it has to.
LEMMA OneMoves ==
    ASSUME WInv, WInv', Alone, NEW t \in Tasks, Moving(t), NEW p,
           pc' = [pc EXCEPT ![t] = p], \A u \in Tasks : then'[u] # "none",
           UNCHANGED <<row, working>>, wf' # "paused", StateAt(p)',
           HasEnded' => master' = wf' \/ p \in Writing
    PROVE  Alone'
<1>1. pc \in [Tasks -> Places] /\ pc'[t] = p /\ \A u \in Tasks \ {t} : pc'[u] = pc[u]
  BY Basics
<1>2. \A u \in Tasks \ {t} : pc[u] \in {"idle", "replacing"}
  BY DEF Alone, OneAtATime, Moving
<1>3. \A j \in Jobs : ~Alive(j)'
  BY DEF Alone, OneAtATime, Alive
<1>4. OneAtATime'
  BY <1>1, <1>2, <1>3 DEF OneAtATime, Moving
<1>5. \A u \in Tasks \ {t} : StateAt(pc[u])'
  BY <1>1, <1>2 DEF StateAt, Commanded
<1>6. \A u \in Tasks : StateAt(pc[u])'
  <2>1. StateAt(pc[t])'
    BY <1>1 DEF StateAt, HasEnded
  <2>. QED  BY <1>5, <2>1
<1>7. HasEnded' => master' = wf' \/ \E u \in Tasks : pc'[u] \in Writing
  BY <1>1
<1>. QED  BY <1>3, <1>4, <1>6, <1>7 DEF Alone

\* The task hands over to a job that it makes, and nobody moves any more.
LEMMA OneHandsOver ==
    ASSUME WInv, Alone, NEW t \in Tasks, Moving(t), NEW p \in {"idle", "replacing"},
           pc[t] \in {"creating", "queueing"},
           pc' = [pc EXCEPT ![t] = p], then' = then, wf' = wf, master' = master, working' = working,
           NEW k \in Jobs, row' = [row EXCEPT ![k] = "queued"]
    PROVE  Alone'
<1>1. pc \in [Tasks -> Places] /\ pc'[t] = p /\ \A u \in Tasks \ {t} : pc'[u] = pc[u]
  BY Basics
<1>2. \A u \in Tasks : pc'[u] \in {"idle", "replacing"}
  BY <1>1 DEF Alone, OneAtATime, Moving
<1>3. \A j \in Jobs : Alive(j)' => j = k
  BY Basics DEF Alone, OneAtATime, Alive
<1>4. OneAtATime'
  BY <1>2, <1>3 DEF OneAtATime, Moving
<1>5. ~HasEnded /\ ~HasEnded'
  BY DEF Alone, StateAt, Writing, HasEnded
<1>6. \A u \in Tasks : StateAt(pc[u])'
  BY <1>2, <1>5 DEF StateAt, Commanded
<1>. QED  BY <1>4, <1>5, <1>6 DEF Alone

\* The end of a completed stage, and of a workflow.
LEMMA StateOfCompletion ==
    ASSUME WInv, WInv', AInv, Alone, NEW t \in Tasks,
           StageCompleted(t) \/ EndsEarly(t) \/ ExtractionFails(t) \/ MarkCompleted(t)
    PROVE  Alone'
<1>1. Moving(t) /\ then[t] # "none" /\ StateAt(pc[t])
  BY DEF Alone, Moving, StageCompleted, EndsEarly, ExtractionFails, MarkCompleted
<1>2. CASE StageCompleted(t) \/ EndsEarly(t) \/ ExtractionFails(t)
  <2>1. ~HasEnded
    BY <1>1, <1>2 DEF StateAt, Writing, StageCompleted, EndsEarly, ExtractionFails
  <2>2. UNCHANGED <<wf, master, row, working, then>>
    BY <1>2 DEF StageCompleted, EndsEarly, ExtractionFails, memory, db
  <2>3. PICK p \in {"idle", "creating", "fail", "complete", "failing"} : pc' = [pc EXCEPT ![t] = p]
    BY <1>2 DEF StageCompleted, EndsEarly, ExtractionFails, Goto
  <2>4. StateAt(p)' /\ ~HasEnded'
    BY <2>1, <2>2, <2>3 DEF StateAt, HasEnded, Commanded
  <2>. QED  BY <1>1, <2>2, <2>3, <2>4, OneMoves DEF Alone
<1>3. CASE MarkCompleted(t)
  <2>1. wf # "completed"
    BY <1>1, <1>3 DEF StateAt, Writing, HasEnded, MarkCompleted
  <2>2. /\ wf' = "completed" /\ pc' = [pc EXCEPT ![t] = "completeRow"]
        /\ UNCHANGED <<row, working, then>>
    BY <1>3, <2>1 DEF MarkCompleted, Goto, db
  <2>3. StateAt("completeRow")'
    BY <2>2 DEF StateAt, Writing, Commanded
  <2>. QED  BY <1>1, <2>2, <2>3, OneMoves DEF Alone, Writing
<1>. QED  BY <1>2, <1>3

\* The end of a failed workflow, and the rows.
LEMMA StateOfEnd ==
    ASSUME WInv, WInv', AInv, Alone, NEW t \in Tasks,
           MarkFailed(t) \/ MarkMaster(t) \/ Verdict(t)
    PROVE  Alone'
<1>1. Moving(t) /\ then[t] # "none" /\ StateAt(pc[t])
  BY DEF Alone, Moving, MarkFailed, MarkMaster, Verdict
<1>2. CASE MarkFailed(t)
  <2>1. PICK p \in {"failRow", "abortRow"} : pc' = [pc EXCEPT ![t] = p]
    BY <1>2 DEF MarkFailed, Goto
  <2>2. wf' = "failed" /\ UNCHANGED <<row, working, then>>
    BY <1>2 DEF MarkFailed, db
  <2>3. StateAt(p)'
    BY <2>1, <2>2 DEF StateAt, Writing, Commanded
  <2>. QED  BY <1>1, <2>1, <2>2, <2>3, OneMoves DEF Alone, Writing
<1>3. CASE MarkMaster(t)
  <2>1. PICK p : p = (IF pc[t] = "abortRow" THEN "verdict" ELSE "idle")
    OBVIOUS
  <2>2. pc' = [pc EXCEPT ![t] = p] /\ UNCHANGED <<wf, row, working, then>>
    BY <1>1, <1>3, <2>1 DEF MarkMaster, Return, Goto, memory
  <2>3. HasEnded /\ master' = wf
    BY <1>1, <1>3 DEF MarkMaster, StateAt, HasEnded
  <2>4. StateAt(p)'
    BY <1>1, <2>1, <2>2, <2>3 DEF StateAt, Writing, Commanded
  <2>. QED  BY <1>1, <2>2, <2>3, <2>4, OneMoves DEF Alone
<1>4. CASE Verdict(t)
  <2>1. /\ pc' = [pc EXCEPT ![t] = "idle"] /\ wf' = "failed" /\ master' = "failed"
        /\ UNCHANGED <<row, working, then>>
    BY <1>1, <1>4 DEF Verdict, Return, Goto, db, StateAt
  <2>2. StateAt("idle")'
    BY DEF StateAt, Commanded
  <2>. QED  BY <1>1, <2>1, <2>2, OneMoves DEF Alone
<1>. QED  BY <1>2, <1>3, <1>4

\* A failed stage, up to its retry.
LEMMA StateOfFailure ==
    ASSUME WInv, WInv', AInv, Alone, NEW t \in Tasks,
           StageFailed(t) \/ ResetLater(t) \/ QueueFails(t) \/ CreateFails(t)
    PROVE  Alone'
<1>1. Moving(t) /\ StateAt(pc[t])
  BY DEF Alone, Moving, StageFailed, ResetLater, QueueFails, CreateFails
<1>2. ~HasEnded
  BY <1>1 DEF StateAt, Writing, StageFailed, ResetLater, QueueFails, CreateFails
<1>3. UNCHANGED <<wf, master, row, working>>
  BY DEF StageFailed, ResetLater, QueueFails, CreateFails, memory, db
<1>4. \A u \in Tasks : then'[u] # "none"
  BY Basics DEF Alone, StageFailed, ResetLater, QueueFails, CreateFails
<1>5. PICK p \in {"resetting", "queueing", "abort", "idle", "creating"} : pc' = [pc EXCEPT ![t] = p]
  BY DEF StageFailed, ResetLater, QueueFails, CreateFails, Goto
<1>6. StateAt(p)' /\ ~HasEnded'
  BY <1>2, <1>3, <1>5 DEF StateAt, HasEnded, Commanded
<1>. QED  BY <1>1, <1>3, <1>4, <1>5, <1>6, OneMoves DEF Alone

\* A report goes on as a completion or a failure, or was of a canceled job.
LEMMA StateOfReport ==
    ASSUME WInv, WInv', Alone, NEW t \in Tasks, Report(t)
    PROVE  Alone'
<1>1. pc[t] = "report" /\ Moving(t) /\ StateAt(pc[t])
  BY DEF Alone, Moving, Report
<1>2. ~HasEnded
  BY <1>1 DEF StateAt, Writing
<1>3. then[t] \in Ended
  BY <1>1 DEF WInv, Work, WorkOf
<1>4. UNCHANGED <<master, row, working>> /\ \A u \in Tasks : then'[u] # "none"
  BY Basics DEF Alone, Report, db
<1>5. /\ wf' = wf \/ wf' = "canceled"
      /\ \E p \in {"idle", "completing", "failing"} : pc' = [pc EXCEPT ![t] = p]
  BY <1>3 DEF Report, Goto, memory, Ended
<1>6. PICK p \in {"idle", "completing", "failing"} : pc' = [pc EXCEPT ![t] = p]
  BY <1>5
<1>7. StateAt(p)' /\ ~HasEnded' /\ wf' # "paused"
  BY <1>2, <1>5, <1>6 DEF Alone, StateAt, HasEnded, Commanded
<1>. QED  BY <1>1, <1>4, <1>6, <1>7, OneMoves

\* A handler that makes a job is done with it: there is one next stage.
LEMMA StateOfCreation ==
    ASSUME WInv, AInv, Alone, NEW t \in Tasks, CreateStage(t) \/ QueueRetry(t)
    PROVE  Alone'
<1>1. PICK s : InsertRow(s)
  BY DEF CreateStage, QueueRetry
<1>2. FreeJob \in Jobs /\ row' = [row EXCEPT ![FreeJob] = "queued"] /\ master' = master
  BY <1>1, Free DEF InsertRow
<1>3. wf # "none" => Singles
  BY DEF AInv
<1>4. CASE CreateStage(t)
  <2>1. pc[t] = "creating" /\ Moving(t) /\ wf # "none"
    BY <1>4 DEF CreateStage, Moving, AInv, Over
  <2>2. pc' = [pc EXCEPT ![t] = "idle"]
    BY <1>3, <1>4, <2>1 DEF CreateStage, Goto, Singles
  <2>3. UNCHANGED <<wf, then, working>>
    BY <1>4 DEF CreateStage
  <2>. QED  BY <1>2, <2>1, <2>2, <2>3, OneHandsOver
<1>5. CASE QueueRetry(t)
  <2>1. /\ pc[t] = "queueing" /\ Moving(t) /\ pc' = [pc EXCEPT ![t] = "replacing"]
        /\ UNCHANGED <<wf, then, working>>
    BY <1>5 DEF QueueRetry, Moving, Goto, memory
  <2>. QED  BY <1>2, <2>1, OneHandsOver
<1>. QED  BY <1>4, <1>5

\* A handler that has queued a retry lists it, whatever the new job and its handler do meanwhile.
LEMMA StateOfReplacing ==
    ASSUME WInv, Alone, NEW t \in Tasks, Supersede(t)
    PROVE  Alone'
<1>1. pc[t] = "replacing" /\ then[t] # "none"
  BY DEF Alone, Supersede
<1>2. pc' = [pc EXCEPT ![t] = "idle"] /\ UNCHANGED <<wf, then, working, row, master>>
  BY <1>1 DEF Supersede, Goto, db
<1>3. \A u \in Tasks : pc'[u] = IF u = t THEN "idle" ELSE pc[u]
  BY <1>2, Basics
<1>4. OneAtATime'
  BY <1>1, <1>2, <1>3 DEF Alone, OneAtATime, Moving, Alive
<1>5. ASSUME NEW u \in Tasks
      PROVE  StateAt(pc[u])'
  BY <1>2, <1>3 DEF Alone, StateAt, HasEnded, Commanded
<1>6. HasEnded' => master' = wf' \/ \E u \in Tasks : pc'[u] \in Writing
  <2>1. \A u \in Tasks : pc[u] \in Writing => pc'[u] \in Writing
    BY <1>1, <1>3 DEF Writing
  <2>. QED  BY <1>2, <2>1 DEF Alone, HasEnded
<1>7. HasEnded' => \A j \in Jobs : ~Alive(j)'
  BY <1>2 DEF Alone, HasEnded, Alive
<1>. QED  BY <1>2, <1>4, <1>5, <1>6, <1>7 DEF Alone

\* A job runs, and ends in the hands of its handler.
LEMMA StateOfJob ==
    ASSUME WInv, WInv', Alone, NEW j \in Jobs,
           RunJob(j) \/ \E t \in Tasks, o \in Ended : EndJob(t, j, o)
    PROVE  Alone'
<1>1. Alive(j)
  BY DEF RunJob, EndJob, Alive
<1>2. ~HasEnded /\ (\A k \in Jobs : Alive(k) => k = j) /\ \A u \in Tasks : ~Moving(u)
  BY <1>1 DEF Alone, OneAtATime
<1>3. CASE RunJob(j)
  <2>1. UNCHANGED <<wf, master, pc, then>> /\ row' = [row EXCEPT ![j] = "running"] /\ working' = working \cup {j}
    BY <1>3 DEF RunJob, memory, tasks
  <2>2. \A k \in Jobs : Alive(k)' => k = j
    BY <1>2, <2>1, Basics DEF Alive
  <2>3. OneAtATime'
    BY <1>2, <2>1, <2>2 DEF OneAtATime, Moving
  <2>4. \A u \in Tasks : StateAt(pc[u])'
    BY <2>1 DEF Alone, StateAt, HasEnded
  <2>. QED  BY <1>2, <2>1, <2>3, <2>4 DEF Alone, HasEnded
<1>4. CASE \E t \in Tasks, o \in Ended : EndJob(t, j, o)
  <2>1. PICK t \in Tasks, o \in Ended : EndJob(t, j, o)
    BY <1>4
  <2>2. /\ UNCHANGED <<wf, master>> /\ row' = [row EXCEPT ![j] = o] /\ working' = working \ {j}
        /\ pc' = [pc EXCEPT ![t] = "report"] /\ then' = [then EXCEPT ![t] = o]
    BY <2>1 DEF EndJob, Goto, memory
  <2>3. \A k \in Jobs : ~Alive(k)'
    BY <1>2, <2>2, Basics DEF Alive, Ended
  <2>4. \A u \in Tasks : /\ pc'[u] = IF u = t THEN "report" ELSE pc[u]
                         /\ then'[u] # "none"
    BY <2>2, Basics DEF Alone, Ended
  <2>5. OneAtATime'
    BY <1>2, <2>3, <2>4 DEF OneAtATime, Moving
  <2>6. \A u \in Tasks : StateAt(pc[u])'
    BY <1>2, <2>2, <2>4 DEF Alone, StateAt, HasEnded, Commanded
  <2>. QED  BY <1>2, <2>2, <2>3, <2>4, <2>5, <2>6 DEF Alone, HasEnded
<1>. QED  BY <1>3, <1>4

\* The first job is the first thing that is under way; the end of the process leaves a queued one.
LEMMA StateOfProcess ==
    ASSUME WInv, AInv, Alone, Start \/ Crash
    PROVE  Alone'
<1>1. CASE Start
  <2>1. /\ wf = "none" /\ wf' = "running" /\ (\A j \in Jobs : row[j] = "none") /\ InsertRow(1)
        /\ UNCHANGED <<working, pc, then>>
    BY <1>1 DEF Start, tasks
  <2>2. FreeJob \in Jobs /\ row' = [row EXCEPT ![FreeJob] = "queued"]
    BY <2>1, Free DEF InsertRow
  <2>3. working = {}
    BY <2>1, Basics DEF WInv, Hands
  <2>4. \A u \in Tasks : pc[u] = "idle"
    <3>1. \A u \in Tasks : pc[u] \in {"idle", "report"} /\ job[u] \in Jobs
      BY <2>1, Shape DEF AInv, Over
    <3>2. \A u \in Tasks : pc[u] = "report" => row[job[u]] # "none"
      BY DEF WInv, Work, WorkOf, Born
    <3>. QED  BY <2>1, <3>1, <3>2
  <2>5. \A k \in Jobs : Alive(k)' => k = FreeJob
    BY <2>1, <2>2, <2>3 DEF Alive
  <2>6. OneAtATime'
    BY <2>1, <2>4, <2>5 DEF OneAtATime, Moving
  <2>7. \A u \in Tasks : StateAt(pc[u])'
    BY <2>1, <2>4 DEF StateAt, HasEnded, Commanded
  <2>. QED  BY <2>1, <2>6, <2>7 DEF Alone, HasEnded
<1>2. CASE Crash
  <2>1. /\ wf' = "none" /\ working' = {} /\ row' = row
        /\ \A u \in Tasks : pc'[u] = "idle" /\ then'[u] = "idle"
    BY <1>2 DEF Crash, db
  <2>2. OneAtATime'
    BY <2>1 DEF Alone, OneAtATime, Moving, Alive
  <2>3. \A u \in Tasks : StateAt(pc[u])'
    BY <2>1 DEF StateAt, HasEnded, Commanded
  <2>. QED  BY <2>1, <2>2, <2>3 DEF Alone, HasEnded
<1>. QED  BY <1>1, <1>2

\* What a command does is no concern of the property; what only follows from one does not happen.
LEMMA NothingCommanded ==
    ASSUME AInv, Alone, NEW t \in Tasks,
           \/ Resume(t) \/ StartNext(t) \/ CancelJob(t) \/ CancelState(t) \/ CancelRow(t)
           \/ Recover(t) \/ Rerun(t)
    PROVE  FALSE
<1>1. wf # "paused" /\ pc[t] \notin Commanded
  BY DEF Alone, StateAt
<1>2. ~Resume(t)
  BY <1>1 DEF Resume
<1>3. ~StartNext(t) /\ ~CancelJob(t) /\ ~CancelState(t) /\ ~CancelRow(t)
  BY <1>1 DEF Commanded, StartNext, CancelJob, CancelState, CancelRow
<1>4. ~Recover(t)
  BY <1>1, Zenon DEF Commanded, Recover
<1>5. ~Rerun(t)
  BY <1>1 DEF Commanded, Rerun
<1>. QED  BY <1>2, <1>3, <1>4, <1>5

\* A command is counted for good.
LEMMA CommandsCounted ==
    ASSUME AInv, AInv', NoCommandYet', [Next]_vars
    PROVE  used' = used /\ NoCommandYet
<1>1. used \in [Commands -> Nat] /\ used' \in [Commands -> Nat]
  BY DEF AInv
<1>2. ASSUME NEW c \in Commands, used' = [used EXCEPT ![c] = @ + 1]
      PROVE  FALSE
  <2>1. used'[c] = used[c] + 1 /\ used[c] \in Nat
    BY <1>1, <1>2
  <2>. QED  BY <2>1 DEF NoCommandYet
<1>3. ASSUME Start \/ Crash \/ (\E j \in Jobs : RunJob(j)) \/ UNCHANGED vars
      PROVE  used' = used
  BY <1>3 DEF Start, Crash, RunJob, counts, vars
<1>4. ASSUME NEW t \in Tasks, TaskStep(t)
      PROVE  used' = used
  <2>1. CASE Report(t) \/ CreateStage(t) \/ MarkCompleted(t) \/ MarkFailed(t)
    BY <2>1, Zenon DEF Report, CreateStage, MarkCompleted, MarkFailed, counts
  <2>6. CASE StageCompleted(t)
    BY <2>6 DEF StageCompleted, counts
  <2>2. CASE MarkMaster(t) \/ StageFailed(t) \/ ResetLater(t) \/ QueueRetry(t) \/ Supersede(t) \/ Verdict(t)
    BY <2>2 DEF MarkMaster, StageFailed, ResetLater, QueueRetry, Supersede, Verdict, counts
  <2>3. CASE StartNext(t) \/ CancelJob(t) \/ CancelState(t) \/ CancelRow(t)
    BY <2>3 DEF StartNext, CancelJob, CancelState, CancelRow, counts
  <2>4. CASE Recover(t)
    BY <2>4, Zenon DEF Recover, counts
  <2>5. CASE Rerun(t)
    BY <2>5 DEF Rerun, counts
  <2>. QED  BY <1>4, <2>1, <2>2, <2>3, <2>4, <2>5, <2>6 DEF TaskStep
<1>5. ASSUME NEW t \in Tasks,
             \/ EndsEarly(t) \/ ExtractionFails(t) \/ CreateFails(t) \/ QueueFails(t) \/ Resume(t)
             \/ \E j \in Jobs, o \in Ended : EndJob(t, j, o)
      PROVE  used' = used
  BY <1>5 DEF EndsEarly, ExtractionFails, CreateFails, QueueFails, Resume, EndJob, counts
<1>6. ASSUME NEW t \in Tasks,
             \/ Pause(t) \/ CancelRead(t) \/ QueryRead(t)
             \/ \E i \in DOMAIN stages : RetryStage(t, i)
      PROVE  FALSE
  <2>1. \E c \in Commands : Begin(t, c)
    BY <1>6 DEF Pause, CancelRead, QueryRead, RetryStage, Commands
  <2>. QED  BY <1>2, <2>1 DEF Begin
<1>7. used' = used
  BY <1>3, <1>4, <1>5, <1>6, Zenon DEF Next
<1>. QED  BY <1>7 DEF NoCommandYet

\* Every step without a command keeps it.
LEMMA StepAlone ==
    ASSUME WInv, WInv', AInv, AInv', SInv, [Next]_vars
    PROVE  SInv'
<1> SUFFICES ASSUME NoCommandYet'
             PROVE  Alone'
  BY DEF SInv
<1>1. used' = used /\ Alone
  BY CommandsCounted DEF SInv
<1>2. CASE Start \/ Crash
  BY <1>1, <1>2, StateOfProcess
<1>3. ASSUME NEW j \in Jobs, RunJob(j)
      PROVE  Alone'
  BY <1>1, <1>3, StateOfJob
<1>4. ASSUME NEW t \in Tasks, TaskStep(t)
      PROVE  Alone'
  BY <1>1, <1>4, StateOfReport, StateOfCompletion, StateOfCreation, StateOfEnd, StateOfFailure,
     StateOfReplacing, NothingCommanded DEF TaskStep
<1>5. ASSUME NEW t \in Tasks,
             EndsEarly(t) \/ ExtractionFails(t) \/ CreateFails(t) \/ QueueFails(t)
      PROVE  Alone'
  BY <1>1, <1>5, StateOfCompletion, StateOfFailure
<1>6. ASSUME NEW t \in Tasks, \E j \in Jobs, o \in Ended : EndJob(t, j, o)
      PROVE  Alone'
  <2>1. PICK j \in Jobs : \E o \in Ended : EndJob(t, j, o)
    BY <1>6
  <2>. QED  BY <1>1, <2>1, StateOfJob
<1>7. ASSUME NEW t \in Tasks,
             \/ Pause(t) \/ Resume(t) \/ CancelRead(t) \/ QueryRead(t)
             \/ \E i \in DOMAIN stages : RetryStage(t, i)
      PROVE  Alone'
  <2>1. CASE Resume(t)
    BY <1>1, <2>1, NothingCommanded
  <2>2. ASSUME NEW c \in Commands, Begin(t, c)
        PROVE  FALSE
    <3>1. used[c] \in Nat /\ used \in [Commands -> Nat]
      BY DEF AInv
    <3>2. used'[c] = used[c] + 1
      BY <2>2, <3>1 DEF Begin
    <3>. QED  BY <1>1, <3>1, <3>2
  <2>3. CASE \/ Pause(t) \/ CancelRead(t) \/ QueryRead(t)
             \/ \E i \in DOMAIN stages : RetryStage(t, i)
    BY <2>2, <2>3 DEF Pause, CancelRead, QueryRead, RetryStage, Commands
  <2>. QED  BY <1>7, <2>1, <2>3
<1>8. CASE UNCHANGED vars
  <2>1. UNCHANGED <<wf, row, master, working, pc, then>>
    BY <1>8 DEF vars, memory, db, tasks
  <2>. QED  BY <1>1, <2>1 DEF Alone, OneAtATime, Moving, Alive, StateAt, HasEnded
<1>. QED  BY <1>2, <1>3, <1>4, <1>5, <1>6, <1>7, <1>8, Zenon DEF Next

\* Nothing is under way at first.
LEMMA NobodyYet == Init => SInv
<1> SUFFICES ASSUME Init
             PROVE  Alone
  BY DEF SInv
<1>1. wf = "none" /\ working = {} /\ \A j \in Jobs : row[j] = "none"
  BY DEF Init
<1>2. \A t \in Tasks : pc[t] = "idle" /\ then[t] = "idle"
  BY DEF Init
<1>. QED  BY <1>1, <1>2 DEF Alone, OneAtATime, Moving, Alive, StateAt, HasEnded, Commanded

\* As long as no command was given, when no handler is at work the workflow's row says how the
\* workflow ended, for any number of handlers, stages, retries and failed statements.
THEOREM RowFollows == Spec => []RowFollowsState
<1>1. SInv => RowFollowsState
  <2> SUFFICES ASSUME SInv, NoCommandYet, HasEnded, \A t \in Tasks : pc[t] = "idle"
               PROVE  master = wf
    BY DEF RowFollowsState, NoCommandYet, HasEnded
  <2>1. master = wf \/ \E t \in Tasks : pc[t] \in Writing
    BY DEF SInv, Alone
  <2>. QED  BY <2>1 DEF Writing
<1>2. WInv /\ WInv' /\ AInv /\ AInv' /\ SInv /\ [Next]_vars => SInv'
  BY StepAlone
<1>. QED  BY <1>1, <1>2, NobodyYet, WorkflowInvariant, LimitInvariant, PTL DEF Spec
===============================================================================
