--------------------------------- MODULE MCLive ---------------------------------
(***************************************************************************)
(* The liveness of three components side by side: the initial state chooses *)
(* one (part), and that one runs under its own fairness while the others    *)
(* stand still.  One check of the temporal properties serves all.           *)
(***************************************************************************)
EXTENDS Naturals, Sequences

CONSTANTS
    j1, j2, c1, c2, c3, t1, t2, w1

VARIABLES
    part,
    qQueues, qChannel, qRunning, qNow, qCall, qSent, qAnswer,
    wWf, wStages, wAttempts, wRow, wStageOf, wMaster, wWorking, wPc, wJob,
    wPend, wThen, wEarly, wUsed, wErrors, wCrashes,
    eUp, eStatus, eRetry, eQueue, ePc, eCur, eResult, eCmd, eTarget,
    eExecs, eTold, ePromised, eCrashes, eDbErrors

qVars == <<qQueues, qChannel, qRunning, qNow, qCall, qSent, qAnswer>>
wVars == <<wWf, wStages, wAttempts, wRow, wStageOf, wMaster, wWorking, wPc, wJob,
           wPend, wThen, wEarly, wUsed, wErrors, wCrashes>>
eVars == <<eUp, eStatus, eRetry, eQueue, ePc, eCur, eResult, eCmd, eTarget,
           eExecs, eTold, ePromised, eCrashes, eDbErrors>>
vars == <<part, qVars, wVars, eVars>>

Call(op, js, p) == [op |-> op, jobs |-> js, prio |-> p, delay |-> 0]

\* Three callers compete for a channel that two messages fill.
Q == INSTANCE JobQueue WITH
    Jobs <- {j1}, Callers <- {c1, c2, c3}, ChannelCap <- 2, MaxTime <- 0,
    Calls <- {Call("enqueue", {j1}, 1), Call("dequeue", {}, 0),
              Call("cancel", {j1}, 0), Call("shutdown", {}, 0)},
    queues <- qQueues, channel <- qChannel, running <- qRunning, now <- qNow,
    call <- qCall, sent <- qSent, answer <- qAnswer

\* Four stages that may fail, give unusable results or end the workflow.
W == INSTANCE WorkflowOrchestrator WITH
    Tasks <- {t1, t2}, NumStages <- 4, EarlyEnd <- {2}, Retryable <- {},
    MaxAttempts <- 0, RetryFrom <- {}, MaxJobs <- 4, MaxErrors <- 0, MaxCrashes <- 0,
    MaxCommands <- [c \in {"cancel", "pause", "retry", "query"} |-> 0],
    wf <- wWf, stages <- wStages, attempts <- wAttempts, row <- wRow,
    stageOf <- wStageOf, master <- wMaster, working <- wWorking, pc <- wPc,
    job <- wJob, pend <- wPend, then <- wThen, early <- wEarly, used <- wUsed,
    errors <- wErrors, crashes <- wCrashes

\* Two jobs of one session, one of them a workflow's, that may be tried twice, and one
\* worker that is busy with one of them while the other one waits.
E == INSTANCE JobDispatch WITH
    Jobs <- {j1, j2}, Workers <- {w1}, Clients <- {c1},
    WorkflowJobs <- {j2}, MasterJobs <- {}, PlanJobs <- {}, Sessions <- {{j1, j2}},
    MaxRetry <- 1, MaxCrashes <- 0, MaxDbErrors <- 0,
    up <- eUp, status <- eStatus, retry <- eRetry, queue <- eQueue, pc <- ePc,
    cur <- eCur, result <- eResult, cmd <- eCmd, target <- eTarget, execs <- eExecs,
    told <- eTold, promised <- ePromised, crashes <- eCrashes, dbErrors <- eDbErrors

Init == part \in {"queue", "workflow", "engine"} /\ Q!Init /\ W!Init /\ E!Init

Next ==
    /\ UNCHANGED part
    /\ \/ part = "queue" /\ Q!Next /\ UNCHANGED <<wVars, eVars>>
       \/ part = "workflow" /\ W!Next /\ UNCHANGED <<qVars, eVars>>
       \/ part = "engine" /\ E!Next /\ UNCHANGED <<qVars, wVars>>

\* The fairness of the three modules, for the part that runs: the other two stand
\* still with steps enabled.
FairSpec ==
    /\ Init /\ [][Next]_vars
    /\ WF_qVars(part = "queue" /\ Q!Process)
    /\ \A c \in {c1, c2, c3} :
          /\ SF_qVars(part = "queue" /\ Q!Send(c))
          /\ WF_qVars(part = "queue" /\ Q!Disconnected(c))
          /\ WF_qVars(part = "queue" /\ Q!Return(c))
    /\ \A t \in {t1, t2} : WF_wVars(part = "workflow" /\ W!TaskStep(t))
    /\ \A j \in W!Jobs :
          /\ WF_wVars(part = "workflow" /\ W!RunJob(j))
          /\ WF_wVars(part = "workflow" /\ \E t \in {t1, t2} : \E o \in W!Ended : W!EndJob(t, j, o))
    /\ WF_eVars(part = "engine" /\ E!WorkerStep(w1))
    /\ WF_eVars(part = "engine" /\ E!CommandStep(c1))
    /\ WF_eVars(part = "engine" /\ \E i \in 1 .. Len(eQueue) : E!DelayElapses(i))
    /\ WF_eVars(part = "engine" /\ E!StartJobSystem({}, {}))

\* Every call of the queue returns, also when a shutdown leaves its message
\* unread (JobQueue).
EveryCallReturns == part = "queue" => Q!EveryCallReturns

\* A workflow and its row end (WorkflowOrchestrator).
WorkflowEnds == part = "workflow" => W!WorkflowEnds

\* Every job that is queued settles, the retried ones too (JobDispatch).
EveryJobSettles == part = "engine" => E!EveryJobSettles
================================================================================
