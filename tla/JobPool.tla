-------------------------------- MODULE JobPool --------------------------------
(***************************************************************************)
(* What the desktop's job queue promises its callers, with neither the      *)
(* channel nor the actor behind it: one pool of waiting jobs, each call      *)
(* takes effect at a single instant between its start and its return, and    *)
(* a shutdown, which nobody waits for, happens some time after it was asked. *)
(***************************************************************************)
EXTENDS Naturals

CONSTANTS
    Jobs,      \* ids of jobs
    Callers,   \* tasks that use the queue: workers, commands, the recovery
    Calls,     \* the calls the tasks make, records [op, jobs, prio, delay]
    MaxTime    \* bound: how far the clock runs

VARIABLES
    pool,      \* the waiting jobs: [job, prio, after]
    state,     \* "open", "closing" (a shutdown was asked for) or "closed"
    now,       \* the clock
    call,      \* what each task is asking for
    answer     \* what its call was answered

vars == <<pool, state, now, call, answer>>

Idle == [op |-> "idle", jobs |-> {}, prio |-> 0, delay |-> 0]
NoAnswer == [kind |-> "none", jobs |-> {}]
Ok(js) == [kind |-> "ok", jobs |-> js]
Error == [kind |-> "error", jobs |-> {}]

Init ==
    /\ pool = {}
    /\ state = "open"
    /\ now = 0
    /\ call = [c \in Callers |-> Idle]
    /\ answer = [c \in Callers |-> NoAnswer]

Call(c) ==
    /\ call[c] = Idle
    /\ \E k \in Calls : call' = [call EXCEPT ![c] = k]
    /\ UNCHANGED <<pool, state, now, answer>>

\* Call c of kind op has been made and has had no effect yet.
Pending(c, op) == call[c].op = op /\ answer[c] = NoAnswer

Enqueue(c) ==
    /\ Pending(c, "enqueue")
    /\ state # "closed"
    /\ pool' = pool \cup {[job |-> j, prio |-> call[c].prio,
                           after |-> IF call[c].delay = 0 THEN 0 ELSE now + call[c].delay] :
                             j \in call[c].jobs}
    /\ answer' = [answer EXCEPT ![c] = Ok({})]
    /\ UNCHANGED <<state, now, call>>

Due == {e \in pool : e.after <= now}

\* A due job of the highest priority that has one; none only if none is due.
Dequeue(c) ==
    /\ Pending(c, "dequeue")
    /\ state # "closed"
    /\ \/ \E e \in Due :
            /\ \A d \in Due : d.prio <= e.prio
            /\ pool' = pool \ {e}
            /\ answer' = [answer EXCEPT ![c] = Ok({e.job})]
       \/ /\ Due = {}
          /\ pool' = pool
          /\ answer' = [answer EXCEPT ![c] = Ok({})]
    /\ UNCHANGED <<state, now, call>>

\* cancel_job and cancel_session_jobs: exactly the named jobs that wait leave.
Cancel(c) ==
    LET hit == {e \in pool : e.job \in call[c].jobs} IN
    /\ Pending(c, "cancel") \/ Pending(c, "cancel_session")
    /\ state # "closed"
    /\ pool' = pool \ hit
    /\ answer' = [answer EXCEPT ![c] = Ok({e.job : e \in hit})]
    /\ UNCHANGED <<state, now, call>>

AskShutdown(c) ==
    /\ Pending(c, "shutdown")
    /\ state' = IF state = "closed" THEN "closed" ELSE "closing"
    /\ answer' = [answer EXCEPT ![c] = Ok({})]
    /\ UNCHANGED <<pool, now, call>>

Close ==
    /\ state = "closing"
    /\ state' = "closed"
    /\ pool' = {}
    /\ UNCHANGED <<now, call, answer>>

\* A closed pool hands out nothing and takes nothing.
Refuse(c) ==
    /\ state = "closed"
    /\ call[c] # Idle /\ call[c].op # "shutdown"
    /\ answer[c] = NoAnswer
    /\ answer' = [answer EXCEPT ![c] =
                    IF call[c].op = "dequeue" THEN Ok({}) ELSE Error]
    /\ UNCHANGED <<pool, state, now, call>>

Return(c) ==
    /\ answer[c] # NoAnswer
    /\ call' = [call EXCEPT ![c] = Idle]
    /\ answer' = [answer EXCEPT ![c] = NoAnswer]
    /\ UNCHANGED <<pool, state, now>>

Tick ==
    /\ now < MaxTime
    /\ now' = now + 1
    /\ UNCHANGED <<pool, state, call, answer>>

Next ==
    \/ \E c \in Callers :
        \/ Call(c) \/ Enqueue(c) \/ Dequeue(c) \/ Cancel(c)
        \/ AskShutdown(c) \/ Refuse(c) \/ Return(c)
    \/ Close
    \/ Tick

Spec == Init /\ [][Next]_vars
================================================================================
