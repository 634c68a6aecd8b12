-------------------------------- MODULE JobQueue --------------------------------
(***************************************************************************)
(* The desktop's job queue, jobs/queue.rs: callers put a message with a      *)
(* one-shot reply channel into a bounded mpsc channel and wait; one spawned  *)
(* task (JobQueueProcessor::run) owns the three deques and takes one message *)
(* at a time.  JobPool says what the callers may rely on.                    *)
(*                                                                          *)
(* Permits, retry counts and the "requires attention" log are left out: the  *)
(* semaphore has as many permits as there are workers, only the orchestrator *)
(* counts and asks (WorkflowOrchestrator), and the log changes no state.     *)
(***************************************************************************)
EXTENDS Naturals, Sequences, SequencesExt

CONSTANTS
    Jobs,        \* ids of jobs
    Callers,     \* tasks that use the queue: workers, commands, the recovery
    Calls,       \* the calls the tasks make, records [op, jobs, prio, delay]
    ChannelCap,  \* capacity of the mpsc channel
    MaxTime      \* bound: how far the clock runs

VARIABLES
    queues,      \* JobQueueProcessor.queues: a deque for each priority
    channel,     \* the mpsc channel: [from, msg]
    running,     \* the processor task has not returned
    now,         \* SystemTime::now
    call,        \* the method each caller is in
    sent,        \* the callers whose message has entered the channel
    answer       \* what the one-shot channel of each caller carries

vars == <<queues, channel, running, now, call, sent, answer>>

Priorities == 0..2

Ops == {"enqueue", "dequeue", "cancel", "cancel_session", "shutdown", "idle"}

Idle == [op |-> "idle", jobs |-> {}, prio |-> 0, delay |-> 0]
NoAnswer == [kind |-> "none", jobs |-> {}]
Ok(js) == [kind |-> "ok", jobs |-> js]
Error == [kind |-> "error", jobs |-> {}]

Entry == [job : Jobs, after : Nat]
CallRecord == [op : Ops, jobs : SUBSET Jobs, prio : Priorities, delay : Nat]

\* A message enqueues or cancels one job; a session has several.
ASSUME ChannelAssumption ==
    /\ ChannelCap \in Nat \ {0} /\ MaxTime \in Nat
    /\ Calls \subseteq CallRecord
    /\ \A k \in Calls :
        /\ k.op # "idle"
        /\ k.op \in {"enqueue", "cancel"} => \E j \in Jobs : k.jobs = {j}

\* The one type invariant of the module: the channel never exceeds its capacity,
\* a message in it belongs to a caller that waits for its answer.
TypeOK ==
    /\ queues \in [Priorities -> Seq(Entry)]
    /\ channel \in Seq([from : Callers, msg : CallRecord])
    /\ Len(channel) <= ChannelCap
    /\ running \in BOOLEAN
    /\ now \in 0..MaxTime
    /\ call \in [Callers -> CallRecord]
    /\ sent \subseteq Callers
    /\ answer \in [Callers -> [kind : {"none", "ok", "error"}, jobs : SUBSET Jobs]]

Init ==
    /\ queues = [p \in Priorities |-> <<>>]
    /\ channel = <<>>
    /\ running = TRUE
    /\ now = 0
    /\ call = [c \in Callers |-> Idle]
    /\ sent = {}
    /\ answer = [c \in Callers |-> NoAnswer]
--------------------------------------------------------------------------------
(* Callers *)

\* Job j is in a deque or on its way into one.
Waiting(j) ==
    \/ \E p \in Priorities : \E i \in 1..Len(queues[p]) : queues[p][i].job = j
    \/ \E c \in Callers : /\ call[c].op = "enqueue" /\ j \in call[c].jobs
                          /\ answer[c] = NoAnswer

\* A task calls the queue.  The engine never has two copies of one job
\* (SingleCopy of JobDispatch), so none is enqueued while it waits.
Call(c) ==
    /\ call[c] = Idle
    /\ \E k \in Calls :
        /\ k.op = "enqueue" => \A j \in k.jobs : ~Waiting(j)
        /\ call' = [call EXCEPT ![c] = k]
    /\ UNCHANGED <<queues, channel, running, now, sent, answer>>

\* (Mistake) send does not wait for room.
SendUnbounded(c) ==
    /\ call[c] # Idle /\ c \notin sent /\ answer[c] = NoAnswer
    /\ running
    /\ channel' = Append(channel, [from |-> c, msg |-> call[c]])
    /\ IF call[c].op = "shutdown"
       THEN sent' = sent /\ answer' = [answer EXCEPT ![c] = Ok({})]
       ELSE sent' = sent \cup {c} /\ answer' = answer
    /\ UNCHANGED <<queues, running, now, call>>

\* tx.send: waits while the channel is full.  A shutdown asks for no reply.
Send(c) ==
    /\ call[c] # Idle /\ c \notin sent /\ answer[c] = NoAnswer
    /\ running
    /\ Len(channel) < ChannelCap
    /\ channel' = Append(channel, [from |-> c, msg |-> call[c]])
    /\ IF call[c].op = "shutdown"
       THEN sent' = sent /\ answer' = [answer EXCEPT ![c] = Ok({})]
       ELSE sent' = sent \cup {c} /\ answer' = answer
    /\ UNCHANGED <<queues, running, now, call>>

\* What a call returns when the processor is gone: shutdown ignores the error,
\* dequeue logs it and returns None.
Refusal(op) == IF op \in {"shutdown", "dequeue"} THEN Ok({}) ELSE Error

\* (Mistake) a caller whose message the processor never read keeps waiting.
DisconnectedUnsent(c) ==
    /\ call[c] # Idle /\ answer[c] = NoAnswer /\ c \notin sent
    /\ ~running
    /\ answer' = [answer EXCEPT ![c] = Refusal(call[c].op)]
    /\ UNCHANGED <<queues, channel, running, now, call, sent>>

\* The receiver is gone: send fails, or the reply's sender was dropped unused.
Disconnected(c) ==
    /\ call[c] # Idle /\ answer[c] = NoAnswer
    /\ ~running
    /\ answer' = [answer EXCEPT ![c] = Refusal(call[c].op)]
    /\ sent' = sent \ {c}
    /\ UNCHANGED <<queues, channel, running, now, call>>

Return(c) ==
    /\ answer[c] # NoAnswer
    /\ call' = [call EXCEPT ![c] = Idle]
    /\ answer' = [answer EXCEPT ![c] = NoAnswer]
    /\ UNCHANGED <<queues, channel, running, now, sent>>
--------------------------------------------------------------------------------
(* JobQueueProcessor::run *)

\* The next message is of this kind; it is taken out of the channel.
Receive(op) ==
    /\ running
    /\ channel # <<>>
    /\ Head(channel).msg.op = op
    /\ channel' = Tail(channel)

Reply(a) ==
    /\ answer' = [answer EXCEPT ![Head(channel).from] = a]
    /\ sent' = sent \ {Head(channel).from}

HandleEnqueue ==
    LET m == Head(channel).msg IN
    /\ Receive("enqueue")
    /\ \E j \in m.jobs :
        queues' = [queues EXCEPT ![m.prio] = Append(@,
            [job |-> j, after |-> IF m.delay = 0 THEN 0 ELSE now + m.delay])]
    /\ Reply(Ok({}))
    /\ UNCHANGED <<running, now, call>>

\* (Mistake) the search stops at the first entry instead of the first due one.
EligibleHeadOnly(p) == {i \in 1..Len(queues[p]) : i = 1 /\ queues[p][i].after <= now}

\* The entries of a deque whose process_after has come.
Eligible(p) == {i \in 1..Len(queues[p]) : queues[p][i].after <= now}

\* find_eligible_job takes the first of them; High before Normal before Low.
HandleDequeue ==
    /\ Receive("dequeue")
    /\ \/ \E p \in Priorities : \E i \in Eligible(p) :
            /\ \A k \in Eligible(p) : i <= k
            /\ \A q \in Priorities : q > p => Eligible(q) = {}
            /\ queues' = [queues EXCEPT ![p] = RemoveAt(@, i)]
            /\ Reply(Ok({queues[p][i].job}))
       \/ /\ \A p \in Priorities : Eligible(p) = {}
          /\ queues' = queues
          /\ Reply(Ok({}))
    /\ UNCHANGED <<running, now, call>>

\* Where a deque holds a job with one of the given ids.
Positions(p, js) == {i \in 1..Len(queues[p]) : queues[p][i].job \in js}

\* The first entry with this id in the first deque, Low first, that has one.
HandleCancel ==
    LET js == Head(channel).msg.jobs IN
    /\ Receive("cancel")
    /\ \/ \E p \in Priorities : \E i \in Positions(p, js) :
            /\ \A k \in Positions(p, js) : i <= k
            /\ \A q \in Priorities : q < p => Positions(q, js) = {}
            /\ queues' = [queues EXCEPT ![p] = RemoveAt(@, i)]
            /\ Reply(Ok({queues[p][i].job}))
       \/ /\ \A p \in Priorities : Positions(p, js) = {}
          /\ queues' = queues
          /\ Reply(Ok({}))
    /\ UNCHANGED <<running, now, call>>

\* The positions of a deque's other entries, in their order.
Rest(p, js) ==
    {f \in SetToSeqs((1..Len(queues[p])) \ Positions(p, js)) :
        \A a, b \in DOMAIN f : a < b => f[a] < f[b]}

\* Every entry of the session's jobs in every deque.
HandleCancelSession ==
    LET js == Head(channel).msg.jobs IN
    /\ Receive("cancel_session")
    /\ \E f \in [Priorities -> UNION {Rest(p, js) : p \in Priorities}] :
        /\ \A p \in Priorities : f[p] \in Rest(p, js)
        /\ queues' = [p \in Priorities |-> [i \in 1..Len(f[p]) |-> queues[p][f[p][i]]]]
    /\ Reply(Ok(UNION {{queues[p][i].job : i \in Positions(p, js)} : p \in Priorities}))
    /\ UNCHANGED <<running, now, call>>

\* The loop ends; what it owned, the channel's messages included, is dropped.
HandleShutdown ==
    /\ running
    /\ channel # <<>>
    /\ Head(channel).msg.op = "shutdown"
    /\ channel' = <<>>
    /\ queues' = [p \in Priorities |-> <<>>]
    /\ running' = FALSE
    /\ UNCHANGED <<now, call, sent, answer>>

Process ==
    \/ HandleEnqueue \/ HandleDequeue \/ HandleCancel
    \/ HandleCancelSession \/ HandleShutdown

Tick ==
    /\ now < MaxTime
    /\ now' = now + 1
    /\ UNCHANGED <<queues, channel, running, call, sent, answer>>

CallerStep(c) == Send(c) \/ Disconnected(c) \/ Return(c)

Next ==
    \/ \E c \in Callers : Call(c) \/ CallerStep(c)
    \/ Process
    \/ Tick

Spec == Init /\ [][Next]_vars

\* The spawned processor and the callers run; tokio's channel serves senders
\* that wait for room in their order, so none is passed over for ever.
Fairness ==
    /\ WF_vars(Process)
    /\ \A c \in Callers :
        SF_vars(Send(c)) /\ WF_vars(Disconnected(c)) /\ WF_vars(Return(c))

FairSpec == Spec /\ Fairness
--------------------------------------------------------------------------------
(* Properties *)

Pooled ==
    UNION {{[job |-> queues[p][i].job, prio |-> p, after |-> queues[p][i].after] :
              i \in 1..Len(queues[p])} : p \in Priorities}

PoolState ==
    IF ~running THEN "closed"
    ELSE IF \E i \in 1..Len(channel) : channel[i].msg.op = "shutdown" THEN "closing"
    ELSE "open"

\* The deques without their order and the processor without its channel are the
\* pool that JobPool promises: every call takes effect at one instant, no job
\* is lost, doubled, handed out early or before one of a higher priority.
Pool == INSTANCE JobPool WITH pool <- Pooled, state <- PoolState

ImplementsPool == Pool!Spec

\* Every call returns, also when the channel is full and when the processor
\* stops with the call's message unread.
EveryCallReturns == \A c \in Callers : (call[c] # Idle) ~> (call[c] = Idle)
================================================================================
