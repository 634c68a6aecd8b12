----------------------------- MODULE StripeWebhook ------------------------------
(***************************************************************************)
(* handlers/billing/webhook_handlers.rs with webhook_idempotency_repository  *)
(* and record_credit_purchase: how a payment that Stripe has taken becomes   *)
(* credit, beside the charges of Billing.                                    *)
(*                                                                          *)
(* A payment is announced by events; Stripe delivers an event again until    *)
(* the answer is 200.  A worker is one delivery.  The purchase is a          *)
(* SERIALIZABLE transaction: the row lock it takes fails if the credit row   *)
(* was written after its first query.                                        *)
(***************************************************************************)
EXTENDS Billing

CONSTANTS
    Workers,
    Amount,      \* credits for a payment
    MaxRetries   \* webhook_idempotency.max_retries

ASSUME WebhookAssumption == Amount \in Nat \ {0} /\ MaxRetries \in Nat \ {0}

VARIABLES
    credited,  \* entries of type 'purchase', per payment how many
    record,    \* the rows of webhook_idempotency
    worker,    \* each worker: place, event, and what its snapshot is worth
    answered   \* events that Stripe will not send again

webhookVars == <<credited, record, worker, answered>>
vars == <<billingVars, webhookVars>>

\* A payment through a checkout page is announced twice with one charge, and one for an
\* invoice by invoice.paid; the intent of an invoice says nothing of the user.
Kinds(p) == IF p \in TopOffs THEN {"invoice"} ELSE {"session", "intent"}

Events == UNION {{p} \X Kinds(p) : p \in Payments}

NoRecord == [status |-> "none", by |-> Nobody, alive |-> FALSE, retries |-> 0]

Away == [at |-> "away", event |-> Nobody, fresh |-> FALSE]

WebhookTypeOK ==
    /\ BillingTypeOK
    /\ credited \in [Payments -> Nat]
    /\ record \in [Events -> [status : {"none", "processing", "pending", "completed", "failed"},
                              by : Workers \cup {Nobody}, alive : BOOLEAN, retries : Nat]]
    /\ worker \in [Workers -> [at : {"away", "acquire", "process", "purchase", "done", "transient", "permanent"},
                               event : Events \cup {Nobody}, fresh : BOOLEAN]]
    /\ answered \subseteq Events

WebhookInit ==
    /\ credited = [p \in Payments |-> 0]
    /\ record = [e \in Events |-> NoRecord]
    /\ worker = [w \in Workers |-> Away]
    /\ answered = {}

\* The user pays on the checkout page.
Pay(p) ==
    /\ p \in Payments \ (TopOffs \cup invoiced)
    /\ invoiced' = invoiced \cup {p}
    /\ UNCHANGED <<paid, free, lapsed, usage, entries, overdue, field, sentinel, stream,
                   tracked, settle, due, topOffLock, crashes, webhookVars>>

-------------------------------------------------------------------------------
(* stripe_webhook.                                                            *)

Is(w, place) == worker[w].at = place
Move(w, place) == worker' = [worker EXCEPT ![w].at = place]

Answer(w, e) ==
    /\ answered' = answered \cup {e}
    /\ worker' = [worker EXCEPT ![w] = Away]

\* Somebody else is at it, or it is done: 200, and nothing is done.
Skippable(rec) ==
    \/ rec.status = "completed"
    \/ rec.status = "processing" /\ rec.alive
    \/ rec.status = "failed" /\ rec.retries >= MaxRetries

\* get_by_event_id.
Deliver(w, e) ==
    /\ Is(w, "away")
    /\ e[1] \in invoiced /\ e \notin answered
    /\ IF Skippable(record[e])
       THEN Answer(w, e)
       ELSE UNCHANGED answered /\ worker' = [worker EXCEPT ![w] = [Away EXCEPT !.at = "acquire", !.event = e]]
    /\ UNCHANGED <<billingVars, credited, record>>

\* The cases of the INSERT .. ON CONFLICT DO UPDATE that take the lock.
Takeable(rec) ==
    \/ rec.status \in {"none", "failed"}
    \/ rec.status # "completed" /\ ~rec.alive

\* acquire_webhook_lock: somebody else's lock and an error of the database are 200 as well.
Acquire(w) ==
    /\ Is(w, "acquire")
    /\ LET e == worker[w].event IN
       \/ /\ Takeable(record[e])
          /\ record' = [record EXCEPT ![e].status = "processing", ![e].by = w, ![e].alive = TRUE]
          /\ Move(w, "process") /\ UNCHANGED answered
       \/ Answer(w, e) /\ UNCHANGED record
    /\ UNCHANGED <<billingVars, credited>>

\* Without the unique charge.
NeverRecorded(p) == FALSE

Recorded(p) == credited[p] > 0

\* The first queries of record_credit_purchase, and the snapshot they take. A second
\* entry for a charge is AlreadyExists, and that is success.
PurchaseBegins(w) ==
    /\ Is(w, "process")
    /\ worker' = IF Recorded(worker[w].event[1])
                 THEN [worker EXCEPT ![w].at = "done"]
                 ELSE [worker EXCEPT ![w].at = "purchase", ![w].fresh = TRUE]
    /\ UNCHANGED <<billingVars, credited, record, answered>>

\* Any write of the credit row makes the snapshots of the others too old.
Outdate == [v \in Workers |-> [worker[v] EXCEPT !.fresh = FALSE]]

\* FOR UPDATE, balance = balance + net_amount, the entry with its unique charge, commit.
PurchaseCommits(w) ==
    /\ Is(w, "purchase")
    /\ worker[w].fresh
    /\ LET p == worker[w].event[1] IN
       IF Recorded(p)
       THEN UNCHANGED <<paid, credited>> /\ Move(w, "done")
       ELSE /\ paid' = paid + Amount
            /\ credited' = [credited EXCEPT ![p] = @ + 1]
            /\ worker' = [Outdate EXCEPT ![w].at = "done"]
    /\ UNCHANGED <<free, lapsed, usage, entries, overdue, field, sentinel, stream, tracked,
                   settle, due, topOffLock, invoiced, crashes, record, answered>>

\* As if the charge had been there.
ConflictAsSuccess == "done"

\* could not serialize access due to concurrent update: only a COMMIT that says so is
\* tried again, and the lock says it first. is_permanent(Payment(..)) is FALSE.
ConflictOutcome == "transient"

PurchaseConflict(w) ==
    /\ Is(w, "purchase")
    /\ ~worker[w].fresh
    /\ Move(w, ConflictOutcome)
    /\ UNCHANGED <<billingVars, credited, record, answered>>

\* What process_stripe_webhook_event needs before: Stripe, the user, the charge.
ProcessingFails(w) ==
    /\ Is(w, "process")
    /\ \E kind \in {"transient", "permanent"} : Move(w, kind)
    /\ UNCHANGED <<billingVars, credited, record, answered>>

Unlocked(rec, status, retries) ==
    [rec EXCEPT !.status = status, !.by = Nobody, !.alive = FALSE, !.retries = retries]

\* mark_as_completed, release_webhook_lock_with_failure or mark_as_failed, and 200.
\* None of them asks whether the lock is still this worker's, and an error is a warning.
Finish(w) ==
    /\ worker[w].at \in {"done", "transient", "permanent"}
    /\ LET e == worker[w].event
           n == record[e].retries
       IN  /\ \/ UNCHANGED record
              \/ record' = [record EXCEPT ![e] =
                   CASE Is(w, "done")      -> Unlocked(@, "completed", n)
                     [] Is(w, "permanent") -> Unlocked(@, "failed", n)
                     [] Is(w, "transient") /\ n + 1 < MaxRetries  -> Unlocked(@, "pending", n + 1)
                     [] Is(w, "transient") /\ n + 1 >= MaxRetries -> Unlocked(@, "failed", n + 1)]
           /\ Answer(w, e)
    /\ UNCHANGED <<billingVars, credited>>

\* Five minutes.
LockExpires(e) ==
    /\ record[e].alive
    /\ record' = [record EXCEPT ![e].alive = FALSE]
    /\ UNCHANGED <<billingVars, credited, worker, answered>>

\* The workers end with the process, without an answer.
Crash ==
    /\ ServerCrash
    /\ worker' = [w \in Workers |-> Away]
    /\ UNCHANGED <<credited, record, answered>>

Charging ==
    /\ BillingNext
    /\ worker' = IF balances' # balances THEN Outdate ELSE worker
    /\ UNCHANGED <<credited, record, answered>>

WorkerStep(w) ==
    \/ Acquire(w) \/ PurchaseBegins(w) \/ PurchaseCommits(w) \/ PurchaseConflict(w)
    \/ ProcessingFails(w) \/ Finish(w)

Next ==
    \/ Charging
    \/ \E p \in Payments : Pay(p)
    \/ \E w \in Workers : WorkerStep(w) \/ \E e \in Events : Deliver(w, e)
    \/ \E e \in Events : LockExpires(e)
    \/ Crash

Init == BillingInit /\ WebhookInit

Spec == Init /\ [][Next]_vars

\* The server works, and Stripe sends again what was not answered. Nothing is assumed
\* of the errors, of the end of the process, or of what the reaper may see.
Fairness ==
    /\ \A w \in Workers :
        /\ WF_vars(Acquire(w) \/ Finish(w) \/ PurchaseConflict(w) \/ PurchaseCommits(w))
        /\ WF_vars(PurchaseBegins(w) \/ ProcessingFails(w))
    /\ \A e \in Events : SF_vars(\E w \in Workers : Deliver(w, e)) /\ WF_vars(LockExpires(e))

FairSpec == Spec /\ Fairness

-------------------------------------------------------------------------------
(* Properties.                                                                *)

\* However many events announce a payment, however often they are delivered and whoever
\* outlives the lock: a payment becomes credit once, and only if it was made.
PaidOnce ==
    \A p \in Payments : credited[p] <= IF p \in invoiced THEN 1 ELSE 0

\* An event that is marked completed will never be looked at again, so its payment has
\* become credit.
CompletedIsCredited ==
    \A e \in Events : record[e].status = "completed" => credited[e[1]] = 1

\* verify_balance_against_transactions: the balances are the sum of all entries.
LedgerMatchesBalance ==
    paid + free = StartPaid + StartFree
                  + MapThenSumSet(LAMBDA r : entries[r], Requests)
                  + MapThenSumSet(LAMBDA p : Amount * credited[p], Payments)

\* A payment becomes credit in the end ("We handle our own retry logic").
EveryPaymentIsCredited ==
    \A p \in Payments : p \in invoiced ~> credited[p] > 0

================================================================================
