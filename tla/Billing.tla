-------------------------------- MODULE Billing --------------------------------
(***************************************************************************)
(* What the server charges one user for requests to a model provider.       *)
(*   services/billing/core.rs            initiate, finalize, fail, reconcile *)
(*   services/credit_service.rs          the same inside a transaction       *)
(*   services/pending_charge_manager.rs  reservations in Redis               *)
(*   streaming/stream_handler.rs, handlers/cancellation_handlers.rs          *)
(*   services/billing/auto_top_off.rs                                        *)
(*                                                                          *)
(* A request is charged an estimate when it starts and settled when it       *)
(* ends: by its stream, by a cancellation, or by the loop that looks for     *)
(* charges that have been pending for ten minutes.  Amounts are small        *)
(* numbers.  A transaction that takes the row lock of user_credits first is  *)
(* one action.  Settling does not take it: it locks the usage row, reads the *)
(* balances, and writes what it computed from them in a later step.          *)
(***************************************************************************)
EXTENDS Naturals, Integers, FiniteSets, FiniteSetsExt

CONSTANTS
    Requests,
    Payments,     \* payments the user makes, and the invoices of auto top-offs
    Estimate, Margin,
    FinalCosts,   \* what requests may turn out to cost
    MaxAdjust,    \* billing_adjustment_limits
    FreeLimit,    \* free credits a refund may fill up
    StartPaid, StartFree,
    Threshold,    \* auto top-off below this balance; 0: it is off
    TopOffs,      \* those of Payments that are invoices of auto top-offs
    Nobody,
    MaxCrashes    \* bound: ends of the server process

ASSUME BillingAssumption ==
    /\ Estimate \in Nat \ {0} /\ Margin \in Nat \ {0}
    /\ FinalCosts \subseteq Nat /\ MaxAdjust \in Nat /\ FreeLimit \in Nat
    /\ StartPaid \in Nat /\ StartFree \in 0..FreeLimit /\ Threshold \in Nat
    /\ TopOffs \subseteq Payments /\ MaxCrashes \in Nat

VARIABLES
    paid, free,      \* user_credits.balance and free_credit_balance
    lapsed,          \* free_credits_expires_at has passed
    usage,           \* the rows of api_usage
    entries,         \* per request, the sum of net_amount in credit_transactions
    overdue,         \* pending_timeout_at has passed
    field, sentinel, \* Redis: fields of the user's hash, keys with a TTL
    stream,          \* what becomes of each request to the provider
    tracked,         \* RequestTracker
    settle,          \* the tasks that settle a charge
    due,             \* what the reconciliation loop has still to fail
    topOffLock,      \* pg_try_advisory_xact_lock
    invoiced,        \* payments that Stripe has taken
    crashes

balances == <<paid, free>>
rows == <<usage, entries, overdue>>
redis == <<field, sentinel>>
billingVars == <<paid, free, lapsed, usage, entries, overdue, field, sentinel, stream,
                 tracked, settle, due, topOffLock, invoiced, crashes>>

NoRow == [status |-> "none", cost |-> 0]

Settlers == Requests \X {"stream", "cancel", "reaper"}
Fail == -1

\* A task that settles a charge: its place, what it settles the charge with, and the
\* balances it has read.
Resting == [at |-> "rest", with |-> Fail, paid |-> 0, free |-> 0]
Places == {"rest", "begin", "read", "hdel", "del", "check", "lock", "commit", "invoice"}

\* The type invariant.
BillingTypeOK ==
    /\ paid \in Nat /\ free \in Nat /\ lapsed \in BOOLEAN
    /\ usage \in [Requests -> [status : {"none", "pending", "completed", "failed"}, cost : Nat]]
    /\ entries \in [Requests -> Int] /\ overdue \subseteq Requests
    /\ field \subseteq Requests /\ sentinel \subseteq Requests
    /\ stream \in [Requests -> {"new", "refused", "live", "ended", "dropped"}]
    /\ tracked \subseteq Requests /\ due \subseteq Requests
    /\ settle \in [Settlers -> [at : Places, with : {Fail} \cup FinalCosts, paid : Nat, free : Nat]]
    /\ topOffLock \in Settlers \cup {Nobody}
    /\ invoiced \subseteq Payments /\ crashes \in 0..MaxCrashes

BillingInit ==
    /\ paid = StartPaid /\ free = StartFree /\ lapsed = FALSE
    /\ usage = [r \in Requests |-> NoRow] /\ entries = [r \in Requests |-> 0] /\ overdue = {}
    /\ field = {} /\ sentinel = {} /\ stream = [r \in Requests |-> "new"] /\ tracked = {}
    /\ settle = [s \in Settlers |-> Resting] /\ due = {} /\ topOffLock = Nobody
    /\ invoiced = {} /\ crashes = 0

-------------------------------------------------------------------------------
(* The arithmetic of the two balances. b is a record with fields paid, free.  *)

Balances == [paid |-> paid, free |-> free]

FreeUsable(b) == IF lapsed THEN 0 ELSE b.free

Sufficient(b, amount) == b.paid + FreeUsable(b) >= amount

\* deduct_credits_with_priority
Deducted(b, amount) ==
    LET fromFree == Min({amount, FreeUsable(b)}) IN
    [paid |-> b.paid - (amount - fromFree), free |-> b.free - fromFree]

\* refund_credits_with_priority
Refunded(b, amount) ==
    LET space == IF lapsed \/ b.free >= FreeLimit THEN 0 ELSE FreeLimit - b.free
        toFree == Min({amount, space})
    IN  [paid |-> b.paid + (amount - toFree), free |-> b.free + toFree]

-------------------------------------------------------------------------------
(* initiate_api_charge.  The transaction holds the lock of the credit row.    *)

Counted == field \cap sentinel

\* The Lua script: purge what has expired, sum the rest, compare.
Reservable == paid + free - Margin * Cardinality(Counted) >= Margin

Refuse(r) ==
    /\ stream[r] = "new"
    /\ ~Reservable
    /\ field' = Counted
    /\ stream' = [stream EXCEPT ![r] = "refused"]
    /\ UNCHANGED <<balances, lapsed, rows, sentinel, tracked, settle, due, topOffLock,
                   invoiced, crashes>>

\* The reservation is made and given back when the credits do not cover the estimate;
\* it stays until its TTL when only the commit fails.
Bounce(r) ==
    /\ stream[r] = "new"
    /\ Reservable
    /\ \/ ~Sufficient(Balances, Estimate) /\ field' = Counted /\ UNCHANGED sentinel
       \/ field' = Counted \cup {r} /\ sentinel' = sentinel \cup {r}
    /\ stream' = [stream EXCEPT ![r] = "refused"]
    /\ UNCHANGED <<balances, lapsed, rows, tracked, settle, due, topOffLock, invoiced, crashes>>

Charge(r) ==
    /\ stream[r] = "new"
    /\ Reservable
    /\ Sufficient(Balances, Estimate)
    /\ field' = Counted \cup {r}
    /\ sentinel' = sentinel \cup {r}
    /\ paid' = Deducted(Balances, Estimate).paid
    /\ free' = Deducted(Balances, Estimate).free
    /\ usage' = [usage EXCEPT ![r] = [status |-> "pending", cost |-> Estimate]]
    /\ entries' = [entries EXCEPT ![r] = @ - Estimate]
    /\ stream' = [stream EXCEPT ![r] = "live"]
    /\ tracked' = tracked \cup {r}
    /\ UNCHANGED <<lapsed, overdue, settle, due, topOffLock, invoiced, crashes>>

-------------------------------------------------------------------------------
(* How a request ends, and who settles it.                                    *)

Begin(s, w) == settle' = [settle EXCEPT ![s] = [Resting EXCEPT !.at = "begin", !.with = w]]

\* Usage was reported: it is finalized with its cost. No token, or an error of the provider:
\* with the status failed.
EndStream(r) ==
    /\ stream[r] = "live"
    /\ stream' = [stream EXCEPT ![r] = "ended"]
    /\ \E w \in {Fail} \cup FinalCosts : Begin(<<r, "stream">>, w)
    /\ UNCHANGED <<balances, lapsed, rows, redis, tracked, due, topOffLock, invoiced, crashes>>

\* A chunk cannot be transformed, or the client goes away: the response is dropped with its
\* handler, and nobody is left to settle.
DropStream(r) ==
    /\ stream[r] = "live"
    /\ stream' = [stream EXCEPT ![r] = "dropped"]
    /\ UNCHANGED <<balances, lapsed, rows, redis, tracked, settle, due, topOffLock, invoiced,
                   crashes>>

\* For OpenAI the handler fails the charge itself, and the stream goes on; for the
\* others a token makes the stream end (EndStream).
CancelRequest(r) ==
    /\ r \in tracked
    /\ settle[<<r, "cancel">>].at = "rest"
    /\ tracked' = tracked \ {r}
    /\ Begin(<<r, "cancel">>, Fail)
    /\ UNCHANGED <<balances, lapsed, rows, redis, stream, due, topOffLock, invoiced, crashes>>

TimeOut(r) ==
    /\ usage[r].status = "pending"
    /\ r \notin overdue
    /\ overdue' = overdue \cup {r}
    /\ UNCHANGED <<balances, lapsed, usage, entries, redis, stream, tracked, settle, due,
                   topOffLock, invoiced, crashes>>

Overdue == {r \in overdue : usage[r].status = "pending"}

\* reconcile_timed_out_pending_charges sets no app.current_user_id: the policies of
\* api_usage let it see what the connection it gets was last used for, or nothing.
Visible == {{}, Overdue}

ReaperQuery ==
    /\ due = {}
    /\ \A r \in Requests : settle[<<r, "reaper">>].at = "rest"
    /\ \E seen \in Visible : seen # {} /\ due' = seen
    /\ UNCHANGED <<balances, lapsed, rows, redis, stream, tracked, settle, topOffLock, invoiced,
                   crashes>>

ReaperNext(r) ==
    /\ r \in due
    /\ \A q \in Requests : settle[<<q, "reaper">>].at = "rest"
    /\ due' = due \ {r}
    /\ Begin(<<r, "reaper">>, Fail)
    /\ UNCHANGED <<balances, lapsed, rows, redis, stream, tracked, topOffLock, invoiced, crashes>>

-------------------------------------------------------------------------------
(* finalize_charge_in_transaction_with_metadata and what follows it.          *)

At(s, place) == settle[s].at = place
GoTo(s, place) == settle' = [settle EXCEPT ![s] =
                                IF place = "rest" THEN Resting ELSE [@ EXCEPT !.at = place]]

Locked(r) == \E k \in {"stream", "cancel", "reaper"} : At(<<r, k>>, "read")

Open(r) == usage[r].status = "pending"

\* SELECT .. WHERE status = 'pending': without the condition, any row.
SettleableAnyState(r) == usage[r].status # "none"
Settleable(r) == Open(r)

\* SELECT .. FOR UPDATE of the usage row, then the balances without a lock.
SettleRead(s) ==
    /\ At(s, "begin")
    /\ ~Locked(s[1]) /\ Settleable(s[1])
    /\ settle' = [settle EXCEPT ![s].at = "read", ![s].paid = paid, ![s].free = free]
    /\ UNCHANGED <<balances, lapsed, rows, redis, stream, tracked, due, topOffLock, invoiced,
                   crashes>>

\* "already finalized": the row as it is. A role that the UPDATE policy binds does not
\* even find it, and that is a SettleError.
SettleAgain(s) ==
    /\ At(s, "begin")
    /\ ~Locked(s[1]) /\ usage[s[1]].status \in {"completed", "failed"}
    /\ GoTo(s, "hdel")
    /\ UNCHANGED <<balances, lapsed, rows, redis, stream, tracked, due, topOffLock, invoiced,
                   crashes>>

Seen(s) == [paid |-> settle[s].paid, free |-> settle[s].free]

Delta(s) == settle[s].with - Estimate

WithinLimits(s) == Delta(s) <= MaxAdjust /\ -Delta(s) <= MaxAdjust

\* Without the check of the balance.
AlwaysAffordable(s) == TRUE

\* A higher cost that the credits do not cover makes the transaction fail.
Affordable(s) ==
    settle[s].with # Fail /\ WithinLimits(s) /\ Delta(s) > 0 => Sufficient(Seen(s), Delta(s))

\* The balances a settlement leaves: beyond the limits it leaves them alone.
Settled(s) ==
    IF settle[s].with = Fail THEN Refunded(Seen(s), Estimate)
    ELSE IF ~WithinLimits(s) \/ Delta(s) = 0 THEN Balances
    ELSE IF Delta(s) < 0 THEN Refunded(Seen(s), -Delta(s))
    ELSE Deducted(Seen(s), Delta(s))

\* What the transaction adds to credit_transactions.
Entered(s) == IF settle[s].with = Fail THEN Estimate ELSE -Delta(s)

\* UPDATE user_credits SET balance = .., free_credit_balance = .. and the commit.
SettleWrite(s) ==
    /\ At(s, "read")
    /\ Affordable(s)
    /\ paid' = Settled(s).paid
    /\ free' = Settled(s).free
    /\ usage' = [usage EXCEPT ![s[1]] = IF settle[s].with = Fail
                                        THEN [status |-> "failed", cost |-> 0]
                                        ELSE [status |-> "completed", cost |-> settle[s].with]]
    /\ entries' = [entries EXCEPT ![s[1]] = @ + Entered(s)]
    /\ GoTo(s, "hdel")
    /\ UNCHANGED <<lapsed, overdue, redis, stream, tracked, due, topOffLock, invoiced, crashes>>

\* With the release of the reservation in every case.
AbandonedReleasing == "hdel"

\* Where a task goes that settled nothing.
Abandoned == "rest"

\* The row is not pending any more, or is locked for too long, or the credits do not
\* suffice, or the database fails: rolled back, and nobody tries again.
SettleError(s) ==
    /\ At(s, "begin") \/ At(s, "read")
    /\ GoTo(s, Abandoned)
    /\ tracked' = IF s[2] = "stream" THEN tracked \ {s[1]} ELSE tracked
    /\ UNCHANGED <<balances, lapsed, rows, redis, stream, due, topOffLock, invoiced, crashes>>

\* release_reservation: two calls.
ReleaseField(s) ==
    /\ At(s, "hdel")
    /\ field' = field \ {s[1]}
    /\ GoTo(s, "del")
    /\ UNCHANGED <<balances, lapsed, rows, sentinel, stream, tracked, due, topOffLock, invoiced,
                   crashes>>

\* finalize_api_charge_with_metadata looks at the auto top-off, also for a stream that ends
\* without a token; fail_api_charge does not.
After(s) ==
    IF settle[s].with # Fail THEN {"check"}
    ELSE IF s[2] = "stream" THEN {"rest", "check"} ELSE {"rest"}

ReleaseKey(s) ==
    /\ At(s, "del")
    /\ sentinel' = sentinel \ {s[1]}
    /\ \E next \in After(s) : GoTo(s, next)
    /\ tracked' = IF s[2] = "stream" THEN tracked \ {s[1]} ELSE tracked
    /\ UNCHANGED <<balances, lapsed, rows, field, stream, due, topOffLock, invoiced, crashes>>

\* Redis fails: a warning.
ReleaseError(s) ==
    /\ At(s, "hdel") \/ At(s, "del")
    /\ \E next \in After(s) : GoTo(s, next)
    /\ tracked' = IF s[2] = "stream" THEN tracked \ {s[1]} ELSE tracked
    /\ UNCHANGED <<balances, lapsed, rows, redis, stream, due, topOffLock, invoiced, crashes>>

-------------------------------------------------------------------------------
(* check_and_trigger_auto_top_off, perform_auto_top_off.                      *)

TopOffCheck(s) ==
    /\ At(s, "check")
    /\ GoTo(s, IF paid < Threshold THEN "lock" ELSE "rest")
    /\ UNCHANGED <<balances, lapsed, rows, redis, stream, tracked, due, topOffLock, invoiced,
                   crashes>>

\* The lock is tried, not waited for, and the balance is not looked at again.
TopOffLock(s) ==
    /\ At(s, "lock")
    /\ IF topOffLock = Nobody
       THEN topOffLock' = s /\ GoTo(s, "commit")
       ELSE UNCHANGED topOffLock /\ GoTo(s, "rest")
    /\ UNCHANGED <<balances, lapsed, rows, redis, stream, tracked, due, invoiced, crashes>>

\* "Commit transaction (no longer needed)": it ends the lock.
TopOffCommit(s) ==
    /\ At(s, "commit")
    /\ topOffLock' = Nobody
    /\ GoTo(s, "invoice")
    /\ UNCHANGED <<balances, lapsed, rows, redis, stream, tracked, due, invoiced, crashes>>

\* Stripe makes an invoice and takes the money; its idempotency key holds the time.
TopOffInvoice(s) ==
    /\ At(s, "invoice")
    /\ \/ \E p \in TopOffs \ invoiced : invoiced' = invoiced \cup {p}
       \/ UNCHANGED invoiced
    /\ GoTo(s, "rest")
    /\ UNCHANGED <<balances, lapsed, rows, redis, stream, tracked, due, topOffLock, crashes>>

-------------------------------------------------------------------------------
(* The surroundings.                                                          *)

\* The TTL of a reservation, 15 minutes, is longer than a charge may be pending.
KeyExpires(r) ==
    /\ r \in sentinel
    /\ Open(r) => r \in overdue
    /\ sentinel' = sentinel \ {r}
    /\ UNCHANGED <<balances, lapsed, rows, field, stream, tracked, settle, due, topOffLock,
                   invoiced, crashes>>

FreeCreditsLapse ==
    /\ ~lapsed /\ StartFree > 0
    /\ lapsed' = TRUE
    /\ UNCHANGED <<balances, rows, redis, stream, tracked, settle, due, topOffLock, invoiced,
                   crashes>>

\* The database and Redis keep what they have.
ServerEnds ==
    /\ stream' = [r \in Requests |-> IF stream[r] = "live" THEN "dropped" ELSE stream[r]]
    /\ tracked' = {} /\ due' = {} /\ topOffLock' = Nobody
    /\ settle' = [s \in Settlers |-> Resting]
    /\ UNCHANGED <<balances, lapsed, rows, redis, invoiced>>

ServerCrash == crashes < MaxCrashes /\ crashes' = crashes + 1 /\ ServerEnds

BillingStep(s) ==
    \/ SettleRead(s) \/ SettleAgain(s) \/ SettleWrite(s) \/ SettleError(s)
    \/ ReleaseField(s) \/ ReleaseKey(s) \/ ReleaseError(s)
    \/ TopOffCheck(s) \/ TopOffLock(s) \/ TopOffCommit(s) \/ TopOffInvoice(s)

BillingNext ==
    \/ \E r \in Requests :
        \/ Refuse(r) \/ Bounce(r) \/ Charge(r) \/ EndStream(r) \/ DropStream(r)
        \/ CancelRequest(r) \/ TimeOut(r) \/ ReaperNext(r) \/ KeyExpires(r)
    \/ ReaperQuery \/ FreeCreditsLapse
    \/ \E s \in Settlers : BillingStep(s)

-------------------------------------------------------------------------------
(* Properties.                                                                *)

\* What the entries of a request add up to is what its usage row says it costs, whoever
\* settled it and however often it was tried: a charge is settled once, and a failed
\* request costs nothing.
ChargesMatchUsage ==
    \A r \in Requests : entries[r] = -usage[r].cost

\* As long as a charge is pending and has not timed out, its margin is held back from
\* other requests: no release, purge or late settlement takes the reservation away.
ReservedWhilePending ==
    \A r \in Requests : Open(r) /\ r \notin overdue => r \in Counted

\* A charge does not stay pending for ever (spawn_pending_reconciliation).
EveryChargeSettles ==
    \A r \in Requests : Open(r) ~> ~Open(r)

\* The user is topped off once for falling below the threshold: there is no second
\* invoice while the credits of the first one have not arrived.
OneTopOff == Cardinality(invoiced \cap TopOffs) <= 1

================================================================================
