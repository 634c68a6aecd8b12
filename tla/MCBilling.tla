------------------------------- MODULE MCBilling -------------------------------
(* A small instance of the charges of a user with the payments.               *)
EXTENDS StripeWebhook, TLC

CONSTANTS Part  \* what is explored, a subset of the names below

VARIABLE part

mcVars == <<vars, part>>

MCInit == Init /\ part \in Part

Started == {r \in Requests : stream[r] # "new"}

\* "one":      one request, with an end of the server, free credits that lapse, and invoices
\*             of auto top-offs that nobody announces;
\* "two":      two requests that cost more than the estimate, of which at most two tasks
\*             settle at a time and nobody cancels;
\* "payments": checkout payments, and one request that its stream settles;
\* "topoffs":  two requests settled by their streams, and invoices.
MCNext ==
    /\ Next
    /\ part \in {"one", "payments"} => Cardinality(Started') <= 1
    /\ part # "payments" => worker' = worker /\ invoiced' \subseteq TopOffs
    /\ part # "one" => ~lapsed'
    /\ part \in {"two", "payments"} =>
          /\ invoiced' \cap TopOffs = {}
          /\ \A s \in Settlers : settle'[s].at \notin {"lock", "commit", "invoice"}
    /\ part = "two" =>
          /\ crashes' = 0 /\ \A r \in Requests : settle'[<<r, "cancel">>] = Resting
          /\ Cardinality({s \in Settlers : settle'[s].at # "rest"}) <= 2
          /\ \A s \in Settlers : settle'[s].with \in {Fail, Estimate + 1}
    /\ part = "payments" => crashes' = 0 \/ Started' = {}
    /\ part = "topoffs" => crashes' = 0
    /\ part \in {"payments", "topoffs"} =>
          overdue' = {} /\ \A s \in Settlers : settle'[s].at # "rest" => s[2] = "stream"
    /\ UNCHANGED part

Symmetry == Permutations(Requests) \cup Permutations(Workers)

MCSpec == MCInit /\ [][MCNext]_mcVars

\* Every task that settles a charge goes on; the loop that looks for timed out charges
\* runs, though nothing says what it is shown.
MCFairSpec ==
    /\ MCSpec /\ Fairness
    /\ \A s \in Settlers : WF_billingVars(BillingStep(s))
    /\ \A r \in Requests : WF_billingVars(EndStream(r)) /\ WF_billingVars(TimeOut(r))
                        /\ WF_billingVars(ReaperNext(r))
================================================================================
