----------------------------- MODULE BillingProofs ------------------------------
(***************************************************************************)
(* A request's ledger entries are what it costs, its reservation holds       *)
(* while its charge is pending, and a payment becomes credit once: for any   *)
(* requests, payments, amounts, workers and number of ends of the server.    *)
(***************************************************************************)
EXTENDS StripeWebhook, TLAPS

\* What Min returns of two amounts.
LEMMA MinOfTwo ==
    ASSUME NEW a \in Nat, NEW b \in Nat
    PROVE  /\ Min({a, b}) \in Nat /\ Min({a, b}) <= a /\ Min({a, b}) <= b
           /\ Min({a, b}) = a \/ Min({a, b}) = b
<1> DEFINE least == CHOOSE x \in {a, b} : \A y \in {a, b} : x <= y
<1>1. \E x \in {a, b} : \A y \in {a, b} : x <= y
  <2>1. CASE a <= b
    BY <2>1
  <2>2. CASE b <= a
    BY <2>2
  <2>. QED
    BY <2>1, <2>2
<1>2. least \in {a, b} /\ \A y \in {a, b} : least <= y
  BY <1>1
<1>3. Min({a, b}) = least
  BY DEF Min
<1>. QED
  BY <1>2, <1>3

\* Balances that suffice stay natural numbers when the amount is taken from them.
LEMMA DeductedIsNat ==
    ASSUME NEW b \in [paid : Nat, free : Nat], NEW amount \in Nat, lapsed \in BOOLEAN,
           Sufficient(b, amount)
    PROVE  Deducted(b, amount) \in [paid : Nat, free : Nat]
<1> DEFINE u == FreeUsable(b)
           m == Min({amount, u})
<1>1. u \in Nat /\ u <= b.free /\ b.paid + u >= amount
  BY DEF FreeUsable, Sufficient
<1>2. m \in Nat /\ m <= amount /\ m <= u /\ (m = amount \/ m = u)
  BY <1>1, MinOfTwo
<1>3. Deducted(b, amount) = [paid |-> b.paid - (amount - m), free |-> b.free - m]
  BY DEF Deducted
<1>. HIDE DEF m, u
<1>4. b.paid - (amount - m) \in Nat /\ b.free - m \in Nat
  BY <1>1, <1>2
<1>. QED
  BY <1>3, <1>4

LEMMA RefundedIsNat ==
    ASSUME NEW b \in [paid : Nat, free : Nat], NEW amount \in Nat, lapsed \in BOOLEAN
    PROVE  Refunded(b, amount) \in [paid : Nat, free : Nat]
<1> DEFINE space == IF lapsed \/ b.free >= FreeLimit THEN 0 ELSE FreeLimit - b.free
           m == Min({amount, space})
<1>1. space \in Nat
  BY BillingAssumption
<1>2. m \in Nat /\ m <= amount
  BY <1>1, MinOfTwo
<1>3. Refunded(b, amount) = [paid |-> b.paid + (amount - m), free |-> b.free + m]
  BY DEF Refunded
<1>. HIDE DEF m, space
<1>. QED
  BY <1>2, <1>3

\* What a settlement leaves in the balances, and enters.
LEMMA SettledIsNat ==
    ASSUME BillingTypeOK, NEW s \in Settlers, Affordable(s)
    PROVE  Settled(s).paid \in Nat /\ Settled(s).free \in Nat /\ Entered(s) \in Int
<1>1. /\ Seen(s) \in [paid : Nat, free : Nat] /\ Balances \in [paid : Nat, free : Nat]
      /\ settle[s].with \in {Fail} \cup FinalCosts /\ lapsed \in BOOLEAN
  BY DEF BillingTypeOK, Seen, Balances
<1>2. Estimate \in Nat /\ FinalCosts \subseteq Nat /\ MaxAdjust \in Nat /\ Fail = -1
  BY BillingAssumption DEF Fail
<1>3. Delta(s) \in Int
  <2>1. \A w \in {Fail} \cup FinalCosts : w \in Int
    BY <1>2
  <2>2. settle[s].with \in Int
    BY <1>1, <2>1, Zenon
  <2>. QED
    BY <1>2, <2>2 DEF Delta
<1>4. Settled(s) \in [paid : Nat, free : Nat]
  <2>1. CASE settle[s].with = Fail
    BY <1>1, <1>2, <2>1, RefundedIsNat DEF Settled
  <2>2. CASE settle[s].with # Fail /\ (~WithinLimits(s) \/ Delta(s) = 0)
    BY <1>1, <2>2 DEF Settled
  <2>3. CASE settle[s].with # Fail /\ WithinLimits(s) /\ Delta(s) < 0
    <3>1. -Delta(s) \in Nat
      BY <1>3, <2>3
    <3>2. Settled(s) = Refunded(Seen(s), -Delta(s))
      BY <1>3, <2>3 DEF Settled
    <3>. QED
      BY <1>1, <3>1, <3>2, RefundedIsNat
  <2>4. CASE settle[s].with # Fail /\ WithinLimits(s) /\ Delta(s) > 0
    <3>1. Delta(s) \in Nat /\ Sufficient(Seen(s), Delta(s))
      BY <1>3, <2>4 DEF Affordable
    <3>2. Settled(s) = Deducted(Seen(s), Delta(s))
      BY <1>3, <2>4 DEF Settled
    <3>. QED
      BY <1>1, <3>1, <3>2, DeductedIsNat
  <2>. QED
    BY <1>3, <2>1, <2>2, <2>3, <2>4
<1>. QED
  BY <1>2, <1>3, <1>4 DEF Entered
--------------------------------------------------------------------------------
(* The invariant of the charges. *)

\* Who has read the row holds its lock, and it is pending; who gives the reservation back
\* has settled the charge, or found it settled.
HoldsLock ==
    \A s, t \in Settlers :
        /\ At(s, "read") => Open(s[1])
        /\ At(s, "read") /\ At(t, "read") /\ s[1] = t[1] => s = t

ReleasesSettled ==
    \A s \in Settlers : At(s, "hdel") \/ At(s, "del") =>
        usage[s[1]].status \in {"completed", "failed"}

\* A pending charge is the estimate, and before it there is none.
PendingIsEstimate ==
    \A r \in Requests :
        /\ Open(r) => usage[r].cost = Estimate
        /\ stream[r] = "new" => usage[r] = NoRow

BInv ==
    /\ BillingTypeOK
    /\ HoldsLock /\ ReleasesSettled /\ PendingIsEstimate
    /\ ChargesMatchUsage /\ ReservedWhilePending

LEMMA InitBInv == BillingInit => BInv
<1> SUFFICES ASSUME BillingInit PROVE BInv
  OBVIOUS
<1>1. BillingTypeOK
  <2>1. StartPaid \in Nat /\ StartFree \in Nat /\ 0 \in 0..MaxCrashes
    BY BillingAssumption
  <2>2. Resting \in [at : Places, with : {Fail} \cup FinalCosts, paid : Nat, free : Nat]
    BY DEF Resting, Places
  <2>3. NoRow \in [status : {"none", "pending", "completed", "failed"}, cost : Nat]
    BY DEF NoRow
  <2>4. settle \in [Settlers -> [at : Places, with : {Fail} \cup FinalCosts, paid : Nat, free : Nat]]
    BY <2>2 DEF BillingInit
  <2>5. usage \in [Requests -> [status : {"none", "pending", "completed", "failed"}, cost : Nat]]
    BY <2>3 DEF BillingInit
  <2>6. paid \in Nat /\ free \in Nat /\ lapsed \in BOOLEAN /\ crashes \in 0..MaxCrashes
    BY <2>1 DEF BillingInit
  <2>7. /\ entries \in [Requests -> Int]
        /\ stream \in [Requests -> {"new", "refused", "live", "ended", "dropped"}]
    BY DEF BillingInit
  <2>8. /\ overdue \subseteq Requests /\ field \subseteq Requests /\ sentinel \subseteq Requests
        /\ tracked \subseteq Requests /\ due \subseteq Requests /\ invoiced \subseteq Payments
        /\ topOffLock \in Settlers \cup {Nobody}
    BY DEF BillingInit
  <2>. QED
    BY <2>4, <2>5, <2>6, <2>7, <2>8 DEF BillingTypeOK
<1>2. /\ \A s \in Settlers : settle[s].at = "rest"
      /\ \A r \in Requests : usage[r] = NoRow /\ NoRow.status = "none" /\ NoRow.cost = 0
      /\ \A r \in Requests : entries[r] = 0
  BY DEF BillingInit, Resting, NoRow
<1>. QED
  BY <1>1, <1>2 DEF BInv, HoldsLock, ReleasesSettled, PendingIsEstimate, ChargesMatchUsage,
                    ReservedWhilePending, At, Open

LEMMA SettlersOf ==
    /\ \A s \in Settlers : s[1] \in Requests /\ s[2] \in {"stream", "cancel", "reaper"}
                           /\ s = <<s[1], s[2]>>
    /\ \A r \in Requests : \A k \in {"stream", "cancel", "reaper"} :
          <<r, k>> \in Settlers /\ <<r, k>>[1] = r
BY DEF Settlers

\* Steps that leave the rows alone: tasks may move on, reservations of other charges go.
LEMMA RowsStay ==
    ASSUME BInv, BillingTypeOK', UNCHANGED <<usage, entries>>,
           overdue \subseteq overdue',
           \A r \in Requests : stream'[r] = "new" => stream[r] = "new",
           \A r \in Requests : r \in Counted /\ Open(r) /\ r \notin overdue => r \in Counted',
           \A s \in Settlers :
              \/ settle'[s] = settle[s]
              \/ /\ settle'[s].at # "read"
                 /\ settle'[s].at \in {"hdel", "del"} => usage[s[1]].status \in {"completed", "failed"}
    PROVE  BInv'
<1>1. \A r : Open(r)' <=> Open(r)
  BY DEF Open
<1>2. \A s \in Settlers : At(s, "read")' => At(s, "read")
  BY DEF At
<1>3. HoldsLock'
  BY <1>1, <1>2 DEF BInv, HoldsLock
<1>4. ReleasesSettled'
  BY DEF BInv, ReleasesSettled, At
<1>5. PendingIsEstimate' /\ ChargesMatchUsage'
  BY <1>1 DEF BInv, PendingIsEstimate, ChargesMatchUsage
<1>6. ReservedWhilePending'
  BY <1>1 DEF BInv, ReservedWhilePending
<1>. QED
  BY <1>3, <1>4, <1>5, <1>6 DEF BInv

LEMMA RequestSteps ==
    ASSUME BInv, NEW r \in Requests,
           Refuse(r) \/ Bounce(r) \/ DropStream(r) \/ TimeOut(r) \/ KeyExpires(r)
    PROVE  BInv'
<1> USE DEF balances, rows, redis
<1>1. BillingTypeOK
  BY DEF BInv
<1>2. UNCHANGED <<usage, entries, settle>> /\ overdue \subseteq overdue'
  BY DEF Refuse, Bounce, DropStream, TimeOut, KeyExpires
<1>3. BillingTypeOK'
  <2>1. CASE Refuse(r) \/ Bounce(r)
    BY <1>1, <2>1 DEF BillingTypeOK, Refuse, Bounce, Counted
  <2>2. CASE DropStream(r) \/ TimeOut(r)
    BY <1>1, <2>2 DEF BillingTypeOK, DropStream, TimeOut
  <2>3. CASE KeyExpires(r)
    BY <1>1, <2>3 DEF BillingTypeOK, KeyExpires
  <2>. QED
    BY <2>1, <2>2, <2>3
<1>4. \A q \in Requests : stream'[q] = "new" => stream[q] = "new"
  BY <1>1 DEF BillingTypeOK, Refuse, Bounce, DropStream, TimeOut, KeyExpires
<1>5. \A q \in Requests : q \in Counted /\ Open(q) /\ q \notin overdue => q \in Counted'
  BY DEF Counted, Refuse, Bounce, DropStream, TimeOut, KeyExpires
<1>. QED
  BY <1>2, <1>3, <1>4, <1>5, RowsStay

\* A task that settles a charge starts.
LEMMA BeginSteps ==
    ASSUME BInv, NEW r \in Requests, EndStream(r) \/ CancelRequest(r) \/ ReaperNext(r)
    PROVE  BInv'
<1> USE DEF balances, rows, redis
<1>1. BillingTypeOK
  BY DEF BInv
<1>2. PICK s \in Settlers : \E w \in {Fail} \cup FinalCosts : Begin(s, w)
  BY SettlersOf DEF EndStream, CancelRequest, ReaperNext
<1>3. PICK w \in {Fail} \cup FinalCosts :
        settle' = [settle EXCEPT ![s] = [at |-> "begin", with |-> w, paid |-> 0, free |-> 0]]
  BY <1>2 DEF Begin, Resting
<1>4. settle' \in [Settlers -> [at : Places, with : {Fail} \cup FinalCosts, paid : Nat, free : Nat]]
  BY <1>1, <1>3 DEF BillingTypeOK, Places
<1>5. BillingTypeOK'
  BY <1>1, <1>4 DEF BillingTypeOK, EndStream, CancelRequest, ReaperNext
<1>6. /\ UNCHANGED <<usage, entries, overdue, field, sentinel>>
      /\ \A q \in Requests : stream'[q] = "new" => stream[q] = "new"
  BY <1>1 DEF EndStream, CancelRequest, ReaperNext, BillingTypeOK
<1>7. \A t \in Settlers : settle'[t] = settle[t] \/ settle'[t].at = "begin"
  BY <1>1, <1>3 DEF BillingTypeOK
<1>. QED
  BY <1>5, <1>6, <1>7, RowsStay DEF Counted

\* The steps of a task that neither read nor write the rows.
LEMMA TaskSteps ==
    ASSUME BInv, NEW s \in Settlers,
           \/ SettleAgain(s) \/ SettleError(s)
           \/ ReleaseField(s) \/ ReleaseKey(s) \/ ReleaseError(s)
           \/ TopOffCheck(s) \/ TopOffLock(s) \/ TopOffCommit(s) \/ TopOffInvoice(s)
    PROVE  BInv'
<1> USE DEF balances, rows, redis
<1>1. BillingTypeOK
  BY DEF BInv
<1>2. /\ UNCHANGED <<usage, entries, overdue, stream, lapsed, due, crashes, paid, free>>
      /\ field' \subseteq field /\ sentinel' \subseteq sentinel /\ tracked' \subseteq tracked
      /\ topOffLock' \in {topOffLock, Nobody, s}
      /\ invoiced' \subseteq invoiced \cup TopOffs
  BY DEF SettleAgain, SettleError, ReleaseField, ReleaseKey, ReleaseError,
         TopOffCheck, TopOffLock, TopOffCommit, TopOffInvoice
<1>3. PICK place \in Places \ {"read"} :
        /\ GoTo(s, place)
        /\ place \in {"hdel", "del"} => usage[s[1]].status \in {"completed", "failed"}
  <2>1. CASE SettleAgain(s)
    BY <2>1 DEF SettleAgain, Places
  <2>2. CASE SettleError(s)
    BY <2>2 DEF SettleError, Abandoned, Places
  <2>3. CASE ReleaseField(s)
    BY <2>3 DEF ReleaseField, Places, BInv, ReleasesSettled
  <2>4. CASE ReleaseKey(s) \/ ReleaseError(s)
    <3>1. After(s) \subseteq {"rest", "check"}
      BY DEF After
    <3>. QED
      BY <2>4, <3>1 DEF ReleaseKey, ReleaseError, Places
  <2>5. CASE TopOffCheck(s) \/ TopOffLock(s) \/ TopOffCommit(s) \/ TopOffInvoice(s)
    BY <2>5 DEF TopOffCheck, TopOffLock, TopOffCommit, TopOffInvoice, Places
  <2>. QED
    BY <2>1, <2>2, <2>3, <2>4, <2>5
<1>4. /\ settle' \in [Settlers -> [at : Places, with : {Fail} \cup FinalCosts, paid : Nat, free : Nat]]
      /\ \A t \in Settlers : settle'[t] = settle[t] \/ (t = s /\ settle'[t].at = place)
  <2>1. CASE place = "rest"
    <3>1. settle' = [settle EXCEPT ![s] = Resting]
      BY <1>3, <2>1 DEF GoTo
    <3>2. /\ Resting \in [at : Places, with : {Fail} \cup FinalCosts, paid : Nat, free : Nat]
          /\ Resting.at = "rest"
      BY DEF Resting, Places
    <3>. QED
      BY <1>1, <2>1, <3>1, <3>2 DEF BillingTypeOK
  <2>2. CASE place # "rest"
    <3>1. settle' = [settle EXCEPT ![s] = [settle[s] EXCEPT !.at = place]]
      BY <1>3, <2>2 DEF GoTo
    <3>. QED
      BY <1>1, <3>1 DEF BillingTypeOK
  <2>. QED
    BY <2>1, <2>2
<1>5. BillingTypeOK'
  <2>1. TopOffs \subseteq Payments
    BY BillingAssumption
  <2>. QED
    BY <1>1, <1>2, <1>4, <2>1 DEF BillingTypeOK
<1>6. \A q \in Requests : q \in Counted /\ Open(q) /\ q \notin overdue => q \in Counted'
  <2>1. CASE ReleaseField(s) \/ ReleaseKey(s)
    <3>1. ~Open(s[1])
      BY <2>1 DEF ReleaseField, ReleaseKey, BInv, ReleasesSettled, Open
    <3>2. field \ {s[1]} \subseteq field' /\ sentinel \ {s[1]} \subseteq sentinel'
      BY <2>1 DEF ReleaseField, ReleaseKey
    <3>. QED
      BY <3>1, <3>2 DEF Counted
  <2>2. CASE ~(ReleaseField(s) \/ ReleaseKey(s))
    <3>1. field' = field /\ sentinel' = sentinel
      BY <2>2 DEF SettleAgain, SettleError, ReleaseError,
                  TopOffCheck, TopOffLock, TopOffCommit, TopOffInvoice
    <3>. QED
      BY <3>1 DEF Counted
  <2>. QED
    BY <2>1, <2>2
<1>. QED
  BY <1>2, <1>3, <1>4, <1>5, <1>6, RowsStay

\* A charge begins: its row and its reservation come together.
LEMMA ChargeStep ==
    ASSUME BInv, NEW r \in Requests, Charge(r)
    PROVE  BInv'
<1> USE DEF balances, rows, redis
<1>1. BillingTypeOK /\ Estimate \in Nat
  BY BillingAssumption DEF BInv
<1>2. usage[r] = NoRow /\ entries[r] = 0
  BY DEF Charge, BInv, PendingIsEstimate, ChargesMatchUsage, NoRow
<1>3. /\ usage' = [usage EXCEPT ![r] = [status |-> "pending", cost |-> Estimate]]
      /\ entries' = [entries EXCEPT ![r] = @ - Estimate]
      /\ stream' = [stream EXCEPT ![r] = "live"]
      /\ field' = Counted \cup {r} /\ sentinel' = sentinel \cup {r}
      /\ tracked' = tracked \cup {r}
      /\ UNCHANGED <<lapsed, overdue, settle, due, topOffLock, invoiced, crashes>>
  BY DEF Charge
<1>4. paid' \in Nat /\ free' \in Nat
  <2>1. Balances \in [paid : Nat, free : Nat] /\ lapsed \in BOOLEAN
    BY <1>1 DEF Balances, BillingTypeOK
  <2>2. Deducted(Balances, Estimate) \in [paid : Nat, free : Nat]
    BY <1>1, <2>1, DeductedIsNat DEF Charge
  <2>. QED
    BY <2>2 DEF Charge
<1>5. BillingTypeOK'
  <2>1. entries[r] - Estimate \in Int
    BY <1>1, <1>2
  <2>2. entries' \in [Requests -> Int]
    BY <1>1, <1>3, <2>1 DEF BillingTypeOK
  <2>. QED
    BY <1>1, <1>3, <1>4, <2>2 DEF BillingTypeOK, Counted
<1>6. /\ usage'[r].status = "pending" /\ usage'[r].cost = Estimate /\ entries'[r] = 0 - Estimate
      /\ stream'[r] = "live"
      /\ \A q \in Requests \ {r} :
            usage'[q] = usage[q] /\ entries'[q] = entries[q] /\ stream'[q] = stream[q]
  BY <1>1, <1>2, <1>3 DEF BillingTypeOK
<1>7. \A s \in Settlers : (~At(s, "hdel") /\ ~At(s, "del")) \/ s[1] # r
  BY <1>2 DEF BInv, ReleasesSettled, NoRow
<1>8. HoldsLock'
  BY <1>3, <1>6, SettlersOf DEF BInv, HoldsLock, At, Open
<1>9. ReleasesSettled'
  BY <1>3, <1>6, <1>7, SettlersOf DEF BInv, ReleasesSettled, At
<1>10. PendingIsEstimate'
  BY <1>6 DEF BInv, PendingIsEstimate, Open
<1>11. ChargesMatchUsage'
  <2>1. entries'[r] = -usage'[r].cost
    BY <1>1, <1>6
  <2>. QED
    BY <1>6, <2>1 DEF BInv, ChargesMatchUsage
<1>12. ReservedWhilePending'
  BY <1>3, <1>6 DEF BInv, ReservedWhilePending, Counted, Open
<1>. QED
  BY <1>5, <1>8, <1>9, <1>10, <1>11, <1>12 DEF BInv

\* The row is locked, and nobody else holds its lock.
LEMMA SettleReadStep ==
    ASSUME BInv, NEW s \in Settlers, SettleRead(s)
    PROVE  BInv'
<1> USE DEF balances, rows, redis
<1>1. BillingTypeOK
  BY DEF BInv
<1>2. /\ settle' = [settle EXCEPT ![s].at = "read", ![s].paid = paid, ![s].free = free]
      /\ UNCHANGED <<paid, free, lapsed, usage, entries, overdue, field, sentinel, stream,
                     tracked, due, topOffLock, invoiced, crashes>>
      /\ Open(s[1]) /\ ~Locked(s[1])
  BY DEF SettleRead, Settleable
<1>3. BillingTypeOK'
  BY <1>1, <1>2 DEF BillingTypeOK, Places
<1>4. \A t \in Settlers : t[1] = s[1] => ~At(t, "read")
  BY <1>2, SettlersOf DEF Locked
<1>5. /\ settle'[s].at = "read"
      /\ \A t \in Settlers : t # s => settle'[t] = settle[t]
  BY <1>1, <1>2 DEF BillingTypeOK
<1>6. HoldsLock'
  BY <1>2, <1>4, <1>5 DEF BInv, HoldsLock, At, Open
<1>7. ReleasesSettled'
  BY <1>2, <1>5 DEF BInv, ReleasesSettled, At
<1>8. PendingIsEstimate' /\ ChargesMatchUsage' /\ ReservedWhilePending'
  BY <1>2 DEF BInv, PendingIsEstimate, ChargesMatchUsage, ReservedWhilePending, Open, Counted
<1>. QED
  BY <1>3, <1>6, <1>7, <1>8 DEF BInv

\* A charge is settled: its entries come to what it costs now.
LEMMA SettleWriteStep ==
    ASSUME BInv, NEW s \in Settlers, SettleWrite(s)
    PROVE  BInv'
<1> USE DEF balances, rows, redis
<1> DEFINE r == s[1]
           w == settle[s].with
           row == IF w = Fail THEN [status |-> "failed", cost |-> 0]
                  ELSE [status |-> "completed", cost |-> w]
<1>1. BillingTypeOK /\ Estimate \in Nat /\ FinalCosts \subseteq Nat
  BY BillingAssumption DEF BInv
<1>2. /\ r \in Requests /\ w \in {Fail} \cup FinalCosts
      /\ usage[r].status = "pending" /\ usage[r].cost = Estimate
      /\ entries[r] = -Estimate
  BY <1>1, SettlersOf
  DEF SettleWrite, BInv, HoldsLock, PendingIsEstimate, ChargesMatchUsage, Open, BillingTypeOK
<1>3. /\ usage' = [usage EXCEPT ![r] = row]
      /\ entries' = [entries EXCEPT ![r] = @ + Entered(s)]
      /\ settle' = [settle EXCEPT ![s] = [settle[s] EXCEPT !.at = "hdel"]]
      /\ UNCHANGED <<lapsed, overdue, field, sentinel, stream, tracked, due, topOffLock, invoiced,
                     crashes>>
  BY DEF SettleWrite, GoTo
<1>4. /\ row.cost \in Nat /\ row.status \in {"completed", "failed"}
      /\ entries[r] + Entered(s) = -row.cost
  <2>1. CASE w = Fail
    BY <1>1, <1>2, <2>1 DEF Entered
  <2>2. CASE w # Fail
    <3>1. w \in Nat
      <4>1. \A x \in FinalCosts : x \in Nat
        BY <1>1
      <4>. QED
        BY <1>2, <2>2, <4>1, Zenon
    <3>2. Entered(s) = -(w - Estimate)
      BY <2>2 DEF Entered, Delta
    <3>. QED
      BY <1>1, <1>2, <2>2, <3>1, <3>2
  <2>. QED
    BY <2>1, <2>2
<1>. HIDE DEF row, w
<1>5. /\ usage'[r] = row /\ entries'[r] = -row.cost
      /\ \A q \in Requests \ {r} : usage'[q] = usage[q] /\ entries'[q] = entries[q]
      /\ settle'[s].at = "hdel"
      /\ \A t \in Settlers : t # s => settle'[t] = settle[t]
  BY <1>1, <1>2, <1>3, <1>4 DEF BillingTypeOK
<1>6. BillingTypeOK'
  <2>1. paid' \in Nat /\ free' \in Nat /\ Entered(s) \in Int
    BY <1>1, SettledIsNat DEF SettleWrite
  <2>2. entries' \in [Requests -> Int]
    BY <1>1, <1>2, <1>3, <2>1 DEF BillingTypeOK
  <2>3. settle' \in [Settlers -> [at : Places, with : {Fail} \cup FinalCosts, paid : Nat, free : Nat]]
    BY <1>1, <1>3 DEF BillingTypeOK, Places
  <2>4. row \in [status : {"none", "pending", "completed", "failed"}, cost : Nat]
    BY <1>4 DEF row
  <2>. QED
    BY <1>1, <1>3, <2>1, <2>2, <2>3, <2>4 DEF BillingTypeOK
<1>7. \A t \in Settlers : t # s /\ At(t, "read") => t[1] # r
  BY DEF BInv, HoldsLock, SettleWrite
<1>8. HoldsLock'
  BY <1>5, <1>7, SettlersOf DEF BInv, HoldsLock, At, Open
<1>9. ReleasesSettled'
  BY <1>4, <1>5, SettlersOf DEF BInv, ReleasesSettled, At
<1>10. PendingIsEstimate'
  <2>1. stream[r] # "new"
    BY <1>2 DEF BInv, PendingIsEstimate, NoRow
  <2>. QED
    BY <1>3, <1>4, <1>5, <2>1 DEF BInv, PendingIsEstimate, Open
<1>11. ChargesMatchUsage'
  BY <1>5 DEF BInv, ChargesMatchUsage
<1>12. ReservedWhilePending'
  BY <1>3, <1>4, <1>5 DEF BInv, ReservedWhilePending, Counted, Open
<1>. QED
  BY <1>6, <1>8, <1>9, <1>10, <1>11, <1>12 DEF BInv

\* The reaper looks, credits lapse, payments come in, the server ends: the charges stay.
LEMMA OtherSteps ==
    ASSUME BInv,
           \/ ReaperQuery \/ FreeCreditsLapse \/ ServerCrash
           \/ \E p \in Payments : Pay(p)
           \/ \E v \in Workers : PurchaseCommits(v)
           \/ UNCHANGED billingVars
    PROVE  BInv'
<1> USE DEF balances, rows, redis
<1>1. BillingTypeOK
  BY DEF BInv
<1>2. UNCHANGED <<usage, entries, overdue, field, sentinel>>
  BY DEF ReaperQuery, FreeCreditsLapse, ServerCrash, ServerEnds, Pay, PurchaseCommits, billingVars
<1>3. \A s \in Settlers : settle'[s] = settle[s] \/ settle'[s] = Resting
  BY <1>1 DEF ReaperQuery, FreeCreditsLapse, ServerCrash, ServerEnds, Pay, PurchaseCommits,
              billingVars, BillingTypeOK
<1>4. \A q \in Requests : stream'[q] = "new" => stream[q] = "new"
  BY <1>1 DEF ReaperQuery, FreeCreditsLapse, ServerCrash, ServerEnds, Pay, PurchaseCommits,
              billingVars, BillingTypeOK
<1>5. BillingTypeOK'
  <2>1. CASE ReaperQuery
    <3>1. due' \subseteq Requests
      BY <1>1, <2>1 DEF ReaperQuery, Visible, Overdue, BillingTypeOK
    <3>. QED
      BY <1>1, <2>1, <3>1 DEF ReaperQuery, BillingTypeOK
  <2>2. CASE FreeCreditsLapse
    BY <1>1, <2>2 DEF FreeCreditsLapse, BillingTypeOK
  <2>3. CASE ServerCrash
    <3>1. Resting \in [at : Places, with : {Fail} \cup FinalCosts, paid : Nat, free : Nat]
      BY DEF Resting, Places
    <3>2. settle' \in [Settlers -> [at : Places, with : {Fail} \cup FinalCosts, paid : Nat, free : Nat]]
      BY <2>3, <3>1 DEF ServerCrash, ServerEnds
    <3>3. stream' \in [Requests -> {"new", "refused", "live", "ended", "dropped"}]
      BY <1>1, <2>3 DEF ServerCrash, ServerEnds, BillingTypeOK
    <3>4. crashes' \in 0..MaxCrashes
      BY <1>1, <2>3, BillingAssumption DEF ServerCrash, BillingTypeOK
    <3>. QED
      BY <1>1, <2>3, <3>2, <3>3, <3>4 DEF ServerCrash, ServerEnds, BillingTypeOK
  <2>4. CASE \E p \in Payments : Pay(p)
    BY <1>1, <2>4 DEF Pay, BillingTypeOK
  <2>5. CASE \E v \in Workers : PurchaseCommits(v)
    <3>1. paid' \in Nat
      BY <1>1, <2>5, WebhookAssumption DEF PurchaseCommits, BillingTypeOK
    <3>. QED
      BY <1>1, <2>5, <3>1 DEF PurchaseCommits, BillingTypeOK
  <2>6. CASE UNCHANGED billingVars
    BY <1>1, <2>6 DEF billingVars, BillingTypeOK
  <2>. QED
    BY <2>1, <2>2, <2>3, <2>4, <2>5, <2>6
<1>6. \A s \in Settlers : settle'[s] = settle[s] \/ settle'[s].at = "rest"
  BY <1>3 DEF Resting
<1>. QED
  BY <1>2, <1>4, <1>5, <1>6, RowsStay DEF Counted

LEMMA NextBInv == BInv /\ [Next]_vars => BInv'
<1> SUFFICES ASSUME BInv, [Next]_vars PROVE BInv'
  OBVIOUS
<1>1. CASE BillingNext
  BY <1>1, RequestSteps, BeginSteps, TaskSteps, ChargeStep, SettleReadStep, SettleWriteStep, OtherSteps
  DEF BillingNext, BillingStep
<1>2. CASE \E w \in Workers : WorkerStep(w) \/ \E e \in Events : Deliver(w, e)
  <2>1. CASE \E w \in Workers : PurchaseCommits(w)
    BY <2>1, OtherSteps
  <2>2. CASE UNCHANGED billingVars
    BY <2>2, OtherSteps
  <2>. QED
    BY <1>2, <2>1, <2>2
    DEF WorkerStep, Deliver, Acquire, PurchaseBegins, PurchaseConflict, ProcessingFails, Finish
<1>. QED
  BY <1>1, <1>2, OtherSteps DEF Next, vars, Charging, LockExpires, Crash

--------------------------------------------------------------------------------
(* The invariant of the payments. *)

\* A worker away from the door has an event whose payment was made; one that is done has
\* seen it become credit.
AtWork ==
    \A w \in Workers :
        /\ worker[w].at # "away" => worker[w].event \in Events /\ worker[w].event[1] \in invoiced
        /\ worker[w].at = "done" => credited[worker[w].event[1]] = 1

PInv ==
    /\ BInv
    /\ WebhookTypeOK
    /\ AtWork /\ PaidOnce /\ CompletedIsCredited

LEMMA EventsOf == \A e \in Events : e[1] \in Payments
BY DEF Events

LEMMA InitPInv == Init => PInv
<1> SUFFICES ASSUME Init PROVE PInv
  OBVIOUS
<1>1. BInv
  BY InitBInv DEF Init
<1>2. /\ \A w \in Workers : worker[w] = Away /\ Away.at = "away"
      /\ \A e \in Events : record[e] = NoRecord /\ NoRecord.status = "none"
      /\ \A p \in Payments : credited[p] = 0
  BY DEF Init, WebhookInit, Away, NoRecord
<1>3. WebhookTypeOK
  <2>1. Away \in [at : {"away", "acquire", "process", "purchase", "done", "transient", "permanent"},
                  event : Events \cup {Nobody}, fresh : BOOLEAN]
    BY DEF Away
  <2>2. NoRecord \in [status : {"none", "processing", "pending", "completed", "failed"},
                      by : Workers \cup {Nobody}, alive : BOOLEAN, retries : Nat]
    BY DEF NoRecord
  <2>3. /\ worker \in [Workers -> [at : {"away", "acquire", "process", "purchase", "done", "transient", "permanent"},
                                   event : Events \cup {Nobody}, fresh : BOOLEAN]]
        /\ record \in [Events -> [status : {"none", "processing", "pending", "completed", "failed"},
                                  by : Workers \cup {Nobody}, alive : BOOLEAN, retries : Nat]]
        /\ credited \in [Payments -> Nat] /\ answered \subseteq Events
    BY <2>1, <2>2 DEF Init, WebhookInit
  <2>. QED
    BY <1>1, <2>3 DEF WebhookTypeOK, BInv
<1>. QED
  BY <1>1, <1>2, <1>3 DEF PInv, AtWork, PaidOnce, CompletedIsCredited

\* No step takes a payment back.
LEMMA InvoicedGrows == [Next]_vars => invoiced \subseteq invoiced'
<1> SUFFICES ASSUME [Next]_vars PROVE invoiced \subseteq invoiced'
  OBVIOUS
<1>1. CASE BillingNext
  BY <1>1 DEF BillingNext, BillingStep, Refuse, Bounce, Charge, EndStream, DropStream, CancelRequest,
              TimeOut, ReaperNext, KeyExpires, ReaperQuery, FreeCreditsLapse, SettleRead, SettleAgain,
              SettleWrite, SettleError, ReleaseField, ReleaseKey, ReleaseError, TopOffCheck,
              TopOffLock, TopOffCommit, TopOffInvoice
<1>2. CASE \E w \in Workers : WorkerStep(w) \/ \E e \in Events : Deliver(w, e)
  BY <1>2 DEF WorkerStep, Deliver, Acquire, PurchaseBegins, PurchaseCommits, PurchaseConflict,
              ProcessingFails, Finish, billingVars
<1>3. CASE \/ \E p \in Payments : Pay(p)
           \/ \E e \in Events : LockExpires(e)
           \/ Crash \/ UNCHANGED vars
  BY <1>3 DEF Pay, LockExpires, Crash, ServerCrash, ServerEnds, billingVars, vars
<1>. QED
  BY <1>1, <1>2, <1>3 DEF Next, Charging

WorkerRecord ==
    [at : {"away", "acquire", "process", "purchase", "done", "transient", "permanent"},
     event : Events \cup {Nobody}, fresh : BOOLEAN]

\* Steps after which no payment has been credited: the workers keep their events, and an
\* event is done only when its payment is credit already.
LEMMA CreditStays ==
    ASSUME PInv, BInv', invoiced \subseteq invoiced', credited' = credited, answered' \subseteq Events,
           record' \in [Events -> [status : {"none", "processing", "pending", "completed", "failed"},
                                   by : Workers \cup {Nobody}, alive : BOOLEAN, retries : Nat]],
           \A e \in Events : record'[e].status = "completed" =>
                record[e].status = "completed" \/ credited[e[1]] = 1,
           worker' \in [Workers -> WorkerRecord],
           \A w \in Workers : worker'[w].at # "away" =>
                /\ worker'[w].event \in Events /\ worker'[w].event[1] \in invoiced
                /\ worker'[w].at = "done" => credited[worker'[w].event[1]] = 1
    PROVE  PInv'
<1>1. WebhookTypeOK'
  BY DEF PInv, BInv, WebhookTypeOK, WorkerRecord
<1>2. AtWork'
  BY DEF AtWork
<1>3. PaidOnce'
  BY DEF PInv, PaidOnce, BInv, BillingTypeOK, WebhookTypeOK
<1>4. CompletedIsCredited'
  BY DEF PInv, CompletedIsCredited
<1>. QED
  BY <1>1, <1>2, <1>3, <1>4 DEF PInv

\* The workers stay where they are, perhaps with a snapshot that is too old by now, or all end.
LEMMA WorkersStay ==
    ASSUME PInv, BInv', invoiced \subseteq invoiced', UNCHANGED <<credited, answered>>,
           record' \in [Events -> [status : {"none", "processing", "pending", "completed", "failed"},
                                   by : Workers \cup {Nobody}, alive : BOOLEAN, retries : Nat]],
           \A e \in Events : record'[e].status = record[e].status,
           worker' = worker \/ worker' = Outdate \/ worker' = [w \in Workers |-> Away]
    PROVE  PInv'
<1>1. worker \in [Workers -> WorkerRecord] /\ answered \subseteq Events
  BY DEF PInv, WebhookTypeOK, WorkerRecord
<1>2. CASE worker' = worker
  BY <1>1, <1>2, CreditStays DEF PInv, AtWork
<1>3. CASE worker' = Outdate
  <2>1. /\ worker' \in [Workers -> WorkerRecord]
        /\ \A w \in Workers : worker'[w].at = worker[w].at /\ worker'[w].event = worker[w].event
    <3>1. ASSUME NEW x \in WorkerRecord
          PROVE  /\ [x EXCEPT !.fresh = FALSE] \in WorkerRecord
                 /\ [x EXCEPT !.fresh = FALSE].at = x.at /\ [x EXCEPT !.fresh = FALSE].event = x.event
      BY DEF WorkerRecord
    <3>2. worker' = [v \in Workers |-> [worker[v] EXCEPT !.fresh = FALSE]]
      BY <1>3 DEF Outdate
    <3>. QED
      BY <1>1, <3>1, <3>2
  <2>. QED
    BY <1>1, <2>1, CreditStays DEF PInv, AtWork
<1>4. CASE worker' = [w \in Workers |-> Away]
  <2>1. worker' \in [Workers -> WorkerRecord] /\ \A w \in Workers : worker'[w].at = "away"
    BY <1>4 DEF Away, WorkerRecord
  <2>. QED
    BY <1>1, <2>1, CreditStays
<1>. QED
  BY <1>2, <1>3, <1>4

\* One worker moves, keeps its event, and does not touch the credits.
LEMMA WorkerMoves ==
    ASSUME PInv, BInv', invoiced \subseteq invoiced', credited' = credited, answered' \subseteq Events,
           record' \in [Events -> [status : {"none", "processing", "pending", "completed", "failed"},
                                   by : Workers \cup {Nobody}, alive : BOOLEAN, retries : Nat]],
           \A e \in Events : record'[e].status = "completed" =>
                record[e].status = "completed" \/ credited[e[1]] = 1,
           NEW w \in Workers, NEW x \in WorkerRecord, worker' = [worker EXCEPT ![w] = x],
           \/ x.at = "away"
           \/ x.event \in Events /\ x.event[1] \in invoiced /\ (x.at = "done" => credited[x.event[1]] = 1)
    PROVE  PInv'
<1>1. worker \in [Workers -> WorkerRecord]
  BY DEF PInv, WebhookTypeOK, WorkerRecord
<1>2. worker' \in [Workers -> WorkerRecord]
  BY <1>1
<1>3. worker'[w] = x /\ \A v \in Workers \ {w} : worker'[v] = worker[v]
  BY <1>1
<1>4. \A v \in Workers : worker'[v].at # "away" =>
                /\ worker'[v].event \in Events /\ worker'[v].event[1] \in invoiced
                /\ worker'[v].at = "done" => credited[worker'[v].event[1]] = 1
  BY <1>3 DEF PInv, AtWork
<1>. QED
  BY <1>2, <1>4, CreditStays

LEMMA NextPInv == PInv /\ [Next]_vars => PInv'
<1> SUFFICES ASSUME PInv, [Next]_vars PROVE PInv'
  OBVIOUS
<1>1. /\ BInv' /\ invoiced \subseteq invoiced'
      /\ worker \in [Workers -> WorkerRecord]
      /\ credited \in [Payments -> Nat] /\ answered \subseteq Events
      /\ record \in [Events -> [status : {"none", "processing", "pending", "completed", "failed"},
                                by : Workers \cup {Nobody}, alive : BOOLEAN, retries : Nat]]
  BY NextBInv, InvoicedGrows DEF PInv, WebhookTypeOK, WorkerRecord
<1>2. /\ \A w \in Workers : worker[w] \in WorkerRecord
      /\ \A w \in Workers : worker[w].at # "away" =>
            worker[w].event \in Events /\ worker[w].event[1] \in invoiced
      /\ Away \in WorkerRecord /\ Away.at = "away"
  BY <1>1 DEF PInv, AtWork, WorkerRecord, Away
<1>3. CASE Charging \/ (\E p \in Payments : Pay(p)) \/ Crash \/ UNCHANGED vars
  BY <1>1, <1>3, WorkersStay DEF Charging, Pay, Crash, vars, webhookVars
<1>4. CASE \E e \in Events : LockExpires(e)
  <2>1. PICK e \in Events : record' = [record EXCEPT ![e].alive = FALSE]
    BY <1>4 DEF LockExpires
  <2>2. UNCHANGED <<credited, answered, worker>>
    BY <1>4 DEF LockExpires
  <2>. QED
    BY <1>1, <2>1, <2>2, WorkersStay
<1>5. ASSUME NEW w \in Workers, NEW e \in Events, Deliver(w, e)
      PROVE  PInv'
  <2>1. UNCHANGED <<credited, record>> /\ e[1] \in invoiced /\ answered' \subseteq Events
    BY <1>1, <1>5 DEF Deliver, Answer
  <2>2. CASE worker' = [worker EXCEPT ![w] = Away]
    BY <1>1, <1>2, <2>1, <2>2, WorkerMoves
  <2>3. CASE worker' = [worker EXCEPT ![w] = [Away EXCEPT !.at = "acquire", !.event = e]]
    <3> DEFINE x == [Away EXCEPT !.at = "acquire", !.event = e]
    <3>1. x \in WorkerRecord /\ x.at = "acquire" /\ x.event = e
      BY DEF Away, WorkerRecord
    <3>. HIDE DEF x
    <3>2. worker' = [worker EXCEPT ![w] = x]
      BY <2>3 DEF x
    <3>. QED
      BY <1>1, <2>1, <3>1, <3>2, WorkerMoves
  <2>. QED
    BY <1>5, <2>2, <2>3 DEF Deliver, Answer
<1>6. ASSUME NEW w \in Workers, Acquire(w)
      PROVE  PInv'
  <2> DEFINE e == worker[w].event
  <2>1. worker[w].at = "acquire" /\ credited' = credited /\ e \in Events /\ e[1] \in invoiced
    BY <1>2, <1>6 DEF Acquire, Is
  <2>2. CASE Answer(w, e) /\ UNCHANGED record
    BY <1>1, <1>2, <2>1, <2>2, WorkerMoves DEF Answer
  <2>3. CASE /\ record' = [record EXCEPT ![e].status = "processing", ![e].by = w, ![e].alive = TRUE]
             /\ Move(w, "process") /\ UNCHANGED answered
    <3> DEFINE x == [worker[w] EXCEPT !.at = "process"]
    <3>1. x \in WorkerRecord /\ x.at = "process" /\ x.event = e
      BY <1>2 DEF WorkerRecord
    <3>2. worker' = [worker EXCEPT ![w] = x]
      BY <2>3 DEF Move
    <3>3. /\ record' \in [Events -> [status : {"none", "processing", "pending", "completed", "failed"},
                                     by : Workers \cup {Nobody}, alive : BOOLEAN, retries : Nat]]
          /\ \A d \in Events : record'[d].status = "completed" => record[d].status = "completed"
      BY <1>1, <2>1, <2>3
    <3>. HIDE DEF x
    <3>. QED
      BY <1>1, <2>1, <2>3, <3>1, <3>2, <3>3, WorkerMoves
  <2>. QED
    BY <1>6, <2>2, <2>3 DEF Acquire
<1>7. ASSUME NEW w \in Workers, PurchaseConflict(w) \/ ProcessingFails(w)
      PROVE  PInv'
  <2>1. PICK kind \in {"transient", "permanent"} : Move(w, kind)
    BY <1>7 DEF PurchaseConflict, ProcessingFails, ConflictOutcome
  <2>2. worker[w].at # "away" /\ UNCHANGED <<credited, record, answered>>
    BY <1>7 DEF PurchaseConflict, ProcessingFails, Is
  <2> DEFINE x == [worker[w] EXCEPT !.at = kind]
  <2>3. x \in WorkerRecord /\ x.at = kind /\ x.event = worker[w].event
    BY <1>2 DEF WorkerRecord
  <2>4. worker' = [worker EXCEPT ![w] = x]
    BY <2>1 DEF Move
  <2>. HIDE DEF x
  <2>. QED
    BY <1>1, <1>2, <2>2, <2>3, <2>4, WorkerMoves
<1>8. ASSUME NEW w \in Workers, PurchaseBegins(w)
      PROVE  PInv'
  <2>1. worker[w].at # "away" /\ UNCHANGED <<credited, record, answered>>
    BY <1>8 DEF PurchaseBegins, Is
  <2>2. worker[w].event \in Events /\ worker[w].event[1] \in invoiced
    BY <1>2, <2>1
  <2>3. CASE Recorded(worker[w].event[1])
    <3> DEFINE x == [worker[w] EXCEPT !.at = "done"]
    <3>1. x \in WorkerRecord /\ x.event = worker[w].event
      BY <1>2 DEF WorkerRecord
    <3>2. worker' = [worker EXCEPT ![w] = x]
      BY <1>8, <2>3 DEF PurchaseBegins
    <3>3. credited[worker[w].event[1]] = 1
      BY <1>1, <2>2, <2>3, EventsOf DEF Recorded, PInv, PaidOnce
    <3>. HIDE DEF x
    <3>. QED
      BY <1>1, <2>1, <2>2, <3>1, <3>2, <3>3, WorkerMoves
  <2>4. CASE ~Recorded(worker[w].event[1])
    <3> DEFINE x == [worker[w] EXCEPT !.at = "purchase", !.fresh = TRUE]
    <3>1. x \in WorkerRecord /\ x.at = "purchase" /\ x.event = worker[w].event
      BY <1>2 DEF WorkerRecord
    <3>2. worker' = [worker EXCEPT ![w] = x]
      BY <1>8, <2>4 DEF PurchaseBegins
    <3>. HIDE DEF x
    <3>. QED
      BY <1>1, <2>1, <2>2, <3>1, <3>2, WorkerMoves
  <2>. QED
    BY <2>3, <2>4
<1>9. ASSUME NEW w \in Workers, PurchaseCommits(w)
      PROVE  PInv'
  <2> DEFINE p == worker[w].event[1]
  <2>1. worker[w].at # "away" /\ UNCHANGED <<record, answered, invoiced>>
    BY <1>9 DEF PurchaseCommits, Is
  <2>2. worker[w].event \in Events /\ p \in invoiced /\ p \in Payments
    BY <1>2, <2>1, EventsOf
  <2>3. CASE Recorded(p)
    <3> DEFINE x == [worker[w] EXCEPT !.at = "done"]
    <3>1. x \in WorkerRecord /\ x.event = worker[w].event
      BY <1>2 DEF WorkerRecord
    <3>2. worker' = [worker EXCEPT ![w] = x] /\ credited' = credited
      BY <1>9, <2>3 DEF PurchaseCommits, Move
    <3>3. credited[p] = 1
      BY <1>1, <2>2, <2>3 DEF Recorded, PInv, PaidOnce
    <3>. HIDE DEF x
    <3>. QED
      BY <1>1, <2>1, <2>2, <3>1, <3>2, <3>3, WorkerMoves
  <2>4. CASE ~Recorded(p)
    <3>1. credited[p] = 0
      BY <1>1, <2>2, <2>4 DEF Recorded
    <3>2. /\ credited' = [credited EXCEPT ![p] = @ + 1]
          /\ worker' = [Outdate EXCEPT ![w].at = "done"]
      BY <1>9, <2>4 DEF PurchaseCommits
    <3>3. /\ credited' \in [Payments -> Nat] /\ credited'[p] = 1
          /\ \A q \in Payments \ {p} : credited'[q] = credited[q]
      BY <1>1, <2>2, <3>1, <3>2
    <3>4. /\ worker' \in [Workers -> WorkerRecord]
          /\ \A v \in Workers : worker'[v].event = worker[v].event
          /\ \A v \in Workers \ {w} : worker'[v].at = worker[v].at
      <4> DEFINE aged(x) == [x EXCEPT !.fresh = FALSE]
                 done(x) == [aged(x) EXCEPT !.at = "done"]
      <4>1. \A x \in WorkerRecord :
              /\ aged(x) \in WorkerRecord /\ aged(x).at = x.at /\ aged(x).event = x.event
              /\ done(x) \in WorkerRecord /\ done(x).event = x.event
        BY DEF WorkerRecord
      <4>2. /\ \A v \in Workers \ {w} : worker'[v] = aged(worker[v])
            /\ worker'[w] = done(worker[w])
            /\ worker' = [v \in Workers |-> worker'[v]]
        BY <3>2 DEF Outdate
      <4>. HIDE DEF aged, done
      <4>3. ASSUME NEW v \in Workers
            PROVE  worker'[v] \in WorkerRecord /\ worker'[v].event = worker[v].event
                   /\ (v # w => worker'[v].at = worker[v].at)
        <5>1. CASE v # w
          BY <1>2, <4>1, <4>2, <5>1
        <5>2. CASE v = w
          BY <1>2, <4>1, <4>2, <5>2
        <5>. QED
          BY <5>1, <5>2
      <4>. QED
        BY <4>2, <4>3
    <3>5. WebhookTypeOK'
      BY <1>1, <2>1, <3>3, <3>4 DEF WebhookTypeOK, BInv, WorkerRecord
    <3>6. AtWork'
      BY <1>2, <2>1, <2>2, <3>3, <3>4, EventsOf DEF PInv, AtWork
    <3>7. PaidOnce'
      BY <2>1, <2>2, <3>3 DEF PInv, PaidOnce
    <3>8. CompletedIsCredited'
      BY <2>1, <3>1, <3>3, EventsOf DEF PInv, CompletedIsCredited
    <3>. QED
      BY <1>1, <3>5, <3>6, <3>7, <3>8 DEF PInv
  <2>. QED
    BY <2>3, <2>4
<1>10. ASSUME NEW w \in Workers, Finish(w)
       PROVE  PInv'
  <2> DEFINE e == worker[w].event
             n == record[e].retries
  <2>1. /\ worker[w].at \in {"done", "transient", "permanent"}
        /\ credited' = credited /\ Answer(w, e)
    BY <1>10 DEF Finish
  <2>2. e \in Events /\ e[1] \in invoiced /\ n \in Nat /\ MaxRetries \in Nat
    BY <1>1, <1>2, <2>1, WebhookAssumption
  <2>8. SUFFICES ASSUME record' # record
                 PROVE  PInv'
    <3>1. ASSUME UNCHANGED record
          PROVE  PInv'
      <4>1. worker' = [worker EXCEPT ![w] = Away] /\ answered' \subseteq Events
        BY <1>1, <2>1, <2>2 DEF Answer
      <4>. HIDE DEF e, n
      <4>. QED
        BY <1>1, <1>2, <2>1, <3>1, <4>1, WorkerMoves
    <3>. QED
      BY <3>1
  <2>3. PICK status \in {"completed", "failed", "pending"}, k \in Nat :
          /\ record' = [record EXCEPT ![e] = Unlocked(@, status, k)]
          /\ status = "completed" => worker[w].at = "done"
    <3>1. CASE worker[w].at = "done"
      BY <1>10, <2>2, <2>8, <3>1 DEF Finish, Is
    <3>2. CASE worker[w].at = "permanent"
      BY <1>10, <2>2, <2>8, <3>2 DEF Finish, Is
    <3>3. CASE worker[w].at = "transient" /\ n + 1 < MaxRetries
      <4>1. record' = [record EXCEPT ![e] = Unlocked(@, "pending", n + 1)]
        <5>1. ~Is(w, "done") /\ ~Is(w, "permanent")
          BY <3>3 DEF Is
        <5>2. Is(w, "transient") /\ n + 1 < MaxRetries /\ ~(n + 1 >= MaxRetries)
          BY <2>2, <3>3 DEF Is
        <5>. HIDE DEF n
        <5>. QED
          BY <1>10, <2>8, <5>1, <5>2 DEF Finish, n
      <4>2. n + 1 \in Nat
        BY <2>2
      <4>. HIDE DEF e, n
      <4>. QED
        BY <4>1, <4>2
    <3>4. CASE worker[w].at = "transient" /\ ~(n + 1 < MaxRetries)
      <4>1. n + 1 >= MaxRetries
        BY <2>2, <3>4
      <4>2. record' = [record EXCEPT ![e] = Unlocked(@, "failed", n + 1)]
        BY <1>10, <2>2, <2>8, <3>4, <4>1 DEF Finish, Is
      <4>3. n + 1 \in Nat
        BY <2>2
      <4>. HIDE DEF e, n
      <4>. QED
        BY <4>2, <4>3
    <3>. QED
      BY <2>1, <3>1, <3>2, <3>3, <3>4
  <2>4. /\ record' \in [Events -> [status : {"none", "processing", "pending", "completed", "failed"},
                                   by : Workers \cup {Nobody}, alive : BOOLEAN, retries : Nat]]
        /\ \A d \in Events : record'[d].status = "completed" =>
                record[d].status = "completed" \/ (d = e /\ status = "completed")
    BY <1>1, <2>2, <2>3 DEF Unlocked
  <2>5. status = "completed" => credited[e[1]] = 1
    BY <2>3 DEF PInv, AtWork
  <2>6. worker' = [worker EXCEPT ![w] = Away] /\ answered' \subseteq Events
    BY <1>1, <2>1, <2>2 DEF Answer
  <2>. HIDE DEF e, n
  <2>7. \A d \in Events : record'[d].status = "completed" =>
                record[d].status = "completed" \/ credited[d[1]] = 1
    BY <2>4, <2>5
  <2>. QED
    BY <1>1, <1>2, <2>1, <2>4, <2>6, <2>7, WorkerMoves
<1>. QED
  BY <1>3, <1>4, <1>5, <1>6, <1>7, <1>8, <1>9, <1>10 DEF Next, WorkerStep
--------------------------------------------------------------------------------
(* The theorems. *)

\* The invariant of every reachable state: the charges with their settlers, the reservations
\* and the payments with the workers that have their events.
THEOREM PaymentInvariant == Spec => []PInv
<1>. QED
  BY InitPInv, NextPInv, PTL DEF Spec

\* Balances never become negative, and the rows, reservations, locks and records stay well
\* typed.
THEOREM BillingTypeCorrect == Spec => []WebhookTypeOK
<1>1. PInv => WebhookTypeOK
  BY DEF PInv
<1>. QED
  BY <1>1, PaymentInvariant, PTL

\* The entries of a request add up to what its row says it costs: a charge is settled once,
\* whoever of its stream, a cancel and the reconciliation comes first.
THEOREM ChargesMatch == Spec => []ChargesMatchUsage
<1>1. PInv => ChargesMatchUsage
  BY DEF PInv, BInv
<1>. QED
  BY <1>1, PaymentInvariant, PTL

\* The margin of a charge that is pending and has not timed out stays reserved.
THEOREM Reserved == Spec => []ReservedWhilePending
<1>1. PInv => ReservedWhilePending
  BY DEF PInv, BInv
<1>. QED
  BY <1>1, PaymentInvariant, PTL

\* A payment becomes credit at most once, whatever is delivered twice, taken over or retried.
THEOREM OnePurchase == Spec => []PaidOnce
<1>1. PInv => PaidOnce
  BY DEF PInv
<1>. QED
  BY <1>1, PaymentInvariant, PTL

\* An event that is marked completed has become credit.
THEOREM CompletedCredited == Spec => []CompletedIsCredited
<1>1. PInv => CompletedIsCredited
  BY DEF PInv
<1>. QED
  BY <1>1, PaymentInvariant, PTL
================================================================================
