----------------------------- MODULE JobQueueProofs -----------------------------
(***************************************************************************)
(* JobQueue implements JobPool, for any callers, calls, jobs, capacity of    *)
(* the channel and time.                                                     *)
(***************************************************************************)
EXTENDS JobQueue, SequenceLemmas
--------------------------------------------------------------------------------
(* The invariant. *)

InDeque(j) == \E p \in Priorities : \E i \in 1..Len(queues[p]) : queues[p][i].job = j
Asking(c, j) == call[c].op = "enqueue" /\ j \in call[c].jobs /\ answer[c] = NoAnswer

\* A call that waits for a reply has had none, and a message in the channel is the call
\* its sender is still in; each has at most one.
Mail ==
    /\ \A c \in sent : call[c].op \notin {"idle", "shutdown"} /\ answer[c] = NoAnswer
    /\ \A i \in 1..Len(channel) : channel[i].msg.op # "shutdown" =>
            channel[i].from \in sent /\ call[channel[i].from] = channel[i].msg
    /\ \A i, k \in 1..Len(channel) :
            /\ channel[i].msg.op # "shutdown" /\ channel[k].msg.op # "shutdown"
            /\ channel[i].from = channel[k].from
            => i = k

\* No job is in two entries, nor in one while it is on its way into another.
Distinct ==
    \A p, q \in Priorities : \A i \in 1..Len(queues[p]), k \in 1..Len(queues[q]) :
        queues[p][i].job = queues[q][k].job => p = q /\ i = k

Unasked ==
    \A c \in Callers, j \in Jobs : Asking(c, j) =>
        ~InDeque(j) /\ \A d \in Callers : Asking(d, j) => c = d

Stopped == ~running => channel = <<>> /\ queues = [p \in Priorities |-> <<>>]

QInv ==
    /\ TypeOK
    /\ \A c \in Callers : call[c] \in Calls \cup {Idle}
    /\ Mail /\ Distinct /\ Unasked /\ Stopped

--------------------------------------------------------------------------------
(* Lemmas. *)

\* A message is taken out of the channel: what is left, and who it is from.
LEMMA Received ==
    ASSUME QInv, NEW op, Receive(op)
    PROVE  /\ Len(channel) \in Nat \ {0} /\ Head(channel) = channel[1]
           /\ channel' \in Seq([from : Callers, msg : CallRecord])
           /\ Len(channel') = Len(channel) - 1
           /\ \A i \in 1..Len(channel') : channel'[i] = channel[i + 1]
           /\ channel[1].from \in Callers /\ channel[1].msg.op = op
           /\ op # "shutdown" =>
                /\ channel[1].from \in sent /\ call[channel[1].from] = channel[1].msg
                /\ channel[1].msg \in Calls /\ answer[channel[1].from] = NoAnswer
<1> DEFINE M == [from : Callers, msg : CallRecord]
<1>1. channel \in Seq(M) /\ channel # <<>> /\ channel' = Tail(channel)
  BY DEF QInv, TypeOK, Receive
<1>2. /\ Len(channel) \in Nat \ {0} /\ Head(channel) = channel[1]
      /\ channel' \in Seq(M) /\ Len(channel') = Len(channel) - 1
      /\ \A i \in 1..Len(channel') : channel'[i] = channel[i + 1]
  BY <1>1, HeadTailProperties, EmptySeq, LenProperties
<1>. HIDE DEF M
<1>3. channel[1] \in M
  <2>1. 1 \in 1..Len(channel)
    BY <1>2
  <2>. QED
    BY <1>1, <2>1, ElementOfSeq
<1>. USE DEF M
<1>4. channel[1].from \in Callers /\ channel[1].msg.op = op
  BY <1>2, <1>3 DEF Receive
<1>5. ASSUME op # "shutdown"
      PROVE  /\ channel[1].from \in sent /\ call[channel[1].from] = channel[1].msg
             /\ channel[1].msg \in Calls /\ answer[channel[1].from] = NoAnswer
  <2>1. channel[1].from \in sent /\ call[channel[1].from] = channel[1].msg
    BY <1>2, <1>4, <1>5 DEF QInv, Mail
  <2>2. answer[channel[1].from] = NoAnswer /\ channel[1].msg.op # "idle"
    BY <2>1 DEF QInv, Mail
  <2>. QED
    BY <1>4, <2>1, <2>2 DEF QInv, Idle
<1>. QED
  BY <1>2, <1>4, <1>5

\* After the reply the rest of the mail is as before.
LEMMA RepliedMail ==
    ASSUME QInv, NEW op, Receive(op), op # "shutdown", NEW a, Reply(a), call' = call
    PROVE  Mail'
<1>1. /\ \A i \in 1..Len(channel') : channel'[i] = channel[i + 1] /\ i + 1 \in 1..Len(channel)
      /\ channel[1].from \in Callers /\ channel[1].msg.op # "shutdown"
      /\ 1 \in 1..Len(channel) /\ Head(channel) = channel[1] /\ Len(channel') \in Nat
      /\ \A i \in 1..Len(channel') : i + 1 # 1
  BY Received
<1>2. /\ sent' = sent \ {channel[1].from} /\ sent \subseteq Callers
      /\ \A c \in Callers \ {channel[1].from} : answer'[c] = answer[c]
  BY <1>1 DEF Reply, QInv, TypeOK
<1>3. \A c \in sent' : call'[c].op \notin {"idle", "shutdown"} /\ answer'[c] = NoAnswer
  BY <1>2 DEF QInv, Mail
<1>4. \A i \in 1..Len(channel') : channel'[i].msg.op # "shutdown" =>
            channel'[i].from \in sent' /\ call'[channel'[i].from] = channel'[i].msg
  BY <1>1, <1>2 DEF QInv, Mail
<1>5. \A i, k \in 1..Len(channel') :
            /\ channel'[i].msg.op # "shutdown" /\ channel'[k].msg.op # "shutdown"
            /\ channel'[i].from = channel'[k].from
            => i = k
  <2> SUFFICES ASSUME NEW i \in 1..Len(channel'), NEW k \in 1..Len(channel'),
                      channel'[i].msg.op # "shutdown", channel'[k].msg.op # "shutdown",
                      channel'[i].from = channel'[k].from
               PROVE  i = k
    OBVIOUS
  <2>1. i + 1 = k + 1
    BY <1>1 DEF QInv, Mail
  <2>. QED
    BY <2>1, <1>1
<1>. QED
  BY <1>3, <1>4, <1>5 DEF Mail

\* The members of the pool.
LEMMA PooledMembers ==
    /\ \A e : e \in Pooled <=> \E p \in Priorities : \E i \in 1..Len(queues[p]) :
          e = [job |-> queues[p][i].job, prio |-> p, after |-> queues[p][i].after]
    /\ \A e : e \in Pooled' <=> \E p \in Priorities : \E i \in 1..Len(queues'[p]) :
          e = [job |-> queues'[p][i].job, prio |-> p, after |-> queues'[p][i].after]
BY DEF Pooled

\* Entries leave and the others keep their order: f says where each one was.
Kept(f) ==
    /\ \A p \in Priorities : \A i \in 1..Len(queues'[p]) :
          f[p][i] \in 1..Len(queues[p]) /\ queues'[p][i] = queues[p][f[p][i]]
    /\ \A p \in Priorities : \A i, k \in 1..Len(queues'[p]) : f[p][i] = f[p][k] => i = k

LEMMA FewerEntries ==
    ASSUME QInv, NEW f, Kept(f), call' = call,
           \A c \in Callers : answer'[c] = NoAnswer => answer[c] = NoAnswer
    PROVE  Distinct' /\ Unasked'
<1>1. Distinct'
  <2> SUFFICES ASSUME NEW p \in Priorities, NEW q \in Priorities,
                      NEW i \in 1..Len(queues'[p]), NEW k \in 1..Len(queues'[q]),
                      queues'[p][i].job = queues'[q][k].job
               PROVE  p = q /\ i = k
    BY DEF Distinct
  <2>1. /\ f[p][i] \in 1..Len(queues[p]) /\ queues'[p][i] = queues[p][f[p][i]]
        /\ f[q][k] \in 1..Len(queues[q]) /\ queues'[q][k] = queues[q][f[q][k]]
    BY DEF Kept
  <2>2. \A a \in 1..Len(queues[p]), b \in 1..Len(queues[q]) :
            queues[p][a].job = queues[q][b].job => p = q /\ a = b
    BY DEF QInv, Distinct
  <2>3. queues[p][f[p][i]].job = queues[q][f[q][k]].job
    BY <2>1
  <2>4. p = q /\ f[p][i] = f[q][k]
    BY <2>1, <2>2, <2>3
  <2>. QED
    BY <2>4 DEF Kept
<1>2. \A j : InDeque(j)' => InDeque(j)
  BY DEF InDeque, Kept
<1>3. \A c \in Callers : \A j : Asking(c, j)' => Asking(c, j)
  BY DEF Asking, NoAnswer
<1>4. Unasked'
  BY <1>2, <1>3 DEF QInv, Unasked
<1>. QED
  BY <1>1, <1>4

\* One entry is taken out of one deque.
LEMMA TakenOut ==
    ASSUME QInv, NEW p \in Priorities, NEW i \in 1..Len(queues[p]),
           queues' = [queues EXCEPT ![p] = RemoveAt(@, i)]
    PROVE  /\ queues' \in [Priorities -> Seq(Entry)]
           /\ \E f : Kept(f)
           /\ Pooled' = Pooled \ {[job |-> queues[p][i].job, prio |-> p, after |-> queues[p][i].after]}
<1> DEFINE g == [k \in 1..(Len(queues[p]) - 1) |-> IF k < i THEN k ELSE k + 1]
           f == [q \in Priorities |-> IF q = p THEN g ELSE [k \in 1..Len(queues[q]) |-> k]]
           e == [job |-> queues[p][i].job, prio |-> p, after |-> queues[p][i].after]
<1>1. queues \in [Priorities -> Seq(Entry)] /\ Len(queues[p]) \in Nat
  BY DEF QInv, TypeOK
<1>2. /\ queues'[p] = RemoveAt(queues[p], i)
      /\ \A q \in Priorities : q # p => queues'[q] = queues[q]
  BY <1>1
<1>3. /\ queues'[p] \in Seq(Entry) /\ Len(queues'[p]) = Len(queues[p]) - 1
      /\ \A k \in 1..(Len(queues[p]) - 1) :
            queues'[p][k] = IF k < i THEN queues[p][k] ELSE queues[p][k + 1]
  BY <1>1, <1>2, RemoveAtProperties
<1>4. queues' \in [Priorities -> Seq(Entry)]
  BY <1>1, <1>2, <1>3
<1>5. \A k \in 1..(Len(queues[p]) - 1) :
          g[k] \in 1..Len(queues[p]) /\ g[k] # i /\ queues'[p][k] = queues[p][g[k]]
  BY <1>1, <1>3
<1>6. \A k, l \in 1..(Len(queues[p]) - 1) : g[k] = g[l] => k = l
  BY <1>1
<1>7. \A l \in 1..Len(queues[p]) : l # i => \E k \in 1..(Len(queues[p]) - 1) : g[k] = l
  <2> SUFFICES ASSUME NEW l \in 1..Len(queues[p]), l # i
               PROVE  \E k \in 1..(Len(queues[p]) - 1) : g[k] = l
    OBVIOUS
  <2>1. CASE l < i
    <3>1. l \in 1..(Len(queues[p]) - 1) /\ g[l] = l
      BY <2>1, <1>1
    <3>. QED
      BY <3>1
  <2>2. CASE l > i
    <3>1. l - 1 \in 1..(Len(queues[p]) - 1) /\ g[l - 1] = l
      BY <2>2, <1>1
    <3>. QED
      BY <3>1
  <2>3. l < i \/ l > i
    BY <1>1
  <2>. QED
    BY <2>1, <2>2, <2>3
<1>8. Kept(f)
  <2>1. f[p] = g
    OBVIOUS
  <2>2. \A q \in Priorities : q # p => f[q] = [k \in 1..Len(queues[q]) |-> k]
    OBVIOUS
  <2>. HIDE DEF f, g
  <2>3. \A k \in 1..Len(queues'[p]) :
            f[p][k] \in 1..Len(queues[p]) /\ queues'[p][k] = queues[p][f[p][k]]
    BY <2>1, <1>3, <1>5
  <2>4. \A k, l \in 1..Len(queues'[p]) : f[p][k] = f[p][l] => k = l
    BY <2>1, <1>3, <1>6
  <2>5. ASSUME NEW q \in Priorities, q # p
        PROVE  /\ \A k \in 1..Len(queues'[q]) :
                    f[q][k] \in 1..Len(queues[q]) /\ queues'[q][k] = queues[q][f[q][k]]
               /\ \A k, l \in 1..Len(queues'[q]) : f[q][k] = f[q][l] => k = l
    <3>1. queues'[q] = queues[q] /\ f[q] = [k \in 1..Len(queues[q]) |-> k]
      BY <2>2, <2>5, <1>2
    <3>2. \A k \in 1..Len(queues[q]) : f[q][k] = k
      BY <3>1
    <3>. QED
      BY <3>1, <3>2
  <2>. QED
    BY <2>3, <2>4, <2>5 DEF Kept
<1>9. ASSUME NEW q \in Priorities, NEW l \in 1..Len(queues[q]), q # p \/ l # i
      PROVE  [job |-> queues[q][l].job, prio |-> q, after |-> queues[q][l].after] # e
  BY <1>9 DEF QInv, Distinct
<1>. HIDE DEF g, e
<1>10. Pooled' \subseteq Pooled \ {e}
  <2> SUFFICES ASSUME NEW q \in Priorities, NEW k \in 1..Len(queues'[q])
               PROVE  [job |-> queues'[q][k].job, prio |-> q, after |-> queues'[q][k].after]
                         \in Pooled \ {e}
    BY PooledMembers
  <2>1. \E l \in 1..Len(queues[q]) : queues'[q][k] = queues[q][l] /\ (q # p \/ l # i)
    <3>1. CASE q = p
      <4>1. k \in 1..(Len(queues[p]) - 1)
        BY <3>1, <1>3
      <4>. QED
        BY <3>1, <4>1, <1>5
    <3>2. CASE q # p
      BY <3>2, <1>2
    <3>. QED
      BY <3>1, <3>2
  <2>. QED
    BY <2>1, <1>9, PooledMembers
<1>11. Pooled \ {e} \subseteq Pooled'
  <2> SUFFICES ASSUME NEW q \in Priorities, NEW l \in 1..Len(queues[q]), q # p \/ l # i
               PROVE  [job |-> queues[q][l].job, prio |-> q, after |-> queues[q][l].after]
                         \in Pooled'
    BY PooledMembers DEF e
  <2>1. \E k \in 1..Len(queues'[q]) : queues'[q][k] = queues[q][l]
    <3>1. CASE q = p
      <4>1. PICK k \in 1..(Len(queues[p]) - 1) : g[k] = l
        BY <3>1, <1>7
      <4>. QED
        BY <3>1, <4>1, <1>3, <1>5
    <3>2. CASE q # p
      BY <3>2, <1>2
    <3>. QED
      BY <3>1, <3>2
  <2>. QED
    BY <2>1, PooledMembers
<1>. QED
  BY <1>4, <1>8, <1>10, <1>11 DEF e

\* The entries of some jobs are taken out of every deque.
LEMMA AllTakenOut ==
    ASSUME QInv, NEW js, NEW f, \A p \in Priorities : f[p] \in Rest(p, js),
           queues' = [p \in Priorities |-> [i \in 1..Len(f[p]) |-> queues[p][f[p][i]]]]
    PROVE  /\ queues' \in [Priorities -> Seq(Entry)]
           /\ Kept(f)
           /\ Pooled' = Pooled \ {e \in Pooled : e.job \in js}
<1> DEFINE Left(p) == (1..Len(queues[p])) \ Positions(p, js)
           n(p) == Cardinality(Left(p))
<1>1. ASSUME NEW p \in Priorities
      PROVE  /\ n(p) \in Nat /\ f[p] \in [1..n(p) -> Left(p)]
             /\ \A i, k \in 1..n(p) : f[p][i] = f[p][k] => i = k
             /\ \A l \in Left(p) : \E i \in 1..n(p) : f[p][i] = l
             /\ queues'[p] \in Seq(Entry) /\ Len(queues'[p]) = n(p)
             /\ \A i \in 1..n(p) : queues'[p][i] = queues[p][f[p][i]]
  <2>1. queues[p] \in Seq(Entry) /\ Len(queues[p]) \in Nat
    BY DEF QInv, TypeOK
  <2>2. IsFiniteSet(Left(p)) /\ n(p) \in Nat
    <3>1. 1 \in Int /\ Len(queues[p]) \in Int
      BY <2>1
    <3>2. IsFiniteSet(1..Len(queues[p]))
      BY ONLY <3>1, FS_Interval
    <3>3. IsFiniteSet(Left(p))
      BY <3>2, FS_Difference
    <3>. QED
      BY <3>3, FS_CardinalityType
  <2>3. f[p] \in SetToSeqs(Left(p))
    BY DEF Rest
  <2>. HIDE DEF Left
  <2>4. /\ f[p] \in [1..n(p) -> Left(p)]
        /\ \A i, k \in 1..n(p) : i # k => f[p][i] # f[p][k]
    BY <2>3 DEF SetToSeqs
  <2>5. f[p] \in Injection(1..n(p), Left(p))
    BY <2>4 DEF Injection, IsInjective
  <2>6. IsFiniteSet(1..n(p)) /\ Cardinality(1..n(p)) = n(p)
    BY <2>2, FS_Interval
  <2>7. f[p] \in Surjection(1..n(p), Left(p))
    BY <2>2, <2>5, <2>6, FS_Injection
  <2>8. \A l \in Left(p) : \E i \in 1..n(p) : f[p][i] = l
    BY <2>7 DEF Surjection
  <2>9. f[p] \in Seq(Left(p)) /\ Len(f[p]) = n(p)
    BY <2>2, <2>4
  <2>10. queues'[p] = [i \in 1..n(p) |-> queues[p][f[p][i]]]
    BY <2>9
  <2>11. \A l \in Left(p) : queues[p][l] \in Entry
    BY <2>1, ElementOfSeq DEF Left
  <2>12. queues'[p] \in [1..n(p) -> Entry]
    BY <2>4, <2>10, <2>11
  <2>13. queues'[p] \in Seq(Entry) /\ Len(queues'[p]) = n(p)
    BY <2>2, <2>12
  <2>. QED
    BY <2>2, <2>4, <2>8, <2>10, <2>13
<1>2. queues' \in [Priorities -> Seq(Entry)]
  BY <1>1
<1>. HIDE DEF n, Left
<1>3. Kept(f)
  <2> SUFFICES ASSUME NEW p \in Priorities
               PROVE  /\ \A i \in 1..Len(queues'[p]) :
                            f[p][i] \in 1..Len(queues[p]) /\ queues'[p][i] = queues[p][f[p][i]]
                      /\ \A i, k \in 1..Len(queues'[p]) : f[p][i] = f[p][k] => i = k
    BY DEF Kept
  <2>1. Left(p) \subseteq 1..Len(queues[p])
    BY DEF Left
  <2>. QED
    BY <1>1, <2>1
<1>4. Pooled' \subseteq Pooled \ {e \in Pooled : e.job \in js}
  <2> SUFFICES ASSUME NEW e \in Pooled'
               PROVE  e \in Pooled /\ e.job \notin js
    OBVIOUS
  <2>. PICK p \in Priorities : \E i \in 1..Len(queues'[p]) :
          e = [job |-> queues'[p][i].job, prio |-> p, after |-> queues'[p][i].after]
    BY PooledMembers
  <2>. PICK i \in 1..Len(queues'[p]) :
          e = [job |-> queues'[p][i].job, prio |-> p, after |-> queues'[p][i].after]
    OBVIOUS
  <2>1. f[p][i] \in Left(p) /\ queues'[p][i] = queues[p][f[p][i]]
    BY <1>1
  <2>2. f[p][i] \in 1..Len(queues[p]) /\ queues[p][f[p][i]].job \notin js
    BY <2>1 DEF Left, Positions
  <2>. QED
    BY <2>1, <2>2, PooledMembers
<1>5. Pooled \ {e \in Pooled : e.job \in js} \subseteq Pooled'
  <2> SUFFICES ASSUME NEW e \in Pooled, e.job \notin js
               PROVE  e \in Pooled'
    OBVIOUS
  <2>. PICK p \in Priorities : \E l \in 1..Len(queues[p]) :
          e = [job |-> queues[p][l].job, prio |-> p, after |-> queues[p][l].after]
    BY DEF Pooled
  <2>. PICK l \in 1..Len(queues[p]) :
          e = [job |-> queues[p][l].job, prio |-> p, after |-> queues[p][l].after]
    OBVIOUS
  <2>1. l \in Left(p)
    BY DEF Positions, Left
  <2>2. PICK i \in 1..n(p) : f[p][i] = l
    BY <1>1, <2>1
  <2>3. i \in 1..Len(queues'[p]) /\ queues'[p][i] = queues[p][l]
    BY <1>1, <2>2
  <2>. QED
    BY <2>3, PooledMembers
<1>. QED
  BY <1>2, <1>3, <1>4, <1>5
--------------------------------------------------------------------------------
(* The invariant holds. *)

LEMMA InitQInv == Init => QInv
<1> SUFFICES ASSUME Init PROVE QInv
  OBVIOUS
<1>1. \A p \in Priorities : queues[p] = <<>> /\ Len(queues[p]) = 0
  BY DEF Init
<1>2. TypeOK
  BY ChannelAssumption DEF Init, TypeOK, Idle, NoAnswer, CallRecord, Ops, Priorities
<1>3. Len(channel) = 0 /\ \A c \in Callers : call[c] = Idle
  BY DEF Init
<1>. QED
  BY <1>1, <1>2, <1>3 DEF QInv, Mail, Distinct, Unasked, Stopped, Asking, Idle, Init

\* What a message leads to: a reply, in a state whose deques are well typed.
LEMMA RepliedTypes ==
    ASSUME QInv, NEW op, Receive(op), op # "shutdown", NEW a, Reply(a),
           a \in [kind : {"none", "ok", "error"}, jobs : SUBSET Jobs],
           queues' \in [Priorities -> Seq(Entry)], UNCHANGED <<running, now, call>>
    PROVE  /\ TypeOK' /\ Stopped' /\ (\A c \in Callers : call'[c] \in Calls \cup {Idle})
<1>1. /\ channel' \in Seq([from : Callers, msg : CallRecord])
      /\ Len(channel') = Len(channel) - 1 /\ Len(channel) \in Nat
  BY Received
<1>2. answer' \in [Callers -> [kind : {"none", "ok", "error"}, jobs : SUBSET Jobs]]
  BY DEF QInv, TypeOK, Reply
<1>3. sent' \subseteq Callers /\ Len(channel') <= ChannelCap
  BY <1>1, ChannelAssumption DEF QInv, TypeOK, Reply
<1>4. running'
  BY DEF Receive
<1>. QED
  BY <1>1, <1>2, <1>3, <1>4 DEF QInv, TypeOK, Stopped

\* Who was answered is not asking any more.
LEMMA Answered ==
    ASSUME QInv, NEW op, Receive(op), op # "shutdown", NEW js, Reply(Ok(js))
    PROVE  /\ \A c \in Callers : answer'[c] = NoAnswer => answer[c] = NoAnswer
           /\ answer'[channel[1].from] = Ok(js) /\ Ok(js) # NoAnswer
<1>1. Head(channel) = channel[1] /\ channel[1].from \in Callers
  BY Received
<1>2. answer' = [answer EXCEPT ![channel[1].from] = Ok(js)] /\ DOMAIN answer = Callers
  BY <1>1 DEF Reply, QInv, TypeOK
<1>. QED
  BY <1>1, <1>2 DEF Ok, NoAnswer

\* The steps that do not touch the deques and with which nobody begins to ask.
LEMMA SameEntries ==
    ASSUME QInv, queues' = queues, \A c \in Callers : \A j : Asking(c, j)' => Asking(c, j)
    PROVE  Distinct' /\ Unasked'
BY DEF QInv, Distinct, Unasked, InDeque

LEMMA CallQInv ==
    ASSUME QInv, NEW c \in Callers, Call(c)
    PROVE  QInv'
<1>1. PICK k \in Calls :
        /\ k.op = "enqueue" => \A j \in k.jobs : ~Waiting(j)
        /\ call' = [call EXCEPT ![c] = k]
  BY DEF Call
<1>2. /\ call[c].op = "idle" /\ k \in CallRecord
      /\ UNCHANGED <<queues, channel, running, now, sent, answer>>
  BY ChannelAssumption DEF Call, Idle
<1>3. c \notin sent
  BY <1>2 DEF QInv, Mail
<1>4. \A d \in Callers : call'[d] = IF d = c THEN k ELSE call[d]
  BY <1>1 DEF QInv, TypeOK
<1>5. TypeOK' /\ Stopped' /\ \A d \in Callers : call'[d] \in Calls \cup {Idle}
  BY <1>1, <1>2, <1>4 DEF QInv, TypeOK, Stopped
<1>6. Mail'
  BY <1>2, <1>3, <1>4 DEF QInv, Mail, TypeOK
<1>7. Distinct'
  BY <1>2 DEF QInv, Distinct
<1>8. Unasked'
  <2> SUFFICES ASSUME NEW d \in Callers, NEW j \in Jobs, Asking(d, j)'
               PROVE  ~InDeque(j) /\ \A e \in Callers : Asking(e, j)' => d = e
    BY <1>2 DEF Unasked, InDeque
  <2>1. \A e \in Callers \ {c} : Asking(e, j)' => Asking(e, j)
    BY <1>2, <1>4 DEF Asking
  <2>2. ASSUME Asking(c, j)'
        PROVE  ~InDeque(j) /\ \A e \in Callers \ {c} : ~Asking(e, j)
    BY <1>1, <1>2, <1>4, <2>2 DEF Asking, Waiting, InDeque
  <2>3. CASE d = c
    BY <2>1, <2>2, <2>3
  <2>4. CASE d # c
    BY <2>1, <2>2, <2>4 DEF QInv, Unasked
  <2>. QED
    BY <2>3, <2>4
<1>. QED
  BY <1>5, <1>6, <1>7, <1>8 DEF QInv

LEMMA SendQInv ==
    ASSUME QInv, NEW c \in Callers, Send(c)
    PROVE  QInv'
<1> DEFINE M == [from : Callers, msg : CallRecord]
           m == [from |-> c, msg |-> call[c]]
<1>1. /\ channel \in Seq(M) /\ Len(channel) \in Nat /\ m \in M
      /\ UNCHANGED <<queues, running, now, call>> /\ running
      /\ c \notin sent /\ Len(channel) < ChannelCap /\ call[c].op # "idle"
      /\ channel' = Append(channel, m)
  BY ChannelAssumption DEF QInv, TypeOK, Send, Idle
<1>2. /\ channel' \in Seq(M) /\ Len(channel') = Len(channel) + 1
      /\ \A i \in 1..Len(channel) : channel'[i] = channel[i]
      /\ channel'[Len(channel) + 1] = m
  <2>. HIDE DEF M, m
  <2>. QED
    BY <1>1, AppendProperties
<1>3. \/ /\ call[c].op = "shutdown" /\ sent' = sent
         /\ answer' = [answer EXCEPT ![c] = Ok({})]
      \/ /\ call[c].op # "shutdown" /\ sent' = sent \cup {c} /\ answer' = answer
  BY DEF Send
<1>4. answer' \in [Callers -> [kind : {"none", "ok", "error"}, jobs : SUBSET Jobs]]
  BY <1>3 DEF QInv, TypeOK, Ok
<1>5. TypeOK' /\ Stopped' /\ \A d \in Callers : call'[d] \in Calls \cup {Idle}
  BY <1>1, <1>2, <1>3, <1>4, ChannelAssumption DEF QInv, TypeOK, Stopped
<1>6. \A d \in sent' : call'[d].op \notin {"idle", "shutdown"} /\ answer'[d] = NoAnswer
  BY <1>1, <1>3 DEF QInv, Mail, TypeOK, Send
<1>7. \A i \in 1..Len(channel') : channel'[i].msg.op # "shutdown" =>
            channel'[i].from \in sent' /\ call'[channel'[i].from] = channel'[i].msg
  <2> SUFFICES ASSUME NEW i \in 1..Len(channel'), channel'[i].msg.op # "shutdown"
               PROVE  channel'[i].from \in sent' /\ call'[channel'[i].from] = channel'[i].msg
    OBVIOUS
  <2>1. CASE i \in 1..Len(channel)
    BY <2>1, <1>1, <1>2, <1>3 DEF QInv, Mail
  <2>2. CASE i = Len(channel) + 1
    BY <2>2, <1>1, <1>2, <1>3
  <2>. QED
    BY <2>1, <2>2, <1>1, <1>2
<1>8. \A i, k \in 1..Len(channel') :
            /\ channel'[i].msg.op # "shutdown" /\ channel'[k].msg.op # "shutdown"
            /\ channel'[i].from = channel'[k].from
            => i = k
  <2>1. \A i \in 1..Len(channel) : channel[i].msg.op # "shutdown" => channel[i].from # c
    BY <1>1 DEF QInv, Mail
  <2>2. \A i, k \in 1..Len(channel) :
            /\ channel[i].msg.op # "shutdown" /\ channel[k].msg.op # "shutdown"
            /\ channel[i].from = channel[k].from
            => i = k
    BY DEF QInv, Mail
  <2>3. \A i \in 1..Len(channel') : i \in 1..Len(channel) \/ i = Len(channel) + 1
    BY <1>1, <1>2
  <2>. QED
    BY <2>1, <2>2, <2>3, <1>2
<1>9. Distinct' /\ Unasked'
  <2>1. \A d \in Callers : \A j : Asking(d, j)' => Asking(d, j)
    BY <1>1, <1>3 DEF Asking, NoAnswer, Ok, QInv, TypeOK
  <2>. QED
    BY <2>1, <1>1, SameEntries
<1>. QED
  BY <1>5, <1>6, <1>7, <1>8, <1>9 DEF QInv, Mail

LEMMA CallerQInv ==
    ASSUME QInv, NEW c \in Callers, Disconnected(c) \/ Return(c)
    PROVE  QInv'
<1>1. UNCHANGED <<queues, channel, running, now>> /\ sent' \subseteq sent
  BY DEF Disconnected, Return
<1>2. CASE Disconnected(c)
  <2>1. /\ call' = call /\ sent' = sent \ {c} /\ channel' = <<>> /\ Len(channel') = 0
        /\ answer' = [answer EXCEPT ![c] = Refusal(call[c].op)]
    BY <1>2 DEF Disconnected, QInv, Stopped
  <2>2. Refusal(call[c].op) \in {Ok({}), Error}
    BY DEF Refusal
  <2>3. TypeOK' /\ Stopped' /\ \A d \in Callers : call'[d] \in Calls \cup {Idle}
    BY <1>1, <2>1, <2>2 DEF QInv, TypeOK, Stopped, Ok, Error
  <2>4. Mail'
    BY <1>1, <2>1 DEF QInv, Mail, TypeOK
  <2>5. \A d \in Callers : \A j : Asking(d, j)' => Asking(d, j)
    BY <2>1, <2>2 DEF Asking, NoAnswer, Ok, Error, QInv, TypeOK
  <2>. QED
    BY <1>1, <2>3, <2>4, <2>5, SameEntries DEF QInv
<1>3. CASE Return(c)
  <2>1. /\ call' = [call EXCEPT ![c] = Idle] /\ sent' = sent /\ c \notin sent
        /\ answer' = [answer EXCEPT ![c] = NoAnswer]
    BY <1>3 DEF Return, QInv, Mail
  <2>2. Idle \in CallRecord /\ Idle.op = "idle"
    BY DEF Idle, CallRecord, Ops, Priorities
  <2>3. TypeOK' /\ Stopped' /\ \A d \in Callers : call'[d] \in Calls \cup {Idle}
    BY <1>1, <2>1, <2>2 DEF QInv, TypeOK, Stopped, NoAnswer
  <2>4. Mail'
    BY <1>1, <2>1 DEF QInv, Mail, TypeOK
  <2>5. \A d \in Callers : \A j : Asking(d, j)' => Asking(d, j)
    BY <2>1, <2>2 DEF Asking, QInv, TypeOK
  <2>. QED
    BY <1>1, <2>3, <2>4, <2>5, SameEntries DEF QInv
<1>. QED
  BY <1>2, <1>3

\* An enqueued job enters the deque of its priority, behind the others.
LEMMA PutIn ==
    ASSUME QInv, HandleEnqueue
    PROVE  LET m == channel[1].msg
               p == m.prio
               n == Len(queues[p])
           IN  \E j \in Jobs :
                 /\ p \in Priorities /\ n \in Nat /\ m.jobs = {j} /\ m.op = "enqueue"
                 /\ queues' \in [Priorities -> Seq(Entry)]
                 /\ \A q \in Priorities : q # p => queues'[q] = queues[q]
                 /\ Len(queues'[p]) = n + 1
                 /\ \A i \in 1..n : queues'[p][i] = queues[p][i]
                 /\ queues'[p][n + 1] = [job |-> j, after |-> IF m.delay = 0 THEN 0 ELSE now + m.delay]
<1> DEFINE m == channel[1].msg
           after == IF m.delay = 0 THEN 0 ELSE now + m.delay
<1>1. Receive("enqueue") /\ Head(channel) = channel[1] /\ m \in Calls /\ m.op = "enqueue"
  BY Received DEF HandleEnqueue
<1>2. m \in CallRecord /\ \E j \in Jobs : m.jobs = {j}
  BY <1>1, ChannelAssumption
<1>3. m.prio \in Priorities /\ after \in Nat
  <2>1. m.prio \in Priorities /\ m.delay \in Nat
    BY <1>2 DEF CallRecord
  <2>2. now \in Nat
    BY DEF QInv, TypeOK
  <2>. QED
    BY <2>1, <2>2
<1>4. PICK j \in Jobs : m.jobs = {j}
  BY <1>2
<1> DEFINE e == [job |-> j, after |-> after]
<1>5. queues' = [queues EXCEPT ![m.prio] = Append(@, e)]
  BY <1>1, <1>4 DEF HandleEnqueue
<1>6. e \in Entry /\ queues \in [Priorities -> Seq(Entry)]
  BY <1>3 DEF Entry, QInv, TypeOK
<1>. HIDE DEF e
<1>7. /\ Append(queues[m.prio], e) \in Seq(Entry) /\ Len(queues[m.prio]) \in Nat
      /\ Len(Append(queues[m.prio], e)) = Len(queues[m.prio]) + 1
      /\ \A i \in 1..Len(queues[m.prio]) : Append(queues[m.prio], e)[i] = queues[m.prio][i]
      /\ Append(queues[m.prio], e)[Len(queues[m.prio]) + 1] = e
  BY <1>3, <1>6, AppendProperties
<1>8. /\ queues' \in [Priorities -> Seq(Entry)]
      /\ queues'[m.prio] = Append(queues[m.prio], e)
      /\ \A q \in Priorities : q # m.prio => queues'[q] = queues[q]
  BY <1>3, <1>5, <1>6, <1>7
<1>. QED
  BY <1>1, <1>3, <1>4, <1>7, <1>8 DEF e

LEMMA EnqueueQInv ==
    ASSUME QInv, HandleEnqueue
    PROVE  QInv'
<1> DEFINE c == channel[1].from
           p == channel[1].msg.prio
           n == Len(queues[p])
           after == IF channel[1].msg.delay = 0 THEN 0 ELSE now + channel[1].msg.delay
<1>. HIDE DEF after
<1>0. PICK j \in Jobs :
        /\ p \in Priorities /\ n \in Nat /\ channel[1].msg.jobs = {j} /\ channel[1].msg.op = "enqueue"
        /\ queues' \in [Priorities -> Seq(Entry)]
        /\ \A q \in Priorities : q # p => queues'[q] = queues[q]
        /\ Len(queues'[p]) = n + 1
        /\ \A i \in 1..n : queues'[p][i] = queues[p][i]
        /\ queues'[p][n + 1] = [job |-> j, after |-> after]
  BY PutIn, Zenon DEF after
<1>1. /\ p \in Priorities /\ n \in Nat /\ channel[1].msg.jobs = {j}
      /\ queues' \in [Priorities -> Seq(Entry)]
      /\ \A q \in Priorities : q # p => queues'[q] = queues[q]
      /\ Len(queues'[p]) = n + 1
      /\ \A i \in 1..n : queues'[p][i] = queues[p][i]
      /\ queues'[p][n + 1].job = j
  BY <1>0
<1>2. /\ Receive("enqueue") /\ Reply(Ok({})) /\ UNCHANGED <<running, now, call>>
      /\ c \in Callers /\ call[c].op = "enqueue" /\ call[c].jobs = {j} /\ answer[c] = NoAnswer
  BY <1>1, Received DEF HandleEnqueue
<1>3. TypeOK' /\ Stopped' /\ (\A d \in Callers : call'[d] \in Calls \cup {Idle})
  BY <1>1, <1>2, RepliedTypes DEF Ok
<1>4. Mail'
  BY <1>2, RepliedMail
<1>5. Asking(c, j)
  BY <1>2 DEF Asking
<1>6. \A q \in Priorities : \A i \in 1..Len(queues[q]) : queues[q][i].job # j
  BY <1>2, <1>5 DEF QInv, Unasked, InDeque
<1>. HIDE DEF c, p, n
<1>7. \A q \in Priorities : \A i \in 1..Len(queues'[q]) :
          \/ i \in 1..Len(queues[q]) /\ queues'[q][i] = queues[q][i]
          \/ q = p /\ i = n + 1 /\ queues'[q][i].job = j
  <2>1. \A i \in 1..(n + 1) : i \in 1..n \/ i = n + 1
    BY <1>1
  <2>. QED
    BY <1>1, <2>1 DEF n
<1>8. Distinct'
  <2> SUFFICES ASSUME NEW q \in Priorities, NEW r \in Priorities,
                      NEW i \in 1..Len(queues'[q]), NEW k \in 1..Len(queues'[r]),
                      queues'[q][i].job = queues'[r][k].job
               PROVE  q = r /\ i = k
    BY DEF Distinct
  <2>1. \A a \in 1..Len(queues[q]), b \in 1..Len(queues[r]) :
            queues[q][a].job = queues[r][b].job => q = r /\ a = b
    BY DEF QInv, Distinct
  <2>2. /\ \/ i \in 1..Len(queues[q]) /\ queues'[q][i] = queues[q][i]
           \/ q = p /\ i = n + 1 /\ queues'[q][i].job = j
        /\ \/ k \in 1..Len(queues[r]) /\ queues'[r][k] = queues[r][k]
           \/ r = p /\ k = n + 1 /\ queues'[r][k].job = j
    BY <1>7
  <2>. QED
    BY <1>6, <2>1, <2>2
<1>9. Unasked'
  <2>. PICK b \in Callers : b = c
    BY <1>2
  <2>1. /\ \A d \in Callers : \A l : Asking(d, l)' => Asking(d, l)
        /\ \A l : ~Asking(b, l)'
    <3>1. /\ \A d \in Callers : answer'[d] = NoAnswer => answer[d] = NoAnswer
          /\ answer'[b] # NoAnswer /\ call' = call
      BY <1>2, Answered DEF c
    <3>. QED
      BY <3>1 DEF Asking
  <2>2. \A l : InDeque(l)' => InDeque(l) \/ l = j
    BY <1>7 DEF InDeque
  <2>3. \A d \in Callers : Asking(d, j) => b = d
    BY <1>2, <1>5 DEF QInv, Unasked
  <2> SUFFICES ASSUME NEW d \in Callers, NEW l \in Jobs, Asking(d, l)'
               PROVE  ~InDeque(l)' /\ \A e \in Callers : Asking(e, l)' => d = e
    BY DEF Unasked
  <2>4. Asking(d, l) /\ d # b
    BY <2>1
  <2>5. l # j
    BY <2>3, <2>4
  <2>6. ~InDeque(l) /\ \A e \in Callers : Asking(e, l) => d = e
    BY <2>4 DEF QInv, Unasked
  <2>. QED
    BY <2>1, <2>2, <2>5, <2>6
<1>. QED
  BY <1>3, <1>4, <1>8, <1>9 DEF QInv

\* Entries leave and somebody is told.
LEMMA LeaveQInv ==
    ASSUME QInv, NEW op, Receive(op), op # "shutdown",
           NEW js \in SUBSET Jobs, Reply(Ok(js)), UNCHANGED <<running, now, call>>,
           queues' = queues \/ (queues' \in [Priorities -> Seq(Entry)] /\ \E f : Kept(f))
    PROVE  QInv'
<1>1. queues' \in [Priorities -> Seq(Entry)]
  BY DEF QInv, TypeOK
<1>2. TypeOK' /\ Stopped' /\ (\A d \in Callers : call'[d] \in Calls \cup {Idle})
  BY <1>1, RepliedTypes DEF Ok
<1>3. Mail'
  BY RepliedMail
<1>4. \A c \in Callers : answer'[c] = NoAnswer => answer[c] = NoAnswer
  BY Answered
<1>5. Distinct' /\ Unasked'
  <2>1. CASE queues' = queues
    <3>1. \A d \in Callers : \A l : Asking(d, l)' => Asking(d, l)
      BY <1>4 DEF Asking
    <3>. QED
      BY <2>1, <3>1, SameEntries
  <2>2. CASE \E f : Kept(f)
    BY <2>2, <1>4, FewerEntries
  <2>. QED
    BY <2>1, <2>2
<1>. QED
  BY <1>2, <1>3, <1>5 DEF QInv

LEMMA JobOf ==
    ASSUME QInv, NEW p \in Priorities, NEW i \in 1..Len(queues[p])
    PROVE  queues[p][i].job \in Jobs /\ queues[p][i].after \in Nat
<1>1. queues[p] \in Seq(Entry)
  BY DEF QInv, TypeOK
<1>2. queues[p][i] \in Entry
  BY <1>1, ElementOfSeq
<1>. QED
  BY <1>2 DEF Entry

LEMMA NextQInv == QInv /\ [Next]_vars => QInv'
<1> SUFFICES ASSUME QInv, [Next]_vars PROVE QInv'
  OBVIOUS
<1>1. ASSUME NEW c \in Callers, Call(c) \/ CallerStep(c)
      PROVE  QInv'
  BY <1>1, CallQInv, SendQInv, CallerQInv DEF CallerStep
<1>2. CASE HandleEnqueue
  BY <1>2, EnqueueQInv
<1>3. CASE HandleDequeue
  <2>1. ASSUME NEW p \in Priorities, NEW i \in Eligible(p),
               queues' = [queues EXCEPT ![p] = RemoveAt(@, i)], Reply(Ok({queues[p][i].job}))
        PROVE  QInv'
    <3>1. i \in 1..Len(queues[p])
      BY DEF Eligible
    <3>2. {queues[p][i].job} \in SUBSET Jobs
      BY <3>1, JobOf
    <3>3. queues' \in [Priorities -> Seq(Entry)] /\ \E f : Kept(f)
      BY <2>1, <3>1, TakenOut
    <3>. QED
      BY <1>3, <2>1, <3>2, <3>3, LeaveQInv DEF HandleDequeue
  <2>2. CASE queues' = queues /\ Reply(Ok({}))
    BY <1>3, <2>2, LeaveQInv DEF HandleDequeue
  <2>. QED
    BY <1>3, <2>1, <2>2 DEF HandleDequeue
<1>4. CASE HandleCancel
  <2>1. ASSUME NEW p \in Priorities, NEW i \in 1..Len(queues[p]),
               queues' = [queues EXCEPT ![p] = RemoveAt(@, i)], Reply(Ok({queues[p][i].job}))
        PROVE  QInv'
    <3>1. {queues[p][i].job} \in SUBSET Jobs
      BY JobOf
    <3>2. queues' \in [Priorities -> Seq(Entry)] /\ \E f : Kept(f)
      BY <2>1, TakenOut
    <3>. QED
      BY <1>4, <2>1, <3>1, <3>2, LeaveQInv DEF HandleCancel
  <2>2. CASE queues' = queues /\ Reply(Ok({}))
    BY <1>4, <2>2, LeaveQInv DEF HandleCancel
  <2>. QED
    BY <1>4, <2>1, <2>2 DEF HandleCancel, Positions
<1>5. CASE HandleCancelSession
  <2> DEFINE js == Head(channel).msg.jobs
             told == UNION {{queues[p][i].job : i \in Positions(p, js)} : p \in Priorities}
  <2>1. \E f : /\ \A p \in Priorities : f[p] \in Rest(p, js)
               /\ queues' = [p \in Priorities |-> [i \in 1..Len(f[p]) |-> queues[p][f[p][i]]]]
    BY <1>5 DEF HandleCancelSession
  <2>2. queues' \in [Priorities -> Seq(Entry)] /\ \E f : Kept(f)
    BY <2>1, AllTakenOut
  <2>3. told \in SUBSET Jobs
    BY JobOf DEF Positions
  <2>. HIDE DEF told
  <2>4. Reply(Ok(told)) /\ Receive("cancel_session") /\ UNCHANGED <<running, now, call>>
    BY <1>5 DEF HandleCancelSession, told
  <2>. QED
    BY <2>2, <2>3, <2>4, LeaveQInv
<1>6. CASE HandleShutdown
  <2>1. /\ channel' = <<>> /\ Len(channel') = 0 /\ running' = FALSE
        /\ queues' = [p \in Priorities |-> <<>>]
        /\ \A p \in Priorities : queues'[p] = <<>> /\ Len(queues'[p]) = 0
        /\ UNCHANGED <<now, call, sent, answer>>
    BY <1>6 DEF HandleShutdown
  <2>2. TypeOK' /\ Stopped' /\ (\A d \in Callers : call'[d] \in Calls \cup {Idle})
    <3>1. queues' \in [Priorities -> Seq(Entry)]
      BY <2>1
    <3>2. channel' \in Seq([from : Callers, msg : CallRecord]) /\ Len(channel') <= ChannelCap
      BY <2>1, ChannelAssumption
    <3>. QED
      BY <2>1, <3>1, <3>2 DEF QInv, TypeOK, Stopped
  <2>3. Mail' /\ Distinct'
    BY <2>1 DEF QInv, Mail, Distinct
  <2>4. Unasked'
    BY <2>1 DEF QInv, Unasked, InDeque, Asking
  <2>. QED
    BY <2>2, <2>3, <2>4 DEF QInv
<1>7. CASE Tick
  <2>1. TypeOK' /\ Stopped' /\ (\A d \in Callers : call'[d] \in Calls \cup {Idle})
    BY <1>7, ChannelAssumption DEF Tick, QInv, TypeOK, Stopped
  <2>2. Mail'
    BY <1>7 DEF Tick, QInv, Mail
  <2>3. Distinct' /\ Unasked'
    BY <1>7, SameEntries DEF Tick, Asking
  <2>. QED
    BY <2>1, <2>2, <2>3 DEF QInv
<1>8. CASE UNCHANGED vars
  <2>1. Distinct' /\ Unasked'
    BY <1>8, SameEntries DEF vars, Asking
  <2>. QED
    BY <1>8, <2>1 DEF vars, QInv, TypeOK, Mail, Stopped
<1>. QED
  BY <1>1, <1>2, <1>3, <1>4, <1>5, <1>6, <1>7, <1>8 DEF Next, Process

\* The invariant of every reachable state.
THEOREM QueueInvariant == Spec => []QInv
<1>. QED
  BY InitQInv, NextQInv, PTL DEF Spec

\* Every reachable state is well typed: the channel never exceeds its capacity, and a
\* message in it is of a caller.
THEOREM QueueTypeCorrect == Spec => []TypeOK
<1>1. QInv => TypeOK
  BY DEF QInv
<1>. QED
  BY <1>1, QueueInvariant, PTL
--------------------------------------------------------------------------------
(* The refinement: every step of JobQueue is a step of JobPool, or none. *)

LEMMA SameValues ==
    /\ Pool!Idle = Idle /\ Pool!NoAnswer = NoAnswer /\ Pool!Error = Error
    /\ \A js : Pool!Ok(js) = Ok(js)
BY DEF Pool!Idle, Idle, Pool!NoAnswer, NoAnswer, Pool!Error, Error, Pool!Ok, Ok

LEMMA SamePool ==
    ASSUME queues' = queues
    PROVE  Pooled' = Pooled
BY DEF Pooled

\* A message other than a shutdown is read: the pool is as open as it was.
LEMMA StateAfterReceive ==
    ASSUME QInv, NEW op, Receive(op), op # "shutdown", running' = running
    PROVE  PoolState' = PoolState /\ PoolState # "closed"
<1>1. /\ \A i \in 1..Len(channel') : channel'[i] = channel[i + 1] /\ i + 1 \in 1..Len(channel)
      /\ \A i \in 1..Len(channel) : i # 1 => i - 1 \in 1..Len(channel') /\ channel'[i - 1] = channel[i]
      /\ channel[1].msg.op # "shutdown"
  <2>1. /\ Len(channel) \in Nat \ {0} /\ Len(channel') = Len(channel) - 1
        /\ \A i \in 1..Len(channel') : channel'[i] = channel[i + 1]
        /\ channel[1].msg.op # "shutdown"
    BY Received
  <2>2. \A i \in 1..Len(channel) : i # 1 => i - 1 \in 1..Len(channel') /\ (i - 1) + 1 = i
    BY <2>1
  <2>. QED
    BY <2>1, <2>2
<1>2. (\E i \in 1..Len(channel') : channel'[i].msg.op = "shutdown")
      <=> (\E i \in 1..Len(channel) : channel[i].msg.op = "shutdown")
  BY <1>1
<1>. QED
  BY <1>2 DEF PoolState, Receive

\* A message enters the channel: the pool is as open as it was, or a shutdown is asked for.
LEMMA StateAfterAppend ==
    ASSUME QInv, NEW m \in [from : Callers, msg : CallRecord],
           channel' = Append(channel, m), running, running' = running
    PROVE  PoolState' = (IF m.msg.op = "shutdown" THEN "closing" ELSE PoolState)
<1>1. /\ Len(channel') = Len(channel) + 1 /\ channel'[Len(channel) + 1] = m
      /\ \A i \in 1..Len(channel) : channel'[i] = channel[i]
      /\ Len(channel) \in Nat
  BY AppendProperties DEF QInv, TypeOK
<1>2. /\ \A i \in 1..Len(channel') : i \in 1..Len(channel) \/ i = Len(channel) + 1
      /\ \A i \in 1..Len(channel) : i \in 1..Len(channel')
      /\ Len(channel) + 1 \in 1..Len(channel')
  BY <1>1
<1>3. (\E i \in 1..Len(channel') : channel'[i].msg.op = "shutdown")
      <=> (\E i \in 1..Len(channel) : channel[i].msg.op = "shutdown") \/ m.msg.op = "shutdown"
  BY <1>1, <1>2
<1>. QED
  BY <1>3 DEF PoolState

\* What the pool sees of a message that is read and answered.
LEMMA Effect ==
    ASSUME QInv, NEW op, Receive(op), op # "shutdown", NEW js, Reply(Ok(js)),
           UNCHANGED <<running, now, call>>
    PROVE  \E c \in Callers :
             /\ c = channel[1].from /\ call[c] = channel[1].msg
             /\ Pool!Pending(c, op)
             /\ PoolState # "closed"
             /\ answer' = [answer EXCEPT ![c] = Pool!Ok(js)]
             /\ UNCHANGED <<PoolState, now, call>>
<1> DEFINE c == channel[1].from
<1>1. /\ c \in Callers /\ call[c] = channel[1].msg /\ call[c].op = op /\ answer[c] = NoAnswer
      /\ Head(channel) = channel[1]
  BY Received
<1>2. answer' = [answer EXCEPT ![c] = Ok(js)]
  BY <1>1 DEF Reply
<1>3. PoolState' = PoolState /\ PoolState # "closed"
  BY StateAfterReceive
<1>4. Pool!Pending(c, op) /\ answer' = [answer EXCEPT ![c] = Pool!Ok(js)]
  BY <1>1, <1>2, SameValues DEF Pool!Pending
<1>. HIDE DEF c
<1>5. c = channel[1].from
  BY DEF c
<1>. QED
  BY <1>1, <1>3, <1>4, <1>5

LEMMA EnqueueStep ==
    ASSUME QInv, HandleEnqueue
    PROVE  \E c \in Callers : Pool!Enqueue(c)
<1> DEFINE m == channel[1].msg
           p == m.prio
           n == Len(queues[p])
           after == IF m.delay = 0 THEN 0 ELSE now + m.delay
<1>. HIDE DEF after, n, p, m
<1>1. PICK j \in Jobs :
        /\ p \in Priorities /\ n \in Nat /\ m.jobs = {j}
        /\ queues' \in [Priorities -> Seq(Entry)]
        /\ \A q \in Priorities : q # p => queues'[q] = queues[q]
        /\ Len(queues'[p]) = n + 1
        /\ \A i \in 1..n : queues'[p][i] = queues[p][i]
        /\ queues'[p][n + 1] = [job |-> j, after |-> after]
  BY PutIn, Zenon DEF after, n, p, m
<1>2. PICK c \in Callers :
        /\ call[c] = m
        /\ Pool!Pending(c, "enqueue")
        /\ PoolState # "closed"
        /\ answer' = [answer EXCEPT ![c] = Pool!Ok({})]
        /\ UNCHANGED <<PoolState, now, call>>
  BY Effect DEF HandleEnqueue, m
<1> DEFINE e == [job |-> j, prio |-> p, after |-> after]
<1>3. /\ \A i \in 1..(n + 1) : i \in 1..n \/ i = n + 1
      /\ n + 1 \in 1..(n + 1) /\ \A i \in 1..n : i \in 1..(n + 1)
  BY <1>1
<1>. HIDE DEF e
<1>4. ASSUME NEW x \in Pooled'
      PROVE  x \in Pooled \cup {e}
  <2>. PICK q \in Priorities : \E i \in 1..Len(queues'[q]) :
          x = [job |-> queues'[q][i].job, prio |-> q, after |-> queues'[q][i].after]
    BY <1>4, PooledMembers
  <2>. PICK i \in 1..Len(queues'[q]) :
          x = [job |-> queues'[q][i].job, prio |-> q, after |-> queues'[q][i].after]
    OBVIOUS
  <2>1. CASE i \in 1..Len(queues[q]) /\ queues'[q][i] = queues[q][i]
    BY <2>1, PooledMembers
  <2>2. CASE q = p /\ i = n + 1
    BY <2>2, <1>1 DEF e
  <2>3. CASE q # p
    BY <2>1, <2>3, <1>1
  <2>4. CASE q = p /\ i # n + 1
    BY <2>1, <2>4, <1>1, <1>3 DEF n
  <2>. QED
    BY <2>2, <2>3, <2>4
<1>5. ASSUME NEW x \in Pooled
      PROVE  x \in Pooled'
  <2>. PICK q \in Priorities : \E i \in 1..Len(queues[q]) :
          x = [job |-> queues[q][i].job, prio |-> q, after |-> queues[q][i].after]
    BY <1>5 DEF Pooled
  <2>. PICK i \in 1..Len(queues[q]) :
          x = [job |-> queues[q][i].job, prio |-> q, after |-> queues[q][i].after]
    OBVIOUS
  <2>1. i \in 1..Len(queues'[q]) /\ queues'[q][i] = queues[q][i]
    <3>1. CASE q = p
      BY <3>1, <1>1, <1>3 DEF n
    <3>2. CASE q # p
      BY <3>2, <1>1
    <3>. QED
      BY <3>1, <3>2
  <2>. QED
    BY <2>1, PooledMembers
<1>6. e \in Pooled'
  BY <1>1, <1>3, PooledMembers DEF e
<1>7. Pooled' = Pooled \cup {e}
  BY <1>4, <1>5, <1>6
<1>8. call[c].prio = p /\ call[c].jobs = {j}
      /\ after = (IF call[c].delay = 0 THEN 0 ELSE now + call[c].delay)
  BY <1>1, <1>2 DEF p, after
<1>9. Pooled' = Pooled \cup {[job |-> l, prio |-> call[c].prio,
                             after |-> IF call[c].delay = 0 THEN 0 ELSE now + call[c].delay] :
                               l \in call[c].jobs}
  BY <1>7, <1>8 DEF e
<1>. QED
  BY <1>2, <1>9 DEF Pool!Enqueue

LEMMA DequeueStep ==
    ASSUME QInv, HandleDequeue
    PROVE  \E c \in Callers : Pool!Dequeue(c)
<1>1. ASSUME NEW q \in Priorities, Eligible(q) = {},
             NEW d \in Pool!Due
      PROVE  d.prio # q
  <2>. PICK r \in Priorities : \E k \in 1..Len(queues[r]) :
          d = [job |-> queues[r][k].job, prio |-> r, after |-> queues[r][k].after]
    BY PooledMembers DEF Pool!Due
  <2>. PICK k \in 1..Len(queues[r]) :
          d = [job |-> queues[r][k].job, prio |-> r, after |-> queues[r][k].after]
    OBVIOUS
  <2>1. d.prio = r /\ k \in Eligible(r)
    BY DEF Pool!Due, Eligible
  <2>. QED
    BY <1>1, <2>1
<1>2. \A d \in Pool!Due : d.prio \in Priorities
  BY PooledMembers DEF Pool!Due
<1>3. ASSUME NEW p \in Priorities, NEW i \in Eligible(p),
             \A q \in Priorities : q > p => Eligible(q) = {},
             queues' = [queues EXCEPT ![p] = RemoveAt(@, i)], Reply(Ok({queues[p][i].job}))
      PROVE  \E c \in Callers : Pool!Dequeue(c)
  <2> DEFINE e == [job |-> queues[p][i].job, prio |-> p, after |-> queues[p][i].after]
  <2>1. i \in 1..Len(queues[p]) /\ queues[p][i].after <= now
    BY DEF Eligible
  <2>2. e \in Pool!Due
    BY <2>1, PooledMembers DEF Pool!Due
  <2>3. Pooled' = Pooled \ {e}
    BY <1>3, <2>1, TakenOut
  <2>4. \A d \in Pool!Due : d.prio <= e.prio
    BY <1>1, <1>2, <1>3 DEF Priorities
  <2>5. e.job = queues[p][i].job
    OBVIOUS
  <2>6. PICK c \in Callers :
          /\ Pool!Pending(c, "dequeue")
          /\ PoolState # "closed"
          /\ answer' = [answer EXCEPT ![c] = Pool!Ok({queues[p][i].job})]
          /\ UNCHANGED <<PoolState, now, call>>
    BY <1>3, Effect DEF HandleDequeue
  <2>. HIDE DEF e
  <2>. QED
    BY <2>2, <2>3, <2>4, <2>5, <2>6 DEF Pool!Dequeue
<1>4. CASE (\A p \in Priorities : Eligible(p) = {}) /\ queues' = queues /\ Reply(Ok({}))
  <2>1. Pool!Due = {} /\ Pooled' = Pooled
    BY <1>1, <1>2, <1>4, SamePool
  <2>2. PICK c \in Callers :
          /\ Pool!Pending(c, "dequeue")
          /\ PoolState # "closed"
          /\ answer' = [answer EXCEPT ![c] = Pool!Ok({})]
          /\ UNCHANGED <<PoolState, now, call>>
    BY <1>4, Effect DEF HandleDequeue
  <2>. QED
    BY <2>1, <2>2 DEF Pool!Dequeue
<1>. QED
  BY <1>3, <1>4 DEF HandleDequeue

LEMMA CancelStep ==
    ASSUME QInv, HandleCancel
    PROVE  \E c \in Callers : Pool!Cancel(c)
<1> DEFINE js == channel[1].msg.jobs
           hit == {e \in Pooled : e.job \in js}
<1>1. /\ Receive("cancel") /\ Head(channel) = channel[1]
      /\ channel[1].msg \in Calls /\ channel[1].msg.op = "cancel"
  BY Received DEF HandleCancel
<1>2. PICK j \in Jobs : js = {j}
  BY <1>1, ChannelAssumption
<1>3. ASSUME NEW told, Reply(Ok(told)), told = {e.job : e \in hit}, Pooled' = Pooled \ hit
      PROVE  \E c \in Callers : Pool!Cancel(c)
  <2>1. PICK c \in Callers :
          /\ call[c] = channel[1].msg
          /\ Pool!Pending(c, "cancel")
          /\ PoolState # "closed"
          /\ answer' = [answer EXCEPT ![c] = Pool!Ok(told)]
          /\ UNCHANGED <<PoolState, now, call>>
    BY <1>3, Effect DEF HandleCancel
  <2>. QED
    BY <1>3, <2>1 DEF Pool!Cancel
<1>4. ASSUME NEW p \in Priorities, NEW i \in Positions(p, js),
             queues' = [queues EXCEPT ![p] = RemoveAt(@, i)], Reply(Ok({queues[p][i].job}))
      PROVE  \E c \in Callers : Pool!Cancel(c)
  <2> DEFINE x == [job |-> queues[p][i].job, prio |-> p, after |-> queues[p][i].after]
  <2>1. i \in 1..Len(queues[p]) /\ queues[p][i].job = j /\ x.job = j
    BY <1>2 DEF Positions
  <2>2. Pooled' = Pooled \ {x} /\ x \in Pooled
    BY <1>4, <2>1, TakenOut, PooledMembers
  <2>3. ASSUME NEW e \in Pooled, e.job = j
        PROVE  e = x
    <3>. PICK q \in Priorities : \E k \in 1..Len(queues[q]) :
            e = [job |-> queues[q][k].job, prio |-> q, after |-> queues[q][k].after]
      BY DEF Pooled
    <3>. PICK k \in 1..Len(queues[q]) :
            e = [job |-> queues[q][k].job, prio |-> q, after |-> queues[q][k].after]
      OBVIOUS
    <3>1. q = p /\ k = i
      BY <2>1, <2>3 DEF QInv, Distinct
    <3>. QED
      BY <3>1
  <2>. HIDE DEF x
  <2>4. hit = {x}
    BY <1>2, <2>1, <2>2, <2>3
  <2>. QED
    BY <1>3, <1>4, <2>1, <2>2, <2>4
<1>5. CASE (\A p \in Priorities : Positions(p, js) = {}) /\ queues' = queues /\ Reply(Ok({}))
  <2>1. hit = {}
    <3> SUFFICES ASSUME NEW e \in Pooled, e.job \in js PROVE FALSE
      OBVIOUS
    <3>. PICK q \in Priorities : \E k \in 1..Len(queues[q]) :
            e = [job |-> queues[q][k].job, prio |-> q, after |-> queues[q][k].after]
      BY DEF Pooled
    <3>1. \E k \in 1..Len(queues[q]) : k \in Positions(q, js)
      BY DEF Positions
    <3>. QED
      BY <1>5, <3>1
  <2>2. Pooled' = Pooled
    BY <1>5, SamePool
  <2>. HIDE DEF hit
  <2>. QED
    BY <1>3, <1>5, <2>1, <2>2
<1>. QED
  BY <1>1, <1>4, <1>5 DEF HandleCancel

LEMMA CancelSessionStep ==
    ASSUME QInv, HandleCancelSession
    PROVE  \E c \in Callers : Pool!Cancel(c)
<1> DEFINE js == Head(channel).msg.jobs
           hit == {e \in Pooled : e.job \in js}
           told == UNION {{queues[p][i].job : i \in Positions(p, js)} : p \in Priorities}
<1>1. Receive("cancel_session") /\ Head(channel) = channel[1]
  BY Received DEF HandleCancelSession
<1>2. PICK f \in [Priorities -> UNION {Rest(p, js) : p \in Priorities}] :
        /\ \A p \in Priorities : f[p] \in Rest(p, js)
        /\ queues' = [p \in Priorities |-> [i \in 1..Len(f[p]) |-> queues[p][f[p][i]]]]
  BY DEF HandleCancelSession
<1>3. Pooled' = Pooled \ hit
  BY <1>2, AllTakenOut
<1>4. ASSUME NEW j \in told
      PROVE  j \in {e.job : e \in hit}
  <2>. PICK p \in Priorities : j \in {queues[p][i].job : i \in Positions(p, js)}
    OBVIOUS
  <2>. PICK i \in Positions(p, js) : j = queues[p][i].job
    OBVIOUS
  <2> DEFINE e == [job |-> queues[p][i].job, prio |-> p, after |-> queues[p][i].after]
  <2>1. i \in 1..Len(queues[p]) /\ e.job = j /\ j \in js
    BY DEF Positions
  <2>2. e \in Pooled
    BY <2>1, PooledMembers
  <2>. QED
    BY <2>1, <2>2
<1>5. ASSUME NEW e \in hit
      PROVE  e.job \in told
  <2>. PICK q \in Priorities : \E k \in 1..Len(queues[q]) :
          e = [job |-> queues[q][k].job, prio |-> q, after |-> queues[q][k].after]
    BY DEF Pooled
  <2>. PICK k \in 1..Len(queues[q]) :
          e = [job |-> queues[q][k].job, prio |-> q, after |-> queues[q][k].after]
    OBVIOUS
  <2>1. k \in Positions(q, js) /\ e.job = queues[q][k].job
    BY DEF Positions
  <2>. QED
    BY <2>1
<1>6. told = {e.job : e \in hit}
  BY <1>4, <1>5
<1>7. Reply(Ok(told)) /\ UNCHANGED <<running, now, call>>
  BY DEF HandleCancelSession
<1>. HIDE DEF told
<1>8. PICK c \in Callers :
        /\ call[c] = channel[1].msg
        /\ Pool!Pending(c, "cancel_session")
        /\ PoolState # "closed"
        /\ answer' = [answer EXCEPT ![c] = Pool!Ok(told)]
        /\ UNCHANGED <<PoolState, now, call>>
  BY <1>1, <1>7, Effect
<1>. QED
  BY <1>1, <1>3, <1>6, <1>8 DEF Pool!Cancel

LEMMA ShutdownStep ==
    ASSUME QInv, HandleShutdown
    PROVE  Pool!Close
<1>1. Head(channel) = channel[1] /\ 1 \in 1..Len(channel)
  BY HeadTailProperties, EmptySeq, LenProperties DEF HandleShutdown, QInv, TypeOK
<1>2. PoolState = "closing"
  BY <1>1 DEF PoolState, HandleShutdown
<1>3. PoolState' = "closed"
  BY DEF PoolState, HandleShutdown
<1>4. \A p \in Priorities : Len(queues'[p]) = 0
  BY DEF HandleShutdown
<1>5. Pooled' = {}
  BY <1>4, PooledMembers
<1>. QED
  BY <1>2, <1>3, <1>5 DEF Pool!Close, HandleShutdown

\* A shutdown is asked for when its message enters the channel; for every other call
\* nothing happens then.
LEMMA SendStep ==
    ASSUME QInv, NEW c \in Callers, Send(c)
    PROVE  Pool!AskShutdown(c) \/ UNCHANGED Pool!vars
<1>1. /\ running /\ running' = running /\ answer[c] = NoAnswer
      /\ channel' = Append(channel, [from |-> c, msg |-> call[c]])
      /\ call[c] \in CallRecord
      /\ UNCHANGED <<queues, now, call>>
  BY DEF Send, QInv, TypeOK
<1>2. PoolState' = (IF call[c].op = "shutdown" THEN "closing" ELSE PoolState)
  BY <1>1, StateAfterAppend
<1>3. Pooled' = Pooled /\ PoolState # "closed"
  BY <1>1, SamePool DEF PoolState
<1>4. CASE call[c].op = "shutdown"
  <2>1. answer' = [answer EXCEPT ![c] = Ok({})]
    BY <1>4 DEF Send
  <2>. QED
    BY <1>1, <1>2, <1>3, <1>4, <2>1, SameValues DEF Pool!AskShutdown, Pool!Pending
<1>5. CASE call[c].op # "shutdown"
  BY <1>1, <1>2, <1>3, <1>5 DEF Send, Pool!vars
<1>. QED
  BY <1>4, <1>5

LEMMA CallerStepStep ==
    ASSUME QInv, NEW c \in Callers, Call(c) \/ Disconnected(c) \/ Return(c)
    PROVE  Pool!Call(c) \/ Pool!AskShutdown(c) \/ Pool!Refuse(c) \/ Pool!Return(c)
<1>1. Pooled' = Pooled /\ PoolState' = PoolState /\ now' = now
  BY SamePool DEF PoolState, Call, Disconnected, Return
<1>2. CASE Call(c)
  BY <1>1, <1>2, SameValues DEF Call, Pool!Call
<1>3. CASE Return(c)
  BY <1>1, <1>3, SameValues DEF Return, Pool!Return
<1>4. CASE Disconnected(c)
  <2>1. PoolState = "closed"
    BY <1>4 DEF Disconnected, PoolState
  <2>. QED
    BY <1>1, <1>4, <2>1, SameValues
    DEF Disconnected, Refusal, Pool!AskShutdown, Pool!Refuse, Pool!Pending
<1>. QED
  BY <1>2, <1>3, <1>4

LEMMA InitPool == Init => Pool!Init
<1> SUFFICES ASSUME Init PROVE Pool!Init
  OBVIOUS
<1>1. Len(channel) = 0 /\ running /\ \A p \in Priorities : Len(queues[p]) = 0
  BY DEF Init
<1>2. Pooled = {} /\ PoolState = "open"
  BY <1>1 DEF Pooled, PoolState
<1>. QED
  BY <1>2, SameValues DEF Init, Pool!Init

LEMMA NextPool == QInv /\ [Next]_vars => [Pool!Next]_(Pool!vars)
<1> SUFFICES ASSUME QInv, [Next]_vars PROVE Pool!Next \/ UNCHANGED Pool!vars
  OBVIOUS
<1>1. ASSUME NEW c \in Callers, Call(c) \/ CallerStep(c)
      PROVE  Pool!Next \/ UNCHANGED Pool!vars
  BY <1>1, SendStep, CallerStepStep DEF CallerStep, Pool!Next
<1>2. CASE HandleEnqueue
  BY <1>2, EnqueueStep DEF Pool!Next
<1>3. CASE HandleDequeue
  BY <1>3, DequeueStep DEF Pool!Next
<1>4. CASE HandleCancel \/ HandleCancelSession
  BY <1>4, CancelStep, CancelSessionStep DEF Pool!Next
<1>5. CASE HandleShutdown
  BY <1>5, ShutdownStep DEF Pool!Next
<1>6. CASE Tick
  <2>1. Pooled' = Pooled /\ PoolState' = PoolState
    BY <1>6, SamePool DEF Tick, PoolState
  <2>. QED
    BY <1>6, <2>1 DEF Tick, Pool!Tick, Pool!Next
<1>7. CASE UNCHANGED vars
  <2>1. Pooled' = Pooled /\ PoolState' = PoolState
    BY <1>7, SamePool DEF vars, PoolState
  <2>. QED
    BY <1>7, <2>1 DEF vars, Pool!vars
<1>. QED
  BY <1>1, <1>2, <1>3, <1>4, <1>5, <1>6, <1>7 DEF Next, Process

\* The actor with its channel behaves as the pool: every call takes effect at one instant
\* between its start and its return, a dequeue hands out a due job of the highest
\* priority, a cancel removes exactly the named jobs, and no job is lost or doubled.
THEOREM QueueImplementsPool == Spec => ImplementsPool
<1>. QED
  BY QueueInvariant, InitPool, NextPool, PTL DEF Spec, ImplementsPool, Pool!Spec
================================================================================
