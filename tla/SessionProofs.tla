----------------------------- MODULE SessionProofs -----------------------------
(***************************************************************************)
(* For any files, tasks, phones and bounds: a clean entry of the session    *)
(* cache is stored, a rename that has returned is in the row, a deleted     *)
(* session stays deleted, the selection of an acknowledged operation is in  *)
(* the history, and the cached session has the selection that is current    *)
(* there.  The algorithms on histories come first: sorting, removal of      *)
(* duplicates, the limit, and the merge of two histories.                   *)
(***************************************************************************)
EXTENDS HistorySequencer, SequenceLemmas

-------------------------------------------------------------------------------
(* Insertion into the sorted part. *)

InsertAfter(acc, e) == InsertAt(acc, Cardinality({i \in DOMAIN acc : ~After(acc[i], e)}) + 1, e)
InsertLater(acc, e) == InsertAt(acc, Cardinality({i \in DOMAIN acc : ~Later(acc[i], e)}) + 1, e)

\* InsertAt adds one element and keeps the others.
LEMMA InsertAtIs ==
    ASSUME NEW A, NEW s \in Seq(A), NEW e \in A, NEW i \in 1..(Len(s) + 1)
    PROVE  /\ InsertAt(s, i, e) \in Seq(A)
           /\ Len(InsertAt(s, i, e)) = Len(s) + 1
           /\ Range(InsertAt(s, i, e)) = Range(s) \cup {e}
  <1> DEFINE l == SubSeq(s, 1, i - 1)
             r == SubSeq(s, i, Len(s))
             t == (l \o <<e>>) \o r
  <1>1. InsertAt(s, i, e) = t
    BY DEF InsertAt
  <1>2. l \in Seq(A) /\ Len(l) = i - 1 /\ \A k \in 1..(i - 1) : l[k] = s[k]
    BY SubSeqProperties
  <1>3. r \in Seq(A) /\ Len(r) = Len(s) - i + 1 /\ \A k \in 1..(Len(s) - i + 1) : r[k] = s[i + k - 1]
    BY SubSeqProperties
  <1> HIDE DEF l, r
  <1>4. <<e>> \in Seq(A) /\ Len(<<e>>) = 1 /\ <<e>>[1] = e
    OBVIOUS
  <1>5. /\ l \o <<e>> \in Seq(A) /\ Len(l \o <<e>>) = i
        /\ \A k \in 1..(i - 1) : (l \o <<e>>)[k] = l[k]
        /\ (l \o <<e>>)[i] = e
    BY <1>2, <1>4, ConcatProperties
  <1>6. /\ t \in Seq(A) /\ Len(t) = Len(s) + 1
        /\ \A k \in 1..i : t[k] = (l \o <<e>>)[k]
        /\ \A k \in (i + 1)..(Len(s) + 1) : t[k] = r[k - i]
    <2> DEFINE q == l \o <<e>>
    <2>1. q \in Seq(A) /\ Len(q) = i /\ t = q \o r
      BY <1>5
    <2> HIDE DEF q, t
    <2>2. t \in Seq(A) /\ Len(t) = i + (Len(s) - i + 1)
      <3>1. q \o r \in Seq(A) /\ Len(q \o r) = Len(q) + Len(r)
        BY <2>1, <1>3, ConcatProperties
      <3> QED
        BY <2>1, <1>3, <3>1
    <2>3. \A k \in 1..(Len(q) + Len(r)) : t[k] = IF k <= Len(q) THEN q[k] ELSE r[k - Len(q)]
      BY <2>1, <1>3
    <2>4. Len(q) + Len(r) = Len(s) + 1
      BY <2>1, <1>3
    <2>5. \A k \in 1..i : t[k] = q[k]
      BY <2>1, <2>3, <2>4
    <2>6. \A k \in (i + 1)..(Len(s) + 1) : t[k] = r[k - i]
      BY <2>1, <2>3, <2>4
    <2> QED
      <3>1. Len(t) = Len(s) + 1
        BY <2>2
      <3> QED
        BY <2>2, <2>5, <2>6, <3>1 DEF q
  <1> HIDE DEF t
  <1>7. /\ \A k \in 1..(i - 1) : t[k] = s[k]
        /\ t[i] = e
        /\ \A k \in (i + 1)..(Len(s) + 1) : t[k] = s[k - 1]
    BY <1>2, <1>3, <1>5, <1>6
  <1>8. Range(t) \subseteq Range(s) \cup {e}
    <2>1. SUFFICES ASSUME NEW k \in 1..(Len(s) + 1) PROVE t[k] \in Range(s) \cup {e}
      BY <1>6 DEF Range
    <2>2. CASE k < i
      BY <2>2, <1>7 DEF Range
    <2>3. CASE k = i
      BY <2>3, <1>7
    <2>4. CASE k > i
      <3>1. k - 1 \in DOMAIN s /\ t[k] = s[k - 1]
        BY <2>4, <1>7
      <3> QED
        BY <3>1 DEF Range
    <2> QED
      BY <2>2, <2>3, <2>4
  <1>9. Range(s) \cup {e} \subseteq Range(t)
    <2>1. e \in Range(t)
      BY <1>6, <1>7 DEF Range
    <2>2. ASSUME NEW k \in 1..Len(s) PROVE s[k] \in Range(t)
      <3>1. CASE k < i
        <4>1. k \in DOMAIN t /\ t[k] = s[k]
          BY <3>1, <1>6, <1>7
        <4> QED
          BY <4>1 DEF Range
      <3>2. CASE k >= i
        <4>1. k + 1 \in 1..(Len(s) + 1) /\ t[k + 1] = s[k]
          BY <3>2, <1>7
        <4> QED
          BY <4>1, <1>6 DEF Range
      <3> QED
        BY <3>1, <3>2
    <2> QED
      BY <2>1, <2>2 DEF Range
  <1> QED
    BY <1>1, <1>6, <1>8, <1>9

\* The place that SortedBy inserts at is one.
LEMMA PlaceIs ==
    ASSUME NEW A, NEW s \in Seq(A), NEW C \in SUBSET DOMAIN s
    PROVE  Cardinality(C) + 1 \in 1..(Len(s) + 1)
  <1>1. IsFiniteSet(1..Len(s)) /\ Cardinality(1..Len(s)) = Len(s)
    <2>1. Len(s) \in Nat
      OBVIOUS
    <2>2. \A m \in Nat : IsFiniteSet(1..m) /\ Cardinality(1..m) = IF 1 > m THEN 0 ELSE m - 1 + 1
      BY FS_Interval
    <2> QED
      BY <2>1, <2>2
  <1>2. IsFiniteSet(C) /\ Cardinality(C) <= Len(s) /\ Cardinality(C) \in Nat
    BY <1>1, FS_Subset, FS_CardinalityType
  <1> QED
    BY <1>2

LEMMA InsertAfterIs ==
    ASSUME NEW A, NEW s \in Seq(A), NEW e \in A
    PROVE  /\ InsertAfter(s, e) \in Seq(A)
           /\ Len(InsertAfter(s, e)) = Len(s) + 1
           /\ Range(InsertAfter(s, e)) = Range(s) \cup {e}
  <1> DEFINE C == {i \in DOMAIN s : ~After(s[i], e)}
  <1>1. Cardinality(C) + 1 \in 1..(Len(s) + 1)
    BY PlaceIs
  <1> QED
    <2>1. PICK n \in 1..(Len(s) + 1) : n = Cardinality(C) + 1
      BY <1>1
    <2>2. InsertAfter(s, e) = InsertAt(s, n, e)
      BY <2>1 DEF InsertAfter
    <2> HIDE DEF C
    <2> QED
      BY <2>2, InsertAtIs

LEMMA InsertLaterIs ==
    ASSUME NEW A, NEW s \in Seq(A), NEW e \in A
    PROVE  /\ InsertLater(s, e) \in Seq(A)
           /\ Len(InsertLater(s, e)) = Len(s) + 1
           /\ Range(InsertLater(s, e)) = Range(s) \cup {e}
  <1> DEFINE C == {i \in DOMAIN s : ~Later(s[i], e)}
  <1>1. Cardinality(C) + 1 \in 1..(Len(s) + 1)
    BY PlaceIs
  <1> QED
    <2>1. PICK n \in 1..(Len(s) + 1) : n = Cardinality(C) + 1
      BY <1>1
    <2>2. InsertLater(s, e) = InsertAt(s, n, e)
      BY <2>1 DEF InsertLater
    <2> HIDE DEF C
    <2> QED
      BY <2>2, InsertAtIs

-------------------------------------------------------------------------------
(* The algorithms on histories. *)

\* g goes through s and puts one entry after the other somewhere into a sequence.
Inserts(A, s, g) ==
    /\ g[0] = <<>>
    /\ \A n \in 1..Len(s) : g[n - 1] \in Seq(A) =>
         /\ g[n] \in Seq(A) /\ Len(g[n]) = Len(g[n - 1]) + 1
         /\ Range(g[n]) = Range(g[n - 1]) \cup {s[n]}

\* SortedBy inserts its element among those it has.
LEMMA InsertedIs ==
    ASSUME NEW A, NEW s \in Seq(A), NEW g, Inserts(A, s, g)
    PROVE  /\ g[Len(s)] \in Seq(A) /\ Len(g[Len(s)]) = Len(s)
           /\ Range(g[Len(s)]) = Range(s)
  <1> DEFINE Pre(n) == {s[k] : k \in 1..n}
             S == {n \in Nat : n <= Len(s) => g[n] \in Seq(A) /\ Len(g[n]) = n /\ Range(g[n]) = Pre(n)}
  <1>0. Len(s) \in Nat
    OBVIOUS
  <1>1. 0 \in S
    <2>1. <<>> \in Seq(A) /\ Len(<<>>) = 0 /\ Range(<<>>) = {}
      BY DEF Range
    <2>2. Pre(0) = {}
      OBVIOUS
    <2> QED
      BY <2>1, <2>2 DEF Inserts
  <1>2. ASSUME NEW n \in Nat, n \in S PROVE n + 1 \in S
    <2>1. SUFFICES ASSUME n + 1 <= Len(s)
                   PROVE  /\ g[n + 1] \in Seq(A) /\ Len(g[n + 1]) = n + 1 /\ Range(g[n + 1]) = Pre(n + 1)
      OBVIOUS
    <2>2. n <= Len(s) /\ n + 1 \in 1..Len(s) /\ n + 1 - 1 = n
      BY <1>0, <2>1
    <2>3. g[n] \in Seq(A) /\ Len(g[n]) = n /\ Range(g[n]) = Pre(n)
      BY <1>2, <2>2
    <2>4. /\ g[n + 1] \in Seq(A) /\ Len(g[n + 1]) = Len(g[n]) + 1
          /\ Range(g[n + 1]) = Range(g[n]) \cup {s[n + 1]}
      <3>1. PICK m \in 1..Len(s) : m = n + 1
        BY <2>2
      <3>2. g[m - 1] \in Seq(A) /\ m - 1 = n
        BY <2>2, <2>3, <3>1
      <3>3. /\ g[m] \in Seq(A) /\ Len(g[m]) = Len(g[m - 1]) + 1
            /\ Range(g[m]) = Range(g[m - 1]) \cup {s[m]}
        BY <3>2 DEF Inserts
      <3> QED
        BY <3>1, <3>2, <3>3
    <2>5. Pre(n + 1) = Pre(n) \cup {s[n + 1]}
      <3>1. 1..(n + 1) = (1..n) \cup {n + 1}
        OBVIOUS
      <3> QED
        BY <3>1
    <2> QED
      BY <2>3, <2>4, <2>5
  <1> HIDE DEF S
  <1>3. Len(s) \in S
    BY <1>0, <1>1, <1>2, SetInduction
  <1>4. Range(s) = Pre(Len(s))
    BY DEF Range
  <1> QED
    BY <1>0, <1>3, <1>4 DEF S

\* compare_file_entries orders the entries and loses none.
LEMMA SortedByAfterIs ==
    ASSUME NEW A, NEW s \in Seq(A)
    PROVE  /\ SortedBy(After, s) \in Seq(A)
           /\ Len(SortedBy(After, s)) = Len(s)
           /\ Range(SortedBy(After, s)) = Range(s)
  <1> DEFINE F == [p \in Seq(A) \X (1..Len(s)) |-> InsertAfter(p[1], s[p[2]])]
             G(f) == f = [n \in 0..Len(s) |-> IF n = 0 THEN <<>> ELSE InsertAfter(f[n - 1], s[n])]
             sorted == CHOOSE f : G(f)
  <1>0. Len(s) \in Nat /\ \A n \in 1..Len(s) : s[n] \in A
    OBVIOUS
  <1>1. SortedBy(After, s) = sorted[Len(s)]
    BY DEF SortedBy, InsertAfter
  <1>2. F \in [Seq(A) \X (1..Len(s)) -> Seq(A)]
    <2>1. \A p \in Seq(A) \X (1..Len(s)) : p[1] \in Seq(A) /\ s[p[2]] \in A
      BY <1>0
    <2>2. \A p \in Seq(A) \X (1..Len(s)) : InsertAfter(p[1], s[p[2]]) \in Seq(A)
      BY <2>1, InsertAfterIs
    <2> QED
      BY <2>2
  <1>3. \A a \in Seq(A) : \A k \in 1..Len(s) : F[<<a, k>>] = InsertAfter(a, s[k])
    OBVIOUS
  <1> HIDE DEF F
  <1>4. PICK f \in [0..Len(s) -> Seq(A)] : IsFold(f, <<>>, F, Len(s))
    <2>1. <<>> \in Seq(A)
      OBVIOUS
    <2> QED
      BY <1>0, <1>2, <2>1, FoldExists
  <1>5. G(f)
    <2>1. ASSUME NEW n \in 0..Len(s)
          PROVE (IF n = 0 THEN <<>> ELSE F[<<f[n - 1], n>>])
                  = (IF n = 0 THEN <<>> ELSE InsertAfter(f[n - 1], s[n]))
      <3>1. CASE n = 0
        BY <3>1
      <3>2. CASE n # 0
        <4>1. n \in 1..Len(s) /\ n - 1 \in 0..Len(s)
          BY <1>0, <3>2
        <4>2. f[n - 1] \in Seq(A)
          BY <4>1
        <4> QED
          BY <1>3, <3>2, <4>1, <4>2
      <3> QED
        BY <3>1, <3>2
    <2> QED
      BY <1>4, <2>1 DEF IsFold
  <1>6. G(sorted)
    BY <1>5
  <1> HIDE DEF sorted
  <1>7. 0 \in 0..Len(s) /\ 1..Len(s) \subseteq 0..Len(s)
    BY <1>0
  <1>8. /\ sorted[0] = <<>>
        /\ \A n \in 1..Len(s) : sorted[n] = InsertAfter(sorted[n - 1], s[n])
    BY <1>6, <1>7
  <1>9. \A n \in 1..Len(s) : sorted[n - 1] \in Seq(A) =>
              /\ sorted[n] \in Seq(A) /\ Len(sorted[n]) = Len(sorted[n - 1]) + 1
              /\ Range(sorted[n]) = Range(sorted[n - 1]) \cup {s[n]}
    <2>1. SUFFICES ASSUME NEW n \in 1..Len(s), sorted[n - 1] \in Seq(A)
                   PROVE  /\ sorted[n] \in Seq(A) /\ Len(sorted[n]) = Len(sorted[n - 1]) + 1
                          /\ Range(sorted[n]) = Range(sorted[n - 1]) \cup {s[n]}
      OBVIOUS
    <2>2. PICK a \in Seq(A) : a = sorted[n - 1]
      BY <2>1
    <2>3. PICK e \in A : e = s[n]
      BY <1>0
    <2>4. sorted[n] = InsertAfter(a, e)
      BY <1>8, <2>2, <2>3
    <2>5. /\ InsertAfter(a, e) \in Seq(A) /\ Len(InsertAfter(a, e)) = Len(a) + 1
          /\ Range(InsertAfter(a, e)) = Range(a) \cup {e}
      BY InsertAfterIs
    <2> QED
      BY <2>2, <2>3, <2>4, <2>5
  <1>10. sorted[0] = <<>>
    BY <1>8
  <1> QED
    <2>1. /\ sorted[Len(s)] \in Seq(A) /\ Len(sorted[Len(s)]) = Len(s)
          /\ Range(sorted[Len(s)]) = Range(s)
      <3>1. Inserts(A, s, sorted)
        BY <1>9, <1>10 DEF Inserts
      <3> QED
        BY <3>1, InsertedIs
    <2> QED
      BY <1>1, <2>1

\* So does the order of time in which they are read.
LEMMA SortedByLaterIs ==
    ASSUME NEW A, NEW s \in Seq(A)
    PROVE  /\ SortedBy(Later, s) \in Seq(A)
           /\ Len(SortedBy(Later, s)) = Len(s)
           /\ Range(SortedBy(Later, s)) = Range(s)
  <1> DEFINE F == [p \in Seq(A) \X (1..Len(s)) |-> InsertLater(p[1], s[p[2]])]
             G(f) == f = [n \in 0..Len(s) |-> IF n = 0 THEN <<>> ELSE InsertLater(f[n - 1], s[n])]
             sorted == CHOOSE f : G(f)
  <1>0. Len(s) \in Nat /\ \A n \in 1..Len(s) : s[n] \in A
    OBVIOUS
  <1>1. SortedBy(Later, s) = sorted[Len(s)]
    BY DEF SortedBy, InsertLater
  <1>2. F \in [Seq(A) \X (1..Len(s)) -> Seq(A)]
    <2>1. \A p \in Seq(A) \X (1..Len(s)) : p[1] \in Seq(A) /\ s[p[2]] \in A
      BY <1>0
    <2>2. \A p \in Seq(A) \X (1..Len(s)) : InsertLater(p[1], s[p[2]]) \in Seq(A)
      BY <2>1, InsertLaterIs
    <2> QED
      BY <2>2
  <1>3. \A a \in Seq(A) : \A k \in 1..Len(s) : F[<<a, k>>] = InsertLater(a, s[k])
    OBVIOUS
  <1> HIDE DEF F
  <1>4. PICK f \in [0..Len(s) -> Seq(A)] : IsFold(f, <<>>, F, Len(s))
    <2>1. <<>> \in Seq(A)
      OBVIOUS
    <2> QED
      BY <1>0, <1>2, <2>1, FoldExists
  <1>5. G(f)
    <2>1. ASSUME NEW n \in 0..Len(s)
          PROVE (IF n = 0 THEN <<>> ELSE F[<<f[n - 1], n>>])
                  = (IF n = 0 THEN <<>> ELSE InsertLater(f[n - 1], s[n]))
      <3>1. CASE n = 0
        BY <3>1
      <3>2. CASE n # 0
        <4>1. n \in 1..Len(s) /\ n - 1 \in 0..Len(s)
          BY <1>0, <3>2
        <4>2. f[n - 1] \in Seq(A)
          BY <4>1
        <4> QED
          BY <1>3, <3>2, <4>1, <4>2
      <3> QED
        BY <3>1, <3>2
    <2> QED
      BY <1>4, <2>1 DEF IsFold
  <1>6. G(sorted)
    BY <1>5
  <1> HIDE DEF sorted
  <1>7. 0 \in 0..Len(s) /\ 1..Len(s) \subseteq 0..Len(s)
    BY <1>0
  <1>8. /\ sorted[0] = <<>>
        /\ \A n \in 1..Len(s) : sorted[n] = InsertLater(sorted[n - 1], s[n])
    BY <1>6, <1>7
  <1>9. \A n \in 1..Len(s) : sorted[n - 1] \in Seq(A) =>
              /\ sorted[n] \in Seq(A) /\ Len(sorted[n]) = Len(sorted[n - 1]) + 1
              /\ Range(sorted[n]) = Range(sorted[n - 1]) \cup {s[n]}
    <2>1. SUFFICES ASSUME NEW n \in 1..Len(s), sorted[n - 1] \in Seq(A)
                   PROVE  /\ sorted[n] \in Seq(A) /\ Len(sorted[n]) = Len(sorted[n - 1]) + 1
                          /\ Range(sorted[n]) = Range(sorted[n - 1]) \cup {s[n]}
      OBVIOUS
    <2>2. PICK a \in Seq(A) : a = sorted[n - 1]
      BY <2>1
    <2>3. PICK e \in A : e = s[n]
      BY <1>0
    <2>4. sorted[n] = InsertLater(a, e)
      BY <1>8, <2>2, <2>3
    <2>5. /\ InsertLater(a, e) \in Seq(A) /\ Len(InsertLater(a, e)) = Len(a) + 1
          /\ Range(InsertLater(a, e)) = Range(a) \cup {e}
      BY InsertLaterIs
    <2> QED
      BY <2>2, <2>3, <2>4, <2>5
  <1>10. sorted[0] = <<>>
    BY <1>8
  <1> QED
    <2>1. /\ sorted[Len(s)] \in Seq(A) /\ Len(sorted[Len(s)]) = Len(s)
          /\ Range(sorted[Len(s)]) = Range(s)
      <3>1. Inserts(A, s, sorted)
        BY <1>9, <1>10 DEF Inserts
      <3> QED
        BY <3>1, InsertedIs
    <2> QED
      BY <1>1, <2>1

AddNew(acc, e) == IF \E i \in DOMAIN acc : Selection(acc[i]) = Selection(e) THEN acc ELSE Append(acc, e)

\* The selections of a sequence of entries.
SelectionsOf(s) == {Selection(e) : e \in Range(s)}

\* No selection is there twice.
Distinct(s) == \A i, j \in DOMAIN s : Selection(s[i]) = Selection(s[j]) => i = j

\* The selections of a history are those of its entries.
LEMMA SelectionsAre == \A h : Selections(h) = SelectionsOf(h.entries)
  BY DEF Selections, SelectionsOf, Range

\* A list without equal selections is no longer than the set of its selections.
LEMMA DistinctLen ==
    ASSUME NEW A, NEW s \in Seq(A), Distinct(s)
    PROVE  IsFiniteSet(SelectionsOf(s)) /\ Cardinality(SelectionsOf(s)) = Len(s)
  <1> DEFINE f == [i \in 1..Len(s) |-> Selection(s[i])]
  <1>1. Len(s) \in Nat /\ DOMAIN s = 1..Len(s)
    OBVIOUS
  <1>2. SelectionsOf(s) = {Selection(s[i]) : i \in 1..Len(s)}
    BY <1>1 DEF SelectionsOf, Range
  <1>3. f \in [1..Len(s) -> SelectionsOf(s)]
    BY <1>2
  <1>4. \A i, j \in 1..Len(s) : f[i] = f[j] => i = j
    BY <1>1 DEF Distinct
  <1>5. \A e \in SelectionsOf(s) : \E i \in 1..Len(s) : f[i] = e
    BY <1>2
  <1> HIDE DEF f
  <1>6. f \in Bijection(1..Len(s), SelectionsOf(s))
    BY <1>3, <1>4, <1>5 DEF Bijection, Injection, Surjection, IsInjective
  <1>7. IsFiniteSet(1..Len(s)) /\ Cardinality(1..Len(s)) = Len(s)
    <2>1. \A m \in Nat : IsFiniteSet(1..m) /\ Cardinality(1..m) = IF 1 > m THEN 0 ELSE m - 1 + 1
      BY FS_Interval
    <2> QED
      BY <1>1, <2>1
  <1> QED
    BY <1>6, <1>7, FS_Bijection DEF ExistsBijection

\* Append adds one selection.
LEMMA AppendIs ==
    ASSUME NEW A, NEW s \in Seq(A), NEW e \in A
    PROVE  /\ Append(s, e) \in Seq(A) /\ Len(Append(s, e)) = Len(s) + 1
           /\ Range(Append(s, e)) = Range(s) \cup {e}
           /\ Append(s, e)[Len(s) + 1] = e /\ \A k \in 1..Len(s) : Append(s, e)[k] = s[k]
  <1>1. /\ Append(s, e) \in Seq(A) /\ Len(Append(s, e)) = Len(s) + 1
        /\ \A k \in 1..Len(s) : Append(s, e)[k] = s[k]
        /\ Append(s, e)[Len(s) + 1] = e
    BY AppendProperties
  <1>2. DOMAIN Append(s, e) = (1..Len(s)) \cup {Len(s) + 1}
    BY <1>1
  <1>3. PICK t \in Seq(A) : t = Append(s, e)
    BY <1>1
  <1>4. Range(t) = Range(s) \cup {e}
    BY <1>1, <1>2, <1>3 DEF Range
  <1> QED
    BY <1>1, <1>3, <1>4

\* Deduped adds an entry only if its selection is new.
LEMMA AddNewIs ==
    ASSUME NEW A, NEW s \in Seq(A), NEW e \in A
    PROVE  /\ AddNew(s, e) \in Seq(A)
           /\ AddNew(s, e) # <<>> /\ Len(AddNew(s, e)) <= Len(s) + 1
           /\ Range(AddNew(s, e)) \subseteq Range(s) \cup {e}
           /\ SelectionsOf(AddNew(s, e)) = SelectionsOf(s) \cup {Selection(e)}
           /\ Distinct(s) => Distinct(AddNew(s, e))
  <1>1. CASE \E i \in DOMAIN s : Selection(s[i]) = Selection(e)
    <2>1. AddNew(s, e) = s
      BY <1>1 DEF AddNew
    <2>2. Selection(e) \in SelectionsOf(s)
      BY <1>1 DEF SelectionsOf, Range
    <2>3. s # <<>>
      BY <1>1
    <2> QED
      BY <2>1, <2>2, <2>3
  <1>2. CASE ~\E i \in DOMAIN s : Selection(s[i]) = Selection(e)
    <2>1. AddNew(s, e) = Append(s, e)
      BY <1>2 DEF AddNew
    <2>2. PICK t \in Seq(A) : t = Append(s, e)
      BY AppendIs
    <2>3. Len(t) = Len(s) + 1 /\ Range(t) = Range(s) \cup {e}
      BY <2>2, AppendIs
    <2>4. SelectionsOf(t) = SelectionsOf(s) \cup {Selection(e)}
      BY <2>3 DEF SelectionsOf
    <2>5. t # <<>>
      BY <2>3
    <2>6. Distinct(s) => Distinct(t)
      <3>1. t[Len(s) + 1] = e /\ \A k \in 1..Len(s) : t[k] = s[k]
        BY <2>2, AppendIs
      <3>2. DOMAIN t = (1..Len(s)) \cup {Len(s) + 1} /\ DOMAIN s = 1..Len(s)
        BY <2>3
      <3>3. \A k \in 1..Len(s) : Selection(s[k]) # Selection(e)
        BY <1>2, <3>2
      <3> QED
        BY <3>1, <3>2, <3>3 DEF Distinct
    <2> QED
      BY <2>1, <2>2, <2>3, <2>4, <2>5, <2>6
  <1> QED
    BY <1>1, <1>2

\* Only entries whose selection is there already are dropped.
LEMMA DedupedIs ==
    ASSUME NEW A, NEW s \in Seq(A)
    PROVE  /\ Deduped(s) \in Seq(A)
           /\ Range(Deduped(s)) \subseteq Range(s)
           /\ SelectionsOf(Deduped(s)) = SelectionsOf(s)
           /\ Distinct(Deduped(s))
  <1> DEFINE F == [p \in Seq(A) \X (1..Len(s)) |-> AddNew(p[1], s[p[2]])]
             G(f) == f = [n \in 0..Len(s) |-> IF n = 0 THEN <<>> ELSE AddNew(f[n - 1], s[n])]
             kept == CHOOSE f : G(f)
  <1>0. Len(s) \in Nat /\ \A n \in 1..Len(s) : s[n] \in A
    OBVIOUS
  <1>1. Deduped(s) = kept[Len(s)]
    BY DEF Deduped, AddNew
  <1>2. F \in [Seq(A) \X (1..Len(s)) -> Seq(A)]
    <2>1. \A p \in Seq(A) \X (1..Len(s)) : p[1] \in Seq(A) /\ s[p[2]] \in A
      BY <1>0
    <2>2. \A p \in Seq(A) \X (1..Len(s)) : AddNew(p[1], s[p[2]]) \in Seq(A)
      <3>1. \A a \in Seq(A), e \in A : AddNew(a, e) \in Seq(A)
        BY AddNewIs
      <3> QED
        BY <2>1, <3>1
    <2> QED
      BY <2>2
  <1>3. \A a \in Seq(A) : \A k \in 1..Len(s) : F[<<a, k>>] = AddNew(a, s[k])
    OBVIOUS
  <1> HIDE DEF F
  <1>4. PICK f \in [0..Len(s) -> Seq(A)] : IsFold(f, <<>>, F, Len(s))
    <2>1. <<>> \in Seq(A)
      OBVIOUS
    <2> QED
      BY <1>0, <1>2, <2>1, FoldExists
  <1>5. G(f)
    <2>1. ASSUME NEW n \in 0..Len(s)
          PROVE (IF n = 0 THEN <<>> ELSE F[<<f[n - 1], n>>])
                  = (IF n = 0 THEN <<>> ELSE AddNew(f[n - 1], s[n]))
      <3>1. CASE n = 0
        BY <3>1
      <3>2. CASE n # 0
        <4>1. n \in 1..Len(s) /\ n - 1 \in 0..Len(s)
          BY <1>0, <3>2
        <4>2. f[n - 1] \in Seq(A)
          BY <4>1
        <4> QED
          BY <1>3, <3>2, <4>1, <4>2
      <3> QED
        BY <3>1, <3>2
    <2> QED
      BY <1>4, <2>1 DEF IsFold
  <1>6. G(kept)
    BY <1>5
  <1> HIDE DEF kept
  <1>7. 0 \in 0..Len(s) /\ 1..Len(s) \subseteq 0..Len(s)
    BY <1>0
  <1>8. /\ kept[0] = <<>>
        /\ \A n \in 1..Len(s) : kept[n] = AddNew(kept[n - 1], s[n])
    BY <1>6, <1>7
  <1> DEFINE Pre(n) == {s[k] : k \in 1..n}
             S == {n \in Nat : n <= Len(s) =>
                     /\ kept[n] \in Seq(A) /\ Range(kept[n]) \subseteq Pre(n)
                     /\ SelectionsOf(kept[n]) = {Selection(e) : e \in Pre(n)} /\ Distinct(kept[n])}
  <1>9. 0 \in S
    <2>1. <<>> \in Seq(A) /\ Range(<<>>) = {} /\ SelectionsOf(<<>>) = {} /\ Distinct(<<>>)
      BY DEF Range, SelectionsOf, Distinct
    <2>2. Pre(0) = {}
      OBVIOUS
    <2>3. {Selection(e) : e \in Pre(0)} = {}
      BY <2>2
    <2> QED
      BY <1>8, <2>1, <2>3
  <1>10. ASSUME NEW n \in Nat, n \in S PROVE n + 1 \in S
    <2>1. SUFFICES ASSUME n + 1 <= Len(s)
                   PROVE  /\ kept[n + 1] \in Seq(A) /\ Range(kept[n + 1]) \subseteq Pre(n + 1)
                          /\ SelectionsOf(kept[n + 1]) = {Selection(e) : e \in Pre(n + 1)}
                          /\ Distinct(kept[n + 1])
      OBVIOUS
    <2>2. n <= Len(s) /\ n + 1 \in 1..Len(s) /\ n + 1 - 1 = n
      BY <1>0, <2>1
    <2>3. PICK a \in Seq(A) : a = kept[n]
      BY <1>10, <2>2
    <2>4. Range(a) \subseteq Pre(n) /\ SelectionsOf(a) = {Selection(e) : e \in Pre(n)} /\ Distinct(a)
      BY <1>10, <2>2, <2>3
    <2>5. PICK x \in A : x = s[n + 1]
      BY <1>0, <2>2
    <2>6. kept[n + 1] = AddNew(a, x)
      <3>1. PICK m \in 1..Len(s) : m = n + 1
        BY <2>2
      <3>2. m - 1 = n /\ kept[m] = AddNew(kept[m - 1], s[m])
        BY <1>8, <2>2, <3>1
      <3> QED
        BY <3>1, <3>2, <2>3, <2>5
    <2>7. Pre(n + 1) = Pre(n) \cup {x}
      <3>1. 1..(n + 1) = (1..n) \cup {n + 1}
        OBVIOUS
      <3> QED
        BY <3>1, <2>5
    <2>8. {Selection(e) : e \in Pre(n + 1)} = {Selection(e) : e \in Pre(n)} \cup {Selection(x)}
      <3> HIDE DEF Pre
      <3> QED
        BY <2>7
    <2> QED
      <3>1. /\ AddNew(a, x) \in Seq(A) /\ Range(AddNew(a, x)) \subseteq Range(a) \cup {x}
            /\ SelectionsOf(AddNew(a, x)) = SelectionsOf(a) \cup {Selection(x)}
            /\ Distinct(a) => Distinct(AddNew(a, x))
        BY AddNewIs
      <3> HIDE DEF Pre
      <3> QED
        BY <2>4, <2>6, <2>7, <2>8, <3>1
  <1> HIDE DEF S
  <1>11. Len(s) \in S
    BY <1>0, <1>9, <1>10, SetInduction
  <1>12. Range(s) = Pre(Len(s))
    BY DEF Range
  <1>13. SelectionsOf(s) = {Selection(e) : e \in Pre(Len(s))}
    BY <1>12 DEF SelectionsOf
  <1>14. /\ kept[Len(s)] \in Seq(A) /\ Range(kept[Len(s)]) \subseteq Pre(Len(s))
         /\ SelectionsOf(kept[Len(s)]) = {Selection(e) : e \in Pre(Len(s))} /\ Distinct(kept[Len(s)])
    BY <1>0, <1>11 DEF S
  <1> QED
    BY <1>1, <1>12, <1>13, <1>14

\* The limit keeps a part of the list, and all of a short one.
LEMMA NewestIs ==
    ASSUME NEW A, NEW s \in Seq(A)
    PROVE  /\ Newest(s) \in Seq(A) /\ Len(Newest(s)) <= MaxHistory
           /\ Range(Newest(s)) \subseteq Range(s)
           /\ s # <<>> => Newest(s) # <<>> /\ s[Len(s)] \in Range(Newest(s))
           /\ Len(Newest(s)) < MaxHistory \/ Len(s) <= MaxHistory => Newest(s) = s
           /\ Distinct(s) => Distinct(Newest(s))
  <1> USE HistoryAssumption DEF HistoryAssumption
  <1>1. CASE Len(s) <= MaxHistory
    <2>1. Newest(s) = s
      BY <1>1 DEF Newest
    <2>2. s # <<>> => s[Len(s)] \in Range(s)
      BY DEF Range
    <2> QED
      BY <1>1, <2>1, <2>2
  <1>2. CASE Len(s) > MaxHistory
    <2> DEFINE k == Len(s) - MaxHistory
    <2>1. k \in 1..Len(s) /\ Newest(s) = SubSeq(s, k + 1, Len(s))
      BY <1>2 DEF Newest
    <2>2. /\ SubSeq(s, k + 1, Len(s)) \in Seq(A) /\ Len(SubSeq(s, k + 1, Len(s))) = MaxHistory
          /\ \A i \in 1..MaxHistory : SubSeq(s, k + 1, Len(s))[i] = s[k + i]
      BY <1>2, <2>1, SubSeqProperties
    <2>3. PICK t \in Seq(A) : t = Newest(s)
      BY <2>1, <2>2
    <2>4. Len(t) = MaxHistory /\ \A i \in 1..MaxHistory : t[i] = s[k + i]
      BY <2>1, <2>2, <2>3
    <2>5. Range(t) \subseteq Range(s)
      <3>1. \A i \in 1..MaxHistory : k + i \in DOMAIN s /\ t[i] = s[k + i]
        BY <1>2, <2>1, <2>4
      <3>2. DOMAIN t = 1..MaxHistory
        BY <2>4
      <3> QED
        BY <3>1, <3>2 DEF Range
    <2>6. t # <<>> /\ s[Len(s)] \in Range(t)
      <3>1. MaxHistory \in DOMAIN t /\ t[MaxHistory] = s[Len(s)]
        BY <2>4
      <3> QED
        BY <2>4, <3>1 DEF Range
    <2>7. Distinct(s) => Distinct(t)
      <3>1. \A i \in 1..MaxHistory : k + i \in DOMAIN s /\ t[i] = s[k + i]
        BY <1>2, <2>1, <2>4
      <3>2. SUFFICES ASSUME Distinct(s), NEW i \in 1..MaxHistory, NEW j \in 1..MaxHistory,
                            Selection(t[i]) = Selection(t[j])
                     PROVE  i = j
        BY <2>4 DEF Distinct
      <3>3. k + i = k + j
        BY <3>1, <3>2 DEF Distinct
      <3> QED
        BY <2>1, <3>3
    <2> QED
      BY <1>2, <2>3, <2>4, <2>5, <2>6, <2>7
  <1>3. Len(s) \in Nat
    OBVIOUS
  <1> QED
    BY <1>1, <1>2, <1>3

\* What is kept of a history: no more than MaxHistory of its entries, and every selection of it
\* unless the history is full.
LEMMA KeptIs ==
    ASSUME NEW A, NEW s \in Seq(A)
    PROVE  /\ Kept(s) \in Seq(A) /\ Len(Kept(s)) <= MaxHistory
           /\ Range(Kept(s)) \subseteq Range(s)
           /\ s # <<>> => Kept(s) # <<>>
           /\ Len(Kept(s)) < MaxHistory => SelectionsOf(Kept(s)) = SelectionsOf(s)
           /\ Distinct(Kept(s))
           /\ Distinct(s) /\ Len(s) <= MaxHistory => Len(Kept(s)) = Len(s)
  <1>1. PICK t \in Seq(A) : t = SortedBy(After, s)
    BY SortedByAfterIs
  <1>2. Len(t) = Len(s) /\ Range(t) = Range(s)
    BY <1>1, SortedByAfterIs
  <1>3. PICK d \in Seq(A) : d = Deduped(t)
    BY DedupedIs
  <1>4. Range(d) \subseteq Range(t) /\ SelectionsOf(d) = SelectionsOf(t) /\ Distinct(d)
    BY <1>3, DedupedIs
  <1>5. SelectionsOf(t) = SelectionsOf(s)
    BY <1>2 DEF SelectionsOf
  <1>6. s # <<>> => d # <<>>
    <2>1. SUFFICES ASSUME s # <<>>, d = <<>> PROVE FALSE
      OBVIOUS
    <2>2. SelectionsOf(d) = {}
      BY <2>1 DEF SelectionsOf, Range
    <2>3. 1 \in DOMAIN s
      BY <2>1
    <2>4. s[1] \in Range(s)
      BY <2>3 DEF Range
    <2>5. Selection(s[1]) \in SelectionsOf(s)
      BY <2>4 DEF SelectionsOf
    <2> QED
      BY <2>2, <2>5, <1>4, <1>5
  <1>7. Kept(s) = Newest(d)
    BY <1>1, <1>3 DEF Kept
  <1>8. Distinct(s) => Len(d) = Len(s)
    BY <1>4, <1>5, DistinctLen
  <1> QED
    BY <1>2, <1>4, <1>5, <1>6, <1>7, <1>8, NewestIs

HistoryShape == [entries : Seq(Entry), index : Nat, version : Nat]

\* validate_file_history_entries: the index is one of an entry.
LEMMA ValidatedIs ==
    ASSUME NEW s \in Seq(Entry), NEW i \in Nat
    PROVE  /\ Validated(s, i) = [entries |-> Validated(s, i).entries, index |-> Validated(s, i).index]
           /\ Validated(s, i).entries \in Seq(Entry) /\ Validated(s, i).index \in Nat
           /\ Len(Validated(s, i).entries) <= MaxHistory
           /\ s # <<>> => Validated(s, i).entries # <<>>
           /\ Validated(s, i).entries # <<>> => Validated(s, i).index < Len(Validated(s, i).entries)
           /\ Len(Validated(s, i).entries) < MaxHistory =>
                SelectionsOf(Validated(s, i).entries) = SelectionsOf(s)
           /\ Distinct(Validated(s, i).entries)
           /\ Distinct(s) /\ Len(s) <= MaxHistory => Len(Validated(s, i).entries) = Len(s)
  <1> USE HistoryAssumption DEF HistoryAssumption
  <1>1. CASE s = <<>>
    <2>1. Validated(s, i) = [entries |-> s, index |-> 0]
      BY <1>1 DEF Validated
    <2>2. Len(s) = 0 /\ Len(s) <= MaxHistory
      BY <1>1
    <2>3. Validated(s, i).entries = s /\ Validated(s, i).index = 0
      BY <2>1
    <2>4. SelectionsOf(Validated(s, i).entries) = SelectionsOf(s)
      BY <2>3
    <2>5. Validated(s, i) = [entries |-> Validated(s, i).entries, index |-> Validated(s, i).index]
      BY <2>1, <2>3
    <2> QED
      <3>1. Validated(s, i).entries \in Seq(Entry) /\ Validated(s, i).index \in Nat
        BY <2>3
      <3>2. Len(Validated(s, i).entries) <= MaxHistory
        BY <2>2, <2>3
      <3>3. ~(s # <<>>) /\ ~(Validated(s, i).entries # <<>>)
        BY <1>1, <2>3
      <3>4. Distinct(s) /\ Len(Validated(s, i).entries) = Len(s)
        BY <1>1, <2>3 DEF Distinct
      <3> QED
        BY <2>3, <2>4, <2>5, <3>1, <3>2, <3>3, <3>4
  <1>2. CASE s # <<>>
    <2>1. PICK kept \in Seq(Entry) : kept = Kept(s)
      BY KeptIs
    <2>2. /\ Len(kept) <= MaxHistory /\ kept # <<>>
          /\ Len(kept) < MaxHistory => SelectionsOf(kept) = SelectionsOf(s)
          /\ Distinct(kept)
          /\ Distinct(s) /\ Len(s) <= MaxHistory => Len(kept) = Len(s)
      BY <1>2, <2>1, KeptIs
    <2> DEFINE current == {k \in DOMAIN kept : kept[k] = s[Clamp(i, s) + 1]}
               n == IF current # {} THEN (CHOOSE k \in current : TRUE) - 1 ELSE Clamp(i, kept)
    <2>3. Validated(s, i) = [entries |-> kept, index |-> n]
      BY <1>2, <2>1 DEF Validated
    <2>4. n \in Nat /\ n < Len(kept)
      <3>1. CASE current # {}
        <4>1. (CHOOSE k \in current : TRUE) \in current
          BY <3>1
        <4>2. (CHOOSE k \in current : TRUE) \in 1..Len(kept)
          BY <4>1
        <4> QED
          BY <3>1, <4>2
      <3>2. CASE current = {}
        <4>1. n = Clamp(i, kept)
          BY <3>2
        <4>2. Len(kept) \in Nat /\ Len(kept) > 0
          BY <2>2
        <4> QED
          BY <4>1, <4>2 DEF Clamp
      <3> QED
        BY <3>1, <3>2
    <2> HIDE DEF n
    <2> QED
      BY <2>2, <2>3, <2>4
  <1> QED
    BY <1>1, <1>2

\* What a command reads is a history of stored entries.
LEMMA ReadHistoryIs ==
    ASSUME NEW s \in Seq(Entry), NEW i \in Nat, NEW v \in Nat
    PROVE  /\ ReadHistory(s, i, v) \in HistoryShape
           /\ ReadHistory(s, i, v).entries # <<>> =>
                ReadHistory(s, i, v).index < Len(ReadHistory(s, i, v).entries)
  <1>1. PICK t \in Seq(Entry) : t = SortedBy(Later, s)
    BY SortedByLaterIs
  <1>2. ReadHistory(s, i, v) = [entries |-> Validated(t, i).entries, index |-> Validated(t, i).index,
                                version |-> v]
    BY <1>1 DEF ReadHistory
  <1> QED
    BY <1>2, ValidatedIs DEF HistoryShape

\* A merge keeps every selection of the operation while there is room.
LEMMA MergedIs ==
    ASSUME NEW l \in HistoryShape, NEW r, r.entries \in Seq(Entry), r.entries # <<>>
    PROVE  /\ Merged(l, r).entries \in Seq(Entry) /\ Merged(l, r).entries # <<>>
           /\ Merged(l, r).index \in Nat
           /\ Len(Merged(l, r).entries) < MaxHistory =>
                SelectionsOf(r.entries) \subseteq SelectionsOf(Merged(l, r).entries)
           /\ Distinct(Merged(l, r).entries) /\ Len(Merged(l, r).entries) <= MaxHistory
  <1>1. PICK a \in Seq(Entry) : a = l.entries
    BY DEF HistoryShape
  <1>2. PICK b \in Seq(Entry) : b = r.entries
    OBVIOUS
  <1>3. PICK c \in Seq(Entry) : c = a \o b
    BY ConcatProperties
  <1>4. Len(c) = Len(a) + Len(b) /\ \A k \in 1..Len(b) : c[Len(a) + k] = b[k]
    BY <1>3, ConcatProperties
  <1>5. c # <<>>
    BY <1>2, <1>4
  <1>6. Range(b) \subseteq Range(c)
    <2>1. \A k \in 1..Len(b) : Len(a) + k \in DOMAIN c /\ c[Len(a) + k] = b[k]
      BY <1>4
    <2> QED
      BY <2>1 DEF Range
  <1>7. SelectionsOf(b) \subseteq SelectionsOf(c)
    BY <1>6 DEF SelectionsOf
  <1>8. PICK kept \in Seq(Entry) : kept = Kept(c)
    BY KeptIs
  <1>9. /\ kept # <<>> /\ Distinct(kept) /\ Len(kept) <= MaxHistory
        /\ Len(kept) < MaxHistory => SelectionsOf(kept) = SelectionsOf(c)
    BY <1>5, <1>8, KeptIs
  <1>10. Merged(l, r) = [entries |-> kept, index |-> Len(kept) - 1]
    BY <1>1, <1>2, <1>3, <1>8, <1>9 DEF Merged
  <1>11. Len(kept) - 1 \in Nat
    BY <1>9
  <1> QED
    BY <1>2, <1>7, <1>8, <1>9, <1>10, <1>11

\* A sequence number is a number.
LEMMA NextSeqIs ==
    ASSUME NEW s \in Seq(Entry)
    PROVE  NextSeq(s) \in Nat
  <1> DEFINE B == {s[i].seq : i \in DOMAIN s}
             S == {n \in Nat : n \in 1..Len(s) => \E j \in 1..n : \A i \in 1..n : s[i].seq <= s[j].seq}
  <1>0. Len(s) \in Nat /\ \A i \in 1..Len(s) : s[i].seq \in Nat
    <2>1. \A i \in 1..Len(s) : s[i] \in Entry
      OBVIOUS
    <2> QED
      BY <2>1 DEF Entry
  <1>1. CASE s = <<>>
    BY <1>1 DEF NextSeq
  <1>2. CASE s # <<>>
    <2>1. 0 \in S
      OBVIOUS
    <2>2. ASSUME NEW n \in Nat, n \in S PROVE n + 1 \in S
      <3>0. n + 1 \in Nat
        OBVIOUS
      <3>1. SUFFICES ASSUME n + 1 \in 1..Len(s)
                     PROVE  \E j \in 1..(n + 1) : \A i \in 1..(n + 1) : s[i].seq <= s[j].seq
        BY <3>0
      <3>2. CASE n = 0
        <4>1. \A i \in 1..(n + 1) : s[i].seq <= s[1].seq
          BY <1>0, <3>1, <3>2
        <4> QED
          BY <3>2, <4>1
      <3>3. CASE n # 0
        <4>1. PICK j \in 1..n : \A i \in 1..n : s[i].seq <= s[j].seq
          BY <2>2, <3>1, <3>3, <1>0
        <4>2. s[n + 1].seq \in Nat /\ s[j].seq \in Nat
          BY <1>0, <3>1
        <4>3. CASE s[n + 1].seq <= s[j].seq
          <5>1. \A i \in 1..(n + 1) : s[i].seq <= s[j].seq
            BY <4>1, <4>3
          <5> QED
            BY <5>1
        <4>4. CASE s[n + 1].seq > s[j].seq
          <5>1. \A i \in 1..n : s[i].seq \in Nat
            BY <1>0, <3>1
          <5>2. \A i \in 1..(n + 1) : s[i].seq <= s[n + 1].seq
            BY <4>1, <4>2, <4>4, <5>1
          <5> QED
            BY <5>2
        <4>5. s[n + 1].seq <= s[j].seq \/ s[n + 1].seq > s[j].seq
          BY <4>2
        <4> QED
          BY <4>3, <4>4, <4>5
      <3> QED
        BY <3>2, <3>3
    <2> HIDE DEF S
    <2>3. Len(s) \in S
      BY <1>0, <2>1, <2>2, SetInduction
    <2>4. PICK j \in 1..Len(s) : \A i \in 1..Len(s) : s[i].seq <= s[j].seq
      BY <1>0, <1>2, <2>3 DEF S
    <2>5. s[j].seq \in B /\ \A i \in DOMAIN s : s[i].seq <= s[j].seq
      BY <2>4
    <2>6. (CHOOSE n \in B : \A i \in DOMAIN s : s[i].seq <= n) \in B
      BY <2>5
    <2>7. B \subseteq Nat
      BY <1>0
    <2> HIDE DEF B
    <2> DEFINE m == CHOOSE n \in B : \A i \in DOMAIN s : s[i].seq <= n
    <2>8. NextSeq(s) = 1 + m
      BY <1>2 DEF NextSeq, B
    <2>9. m \in Nat
      BY <2>6, <2>7
    <2> HIDE DEF m
    <2> QED
      BY <2>8, <2>9
  <1> QED
    BY <1>1, <1>2

-------------------------------------------------------------------------------
(* Types.                                                                  *)

Places == {"idle", "flush", "write", "clear", "upsert", "insert", "remove", "entries", "change", "wait"}

STypes ==
    /\ row \in Session /\ cache \in Session /\ snap \in [Flushers -> Session]
    /\ pc \in [Flushers -> Places] /\ wanted \in [Tasks -> 0..MaxNames]
    /\ clock \in Nat \ {0} /\ names \in 0..MaxNames /\ stored \in Nat
    /\ saved \in 0..MaxNames /\ excuses \subseteq Excuses /\ deleted \in BOOLEAN

LEMMA PathsAre == Files \subseteq Paths /\ \A fs \in SUBSET Files : Listing(fs) \in Paths
  BY DEF Paths

LEMMA SessionsAre == NoSession \in Session /\ Fresh \in Session
  <1>1. NoSession \in Session
    BY SessionAssumption DEF NoSession, Session, SessionAssumption
  <1> QED
    BY <1>1 DEF Fresh, Session

\* A load gives a clean entry with the data of the row.
LEMMA LoadedIs ==
    ASSUME NEW r \in Session
    PROVE  /\ Loaded(r) \in Session
           /\ Loaded(r).there = r.there /\ Loaded(r).name = r.name /\ Loaded(r).rev = 0
           /\ Loaded(r).inc = r.inc /\ Loaded(r).exc = r.exc
           /\ ~Dirty(Loaded(r))
  BY DEF Loaded, Session, Dirty

\* What a flush writes is a session.
LEMMA WrittenIs ==
    ASSUME STypes, NEW s \in Session, NEW at \in Nat
    PROVE  /\ Written(s, at) \in Session
           /\ Written(s, at).there = s.there /\ Written(s, at).name = s.name
           /\ Written(s, at).exc = s.exc /\ s.inc \ s.exc \subseteq Written(s, at).inc
  BY DEF Written, Session, STypes

\* update_files_delta makes a session of a session.
LEMMA WithFilesIs ==
    ASSUME STypes, NEW a \in SUBSET Paths, NEW b \in SUBSET Paths, NEW c \in SUBSET Paths,
           NEW d \in SUBSET Paths, NEW at \in Nat
    PROVE  /\ WithFiles(a, b, c, d, at) \in Session
           /\ WithFiles(a, b, c, d, at).there = cache.there /\ WithFiles(a, b, c, d, at).name = cache.name
           /\ WithFiles(a, b, c, d, at).dirtyFiles /\ WithFiles(a, b, c, d, at).rev = cache.rev + 1
  <1> DEFINE i == ((cache.inc \ b) \cup a) \ c
             e == ((cache.exc \ d) \ a) \cup c
  <1>1. cache \in Session /\ cache.inc \in SUBSET Paths /\ cache.exc \in SUBSET Paths /\ cache.rev + 1 \in Nat
    BY DEF STypes, Session
  <1>2. i \in SUBSET Paths /\ e \in SUBSET Paths
    BY <1>1
  <1>3. WithFiles(a, b, c, d, at)
          = [cache EXCEPT !.inc = i, !.exc = e, !.at = at, !.dirtyFiles = TRUE, !.rev = cache.rev + 1]
    BY DEF WithFiles
  <1> HIDE DEF i, e
  <1> QED
    BY <1>1, <1>2, <1>3 DEF Session

LEMMA EditTimesAre == STypes => EditTimes \subseteq Nat
  BY DEF STypes, EditTimes

LEMMA AnswerTypes ==
    ASSUME STypes, NEW t \in Flushers, Answer(t)
    PROVE  /\ snap' \in [Flushers -> Session] /\ pc' \in [Flushers -> Places]
           /\ wanted' \in [Tasks -> 0..MaxNames] /\ saved' \in 0..MaxNames
  <1>1. pc' = [pc EXCEPT ![t] = "idle"] /\ snap' = [snap EXCEPT ![t] = NoSession]
    BY DEF Answer, Goto, Hold
  <1>2. snap' \in [Flushers -> Session] /\ pc' \in [Flushers -> Places]
    BY <1>1, SessionsAre DEF STypes, Places
  <1>3. CASE t = Timer
    BY <1>2, <1>3 DEF Answer, STypes
  <1>4. CASE t # Timer
    <2>1. t \in Tasks
      BY <1>4 DEF Flushers
    <2>2. saved' = IF wanted[t] > saved THEN wanted[t] ELSE saved
      BY <1>4 DEF Answer
    <2>3. wanted' = [wanted EXCEPT ![t] = 0]
      BY <1>4 DEF Answer
    <2>4. 0 \in 0..MaxNames /\ wanted[t] \in 0..MaxNames
      BY <2>1, SessionAssumption DEF STypes, SessionAssumption
    <2> QED
      BY <1>2, <2>1, <2>2, <2>3, <2>4 DEF STypes
  <1> QED
    BY <1>3, <1>4

LEMMA FlushStepTypes ==
    ASSUME STypes, NEW t \in Flushers, FlushStep(t)
    PROVE  STypes'
  <1>1. CASE FlushSnapshot(t)
    BY <1>1 DEF FlushSnapshot, STypes, Goto, Hold, Places, history, bounds
  <1>2. CASE FlushNothing(t)
    <2>1. Answer(t) /\ UNCHANGED <<row, cache, clock, stored, excuses, deleted, names>>
      BY <1>2 DEF FlushNothing, bounds
    <2> QED
      BY <2>1, AnswerTypes DEF STypes
  <1>3. CASE FlushWrite(t)
    <2>1. snap[t] \in Session /\ clock + 1 \in Nat \ {0} /\ row \in Session
      BY DEF STypes
    <2>2. row' \in Session
      BY <1>3, <2>1, WrittenIs DEF FlushWrite, UpdateSession
    <2>3. stored' \in Nat /\ excuses' \subseteq Excuses
      BY <1>3, <2>1 DEF FlushWrite, Excuse, Excuses, STypes, Session
    <2>4. /\ clock' \in Nat \ {0} /\ snap' \in [Flushers -> Session] /\ pc' \in [Flushers -> Places]
          /\ wanted' \in [Tasks -> 0..MaxNames] /\ saved' \in 0..MaxNames
      <3>1. CASE row.there
        BY <1>3, <3>1, <2>1 DEF FlushWrite, Goto, STypes, Places
      <3>2. CASE ~row.there
        BY <1>3, <3>2, AnswerTypes DEF FlushWrite, STypes
      <3> QED
        BY <3>1, <3>2
    <2>5. UNCHANGED <<cache, deleted, names>>
      BY <1>3 DEF FlushWrite, bounds
    <2> QED
      BY <2>2, <2>3, <2>4, <2>5 DEF STypes
  <1>4. CASE FlushError(t)
    <2>1. Answer(t) /\ UNCHANGED <<row, cache, clock, stored, deleted, names>> /\ excuses' = excuses \cup {"failed"}
      BY <1>4 DEF FlushError, Excuse
    <2> QED
      BY <2>1, AnswerTypes DEF STypes, Excuses
  <1>5. CASE FlushClear(t)
    <2>1. Answer(t) /\ UNCHANGED <<row, clock, stored, excuses, deleted, names>> /\ cache' = Cleaned(t)
      BY <1>5 DEF FlushClear, bounds
    <2>2. cache' \in Session
      BY <2>1 DEF Cleaned, STypes, Session
    <2> QED
      BY <2>1, <2>2, AnswerTypes DEF STypes
  <1> QED
    BY <1>1, <1>2, <1>3, <1>4, <1>5 DEF FlushStep

LEMMA CommandStepTypes ==
    ASSUME STypes, NEW t \in Tasks, CommandStep(t)
    PROVE  STypes'
  <1>0. t \in Flushers
    BY DEF Flushers
  <1>1. CASE Upsert(t)
    <2>1. cache' = Upserted(snap[t]) /\ snap[t] \in Session
      BY <1>0, <1>1 DEF Upsert, STypes
    <2>2. cache' \in Session
      <3>1. PICK f \in BOOLEAN : f = (~cache.there \/ cache.name # snap[t].name)
        OBVIOUS
      <3>2. PICK g \in BOOLEAN : g = (cache.there /\ <<cache.inc, cache.exc>> # <<snap[t].inc, snap[t].exc>>)
        OBVIOUS
      <3>3. PICK n \in Nat : n = IF cache.there THEN cache.rev + 1 ELSE 1
        BY DEF STypes, Session
      <3>4. cache' = [snap[t] EXCEPT !.there = TRUE, !.dirtyFields = f, !.dirtyFiles = g, !.rev = n]
        BY <2>1, <3>1, <3>2, <3>3 DEF Upserted
      <3> QED
        BY <2>1, <3>4 DEF Session
    <2>3. excuses' \subseteq Excuses
      BY <1>1 DEF Upsert, Excuse, Excuses, STypes
    <2>4. snap' \in [Flushers -> Session] /\ pc' \in [Flushers -> Places]
      BY <1>0, <1>1, SessionsAre DEF Upsert, Goto, Hold, STypes, Places
    <2> QED
      BY <1>1, <2>2, <2>3, <2>4 DEF Upsert, STypes, bounds
  <1>2. CASE GetInsert(t)
    <2>1. cache' \in Session /\ excuses' \subseteq Excuses
      BY <1>0, <1>2 DEF GetInsert, Excuse, Excuses, STypes
    <2>2. snap' \in [Flushers -> Session] /\ pc' \in [Flushers -> Places]
      BY <1>0, <1>2, SessionsAre DEF GetInsert, Goto, Hold, STypes, Places
    <2> QED
      BY <1>2, <2>1, <2>2 DEF GetInsert, STypes, bounds
  <1>3. CASE RemoveEntry(t)
    <2>1. cache' \in Session /\ pc' \in [Flushers -> Places]
      BY <1>0, <1>3, SessionsAre DEF RemoveEntry, Goto, STypes, Places
    <2> QED
      BY <1>3, <2>1 DEF RemoveEntry, STypes, bounds, history
  <1> QED
    BY <1>1, <1>2, <1>3 DEF CommandStep

LEMMA BeginTypes ==
    ASSUME STypes, NEW t \in Tasks, Begin(t)
    PROVE  STypes'
  <1>0. t \in Flushers /\ MaxNames \in Nat
    BY SessionAssumption DEF Flushers, SessionAssumption
  <1>1. CASE Rename(t)
    <2>1. names + 1 \in 0..MaxNames
      BY <1>0, <1>1 DEF Rename, STypes
    <2>2. cache' \in Session
      <3>1. PICK n \in Nat : cache' = [cache EXCEPT !.name = names + 1, !.at = n, !.dirtyFields = TRUE,
                                                    !.rev = cache.rev + 1]
        BY <1>1, EditTimesAre DEF Rename
      <3>2. cache \in Session /\ cache.rev + 1 \in Nat
        BY DEF STypes, Session
      <3> QED
        BY <2>1, <3>1, <3>2 DEF Session
    <2>3. wanted' \in [Tasks -> 0..MaxNames] /\ names' \in 0..MaxNames
      BY <1>1, <2>1 DEF Rename, STypes
    <2>4. pc' \in [Flushers -> Places]
      BY <1>0, <1>1 DEF Rename, Goto, STypes, Places
    <2> QED
      BY <1>1, <2>2, <2>3, <2>4 DEF Rename, STypes, history
  <1>2. CASE EditFields(t)
    <2>1. names + 1 \in 0..MaxNames
      BY <1>0, <1>2 DEF EditFields, STypes
    <2>2. cache' \in Session
      <3>1. PICK n \in Nat : cache' = [cache EXCEPT !.name = names + 1, !.at = n, !.dirtyFields = TRUE,
                                                    !.rev = cache.rev + 1]
        BY <1>2, EditTimesAre DEF EditFields
      <3>2. cache \in Session /\ cache.rev + 1 \in Nat
        BY DEF STypes, Session
      <3> QED
        BY <2>1, <3>1, <3>2 DEF Session
    <2> QED
      BY <1>2, <2>1, <2>2 DEF EditFields, STypes, history
  <1>3. CASE UpdateRead(t)
    <2>1. names + 1 \in 0..MaxNames
      BY <1>0, <1>3 DEF UpdateRead, STypes
    <2>2. [cache EXCEPT !.name = names + 1] \in Session
      BY <2>1 DEF Session, STypes
    <2>3. snap' \in [Flushers -> Session] /\ pc' \in [Flushers -> Places]
      BY <1>0, <1>3, <2>2 DEF UpdateRead, Goto, Hold, STypes, Places
    <2> QED
      BY <1>3, <2>1, <2>3 DEF UpdateRead, STypes, history
  <1>4. CASE GetRead(t)
    <2>1. snap' \in [Flushers -> Session] /\ pc' \in [Flushers -> Places]
      BY <1>0, <1>4, LoadedIs DEF GetRead, Goto, Hold, STypes, Places
    <2> QED
      BY <1>4, <2>1 DEF GetRead, STypes, history, bounds
  <1>5. CASE Create(t)
    <2>1. clock + 1 \in Nat \ {0} /\ row' = [Fresh EXCEPT !.at = clock + 1] /\ clock' = clock + 1
      BY <1>5 DEF Create, STypes
    <2>2. row' \in Session
      BY <2>1, SessionsAre DEF Session
    <2>3. snap' \in [Flushers -> Session] /\ pc' \in [Flushers -> Places]
      BY <1>0, <1>5, <2>2 DEF Create, Goto, Hold, STypes, Places
    <2> QED
      BY <1>5, <2>1, <2>2, <2>3 DEF Create, STypes, history, bounds
  <1>6. CASE DeleteRow(t)
    <2>1. pc' \in [Flushers -> Places]
      BY <1>0, <1>6 DEF DeleteRow, STypes, Places
    <2> QED
      BY <1>6, <2>1, SessionsAre DEF DeleteRow, STypes, bounds
  <1> QED
    BY <1>1, <1>2, <1>3, <1>4, <1>5, <1>6 DEF Begin

LEMMA CrashTypes ==
    ASSUME STypes, Crash
    PROVE  STypes'
  <1>1. cache' \in Session
    BY SessionsAre, LoadedIs DEF Crash, STypes
  <1>2. /\ snap' \in [Flushers -> Session] /\ pc' \in [Flushers -> Places]
        /\ wanted' \in [Tasks -> 0..MaxNames]
    BY SessionsAre, SessionAssumption DEF Crash, Places, SessionAssumption
  <1> QED
    BY <1>1, <1>2 DEF Crash, STypes

-------------------------------------------------------------------------------
(* The history and its worker. *)

EditShape == [entries : Seq(Entry), index : Nat, version : Nat, op : Nat]

\* An operation wants the selection of one of its entries.
Operation ==
    {o \in [by : Tasks, id : Nat, kind : {"sync", "merge"}, entries : Seq(Entry), index : Nat,
            version : Nat, known : SUBSET Entry, wants : (SUBSET Files) \X (SUBSET Files)] :
        o.entries # <<>> /\ o.wants \in SelectionsOf(o.entries)}

WorkShape == [step : {"recv", "read", "merge", "cache", "apply", "reply"}, merged : BOOLEAN,
              base : (SUBSET Paths) \X (SUBSET Paths), local : HistoryShape]

HTypes ==
    /\ hist \in HistoryShape /\ Len(hist.entries) <= MaxHistory /\ Distinct(hist.entries)
    /\ hist.entries # <<>> => hist.index < Len(hist.entries)
    /\ edit \in [Tasks -> EditShape]
    /\ ops \in Seq(Operation)
    /\ work \in WorkShape /\ (~At("recv") => ops # <<>>)
    /\ edits \in 0..MaxEdits

LEMMA HShapesAre == NoHistory \in HistoryShape /\ NoEdit \in EditShape /\ NoWork \in WorkShape
  <1>1. <<>> \in Seq(Entry) /\ {} \in SUBSET Paths
    OBVIOUS
  <1>2. NoHistory \in HistoryShape
    BY <1>1 DEF NoHistory, HistoryShape
  <1> QED
    BY <1>1, <1>2 DEF NoEdit, EditShape, NoWork, WorkShape

LEMMA NoHistoryIs ==
    /\ NoHistory.entries = <<>> /\ Len(NoHistory.entries) <= MaxHistory /\ NoWork.step = "recv"
    /\ Distinct(NoHistory.entries)
  <1>1. NoHistory.entries = <<>> /\ NoWork.step = "recv"
    BY DEF NoHistory, NoWork
  <1>2. Len(<<>>) = 0 /\ 0 <= MaxHistory
    BY HistoryAssumption DEF HistoryAssumption
  <1>3. Distinct(NoHistory.entries)
    BY <1>1 DEF Distinct
  <1> QED
    BY <1>1, <1>2, <1>3

LEMMA InitTypes == HistoryInit => STypes /\ HTypes
  <1> SUFFICES ASSUME HistoryInit PROVE STypes /\ HTypes
    OBVIOUS
  <1>1. Idle /\ row \in {Fresh, NoSession} /\ cache = row
    BY DEF HistoryInit, SessionInit
  <1>2. STypes
    <2>1. 0 \in 0..MaxNames /\ 0 \in Nat /\ 1 \in Nat \ {0}
      BY SessionAssumption DEF SessionAssumption
    <2>2. /\ pc \in [Flushers -> Places] /\ snap \in [Flushers -> Session]
          /\ wanted \in [Tasks -> 0..MaxNames]
      BY <1>1, <2>1, SessionsAre DEF Idle, Places
    <2>3. row \in Session /\ cache \in Session
      BY <1>1, SessionsAre
    <2> QED
      BY <1>1, <2>1, <2>2, <2>3 DEF STypes, Idle
  <1>3. hist = NoHistory /\ NothingQueued
    BY DEF HistoryInit
  <1>4. HTypes
    <2>1. edit \in [Tasks -> EditShape] /\ ops = <<>> /\ work = NoWork /\ edits = 0
      BY <1>3, HShapesAre DEF NothingQueued
    <2>2. <<>> \in Seq(Operation) /\ 0 \in 0..MaxEdits
      BY HistoryAssumption DEF HistoryAssumption
    <2> QED
      BY <1>3, <2>1, <2>2, HShapesAre, NoHistoryIs DEF HTypes, At
  <1> QED
    BY <1>2, <1>4

LEMMA CascadeTypes ==
    ASSUME HTypes, Cascade
    PROVE  HTypes'
  <1>1. hist' = hist \/ hist' = NoHistory
    BY DEF Cascade
  <1>2. UNCHANGED <<edit, ops, work, edits>>
    BY DEF Cascade
  <1>3. CASE hist' = hist
    BY <1>2, <1>3 DEF HTypes, At
  <1>4. CASE hist' = NoHistory
    BY <1>2, <1>4, HShapesAre, NoHistoryIs DEF HTypes, At
  <1> QED
    BY <1>1, <1>3, <1>4

\* An operation carries what its command has read.
LEMMA EnqueueTypes ==
    ASSUME STypes, HTypes, NEW t \in Tasks, NEW kind \in {"sync", "merge"},
           NEW entries \in Seq(Entry), NEW index \in Nat, NEW wants \in (SUBSET Files) \X (SUBSET Files),
           entries # <<>>, wants \in SelectionsOf(entries), edits < MaxEdits,
           Enqueue(t, kind, entries, index, wants)
    PROVE  /\ HTypes' /\ pc' \in [Flushers -> Places]
  <1> DEFINE o == [by |-> t, id |-> edits + 1, kind |-> kind, entries |-> entries,
                   index |-> index, version |-> edit[t].version,
                   known |-> Range(edit[t].entries), wants |-> wants]
  <1>0. edits + 1 \in Nat /\ edits + 1 \in 0..MaxEdits /\ edit[t] \in EditShape
    BY HistoryAssumption DEF HTypes, HistoryAssumption
  <1>1. edit[t].version \in Nat /\ Range(edit[t].entries) \in SUBSET Entry
    <2>1. PICK e \in Seq(Entry) : e = edit[t].entries
      BY <1>0 DEF EditShape
    <2>2. \A k \in DOMAIN e : e[k] \in Entry
      OBVIOUS
    <2> QED
      BY <1>0, <2>1, <2>2 DEF EditShape, Range
  <1>2. o \in Operation
    BY <1>0, <1>1 DEF Operation
  <1>3. ops' = Append(ops, o) /\ edits' = edits + 1 /\ UNCHANGED <<hist, work>>
    BY DEF Enqueue
  <1> HIDE DEF o
  <1>4. ops' \in Seq(Operation) /\ ops' # <<>>
    BY <1>2, <1>3, AppendProperties DEF HTypes
  <1>5. edit' \in [Tasks -> EditShape]
    <2>1. [NoEdit EXCEPT !.op = edits + 1] \in EditShape
      BY <1>0, HShapesAre DEF EditShape
    <2> QED
      BY <2>1 DEF Enqueue, HTypes
  <1>6. pc' \in [Flushers -> Places]
    BY DEF Enqueue, Goto, STypes, Places, Flushers
  <1> QED
    BY <1>0, <1>3, <1>4, <1>5, <1>6 DEF HTypes, At

LEMMA NewEntryIs ==
    ASSUME HTypes, NEW t \in Tasks, NEW inc \in SUBSET Files, NEW exc \in SUBSET Files, inc \cap exc = {}
    PROVE  NewEntry(t, inc, exc) \in Entry /\ Selection(NewEntry(t, inc, exc)) = <<inc, exc>>
  <1>1. edit[t].entries \in Seq(Entry) /\ edits + 1 \in Nat
    BY HistoryAssumption DEF HTypes, EditShape, HistoryAssumption
  <1>2. NextSeq(edit[t].entries) \in Nat
    BY <1>1, NextSeqIs
  <1>3. PICK d \in Devices : d = IF t \in Phones THEN "phone" ELSE "desktop"
    BY DEF Devices
  <1>4. NewEntry(t, inc, exc) = [inc |-> inc, exc |-> exc, at |-> edits + 1,
                                 seq |-> NextSeq(edit[t].entries), dev |-> d]
    BY <1>3 DEF NewEntry
  <1> QED
    BY <1>1, <1>2, <1>4 DEF Entry, Selection

LEMMA FilledIs == ASSUME STypes, NEW t PROVE Filled(t) \in Session
  BY LoadedIs DEF Filled, STypes

LEMMA NoEditTypes ==
    ASSUME STypes, HTypes, NEW t \in Tasks,
           edit' = [edit EXCEPT ![t] = NoEdit], Goto(t, "idle"), UNCHANGED <<hist, ops, work, edits>>
    PROVE  HTypes' /\ pc' \in [Flushers -> Places]
  <1>1. edit' \in [Tasks -> EditShape]
    BY HShapesAre DEF HTypes
  <1>2. pc' \in [Flushers -> Places]
    BY DEF Goto, STypes, Places, Flushers
  <1> QED
    BY <1>1, <1>2 DEF HTypes, At

LEMMA HistoryCommandTypes ==
    ASSUME STypes, HTypes, NEW t \in Tasks, HistoryBegin(t) \/ HistoryStep(t)
    PROVE  STypes' /\ HTypes'
  <1>0. edit[t] \in EditShape /\ t \in Flushers
    BY DEF HTypes, Flushers
  <1>1. CASE HistoryReadVersion(t)
    <2>1. [NoEdit EXCEPT !.index = hist.index, !.version = hist.version] \in EditShape
      BY HShapesAre DEF EditShape, HTypes, HistoryShape
    <2>2. edit' \in [Tasks -> EditShape]
      BY <1>1, <2>1 DEF HistoryReadVersion, HTypes
    <2>3. pc' \in [Flushers -> Places]
      BY <1>0, <1>1 DEF HistoryReadVersion, Goto, STypes, Places
    <2>4. STypes'
      BY <1>1, <2>3 DEF HistoryReadVersion, STypes, history, bounds
    <2>5. HTypes'
      BY <1>1, <2>2 DEF HistoryReadVersion, HTypes, At
    <2> QED
      BY <2>4, <2>5
  <1>2. CASE HistoryReadEntries(t)
    <2> DEFINE h == ReadHistory(hist.entries, edit[t].index, edit[t].version)
    <2>1. h \in HistoryShape
      BY <1>0, ReadHistoryIs DEF HTypes, HistoryShape, EditShape
    <2>2. [entries |-> h.entries, index |-> h.index, version |-> h.version, op |-> 0] \in EditShape
      BY <2>1 DEF HistoryShape, EditShape
    <2>3. edit' \in [Tasks -> EditShape]
      BY <1>2, <2>2 DEF HistoryReadEntries, HTypes
    <2>4. pc' \in [Flushers -> Places]
      BY <1>0, <1>2 DEF HistoryReadEntries, Goto, STypes, Places
    <2>5. STypes'
      BY <1>2, <2>4 DEF HistoryReadEntries, STypes, history, bounds
    <2>6. HTypes'
      BY <1>2, <2>3 DEF HistoryReadEntries, HTypes, At
    <2> QED
      BY <2>5, <2>6
  <1>3. CASE EditFiles(t)
    <2>1. PICK inc, exc \in SUBSET Files :
             /\ inc \cap exc = {}
             /\ LET upto == IF HasCurrent(edit[t])
                             THEN SubSeq(edit[t].entries, 1, edit[t].index + 1) ELSE <<>>
                    all == Newest(Append(upto, NewEntry(t, inc, exc)))
                IN  Enqueue(t, "sync", all, Len(all) - 1, <<inc, exc>>)
      BY <1>3 DEF EditFiles
    <2> DEFINE upto == IF HasCurrent(edit[t]) THEN SubSeq(edit[t].entries, 1, edit[t].index + 1) ELSE <<>>
               e == NewEntry(t, inc, exc)
               more == Append(upto, e)
               all == Newest(more)
    <2>2. upto \in Seq(Entry)
      <3>1. CASE HasCurrent(edit[t])
        <4>1. edit[t].entries \in Seq(Entry) /\ edit[t].index + 1 \in 1..Len(edit[t].entries)
          BY <1>0, <3>1 DEF EditShape, HasCurrent
        <4> QED
          BY <3>1, <4>1, SubSeqProperties
      <3>2. CASE ~HasCurrent(edit[t])
        BY <3>2
      <3> QED
        BY <3>1, <3>2
    <2>3. e \in Entry /\ Selection(e) = <<inc, exc>>
      BY <2>1, NewEntryIs
    <2>4. Enqueue(t, "sync", all, Len(all) - 1, <<inc, exc>>)
      BY <2>1
    <2> HIDE DEF upto, e
    <2>5. more \in Seq(Entry) /\ Len(more) = Len(upto) + 1 /\ more[Len(upto) + 1] = e
      BY <2>2, <2>3, AppendIs
    <2>6. more # <<>> /\ more[Len(more)] = e
      BY <2>2, <2>5
    <2> HIDE DEF more
    <2>7. all \in Seq(Entry) /\ all # <<>> /\ e \in Range(all)
      BY <2>5, <2>6, NewestIs
    <2>8. <<inc, exc>> \in SelectionsOf(all)
      BY <2>3, <2>7 DEF SelectionsOf
    <2> HIDE DEF all
    <2>9. Len(all) - 1 \in Nat /\ <<inc, exc>> \in (SUBSET Files) \X (SUBSET Files)
      BY <2>7
    <2>10. HTypes' /\ pc' \in [Flushers -> Places]
      <3>1. edits < MaxEdits
        BY <1>3 DEF EditFiles
      <3>2. PICK n \in Nat : n = Len(all) - 1
        BY <2>9
      <3>3. PICK w \in (SUBSET Files) \X (SUBSET Files) : w = <<inc, exc>>
        BY <2>9
      <3>4. Enqueue(t, "sync", all, n, w) /\ w \in SelectionsOf(all)
        BY <2>4, <2>8, <3>2, <3>3
      <3> QED
        BY <2>7, <3>1, <3>4, EnqueueTypes
    <2>11. cache' \in Session
      BY <1>3, FilledIs DEF EditFiles
    <2>12. UNCHANGED <<row, snap, wanted, clock, history, bounds>>
      BY <2>4 DEF Enqueue
    <2> QED
      BY <2>10, <2>11, <2>12 DEF STypes, history, bounds
  <1>4. CASE EditNothing(t)
    <2>1. HTypes' /\ pc' \in [Flushers -> Places]
      BY <1>4, NoEditTypes DEF EditNothing
    <2>2. cache' \in Session
      BY <1>4, FilledIs DEF EditNothing
    <2> QED
      BY <1>4, <2>1, <2>2 DEF EditNothing, STypes, history, bounds
  <1>5. CASE MoveIndex(t)
    <2>1. PICK i \in 0..(Len(edit[t].entries) - 1) :
             Enqueue(t, "sync", edit[t].entries, i, Selection(edit[t].entries[i + 1]))
      BY <1>5 DEF MoveIndex
    <2>2. PICK s \in Seq(Entry) : s = edit[t].entries
      BY <1>0 DEF EditShape
    <2>3. i \in Nat /\ i + 1 \in DOMAIN s
      BY <2>1, <2>2
    <2>4. s # <<>> /\ s[i + 1] \in Entry /\ s[i + 1] \in Range(s)
      BY <2>3 DEF Range
    <2>5. PICK w \in (SUBSET Files) \X (SUBSET Files) : w = Selection(s[i + 1])
      BY <2>4 DEF Selection, Entry
    <2>6. w \in SelectionsOf(s)
      BY <2>4, <2>5 DEF SelectionsOf
    <2>7. Enqueue(t, "sync", s, i, w) /\ edits < MaxEdits
      BY <1>5, <2>1, <2>2, <2>5 DEF MoveIndex
    <2>8. HTypes' /\ pc' \in [Flushers -> Places]
      BY <2>3, <2>4, <2>6, <2>7, EnqueueTypes
    <2>9. UNCHANGED <<cache, row, snap, wanted, clock, history, bounds>>
      BY <1>5, <2>7 DEF Enqueue, MoveIndex
    <2> QED
      BY <2>8, <2>9 DEF STypes, history, bounds
  <1>6. CASE PhoneMerge(t)
    <2>1. PICK inc, exc \in SUBSET Files :
             /\ inc \cap exc = {}
             /\ LET all == Append(edit[t].entries, NewEntry(t, inc, exc))
                IN  Enqueue(t, "merge", all, Len(all) - 1, <<inc, exc>>)
      BY <1>6 DEF PhoneMerge
    <2> DEFINE e == NewEntry(t, inc, exc)
               all == Append(edit[t].entries, e)
    <2>2. Enqueue(t, "merge", all, Len(all) - 1, <<inc, exc>>)
      BY <2>1
    <2>3. e \in Entry /\ Selection(e) = <<inc, exc>>
      BY <2>1, NewEntryIs
    <2>4. edit[t].entries \in Seq(Entry)
      BY <1>0 DEF EditShape
    <2> HIDE DEF e
    <2>5. all \in Seq(Entry) /\ Len(all) = Len(edit[t].entries) + 1 /\ e \in Range(all)
      BY <2>3, <2>4, AppendIs
    <2>6. all # <<>> /\ Len(all) - 1 \in Nat
      BY <2>4, <2>5
    <2>7. <<inc, exc>> \in SelectionsOf(all)
      BY <2>3, <2>5 DEF SelectionsOf
    <2> HIDE DEF all
    <2>8. HTypes' /\ pc' \in [Flushers -> Places]
      <3>1. edits < MaxEdits
        BY <1>6 DEF PhoneMerge
      <3>2. PICK n \in Nat : n = Len(all) - 1
        BY <2>6
      <3>3. PICK w \in (SUBSET Files) \X (SUBSET Files) : w = <<inc, exc>>
        OBVIOUS
      <3>4. Enqueue(t, "merge", all, n, w) /\ w \in SelectionsOf(all)
        BY <2>2, <2>7, <3>2, <3>3
      <3> QED
        BY <2>5, <2>6, <3>1, <3>4, EnqueueTypes
    <2>9. UNCHANGED <<cache, row, snap, wanted, clock, history, bounds>>
      BY <1>6, <2>2 DEF Enqueue, PhoneMerge
    <2> QED
      BY <2>8, <2>9 DEF STypes, history, bounds
  <1>7. CASE TimeOut(t)
    <2>1. HTypes' /\ pc' \in [Flushers -> Places]
      BY <1>7, NoEditTypes DEF TimeOut
    <2> QED
      BY <1>7, <2>1 DEF TimeOut, STypes, history, bounds
  <1> QED
    BY <1>1, <1>2, <1>3, <1>4, <1>5, <1>6, <1>7 DEF HistoryBegin, HistoryStep

-------------------------------------------------------------------------------
(* The worker. *)

\* What is applied has entries and an index.
Appliable(s) == s.entries \in Seq(Entry) /\ s.entries # <<>> /\ s.index \in Nat

\* sync_file_history_state keeps the form of the history.
LEMMA SyncedIs ==
    ASSUME HTypes, NEW s, Appliable(s)
    PROVE  /\ Synced(s) \in HistoryShape /\ Len(Synced(s).entries) <= MaxHistory
           /\ Synced(s).entries # <<>> /\ Synced(s).index < Len(Synced(s).entries)
           /\ Len(Synced(s).entries) < MaxHistory => SelectionsOf(Synced(s).entries) = SelectionsOf(s.entries)
           /\ Distinct(Synced(s).entries)
           /\ Distinct(s.entries) /\ Len(s.entries) <= MaxHistory => Len(Synced(s).entries) = Len(s.entries)
  <1> DEFINE v == Validated(s.entries, s.index)
  <1>1. PICK e \in Seq(Entry) : e = v.entries
    BY ValidatedIs DEF Appliable
  <1>2. /\ v.index \in Nat /\ Len(e) <= MaxHistory /\ e # <<>> /\ v.index < Len(e)
        /\ Len(e) < MaxHistory => SelectionsOf(e) = SelectionsOf(s.entries)
        /\ Distinct(e)
        /\ Distinct(s.entries) /\ Len(s.entries) <= MaxHistory => Len(e) = Len(s.entries)
    BY <1>1, ValidatedIs DEF Appliable
  <1>3. Synced(s) = IF v.entries = hist.entries /\ v.index = hist.index THEN hist
                    ELSE [entries |-> v.entries, index |-> v.index, version |-> hist.version + 1]
    BY DEF Synced
  <1> HIDE DEF v
  <1>4. CASE v.entries = hist.entries /\ v.index = hist.index
    <2>1. Synced(s) = hist /\ hist.entries = e
      BY <1>1, <1>3, <1>4
    <2>2. hist.index = v.index
      BY <1>4
    <2> QED
      BY <1>2, <2>1, <2>2 DEF HTypes
  <1>5. CASE ~(v.entries = hist.entries /\ v.index = hist.index)
    <2>1. Synced(s) = [entries |-> e, index |-> v.index, version |-> hist.version + 1]
      BY <1>1, <1>3, <1>5
    <2>2. hist.version + 1 \in Nat
      BY DEF HTypes, HistoryShape
    <2> QED
      BY <1>2, <2>1, <2>2 DEF HistoryShape
  <1> QED
    BY <1>4, <1>5

LEMMA CurrentIs ==
    ASSUME NEW h \in HistoryShape, HasCurrent(h)
    PROVE  /\ Current(h) \in Entry /\ Current(h).inc \in SUBSET Files /\ Current(h).exc \in SUBSET Files
           /\ Current(h).inc \cap Current(h).exc = {}
           /\ Selection(Current(h)) \in Selections(h)
  <1>1. PICK e \in Seq(Entry) : e = h.entries
    BY DEF HistoryShape
  <1>2. h.index + 1 \in DOMAIN e
    BY <1>1 DEF HistoryShape, HasCurrent
  <1>3. Current(h) = e[h.index + 1] /\ e[h.index + 1] \in Entry
    BY <1>1, <1>2 DEF Current
  <1>4. Selection(Current(h)) \in Selections(h)
    BY <1>1, <1>2, <1>3 DEF Selections
  <1> QED
    BY <1>3, <1>4 DEF Entry

LEMMA ColumnsAre ==
    ASSUME NEW h \in HistoryShape
    PROVE  Columns(h)[1] \in SUBSET Paths /\ Columns(h)[2] \in SUBSET Paths
  <1>1. CASE HasCurrent(h)
    <2>1. {Listing(Current(h).inc)} \in SUBSET Paths /\ {Listing(Current(h).exc)} \in SUBSET Paths
      BY <1>1, CurrentIs, PathsAre
    <2> QED
      BY <1>1, <2>1 DEF Columns
  <1>2. CASE ~HasCurrent(h)
    BY <1>2 DEF Columns
  <1> QED
    BY <1>1, <1>2

\* A commit keeps the form of row and history.
LEMMA CommitIs ==
    ASSUME STypes, HTypes, NEW s, Appliable(s), Commit(s)
    PROVE  /\ hist' \in HistoryShape /\ Len(hist'.entries) <= MaxHistory
           /\ hist'.entries # <<>> /\ hist'.index < Len(hist'.entries)
           /\ Len(hist'.entries) < MaxHistory => SelectionsOf(hist'.entries) = SelectionsOf(s.entries)
           /\ Distinct(hist'.entries)
           /\ Distinct(s.entries) /\ Len(s.entries) <= MaxHistory => Len(hist'.entries) = Len(s.entries)
           /\ row' \in Session /\ row'.there = row.there /\ row'.name = row.name
           /\ clock' \in Nat \ {0}
           /\ work' \in WorkShape /\ work'.step = "cache"
  <1>1. hist' = Synced(s)
    BY DEF Commit
  <1>2. /\ hist' \in HistoryShape /\ Len(hist'.entries) <= MaxHistory
        /\ hist'.entries # <<>> /\ hist'.index < Len(hist'.entries)
        /\ Len(hist'.entries) < MaxHistory => SelectionsOf(hist'.entries) = SelectionsOf(s.entries)
        /\ Distinct(hist'.entries)
        /\ Distinct(s.entries) /\ Len(s.entries) <= MaxHistory => Len(hist'.entries) = Len(s.entries)
    BY <1>1, SyncedIs
  <1>3. /\ row' \in Session /\ row'.there = row.there /\ row'.name = row.name
        /\ clock' \in Nat \ {0}
    <2>1. CASE hist' = hist
      BY <2>1 DEF Commit, STypes
    <2>2. CASE hist' # hist
      <3>1. PICK h \in HistoryShape : h = hist'
        BY <1>2
      <3>2. PICK i \in SUBSET Paths : i = Columns(h)[1]
        BY ColumnsAre
      <3>3. PICK e \in SUBSET Paths : e = Columns(h)[2]
        BY ColumnsAre
      <3>4. row' = [row EXCEPT !.inc = i, !.exc = e, !.at = clock + 1] /\ clock' = clock + 1
        BY <2>2, <3>1, <3>2, <3>3 DEF Commit
      <3>5. row \in Session /\ clock + 1 \in Nat \ {0}
        BY DEF STypes
      <3> QED
        BY <3>4, <3>5 DEF Session
    <2> QED
      BY <2>1, <2>2
  <1>4. work' \in WorkShape /\ work'.step = "cache"
    BY DEF Commit, HTypes, WorkShape
  <1> QED
    BY <1>2, <1>3, <1>4

LEMMA OpIs ==
    ASSUME HTypes, ops # <<>>
    PROVE  op \in Operation /\ op.by \in Tasks /\ Appliable(op) /\ op.wants \in SelectionsOf(op.entries)
           /\ op = ops[1] /\ Tail(ops) \in Seq(Operation)
  <1>1. op \in Operation /\ op = ops[1] /\ Tail(ops) \in Seq(Operation)
    BY HeadTailProperties DEF HTypes, op
  <1> QED
    BY <1>1 DEF Operation, Appliable

LEMMA StepTypes ==
    ASSUME HTypes, NEW s \in {"recv", "read", "merge", "cache", "apply", "reply"}, Step(s)
    PROVE  work' \in WorkShape /\ work'.step = s
  BY DEF HTypes, WorkShape, Step

LEMMA WorkerStepTypes ==
    ASSUME STypes, HTypes, WorkerStep
    PROVE  STypes' /\ HTypes'
  <1>1. CASE WorkerSync
    <2>1. UNCHANGED <<cache, pc, snap, wanted, history, bounds, edit, ops, edits>> /\ ops # <<>>
      BY <1>1 DEF WorkerSync
    <2>2. CASE row.there /\ op.kind = "sync" /\ VersionMatches(op.version)
      <3>1. Commit(op)
        BY <1>1, <2>2 DEF WorkerSync
      <3> QED
        BY <2>1, <3>1, OpIs, CommitIs DEF STypes, HTypes, At, history, bounds
    <2>3. CASE ~(row.there /\ op.kind = "sync" /\ VersionMatches(op.version))
      <3>1. (Step("reply") \/ Step("read")) /\ UNCHANGED <<row, clock, hist>>
        BY <1>1, <2>3 DEF WorkerSync
      <3>2. work' \in WorkShape
        BY <3>1, StepTypes
      <3> QED
        BY <2>1, <3>1, <3>2 DEF STypes, HTypes, At, history, bounds
    <2> QED
      BY <2>2, <2>3
  <1>2. CASE WorkerRead
    <2>1. UNCHANGED <<sessionVars, hist, edit, ops, edits>> /\ ops # <<>>
      BY <1>2 DEF WorkerRead, HTypes, At
    <2>2. work' \in WorkShape
      <3> DEFINE l == ReadHistory(hist.entries, hist.index, hist.version)
      <3>1. l \in HistoryShape
        BY ReadHistoryIs DEF HTypes, HistoryShape
      <3>2. work' = IF row.there THEN [work EXCEPT !.step = "merge", !.merged = TRUE, !.local = l]
                    ELSE [work EXCEPT !.step = "reply"]
        BY <1>2 DEF WorkerRead
      <3> HIDE DEF l
      <3>3. work \in WorkShape
        BY DEF HTypes
      <3> QED
        BY <3>1, <3>2, <3>3 DEF WorkShape
    <2> QED
      BY <2>1, <2>2 DEF STypes, HTypes, At, sessionVars, history, bounds
  <1>3. CASE WorkerMerge
    <2>1. UNCHANGED <<cache, pc, snap, wanted, history, bounds, edit, ops, edits>> /\ ops # <<>>
      BY <1>3 DEF WorkerMerge, HTypes, At
    <2>2. CASE row.there /\ VersionMatches(work.local.version)
      <3>1. Commit(Merged(work.local, op))
        BY <1>3, <2>2 DEF WorkerMerge
      <3>2. Appliable(Merged(work.local, op))
        BY <2>1, OpIs, MergedIs DEF Appliable, HTypes, WorkShape
      <3> QED
        BY <2>1, <3>1, <3>2, CommitIs DEF STypes, HTypes, At, history, bounds
    <2>3. CASE ~(row.there /\ VersionMatches(work.local.version))
      <3>1. Step("reply") /\ UNCHANGED <<row, clock, hist>>
        BY <1>3, <2>3 DEF WorkerMerge
      <3>2. work' \in WorkShape
        BY <3>1, StepTypes
      <3> QED
        BY <2>1, <3>1, <3>2 DEF STypes, HTypes, At, history, bounds
    <2> QED
      BY <2>2, <2>3
  <1>4. CASE WorkerGet
    <2>1. /\ UNCHANGED <<row, pc, snap, wanted, clock, history, bounds, hist, edit, ops, edits>>
          /\ ops # <<>>
      BY <1>4 DEF WorkerGet, HTypes, At
    <2>2. cache' \in Session
      BY <1>4, LoadedIs DEF WorkerGet, STypes
    <2>3. work' \in WorkShape
      <3>1. PICK b \in (SUBSET Paths) \X (SUBSET Paths) : b = Selection(cache')
        BY <2>2 DEF Selection, Session
      <3>2. work' = [work EXCEPT !.step = "apply", !.base = b] \/ work' = [work EXCEPT !.step = "reply"]
        BY <1>4, <3>1 DEF WorkerGet
      <3>3. work \in WorkShape
        BY DEF HTypes
      <3> QED
        BY <3>1, <3>2, <3>3 DEF WorkShape
    <2> QED
      BY <2>1, <2>2, <2>3 DEF STypes, HTypes, At, history, bounds
  <1>5. CASE WorkerApply
    <2>1. /\ UNCHANGED <<row, pc, snap, wanted, clock, history, bounds, hist, edit, ops, edits>>
          /\ ops # <<>>
      BY <1>5 DEF WorkerApply, HTypes, At
    <2>2. cache' \in Session
      <3>1. CASE cache.there /\ HasCurrent(hist)
        <4>1. PICK n \in Nat : cache' = Applied(Current(hist).inc, Current(hist).exc, n)
          BY <1>5, <3>1, EditTimesAre DEF WorkerApply
        <4>2. PICK i \in SUBSET Paths : i = Current(hist).inc
          BY <3>1, CurrentIs, PathsAre DEF HTypes
        <4>3. PICK e \in SUBSET Paths : e = Current(hist).exc
          BY <3>1, CurrentIs, PathsAre DEF HTypes
        <4>4. PICK b \in SUBSET Paths : b = work.base[1]
          BY DEF HTypes, WorkShape
        <4>5. PICK x \in SUBSET Paths : x = work.base[2]
          BY DEF HTypes, WorkShape
        <4>6. cache' = WithFiles(i \ b, b \ i, e \ x, x \ e, n)
          BY <4>1, <4>2, <4>3, <4>4, <4>5 DEF Applied
        <4>7. /\ i \ b \in SUBSET Paths /\ b \ i \in SUBSET Paths
              /\ e \ x \in SUBSET Paths /\ x \ e \in SUBSET Paths
          OBVIOUS
        <4> QED
          BY <4>6, <4>7, WithFilesIs
      <3>2. CASE ~(cache.there /\ HasCurrent(hist))
        BY <1>5, <3>2 DEF WorkerApply, STypes
      <3> QED
        BY <3>1, <3>2
    <2>3. work' \in WorkShape
      BY <1>5, StepTypes DEF WorkerApply
    <2> QED
      BY <2>1, <2>2, <2>3 DEF STypes, HTypes, At, history, bounds
  <1>6. CASE WorkerReply
    <2>1. ops # <<>> /\ work' = NoWork /\ ops' = Tail(ops)
      BY <1>6 DEF WorkerReply, HTypes, At
    <2>2. op.by \in Tasks /\ Tail(ops) \in Seq(Operation)
      BY <2>1, OpIs
    <2>3. edit' \in [Tasks -> EditShape] /\ pc' \in [Flushers -> Places]
      <3>1. CASE edit[op.by].op = op.id
        <4>1. Goto(op.by, "idle") /\ edit' = [edit EXCEPT ![op.by] = NoEdit]
          BY <1>6, <3>1 DEF WorkerReply
        <4>2. pc' \in [Flushers -> Places]
          BY <4>1, <2>2 DEF Goto, STypes, Places, Flushers
        <4> QED
          BY <4>1, <4>2, HShapesAre DEF HTypes
      <3>2. CASE edit[op.by].op # op.id
        BY <1>6, <3>2 DEF WorkerReply, STypes, HTypes
      <3> QED
        BY <3>1, <3>2
    <2>4. UNCHANGED <<row, cache, snap, wanted, clock, history, bounds, hist, edits>>
      BY <1>6 DEF WorkerReply
    <2>5. STypes'
      BY <2>3, <2>4 DEF STypes, history, bounds
    <2>6. HTypes'
      BY <2>1, <2>2, <2>3, <2>4, HShapesAre, NoHistoryIs DEF HTypes, At
    <2> QED
      BY <2>5, <2>6
  <1> QED
    BY <1>1, <1>2, <1>3, <1>4, <1>5, <1>6 DEF WorkerStep

LEMMA RestartTypes ==
    ASSUME STypes, HTypes, Restart
    PROVE  STypes' /\ HTypes'
  <1>1. edit' \in [Tasks -> EditShape] /\ ops' \in Seq(Operation) /\ work' = NoWork /\ UNCHANGED <<hist, edits>>
    BY HShapesAre DEF Restart
  <1>2. HTypes'
    BY <1>1, HShapesAre, NoHistoryIs DEF HTypes, At
  <1> QED
    BY <1>2, CrashTypes DEF Restart

\* Every step keeps the types.
LEMMA NextTypes ==
    ASSUME STypes, HTypes, [Next]_vars
    PROVE  STypes' /\ HTypes'
  <1>1. CASE \E t \in Flushers : FlushStep(t) /\ Cascade
    BY <1>1, FlushStepTypes, CascadeTypes
  <1>2. CASE \E t \in Tasks : (CommandStep(t) \/ Begin(t)) /\ Cascade
    BY <1>2, CommandStepTypes, BeginTypes, CascadeTypes
  <1>3. CASE \E t \in Tasks : HistoryBegin(t) \/ HistoryStep(t)
    BY <1>3, HistoryCommandTypes
  <1>4. CASE WorkerStep
    BY <1>4, WorkerStepTypes
  <1>5. CASE Restart
    BY <1>5, RestartTypes
  <1>6. CASE UNCHANGED vars
    BY <1>6 DEF vars, sessionVars, historyVars, history, bounds, STypes, HTypes, At
  <1> QED
    BY <1>1, <1>2, <1>3, <1>4, <1>5, <1>6 DEF Next

\* The types of every reachable state, with what they rest on: the stored history keeps no
\* selection twice and its index points to an entry.
THEOREM TypesInvariant == Spec => [](STypes /\ HTypes)
  <1>1. HistoryInit => STypes /\ HTypes
    BY InitTypes
  <1>2. STypes /\ HTypes /\ [Next]_vars => (STypes /\ HTypes)'
    BY NextTypes
  <1> QED
    BY <1>1, <1>2, PTL DEF Spec

\* The stored history has no selection twice: sync_file_history_state writes what
\* validate_file_history_entries has made unique, a merge included.
THEOREM NoSelectionTwice == Spec => []Distinct(hist.entries)
  <1>1. HTypes => Distinct(hist.entries)
    BY DEF HTypes
  <1> QED
    BY <1>1, TypesInvariant, PTL

\* The cached and the stored session, the history with its index and its bound, and the queue
\* stay well typed: what Kept, Validated and Merged return is a history again.
THEOREM HistoryTypeCorrect == Spec => []HistoryTypeOK
  <1>1. STypes /\ HTypes => HistoryTypeOK
    <2>1. SUFFICES ASSUME STypes, HTypes PROVE HistoryTypeOK
      OBVIOUS
    <2>2. \A s \in Seq(Entry) : Range(s) \subseteq Entry
      BY DEF Range
    <2>3. SessionTypeOK
      BY <2>1 DEF STypes, SessionTypeOK
    <2>4. /\ Range(hist.entries) \subseteq Entry /\ hist.index \in Nat /\ hist.version \in Nat
          /\ Len(hist.entries) <= MaxHistory
      BY <2>1, <2>2 DEF HTypes, HistoryShape
    <2>5. Len(hist.entries) > 0 => HasCurrent(hist)
      <3>1. hist.entries \in Seq(Entry)
        BY <2>1 DEF HTypes, HistoryShape
      <3>2. Len(hist.entries) > 0 => hist.entries # <<>>
        BY <3>1
      <3> QED
        BY <2>1, <3>2 DEF HTypes, HasCurrent
    <2>6. \A i \in DOMAIN ops : Range(ops[i].entries) \subseteq Entry
      <3>1. \A i \in DOMAIN ops : ops[i] \in Operation
        BY <2>1 DEF HTypes
      <3> QED
        BY <2>2, <3>1 DEF Operation
    <2>7. work.step \in {"recv", "read", "merge", "cache", "apply", "reply"} /\ edits \in 0..MaxEdits
      BY <2>1 DEF HTypes, WorkShape
    <2> QED
      BY <2>3, <2>4, <2>5, <2>6, <2>7 DEF HistoryTypeOK
  <1> QED
    BY <1>1, TypesInvariant, PTL

-------------------------------------------------------------------------------
(* The invariant, and who may delete.                                      *)

\* A session is deleted once: its row is gone, and only then its entry is removed.
Deletion ==
    /\ deleted => ~row.there
    /\ \A t \in Flushers : pc[t] = "remove" => deleted
    /\ \A t \in Flushers : pc[t] = "write" => snap[t].there

\* The worker has committed a history with a current entry, which stays until the session is deleted.
Committed ==
    At("cache") \/ At("apply") => (row.there \/ deleted) /\ (row.there => HasCurrent(hist))

\* What a flush writes: the files of a session, less those that it excludes.
StoredFiles(s) == s.inc \ s.exc \subseteq row.inc /\ s.exc = row.exc
SameData(s, r) == s.name = r.name /\ s.inc = r.inc /\ s.exc = r.exc

\* The session is made row first, and nothing is edited before it is cached.
Made ==
    /\ cache.there => row.there
    /\ \A t \in Flushers : pc[t] = "upsert" => row.there /\ snap[t].name <= names
    /\ ~cache.there => /\ names = 0 /\ saved = 0 /\ row.name = 0 /\ stored = 0
                       /\ \A t \in Flushers : pc[t] \notin {"flush", "write", "clear"}
    /\ At("apply") => cache.there

\* A snapshot is an earlier state of the cached session, as its revision tells.
Snapshots ==
    /\ row.name <= cache.name /\ cache.name <= names /\ stored <= cache.rev
    /\ \A t \in Flushers : pc[t] \in {"write", "clear"} =>
         /\ snap[t].rev <= cache.rev /\ snap[t].name <= cache.name
         /\ snap[t].rev = cache.rev => SameData(snap[t], cache)
    /\ \A t, u \in Flushers : pc[t] = "write" /\ pc[u] = "write" /\ snap[t].rev >= snap[u].rev =>
         snap[t].name >= snap[u].name

\* What was written last is in the row, and a clean entry has been written: by now, and by every
\* flush that may still write.
WrittenLast ==
    /\ \A t \in Flushers :
         /\ pc[t] = "write" /\ snap[t].rev >= stored => snap[t].name >= row.name
         /\ pc[t] = "clear" => snap[t].rev <= stored /\ snap[t].name <= row.name
    /\ cache.there /\ ~Dirty(cache) =>
         /\ row.name >= cache.name
         /\ \A t \in Flushers : pc[t] = "write" /\ snap[t].rev >= stored => SameData(snap[t], cache)

\* The worker writes the row before the cache.  Outside of that the row has the files of a clean
\* entry, and of one that is about to be called clean.
FilesStored ==
    ~At("cache") /\ ~At("apply") =>
        /\ \A t \in Flushers : pc[t] = "clear" /\ snap[t].rev = cache.rev => StoredFiles(cache)
        /\ cache.there /\ ~Dirty(cache) => StoredFiles(cache)

\* A rename is in the cache, in the snapshot, in the row, and only then answered.
Promised ==
    /\ \A t \in Tasks :
         /\ pc[t] = "flush" => wanted[t] <= cache.name
         /\ pc[t] = "write" => wanted[t] <= snap[t].name
         /\ pc[t] = "clear" => wanted[t] <= row.name
    /\ saved <= row.name

Serious == {"outdated", "replaced", "reloaded"}

FlushInv ==
    /\ excuses \cap Serious = {} /\ ~deleted => Made /\ Snapshots /\ WrittenLast /\ FilesStored
    /\ excuses = {} /\ ~deleted => Promised

IInv == STypes /\ HTypes /\ Deletion /\ Committed /\ AcknowledgedIsKept /\ FlushInv

-------------------------------------------------------------------------------
LEMMA InitIInv == HistoryInit => IInv
  <1> SUFFICES ASSUME HistoryInit PROVE IInv
    OBVIOUS
  <1>0. STypes /\ HTypes
    BY InitTypes
  <1>1. Idle /\ row \in {Fresh, NoSession} /\ cache = row /\ work = NoWork
    BY DEF HistoryInit, SessionInit, NothingQueued
  <1>2. /\ NoSession.name = 0 /\ NoSession.rev = 0 /\ ~Dirty(NoSession) /\ ~NoSession.there
        /\ NoSession.inc = {} /\ NoSession.exc = {}
        /\ Fresh.name = 0 /\ Fresh.rev = 0 /\ Fresh.there /\ Fresh.inc = {} /\ Fresh.exc = {}
    BY DEF NoSession, Fresh, Dirty
  <1>3. ~At("cache") /\ ~At("apply")
    BY <1>1, NoHistoryIs DEF At
  <1>4. /\ pc = [t \in Flushers |-> "idle"] /\ names = 0 /\ stored = 0 /\ saved = 0 /\ ~deleted
    BY <1>1 DEF Idle
  <1>5. row.name = 0 /\ row.rev = 0 /\ cache.name = 0 /\ cache.rev = 0
    BY <1>1, <1>2
  <1>6. Deletion /\ Committed /\ AcknowledgedIsKept
    BY <1>3, <1>4 DEF Deletion, Committed, AcknowledgedIsKept
  <1>7. Made /\ Snapshots
    BY <1>1, <1>3, <1>4, <1>5 DEF Made, Snapshots
  <1>8. WrittenLast /\ FilesStored
    <2>1. StoredFiles(cache)
      BY <1>1 DEF StoredFiles
    <2> QED
      BY <2>1, <1>4, <1>5 DEF WrittenLast, FilesStored
  <1>9. Promised
    BY <1>4, <1>5 DEF Promised, Flushers
  <1> QED
    BY <1>0, <1>6, <1>7, <1>8, <1>9 DEF IInv, FlushInv

-------------------------------------------------------------------------------
(* Deletion, the worker's commits and the answers. *)

\* What the steps of the session do to its existence.
LEMMA FlushStepDeletion ==
    ASSUME STypes, Deletion, NEW t \in Flushers, FlushStep(t)
    PROVE  Deletion' /\ row'.there = row.there /\ deleted' = deleted
  <1>1. CASE FlushSnapshot(t)
    BY <1>1 DEF FlushSnapshot, Deletion, Dirty, Goto, Hold, history, STypes
  <1>2. CASE FlushNothing(t)
    BY <1>2 DEF FlushNothing, Answer, Deletion, Goto, Hold, STypes
  <1>3. CASE FlushWrite(t)
    <2>1. snap[t].there /\ snap[t] \in Session /\ clock + 1 \in Nat /\ pc[t] = "write"
      BY <1>3 DEF FlushWrite, Deletion, STypes
    <2>2. row'.there = row.there
      <3>1. CASE row.there
        BY <1>3, <2>1, <3>1, WrittenIs DEF FlushWrite, UpdateSession
      <3>2. CASE ~row.there
        BY <1>3, <3>2 DEF FlushWrite, UpdateSession
      <3> QED
        BY <3>1, <3>2
    <2>3. (pc' = [pc EXCEPT ![t] = "clear"] /\ snap' = snap) \/ (pc' = [pc EXCEPT ![t] = "idle"] /\ snap' = [snap EXCEPT ![t] = NoSession])
      BY <1>3 DEF FlushWrite, Answer, Goto, Hold
    <2>4. deleted' = deleted
      BY <1>3 DEF FlushWrite
    <2> QED
      BY <2>2, <2>3, <2>4 DEF Deletion, STypes
  <1>4. CASE FlushError(t)
    BY <1>4 DEF FlushError, Answer, Deletion, Goto, Hold, STypes
  <1>5. CASE FlushClear(t)
    BY <1>5 DEF FlushClear, Answer, Deletion, Goto, Hold, STypes
  <1> QED
    BY <1>1, <1>2, <1>3, <1>4, <1>5 DEF FlushStep

\* The later steps of a command leave the row.
LEMMA CommandStepDeletion ==
    ASSUME STypes, Deletion, NEW t \in Tasks, CommandStep(t)
    PROVE  Deletion' /\ row' = row /\ deleted' = deleted
  <1>0. t \in Flushers
    BY DEF Flushers
  <1>1. CASE Upsert(t)
    BY <1>0, <1>1 DEF Upsert, Deletion, Goto, Hold, STypes, bounds
  <1>2. CASE GetInsert(t)
    BY <1>0, <1>2 DEF GetInsert, Deletion, Goto, Hold, STypes, bounds
  <1>3. CASE RemoveEntry(t)
    BY <1>0, <1>3 DEF RemoveEntry, Deletion, Goto, STypes, bounds, history
  <1> QED
    BY <1>1, <1>2, <1>3 DEF CommandStep

\* Only a create makes the row, and only a delete removes it, for good.
LEMMA BeginDeletion ==
    ASSUME STypes, Deletion, NEW t \in Tasks, Begin(t)
    PROVE  /\ Deletion' /\ (deleted => deleted')
           /\ row'.there = row.there \/ (~row.there /\ ~deleted) \/ (~row'.there /\ deleted')
  <1>0. t \in Flushers
    BY DEF Flushers
  <1>1. CASE Rename(t)
    BY <1>0, <1>1 DEF Rename, Deletion, Goto, Hold, STypes, history
  <1>2. CASE EditFields(t)
    BY <1>0, <1>2 DEF EditFields, Deletion, STypes, history
  <1>3. CASE UpdateRead(t)
    BY <1>0, <1>3 DEF UpdateRead, Deletion, Goto, Hold, STypes, history
  <1>4. CASE GetRead(t)
    BY <1>0, <1>4 DEF GetRead, Deletion, Goto, Hold, STypes, history, bounds
  <1>5. CASE Create(t)
    BY <1>0, <1>5 DEF Create, Deletion, Goto, Hold, STypes, history, bounds
  <1>6. CASE DeleteRow(t)
    BY <1>0, <1>6 DEF DeleteRow, Deletion, STypes, bounds, NoSession
  <1> QED
    BY <1>1, <1>2, <1>3, <1>4, <1>5, <1>6 DEF Begin

\* With the row goes the history, and with nothing else.
LEMMA CascadeKeeps ==
    ASSUME Committed, AcknowledgedIsKept, Cascade, deleted => deleted', deleted => ~row.there, deleted' => ~row'.there,
           row'.there = row.there \/ (~row.there /\ ~deleted) \/ (~row'.there /\ deleted')
    PROVE  Committed' /\ AcknowledgedIsKept'
  <1>1. UNCHANGED <<ops, work>> /\ (row'.there => hist' = hist)
    BY DEF Cascade
  <1>2. At("cache")' = At("cache") /\ At("apply")' = At("apply") /\ op' = op
    BY <1>1 DEF At, op
  <1>3. Committed'
    BY <1>1, <1>2 DEF Committed, HasCurrent
  <1>4. AcknowledgedIsKept'
    BY <1>1, <1>2 DEF AcknowledgedIsKept, Committed, Selections
  <1> QED
    BY <1>3, <1>4

LEMMA HistoryCommandDeletion ==
    ASSUME STypes, Deletion, Committed, AcknowledgedIsKept, HTypes, NEW t \in Tasks,
           HistoryBegin(t) \/ HistoryStep(t)
    PROVE  Deletion' /\ Committed' /\ AcknowledgedIsKept'
  <1>0. t \in Flushers
    BY DEF Flushers
  <1>1. /\ UNCHANGED <<row, snap, deleted, hist, work>>
        /\ \E p \in {"entries", "change", "wait", "idle"} : pc' = [pc EXCEPT ![t] = p]
        /\ ops' = ops \/ \E o : ops' = Append(ops, o)
    <2>1. CASE HistoryReadVersion(t)
      BY <2>1 DEF HistoryReadVersion, Goto, history
    <2>2. CASE HistoryReadEntries(t)
      BY <2>2 DEF HistoryReadEntries, Goto, history
    <2>3. CASE EditFiles(t)
      BY <2>3 DEF EditFiles, Enqueue, Goto, history
    <2>4. CASE EditNothing(t)
      BY <2>4 DEF EditNothing, Goto, history
    <2>5. CASE MoveIndex(t)
      BY <2>5 DEF MoveIndex, Enqueue, Goto, history
    <2>6. CASE PhoneMerge(t)
      BY <2>6 DEF PhoneMerge, Enqueue, Goto, history
    <2>7. CASE TimeOut(t)
      BY <2>7 DEF TimeOut, Goto, history
    <2> QED
      BY <2>1, <2>2, <2>3, <2>4, <2>5, <2>6, <2>7 DEF HistoryBegin, HistoryStep
  <1>2. Deletion'
    BY <1>0, <1>1 DEF Deletion, STypes
  <1>3. At("cache")' = At("cache") /\ At("apply")' = At("apply")
    BY <1>1 DEF At
  <1>4. Committed'
    BY <1>1, <1>3 DEF Committed, HasCurrent
  <1>5. AcknowledgedIsKept'
    <2>1. SUFFICES ASSUME At("cache"), row.there, Len(hist.entries) < MaxHistory
                   PROVE  op.wants \in Selections(hist) /\ op' = op
      BY <1>1, <1>3 DEF AcknowledgedIsKept, Selections
    <2>2. op.wants \in Selections(hist)
      BY <2>1 DEF AcknowledgedIsKept
    <2>3. ops # <<>> /\ ops \in Seq(Operation)
      BY <2>1 DEF HTypes, At
    <2>4. CASE ops' = ops
      BY <2>2, <2>4 DEF op
    <2>5. ASSUME NEW o, ops' = Append(ops, o) PROVE op' = op
      <3>1. ops \in Seq(Operation \cup {o}) /\ o \in Operation \cup {o} /\ Len(ops) >= 1
        BY <2>3
      <3>2. Append(ops, o)[1] = ops[1] /\ Head(Append(ops, o)) = Append(ops, o)[1] /\ Head(ops) = ops[1]
        BY <3>1
      <3> QED
        BY <2>5, <3>2 DEF op
    <2> QED
      BY <1>1, <2>2, <2>4, <2>5
  <1> QED
    BY <1>2, <1>4, <1>5

\* The worker commits what is asked for, or a merge that has it.
LEMMA CommitKeeps ==
    ASSUME STypes, HTypes, NEW s, Appliable(s), Commit(s), ops # <<>>, ops' = ops, row.there,
           Len(hist'.entries) < MaxHistory => op.wants \in SelectionsOf(s.entries)
    PROVE  Committed' /\ AcknowledgedIsKept'
  <1>1. /\ hist' \in HistoryShape /\ hist'.index < Len(hist'.entries)
        /\ Len(hist'.entries) < MaxHistory => SelectionsOf(hist'.entries) = SelectionsOf(s.entries)
        /\ row'.there /\ work'.step = "cache"
    BY CommitIs
  <1>2. op' = op
    BY DEF op
  <1>3. HasCurrent(hist')
    BY <1>1 DEF HasCurrent
  <1>4. Selections(hist') = SelectionsOf(hist'.entries)
    BY SelectionsAre
  <1>5. Committed'
    BY <1>1, <1>3 DEF Committed
  <1>6. AcknowledgedIsKept'
    BY <1>1, <1>2, <1>4 DEF AcknowledgedIsKept
  <1> QED
    BY <1>5, <1>6

LEMMA WorkerStepDeletion ==
    ASSUME STypes, HTypes, Deletion, Committed, AcknowledgedIsKept, WorkerStep
    PROVE  Deletion' /\ Committed' /\ AcknowledgedIsKept' /\ row'.there = row.there /\ deleted' = deleted
  <1>0. \A s : Step(s) => work'.step = s
    BY DEF Step, HTypes, WorkShape
  <1>1. CASE WorkerSync
    <2>1. UNCHANGED <<pc, snap, deleted, ops>> /\ ops # <<>>
      BY <1>1 DEF WorkerSync, history
    <2>2. CASE row.there /\ op.kind = "sync" /\ VersionMatches(op.version)
      <3>1. Commit(op)
        BY <1>1, <2>2 DEF WorkerSync
      <3>2. Committed' /\ AcknowledgedIsKept' /\ row'.there = row.there
        BY <2>1, <2>2, <3>1, OpIs, CommitKeeps, CommitIs
      <3> QED
        BY <2>1, <3>2 DEF Deletion
    <2>3. CASE ~(row.there /\ op.kind = "sync" /\ VersionMatches(op.version))
      <3>1. (Step("reply") \/ Step("read")) /\ UNCHANGED <<row, clock, hist>>
        BY <1>1, <2>3 DEF WorkerSync
      <3>2. ~At("cache")' /\ ~At("apply")'
        BY <3>1, <1>0 DEF At
      <3> QED
        BY <2>1, <3>1, <3>2 DEF Deletion, Committed, AcknowledgedIsKept
    <2> QED
      BY <2>2, <2>3
  <1>2. CASE WorkerRead
    <2>1. UNCHANGED sessionVars
      BY <1>2 DEF WorkerRead
    <2>2. work'.step \in {"merge", "reply"}
      BY <1>2 DEF WorkerRead, HTypes, WorkShape
    <2> QED
      BY <2>1, <2>2 DEF sessionVars, history, Deletion, Committed, AcknowledgedIsKept, At
  <1>3. CASE WorkerMerge
    <2>1. UNCHANGED <<pc, snap, deleted, ops>> /\ ops # <<>>
      BY <1>3 DEF WorkerMerge, HTypes, At, history
    <2>2. CASE row.there /\ VersionMatches(work.local.version)
      <3> DEFINE m == Merged(work.local, op)
      <3>1. Commit(m)
        BY <1>3, <2>2 DEF WorkerMerge
      <3>2. /\ Appliable(m)
            /\ Len(m.entries) < MaxHistory => SelectionsOf(op.entries) \subseteq SelectionsOf(m.entries)
            /\ Distinct(m.entries) /\ Len(m.entries) <= MaxHistory
        BY <2>1, OpIs, MergedIs DEF Appliable, HTypes, WorkShape
      <3> HIDE DEF m
      <3>a. Len(hist'.entries) = Len(m.entries)
        BY <3>1, <3>2, CommitIs
      <3>3. Len(hist'.entries) < MaxHistory => op.wants \in SelectionsOf(m.entries)
        BY <2>1, <3>2, <3>a, OpIs
      <3>4. Committed' /\ AcknowledgedIsKept' /\ row'.there = row.there
        BY <2>1, <2>2, <3>1, <3>2, <3>3, CommitKeeps, CommitIs
      <3> QED
        BY <2>1, <3>4 DEF Deletion
    <2>3. CASE ~(row.there /\ VersionMatches(work.local.version))
      <3>1. Step("reply") /\ UNCHANGED <<row, clock, hist>>
        BY <1>3, <2>3 DEF WorkerMerge
      <3>2. ~At("cache")' /\ ~At("apply")'
        BY <3>1, <1>0 DEF At
      <3> QED
        BY <2>1, <3>1, <3>2 DEF Deletion, Committed, AcknowledgedIsKept
    <2> QED
      BY <2>2, <2>3
  <1>4. CASE WorkerGet
    <2>1. UNCHANGED <<row, pc, snap, deleted, hist, ops>> /\ At("cache")
      BY <1>4 DEF WorkerGet, history
    <2>2. work'.step \in {"apply", "reply"}
      BY <1>4 DEF WorkerGet, HTypes, WorkShape
    <2>3. Committed'
      BY <2>1 DEF Committed, HasCurrent
    <2> QED
      BY <2>1, <2>2, <2>3 DEF Deletion, AcknowledgedIsKept, At
  <1>5. CASE WorkerApply
    <2>1. UNCHANGED <<row, pc, snap, deleted>> /\ work'.step = "reply"
      BY <1>0, <1>5 DEF WorkerApply, history
    <2> QED
      BY <2>1 DEF Deletion, AcknowledgedIsKept, Committed, At
  <1>6. CASE WorkerReply
    <2>1. UNCHANGED <<row, snap, deleted>> /\ work'.step = "recv"
      BY <1>6, NoHistoryIs DEF WorkerReply, history
    <2>2. pc' = pc \/ pc' = [pc EXCEPT ![op.by] = "idle"]
      BY <1>6 DEF WorkerReply, Goto
    <2> QED
      BY <2>1, <2>2 DEF Deletion, AcknowledgedIsKept, Committed, At, STypes
  <1> QED
    BY <1>1, <1>2, <1>3, <1>4, <1>5, <1>6 DEF WorkerStep

-------------------------------------------------------------------------------
(* The steps of a flush.                                                   *)

Core == Made /\ Snapshots /\ WrittenLast /\ FilesStored

\* The numbers that are compared.
LEMMA Numbers ==
    ASSUME STypes
    PROVE  /\ row.name \in Nat /\ cache.name \in Nat /\ row.rev \in Nat /\ cache.rev \in Nat
           /\ \A t \in Flushers : snap[t].name \in Nat /\ snap[t].rev \in Nat
           /\ \A t \in Tasks : wanted[t] \in Nat
           /\ names \in Nat /\ stored \in Nat /\ saved \in Nat
  <1>1. MaxNames \in Nat
    BY SessionAssumption DEF SessionAssumption
  <1>2. \A t \in Flushers : snap[t] \in Session
    BY DEF STypes
  <1> QED
    BY <1>1, <1>2 DEF STypes, Session

\* What most steps leave alone: the session's name in the row and in the cache, and the snapshots
\* that are being written.  An entry may be loaded; the worker may commit to the row.
Harmless ==
    /\ row'.name = row.name /\ row'.there = row.there
    /\ row' = row \/ At("cache")'
    /\ cache' = cache \/ (~cache.there /\ row.there /\ cache' = Loaded(row))
    /\ \A t \in Flushers :
         \/ pc'[t] \notin {"flush", "write", "clear", "upsert", "remove"}
         \/ pc'[t] = pc[t] /\ snap'[t] = snap[t]
    /\ UNCHANGED <<names, stored, saved, wanted>>
    /\ ~At("cache")' /\ ~At("apply")' => ~At("cache") /\ ~At("apply")
    /\ At("apply")' => cache'.there

\* A step that leaves cache and row and starts no flush disturbs nothing.
LEMMA HarmlessKeeps ==
    ASSUME STypes, Core, Harmless
    PROVE  Core' /\ (Promised => Promised')
  <1>0. row \in Session
    BY DEF STypes
  <1>1. CASE cache' = cache
    <2>1. Made'
      BY <1>1 DEF Core, Made, Harmless
    <2>2. Snapshots'
      BY <1>1 DEF Core, Snapshots, Harmless, SameData
    <2>3. WrittenLast'
      BY <1>1 DEF Core, WrittenLast, Harmless, SameData
    <2>4. FilesStored'
      <3>1. CASE At("cache")'
        BY <3>1 DEF FilesStored
      <3>2. CASE row' = row
        BY <1>1, <3>2 DEF Core, FilesStored, Harmless, StoredFiles
      <3> QED
        BY <3>1, <3>2 DEF Harmless
    <2>5. Promised => Promised'
      BY <1>1 DEF Promised, Harmless, Flushers
    <2> QED
      BY <2>1, <2>2, <2>3, <2>4, <2>5 DEF Core
  <1>2. CASE ~cache.there /\ row.there /\ cache' = Loaded(row)
    <2>1. /\ cache'.there = TRUE /\ cache'.name = row.name /\ cache'.rev = 0
          /\ cache'.inc = row.inc /\ cache'.exc = row.exc
      BY <1>0, <1>2, LoadedIs
    <2>2. /\ names = 0 /\ saved = 0 /\ row.name = 0 /\ stored = 0
          /\ \A t \in Flushers : pc[t] \notin {"flush", "write", "clear"}
      BY <1>2 DEF Core, Made
    <2>3. \A t \in Flushers : pc'[t] \notin {"flush", "write", "clear"}
      BY <2>2 DEF Harmless
    <2>4. Made'
      BY <1>2, <2>1, <2>2, <2>3 DEF Core, Made, Harmless
    <2>5. Snapshots' /\ WrittenLast'
      BY <2>1, <2>2, <2>3 DEF Snapshots, WrittenLast, Harmless
    <2>6. FilesStored'
      <3>1. CASE At("cache")'
        BY <3>1 DEF FilesStored
      <3>2. CASE row' = row
        BY <2>1, <2>3, <3>2 DEF FilesStored, StoredFiles
      <3> QED
        BY <3>1, <3>2 DEF Harmless
    <2>7. Promised'
      BY <2>1, <2>2, <2>3 DEF Promised, Harmless, Flushers
    <2> QED
      BY <2>4, <2>5, <2>6, <2>7 DEF Core
  <1> QED
    BY <1>1, <1>2 DEF Harmless

\* What a flush that ends does to the task, and to the names that have been acknowledged.
LEMMA AnswerIs ==
    ASSUME STypes, NEW t \in Flushers, Answer(t)
    PROVE  /\ pc'[t] = "idle" /\ \A u \in Flushers : u # t => pc'[u] = pc[u] /\ snap'[u] = snap[u]
           /\ \A u \in Tasks : u # t => wanted'[u] = wanted[u]
           /\ saved' = saved \/ (t \in Tasks /\ saved' = wanted[t])
  <1>1. pc' = [pc EXCEPT ![t] = "idle"] /\ snap' = [snap EXCEPT ![t] = NoSession]
    BY DEF Answer, Goto, Hold
  <1>2. pc'[t] = "idle" /\ \A u \in Flushers : u # t => pc'[u] = pc[u] /\ snap'[u] = snap[u]
    BY <1>1 DEF STypes
  <1>3. CASE t = Timer
    <2>1. saved' = saved /\ wanted' = wanted
      BY <1>3 DEF Answer
    <2>2. \A u \in Tasks : u # t => wanted'[u] = wanted[u]
      BY <2>1
    <2>3. saved' = saved
      BY <2>1
    <2> QED
      BY <1>2, <2>2, <2>3
  <1>4. CASE t # Timer
    <2>1. wanted' = [wanted EXCEPT ![t] = 0] /\ saved' = IF wanted[t] > saved THEN wanted[t] ELSE saved
      BY <1>4 DEF Answer
    <2>2. t \in Tasks
      BY <1>4 DEF Flushers
    <2>3. \A u \in Tasks : u # t => wanted'[u] = wanted[u]
      BY <2>1 DEF STypes
    <2>4. saved' = saved \/ (t \in Tasks /\ saved' = wanted[t])
      BY <2>1, <2>2
    <2> QED
      BY <1>2, <2>3, <2>4
  <1> QED
    BY <1>3, <1>4

\* A snapshot is the cached session of now.
LEMMA FlushSnapshotKeeps ==
    ASSUME STypes, Core, NEW t \in Flushers, FlushSnapshot(t), UNCHANGED work
    PROVE  Core' /\ (Promised => Promised')
  <1>1. /\ UNCHANGED <<row, cache, wanted, names, stored, saved>> /\ Dirty(cache) /\ cache.there
        /\ pc'[t] = "write" /\ snap'[t] = cache
        /\ \A u \in Flushers : u # t => pc'[u] = pc[u] /\ snap'[u] = snap[u]
        /\ t # Timer => pc[t] = "flush"
    BY DEF FlushSnapshot, Dirty, Goto, Hold, STypes, history, bounds
  <1>2. Made'
    BY <1>1 DEF Core, Made, At, FlushSnapshot
  <1>3. Snapshots'
    <2>1. row.name <= cache.name /\ cache.name <= names /\ stored <= cache.rev
      BY DEF Core, Snapshots
    <2>2. \A u \in Flushers : pc'[u] \in {"write", "clear"} =>
             /\ snap'[u].rev <= cache.rev /\ snap'[u].name <= cache.name
             /\ snap'[u].rev = cache.rev => SameData(snap'[u], cache)
      <3>1. TAKE u \in Flushers
      <3>2. CASE u = t
        BY <1>1, <3>2, Numbers DEF SameData
      <3>3. CASE u # t
        BY <1>1, <3>3 DEF Core, Snapshots
      <3> QED
        BY <3>2, <3>3
    <2>3. \A u, v \in Flushers : pc'[u] = "write" /\ pc'[v] = "write" /\ snap'[u].rev >= snap'[v].rev =>
             snap'[u].name >= snap'[v].name
      <3>1. SUFFICES ASSUME NEW u \in Flushers, NEW v \in Flushers, pc'[u] = "write", pc'[v] = "write",
                            snap'[u].rev >= snap'[v].rev
                     PROVE  snap'[u].name >= snap'[v].name
        OBVIOUS
      <3>2. CASE u = t
        <4>1. snap'[v].name <= cache.name /\ snap'[u].name = cache.name
          BY <1>1, <2>2, <3>1, <3>2
        <4>2. snap'[v].name \in Nat
          BY <1>1, Numbers
        <4> QED
          BY <4>1, <4>2, Numbers
      <3>3. CASE u # t /\ v = t
        <4>1. snap'[u].rev >= cache.rev /\ snap'[u].rev <= cache.rev /\ snap'[v].name = cache.name
          BY <1>1, <2>2, <3>1, <3>3
        <4>2. snap'[u].rev = cache.rev
          BY <1>1, <3>3, <4>1, Numbers
        <4>3. snap'[u].name = cache.name
          BY <2>2, <3>1, <4>2 DEF SameData
        <4> QED
          BY <4>1, <4>3, Numbers
      <3>4. CASE u # t /\ v # t
        BY <1>1, <3>1, <3>4 DEF Core, Snapshots
      <3> QED
        BY <3>2, <3>3, <3>4
    <2> QED
      BY <1>1, <2>1, <2>2, <2>3 DEF Snapshots, SameData
  <1>4. WrittenLast'
    <2>1. \A u \in Flushers :
             /\ pc'[u] = "write" /\ snap'[u].rev >= stored => snap'[u].name >= row.name
             /\ pc'[u] = "clear" => snap'[u].rev <= stored /\ snap'[u].name <= row.name
      <3>1. TAKE u \in Flushers
      <3>2. CASE u = t
        BY <1>1, <3>2, Numbers DEF Core, Snapshots
      <3>3. CASE u # t
        BY <1>1, <3>3 DEF Core, WrittenLast
      <3> QED
        BY <3>2, <3>3
    <2>2. Dirty(cache)'
      BY <1>1 DEF Dirty
    <2> QED
      BY <1>1, <2>1, <2>2 DEF WrittenLast
  <1>5. FilesStored'
    <2>1. At("cache")' = At("cache") /\ At("apply")' = At("apply") /\ Dirty(cache')
      BY <1>1 DEF At, Dirty
    <2>2. \A u \in Flushers : pc'[u] = "clear" => u # t /\ pc[u] = "clear" /\ snap'[u] = snap[u]
      BY <1>1
    <2> QED
      BY <1>1, <2>1, <2>2 DEF Core, FilesStored, StoredFiles
  <1>6. Promised => Promised'
    <2>1. SUFFICES ASSUME Promised PROVE Promised'
      OBVIOUS
    <2>2. \A u \in Tasks :
             /\ pc'[u] = "flush" => wanted[u] <= cache.name
             /\ pc'[u] = "write" => wanted[u] <= snap'[u].name
             /\ pc'[u] = "clear" => wanted[u] <= row.name
      <3>1. TAKE u \in Tasks
      <3>2. CASE u = t
        BY <1>1, <2>1, <3>2, SessionAssumption DEF Promised, SessionAssumption
      <3>3. CASE u # t
        BY <1>1, <2>1, <3>3 DEF Promised, Flushers
      <3> QED
        BY <3>2, <3>3
    <2> QED
      BY <1>1, <2>1, <2>2 DEF Promised
  <1> QED
    BY <1>2, <1>3, <1>4, <1>5, <1>6 DEF Core

\* A flush that is over.
Leaves(t) ==
    /\ pc'[t] = "idle" /\ \A u \in Flushers : u # t => pc'[u] = pc[u] /\ snap'[u] = snap[u]
    /\ \A u \in Tasks : u # t => wanted'[u] = wanted[u]
    /\ saved' = saved \/ (t \in Tasks /\ saved' = wanted[t])

\* A flush that is over disturbs nothing.
LEMMA LeaveKeeps ==
    ASSUME STypes, Core, NEW t \in Flushers, Leaves(t), cache.there,
           UNCHANGED <<row, cache, names, stored, work>>
    PROVE  Core'
  <1>1. Made'
    BY DEF Core, Made, At, Leaves
  <1>2. Snapshots'
    <2>1. \A u \in Flushers : pc'[u] \in {"write", "clear"} => pc'[u] = pc[u] /\ snap'[u] = snap[u]
      BY DEF Leaves
    <2> QED
      BY <2>1 DEF Core, Snapshots, SameData
  <1>3. WrittenLast'
    <2>1. \A u \in Flushers : pc'[u] \in {"write", "clear"} => pc'[u] = pc[u] /\ snap'[u] = snap[u]
      BY DEF Leaves
    <2> QED
      BY <2>1 DEF Core, WrittenLast, SameData
  <1>4. FilesStored'
    <2>1. \A u \in Flushers : pc'[u] = "clear" => pc'[u] = pc[u] /\ snap'[u] = snap[u]
      BY DEF Leaves
    <2>2. At("cache")' = At("cache") /\ At("apply")' = At("apply")
      BY DEF At
    <2> QED
      BY <2>1, <2>2 DEF Core, FilesStored, StoredFiles
  <1> QED
    BY <1>1, <1>2, <1>3, <1>4 DEF Core

LEMMA LeaveKeepsPromises ==
    ASSUME STypes, Promised, NEW t \in Flushers, Leaves(t), UNCHANGED <<row, cache>>,
           t \in Tasks => wanted[t] <= row.name
    PROVE  Promised'
  <1>1. \A u \in Tasks :
           /\ pc'[u] = "flush" => wanted'[u] <= cache.name
           /\ pc'[u] = "write" => wanted'[u] <= snap'[u].name
           /\ pc'[u] = "clear" => wanted'[u] <= row.name
    <2>1. TAKE u \in Tasks
    <2>2. CASE u = t
      BY <2>2 DEF Leaves
    <2>3. CASE u # t
      BY <2>3 DEF Leaves, Promised, Flushers
    <2> QED
      BY <2>2, <2>3
  <1>2. saved' <= row.name
    BY DEF Leaves, Promised
  <1> QED
    BY <1>1, <1>2 DEF Promised

LEMMA FlushNothingKeeps ==
    ASSUME STypes, Core, NEW t \in Flushers, FlushNothing(t), UNCHANGED work
    PROVE  Core' /\ (Promised => Promised')
  <1>1. /\ Answer(t) /\ UNCHANGED <<row, cache, stored, names>> /\ ~Dirty(cache) /\ pc[t] = "flush"
    BY DEF FlushNothing, bounds
  <1>2. Leaves(t)
    BY <1>1, AnswerIs DEF Leaves
  <1>3. cache.there
    BY <1>1 DEF Core, Made
  <1>4. Core'
    BY <1>1, <1>2, <1>3, LeaveKeeps
  <1>5. ASSUME Promised, t \in Tasks PROVE wanted[t] <= row.name
    <2>1. wanted[t] <= cache.name /\ row.name >= cache.name
      BY <1>1, <1>3, <1>5 DEF Promised, Core, WrittenLast
    <2> QED
      BY <1>5, <2>1, Numbers
  <1>6. Promised => Promised'
    BY <1>1, <1>2, <1>5, LeaveKeepsPromises
  <1> QED
    BY <1>4, <1>6

LEMMA FlushErrorKeeps ==
    ASSUME STypes, Core, NEW t \in Flushers, FlushError(t), UNCHANGED work
    PROVE  Core' /\ excuses' # {}
  <1>1. Answer(t) /\ UNCHANGED <<row, cache, stored, names>> /\ pc[t] = "write" /\ excuses' # {}
    BY DEF FlushError, Excuse
  <1>2. Leaves(t)
    BY <1>1, AnswerIs DEF Leaves
  <1>3. cache.there
    BY <1>1 DEF Core, Made
  <1> QED
    BY <1>1, <1>2, <1>3, LeaveKeeps

\* The flags are reset if the entry is still the one of the snapshot, which has been written.
LEMMA FlushClearKeeps ==
    ASSUME STypes, Core, NEW t \in Flushers, FlushClear(t), UNCHANGED work
    PROVE  Core' /\ (Promised => Promised')
  <1>1. /\ Answer(t) /\ UNCHANGED <<row, stored, names>> /\ pc[t] = "clear" /\ cache' = Cleaned(t)
    BY DEF FlushClear, bounds
  <1>2. Leaves(t)
    BY <1>1, AnswerIs DEF Leaves
  <1>3. cache.there /\ cache \in Session
    BY <1>1 DEF Core, Made, STypes
  <1>4. cache' = cache \/ snap[t].rev = cache.rev
    BY <1>1 DEF Cleaned
  <1>5. /\ cache'.there = cache.there /\ cache'.name = cache.name /\ cache'.rev = cache.rev
        /\ cache'.inc = cache.inc /\ cache'.exc = cache.exc
    BY <1>1, <1>3 DEF Cleaned, Session
  <1>6. \A u \in Flushers : pc'[u] \in {"write", "clear"} => u # t /\ pc'[u] = pc[u] /\ snap'[u] = snap[u]
    BY <1>2 DEF Leaves
  <1>7. Made'
    BY <1>1, <1>2, <1>3, <1>5 DEF Core, Made, At, Leaves
  <1>8. Snapshots'
    BY <1>1, <1>5, <1>6 DEF Core, Snapshots, SameData
  <1>9. snap[t].rev <= stored /\ snap[t].name <= row.name
    BY <1>1 DEF Core, WrittenLast
  <1>10. snap[t].rev = cache.rev => snap[t].name = cache.name
    BY <1>1 DEF Core, Snapshots, SameData
  <1>11. WrittenLast'
    <2>1. \A u \in Flushers :
             /\ pc'[u] = "write" /\ snap'[u].rev >= stored => snap'[u].name >= row.name
             /\ pc'[u] = "clear" => snap'[u].rev <= stored /\ snap'[u].name <= row.name
      BY <1>6 DEF Core, WrittenLast
    <2>2. CASE cache' = cache
      BY <1>1, <1>6, <2>1, <2>2 DEF Core, WrittenLast, SameData
    <2>3. CASE snap[t].rev = cache.rev
      <3>1. row.name >= cache.name
        BY <1>9, <1>10, <2>3
      <3>2. ASSUME NEW u \in Flushers, pc'[u] = "write", snap'[u].rev >= stored
            PROVE  SameData(snap'[u], cache')
        <4>1. pc[u] = "write" /\ snap'[u] = snap[u] /\ snap[u].rev <= cache.rev
          BY <1>6, <3>2 DEF Core, Snapshots
        <4>2. snap[u].rev = cache.rev
          BY <1>9, <2>3, <3>2, <4>1, Numbers
        <4>3. SameData(snap[u], cache)
          BY <4>1, <4>2 DEF Core, Snapshots
        <4> QED
          BY <1>5, <4>1, <4>3 DEF SameData
      <3> QED
        BY <1>1, <1>5, <2>1, <3>1, <3>2 DEF WrittenLast
    <2> QED
      BY <1>4, <2>2, <2>3
  <1>12. FilesStored'
    <2>1. At("cache")' = At("cache") /\ At("apply")' = At("apply")
      BY DEF At
    <2>2. ASSUME ~At("cache"), ~At("apply"), NEW u \in Flushers, pc'[u] = "clear", snap'[u].rev = cache'.rev
          PROVE  StoredFiles(cache)
      BY <1>5, <1>6, <2>2 DEF Core, FilesStored
    <2>3. ASSUME ~At("cache"), ~At("apply"), cache'.there /\ ~Dirty(cache') PROVE StoredFiles(cache)
      <3>1. CASE cache' = cache
        BY <2>3, <3>1 DEF Core, FilesStored
      <3>2. CASE snap[t].rev = cache.rev
        BY <1>1, <2>3, <3>2 DEF Core, FilesStored
      <3> QED
        BY <1>4, <3>1, <3>2
    <2>4. StoredFiles(cache)' <=> StoredFiles(cache)
      BY <1>1, <1>5 DEF StoredFiles
    <2>5. Dirty(cache)' <=> Dirty(cache')
      BY DEF Dirty
    <2> QED
      BY <2>1, <2>2, <2>3, <2>4, <2>5 DEF FilesStored
  <1>13. Promised => Promised'
    <2>1. SUFFICES ASSUME Promised PROVE Promised'
      OBVIOUS
    <2>2. t \in Tasks => wanted[t] <= row.name
      BY <1>1, <2>1 DEF Promised
    <2>3. \A u \in Tasks :
             /\ pc'[u] = "flush" => wanted'[u] <= cache'.name
             /\ pc'[u] = "write" => wanted'[u] <= snap'[u].name
             /\ pc'[u] = "clear" => wanted'[u] <= row.name
      <3>1. TAKE u \in Tasks
      <3>2. CASE u = t
        BY <1>2, <3>2 DEF Leaves
      <3>3. CASE u # t
        BY <1>2, <1>5, <2>1, <3>3 DEF Leaves, Promised, Flushers
      <3> QED
        BY <3>2, <3>3
    <2>4. saved' <= row.name
      BY <1>2, <2>1, <2>2 DEF Leaves, Promised
    <2> QED
      BY <1>1, <2>3, <2>4 DEF Promised
  <1> QED
    BY <1>7, <1>8, <1>11, <1>12, <1>13 DEF Core

\* The UPDATE: the row has the snapshot, or the flush was outdated.
LEMMA FlushWriteKeeps ==
    ASSUME STypes, Core, Deletion, NEW t \in Flushers, FlushWrite(t), UNCHANGED work,
           excuses' \cap Serious = {}
    PROVE  Core' /\ (Promised => Promised')
  <1>1. pc[t] = "write" /\ UNCHANGED <<cache, names>> /\ stored' = snap[t].rev
    BY DEF FlushWrite, bounds
  <1>2. cache.there /\ row.there
    BY <1>1 DEF Core, Made
  <1>3. pc' = [pc EXCEPT ![t] = "clear"] /\ UNCHANGED <<snap, wanted, saved>>
    BY <1>2 DEF FlushWrite, Goto
  <1>4. pc'[t] = "clear" /\ \A u \in Flushers : u # t => pc'[u] = pc[u]
    BY <1>3 DEF STypes
  <1>5. snap[t] \in Session /\ clock + 1 \in Nat /\ row' = Written(snap[t], clock + 1) /\ snap[t].there
    BY <1>1, <1>2 DEF STypes, FlushWrite, UpdateSession, Deletion
  <1>6. /\ row'.there /\ row'.name = snap[t].name /\ row'.exc = snap[t].exc
        /\ snap[t].inc \ snap[t].exc \subseteq row'.inc
    BY <1>5, WrittenIs
  <1>7. snap[t].rev >= stored
    <2>1. ~(snap[t].rev < stored)
      BY DEF FlushWrite, Excuse, Serious
    <2> QED
      BY <2>1, Numbers
  <1>8. row.name <= row'.name /\ row'.name <= cache.name /\ stored <= stored' /\ stored' <= cache.rev
    <2>1. snap[t].name >= row.name
      BY <1>1, <1>7 DEF Core, WrittenLast
    <2>2. snap[t].name <= cache.name /\ snap[t].rev <= cache.rev
      BY <1>1 DEF Core, Snapshots
    <2> QED
      BY <1>1, <1>6, <1>7, <2>1, <2>2, Numbers
  <1>9. row'.name \in Nat /\ stored' \in Nat
    BY <1>1, <1>6, Numbers
  <1>10. Made'
    BY <1>1, <1>2, <1>3, <1>4, <1>6 DEF Core, Made, At
  <1>11. Snapshots'
    <2>1. \A u \in Flushers : pc'[u] \in {"write", "clear"} => pc[u] \in {"write", "clear"}
      BY <1>1, <1>4
    <2>2. \A u \in Flushers : pc'[u] = "write" => pc[u] = "write"
      BY <1>4
    <2> QED
      BY <1>1, <1>3, <1>8, <2>1, <2>2 DEF Core, Snapshots, SameData
  <1>12. WrittenLast'
    <2>1. ASSUME NEW u \in Flushers, pc'[u] = "write", snap[u].rev >= stored'
          PROVE  snap[u].name >= row'.name
      <3>1. pc[u] = "write"
        BY <1>4, <2>1
      <3> QED
        BY <1>1, <1>6, <2>1, <3>1 DEF Core, Snapshots
    <2>2. ASSUME NEW u \in Flushers, pc'[u] = "clear"
          PROVE  snap[u].rev <= stored' /\ snap[u].name <= row'.name
      <3>1. CASE u = t
        BY <1>1, <1>6, <3>1, Numbers
      <3>2. CASE u # t
        <4>1. snap[u].rev <= stored /\ snap[u].name <= row.name
          BY <1>4, <2>2, <3>2 DEF Core, WrittenLast
        <4> QED
          BY <1>8, <1>9, <4>1, Numbers
      <3> QED
        BY <3>1, <3>2
    <2>3. ASSUME cache.there, ~Dirty(cache)
          PROVE  /\ row'.name >= cache.name
                 /\ \A u \in Flushers : pc'[u] = "write" /\ snap[u].rev >= stored' => SameData(snap[u], cache)
      <3>1. row.name >= cache.name
        BY <2>3 DEF Core, WrittenLast
      <3>2. ASSUME NEW u \in Flushers, pc'[u] = "write", snap[u].rev >= stored' PROVE SameData(snap[u], cache)
        <4>1. pc[u] = "write" /\ snap[u].rev >= stored
          BY <1>4, <1>8, <1>9, <3>2, Numbers
        <4> QED
          BY <2>3, <4>1 DEF Core, WrittenLast
      <3> QED
        BY <1>8, <1>9, <3>1, <3>2, Numbers
    <2> QED
      BY <1>1, <1>3, <2>1, <2>2, <2>3 DEF WrittenLast
  <1>13. FilesStored'
    <2>1. ASSUME SameData(snap[t], cache) PROVE StoredFiles(cache)'
      BY <1>1, <1>6, <2>1 DEF SameData, StoredFiles
    <2>2. ASSUME NEW u \in Flushers, pc'[u] = "clear", snap[u].rev = cache.rev
          PROVE  SameData(snap[t], cache)
      <3>1. CASE u = t
        BY <1>1, <2>2, <3>1 DEF Core, Snapshots
      <3>2. CASE u # t
        <4>1. snap[u].rev <= stored
          BY <1>4, <2>2, <3>2 DEF Core, WrittenLast
        <4>2. snap[t].rev = cache.rev
          BY <1>1, <1>7, <1>8, <2>2, <4>1, Numbers
        <4> QED
          BY <1>1, <4>2 DEF Core, Snapshots
      <3> QED
        BY <3>1, <3>2
    <2>3. ASSUME cache.there /\ ~Dirty(cache) PROVE SameData(snap[t], cache)
      BY <1>1, <1>7, <2>3 DEF Core, WrittenLast
    <2> QED
      BY <1>1, <1>3, <2>1, <2>2, <2>3 DEF FilesStored
  <1>14. Promised => Promised'
    <2>1. SUFFICES ASSUME Promised PROVE Promised'
      OBVIOUS
    <2>2. \A u \in Tasks :
             /\ pc'[u] = "flush" => wanted[u] <= cache.name
             /\ pc'[u] = "write" => wanted[u] <= snap[u].name
             /\ pc'[u] = "clear" => wanted[u] <= row'.name
      <3>1. TAKE u \in Tasks
      <3>2. CASE u = t
        BY <1>1, <1>4, <1>6, <2>1, <3>2 DEF Promised
      <3>3. CASE u # t
        <4>1. u \in Flushers
          BY DEF Flushers
        <4>2. pc'[u] = pc[u]
          BY <1>4, <3>3, <4>1
        <4>3. pc[u] = "clear" => wanted[u] <= row'.name
          BY <1>8, <1>9, <2>1, Numbers DEF Promised
        <4> QED
          BY <2>1, <4>2, <4>3 DEF Promised
      <3> QED
        BY <3>2, <3>3
    <2>3. saved <= row'.name
      BY <1>8, <1>9, <2>1, Numbers DEF Promised
    <2> QED
      BY <1>1, <1>3, <2>2, <2>3 DEF Promised
  <1> QED
    BY <1>10, <1>11, <1>12, <1>13, <1>14 DEF Core

-------------------------------------------------------------------------------
(* The commands.                                                           *)

\* An edit of the cached session: a new revision with a name that is not older, dirty unless it is
\* a copy of a clean one.
Edited ==
    /\ cache.there /\ cache'.there
    /\ cache'.name >= cache.name /\ cache'.name <= names' /\ cache'.rev = cache.rev + 1
    /\ \/ Dirty(cache')
       \/ ~Dirty(cache) /\ SameData(cache', cache) /\ UNCHANGED work
    /\ UNCHANGED <<row, stored, saved>>
    /\ \A t \in Flushers :
         /\ pc'[t] \in {"write", "clear"} => pc'[t] = pc[t] /\ snap'[t] = snap[t]
         /\ pc'[t] = "upsert" => pc[t] = "upsert" /\ snap'[t] = snap[t]
    /\ \A t \in Tasks :
         /\ pc'[t] = "flush" => (pc[t] = "flush" /\ wanted'[t] = wanted[t]) \/ wanted'[t] <= cache'.name
         /\ pc'[t] \in {"write", "clear"} => wanted'[t] = wanted[t]
    /\ names <= names'

\* An edit makes a later revision than every snapshot.
LEMMA EditKeeps ==
    ASSUME STypes, STypes', Core, Edited
    PROVE  Core' /\ (Promised => Promised')
  <1>0. /\ cache.there /\ cache'.there /\ row' = row /\ stored' = stored /\ saved' = saved
        /\ cache'.name >= cache.name /\ cache'.name <= names' /\ cache'.rev = cache.rev + 1
    BY DEF Edited
  <1>1. cache'.name \in Nat /\ names' \in Nat /\ cache'.rev \in Nat
    <2>1. MaxNames \in Nat
      BY SessionAssumption DEF SessionAssumption
    <2> QED
      BY <2>1 DEF STypes, Session
  <1>2. \A t \in Flushers : pc'[t] \in {"write", "clear"} => pc'[t] = pc[t] /\ snap'[t] = snap[t]
    BY DEF Edited
  <1>3. Made'
    <2>1. \A t \in Flushers : pc'[t] = "upsert" => row.there /\ snap'[t].name <= names'
      <3>1. TAKE t \in Flushers
      <3>2. SUFFICES ASSUME pc'[t] = "upsert" PROVE row.there /\ snap'[t].name <= names'
        OBVIOUS
      <3>3. snap'[t] = snap[t] /\ row.there /\ snap[t].name <= names /\ names <= names'
        BY <3>2 DEF Edited, Core, Made
      <3> QED
        BY <1>1, <3>3, Numbers
    <2> QED
      BY <1>0, <2>1 DEF Core, Made
  <1>4. Snapshots'
    <2>1. row.name <= cache'.name /\ stored <= cache'.rev
      BY <1>0, <1>1, Numbers DEF Core, Snapshots
    <2>2. \A t \in Flushers : pc'[t] \in {"write", "clear"} =>
             snap'[t].rev <= cache'.rev /\ snap'[t].name <= cache'.name /\ snap'[t].rev # cache'.rev
      <3>1. TAKE t \in Flushers
      <3>2. SUFFICES ASSUME pc'[t] \in {"write", "clear"}
                     PROVE  snap'[t].rev <= cache'.rev /\ snap'[t].name <= cache'.name /\ snap'[t].rev # cache'.rev
        OBVIOUS
      <3>3. snap'[t] = snap[t] /\ snap[t].rev <= cache.rev /\ snap[t].name <= cache.name
        BY <1>2, <3>2 DEF Core, Snapshots
      <3> QED
        BY <1>0, <1>1, <3>3, Numbers
    <2>3. \A t, u \in Flushers : pc'[t] = "write" /\ pc'[u] = "write" /\ snap'[t].rev >= snap'[u].rev =>
             snap'[t].name >= snap'[u].name
      BY <1>2 DEF Core, Snapshots
    <2> QED
      BY <1>0, <2>1, <2>2, <2>3 DEF Snapshots
  <1>5. WrittenLast'
    <2>1. \A t \in Flushers :
             /\ pc'[t] = "write" /\ snap'[t].rev >= stored => snap'[t].name >= row.name
             /\ pc'[t] = "clear" => snap'[t].rev <= stored /\ snap'[t].name <= row.name
      BY <1>2 DEF Core, WrittenLast
    <2>2. CASE Dirty(cache')
      BY <1>0, <2>1, <2>2 DEF WrittenLast
    <2>3. CASE ~Dirty(cache) /\ SameData(cache', cache)
      <3>1. row.name >= cache'.name
        BY <1>0, <2>3 DEF Core, WrittenLast, SameData
      <3>2. \A t \in Flushers : pc'[t] = "write" /\ snap'[t].rev >= stored => SameData(snap'[t], cache')
        BY <1>0, <1>2, <2>3 DEF Core, WrittenLast, SameData
      <3> QED
        BY <1>0, <2>1, <3>1, <3>2 DEF WrittenLast
    <2> QED
      BY <2>2, <2>3 DEF Edited
  <1>6. FilesStored'
    <2>1. \A t \in Flushers : pc'[t] = "clear" => snap'[t].rev # cache'.rev
      <3>1. TAKE t \in Flushers
      <3>2. SUFFICES ASSUME pc'[t] = "clear" PROVE snap'[t].rev # cache'.rev
        OBVIOUS
      <3>3. snap'[t] = snap[t] /\ snap[t].rev <= cache.rev
        BY <1>2, <3>2 DEF Core, Snapshots
      <3> QED
        BY <1>0, <3>3, Numbers
    <2>2. CASE Dirty(cache')
      BY <2>1, <2>2 DEF FilesStored
    <2>3. CASE ~Dirty(cache) /\ SameData(cache', cache) /\ UNCHANGED work
      <3>1. At("cache")' = At("cache") /\ At("apply")' = At("apply")
        BY <2>3 DEF At
      <3>2. ~At("cache") /\ ~At("apply") => StoredFiles(cache)
        BY <1>0, <2>3 DEF Core, FilesStored
      <3>3. StoredFiles(cache) => StoredFiles(cache)'
        BY <1>0, <2>3 DEF StoredFiles, SameData
      <3> QED
        BY <2>1, <3>1, <3>2, <3>3 DEF FilesStored
    <2> QED
      BY <2>2, <2>3 DEF Edited
  <1>7. Promised => Promised'
    <2>1. SUFFICES ASSUME Promised PROVE Promised'
      OBVIOUS
    <2>2. \A t \in Tasks :
             /\ pc'[t] = "flush" => wanted'[t] <= cache'.name
             /\ pc'[t] = "write" => wanted'[t] <= snap'[t].name
             /\ pc'[t] = "clear" => wanted'[t] <= row.name
      <3>1. TAKE t \in Tasks
      <3>2. t \in Flushers
        BY DEF Flushers
      <3>3. pc'[t] = "flush" => wanted'[t] <= cache'.name
        <4>1. CASE pc[t] = "flush" /\ wanted'[t] = wanted[t]
          BY <1>0, <1>1, <2>1, <4>1, Numbers DEF Promised
        <4> QED
          BY <4>1 DEF Edited
      <3>4. pc'[t] = "write" => wanted'[t] <= snap'[t].name
        BY <1>2, <2>1, <3>2 DEF Promised, Edited
      <3>5. pc'[t] = "clear" => wanted'[t] <= row.name
        BY <1>2, <2>1, <3>2 DEF Promised, Edited
      <3> QED
        BY <3>3, <3>4, <3>5
    <2> QED
      BY <1>0, <2>1, <2>2 DEF Promised
  <1> QED
    BY <1>3, <1>4, <1>5, <1>6, <1>7 DEF Core

\* A session that has not been cached: it has no name yet, and nobody flushes it.
Unnamed ==
    /\ UNCHANGED <<names, saved, stored>> /\ row'.name = 0 /\ cache'.name = 0
    /\ cache'.there => row'.there
    /\ \A t \in Flushers :
         /\ pc'[t] \notin {"flush", "write", "clear"}
         /\ pc'[t] = "upsert" => row'.there /\ snap'[t].name = 0
    /\ UNCHANGED work
    /\ cache'.there /\ ~Dirty(cache') => StoredFiles(cache)'

LEMMA UnnamedKeeps ==
    ASSUME STypes, STypes', Core, ~cache.there, Unnamed
    PROVE  Core' /\ Promised'
  <1>1. names' = 0 /\ saved' = 0 /\ stored' = 0 /\ row'.name = 0 /\ cache'.name = 0
    BY DEF Core, Made, Unnamed
  <1>2. cache'.rev \in Nat
    BY DEF STypes, Session
  <1>3. ~At("apply")'
    BY DEF Core, Made, Unnamed, At
  <1>4. Made'
    BY <1>1, <1>3 DEF Made, Unnamed
  <1>5. Snapshots'
    BY <1>1, <1>2 DEF Snapshots, Unnamed
  <1>6. WrittenLast'
    BY <1>1 DEF WrittenLast, Unnamed
  <1>7. FilesStored'
    <2>1. Dirty(cache)' <=> Dirty(cache')
      BY DEF Dirty
    <2> QED
      BY <2>1 DEF FilesStored, Unnamed
  <1>8. Promised'
    BY <1>1 DEF Promised, Unnamed, Flushers
  <1> QED
    BY <1>4, <1>5, <1>6, <1>7, <1>8 DEF Core

\* What is known of a session that is not cached.
LEMMA AbsentIs ==
    ASSUME STypes, Core, ~cache.there
    PROVE  /\ names = 0 /\ saved = 0 /\ stored = 0 /\ row.name = 0 /\ cache.name = 0
           /\ \A t \in Flushers :
                /\ pc[t] \notin {"flush", "write", "clear"}
                /\ pc[t] = "upsert" => row.there /\ snap[t].name = 0
  <1>1. /\ names = 0 /\ saved = 0 /\ stored = 0 /\ row.name = 0
        /\ \A t \in Flushers : pc[t] \notin {"flush", "write", "clear"}
    BY DEF Core, Made
  <1>2. cache.name = 0
    <2>1. cache.name <= names /\ cache.name \in Nat
      BY Numbers DEF Core, Snapshots
    <2> QED
      BY <1>1, <2>1
  <1>3. \A t \in Flushers : pc[t] = "upsert" => row.there /\ snap[t].name = 0
    <2>1. TAKE t \in Flushers
    <2>2. SUFFICES ASSUME pc[t] = "upsert" PROVE row.there /\ snap[t].name = 0
      OBVIOUS
    <2>3. row.there /\ snap[t].name <= names /\ snap[t].name \in Nat
      BY <2>2, Numbers DEF Core, Made
    <2> QED
      BY <1>1, <2>3
  <1> QED
    BY <1>1, <1>2, <1>3

LEMMA RenameKeeps ==
    ASSUME STypes, STypes', Core, NEW t \in Tasks, Rename(t) \/ EditFields(t), UNCHANGED work
    PROVE  Core' /\ (Promised => Promised')
  <1>0. t \in Flushers
    BY DEF Flushers
  <1>1. PICK n : cache' = [cache EXCEPT !.name = names + 1, !.at = n, !.dirtyFields = TRUE, !.rev = @ + 1]
    BY DEF Rename, EditFields
  <1>2. cache \in Session /\ cache.there /\ names' = names + 1 /\ UNCHANGED <<row, snap, stored, saved>>
    BY DEF STypes, Rename, EditFields, history
  <1>3. /\ cache'.there /\ cache'.name = names + 1 /\ cache'.rev = cache.rev + 1 /\ cache'.dirtyFields
    BY <1>1, <1>2 DEF Session
  <1>4. Dirty(cache')
    BY <1>3 DEF Dirty
  <1>5. cache.name <= names + 1 /\ names <= names + 1
    BY Numbers DEF Core, Snapshots
  <1>6. /\ pc' = pc \/ pc' = [pc EXCEPT ![t] = "flush"]
        /\ wanted' = wanted \/ (wanted' = [wanted EXCEPT ![t] = names + 1] /\ pc' = [pc EXCEPT ![t] = "flush"])
        /\ pc' = [pc EXCEPT ![t] = "flush"] => wanted' = [wanted EXCEPT ![t] = names + 1] \/ pc' = pc
    BY DEF Rename, EditFields, Goto
  <1>7. \A u \in Flushers :
           /\ pc'[u] \in {"write", "clear"} => pc'[u] = pc[u] /\ snap'[u] = snap[u]
           /\ pc'[u] = "upsert" => pc[u] = "upsert" /\ snap'[u] = snap[u]
    BY <1>0, <1>2, <1>6 DEF STypes
  <1>8. \A u \in Tasks :
           /\ pc'[u] = "flush" => (pc[u] = "flush" /\ wanted'[u] = wanted[u]) \/ wanted'[u] <= cache'.name
           /\ pc'[u] \in {"write", "clear"} => wanted'[u] = wanted[u]
    <2>1. TAKE u \in Tasks
    <2>2. u \in Flushers
      BY DEF Flushers
    <2>3. CASE u # t
      <3>1. pc'[u] = pc[u] /\ wanted'[u] = wanted[u]
        BY <1>6, <2>2, <2>3 DEF STypes
      <3> QED
        BY <3>1
    <2>4. CASE u = t
      <3>1. CASE Rename(t)
        <4>1. pc'[t] = "flush" /\ wanted'[t] = names + 1
          BY <1>0, <3>1 DEF Rename, Goto, STypes
        <4>2. names + 1 <= cache'.name
          BY <1>3, Numbers
        <4> QED
          BY <2>4, <4>1, <4>2
      <3>2. CASE EditFields(t)
        BY <3>2 DEF EditFields
      <3> QED
        BY <3>1, <3>2
    <2> QED
      BY <2>3, <2>4
  <1>9. Edited
    <2>1. cache'.name >= cache.name /\ cache'.name <= names' /\ names <= names'
      BY <1>2, <1>3, <1>5, Numbers
    <2> QED
      BY <1>2, <1>3, <1>4, <1>7, <1>8, <2>1 DEF Edited
  <1> QED
    BY <1>9, EditKeeps

LEMMA UpdateReadKeeps ==
    ASSUME STypes, STypes', Core, NEW t \in Tasks, UpdateRead(t), UNCHANGED work
    PROVE  Core' /\ (Promised => Promised')
  <1>0. t \in Flushers
    BY DEF Flushers
  <1>1. /\ UNCHANGED <<row, cache, wanted, stored, saved>> /\ names' = names + 1 /\ cache.there
        /\ pc'[t] = "upsert" /\ snap'[t] = [cache EXCEPT !.name = names + 1]
        /\ \A u \in Flushers : u # t => pc'[u] = pc[u] /\ snap'[u] = snap[u]
    BY <1>0 DEF UpdateRead, STypes, Goto, Hold, history
  <1>2. snap'[t].name = names + 1
    BY <1>1 DEF STypes, Session
  <1>3. Made'
    <2>1. \A u \in Flushers : pc'[u] = "upsert" => row.there /\ snap'[u].name <= names'
      <3>1. TAKE u \in Flushers
      <3>2. CASE u = t
        <4>1. row.there
          BY <1>1 DEF Core, Made
        <4>2. snap'[u].name = names'
          BY <1>1, <1>2, <3>2
        <4> QED
          BY <1>1, <4>1, <4>2, Numbers
      <3>3. CASE u # t
        <4>1. pc[u] = "upsert" => row.there /\ snap[u].name <= names /\ snap[u].name \in Nat
          BY Numbers DEF Core, Made
        <4> QED
          BY <1>1, <3>3, <4>1, Numbers
      <3> QED
        BY <3>2, <3>3
    <2>2. At("apply")' = At("apply")
      BY DEF At
    <2> QED
      BY <1>1, <2>1, <2>2 DEF Core, Made
  <1>4. \A u \in Flushers : pc'[u] \in {"write", "clear"} => pc'[u] = pc[u] /\ snap'[u] = snap[u]
    BY <1>1
  <1>5. Snapshots'
    <2>1. cache.name <= names'
      BY <1>1, Numbers DEF Core, Snapshots
    <2> QED
      BY <1>1, <1>4, <2>1 DEF Core, Snapshots, SameData
  <1>6. WrittenLast'
    BY <1>1, <1>4 DEF Core, WrittenLast, SameData
  <1>7. FilesStored'
    <2>1. At("cache")' = At("cache") /\ At("apply")' = At("apply")
      BY DEF At
    <2> QED
      BY <1>1, <1>4, <2>1 DEF Core, FilesStored, StoredFiles
  <1>8. Promised => Promised'
    <2>1. \A u \in Tasks : pc'[u] \in {"flush", "write", "clear"} => pc'[u] = pc[u] /\ snap'[u] = snap[u]
      BY <1>1 DEF Flushers
    <2> QED
      BY <1>1, <2>1 DEF Promised
  <1> QED
    BY <1>3, <1>5, <1>6, <1>7, <1>8 DEF Core

\* upsert_session replaces an entry, and is an excuse if that was dirty in another way.
LEMMA UpsertKeeps ==
    ASSUME STypes, STypes', Core, NEW t \in Tasks, Upsert(t), UNCHANGED work,
           excuses' \cap Serious = {}
    PROVE  Core' /\ (Promised => Promised')
  <1>0. t \in Flushers
    BY DEF Flushers
  <1>1. /\ pc[t] = "upsert" /\ cache' = Upserted(snap[t]) /\ snap[t] \in Session
        /\ UNCHANGED <<row, wanted, stored, saved, names>>
        /\ pc'[t] = "idle" /\ \A u \in Flushers : u # t => pc'[u] = pc[u] /\ snap'[u] = snap[u]
    BY <1>0 DEF Upsert, STypes, Goto, Hold, bounds
  <1>2. row.there /\ snap[t].name <= names
    BY <1>0, <1>1 DEF Core, Made
  <1> DEFINE f == ~cache.there \/ cache.name # snap[t].name
             g == cache.there /\ <<cache.inc, cache.exc>> # <<snap[t].inc, snap[t].exc>>
             r == IF cache.there THEN cache.rev + 1 ELSE 1
  <1>3. /\ cache'.there = TRUE /\ cache'.name = snap[t].name /\ cache'.inc = snap[t].inc
        /\ cache'.exc = snap[t].exc /\ cache'.dirtyFields = f /\ cache'.dirtyFiles = g /\ cache'.rev = r
    <2>1. cache' = [snap[t] EXCEPT !.there = TRUE, !.dirtyFields = f, !.dirtyFiles = g, !.rev = r]
      BY <1>1 DEF Upserted
    <2> HIDE DEF f, g, r
    <2> QED
      BY <1>1, <2>1 DEF Session
  <1>4. CASE cache.there
    <2>1. /\ ~(cache.dirtyFields /\ ~f) /\ ~(cache.dirtyFiles /\ ~g) /\ ~g /\ ~(cache.name > cache'.name)
      <3>1. ~(\/ cache.dirtyFields /\ ~cache'.dirtyFields
              \/ cache.dirtyFiles /\ ~cache'.dirtyFiles
              \/ cache'.dirtyFiles
              \/ cache.name > cache'.name)
        BY <1>4 DEF Upsert, Excuse, Serious
      <3> HIDE DEF f, g
      <3> QED
        BY <1>3, <3>1
    <2>2. cache'.name >= cache.name /\ cache'.name <= names'
      BY <1>0, <1>1, <1>2, <1>3, <2>1, Numbers
    <2>3. Dirty(cache') \/ (~Dirty(cache) /\ SameData(cache', cache))
      <3>1. CASE f
        BY <1>3, <3>1 DEF Dirty
      <3>2. CASE ~f
        <4>1. ~cache.dirtyFields /\ ~cache.dirtyFiles
          BY <2>1, <3>2
        <4>2. cache.name = snap[t].name /\ cache.inc = snap[t].inc /\ cache.exc = snap[t].exc
          BY <1>4, <2>1, <3>2
        <4> QED
          BY <1>3, <4>1, <4>2 DEF Dirty, SameData
      <3> QED
        BY <3>1, <3>2
    <2>4. \A u \in Flushers :
             /\ pc'[u] \in {"write", "clear"} => pc'[u] = pc[u] /\ snap'[u] = snap[u]
             /\ pc'[u] = "upsert" => pc[u] = "upsert" /\ snap'[u] = snap[u]
      BY <1>1
    <2>5. \A u \in Tasks : pc'[u] = "flush" => pc[u] = "flush"
      BY <1>1 DEF Flushers
    <2>6. cache'.rev = cache.rev + 1 /\ names <= names'
      BY <1>1, <1>3, <1>4, Numbers
    <2>7. Edited
      BY <1>1, <1>3, <1>4, <2>2, <2>3, <2>4, <2>5, <2>6 DEF Edited
    <2> QED
      BY <2>7, EditKeeps
  <1>5. CASE ~cache.there
    <2>1. Dirty(cache')
      BY <1>3, <1>5 DEF Dirty
    <2>2. \A u \in Flushers :
             /\ pc'[u] \notin {"flush", "write", "clear"}
             /\ pc'[u] = "upsert" => row'.there /\ snap'[u].name = 0
      BY <1>1, <1>5, AbsentIs
    <2>3. cache'.name = 0
      BY <1>0, <1>1, <1>3, <1>5, AbsentIs
    <2>4. Unnamed
      BY <1>1, <1>2, <1>5, <2>1, <2>2, <2>3, AbsentIs DEF Unnamed
    <2> QED
      BY <1>5, <2>4, UnnamedKeeps
  <1> QED
    BY <1>4, <1>5

\* A load of the row, and the entry it makes.
LEMMA GetKeeps ==
    ASSUME STypes, STypes', Core, NEW t \in Tasks, GetRead(t) \/ GetInsert(t), UNCHANGED work,
           excuses' \cap Serious = {}
    PROVE  Core' /\ (Promised => Promised')
  <1>0. t \in Flushers /\ row \in Session
    BY DEF Flushers, STypes
  <1>1. /\ UNCHANGED <<row, stored, saved, names>>
        /\ pc'[t] \in {"insert", "idle"} /\ \A u \in Flushers : u # t => pc'[u] = pc[u] /\ snap'[u] = snap[u]
    BY <1>0 DEF GetRead, GetInsert, STypes, Goto, Hold, bounds, history
  <1>2. ~cache.there /\ (cache' = cache \/ cache' = Loaded(row))
    <2>1. CASE GetRead(t)
      BY <2>1 DEF GetRead
    <2>2. CASE GetInsert(t)
      <3>1. ~(cache.there \/ Loaded(row) # snap[t])
        BY <2>2 DEF GetInsert, Excuse, Serious
      <3> QED
        BY <2>2, <3>1 DEF GetInsert
    <2> QED
      BY <2>1, <2>2
  <1>3. \A u \in Flushers :
           /\ pc'[u] \notin {"flush", "write", "clear"}
           /\ pc'[u] = "upsert" => row'.there /\ snap'[u].name = 0
    BY <1>1, <1>2, AbsentIs
  <1>4. cache'.name = 0 /\ (cache'.there => row.there) /\ (cache'.there => StoredFiles(cache)')
    <2>1. CASE cache' = cache
      BY <1>2, <2>1, AbsentIs
    <2>2. CASE cache' = Loaded(row)
      BY <1>0, <1>1, <1>2, <2>2, AbsentIs, LoadedIs DEF StoredFiles
    <2> QED
      BY <1>2, <2>1, <2>2
  <1>5. Unnamed
    BY <1>1, <1>2, <1>3, <1>4, AbsentIs DEF Unnamed
  <1> QED
    BY <1>2, <1>5, UnnamedKeeps

\* A session that is made, row first.
LEMMA CreateKeeps ==
    ASSUME STypes, STypes', Core, NEW t \in Tasks, Create(t), UNCHANGED work
    PROVE  Core' /\ (Promised => Promised')
  <1>0. t \in Flushers
    BY DEF Flushers
  <1>1. /\ UNCHANGED <<cache, stored, saved, names>> /\ ~cache.there
        /\ row' = [Fresh EXCEPT !.at = clock + 1] /\ snap'[t] = row'
        /\ \A u \in Flushers : u # t => pc'[u] = pc[u] /\ snap'[u] = snap[u]
        /\ pc'[t] = "upsert"
    BY <1>0 DEF Create, STypes, Goto, Hold, bounds, history
  <1>2. row'.there /\ row'.name = 0
    BY <1>1 DEF Fresh, NoSession
  <1>3. \A u \in Flushers :
           /\ pc'[u] \notin {"flush", "write", "clear"}
           /\ pc'[u] = "upsert" => row'.there /\ snap'[u].name = 0
    BY <1>1, <1>2, AbsentIs
  <1>4. Unnamed
    BY <1>1, <1>2, <1>3, AbsentIs DEF Unnamed
  <1> QED
    BY <1>1, <1>4, UnnamedKeeps

-------------------------------------------------------------------------------
(* The worker, the end of the process, and the theorems.                   *)

\* The commands on the history leave row and flushes alone.
LEMMA HistoryCommandKeeps ==
    ASSUME STypes, HTypes, Core, NEW t \in Tasks, HistoryBegin(t) \/ HistoryStep(t)
    PROVE  Core' /\ (Promised => Promised')
  <1>0. t \in Flushers
    BY DEF Flushers
  <1>1. /\ UNCHANGED <<row, snap, names, stored, saved, wanted, work>>
        /\ \E p \in {"entries", "change", "wait", "idle"} : pc' = [pc EXCEPT ![t] = p]
        /\ cache' = cache \/ (~cache.there /\ row.there /\ cache' = Loaded(row))
    <2>1. CASE HistoryReadVersion(t)
      BY <2>1 DEF HistoryReadVersion, Goto, history, bounds
    <2>2. CASE HistoryReadEntries(t)
      BY <2>2 DEF HistoryReadEntries, Goto, history, bounds
    <2>3. CASE EditFiles(t)
      BY <2>3 DEF EditFiles, Enqueue, Goto, history, bounds, Filled
    <2>4. CASE EditNothing(t)
      BY <2>4 DEF EditNothing, Goto, history, bounds, Filled
    <2>5. CASE MoveIndex(t)
      BY <2>5 DEF MoveIndex, Enqueue, Goto, history, bounds
    <2>6. CASE PhoneMerge(t)
      BY <2>6 DEF PhoneMerge, Enqueue, Goto, history, bounds
    <2>7. CASE TimeOut(t)
      BY <2>7 DEF TimeOut, Goto, history, bounds
    <2> QED
      BY <2>1, <2>2, <2>3, <2>4, <2>5, <2>6, <2>7 DEF HistoryBegin, HistoryStep
  <1>2. \A u \in Flushers :
           \/ pc'[u] \notin {"flush", "write", "clear", "upsert", "remove"}
           \/ pc'[u] = pc[u] /\ snap'[u] = snap[u]
    BY <1>0, <1>1 DEF STypes
  <1>3. At("cache")' = At("cache") /\ At("apply")' = At("apply")
    BY <1>1 DEF At
  <1>4. At("apply")' => cache'.there
    <2>1. At("apply") => cache.there
      BY DEF Core, Made
    <2> QED
      BY <1>1, <1>3, <2>1
  <1>5. Harmless
    BY <1>1, <1>2, <1>3, <1>4 DEF Harmless
  <1> QED
    BY <1>5, HarmlessKeeps

\* The worker up to the commit: the row may get other files, and then the cache is not yet told.
LEMMA WorkerCommitKeeps ==
    ASSUME STypes, HTypes, Core, WorkerSync \/ WorkerRead \/ WorkerMerge
    PROVE  Core' /\ (Promised => Promised')
  <1>1. /\ UNCHANGED <<cache, pc, snap, wanted, names, stored, saved>>
        /\ ~At("cache") /\ ~At("apply")
    BY DEF WorkerSync, WorkerRead, WorkerMerge, At, history, bounds, sessionVars
  <1>2. /\ row'.name = row.name /\ row'.there = row.there /\ (row' = row \/ At("cache")')
        /\ work'.step # "apply"
    <2>0. ASSUME NEW s, Appliable(s), Commit(s)
          PROVE  row'.name = row.name /\ row'.there = row.there /\ work'.step = "cache"
      BY <2>0, CommitIs
    <2>1. CASE WorkerSync
      <3>1. ops # <<>>
        BY <2>1 DEF WorkerSync
      <3>2. CASE Commit(op)
        BY <2>0, <3>1, <3>2, OpIs DEF At
      <3>3. CASE ~Commit(op)
        <4>1. (Step("reply") \/ Step("read")) /\ row' = row
          BY <2>1, <3>3 DEF WorkerSync
        <4> QED
          BY <4>1, StepTypes
      <3> QED
        BY <3>2, <3>3
    <2>2. CASE WorkerRead
      BY <2>2 DEF WorkerRead, sessionVars, HTypes, WorkShape
    <2>3. CASE WorkerMerge
      <3>1. ops # <<>>
        BY <2>3 DEF WorkerMerge, HTypes, At
      <3>2. CASE Commit(Merged(work.local, op))
        <4>1. Appliable(Merged(work.local, op))
          BY <3>1, OpIs, MergedIs DEF Appliable, HTypes, WorkShape
        <4> QED
          BY <2>0, <3>2, <4>1 DEF At
      <3>3. CASE ~Commit(Merged(work.local, op))
        <4>1. Step("reply") /\ row' = row
          BY <2>3, <3>3 DEF WorkerMerge
        <4> QED
          BY <4>1, StepTypes
      <3> QED
        BY <3>2, <3>3
    <2> QED
      BY <2>1, <2>2, <2>3
  <1>3. Harmless
    BY <1>1, <1>2 DEF Harmless, At
  <1> QED
    BY <1>3, HarmlessKeeps

\* What is committed is applied to the cached session, which is loaded if it must be.
LEMMA WorkerGetKeeps ==
    ASSUME STypes, HTypes, Core, Committed, ~deleted, WorkerGet
    PROVE  Core' /\ (Promised => Promised')
  <1>1. /\ UNCHANGED <<row, pc, snap, wanted, names, stored, saved>> /\ At("cache")
    BY DEF WorkerGet, history, bounds
  <1>2. row.there /\ HasCurrent(hist) /\ row \in Session
    BY <1>1 DEF Committed, STypes
  <1>3. cache' = IF cache.there THEN cache ELSE Loaded(row)
    BY <1>2 DEF WorkerGet
  <1>4. cache'.there
    BY <1>2, <1>3, LoadedIs
  <1>5. At("apply")'
    BY <1>2, <1>4 DEF WorkerGet, HTypes, WorkShape, At
  <1>6. Harmless
    BY <1>1, <1>2, <1>3, <1>4, <1>5 DEF Harmless
  <1> QED
    BY <1>6, HarmlessKeeps

\* The worker edits the cached files.
LEMMA WorkerApplyKeeps ==
    ASSUME STypes, STypes', HTypes, Core, Committed, WorkerApply
    PROVE  Core' /\ (Promised => Promised')
  <1>1. /\ UNCHANGED <<row, pc, snap, wanted, names, stored, saved>> /\ At("apply")
    BY DEF WorkerApply, history, bounds
  <1>2. cache.there /\ HasCurrent(hist)
    BY <1>1 DEF Core, Made, Committed
  <1>3. PICK n \in Nat : cache' = Applied(Current(hist).inc, Current(hist).exc, n)
    BY <1>2, EditTimesAre DEF WorkerApply
  <1>4. PICK i \in SUBSET Paths : i = Current(hist).inc
    BY <1>2, CurrentIs, PathsAre DEF HTypes
  <1>5. PICK e \in SUBSET Paths : e = Current(hist).exc
    BY <1>2, CurrentIs, PathsAre DEF HTypes
  <1>6. PICK b \in SUBSET Paths : b = work.base[1]
    BY DEF HTypes, WorkShape
  <1>7. PICK x \in SUBSET Paths : x = work.base[2]
    BY DEF HTypes, WorkShape
  <1>8. cache' = WithFiles(i \ b, b \ i, e \ x, x \ e, n)
    BY <1>3, <1>4, <1>5, <1>6, <1>7 DEF Applied
  <1>9. /\ i \ b \in SUBSET Paths /\ b \ i \in SUBSET Paths
        /\ e \ x \in SUBSET Paths /\ x \ e \in SUBSET Paths
    OBVIOUS
  <1>10. cache'.there = cache.there /\ cache'.name = cache.name /\ cache'.dirtyFiles /\ cache'.rev = cache.rev + 1
    BY <1>8, <1>9, WithFilesIs
  <1>11. Dirty(cache')
    BY <1>2, <1>10 DEF Dirty
  <1>12. cache'.name >= cache.name /\ cache'.name <= names' /\ names <= names'
    BY <1>1, <1>10, Numbers DEF Core, Snapshots
  <1>13. Edited
    BY <1>1, <1>2, <1>10, <1>11, <1>12 DEF Edited
  <1> QED
    BY <1>13, EditKeeps

LEMMA WorkerReplyKeeps ==
    ASSUME STypes, HTypes, Core, WorkerReply
    PROVE  Core' /\ (Promised => Promised')
  <1>1. /\ UNCHANGED <<row, cache, snap, wanted, names, stored, saved>> /\ At("reply")
        /\ work'.step = "recv" /\ op.by \in Tasks
    <2>1. ops # <<>>
      BY DEF WorkerReply, HTypes, At
    <2> QED
      BY <2>1, OpIs, NoHistoryIs DEF WorkerReply, history, bounds
  <1>2. pc' = pc \/ pc' = [pc EXCEPT ![op.by] = "idle"]
    BY DEF WorkerReply, Goto
  <1>3. \A u \in Flushers :
           \/ pc'[u] \notin {"flush", "write", "clear", "upsert", "remove"}
           \/ pc'[u] = pc[u] /\ snap'[u] = snap[u]
    BY <1>1, <1>2 DEF STypes
  <1>4. ~At("cache") /\ ~At("apply") /\ ~At("cache")' /\ ~At("apply")'
    BY <1>1 DEF At
  <1>5. Harmless
    BY <1>1, <1>3, <1>4 DEF Harmless
  <1> QED
    BY <1>5, HarmlessKeeps

\* The process starts again with what the row says.
LEMMA RestartKeeps ==
    ASSUME STypes, Core, Restart
    PROVE  Core' /\ (Promised => Promised')
  <1>1. /\ UNCHANGED <<row, names, saved>> /\ stored' = 0
        /\ pc' = [t \in Flushers |-> "idle"] /\ snap' = [t \in Flushers |-> NoSession]
        /\ cache' = IF row.there THEN Loaded(row) ELSE NoSession
        /\ work'.step = "recv" /\ row \in Session
    BY NoHistoryIs DEF Restart, Crash, STypes
  <1>2. ~At("cache")' /\ ~At("apply")'
    BY <1>1 DEF At
  <1>3. row.name <= names
    BY Numbers DEF Core, Snapshots
  <1>4. CASE row.there
    <2>1. /\ cache'.there /\ cache'.name = row.name /\ cache'.rev = 0
          /\ cache'.inc = row.inc /\ cache'.exc = row.exc
      BY <1>1, <1>4, LoadedIs
    <2>2. Made'
      BY <1>1, <1>2, <1>4, <2>1 DEF Made
    <2>3. Snapshots' /\ WrittenLast'
      BY <1>1, <1>3, <2>1, Numbers DEF Snapshots, WrittenLast
    <2>4. FilesStored'
      BY <1>1, <2>1 DEF FilesStored, StoredFiles
    <2> QED
      BY <2>2, <2>3, <2>4, <1>1 DEF Core, Promised, Flushers
  <1>5. CASE ~row.there
    <2>1. ~cache.there
      BY <1>5 DEF Core, Made
    <2>2. names = 0 /\ saved = 0 /\ row.name = 0
      BY <2>1, AbsentIs
    <2>3. ~cache'.there /\ cache'.name = 0 /\ cache'.rev = 0
      BY <1>1, <1>5 DEF NoSession
    <2>4. Made' /\ Snapshots' /\ WrittenLast' /\ FilesStored'
      BY <1>1, <1>2, <2>2, <2>3 DEF Made, Snapshots, WrittenLast, FilesStored
    <2> QED
      BY <2>2, <2>4, <1>1 DEF Core, Promised, Flushers
  <1> QED
    BY <1>4, <1>5

LEMMA RestartDeletion ==
    ASSUME Deletion, Restart
    PROVE  Deletion' /\ Committed' /\ AcknowledgedIsKept'
  <1>1. UNCHANGED <<row, deleted>> /\ pc' = [t \in Flushers |-> "idle"] /\ work'.step = "recv"
    BY NoHistoryIs DEF Restart, Crash
  <1>2. ~At("cache")' /\ ~At("apply")'
    BY <1>1 DEF At
  <1> QED
    BY <1>1, <1>2 DEF Deletion, Committed, AcknowledgedIsKept

-------------------------------------------------------------------------------
\* What has gone wrong or has been deleted stays so.
LEMMA ExcusesStay ==
    ASSUME STypes, Deletion, [Next]_vars
    PROVE  excuses \subseteq excuses' /\ (deleted => deleted')
  <1>1. ASSUME NEW t \in Flushers, FlushStep(t) PROVE excuses \subseteq excuses' /\ deleted' = deleted
    BY <1>1, FlushStepDeletion
       DEF FlushStep, FlushSnapshot, FlushNothing, FlushWrite, FlushError, FlushClear, Excuse, history
  <1>2. ASSUME NEW t \in Tasks, CommandStep(t) PROVE excuses \subseteq excuses' /\ deleted' = deleted
    BY <1>2, CommandStepDeletion DEF CommandStep, Upsert, GetInsert, RemoveEntry, Excuse, history
  <1>3. ASSUME NEW t \in Tasks, Begin(t) PROVE excuses \subseteq excuses' /\ (deleted => deleted')
    BY <1>3, BeginDeletion
       DEF Begin, Rename, EditFields, UpdateRead, GetRead, Create, DeleteRow, history
  <1>4. ASSUME NEW t \in Tasks, HistoryBegin(t) \/ HistoryStep(t) PROVE UNCHANGED <<excuses, deleted>>
    BY <1>4 DEF HistoryBegin, HistoryStep, HistoryReadVersion, HistoryReadEntries, EditFiles, EditNothing,
                MoveIndex, PhoneMerge, TimeOut, Enqueue, history
  <1>5. CASE WorkerStep
    BY <1>5 DEF WorkerStep, WorkerSync, WorkerRead, WorkerMerge, WorkerGet, WorkerApply, WorkerReply,
                sessionVars, history
  <1>6. CASE Restart
    BY <1>6 DEF Restart, Crash
  <1>7. CASE UNCHANGED vars
    BY <1>7 DEF vars, sessionVars, history
  <1> QED
    BY <1>1, <1>2, <1>3, <1>4, <1>5, <1>6, <1>7 DEF Next

\* Every step keeps what does not depend on the excuses.
LEMMA NextDeletion ==
    ASSUME STypes, HTypes, Deletion, Committed, AcknowledgedIsKept, [Next]_vars
    PROVE  Deletion' /\ Committed' /\ AcknowledgedIsKept'
  <1>1. ASSUME NEW t \in Flushers, FlushStep(t), Cascade PROVE Deletion' /\ Committed' /\ AcknowledgedIsKept'
    <2>1. Deletion' /\ row'.there = row.there /\ deleted' = deleted
      BY <1>1, FlushStepDeletion
    <2> QED
      BY <1>1, <2>1, CascadeKeeps DEF Deletion
  <1>2. ASSUME NEW t \in Tasks, CommandStep(t), Cascade PROVE Deletion' /\ Committed' /\ AcknowledgedIsKept'
    <2>1. Deletion' /\ row' = row /\ deleted' = deleted
      BY <1>2, CommandStepDeletion
    <2> QED
      BY <1>2, <2>1, CascadeKeeps DEF Deletion
  <1>3. ASSUME NEW t \in Tasks, Begin(t), Cascade PROVE Deletion' /\ Committed' /\ AcknowledgedIsKept'
    <2>1. /\ Deletion' /\ (deleted => deleted')
          /\ row'.there = row.there \/ (~row.there /\ ~deleted) \/ (~row'.there /\ deleted')
      BY <1>3, BeginDeletion
    <2>2. (deleted => ~row.there) /\ (deleted' => ~row'.there)
      BY <2>1 DEF Deletion
    <2> QED
      BY <1>3, <2>1, <2>2, CascadeKeeps
  <1>4. ASSUME NEW t \in Tasks, HistoryBegin(t) \/ HistoryStep(t) PROVE Deletion' /\ Committed' /\ AcknowledgedIsKept'
    BY <1>4, HistoryCommandDeletion
  <1>5. CASE WorkerStep
    BY <1>5, WorkerStepDeletion
  <1>6. CASE Restart
    BY <1>6, RestartDeletion
  <1>7. CASE UNCHANGED vars
    <2>1. Deletion' /\ Committed'
      BY <1>7 DEF vars, sessionVars, historyVars, history, Deletion, Committed, At, HasCurrent
    <2>2. UNCHANGED <<row, hist, ops, work>>
      BY <1>7 DEF vars, sessionVars, historyVars
    <2>3. AcknowledgedIsKept'
      BY <2>2 DEF AcknowledgedIsKept, At, op, Selections
    <2> QED
      BY <2>1, <2>3
  <1> QED
    BY <1>1, <1>2, <1>3, <1>4, <1>5, <1>6, <1>7 DEF Next

\* While nothing has gone wrong and the session is not deleted, the cache, the snapshots and the row
\* stay in step, and the promises are kept.
LEMMA NextCore ==
    ASSUME STypes, STypes', HTypes, Deletion, Deletion', Committed, Core, [Next]_vars,
           excuses' \cap Serious = {}, ~deleted, ~deleted'
    PROVE  Core' /\ (Promised /\ excuses' = {} => Promised')
  <1>1. ASSUME NEW t \in Flushers, FlushStep(t), Cascade
        PROVE  Core' /\ (Promised /\ excuses' = {} => Promised')
    <2>1. UNCHANGED work
      BY <1>1 DEF Cascade
    <2> QED
      BY <1>1, <2>1, FlushSnapshotKeeps, FlushNothingKeeps, FlushErrorKeeps, FlushClearKeeps, FlushWriteKeeps
         DEF FlushStep
  <1>2. ASSUME NEW t \in Tasks, CommandStep(t), Cascade
        PROVE  Core' /\ (Promised => Promised')
    <2>1. UNCHANGED work
      BY <1>2 DEF Cascade
    <2>2. ~RemoveEntry(t)
      BY DEF RemoveEntry, Deletion, Flushers
    <2> QED
      BY <1>2, <2>1, <2>2, UpsertKeeps, GetKeeps DEF CommandStep
  <1>3. ASSUME NEW t \in Tasks, Begin(t), Cascade
        PROVE  Core' /\ (Promised => Promised')
    <2>1. UNCHANGED work
      BY <1>3 DEF Cascade
    <2>2. ~DeleteRow(t)
      BY DEF DeleteRow
    <2> QED
      BY <1>3, <2>1, <2>2, RenameKeeps, UpdateReadKeeps, GetKeeps, CreateKeeps DEF Begin
  <1>4. ASSUME NEW t \in Tasks, HistoryBegin(t) \/ HistoryStep(t)
        PROVE  Core' /\ (Promised => Promised')
    BY <1>4, HistoryCommandKeeps
  <1>5. CASE WorkerStep
    BY <1>5, WorkerCommitKeeps, WorkerGetKeeps, WorkerApplyKeeps, WorkerReplyKeeps DEF WorkerStep
  <1>6. CASE Restart
    BY <1>6, RestartKeeps
  <1>7. CASE UNCHANGED vars
    <2>1. UNCHANGED <<row, cache, pc, snap, wanted, names, stored, saved, work>>
      BY <1>7 DEF vars, sessionVars, historyVars, history, bounds
    <2>2. At("cache")' = At("cache") /\ At("apply")' = At("apply")
      BY <2>1 DEF At
    <2>3. Made' /\ Snapshots' /\ WrittenLast'
      BY <2>1, <2>2 DEF Core, Made, Snapshots, WrittenLast, SameData
    <2>4. FilesStored' /\ (Promised => Promised')
      BY <2>1, <2>2 DEF Core, FilesStored, StoredFiles, Promised
    <2> QED
      BY <2>3, <2>4 DEF Core
  <1> QED
    BY <1>1, <1>2, <1>3, <1>4, <1>5, <1>6, <1>7 DEF Next

\* The invariant is inductive.
LEMMA NextIInv == IInv /\ [Next]_vars => IInv'
  <1> SUFFICES ASSUME IInv, [Next]_vars PROVE IInv'
    OBVIOUS
  <1>1. STypes /\ HTypes /\ Deletion /\ Committed /\ AcknowledgedIsKept /\ FlushInv
    BY DEF IInv
  <1>2. STypes' /\ HTypes'
    BY <1>1, NextTypes
  <1>3. Deletion' /\ Committed' /\ AcknowledgedIsKept'
    BY <1>1, NextDeletion
  <1>4. excuses \subseteq excuses' /\ (deleted => deleted')
    BY <1>1, ExcusesStay
  <1>5. FlushInv'
    <2>1. ASSUME excuses' \cap Serious = {}, ~deleted'
          PROVE  Core' /\ (excuses' = {} => Promised')
      <3>1. excuses \cap Serious = {} /\ ~deleted /\ Core
        BY <1>1, <1>4, <2>1 DEF FlushInv, Core
      <3>2. Core' /\ (Promised /\ excuses' = {} => Promised')
        BY <1>1, <1>2, <1>3, <2>1, <3>1, NextCore
      <3>3. excuses' = {} => Promised
        BY <1>1, <1>4, <3>1 DEF FlushInv
      <3> QED
        BY <3>2, <3>3
    <2>2. excuses' = {} => excuses' \cap Serious = {}
      OBVIOUS
    <2> QED
      BY <2>1, <2>2 DEF FlushInv, Core
  <1> QED
    BY <1>2, <1>3, <1>5 DEF IInv

\* The invariant of every reachable state: cache, snapshots of flushes and row stay in step as
\* long as nothing on the list of excuses has happened.
THEOREM SessionInvariant == Spec => []IInv
  <1> QED
    BY InitIInv, NextIInv, PTL DEF Spec

\* Neither a flush that took its snapshot before the DELETE nor a cached copy brings the row of a
\* deleted session back: flush_dirty_to_db only updates.
THEOREM DeletedForGood == Spec => []DeletedStaysDeleted
  <1>1. IInv => DeletedStaysDeleted
    BY DEF IInv, Deletion, DeletedStaysDeleted
  <1> QED
    BY <1>1, SessionInvariant, PTL

\* rename_session_command has returned: the row has that name or a later one.
THEOREM RenameDurable == Spec => []RenameIsDurable
  <1>1. IInv => RenameIsDurable
    <2>1. SUFFICES ASSUME IInv, row.there, excuses = {} PROVE row.name >= saved
      BY DEF RenameIsDurable
    <2>2. ~deleted /\ STypes
      BY <2>1 DEF IInv, Deletion
    <2>3. saved <= row.name
      BY <2>1, <2>2 DEF IInv, FlushInv, Promised
    <2> QED
      BY <2>2, <2>3, Numbers
  <1> QED
    BY <1>1, SessionInvariant, PTL

\* The selection of an operation that is answered with Ok is in the history, whatever conflicts
\* and merges it took to get there.
THEOREM AcknowledgedKept == Spec => []AcknowledgedIsKept
  <1>1. IInv => AcknowledgedIsKept
    BY DEF IInv
  <1> QED
    BY <1>1, SessionInvariant, PTL

\* An entry of the cache with its dirty flags reset is what the row says, whatever flushes and
\* edits overlapped.
THEOREM CleanStored == Spec => []CleanIsStored
  <1>1. IInv => CleanIsStored
    <2>1. SUFFICES ASSUME IInv, At("recv"), row.there, cache.there, ~Dirty(cache), excuses \cap Serious = {}
                   PROVE  row.name = cache.name /\ StoredFiles(cache)
      BY DEF CleanIsStored, CleanMeansStored, StoredFiles, Serious
    <2>2. ~deleted /\ STypes
      BY <2>1 DEF IInv, Deletion
    <2>3. Snapshots /\ WrittenLast /\ FilesStored
      BY <2>1, <2>2 DEF IInv, FlushInv
    <2>4. row.name = cache.name
      BY <2>1, <2>2, <2>3, Numbers DEF Snapshots, WrittenLast
    <2>5. StoredFiles(cache)
      BY <2>1, <2>3 DEF FilesStored, At
    <2> QED
      BY <2>4, <2>5
  <1> QED
    BY <1>1, SessionInvariant, PTL

-------------------------------------------------------------------------------
(* The selection of the session follows the history.                       *)

Matches(s) == Selection(s) = Selection(Current(hist))
Plain(s) == s.inc \cup s.exc \subseteq Files

\* The row has a selection that is later than s, as JSON texts, which a flush of s keeps.
Behind(s) == ~(row.inc \subseteq Files) /\ row.at > s.at

\* Nothing is later than the clock.
Times ==
    /\ crashes \in Nat /\ row.at <= clock /\ cache.at <= clock
    /\ \A t \in Flushers : snap[t].at <= clock

\* The session is in the cache from the first applied state on, and has its selection until the
\* process ends.
Followed ==
    /\ HasCurrent(hist) /\ ~At("cache") => cache.there
    /\ At("apply") => work.base = Selection(cache)
    /\ crashes = 0 /\ HasCurrent(hist) /\ ~At("cache") /\ ~At("apply") => Matches(cache)

\* Without edits of plain fields only selections are flushed, and only by the timer: the row has the current one as files or
\* as JSON texts, and the flush that may still write brings no older one back.
Told ==
    /\ \A t \in Tasks : pc[t] \notin {"flush", "write", "clear"}
    /\ Dirty(cache) => Plain(cache)
    /\ \A t \in Flushers : pc[t] \in {"write", "upsert"} => Plain(snap[t])
    /\ HasCurrent(hist) =>
         /\ row.inc \subseteq Files => Matches(row)
         /\ pc[Timer] = "write" /\ snap[Timer].rev >= stored =>
              Behind(snap[Timer]) \/ (Matches(cache) /\ Matches(snap[Timer]))
         /\ Dirty(cache) => Behind(cache) \/ Matches(cache)
         /\ ~At("cache") /\ ~At("apply") /\ Plain(cache) => Matches(cache)
         /\ \A t \in Flushers : pc[t] = "upsert" /\ ~cache.there => Behind(snap[t])

FollowInv == excuses \cap Serious = {} /\ ~deleted => Times /\ Followed /\ (names = 0 => Told)

-------------------------------------------------------------------------------
LEMMA LoadedAt == ASSUME NEW r \in Session PROVE Loaded(r).at = r.at /\ Selection(Loaded(r)) = Selection(r)
  BY DEF Loaded, Session, Selection

\* The times that are compared.
LEMMA TimesAre == STypes => /\ clock \in Nat /\ row.at \in Nat /\ cache.at \in Nat
                            /\ \A t \in Flushers : snap[t] \in Session /\ snap[t].at \in Nat
  BY DEF STypes, Session

\* Snapshots are taken of the cache or of the row.
LEMMA TimesKeep ==
    ASSUME STypes, Times, row'.at <= clock', cache'.at <= clock', clock \in Nat, clock' \in Nat,
           clock <= clock', crashes' = crashes,
           \A t \in Flushers : snap'[t] = snap[t] \/ snap'[t] = NoSession \/ snap'[t].at <= clock'
    PROVE  Times'
  <1>1. NoSession.at = 0
    BY DEF NoSession
  <1>2. ASSUME NEW t \in Flushers PROVE snap'[t].at <= clock'
    <2>1. snap[t].at <= clock /\ snap[t].at \in Nat
      BY TimesAre DEF Times
    <2> QED
      BY <1>1, <2>1
  <1> QED
    BY <1>2 DEF Times

LEMMA AnswerTimes ==
    ASSUME STypes, NEW t \in Flushers, Answer(t)
    PROVE  \A u \in Flushers : snap'[u] = snap[u] \/ snap'[u] = NoSession
  BY DEF Answer, Hold, STypes

LEMMA FlushStepTimes ==
    ASSUME STypes, Times, NEW t \in Flushers, FlushStep(t)
    PROVE  Times'
  <1>0. /\ clock \in Nat /\ clock + 1 \in Nat /\ clock <= clock /\ clock <= clock + 1 /\ NoSession.at = 0
        /\ row.at <= clock /\ cache.at <= clock
    BY TimesAre DEF Times, NoSession
  <1>1. CASE FlushSnapshot(t)
    <2>1. UNCHANGED <<row, cache, clock, crashes>> /\ snap' = [snap EXCEPT ![t] = cache]
      BY <1>1 DEF FlushSnapshot, Hold, bounds
    <2>2. \A u \in Flushers : snap'[u] = snap[u] \/ snap'[u].at <= clock'
      BY <1>0, <2>1 DEF STypes
    <2> QED
      BY <1>0, <2>1, <2>2, TimesKeep
  <1>2. CASE FlushNothing(t)
    <2>1. UNCHANGED <<row, cache, clock, crashes>> /\ Answer(t)
      BY <1>2 DEF FlushNothing, bounds
    <2> QED
      BY <1>0, <2>1, AnswerTimes, TimesKeep
  <1>3. CASE FlushWrite(t)
    <2>1. UNCHANGED <<cache, crashes>> /\ row' = UpdateSession(snap[t], clock + 1)
      BY <1>3 DEF FlushWrite, bounds
    <2>2. CASE row.there
      <3>1. clock' = clock + 1 /\ snap' = snap
        BY <1>3, <2>2 DEF FlushWrite
      <3>2. row'.at = clock + 1
        BY <1>0, <2>1, <2>2, TimesAre DEF UpdateSession, Written, Session
      <3>3. row'.at <= clock' /\ cache'.at <= clock' /\ clock <= clock' /\ clock' \in Nat
        BY <1>0, <2>1, <3>1, <3>2, TimesAre
      <3> QED
        BY <1>0, <2>1, <3>1, <3>3, TimesKeep
    <2>3. CASE ~row.there
      <3>1. clock' = clock /\ Answer(t) /\ row' = row
        BY <1>3, <2>1, <2>3 DEF FlushWrite, UpdateSession
      <3> QED
        BY <1>0, <2>1, <3>1, AnswerTimes, TimesKeep
    <2> QED
      BY <2>2, <2>3
  <1>4. CASE FlushError(t)
    <2>1. UNCHANGED <<row, cache, clock, crashes>> /\ Answer(t)
      BY <1>4 DEF FlushError
    <2> QED
      BY <1>0, <2>1, AnswerTimes, TimesKeep
  <1>5. CASE FlushClear(t)
    <2>1. UNCHANGED <<row, clock, crashes>> /\ Answer(t) /\ cache' = Cleaned(t)
      BY <1>5 DEF FlushClear, bounds
    <2>2. cache'.at = cache.at
      BY <2>1 DEF Cleaned, STypes, Session
    <2> QED
      BY <1>0, <2>1, <2>2, AnswerTimes, TimesKeep
  <1> QED
    BY <1>1, <1>2, <1>3, <1>4, <1>5 DEF FlushStep

LEMMA CommandTimes ==
    ASSUME STypes, Times, NEW t \in Tasks, CommandStep(t) \/ Begin(t)
    PROVE  Times'
  <1>0. /\ clock \in Nat /\ clock + 1 \in Nat /\ clock <= clock /\ clock <= clock + 1 /\ NoSession.at = 0
        /\ row.at <= clock /\ cache.at <= clock /\ 0 <= clock /\ t \in Flushers
        /\ \A n \in EditTimes : n <= clock
    BY TimesAre DEF Times, NoSession, Flushers, EditTimes
  <1>s. snap[t] \in Session /\ snap[t].at <= clock /\ row \in Session /\ cache \in Session
    BY <1>0 DEF STypes, Times
  <1>1. CASE Upsert(t)
    <2>1. UNCHANGED <<row, clock, crashes>> /\ cache' = Upserted(snap[t]) /\ snap' = [snap EXCEPT ![t] = NoSession]
      BY <1>1 DEF Upsert, Hold, bounds
    <2>2. cache'.at = snap[t].at
      BY <1>s, <2>1 DEF Upserted, Session
    <2>3. \A u \in Flushers : snap'[u] = snap[u] \/ snap'[u] = NoSession
      BY <2>1 DEF STypes
    <2> QED
      BY <1>0, <1>s, <2>1, <2>2, <2>3, TimesKeep
  <1>2. CASE GetInsert(t)
    <2>1. UNCHANGED <<row, clock, crashes>> /\ cache' = snap[t] /\ snap' = [snap EXCEPT ![t] = NoSession]
      BY <1>2 DEF GetInsert, Hold, bounds
    <2>2. \A u \in Flushers : snap'[u] = snap[u] \/ snap'[u] = NoSession
      BY <2>1 DEF STypes
    <2> QED
      BY <1>0, <1>s, <2>1, <2>2, TimesKeep
  <1>3. CASE RemoveEntry(t)
    <2>1. UNCHANGED <<row, clock, snap, crashes>> /\ cache' = NoSession
      BY <1>3 DEF RemoveEntry, bounds
    <2> QED
      BY <1>0, <2>1, TimesKeep
  <1>4. CASE Rename(t) \/ EditFields(t)
    <2>1. UNCHANGED <<row, clock, snap, crashes>>
      BY <1>4 DEF Rename, EditFields
    <2>2. PICK n \in EditTimes : cache' = [cache EXCEPT !.name = names + 1, !.at = n, !.dirtyFields = TRUE, !.rev = @ + 1]
      BY <1>4 DEF Rename, EditFields
    <2>3. cache'.at = n
      BY <1>s, <2>2 DEF Session
    <2> QED
      BY <1>0, <2>1, <2>3, TimesKeep
  <1>5. CASE UpdateRead(t)
    <2>1. UNCHANGED <<row, cache, clock, crashes>> /\ snap' = [snap EXCEPT ![t] = [cache EXCEPT !.name = names + 1]]
      BY <1>5 DEF UpdateRead, Hold
    <2>2. \A u \in Flushers : snap'[u] = snap[u] \/ snap'[u].at = cache.at
      BY <1>s, <2>1 DEF STypes, Session
    <2> QED
      BY <1>0, <2>1, <2>2, TimesKeep
  <1>6. CASE GetRead(t)
    <2>1. UNCHANGED <<row, cache, clock, crashes>> /\ snap' = [snap EXCEPT ![t] = Loaded(row)]
      BY <1>6 DEF GetRead, Hold, bounds
    <2>2. \A u \in Flushers : snap'[u] = snap[u] \/ snap'[u].at = row.at
      BY <1>s, <2>1, LoadedAt DEF STypes
    <2> QED
      BY <1>0, <2>1, <2>2, TimesKeep
  <1>7. CASE Create(t)
    <2>1. /\ UNCHANGED <<cache, crashes>> /\ clock' = clock + 1 /\ row' = [Fresh EXCEPT !.at = clock + 1]
          /\ snap' = [snap EXCEPT ![t] = row']
      BY <1>7 DEF Create, Hold, bounds
    <2>2. row'.at = clock + 1
      BY <2>1 DEF Fresh, NoSession
    <2>3. \A u \in Flushers : snap'[u] = snap[u] \/ snap'[u].at = clock + 1
      BY <2>1, <2>2 DEF STypes
    <2>4. row'.at <= clock' /\ cache'.at <= clock' /\ clock <= clock' /\ clock' \in Nat
      BY <1>0, <2>1, <2>2, TimesAre
    <2> QED
      BY <1>0, <2>1, <2>2, <2>3, <2>4, TimesKeep
  <1>8. CASE DeleteRow(t)
    <2>1. UNCHANGED <<cache, clock, snap, crashes>> /\ row' = NoSession
      BY <1>8 DEF DeleteRow, bounds
    <2> QED
      BY <1>0, <2>1, TimesKeep
  <1> QED
    BY <1>1, <1>2, <1>3, <1>4, <1>5, <1>6, <1>7, <1>8 DEF CommandStep, Begin

\* What a commit does to the row.
LEMMA CommitRow ==
    ASSUME STypes, HTypes, NEW s, Appliable(s), Commit(s)
    PROVE  /\ row'.there = row.there
           /\ \/ hist' = hist /\ UNCHANGED <<row, clock>>
              \/ /\ row'.at = clock + 1 /\ clock' = clock + 1
                 /\ ~(row'.inc \subseteq Files)
  <1>1. /\ hist' \in HistoryShape /\ hist'.entries # <<>> /\ hist'.index < Len(hist'.entries)
        /\ row'.there = row.there
    BY CommitIs
  <1>2. CASE hist' = hist
    BY <1>1, <1>2 DEF Commit
  <1>3. CASE hist' # hist
    <2>1. PICK h \in HistoryShape : h = hist'
      BY <1>1
    <2>2. HasCurrent(h)
      BY <1>1, <2>1 DEF HasCurrent
    <2>3. Columns(h)[1] = {Listing(Current(h).inc)}
      BY <2>2 DEF Columns
    <2>4. ~(Columns(h)[1] \subseteq Files)
      BY <2>2, <2>3, CurrentIs, HistoryAssumption DEF HistoryAssumption
    <2>5. PICK i \in SUBSET Paths : i = Columns(h)[1]
      BY ColumnsAre
    <2>6. PICK e \in SUBSET Paths : e = Columns(h)[2]
      BY ColumnsAre
    <2>7. row' = [row EXCEPT !.inc = i, !.exc = e, !.at = clock + 1] /\ clock' = clock + 1
      BY <1>3, <2>1, <2>5, <2>6 DEF Commit
    <2>8. row'.at = clock + 1 /\ row'.inc = i
      BY <2>7 DEF STypes, Session
    <2> QED
      BY <1>1, <2>4, <2>5, <2>7, <2>8
  <1> QED
    BY <1>2, <1>3

\* The worker commits, or the row and the history stay.
LEMMA WorkerCommits ==
    ASSUME STypes, HTypes, WorkerSync \/ WorkerRead \/ WorkerMerge
    PROVE  /\ UNCHANGED <<cache, pc, snap, names, stored, crashes>> /\ ~At("cache") /\ ~At("apply") /\ ~At("apply")'
           /\ \/ UNCHANGED <<row, clock, hist>>
              \/ /\ At("cache")' /\ row'.there = row.there
                 /\ row'.at = clock + 1 /\ clock' = clock + 1
                 /\ ~(row'.inc \subseteq Files)
  <1>1. UNCHANGED <<cache, pc, snap, names, stored, crashes>> /\ ~At("cache") /\ ~At("apply")
    BY DEF WorkerSync, WorkerRead, WorkerMerge, At, history, bounds, sessionVars
  <1>2. ASSUME NEW s, Appliable(s), Commit(s)
        PROVE  /\ work'.step = "cache"
               /\ \/ UNCHANGED <<row, clock, hist>>
                  \/ /\ row'.there = row.there
                     /\ row'.at = clock + 1 /\ clock' = clock + 1 /\ ~(row'.inc \subseteq Files)
    BY <1>2, CommitIs, CommitRow
  <1>3. CASE WorkerSync
    <2>1. ops # <<>>
      BY <1>3 DEF WorkerSync
    <2>2. CASE Commit(op)
      BY <1>1, <1>2, <2>1, <2>2, OpIs DEF At
    <2>3. CASE ~Commit(op)
      <3>1. (Step("reply") \/ Step("read")) /\ UNCHANGED <<row, clock, hist>>
        BY <1>3, <2>3 DEF WorkerSync
      <3>2. work'.step # "apply"
        BY <3>1, StepTypes
      <3> QED
        BY <1>1, <3>1, <3>2 DEF At
    <2> QED
      BY <2>2, <2>3
  <1>4. CASE WorkerRead
    BY <1>1, <1>4 DEF WorkerRead, sessionVars, HTypes, WorkShape, At
  <1>5. CASE WorkerMerge
    <2>1. ops # <<>>
      BY <1>5 DEF WorkerMerge, HTypes, At
    <2>2. CASE Commit(Merged(work.local, op))
      <3>1. Appliable(Merged(work.local, op))
        BY <2>1, OpIs, MergedIs DEF Appliable, HTypes, WorkShape
      <3> QED
        BY <1>1, <1>2, <2>2, <3>1 DEF At
    <2>3. CASE ~Commit(Merged(work.local, op))
      <3>1. Step("reply") /\ UNCHANGED <<row, clock, hist>>
        BY <1>5, <2>3 DEF WorkerMerge
      <3>2. work'.step # "apply"
        BY <3>1, StepTypes
      <3> QED
        BY <1>1, <3>1, <3>2 DEF At
    <2> QED
      BY <2>2, <2>3
  <1> QED
    BY <1>3, <1>4, <1>5

\* What a command of the history changes besides the queue.
LEMMA HistoryCommandIs ==
    ASSUME STypes, NEW t \in Tasks, HistoryBegin(t) \/ HistoryStep(t)
    PROVE  /\ UNCHANGED <<row, snap, clock, hist, crashes, names, stored, excuses, deleted, work>>
           /\ \A u \in Flushers : pc'[u] = pc[u] \/ pc'[u] \in {"entries", "change", "wait", "idle"}
           /\ cache' = cache \/ (~cache.there /\ row.there /\ cache' = Loaded(row))
  <1>0. t \in Flushers
    BY DEF Flushers
  <1>1. /\ UNCHANGED <<row, snap, clock, hist, crashes, names, stored, excuses, deleted, work>>
        /\ \E p \in {"entries", "change", "wait", "idle"} : pc' = [pc EXCEPT ![t] = p]
        /\ cache' = cache \/ (~cache.there /\ row.there /\ cache' = Loaded(row))
    <2>1. CASE HistoryReadVersion(t)
      BY <2>1 DEF HistoryReadVersion, Goto, history, bounds
    <2>2. CASE HistoryReadEntries(t)
      BY <2>2 DEF HistoryReadEntries, Goto, history, bounds
    <2>3. CASE EditFiles(t)
      BY <2>3 DEF EditFiles, Enqueue, Goto, history, bounds, Filled
    <2>4. CASE EditNothing(t)
      BY <2>4 DEF EditNothing, Goto, history, bounds, Filled
    <2>5. CASE MoveIndex(t)
      BY <2>5 DEF MoveIndex, Enqueue, Goto, history, bounds
    <2>6. CASE PhoneMerge(t)
      BY <2>6 DEF PhoneMerge, Enqueue, Goto, history, bounds
    <2>7. CASE TimeOut(t)
      BY <2>7 DEF TimeOut, Goto, history, bounds
    <2> QED
      BY <2>1, <2>2, <2>3, <2>4, <2>5, <2>6, <2>7 DEF HistoryBegin, HistoryStep
  <1>2. \A u \in Flushers : pc'[u] = pc[u] \/ pc'[u] \in {"entries", "change", "wait", "idle"}
    BY <1>0, <1>1 DEF STypes
  <1> QED
    BY <1>1, <1>2

\* The applied entry is the selection of the cache, if the cache still has what the differences are from.
LEMMA AppliedIs ==
    ASSUME STypes, HTypes, HasCurrent(hist), NEW n \in Nat, work.base = Selection(cache),
           cache' = Applied(Current(hist).inc, Current(hist).exc, n)
    PROVE  /\ Selection(cache') = Selection(Current(hist)) /\ cache'.there = cache.there /\ cache'.at = n
           /\ cache'.inc \cup cache'.exc \subseteq Files
  <1>1. PICK i \in SUBSET Files : i = Current(hist).inc
    BY CurrentIs DEF HTypes
  <1>2. PICK e \in SUBSET Files : e = Current(hist).exc
    BY CurrentIs DEF HTypes
  <1>3. i \cap e = {}
    BY <1>1, <1>2, CurrentIs DEF HTypes
  <1>4. PICK b \in SUBSET Paths : b = cache.inc
    BY DEF STypes, Session
  <1>5. PICK x \in SUBSET Paths : x = cache.exc
    BY DEF STypes, Session
  <1>6. work.base[1] = b /\ work.base[2] = x
    BY <1>4, <1>5 DEF Selection
  <1> DEFINE j == ((b \ (b \ i)) \cup (i \ b)) \ (e \ x)
             y == ((x \ (x \ e)) \ (i \ b)) \cup (e \ x)
  <1>7. j = i /\ y = e
    BY <1>3
  <1>8. i \in SUBSET Paths /\ e \in SUBSET Paths
    BY PathsAre
  <1>9. cache' = [cache EXCEPT !.inc = j, !.exc = y, !.at = n, !.dirtyFiles = TRUE, !.rev = @ + 1]
    BY <1>1, <1>2, <1>4, <1>5, <1>6 DEF Applied, WithFiles
  <1> HIDE DEF j, y
  <1>10. cache'.inc = i /\ cache'.exc = e /\ cache'.there = cache.there /\ cache'.at = n
    BY <1>7, <1>8, <1>9 DEF STypes, Session
  <1> QED
    BY <1>1, <1>2, <1>10 DEF Selection

\* The worker, the commands on the history and the end of the process write no later time than the clock's.
LEMMA OtherTimes ==
    ASSUME STypes, HTypes, Times, Core, Committed, ~deleted,
           (\E t \in Tasks : HistoryBegin(t) \/ HistoryStep(t)) \/ WorkerStep \/ Restart \/ UNCHANGED vars,
           At("apply") => work.base = Selection(cache)
    PROVE  Times'
  <1>0. /\ clock \in Nat /\ clock + 1 \in Nat /\ clock <= clock /\ clock <= clock + 1 /\ NoSession.at = 0
        /\ row.at <= clock /\ cache.at <= clock /\ row.at <= clock + 1 /\ cache.at <= clock + 1 /\ 0 <= clock
        /\ \A n \in EditTimes : n <= clock
    BY TimesAre DEF Times, NoSession, EditTimes
  <1>l. Loaded(row).at = row.at
    BY LoadedAt DEF STypes
  <1>1. ASSUME NEW t \in Tasks, HistoryBegin(t) \/ HistoryStep(t) PROVE Times'
    BY <1>0, <1>l, <1>1, HistoryCommandIs, TimesKeep
  <1>2. CASE WorkerSync \/ WorkerRead \/ WorkerMerge
    <2>1. UNCHANGED <<cache, snap, crashes>>
      BY <1>2, WorkerCommits
    <2>2. UNCHANGED <<row, clock>> \/ (row'.at = clock + 1 /\ clock' = clock + 1)
      BY <1>2, WorkerCommits
    <2>3. row'.at <= clock' /\ cache'.at <= clock' /\ clock' \in Nat /\ clock <= clock'
      BY <1>0, <2>1, <2>2
    <2> QED
      BY <2>1, <2>3, TimesAre, TimesKeep
  <1>3. CASE WorkerGet
    <2>1. UNCHANGED <<row, clock, snap, crashes>> /\ (cache' = cache \/ cache' = Loaded(row))
      BY <1>3 DEF WorkerGet, bounds
    <2> QED
      BY <1>0, <1>l, <2>1, TimesKeep
  <1>4. CASE WorkerApply
    <2>1. UNCHANGED <<row, clock, snap, crashes>> /\ At("apply") /\ EditTimes \subseteq Nat
      BY <1>4, EditTimesAre DEF WorkerApply, bounds
    <2>2. CASE cache' = cache
      BY <1>0, <2>1, <2>2, TimesKeep
    <2>3. CASE cache' # cache
      <3>1. HasCurrent(hist)
        BY <1>4, <2>3 DEF WorkerApply
      <3>2. PICK n \in EditTimes : cache' = Applied(Current(hist).inc, Current(hist).exc, n)
        BY <1>4, <2>3 DEF WorkerApply
      <3>3. cache'.at = n
        BY <2>1, <3>1, <3>2, AppliedIs
      <3> QED
        BY <1>0, <2>1, <3>3, TimesKeep
    <2> QED
      BY <2>2, <2>3
  <1>5. CASE WorkerReply
    <2>1. UNCHANGED <<row, cache, clock, snap, crashes>>
      BY <1>5 DEF WorkerReply, bounds
    <2> QED
      BY <1>0, <2>1, TimesKeep
  <1>6. CASE Restart
    <2>1. /\ UNCHANGED <<row, clock>> /\ crashes' = crashes + 1 /\ (cache' = Loaded(row) \/ cache' = NoSession)
          /\ snap' = [t \in Flushers |-> NoSession]
      BY <1>6 DEF Restart, Crash
    <2> QED
      BY <1>0, <1>l, <2>1 DEF Times
  <1>7. CASE UNCHANGED vars
    BY <1>7 DEF Times, vars, sessionVars, bounds
  <1> QED
    BY <1>1, <1>2, <1>3, <1>4, <1>5, <1>6, <1>7 DEF WorkerStep

-------------------------------------------------------------------------------
\* Steps that neither write the row nor change the files of the cached session: an edit of a plain field,
\* a flush that is over, a worker that waits.
Calm ==
    /\ UNCHANGED <<row, stored, crashes>> /\ (hist' = hist \/ ~HasCurrent(hist'))
    /\ cache'.there = cache.there /\ Selection(cache') = Selection(cache)
    /\ At("apply")' => work' = work
    /\ ~At("cache")' => ~At("cache")
    /\ ~At("cache")' /\ ~At("apply")' => ~At("apply")
    /\ names' = 0 =>
         /\ names = 0
         /\ Dirty(cache') => Dirty(cache) /\ cache'.at = cache.at
         /\ \A t \in Flushers :
              /\ pc'[t] \in {"write", "upsert"} => pc'[t] = pc[t] /\ snap'[t] = snap[t]
              /\ pc'[t] \in {"flush", "clear"} => pc'[t] = pc[t]

LEMMA TimerIs == Timer \in Flushers /\ Tasks \subseteq Flushers
  BY DEF Flushers

\* A calm step keeps the selection where it is.
LEMMA CalmKeeps ==
    ASSUME Followed, names = 0 => Told, Calm
    PROVE  Followed' /\ (names' = 0 => Told')
  <1>1. /\ row' = row /\ stored' = stored /\ crashes' = crashes /\ (HasCurrent(hist)' => hist' = hist)
        /\ cache'.there = cache.there /\ Selection(cache') = Selection(cache)
    BY DEF Calm, HasCurrent
  <1>2. cache'.inc = cache.inc /\ cache'.exc = cache.exc
    BY <1>1 DEF Selection
  <1>3. HasCurrent(hist)' => HasCurrent(hist) /\ Current(hist)' = Current(hist)
    BY <1>1 DEF HasCurrent, Current
  <1>4. (~At("cache")' => ~At("cache")) /\ (~At("cache")' /\ ~At("apply")' => ~At("apply"))
    BY DEF Calm
  <1>5. Followed'
    <2>1. HasCurrent(hist)' /\ ~At("cache")' => cache'.there
      BY <1>1, <1>3, <1>4 DEF Followed
    <2>2. At("apply")' => work'.base = Selection(cache')
      <3>1. At("apply")' => work' = work
        BY DEF Calm
      <3>2. At("apply")' => At("apply")
        BY <3>1 DEF At
      <3> QED
        BY <1>1, <3>1, <3>2 DEF Followed
    <2>3. crashes' = 0 /\ HasCurrent(hist)' /\ ~At("cache")' /\ ~At("apply")' => Matches(cache)'
      BY <1>1, <1>3, <1>4 DEF Followed, Matches
    <2> QED
      BY <2>1, <2>2, <2>3 DEF Followed
  <1>6. ASSUME names' = 0 PROVE Told'
    <2>1. /\ Told /\ (Dirty(cache') => Dirty(cache) /\ cache'.at = cache.at)
          /\ \A t \in Flushers :
              /\ pc'[t] \in {"write", "upsert"} => pc'[t] = pc[t] /\ snap'[t] = snap[t]
              /\ pc'[t] \in {"flush", "clear"} => pc'[t] = pc[t]
      BY <1>6 DEF Calm
    <2>2. \A t \in Tasks : pc'[t] \notin {"flush", "write", "clear"}
      BY <2>1, TimerIs DEF Told
    <2>3. Dirty(cache)' <=> Dirty(cache')
      BY DEF Dirty
    <2>4. Dirty(cache)' => Plain(cache)'
      BY <1>2, <2>1, <2>3 DEF Told, Plain
    <2>5. \A t \in Flushers : pc'[t] \in {"write", "upsert"} => Plain(snap[t])'
      BY <2>1 DEF Told, Plain
    <2>6. ASSUME HasCurrent(hist)'
          PROVE  /\ (row.inc \subseteq Files)' => Matches(row)'
                 /\ pc'[Timer] = "write" /\ snap'[Timer].rev >= stored' =>
                      Behind(snap[Timer])' \/ (Matches(cache)' /\ Matches(snap[Timer])')
                 /\ Dirty(cache)' => Behind(cache)' \/ Matches(cache)'
                 /\ ~At("cache")' /\ ~At("apply")' /\ Plain(cache)' => Matches(cache)'
                 /\ \A t \in Flushers : pc'[t] = "upsert" /\ ~cache'.there => Behind(snap[t])'
      <3>1. HasCurrent(hist) /\ Current(hist)' = Current(hist)
        BY <1>3, <2>6
      <3>2. (row.inc \subseteq Files)' => Matches(row)'
        BY <1>1, <2>1, <3>1 DEF Told, Matches
      <3>3. pc'[Timer] = "write" /\ snap'[Timer].rev >= stored' =>
                      Behind(snap[Timer])' \/ (Matches(cache)' /\ Matches(snap[Timer])')
        BY <1>1, <2>1, <3>1, TimerIs DEF Told, Matches, Behind
      <3>4. Dirty(cache)' => Behind(cache)' \/ Matches(cache)'
        BY <1>1, <2>1, <2>3, <3>1 DEF Told, Matches, Behind
      <3>5. ~At("cache")' /\ ~At("apply")' /\ Plain(cache)' => Matches(cache)'
        BY <1>1, <1>2, <1>4, <2>1, <3>1 DEF Told, Matches, Plain
      <3>6. \A t \in Flushers : pc'[t] = "upsert" /\ ~cache'.there => Behind(snap[t])'
        BY <1>1, <2>1, <3>1 DEF Told, Behind
      <3> QED
        BY <3>2, <3>3, <3>4, <3>5, <3>6
    <2> QED
      BY <2>2, <2>4, <2>5, <2>6 DEF Told
  <1> QED
    BY <1>5, <1>6

\* A session that is not cached is loaded, or comes from the command that has made it.
LEMMA FirstKeeps ==
    ASSUME STypes, Core, Followed, names = 0 => Told, ~cache.there, UNCHANGED <<row, work, stored>>, names' = names,
           hist' = hist \/ ~HasCurrent(hist'),
           \A t \in Flushers : /\ pc'[t] \in {"write", "upsert"} => pc'[t] = pc[t] /\ snap'[t] = snap[t]
                               /\ pc'[t] \in {"flush", "clear"} => pc'[t] = pc[t],
           \/ ~Dirty(cache')
           \/ /\ cache'.there
              /\ \E t \in Flushers : pc[t] = "upsert" /\ cache'.at = snap[t].at /\ Selection(cache') = Selection(snap[t])
    PROVE  Followed' /\ (names' = 0 => Told')
  <1>1. HasCurrent(hist)' => hist' = hist /\ HasCurrent(hist) /\ Current(hist)' = Current(hist)
    BY DEF HasCurrent, Current
  <1>2. At("cache")' = At("cache") /\ At("apply")' = At("apply")
    BY DEF At
  <1>3. HasCurrent(hist)' => At("cache")
    BY <1>1 DEF Followed
  <1>4. ~At("apply")'
    BY <1>2 DEF Core, Made
  <1>5. Followed'
    BY <1>2, <1>3, <1>4 DEF Followed
  <1>6. ASSUME names' = 0 PROVE Told'
    <2>1. Told
      BY <1>6
    <2>2. \A t \in Flushers : pc[t] \notin {"flush", "write", "clear"}
      BY AbsentIs
    <2>3. \A t \in Flushers : pc'[t] \notin {"flush", "write", "clear"}
      BY <2>2
    <2>4. Dirty(cache)' <=> Dirty(cache')
      BY DEF Dirty
    <2>5. Dirty(cache)' => Plain(cache)'
      BY <2>1, <2>4 DEF Told, Plain, Selection
    <2>6. \A t \in Flushers : pc'[t] \in {"write", "upsert"} => Plain(snap[t])'
      BY <2>1 DEF Told, Plain
    <2>7. ASSUME HasCurrent(hist)'
          PROVE  /\ (row.inc \subseteq Files)' => Matches(row)'
                 /\ Dirty(cache)' => Behind(cache)'
                 /\ \A t \in Flushers : pc'[t] = "upsert" /\ ~cache'.there => Behind(snap[t])'
      <3>1. HasCurrent(hist) /\ Current(hist)' = Current(hist)
        BY <1>1, <2>7
      <3>2. (row.inc \subseteq Files)' => Matches(row)'
        BY <2>1, <3>1 DEF Told, Matches
      <3>3. \A t \in Flushers : pc[t] = "upsert" => Behind(snap[t])
        BY <2>1, <3>1 DEF Told
      <3>4. Dirty(cache)' => Behind(cache)'
        BY <2>4, <3>3 DEF Behind
      <3>5. \A t \in Flushers : pc'[t] = "upsert" => Behind(snap[t])'
        BY <3>3 DEF Behind
      <3> QED
        BY <3>2, <3>4, <3>5
    <2> QED
      BY <1>2, <1>3, <2>3, <2>5, <2>6, <2>7, TimerIs DEF Told
  <1> QED
    BY <1>5, <1>6

\* Only a deletion of the row changes the history outside of the worker.
LEMMA CascadeIs == Cascade => work' = work /\ (hist' = hist \/ ~HasCurrent(hist')) /\ (row'.there => hist' = hist)
  <1>1. ~HasCurrent(NoHistory)
    BY NoHistoryIs DEF HasCurrent, NoHistory
  <1> QED
    BY <1>1 DEF Cascade

\* A step after which a flush or a command has ended.
LEMMA EndsKeep ==
    ASSUME STypes, Followed, names = 0 => Told, Cascade, NEW t \in Flushers, pc'[t] = "idle",
           \A u \in Flushers : u # t => pc'[u] = pc[u] /\ snap'[u] = snap[u],
           UNCHANGED <<row, stored, crashes, names>>,
           cache'.there = cache.there /\ Selection(cache') = Selection(cache),
           names = 0 => (Dirty(cache') => Dirty(cache) /\ cache'.at = cache.at)
    PROVE  Followed' /\ (names' = 0 => Told')
  <1>1. work' = work /\ (hist' = hist \/ ~HasCurrent(hist'))
    BY CascadeIs
  <1>2. \A u \in Flushers :
              /\ pc'[u] \in {"write", "upsert"} => pc'[u] = pc[u] /\ snap'[u] = snap[u]
              /\ pc'[u] \in {"flush", "clear"} => pc'[u] = pc[u]
    OBVIOUS
  <1>3. Calm
    BY <1>1, <1>2 DEF Calm, At
  <1> QED
    BY <1>3, CalmKeeps

LEMMA FlushEndsFollow ==
    ASSUME STypes, Followed, names = 0 => Told, Cascade, NEW t \in Flushers,
           FlushNothing(t) \/ FlushError(t) \/ FlushClear(t)
    PROVE  Followed' /\ (names' = 0 => Told')
  <1>1. Answer(t) /\ UNCHANGED <<row, stored, crashes, names>> /\ (cache' = cache \/ cache' = Cleaned(t))
    BY DEF FlushNothing, FlushError, FlushClear, bounds
  <1>2. pc'[t] = "idle" /\ \A u \in Flushers : u # t => pc'[u] = pc[u] /\ snap'[u] = snap[u]
    BY <1>1, AnswerIs
  <1>3. /\ cache'.there = cache.there /\ cache'.at = cache.at
        /\ cache'.inc = cache.inc /\ cache'.exc = cache.exc /\ (Dirty(cache') => Dirty(cache))
    BY <1>1 DEF Cleaned, STypes, Session, Dirty
  <1>4. Selection(cache') = Selection(cache)
    BY <1>3 DEF Selection
  <1> QED
    BY <1>1, <1>2, <1>3, <1>4, EndsKeep

\* A flush takes the cached selection.
LEMMA FlushSnapshotFollows ==
    ASSUME STypes, Followed, names = 0 => Told, Cascade, NEW t \in Flushers, FlushSnapshot(t)
    PROVE  Followed' /\ (names' = 0 => Told')
  <1>1. /\ UNCHANGED <<row, cache, stored, crashes, names>> /\ Dirty(cache)
        /\ pc'[t] = "write" /\ snap'[t] = cache /\ cache.there
        /\ \A u \in Flushers : u # t => pc'[u] = pc[u] /\ snap'[u] = snap[u]
        /\ t # Timer => pc[t] = "flush"
    BY DEF FlushSnapshot, Dirty, Goto, Hold, STypes, history, bounds
  <1>2. work' = work /\ (hist' = hist \/ ~HasCurrent(hist'))
    BY CascadeIs
  <1>3. At("cache")' = At("cache") /\ At("apply")' = At("apply")
    BY <1>2 DEF At
  <1>4. HasCurrent(hist)' => HasCurrent(hist) /\ Current(hist)' = Current(hist)
    BY <1>2 DEF HasCurrent, Current
  <1>5. Followed'
    BY <1>1, <1>2, <1>3, <1>4 DEF Followed, Matches
  <1>6. ASSUME names' = 0 PROVE Told'
    <2>1. Told
      BY <1>1, <1>6
    <2>2. t = Timer
      BY <1>1, <2>1, TimerIs DEF Told, Flushers
    <2>3. \A u \in Tasks : u # t /\ u \in Flushers
      BY <2>2, SessionAssumption, TimerIs DEF SessionAssumption
    <2>4. \A u \in Tasks : pc'[u] \notin {"flush", "write", "clear"}
      BY <1>1, <2>1, <2>3 DEF Told
    <2>5. Dirty(cache)' => Plain(cache)'
      BY <1>1, <2>1 DEF Told, Plain
    <2>6. \A u \in Flushers : pc'[u] \in {"write", "upsert"} => Plain(snap[u])'
      <3>1. TAKE u \in Flushers
      <3>2. CASE u = t
        BY <1>1, <2>1, <3>2 DEF Told, Plain
      <3>3. CASE u # t
        BY <1>1, <2>1, <3>3 DEF Told, Plain
      <3> QED
        BY <3>2, <3>3
    <2>7. ASSUME HasCurrent(hist)'
          PROVE  /\ (row.inc \subseteq Files)' => Matches(row)'
                 /\ Behind(snap[Timer])' \/ (Matches(cache)' /\ Matches(snap[Timer])')
                 /\ Behind(cache)' \/ Matches(cache)'
                 /\ ~At("cache")' /\ ~At("apply")' /\ Plain(cache)' => Matches(cache)'
                 /\ \A u \in Flushers : pc'[u] = "upsert" /\ ~cache'.there => Behind(snap[u])'
      <3>1. HasCurrent(hist) /\ Current(hist)' = Current(hist)
        BY <1>4, <2>7
      <3>2. (row.inc \subseteq Files)' => Matches(row)'
        BY <1>1, <2>1, <3>1 DEF Told, Matches
      <3>3. Behind(cache) \/ Matches(cache)
        BY <1>1, <2>1, <3>1 DEF Told
      <3>4. Behind(snap[Timer])' \/ (Matches(cache)' /\ Matches(snap[Timer])')
        BY <1>1, <2>2, <3>1, <3>3 DEF Matches, Behind
      <3>5. Behind(cache)' \/ Matches(cache)'
        BY <1>1, <3>1, <3>3 DEF Matches, Behind
      <3>6. ~At("cache")' /\ ~At("apply")' /\ Plain(cache)' => Matches(cache)'
        BY <1>1, <1>3, <2>1, <3>1 DEF Told, Matches, Plain
      <3> QED
        BY <1>1, <3>2, <3>4, <3>5, <3>6
    <2> QED
      BY <2>4, <2>5, <2>6, <2>7 DEF Told
  <1> QED
    BY <1>5, <1>6

\* A write of the row either keeps the JSON texts or brings the current selection.
LEMMA FlushWriteFollows ==
    ASSUME STypes, HTypes, Times, Core, Deletion, Followed, names = 0 => Told, Cascade, NEW t \in Flushers,
           FlushWrite(t), excuses' \cap Serious = {}
    PROVE  Followed' /\ (names' = 0 => Told')
  <1>1. /\ UNCHANGED <<cache, crashes, names>> /\ pc[t] = "write" /\ stored' = snap[t].rev
        /\ snap[t] \in Session /\ clock + 1 \in Nat
    BY DEF FlushWrite, STypes, bounds
  <1>2. cache.there /\ row.there
    BY <1>1 DEF Core, Made
  <1>3. /\ row' = Written(snap[t], clock + 1) /\ pc' = [pc EXCEPT ![t] = "clear"] /\ snap' = snap /\ snap[t].there
    BY <1>1, <1>2 DEF FlushWrite, UpdateSession, Goto, Deletion
  <1>4. /\ row'.exc = snap[t].exc /\ row'.at = clock + 1 /\ row'.there
        /\ row'.inc = (IF row.at > snap[t].at THEN row.inc \cup snap[t].inc ELSE snap[t].inc) \ snap[t].exc
    BY <1>1, <1>3 DEF Written, Session
  <1>5. work' = work /\ hist' = hist
    BY <1>4, CascadeIs
  <1>6. /\ At("cache")' = At("cache") /\ At("apply")' = At("apply")
        /\ HasCurrent(hist)' = HasCurrent(hist) /\ Current(hist)' = Current(hist)
    BY <1>5 DEF At, HasCurrent, Current
  <1>7. Followed'
    BY <1>1, <1>5, <1>6 DEF Followed, Matches
  <1>8. ASSUME names' = 0 PROVE Told'
    <2>1. Told
      BY <1>1, <1>8
    <2>2. t = Timer
      BY <1>1, <2>1, TimerIs DEF Told, Flushers
    <2>3. \A u \in Flushers : pc'[u] = IF u = Timer THEN "clear" ELSE pc[u]
      BY <1>3, <2>2 DEF STypes
    <2>4. \A u \in Tasks : pc'[u] \notin {"flush", "write", "clear"}
      BY <2>1, <2>3, TimerIs, SessionAssumption DEF Told, SessionAssumption
    <2>5. Dirty(cache)' => Plain(cache)'
      BY <1>1, <2>1 DEF Told, Plain
    <2>6. \A u \in Flushers : pc'[u] \in {"write", "upsert"} => Plain(snap[u])'
      BY <1>3, <2>1, <2>3 DEF Told, Plain
    <2>7. snap[t].rev >= stored
      <3>1. ~(snap[t].rev < stored)
        BY DEF FlushWrite, Excuse, Serious
      <3> QED
        BY <3>1, Numbers
    <2>8. ASSUME HasCurrent(hist)
          PROVE  /\ (row.inc \subseteq Files)' => Matches(row)'
                 /\ Dirty(cache)' => Behind(cache)' \/ Matches(cache)'
                 /\ ~At("cache")' /\ ~At("apply")' /\ Plain(cache)' => Matches(cache)'
      <3>1. Plain(snap[t])
        BY <1>1, <2>1 DEF Told
      <3>2. Behind(snap[t]) \/ (Matches(cache) /\ Matches(snap[t]))
        BY <1>1, <2>1, <2>2, <2>7, <2>8 DEF Told
      <3>3. (row.inc \subseteq Files) => Matches(row)
        BY <2>1, <2>8 DEF Told
      <3>4. Behind(snap[t]) => ~(row'.inc \subseteq Files)
        BY <1>4, <3>1 DEF Behind, Plain
      <3>5. ASSUME row'.inc \subseteq Files PROVE Matches(cache) /\ Matches(row)'
        <4>1. Matches(cache) /\ Matches(snap[t]) /\ ~Behind(snap[t])
          BY <3>2, <3>4, <3>5
        <4> DEFINE c == Current(hist)
        <4>2. snap[t].inc = c.inc /\ snap[t].exc = c.exc
          BY <4>1 DEF Matches, Selection
        <4>3. c.inc \cap c.exc = {}
          BY <2>8, CurrentIs DEF HTypes
        <4>4. row.at > snap[t].at => row.inc = c.inc
          BY <3>3, <4>1 DEF Behind, Matches, Selection
        <4> HIDE DEF c
        <4>5. row'.inc = c.inc /\ row'.exc = c.exc
          BY <1>4, <4>2, <4>3, <4>4
        <4> QED
          BY <1>6, <4>1, <4>5 DEF c, Matches, Selection
      <3>6. (row.inc \subseteq Files)' => Matches(row)'
        BY <3>5
      <3>7. Behind(cache)' \/ Matches(cache)'
        <4>1. CASE row'.inc \subseteq Files
          BY <1>1, <1>6, <3>5, <4>1 DEF Matches
        <4>2. CASE ~(row'.inc \subseteq Files)
          <5>1. row'.at > cache.at
            BY <1>4, TimesAre DEF Times
          <5> QED
            BY <1>1, <4>2, <5>1 DEF Behind
        <4> QED
          BY <4>1, <4>2
      <3>8. ~At("cache")' /\ ~At("apply")' /\ Plain(cache)' => Matches(cache)'
        BY <1>1, <1>6, <2>1, <2>8 DEF Told, Plain, Matches
      <3> QED
        BY <3>6, <3>7, <3>8
    <2>9. pc'[Timer] # "write"
      BY <2>3, TimerIs
    <2> QED
      BY <1>1, <1>2, <1>6, <2>4, <2>5, <2>6, <2>8, <2>9 DEF Told
  <1> QED
    BY <1>7, <1>8

\* Edits of plain fields leave the selection.
LEMMA EditFollows ==
    ASSUME STypes, STypes', Followed, names = 0 => Told, Cascade, NEW t \in Tasks,
           Rename(t) \/ EditFields(t) \/ UpdateRead(t) \/ GetRead(t)
    PROVE  Followed' /\ (names' = 0 => Told')
  <1>0. work' = work /\ (hist' = hist \/ ~HasCurrent(hist'))
    BY CascadeIs
  <1>1. CASE Rename(t) \/ EditFields(t)
    <2>1. PICK n : cache' = [cache EXCEPT !.name = names + 1, !.at = n, !.dirtyFields = TRUE, !.rev = @ + 1]
      BY <1>1 DEF Rename, EditFields
    <2>2. cache'.there = cache.there /\ cache'.inc = cache.inc /\ cache'.exc = cache.exc
      BY <2>1 DEF STypes, Session
    <2>3. UNCHANGED <<row, stored, crashes>> /\ names' # 0
      <3>1. UNCHANGED <<row, stored, crashes>> /\ names' = names + 1
        BY <1>1 DEF Rename, EditFields, history
      <3> QED
        BY <3>1, Numbers
    <2>4. Calm
      BY <1>0, <2>2, <2>3 DEF Calm, At, Selection
    <2> QED
      BY <2>4, CalmKeeps
  <1>2. CASE UpdateRead(t)
    <2>1. UNCHANGED <<row, cache, stored, crashes>> /\ names' # 0
      BY <1>2, Numbers DEF UpdateRead, history
    <2>2. Calm
      BY <1>0, <2>1 DEF Calm, At
    <2> QED
      BY <2>2, CalmKeeps
  <1>3. CASE GetRead(t)
    <2>1. /\ UNCHANGED <<row, cache, stored, crashes, names>>
          /\ \A u \in Flushers : (pc'[u] = pc[u] /\ snap'[u] = snap[u]) \/ pc'[u] = "insert"
      BY <1>3, TimerIs DEF GetRead, Goto, Hold, STypes, history, bounds
    <2>2. \A u \in Flushers :
              /\ pc'[u] \in {"write", "upsert"} => pc'[u] = pc[u] /\ snap'[u] = snap[u]
              /\ pc'[u] \in {"flush", "clear"} => pc'[u] = pc[u]
      BY <2>1
    <2>3. Calm
      BY <1>0, <2>1, <2>2 DEF Calm, At
    <2> QED
      BY <2>3, CalmKeeps
  <1> QED
    BY <1>1, <1>2, <1>3

\* A late load is the row's selection, or an excuse.
LEMMA InsertFollows ==
    ASSUME STypes, Core, Followed, names = 0 => Told, Cascade, NEW t \in Tasks,
           Upsert(t) \/ GetInsert(t), excuses' \cap Serious = {}
    PROVE  Followed' /\ (names' = 0 => Told')
  <1>0. t \in Flushers /\ work' = work /\ (hist' = hist \/ ~HasCurrent(hist'))
    BY CascadeIs, TimerIs
  <1>1. /\ UNCHANGED <<row, stored, crashes, names>> /\ snap[t] \in Session
        /\ pc'[t] = "idle" /\ \A u \in Flushers : u # t => pc'[u] = pc[u] /\ snap'[u] = snap[u]
    BY <1>0 DEF Upsert, GetInsert, STypes, Goto, Hold, bounds
  <1>2. \A u \in Flushers : /\ pc'[u] \in {"write", "upsert"} => pc'[u] = pc[u] /\ snap'[u] = snap[u]
                            /\ pc'[u] \in {"flush", "clear"} => pc'[u] = pc[u]
    BY <1>1
  <1>3. CASE Upsert(t)
    <2> DEFINE f == ~cache.there \/ cache.name # snap[t].name
               g == cache.there /\ <<cache.inc, cache.exc>> # <<snap[t].inc, snap[t].exc>>
               r == IF cache.there THEN cache.rev + 1 ELSE 1
    <2>1. /\ cache'.there = TRUE /\ cache'.inc = snap[t].inc /\ cache'.exc = snap[t].exc /\ cache'.at = snap[t].at
          /\ cache'.dirtyFields = f /\ cache'.dirtyFiles = g
      <3>1. cache' = [snap[t] EXCEPT !.there = TRUE, !.dirtyFields = f, !.dirtyFiles = g, !.rev = r]
        BY <1>3 DEF Upsert, Upserted
      <3> HIDE DEF f, g, r
      <3> QED
        BY <1>1, <3>1 DEF Session
    <2>2. pc[t] = "upsert" /\ snap[t].name <= names
      BY <1>0, <1>3 DEF Upsert, Core, Made
    <2>3. CASE cache.there
      <3>1. ~g
        <4>1. ~cache'.dirtyFiles
          BY <1>3, <2>3 DEF Upsert, Excuse, Serious
        <4> HIDE DEF f, g
        <4> QED
          BY <2>1, <4>1
      <3>2. Selection(cache') = Selection(cache)
        BY <2>1, <2>3, <3>1 DEF Selection
      <3>3. names = 0 => ~Dirty(cache')
        <4>1. names = 0 => snap[t].name = 0 /\ cache.name = 0
          BY <1>0, <2>2, Numbers DEF Core, Snapshots
        <4> QED
          BY <2>1, <2>3, <3>1, <4>1 DEF Dirty
      <3> QED
        BY <1>0, <1>1, <2>1, <2>3, <3>2, <3>3, EndsKeep
    <2>4. CASE ~cache.there
      <3>1. cache'.at = snap[t].at /\ Selection(cache') = Selection(snap[t])
        BY <2>1 DEF Selection
      <3> QED
        BY <1>0, <1>1, <1>2, <2>1, <2>2, <2>4, <3>1, FirstKeeps
    <2> QED
      BY <2>3, <2>4
  <1>4. CASE GetInsert(t)
    <2>1. ~(cache.there \/ Loaded(row) # snap[t]) /\ cache' = snap[t]
      BY <1>4 DEF GetInsert, Excuse, Serious
    <2>2. ~Dirty(cache')
      BY <2>1, LoadedIs DEF STypes
    <2> QED
      BY <1>0, <1>1, <1>2, <2>1, <2>2, FirstKeeps
  <1> QED
    BY <1>3, <1>4

\* A session that is made has no history yet.
LEMMA CreateFollows ==
    ASSUME STypes, Core, Committed, ~deleted, Followed, names = 0 => Told, Cascade, NEW t \in Tasks, Create(t)
    PROVE  Followed' /\ (names' = 0 => Told')
  <1>0. t \in Flushers /\ work' = work /\ ~row.there /\ ~cache.there
    BY CascadeIs, TimerIs DEF Create
  <1>1. /\ UNCHANGED <<cache, names>> /\ row' = [Fresh EXCEPT !.at = clock + 1] /\ snap'[t] = row'
        /\ pc'[t] = "upsert" /\ \A u \in Flushers : u # t => pc'[u] = pc[u] /\ snap'[u] = snap[u]
    BY <1>0 DEF Create, STypes, Goto, Hold, bounds
  <1>2. row'.there /\ row'.inc = {} /\ row'.exc = {}
    BY <1>1 DEF Fresh, NoSession
  <1>3. ~At("cache") /\ ~At("apply")
    BY <1>0 DEF Committed, Core, Made
  <1>4. ~HasCurrent(hist)
    BY <1>0, <1>3 DEF Followed
  <1>5. ~HasCurrent(hist)'
    BY <1>2, <1>4, CascadeIs DEF HasCurrent
  <1>6. Followed'
    BY <1>0, <1>3, <1>5 DEF Followed, At
  <1>7. ASSUME names' = 0 PROVE Told'
    <2>1. Told
      BY <1>1, <1>7
    <2>2. \A u \in Tasks : pc'[u] \notin {"flush", "write", "clear"}
      <3>1. \A u \in Tasks : u # t => pc'[u] = pc[u]
        BY <1>1, TimerIs
      <3> QED
        BY <1>1, <2>1, <3>1 DEF Told
    <2>3. ~Dirty(cache)'
      BY <1>0, <1>1 DEF Dirty
    <2>4. \A u \in Flushers : pc'[u] \in {"write", "upsert"} => Plain(snap[u])'
      <3>1. TAKE u \in Flushers
      <3>2. CASE u = t
        BY <1>1, <1>2, <3>2 DEF Plain
      <3>3. CASE u # t
        BY <1>1, <2>1, <3>3 DEF Told, Plain
      <3> QED
        BY <3>2, <3>3
    <2> QED
      BY <1>5, <2>2, <2>3, <2>4 DEF Told
  <1> QED
    BY <1>6, <1>7

LEMMA HistoryCommandFollows ==
    ASSUME STypes, Core, Followed, names = 0 => Told, NEW t \in Tasks, HistoryBegin(t) \/ HistoryStep(t)
    PROVE  Followed' /\ (names' = 0 => Told')
  <1>1. /\ UNCHANGED <<row, snap, hist, crashes, names, stored, work>>
        /\ \A u \in Flushers : pc'[u] = pc[u] \/ pc'[u] \in {"entries", "change", "wait", "idle"}
        /\ cache' = cache \/ (~cache.there /\ row.there /\ cache' = Loaded(row))
    BY HistoryCommandIs
  <1>2. \A u \in Flushers : /\ pc'[u] \in {"write", "upsert"} => pc'[u] = pc[u] /\ snap'[u] = snap[u]
                            /\ pc'[u] \in {"flush", "clear"} => pc'[u] = pc[u]
    BY <1>1
  <1>3. CASE cache' = cache
    <2>1. Calm
      BY <1>1, <1>2, <1>3 DEF Calm, At
    <2> QED
      BY <2>1, CalmKeeps
  <1>4. CASE ~cache.there /\ cache' = Loaded(row)
    <2>1. ~Dirty(cache')
      BY <1>4, LoadedIs DEF STypes
    <2> QED
      BY <1>1, <1>2, <1>4, <2>1, FirstKeeps
  <1> QED
    BY <1>1, <1>3, <1>4

\* The transaction and the delta on the cache make the same selection.
LEMMA WorkerFollows ==
    ASSUME STypes, HTypes, Times, Core, Committed, ~deleted, Followed, names = 0 => Told, WorkerStep
    PROVE  Followed' /\ (names' = 0 => Told')
  <1>1. CASE WorkerSync \/ WorkerRead \/ WorkerMerge
    <2>1. UNCHANGED <<cache, pc, snap, names, stored, crashes>> /\ ~At("cache") /\ ~At("apply") /\ ~At("apply")'
      BY <1>1, WorkerCommits
    <2>2. CASE UNCHANGED <<row, hist>>
      <3>1. Calm
        BY <2>1, <2>2 DEF Calm
      <3> QED
        BY <3>1, CalmKeeps
    <2>3. CASE ~UNCHANGED <<row, hist>>
      <3>1. At("cache")' /\ row'.at = clock + 1 /\ ~(row'.inc \subseteq Files)
        BY <1>1, <2>3, WorkerCommits
      <3>2. Followed'
        BY <2>1, <3>1 DEF Followed, At
      <3>3. ASSUME names' = 0 PROVE Told'
        <4>1. Told
          BY <2>1, <3>3
        <4>2. Behind(cache)' /\ \A t \in Flushers : Behind(snap[t])'
          <5>1. row'.at > cache.at /\ \A t \in Flushers : row'.at > snap[t].at
            BY <3>1, TimesAre DEF Times
          <5> QED
            BY <2>1, <3>1, <5>1 DEF Behind
        <4>3. \A t \in Tasks : pc'[t] \notin {"flush", "write", "clear"}
          BY <2>1, <4>1 DEF Told
        <4>4. Dirty(cache)' => Plain(cache)'
          BY <2>1, <4>1 DEF Told, Plain
        <4>5. \A t \in Flushers : pc'[t] \in {"write", "upsert"} => Plain(snap[t])'
          BY <2>1, <4>1 DEF Told, Plain
        <4> QED
          BY <3>1, <4>2, <4>3, <4>4, <4>5, TimerIs DEF Told
      <3> QED
        BY <3>2, <3>3
    <2> QED
      BY <2>2, <2>3
  <1>2. CASE WorkerGet
    <2>1. /\ UNCHANGED <<row, pc, snap, names, stored, crashes, hist>> /\ At("cache")
      BY <1>2 DEF WorkerGet, history, bounds
    <2>2. row.there /\ HasCurrent(hist) /\ row \in Session
      BY <2>1 DEF Committed, STypes
    <2>3. cache' = IF cache.there THEN cache ELSE Loaded(row)
      BY <1>2, <2>2 DEF WorkerGet
    <2>4. cache'.there
      BY <2>2, <2>3, LoadedIs
    <2>5. work' = [work EXCEPT !.step = "apply", !.base = Selection(cache')]
      BY <1>2, <2>1, <2>2, <2>4 DEF WorkerGet
    <2>6. At("apply")' /\ ~At("cache")' /\ work'.base = Selection(cache')
      BY <2>5 DEF HTypes, WorkShape, At
    <2>7. Followed'
      BY <2>4, <2>6 DEF Followed
    <2>8. ASSUME names' = 0 PROVE Told'
      <3>1. Told
        BY <2>1, <2>8
      <3>2. ~Dirty(Loaded(row))
        BY <2>2, LoadedIs
      <3>3. Dirty(cache)' => Dirty(cache) /\ cache' = cache
        BY <2>3, <3>2 DEF Dirty
      <3>4. pc[Timer] = "write" => cache' = cache
        BY <2>3, TimerIs DEF Core, Made
      <3>5. \A t \in Tasks : pc'[t] \notin {"flush", "write", "clear"}
        BY <2>1, <3>1 DEF Told
      <3>6. Dirty(cache)' => Plain(cache)'
        BY <3>1, <3>3 DEF Told, Plain
      <3>7. \A t \in Flushers : pc'[t] \in {"write", "upsert"} => Plain(snap[t])'
        BY <2>1, <3>1 DEF Told, Plain
      <3>8. Current(hist)' = Current(hist)
        BY <2>1 DEF Current
      <3>9. (row.inc \subseteq Files)' => Matches(row)'
        BY <2>1, <2>2, <3>1, <3>8 DEF Told, Matches
      <3>10. Dirty(cache)' => Behind(cache)' \/ Matches(cache)'
        BY <2>1, <2>2, <3>1, <3>3, <3>8 DEF Told, Matches, Behind
      <3>11. pc'[Timer] = "write" /\ snap'[Timer].rev >= stored' =>
                Behind(snap[Timer])' \/ (Matches(cache)' /\ Matches(snap[Timer])')
        BY <2>1, <2>2, <3>1, <3>4, <3>8 DEF Told, Matches, Behind
      <3> QED
        BY <2>4, <2>6, <3>5, <3>6, <3>7, <3>9, <3>10, <3>11 DEF Told
    <2> QED
      BY <2>7, <2>8
  <1>3. CASE WorkerApply
    <2>1. /\ UNCHANGED <<row, pc, snap, names, stored, crashes, hist>> /\ At("apply")
      BY <1>3 DEF WorkerApply, history, bounds
    <2>2. cache.there /\ HasCurrent(hist) /\ work.base = Selection(cache)
      BY <2>1 DEF Core, Made, Committed, Followed
    <2>3. PICK n \in Nat : cache' = Applied(Current(hist).inc, Current(hist).exc, n)
      BY <1>3, <2>2, EditTimesAre DEF WorkerApply
    <2>4. Selection(cache') = Selection(Current(hist)) /\ cache'.there /\ cache'.inc \cup cache'.exc \subseteq Files
      BY <2>2, <2>3, AppliedIs
    <2>5. Current(hist)' = Current(hist)
      BY <2>1 DEF Current
    <2>6. Matches(cache)' /\ Plain(cache)'
      BY <2>4, <2>5 DEF Matches, Plain
    <2>7. ~At("apply")' /\ ~At("cache")'
      BY <1>3, StepTypes DEF WorkerApply, At
    <2>8. Followed'
      BY <2>4, <2>6, <2>7 DEF Followed
    <2>9. ASSUME names' = 0 PROVE Told'
      <3>1. Told
        BY <2>1, <2>9
      <3>2. \A t \in Tasks : pc'[t] \notin {"flush", "write", "clear"}
        BY <2>1, <3>1 DEF Told
      <3>3. \A t \in Flushers : pc'[t] \in {"write", "upsert"} => Plain(snap[t])'
        BY <2>1, <3>1 DEF Told, Plain
      <3>4. (row.inc \subseteq Files)' => Matches(row)'
        BY <2>1, <2>2, <2>5, <3>1 DEF Told, Matches
      <3>5. pc'[Timer] = "write" /\ snap'[Timer].rev >= stored' => Behind(snap[Timer])' \/ Matches(snap[Timer])'
        BY <2>1, <2>2, <2>5, <3>1 DEF Told, Matches, Behind
      <3> QED
        BY <2>4, <2>6, <3>2, <3>3, <3>4, <3>5 DEF Told
    <2> QED
      BY <2>8, <2>9
  <1>4. CASE WorkerReply
    <2>1. /\ UNCHANGED <<row, cache, snap, names, stored, crashes, hist>> /\ At("reply")
          /\ work'.step = "recv"
      BY <1>4, NoHistoryIs DEF WorkerReply, history, bounds
    <2>2. pc' = pc \/ pc' = [pc EXCEPT ![op.by] = "idle"]
      BY <1>4 DEF WorkerReply, Goto
    <2>3. \A u \in Flushers : pc'[u] = pc[u] \/ pc'[u] = "idle"
      BY <2>2 DEF STypes
    <2>4. \A u \in Flushers : /\ pc'[u] \in {"write", "upsert"} => pc'[u] = pc[u] /\ snap'[u] = snap[u]
                              /\ pc'[u] \in {"flush", "clear"} => pc'[u] = pc[u]
      BY <2>1, <2>3
    <2>5. Calm
      BY <2>1, <2>4 DEF Calm, At
    <2> QED
      BY <2>5, CalmKeeps
  <1> QED
    BY <1>1, <1>2, <1>3, <1>4 DEF WorkerStep

\* After an end of the process the cache has the selection of the row.
LEMMA RestartFollows ==
    ASSUME STypes, Core, Committed, Times, ~deleted, Followed, names = 0 => Told, Restart
    PROVE  Followed' /\ (names' = 0 => Told')
  <1>1. /\ UNCHANGED <<row, names, hist>> /\ crashes' = crashes + 1 /\ row \in Session
        /\ pc' = [t \in Flushers |-> "idle"] /\ snap' = [t \in Flushers |-> NoSession]
        /\ cache' = (IF row.there THEN Loaded(row) ELSE NoSession) /\ work'.step = "recv"
    BY NoHistoryIs DEF Restart, Crash, STypes
  <1>2. ~At("cache")' /\ ~At("apply")' /\ crashes' # 0
    BY <1>1 DEF At, Times
  <1>3. HasCurrent(hist)' = HasCurrent(hist) /\ Current(hist)' = Current(hist)
    BY <1>1 DEF HasCurrent, Current
  <1>4. HasCurrent(hist) => row.there
    BY DEF Followed, Core, Made, Committed
  <1>5. HasCurrent(hist) => cache'.there /\ Selection(cache') = Selection(row)
    BY <1>1, <1>4, LoadedIs, LoadedAt
  <1>6. Followed'
    BY <1>2, <1>3, <1>5 DEF Followed
  <1>7. ASSUME names' = 0 PROVE Told'
    <2>1. Told
      BY <1>1, <1>7
    <2>2. ~Dirty(cache)'
      <3>1. ~Dirty(Loaded(row)) /\ ~Dirty(NoSession)
        BY <1>1, LoadedIs DEF Dirty, NoSession
      <3> QED
        BY <1>1, <3>1 DEF Dirty
    <2>3. HasCurrent(hist)' => ((row.inc \subseteq Files)' => Matches(row)')
      BY <1>1, <1>3, <2>1 DEF Told, Matches
    <2>4. HasCurrent(hist)' /\ Plain(cache)' => Matches(cache)'
      <3>1. SUFFICES ASSUME HasCurrent(hist), Plain(cache)' PROVE Matches(cache)'
        BY <1>3
      <3>2. cache'.inc = row.inc /\ cache'.exc = row.exc
        BY <1>5, <3>1 DEF Selection
      <3>3. Matches(row)
        BY <2>1, <3>1, <3>2 DEF Told, Plain
      <3> QED
        BY <1>3, <1>5, <3>1, <3>3 DEF Matches
    <2>5. \A t \in Flushers : pc'[t] = "idle"
      BY <1>1
    <2> QED
      BY <2>2, <2>3, <2>4, <2>5, TimerIs DEF Told
  <1> QED
    BY <1>6, <1>7

-------------------------------------------------------------------------------
\* Every step keeps the selection in step, unless the session is deleted or an excuse applies.
LEMMA NextFollows ==
    ASSUME IInv, IInv', Times, Followed, names = 0 => Told, [Next]_vars,
           excuses \cap Serious = {}, excuses' \cap Serious = {}, ~deleted, ~deleted'
    PROVE  Followed' /\ (names' = 0 => Told')
  <1>0. STypes /\ STypes' /\ HTypes /\ Deletion /\ Committed /\ Core
    BY DEF IInv, FlushInv, Core
  <1>1. ASSUME NEW t \in Flushers, FlushStep(t), Cascade PROVE Followed' /\ (names' = 0 => Told')
    BY <1>0, <1>1, FlushSnapshotFollows, FlushEndsFollow, FlushWriteFollows DEF FlushStep
  <1>2. ASSUME NEW t \in Tasks, CommandStep(t) \/ Begin(t), Cascade PROVE Followed' /\ (names' = 0 => Told')
    <2>1. ~DeleteRow(t) /\ ~RemoveEntry(t)
      BY <1>0, TimerIs DEF DeleteRow, RemoveEntry, Deletion
    <2> QED
      BY <1>0, <1>2, <2>1, EditFollows, InsertFollows, CreateFollows DEF CommandStep, Begin
  <1>3. ASSUME NEW t \in Tasks, HistoryBegin(t) \/ HistoryStep(t) PROVE Followed' /\ (names' = 0 => Told')
    BY <1>0, <1>3, HistoryCommandFollows
  <1>4. CASE WorkerStep
    BY <1>0, <1>4, WorkerFollows
  <1>5. CASE Restart
    BY <1>0, <1>5, RestartFollows
  <1>6. CASE UNCHANGED vars
    <2>1. Calm
      BY <1>6 DEF vars, sessionVars, historyVars, history, bounds, Calm, At
    <2> QED
      BY <2>1, CalmKeeps
  <1> QED
    BY <1>1, <1>2, <1>3, <1>4, <1>5, <1>6 DEF Next

LEMMA InitFollowInv == HistoryInit => FollowInv
  <1> SUFFICES ASSUME HistoryInit PROVE Times /\ Followed /\ Told
    BY DEF FollowInv
  <1>1. /\ row = cache /\ row \in {Fresh, NoSession} /\ clock = 1 /\ crashes = 0
        /\ pc = [t \in Flushers |-> "idle"] /\ snap = [t \in Flushers |-> NoSession]
        /\ hist = NoHistory /\ work.step = "recv"
    BY NoHistoryIs DEF HistoryInit, SessionInit, Idle, NothingQueued
  <1>2. /\ row.at = 0 /\ cache.at = 0 /\ NoSession.at = 0 /\ ~Dirty(cache)
    BY <1>1 DEF Fresh, NoSession, Dirty
  <1>3. ~HasCurrent(hist)
    BY <1>1 DEF HasCurrent, NoHistory
  <1>4. ~At("cache") /\ ~At("apply")
    BY <1>1 DEF At
  <1>5. Times
    BY <1>1, <1>2 DEF Times
  <1>6. Followed
    BY <1>3, <1>4 DEF Followed
  <1>7. Told
    BY <1>1, <1>2, <1>3, TimerIs DEF Told
  <1> QED
    BY <1>5, <1>6, <1>7

LEMMA NextTimes ==
    ASSUME IInv, Times, Followed, [Next]_vars, excuses \cap Serious = {}, ~deleted
    PROVE  Times'
  <1>0. STypes /\ HTypes /\ Committed /\ Core /\ (At("apply") => work.base = Selection(cache))
    BY DEF IInv, FlushInv, Core, Followed
  <1>1. ASSUME NEW t \in Flushers, FlushStep(t) PROVE Times'
    BY <1>0, <1>1, FlushStepTimes
  <1>2. ASSUME NEW t \in Tasks, CommandStep(t) \/ Begin(t) PROVE Times'
    BY <1>0, <1>2, CommandTimes
  <1>3. CASE (\E t \in Tasks : HistoryBegin(t) \/ HistoryStep(t)) \/ WorkerStep \/ Restart \/ UNCHANGED vars
    BY <1>0, <1>3, OtherTimes
  <1> QED
    BY <1>1, <1>2, <1>3 DEF Next

\* The invariant is inductive.
LEMMA NextFollowInv == IInv /\ IInv' /\ FollowInv /\ [Next]_vars => FollowInv'
  <1> SUFFICES ASSUME IInv, IInv', FollowInv, [Next]_vars, excuses' \cap Serious = {}, ~deleted'
               PROVE  Times' /\ Followed' /\ (names' = 0 => Told')
    BY DEF FollowInv
  <1>1. excuses \subseteq excuses' /\ (deleted => deleted')
    BY ExcusesStay DEF IInv
  <1>2. excuses \cap Serious = {} /\ ~deleted
    BY <1>1
  <1>3. Times /\ Followed /\ (names = 0 => Told)
    BY <1>2 DEF FollowInv
  <1>4. Times'
    BY <1>2, <1>3, NextTimes
  <1>5. Followed' /\ (names' = 0 => Told')
    BY <1>2, <1>3, NextFollows
  <1> QED
    BY <1>4, <1>5

\* The row, the snapshots and the cache follow the current entry of the history.
THEOREM FollowInvariant == Spec => []FollowInv
  <1> QED
    BY InitFollowInv, NextFollowInv, SessionInvariant, PTL DEF Spec

\* With nothing queued the cached session has the files of the history's current entry: the
\* worker's two writes, the transaction and the delta on the cache, come to the same.
THEOREM SelectionFollowed == Spec => []SelectionFollowsHistory
  <1>1. IInv /\ FollowInv => SelectionFollowsHistory
    <2>1. SUFFICES ASSUME IInv, FollowInv, ops = <<>>, row.there, cache.there, HasCurrent(hist), excuses = {},
                          crashes = 0 \/ (names = 0 /\ cache.inc \cup cache.exc \subseteq Files)
                   PROVE  Matches(cache)
      BY DEF SelectionFollowsHistory, Matches
    <2>2. ~deleted
      BY <2>1 DEF IInv, Deletion
    <2>3. Followed /\ (names = 0 => Told)
      BY <2>1, <2>2 DEF FollowInv
    <2>4. ~At("cache") /\ ~At("apply")
      BY <2>1 DEF IInv, HTypes, At
    <2>5. CASE crashes = 0
      BY <2>1, <2>3, <2>4, <2>5 DEF Followed
    <2>6. CASE names = 0 /\ Plain(cache)
      BY <2>1, <2>3, <2>4, <2>6 DEF Told
    <2> QED
      BY <2>1, <2>5, <2>6 DEF Plain
  <1> QED
    BY <1>1, SessionInvariant, FollowInvariant, PTL
================================================================================
