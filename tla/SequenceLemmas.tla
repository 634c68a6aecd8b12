---------------------------- MODULE SequenceLemmas ----------------------------
(***************************************************************************)
(* What the proofs about several components need of numbers, recursive      *)
(* functions and sequences.  An operator cannot be the parameter of a       *)
(* theorem that is cited, so induction is over a set of numbers, and the    *)
(* step of a recursive function is a function: it exists, so CHOOSE picks   *)
(* one, and what each step keeps the function keeps.                        *)
(***************************************************************************)
EXTENDS SequencesExt, SequenceTheorems, FiniteSetTheorems, WellFoundedInduction, TLAPS

\* A set of numbers has a least one.
LEMMA LeastNumber ==
    ASSUME NEW T, T \subseteq Nat, T # {}
    PROVE  \E x \in T : \A y \in T : x <= y
  <1> DEFINE R == {p \in Nat \X Nat : p[1] < p[2]}
  <1>1. R = OpToRel(<, Nat)
    BY DEF OpToRel
  <1>2. \E x \in T : \A y \in T : <<y, x>> \notin R
    BY <1>1, NatLessThanWellFounded, WFMin
  <1>3. PICK x \in T : \A y \in T : <<y, x>> \notin R
    BY <1>2
  <1>4. \A y \in T : ~(y < x)
    BY <1>3
  <1> QED
    BY <1>4

\* A set with 0 and the successor of each of its numbers has every number.
LEMMA SetInduction ==
    ASSUME NEW S, 0 \in S, \A n \in Nat : n \in S => n + 1 \in S
    PROVE  Nat \subseteq S
  <1>1. SUFFICES ASSUME Nat \ S # {} PROVE FALSE
    OBVIOUS
  <1>2. PICK x \in Nat \ S : \A y \in Nat \ S : x <= y
    BY <1>1, LeastNumber
  <1>3. x # 0 /\ x - 1 \in Nat
    BY <1>2
  <1>4. x - 1 \in S
    BY <1>2, <1>3
  <1> QED
    BY <1>4, <1>3

\* A fold over 1..n in which each step maps X to X.
IsFold(f, x, F, n) == f = [k \in 0..n |-> IF k = 0 THEN x ELSE F[<<f[k - 1], k>>]]

\* The recursive functions of the model are functions: their equations hold.
LEMMA FoldExists ==
    ASSUME NEW n \in Nat, NEW X, NEW x \in X, NEW F \in [X \X (1..n) -> X]
    PROVE  \E f \in [0..n -> X] : IsFold(f, x, F, n)
  <1> DEFINE S == {m \in Nat : m <= n => \E f \in [0..m -> X] : IsFold(f, x, F, m)}
  <1>1. 0 \in S
    <2>1. [k \in 0..0 |-> x] \in [0..0 -> X] /\ IsFold([k \in 0..0 |-> x], x, F, 0)
      BY DEF IsFold
    <2> QED
      BY <2>1
  <1>2. ASSUME NEW m \in Nat, m \in S PROVE m + 1 \in S
    <2>1. SUFFICES ASSUME m + 1 <= n PROVE \E f \in [0..(m + 1) -> X] : IsFold(f, x, F, m + 1)
      OBVIOUS
    <2>2. PICK f \in [0..m -> X] : IsFold(f, x, F, m)
      BY <1>2, <2>1
    <2> DEFINE g == [k \in 0..(m + 1) |-> IF k = m + 1 THEN F[<<f[m], m + 1>>] ELSE f[k]]
    <2>3. f[m] \in X /\ m + 1 \in 1..n
      BY <2>1
    <2>4. F[<<f[m], m + 1>>] \in X
      BY <2>3
    <2>5. g \in [0..(m + 1) -> X]
      BY <2>4
    <2>6. \A k \in 0..m : f[k] = IF k = 0 THEN x ELSE F[<<f[k - 1], k>>]
      BY <2>2 DEF IsFold
    <2>a. g[m + 1] = F[<<f[m], m + 1>>]
      OBVIOUS
    <2>b. \A k \in 0..m : g[k] = f[k]
      OBVIOUS
    <2> HIDE DEF g
    <2>7. ASSUME NEW k \in 0..(m + 1) PROVE g[k] = IF k = 0 THEN x ELSE F[<<g[k - 1], k>>]
      <3>2. CASE k = m + 1
        <4>1. g[m] = f[m] /\ k # 0 /\ k - 1 = m
          BY <3>2, <2>b
        <4> QED
          BY <3>2, <4>1, <2>a
      <3>3. CASE k \in 1..m
        <4>1. g[k] = f[k] /\ g[k - 1] = f[k - 1] /\ k # 0 /\ k \in 0..m
          BY <3>3, <2>b
        <4> QED
          BY <4>1, <2>6
      <3>4. CASE k = 0
        <4>1. 0 \in 0..m
          OBVIOUS
        <4>2. g[0] = f[0] /\ f[0] = x
          BY <4>1, <2>b, <2>6
        <4> QED
          BY <3>4, <4>2
      <3> QED
        BY <3>2, <3>3, <3>4
    <2>8. g = [k \in 0..(m + 1) |-> IF k = 0 THEN x ELSE F[<<g[k - 1], k>>]]
      BY <2>5, <2>7
    <2> QED
      BY <2>5, <2>8 DEF IsFold
  <1> HIDE DEF S
  <1>3. Nat \subseteq S
    BY <1>1, <1>2, SetInduction
  <1> QED
    BY <1>3 DEF S
--------------------------------------------------------------------------------
\* What RemoveAt returns: the sequence without its i-th element.
LEMMA RemoveAtProperties ==
    ASSUME NEW S, NEW s \in Seq(S), NEW i \in 1..Len(s)
    PROVE  /\ RemoveAt(s, i) \in Seq(S)
           /\ Len(RemoveAt(s, i)) = Len(s) - 1
           /\ \A k \in 1..(Len(s) - 1) :
                RemoveAt(s, i)[k] = IF k < i THEN s[k] ELSE s[k + 1]
<1> DEFINE a == SubSeq(s, 1, i - 1)
           b == SubSeq(s, i + 1, Len(s))
<1>1. Len(s) \in Nat /\ i \in Nat /\ 1 <= i /\ i <= Len(s)
  BY LenProperties
<1>2. \A k \in 1..Len(s) : s[k] \in S
  BY ElementOfSeq
<1>3. /\ a \in Seq(S) /\ Len(a) = i - 1
      /\ \A k \in 1..(i - 1) : a[k] = s[k]
  BY <1>1, SubSeqProperties
<1>4. /\ b \in Seq(S) /\ Len(b) = Len(s) - i
      /\ \A k \in 1..(Len(s) - i) : b[k] = s[i + k]
  BY <1>1, SubSeqProperties
<1>5. /\ a \o b \in Seq(S) /\ Len(a \o b) = Len(a) + Len(b)
      /\ \A k \in 1..(Len(a) + Len(b)) :
            (a \o b)[k] = IF k <= Len(a) THEN a[k] ELSE b[k - Len(a)]
  BY <1>3, <1>4, ConcatProperties
<1>6. RemoveAt(s, i) = a \o b
  BY DEF RemoveAt
<1>. HIDE DEF a, b
<1>7. ASSUME NEW k \in 1..(Len(s) - 1)
      PROVE  (a \o b)[k] = IF k < i THEN s[k] ELSE s[k + 1]
  <2>1. CASE k < i
    BY <2>1, <1>1, <1>3, <1>4, <1>5, <1>7
  <2>2. CASE ~(k < i)
    <3>1. (a \o b)[k] = b[k - (i - 1)]
      BY <2>2, <1>1, <1>3, <1>4, <1>5, <1>7
    <3>2. k - (i - 1) \in 1..(Len(s) - i) /\ i + (k - (i - 1)) = k + 1
      BY <2>2, <1>1, <1>7
    <3>. QED  BY <3>1, <3>2, <2>2, <1>1, <1>4, <1>7
  <2>. QED  BY <2>1, <2>2, <1>1, <1>7
<1>8. /\ a \o b \in Seq(S)
      /\ Len(a \o b) = Len(s) - 1
  BY <1>1, <1>3, <1>4, <1>5
<1>. QED  BY <1>6, <1>7, <1>8, Zenon
===============================================================================
