-------------------------- MODULE Selection_proofs --------------------------
(***************************************************************************)
(* What Skip returns for every sequence, by induction on its length: there *)
(* is no least length at which it would return something else.             *)
(***************************************************************************)
EXTENDS Selection, Integers, FiniteSets, Functions, FiniteSetTheorems, WellFoundedInduction, TLAPS

\* The principle of induction, of which the library has a form without
\* operators as parameters.
LEMMA LeastNatural ==
    ASSUME NEW S \in SUBSET Nat, S # {}
    PROVE  \E n \in S : \A m \in S : n <= m
<1> DEFINE R == OpToRel(<, Nat)
<1>1. R = {ss \in Nat \X Nat : ss[1] < ss[2]}
    BY DEF OpToRel
<1>2. IsWellFoundedOn(R, Nat)
    BY NatLessThanWellFounded
<1> HIDE DEF R
<1>3. PICK n \in S : \A m \in S : ~(<<m, n>> \in R)
    BY <1>2, WFMin
<1>4. ASSUME NEW m \in S, ~(n <= m)
      PROVE  FALSE
  <2>1. <<m, n>> \in Nat \X Nat /\ m < n
      BY <1>4
  <2>2. <<m, n>>[1] < <<m, n>>[2]
      BY <2>1
  <2>3. <<m, n>> \in {ss \in Nat \X Nat : ss[1] < ss[2]}
      BY <2>1, <2>2
  <2> QED
      BY <1>1, <1>3, <2>3
<1> QED
    BY <1>4

-----------------------------------------------------------------------------
(* The definition of Skip defines a function. *)

StepOf(f, s, E, n) ==
    IF n = 0 THEN <<>> ELSE IF s[n] \in E THEN f[n - 1] ELSE Append(f[n - 1], s[n])

\* f is that function, up to k.
SkippedTo(f, s, E, k) == f = [n \in 0..k |-> StepOf(f, s, E, n)]

LEMMA SkippedExists ==
    ASSUME NEW s, NEW E, NEW top \in Nat
    PROVE  \E f : SkippedTo(f, s, E, top)
<1> DEFINE Missing == {k \in Nat : ~\E f : SkippedTo(f, s, E, k)}
<1>1. SUFFICES ASSUME Missing # {}
               PROVE  FALSE
    OBVIOUS
<1>2. Missing \in SUBSET Nat
    OBVIOUS
<1>3. PICK k \in Missing : \A m \in Missing : k <= m
    BY <1>1, <1>2, LeastNatural
<1>4. k \in Nat /\ ~\E f : SkippedTo(f, s, E, k)
    OBVIOUS
<1>5. CASE k = 0
  <2>1. SkippedTo([n \in 0..0 |-> <<>>], s, E, k)
      BY <1>5 DEF SkippedTo, StepOf
  <2> QED
      BY <1>4, <2>1
<1>6. CASE k # 0
  <2>1. k - 1 \in Nat /\ k - 1 \notin Missing
      BY <1>3, <1>4, <1>6
  <2>2. PICK f : SkippedTo(f, s, E, k - 1)
      BY <2>1
  <2> DEFINE g == [n \in 0..k |-> IF n = k THEN StepOf(f, s, E, k) ELSE f[n]]
  <2>3. ASSUME NEW n \in 0..k
        PROVE  g[n] = StepOf(g, s, E, n)
    <3>1. n # 0 => n - 1 \in 0..k /\ n - 1 # k
        BY <1>4
    <3>2. n # 0 => g[n - 1] = f[n - 1]
        BY <3>1
    <3>3. StepOf(g, s, E, n) = StepOf(f, s, E, n)
        BY <3>2 DEF StepOf
    <3>4. CASE n = k
        BY <3>3, <3>4
    <3>5. CASE n # k
      <4>1. n \in 0..(k - 1)
          BY <1>4, <3>5
      <4>2. f[n] = StepOf(f, s, E, n)
          BY <2>2, <4>1 DEF SkippedTo
      <4> QED
          BY <3>3, <3>5, <4>2
    <3> QED
        BY <3>4, <3>5
  <2>4. g = [n \in 0..k |-> g[n]]
      OBVIOUS
  <2> HIDE DEF g
  <2>5. SkippedTo(g, s, E, k)
      BY <2>3, <2>4 DEF SkippedTo
  <2> QED
      BY <1>4, <2>5
<1> QED
    BY <1>5, <1>6

LEMMA SkipIsSkipped ==
    ASSUME NEW X, NEW s \in Seq(X), NEW E
    PROVE  \E f : SkippedTo(f, s, E, Len(s)) /\ Skip(s, E) = f[Len(s)]
<1>1. Len(s) \in Nat
    OBVIOUS
<1>2. \E f : SkippedTo(f, s, E, Len(s))
    BY <1>1, SkippedExists
<1> QED
    BY <1>2 DEF Skip, SkippedTo, StepOf

-----------------------------------------------------------------------------
(* Its values. *)

\* How many of the first k entries are kept.
Kept(s, E, k) == {j \in 1..k : s[j] \notin E}
Rank(s, E, k) == Cardinality(Kept(s, E, k))

LEMMA RankFacts ==
    ASSUME NEW s, NEW E, NEW k \in Nat
    PROVE  /\ Rank(s, E, k) \in Nat /\ IsFiniteSet(Kept(s, E, k))
           /\ Rank(s, E, 0) = 0
           /\ Rank(s, E, k + 1) = Rank(s, E, k) + (IF s[k + 1] \in E THEN 0 ELSE 1)
           /\ \A i \in 0..k : Rank(s, E, i) <= Rank(s, E, k)
           /\ \A i \in 1..k : s[i] \notin E => Rank(s, E, i) >= 1
<1>1. ASSUME NEW i \in Nat
      PROVE  IsFiniteSet(Kept(s, E, i)) /\ Rank(s, E, i) \in Nat
  <2>1. IsFiniteSet(1..i) /\ Kept(s, E, i) \in SUBSET (1..i)
      BY FS_Interval DEF Kept
  <2> QED
      BY <2>1, FS_Subset, FS_CardinalityType DEF Rank
<1>2. Rank(s, E, 0) = 0
  <2>1. Kept(s, E, 0) = {}
      BY DEF Kept
  <2> QED
      BY <2>1, FS_EmptySet DEF Rank
<1>3. Rank(s, E, k + 1) = Rank(s, E, k) + (IF s[k + 1] \in E THEN 0 ELSE 1)
  <2>1. k + 1 \notin Kept(s, E, k)
      BY DEF Kept
  <2>2. CASE s[k + 1] \in E
    <3>1. Kept(s, E, k + 1) = Kept(s, E, k)
        BY <2>2 DEF Kept
    <3> QED
        BY <1>1, <2>2, <3>1 DEF Rank
  <2>3. CASE s[k + 1] \notin E
    <3>1. Kept(s, E, k + 1) = Kept(s, E, k) \union {k + 1}
        BY <2>3 DEF Kept
    <3> QED
        BY <1>1, <2>1, <2>3, <3>1, FS_AddElement DEF Rank
  <2> QED
      BY <2>2, <2>3
<1>4. ASSUME NEW i \in 0..k
      PROVE  Rank(s, E, i) <= Rank(s, E, k)
  <2>1. Kept(s, E, i) \in SUBSET Kept(s, E, k)
      BY DEF Kept
  <2> QED
      BY <1>1, <2>1, FS_Subset DEF Rank
<1>5. ASSUME NEW i \in 1..k, s[i] \notin E
      PROVE  Rank(s, E, i) >= 1
  <2>1. i \in Nat /\ i \in Kept(s, E, i)
      BY <1>5 DEF Kept
  <2>2. Rank(s, E, i) # 0
      BY <1>1, <2>1, FS_EmptySet DEF Rank
  <2> QED
      BY <1>1, <2>1, <2>2
<1> QED
    BY <1>1, <1>2, <1>3, <1>4, <1>5

\* q is what is kept of the first k entries of s.
IsSelection(q, s, E, k, X) ==
    /\ q \in Seq(X)
    /\ Len(q) = Rank(s, E, k)
    /\ \A i \in 1..k : s[i] \notin E => q[Rank(s, E, i)] = s[i]
    /\ \A p \in 1..Len(q) : \E i \in 1..k : s[i] \notin E /\ Rank(s, E, i) = p

LEMMA SelectionStep ==
    ASSUME NEW X, NEW s, NEW E, NEW k \in Nat, s[k + 1] \in X, NEW q, IsSelection(q, s, E, k, X)
    PROVE  IsSelection(IF s[k + 1] \in E THEN q ELSE Append(q, s[k + 1]), s, E, k + 1, X)
<1>1. /\ Rank(s, E, k) \in Nat
      /\ Rank(s, E, k + 1) = Rank(s, E, k) + (IF s[k + 1] \in E THEN 0 ELSE 1)
      /\ \A i \in 1..k : Rank(s, E, i) <= Rank(s, E, k)
      /\ \A i \in 1..k : s[i] \notin E => Rank(s, E, i) >= 1
      /\ \A i \in 1..k : Rank(s, E, i) \in Nat
    BY RankFacts
<1>2. 1..(k + 1) = (1..k) \union {k + 1}
    OBVIOUS
<1>3. CASE s[k + 1] \in E
    BY <1>1, <1>2, <1>3 DEF IsSelection
<1>4. CASE s[k + 1] \notin E
  <2> DEFINE r == Append(q, s[k + 1])
  <2>1. /\ r \in Seq(X) /\ Len(r) = Rank(s, E, k + 1) /\ Len(r) = Len(q) + 1
        /\ \A p \in 1..Len(q) : r[p] = q[p]
        /\ r[Len(q) + 1] = s[k + 1]
      BY <1>1, <1>4 DEF IsSelection
  <2> HIDE DEF r
  <2>2. ASSUME NEW i \in 1..(k + 1), s[i] \notin E
        PROVE  r[Rank(s, E, i)] = s[i]
    <3>1. CASE i = k + 1
        BY <2>1, <3>1 DEF IsSelection
    <3>2. CASE i \in 1..k
      <4>1. Rank(s, E, i) \in 1..Len(q) /\ q[Rank(s, E, i)] = s[i]
          BY <1>1, <2>2, <3>2 DEF IsSelection
      <4> QED
          BY <2>1, <4>1
    <3> QED
        BY <1>2, <3>1, <3>2
  <2>3. ASSUME NEW p \in 1..Len(r)
        PROVE  \E i \in 1..(k + 1) : s[i] \notin E /\ Rank(s, E, i) = p
    <3>1. CASE p \in 1..Len(q)
        BY <1>2, <3>1 DEF IsSelection
    <3>2. CASE p = Len(q) + 1
        BY <1>2, <1>4, <2>1, <3>2
    <3>3. Len(q) \in Nat
        BY DEF IsSelection
    <3> QED
        BY <2>1, <3>1, <3>2, <3>3
  <2>4. IsSelection(r, s, E, k + 1, X)
      BY <2>1, <2>2, <2>3 DEF IsSelection
  <2> QED
      BY <1>4, <2>4 DEF r
<1> QED
    BY <1>3, <1>4

LEMMA SkipSelects ==
    ASSUME NEW X, NEW s \in Seq(X), NEW E
    PROVE  IsSelection(Skip(s, E), s, E, Len(s), X)
<1> DEFINE n == Len(s)
<1>1. n \in Nat /\ \A i \in 1..n : s[i] \in X
    OBVIOUS
<1>2. PICK f : SkippedTo(f, s, E, n) /\ Skip(s, E) = f[n]
    BY SkipIsSkipped
<1> DEFINE Wrong == {k \in 0..n : ~IsSelection(f[k], s, E, k, X)}
<1>3. SUFFICES ASSUME Wrong # {}
               PROVE  FALSE
    BY <1>1, <1>2
<1>4. PICK k \in Wrong : \A m \in Wrong : k <= m
  <2>1. Wrong \in SUBSET Nat
      BY <1>1
  <2> QED
      BY <1>3, <2>1, LeastNatural
<1> HIDE DEF n
<1>5. k \in 0..n /\ ~IsSelection(f[k], s, E, k, X) /\ f[k] = StepOf(f, s, E, k)
    BY <1>2, <1>4 DEF SkippedTo
<1>6. CASE k = 0
  <2>1. f[k] = <<>> /\ Rank(s, E, k) = 0
      BY <1>5, <1>6, RankFacts DEF StepOf
  <2>2. IsSelection(<<>>, s, E, 0, X)
      BY <1>6, <2>1 DEF IsSelection
  <2> QED
      BY <1>5, <1>6, <2>1, <2>2
<1>7. CASE k # 0
  <2>1. PICK m \in Nat : k = m + 1 /\ m \in 0..n
      BY <1>1, <1>5, <1>7
  <2>2. IsSelection(f[m], s, E, m, X)
      BY <1>4, <2>1
  <2>3. f[k] = IF s[m + 1] \in E THEN f[m] ELSE Append(f[m], s[m + 1])
      BY <1>5, <1>7, <2>1 DEF StepOf
  <2>4. s[m + 1] \in X
      BY <1>1, <1>5, <2>1
  <2> QED
      BY <1>5, <2>1, <2>2, <2>3, <2>4, SelectionStep
<1> QED
    BY <1>6, <1>7

(***************************************************************************)
(* Skip(s, E) is a sequence of the entries of s that are not in E, each as *)
(* often as in s.                                                          *)
(***************************************************************************)
LEMMA SkipEntries ==
    ASSUME NEW X, NEW s \in Seq(X), NEW E
    PROVE  /\ Skip(s, E) \in Seq(X)
           /\ Range(Skip(s, E)) = Range(s) \ E
           /\ IsInjective(s) => IsInjective(Skip(s, E))
<1> DEFINE q == Skip(s, E)
<1>1. /\ q \in Seq(X)
      /\ Len(q) = Rank(s, E, Len(s))
      /\ \A i \in 1..Len(s) : s[i] \notin E => q[Rank(s, E, i)] = s[i]
      /\ \A p \in 1..Len(q) : \E i \in 1..Len(s) : s[i] \notin E /\ Rank(s, E, i) = p
    BY SkipSelects DEF IsSelection
<1>2. \A i \in 1..Len(s) : s[i] \notin E => Rank(s, E, i) \in 1..Len(q)
  <2>1. /\ Len(s) \in Nat /\ Rank(s, E, Len(s)) \in Nat
        /\ \A i \in 0..Len(s) : Rank(s, E, i) <= Rank(s, E, Len(s))
        /\ \A i \in 1..Len(s) : s[i] \notin E => Rank(s, E, i) >= 1
      BY RankFacts
  <2>2. \A i \in 1..Len(s) : Rank(s, E, i) \in Nat
      BY <2>1, RankFacts
  <2> QED
      BY <1>1, <2>1, <2>2
<1> HIDE DEF q
<1>3. DOMAIN q = 1..Len(q) /\ DOMAIN s = 1..Len(s)
    BY <1>1
<1>4. Range(q) = Range(s) \ E
  <2>1. ASSUME NEW p \in 1..Len(q)
        PROVE  \E i \in 1..Len(s) : s[i] \notin E /\ q[p] = s[i]
      BY <1>1
  <2>2. ASSUME NEW i \in 1..Len(s), s[i] \notin E
        PROVE  \E p \in 1..Len(q) : q[p] = s[i]
      BY <1>1, <1>2, <2>2
  <2> QED
      BY <1>3, <2>1, <2>2 DEF Range
<1>5. ASSUME IsInjective(s), NEW x \in DOMAIN q, NEW y \in DOMAIN q, q[x] = q[y]
      PROVE  x = y
  <2>1. PICK i \in 1..Len(s) : q[x] = s[i] /\ Rank(s, E, i) = x
      BY <1>1, <1>3, <1>5
  <2>2. PICK j \in 1..Len(s) : q[y] = s[j] /\ Rank(s, E, j) = y
      BY <1>1, <1>3, <1>5
  <2>3. i = j
      BY <1>3, <1>5, <2>1, <2>2 DEF IsInjective
  <2> QED
      BY <2>1, <2>2, <2>3
<1> QED
    BY <1>1, <1>4, <1>5 DEF q, IsInjective
=============================================================================
