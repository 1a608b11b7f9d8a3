------------------------------ MODULE Recursion ------------------------------
(***************************************************************************)
(* What the proofs need of the natural numbers: least and greatest         *)
(* members, induction in the form of a set that is climbed, and that loops *)
(* of the code which are functions of their round can be run.              *)
(***************************************************************************)
EXTENDS Integers, FiniteSetTheorems, WellFoundedInduction, TLAPS

\* The first of some places in a sequence, as the code looks for it.
LEMMA LeastNatural ==
    ASSUME NEW n \in Nat, NEW T \in SUBSET (1..n), T # {}
    PROVE  \E k \in T : \A l \in T : k <= l
<1> DEFINE F == {1..k : k \in T}
<1>1. F \subseteq FiniteSubsetsOf(Nat)
  <2>1. ASSUME NEW k \in T PROVE (1..k) \in SUBSET Nat /\ IsFiniteSet(1..k)
    <3>1. k \in Int /\ 1 \in Int
      OBVIOUS
    <3> QED
      BY <3>1, FS_Interval
  <2> QED
    BY <2>1 DEF FiniteSubsetsOf
<1>2. F # {}
  OBVIOUS
<1>3. PICK X \in F : \A Y \in F : ~ (<<Y, X>> \in StrictSubsetOrdering(Nat))
  BY <1>1, <1>2, FS_StrictSubsetOrderingWellFounded, WFMin
<1>4. PICK k \in T : X = 1..k
  OBVIOUS
<1>5. ASSUME NEW l \in T, ~(k <= l) PROVE FALSE
  <2>1. (1..l) \in F
    OBVIOUS
  <2>2. (1..l) \subseteq (1..k) /\ k \in 1..k /\ k \notin 1..l
    BY <1>5
  <2>3. (1..l) \in SUBSET Nat /\ (1..k) \in SUBSET Nat
    OBVIOUS
  <2>4. <<1..l, 1..k>> \in StrictSubsetOrdering(Nat)
    BY <2>2, <2>3 DEF StrictSubsetOrdering
  <2> QED
    BY <1>3, <1>4, <2>1, <2>4
<1> QED
  BY <1>5

\* And the last of them.
LEMMA GreatestNatural ==
    ASSUME NEW n \in Nat, NEW T \in SUBSET (1..n), T # {}
    PROVE  \E k \in T : \A l \in T : l <= k
<1> DEFINE Above(k) == (k + 1)..n
           F == {Above(k) : k \in T}
<1>1. F \subseteq FiniteSubsetsOf(Nat)
  <2>1. ASSUME NEW k \in T PROVE Above(k) \in SUBSET Nat /\ IsFiniteSet(Above(k))
    <3>1. k + 1 \in Int /\ n \in Int
      OBVIOUS
    <3> QED
      BY <3>1, FS_Interval
  <2> QED
    BY <2>1 DEF FiniteSubsetsOf
<1>2. F # {}
  OBVIOUS
<1>3. PICK X \in F : \A Y \in F : ~ (<<Y, X>> \in StrictSubsetOrdering(Nat))
  BY <1>1, <1>2, FS_StrictSubsetOrderingWellFounded, WFMin
<1>4. PICK k \in T : X = Above(k)
  OBVIOUS
<1>5. ASSUME NEW l \in T, ~(l <= k) PROVE FALSE
  <2>1. Above(l) \in F
    OBVIOUS
  <2>2. Above(l) \subseteq Above(k) /\ l \in Above(k) /\ l \notin Above(l)
    BY <1>5
  <2>3. Above(l) \in SUBSET Nat /\ Above(k) \in SUBSET Nat
    OBVIOUS
  <2>4. <<Above(l), Above(k)>> \in StrictSubsetOrdering(Nat)
    BY <2>2, <2>3 DEF StrictSubsetOrdering
  <2> QED
    BY <1>3, <1>4, <2>1, <2>4
<1> QED
  BY <1>5

\* What holds at the first place and goes on to the next holds at all.
LEMMA Climb ==
    ASSUME NEW n \in Nat, NEW T, 0 \in T, \A k \in 1..n : k - 1 \in T => k \in T
    PROVE  0..n \subseteq T
<1> SUFFICES ASSUME NEW bad \in 0..n, bad \notin T PROVE FALSE
  OBVIOUS
<1>1. {k \in 1..n : k \notin T} # {}
  OBVIOUS
<1>2. PICK k \in {j \in 1..n : j \notin T} : \A l \in {j \in 1..n : j \notin T} : k <= l
  BY <1>1, LeastNatural
<1>3. k - 1 = 0 \/ k - 1 \in 1..n
  OBVIOUS
<1> QED
  BY <1>2, <1>3

\* There is a first number that a set has.
LEMMA Least ==
    ASSUME NEW n \in Nat, NEW S, NEW m \in S, m \in 0..n
    PROVE  \E k \in S : k \in 0..m /\ \A j \in 0..(k - 1) : j \notin S
<1> DEFINE T == {k \in 1..(n + 1) : k - 1 \in S}
<1>1. m + 1 \in T /\ n + 1 \in Nat
  OBVIOUS
<1>2. PICK k \in T : \A l \in T : k <= l
  BY <1>1, LeastNatural
<1>3. k - 1 \in S /\ k - 1 \in 0..m
  BY <1>1, <1>2
<1>4. ASSUME NEW j \in 0..(k - 1 - 1) PROVE j \notin S
  <2>1. j + 1 \in 1..(n + 1) /\ ~(k <= j + 1) /\ j + 1 - 1 = j
    BY <1>1, <1>4
  <2> QED
    BY <1>2, <2>1
<1> QED
  BY <1>3, <1>4

\* A loop of n rounds that starts at start: its step goes from a round and what
\* the round before came to.
Rounds(f, n, start, step) == f = [k \in 0..n |-> IF k = 0 THEN start ELSE step[<<k, f[k - 1]>>]]

\* Such a loop can be run, and stays where its steps stay.
LEMMA RoundsExist ==
    ASSUME NEW n \in Nat, NEW S, NEW start \in S, NEW step \in [(1..n) \X S -> S]
    PROVE  \E f \in [0..n -> S] : Rounds(f, n, start, step)
<1> DEFINE T == {k \in 0..n : \E f \in [0..k -> S] : Rounds(f, k, start, step)}
<1>1. 0 \in T
  <2> DEFINE f == [k \in 0..0 |-> start]
  <2>1. f \in [0..0 -> S] /\ f = [k \in 0..0 |-> IF k = 0 THEN start ELSE step[<<k, f[k - 1]>>]]
    OBVIOUS
  <2> HIDE DEF f
  <2> QED
    BY <2>1 DEF Rounds
<1>2. ASSUME NEW k \in 1..n, k - 1 \in T PROVE k \in T
  <2>1. PICK g \in [0..(k - 1) -> S] : Rounds(g, k - 1, start, step)
    BY <1>2
  <2> DEFINE f == [j \in 0..k |-> IF j = k THEN step[<<k, g[k - 1]>>] ELSE g[j]]
  <2>2. ASSUME NEW j \in 0..k PROVE f[j] = (IF j = 0 THEN start ELSE step[<<j, f[j - 1]>>]) /\ f[j] \in S
    <3>1. CASE j = k
      <4>1. k - 1 \in 0..k /\ k - 1 # k /\ k # 0 /\ g[k - 1] \in S
        BY <1>2
      <4>2. <<k, g[k - 1]>> \in (1..n) \X S
        BY <4>1
      <4> QED
        BY <3>1, <4>1, <4>2
    <3>2. CASE j # k
      <4>1. j \in 0..(k - 1) /\ (j # 0 => j - 1 \in 0..k /\ j - 1 # k)
        BY <3>2
      <4>2. g[j] = IF j = 0 THEN start ELSE step[<<j, g[j - 1]>>]
        BY <2>1, <4>1 DEF Rounds
      <4> QED
        BY <3>2, <4>1, <4>2
    <3> QED
      BY <3>1, <3>2
  <2>3. f = [j \in 0..k |-> f[j]]
    OBVIOUS
  <2> HIDE DEF f
  <2>4. f = [j \in 0..k |-> IF j = 0 THEN start ELSE step[<<j, f[j - 1]>>]]
    BY <2>2, <2>3
  <2>5. f \in [0..k -> S]
    BY <2>2, <2>3
  <2>6. Rounds(f, k, start, step)
    BY <2>4 DEF Rounds
  <2>7. k \in 0..n
    BY <1>2
  <2> QED
    BY <2>5, <2>6, <2>7
<1>3. n \in T
  <2> HIDE DEF T
  <2> QED
    BY <1>1, <1>2, Climb
<1> QED
  BY <1>3
==============================================================================
