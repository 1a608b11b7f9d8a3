--------------------------- MODULE HostCallsProofs ---------------------------
(***************************************************************************)
(* What Linker and HostCalls promise, for all plans and whichever of them  *)
(* fail, and any number of callers, stores and calls: that components      *)
(* share a store exactly where an interface that cannot cross one joins    *)
(* them, and what becomes of locks and traps.                              *)
(***************************************************************************)
EXTENDS HostCalls, Recursion, SequenceTheorems

-----------------------------------------------------------------------------
(* The sets of nodes, kept as trees.                                       *)

\* A node and its parent.
Parents(n) == [1..n -> 1..n]

\* Ranks grow from a node to its parent, so no path goes round.
Ranks(rank, p) == \A x \in DOMAIN p : p[x] # x => rank[x] < rank[p[x]]
Forest(p, n) == p \in Parents(n) /\ \E rank \in [1..n -> Nat] : Ranks(rank, p)

\* A union of the trees: it has a node where it has its parent.
Whole(p, S) == \A x \in DOMAIN p : x \in S <=> p[x] \in S

\* What finding the root of a node leaves alone: the trees and their roots.
Kept(p, q) ==
    /\ \A S \in SUBSET DOMAIN p : Whole(p, S) <=> Whole(q, S)
    /\ \A x \in DOMAIN p : p[x] = x <=> q[x] = x

\* A probe on its way to the root.
Probes(n) == [parent : Parents(n), at : 1..n]

\* A function on the first numbers is a sequence.
LEMMA ParentsAreSeqs ==
    ASSUME NEW n \in Nat, NEW p \in Parents(n)
    PROVE  p \in Seq(1..n) /\ Len(p) = n /\ DOMAIN p = 1..n
<1>1. p \in Seq(1..n)
  BY DEF Parents
<1>2. Len(p) \in Nat /\ DOMAIN p = 1..Len(p)
  BY <1>1, LenProperties
<1> QED
  BY <1>1, <1>2 DEF Parents

\* One round of find: the probe climbs, unless it is at a root; the trees, their
\* roots and their ranks stay.
LEMMA HalveClimbs ==
    ASSUME NEW n \in Nat, NEW s \in Probes(n), NEW rank \in [1..n -> Nat], Ranks(rank, s.parent)
    PROVE  LET t == Halve(s)
           IN  /\ t \in Probes(n) /\ Ranks(rank, t.parent) /\ Kept(s.parent, t.parent)
               /\ \A S \in SUBSET (1..n) : Whole(s.parent, S) => (s.at \in S <=> t.at \in S)
               /\ IF s.parent[s.at] = s.at THEN t = s ELSE rank[s.at] < rank[t.at]
<1> DEFINE p == s.parent
           a == s.at
           t == Halve(s)
<1>1. p \in [1..n -> 1..n] /\ a \in 1..n
  BY DEF Probes, Parents
<1>2. CASE p[a] = a
  <2>1. t = s
    BY <1>2 DEF Halve
  <2> QED
    BY <1>2, <2>1 DEF Kept
<1>3. CASE p[a] # a
  <2> DEFINE q == [p EXCEPT ![a] = p[p[a]]]
  <2>1. t = [parent |-> q, at |-> q[a]]
    BY <1>3 DEF Halve
  <2>2. q \in [1..n -> 1..n] /\ q[a] = p[p[a]] /\ p[a] \in 1..n /\ p[p[a]] \in 1..n
    BY <1>1
  <2>3. \A x \in 1..n : q[x] = IF x = a THEN p[p[a]] ELSE p[x]
    BY <1>1
  <2>4. t.parent = q /\ t.at = p[p[a]]
    BY <2>1, <2>2
  <2>5. rank[a] < rank[p[a]] /\ rank[p[a]] <= rank[p[p[a]]] /\ rank[a] \in Nat /\ rank[p[a]] \in Nat /\ rank[p[p[a]]] \in Nat
    <3>1. rank[a] < rank[p[a]]
      BY <1>1, <1>3 DEF Ranks
    <3>2. p[p[a]] # p[a] => rank[p[a]] < rank[p[p[a]]]
      BY <1>1, <2>2 DEF Ranks
    <3>3. rank[a] \in Nat /\ rank[p[a]] \in Nat /\ rank[p[p[a]]] \in Nat
      BY <1>1, <2>2
    <3> HIDE DEF p, a
    <3> QED
      BY <3>1, <3>2, <3>3
  <2>6. rank[a] < rank[p[p[a]]]
    <3> HIDE DEF p, a
    <3> QED
      BY <2>5
  <2>7. p[p[a]] # a
    <3> HIDE DEF p, a
    <3> QED
      BY <2>5
  <2>8. Ranks(rank, q)
    BY <1>1, <2>2, <2>3, <2>6 DEF Ranks
  <2>9. ASSUME NEW S \in SUBSET (1..n) PROVE Whole(p, S) <=> Whole(q, S)
    <3> HIDE DEF p, a, q
    <3>1. DOMAIN p = 1..n /\ DOMAIN q = 1..n
      BY <1>1, <2>2
    <3>2. Whole(p, S) => Whole(q, S)
      BY <1>1, <2>2, <2>3, <3>1 DEF Whole
    <3>3. Whole(q, S) => Whole(p, S)
      BY <1>1, <1>3, <2>2, <2>3, <3>1 DEF Whole
    <3> QED
      BY <3>2, <3>3
  <2>10. \A x \in 1..n : p[x] = x <=> q[x] = x
    BY <1>3, <2>3, <2>7
  <2>11. Kept(p, q)
    BY <1>1, <2>9, <2>10 DEF Kept
  <2>12. t \in Probes(n)
    <3> HIDE DEF t, q
    <3> QED
      BY <2>1, <2>2 DEF Probes, Parents
  <2>13. ASSUME NEW S \in SUBSET (1..n), Whole(p, S) PROVE a \in S <=> t.at \in S
    <3> HIDE DEF p, a, t, q
    <3>1. DOMAIN p = 1..n
      BY <1>1
    <3>2. (a \in S <=> p[a] \in S) /\ (p[a] \in S <=> p[p[a]] \in S)
      BY <1>1, <2>2, <2>13, <3>1 DEF Whole
    <3> QED
      BY <2>4, <3>2
  <2> HIDE DEF t, q, p, a
  <2>14. /\ t \in Probes(n) /\ Ranks(rank, t.parent) /\ Kept(p, t.parent)
         /\ \A S \in SUBSET (1..n) : Whole(p, S) => (a \in S <=> t.at \in S)
         /\ IF p[a] = a THEN t = s ELSE rank[a] < rank[t.at]
    BY <1>3, <2>4, <2>6, <2>8, <2>11, <2>12, <2>13
  <2> QED
    BY <2>14 DEF t, p, a
<1> QED
  BY <1>2, <1>3

\* What find comes to: the root of the node, in trees of the same sets.
Finds(n, rank, p, i, r) ==
    /\ r \in Probes(n) /\ Ranks(rank, r.parent) /\ Kept(p, r.parent)
    /\ \A S \in SUBSET (1..n) : Whole(p, S) => (i \in S <=> r.at \in S)

\* Halving twice keeps what halving once keeps.
LEMMA KeptOnAndOn ==
    ASSUME NEW n, NEW p \in Parents(n), NEW q \in Parents(n), NEW r \in Parents(n), Kept(p, q), Kept(q, r)
    PROVE  Kept(p, r)
BY DEF Kept, Parents

\* The rounds of find are run.
LEMMA FindGoesRound ==
    ASSUME NEW n \in Nat, NEW p \in Parents(n), NEW i \in 1..n, NEW rank \in [1..n -> Nat], Ranks(rank, p)
    PROVE  \E after : /\ after[0] = [parent |-> p, at |-> i]
                      /\ \A k \in 1..n : after[k] = Halve(after[k - 1])
                      /\ Find(p, i) = after[n]
<1> DEFINE start == [parent |-> p, at |-> i]
           S == {s \in Probes(n) : Ranks(rank, s.parent)}
           step == [x \in (1..n) \X S |-> Halve(x[2])]
           after == CHOOSE f : f = [k \in 0..Len(p) |-> IF k = 0 THEN start ELSE Halve(f[k - 1])]
<1>1. Len(p) = n
  BY ParentsAreSeqs
<1>2. start \in S
  BY DEF Probes
<1>3. step \in [(1..n) \X S -> S]
  <2>1. \A s \in S : Halve(s) \in S
    BY HalveClimbs
  <2> QED
    BY <2>1
<1>4. PICK f \in [0..n -> S] : f = [k \in 0..n |-> IF k = 0 THEN start ELSE step[<<k, f[k - 1]>>]]
  <2> HIDE DEF S, step, start
  <2>1. \E f \in [0..n -> S] : Rounds(f, n, start, step)
    BY <1>2, <1>3, RoundsExist
  <2> QED
    BY <2>1 DEF Rounds
<1>5. \A k \in 1..n : step[<<k, f[k - 1]>>] = Halve(f[k - 1])
  <2>1. \A k \in 1..n : k - 1 \in 0..n
    OBVIOUS
  <2> HIDE DEF S
  <2> QED
    BY <2>1, <1>4
<1>6. \A k \in 0..n : k # 0 => k \in 1..n
  OBVIOUS
<1>7. f = [k \in 0..n |-> IF k = 0 THEN start ELSE Halve(f[k - 1])]
  <2>1. \A k \in 0..n : f[k] = IF k = 0 THEN start ELSE step[<<k, f[k - 1]>>]
    <3> HIDE DEF step, start, S
    <3> QED
      BY <1>4
  <2>2. \A k \in 0..n : f[k] = IF k = 0 THEN start ELSE Halve(f[k - 1])
    <3> HIDE DEF step, start, S
    <3> QED
      BY <2>1, <1>5, <1>6
  <2> HIDE DEF step, start, S
  <2> QED
    BY <2>2, <1>4
<1>8. after = [k \in 0..n |-> IF k = 0 THEN start ELSE Halve(after[k - 1])]
  <2> HIDE DEF start
  <2> QED
    BY <1>7, <1>1
<1>9. Find(p, i) = after[n]
  BY <1>1 DEF Find
<1> HIDE DEF after, start
<1>10. after[0] = start /\ \A k \in 1..n : after[k] = Halve(after[k - 1])
  BY <1>8
<1> QED
  BY <1>9, <1>10 DEF start

\* Find ends at the root: there are no more nodes to climb than rounds.
LEMMA FindEnds ==
    ASSUME NEW n \in Nat, NEW p \in Parents(n), NEW i \in 1..n, NEW rank \in [1..n -> Nat], Ranks(rank, p)
    PROVE  LET r == Find(p, i) IN Finds(n, rank, p, i, r) /\ r.parent[r.at] = r.at
<1> DEFINE Higher(a) == {y \in 1..n : rank[a] < rank[y]}
<1>1. PICK after : /\ after[0] = [parent |-> p, at |-> i]
                   /\ \A k \in 1..n : after[k] = Halve(after[k - 1])
                   /\ Find(p, i) = after[n]
  BY FindGoesRound
<1> DEFINE Ends(s) == s.parent[s.at] = s.at
           Near(k) == /\ Finds(n, rank, p, i, after[k])
                      /\ Ends(after[k]) \/ Cardinality(Higher(after[k].at)) <= n - k
           T == {k \in 0..n : Near(k)}
<1>2. \A a : IsFiniteSet(Higher(a)) /\ Cardinality(Higher(a)) \in Nat /\ Cardinality(Higher(a)) <= n
  <2>1. IsFiniteSet(1..n) /\ Cardinality(1..n) = n
    BY FS_Interval
  <2>2. \A a : Higher(a) \subseteq 1..n
    OBVIOUS
  <2> HIDE DEF Higher
  <2> QED
    BY <2>1, <2>2, FS_Subset, FS_CardinalityType
<1>3. 0 \in T
  <2>1. Finds(n, rank, p, i, after[0])
    BY <1>1 DEF Finds, Probes, Kept
  <2> HIDE DEF Higher, Ends
  <2> QED
    BY <2>1, <1>2
<1>4. ASSUME NEW k \in 1..n, k - 1 \in T PROVE k \in T
  <2> DEFINE s == after[k - 1]
             t == after[k]
  <2>1. t = Halve(s)
    BY <1>1
  <2>2. Finds(n, rank, p, i, s) /\ (Ends(s) \/ Cardinality(Higher(s.at)) <= n - (k - 1))
    BY <1>4
  <2> HIDE DEF s, t
  <2>3. s \in Probes(n) /\ Ranks(rank, s.parent)
    BY <2>2 DEF Finds
  <2>4. /\ t \in Probes(n) /\ Ranks(rank, t.parent) /\ Kept(s.parent, t.parent)
        /\ \A S \in SUBSET (1..n) : Whole(s.parent, S) => (s.at \in S <=> t.at \in S)
        /\ IF s.parent[s.at] = s.at THEN t = s ELSE rank[s.at] < rank[t.at]
    BY <2>1, <2>3, HalveClimbs
  <2>5. s.parent \in Parents(n) /\ t.parent \in Parents(n) /\ s.at \in 1..n /\ t.at \in 1..n
    BY <2>3, <2>4 DEF Probes
  <2>6. Finds(n, rank, p, i, t)
    <3>1. Kept(p, s.parent) /\ \A S \in SUBSET (1..n) : Whole(p, S) => (i \in S <=> s.at \in S)
      BY <2>2 DEF Finds
    <3>2. Kept(p, t.parent)
      BY <3>1, <2>4, <2>5, KeptOnAndOn
    <3>3. \A S \in SUBSET (1..n) : Whole(p, S) => Whole(s.parent, S)
      BY <3>1 DEF Kept, Parents
    <3> QED
      BY <2>4, <3>1, <3>2, <3>3 DEF Finds
  <2>7. Ends(t) \/ Cardinality(Higher(t.at)) <= n - k
    <3>1. CASE Ends(s)
      BY <3>1, <2>4
    <3>2. CASE ~Ends(s)
      <4>1. rank[s.at] < rank[t.at]
        BY <3>2, <2>4
      <4>2. t.at \in Higher(s.at) /\ t.at \notin Higher(t.at)
        BY <4>1, <2>5
      <4>3. Higher(t.at) \subseteq Higher(s.at)
        BY <4>1, <2>5
      <4>4. Cardinality(Higher(t.at)) < Cardinality(Higher(s.at))
        <5> HIDE DEF Higher
        <5> QED
          BY <4>2, <4>3, <1>2, FS_Subset
      <4>5. Cardinality(Higher(s.at)) <= n - (k - 1)
        BY <3>2, <2>2
      <4>6. Cardinality(Higher(s.at)) \in Nat /\ Cardinality(Higher(t.at)) \in Nat
        BY <1>2
      <4> HIDE DEF Higher
      <4> QED
        BY <4>4, <4>5, <4>6
    <3> QED
      BY <3>1, <3>2
  <2>8. k \in 0..n
    OBVIOUS
  <2>9. Near(k)
    <3> HIDE DEF Higher, Ends
    <3> QED
      BY <2>6, <2>7 DEF t
  <2> QED
    BY <2>8, <2>9
<1>5. n \in T
  <2>1. \A k \in 1..n : k - 1 \in T => k \in T
    BY <1>4
  <2> HIDE DEF T
  <2>2. 0..n \subseteq T
    BY <1>3, <2>1, Climb
  <2> QED
    BY <2>2
<1>6. Finds(n, rank, p, i, after[n]) /\ (Ends(after[n]) \/ Cardinality(Higher(after[n].at)) <= n - n)
  BY <1>5
<1> DEFINE r == after[n]
<1> HIDE DEF r
<1>7. Ends(r)
  <2> SUFFICES ASSUME ~Ends(r) PROVE FALSE
    OBVIOUS
  <2>1. r \in Probes(n) /\ Ranks(rank, r.parent) /\ Cardinality(Higher(r.at)) <= n - n
    BY <1>6 DEF r, Finds
  <2>2. Cardinality(Higher(r.at)) = 0
    <3> HIDE DEF Higher
    <3> QED
      BY <2>1, <1>2
  <2>3. Higher(r.at) = {}
    <3> HIDE DEF Higher
    <3> QED
      BY <2>2, <1>2, FS_EmptySet
  <2>4. r.at \in 1..n /\ r.parent[r.at] \in 1..n /\ rank[r.at] < rank[r.parent[r.at]]
    BY <2>1 DEF Probes, Parents, Ranks
  <2> QED
    BY <2>3, <2>4
<1> QED
  BY <1>1, <1>6, <1>7 DEF r

\* Nodes have the same root exactly if they are in the same sets.
LEMMA RootsMeet ==
    ASSUME NEW n \in Nat, NEW p, Forest(p, n), NEW i \in 1..n, NEW j \in 1..n
    PROVE  /\ Find(p, i).at \in 1..n
           /\ Find(p, i).at = Find(p, j).at <=> \A S \in SUBSET (1..n) : Whole(p, S) => (i \in S <=> j \in S)
<1>1. PICK rank \in [1..n -> Nat] : Ranks(rank, p)
  BY DEF Forest
<1>2. p \in Parents(n) /\ DOMAIN p = 1..n
  BY DEF Forest, Parents
<1> DEFINE r == Find(p, i)
           s == Find(p, j)
<1>3. Finds(n, rank, p, i, r) /\ r.parent[r.at] = r.at
  BY <1>1, <1>2, FindEnds
<1>4. Finds(n, rank, p, j, s) /\ s.parent[s.at] = s.at
  BY <1>1, <1>2, FindEnds
<1> HIDE DEF r, s
<1>5. r.at \in 1..n /\ p[r.at] = r.at
  <2>1. r \in Probes(n) /\ Kept(p, r.parent)
    BY <1>3 DEF Finds
  <2> QED
    BY <1>2, <1>3, <2>1 DEF Probes, Kept
<1>6. s.at \in 1..n /\ p[s.at] = s.at
  <2>1. s \in Probes(n) /\ Kept(p, s.parent)
    BY <1>4 DEF Finds
  <2> QED
    BY <1>2, <1>4, <2>1 DEF Probes, Kept
<1>7. ASSUME r.at = s.at, NEW S \in SUBSET (1..n), Whole(p, S) PROVE i \in S <=> j \in S
  BY <1>3, <1>4, <1>7 DEF Finds
<1>8. ASSUME r.at # s.at PROVE \E S \in SUBSET (1..n) : Whole(p, S) /\ i \in S /\ j \notin S
  <2> DEFINE Up(F) == \A x \in F : p[x] \in F
             U == {x \in 1..n : \A F \in SUBSET (1..n) : Up(F) /\ x \in F => r.at \in F}
  <2>1. r.at \in U
    BY <1>5
  <2>2. s.at \notin U
    <3>1. {s.at} \in SUBSET (1..n) /\ Up({s.at}) /\ s.at \in {s.at} /\ r.at \notin {s.at}
      BY <1>6, <1>8
    <3> QED
      BY <3>1
  <2>3. ASSUME NEW x \in 1..n, x \in U PROVE p[x] \in U
    <3>1. p[x] \in 1..n
      BY <1>2 DEF Parents
    <3> SUFFICES ASSUME NEW F \in SUBSET (1..n), Up(F), p[x] \in F PROVE r.at \in F
      BY <3>1
    <3> DEFINE G == F \cup {x}
    <3>2. G \in SUBSET (1..n) /\ x \in G /\ Up(G)
      OBVIOUS
    <3>3. r.at \in G
      BY <2>3, <3>2
    <3>4. CASE r.at = x
      BY <3>4, <1>5
    <3> QED
      BY <3>3, <3>4
  <2>4. ASSUME NEW x \in 1..n, p[x] \in U PROVE x \in U
    BY <2>4
  <2>5. Whole(p, U)
    <3> HIDE DEF U
    <3> QED
      BY <1>2, <2>3, <2>4 DEF Whole
  <2>6. U \in SUBSET (1..n)
    OBVIOUS
  <2> HIDE DEF U
  <2>7. i \in U /\ j \notin U
    BY <1>3, <1>4, <2>1, <2>2, <2>5, <2>6 DEF Finds
  <2> QED
    BY <2>5, <2>6, <2>7
<1> QED
  BY <1>5, <1>7, <1>8 DEF r, s

\* Two trees become one, and no other is touched.
LEMMA UnionJoins ==
    ASSUME NEW n \in Nat, NEW p, Forest(p, n), NEW a \in 1..n, NEW b \in 1..n
    PROVE  LET q == Union(p, a, b)
           IN  /\ Forest(q, n)
               /\ \A S \in SUBSET (1..n) : Whole(q, S) <=> Whole(p, S) /\ (a \in S <=> b \in S)
<1>1. PICK rank \in [1..n -> Nat] : Ranks(rank, p)
  BY DEF Forest
<1>2. p \in Parents(n) /\ DOMAIN p = 1..n
  BY DEF Forest, Parents
<1> DEFINE f == Find(p, a)
           o == Find(f.parent, b)
           q == Union(p, a, b)
<1>3. Finds(n, rank, p, a, f) /\ f.parent[f.at] = f.at
  BY <1>1, <1>2, FindEnds
<1>4. q = IF f.at = o.at THEN o.parent ELSE [o.parent EXCEPT ![o.at] = f.at]
  BY DEF Union
<1> HIDE DEF f
<1>5. f.parent \in Parents(n) /\ f.at \in 1..n /\ Ranks(rank, f.parent) /\ Kept(p, f.parent)
  BY <1>3 DEF Finds, Probes
<1>6. Finds(n, rank, f.parent, b, o) /\ o.parent[o.at] = o.at
  BY <1>5, FindEnds
<1> HIDE DEF o
<1>7. o.parent \in Parents(n) /\ o.at \in 1..n /\ Ranks(rank, o.parent) /\ Kept(f.parent, o.parent)
  BY <1>6 DEF Finds, Probes
<1>8. Kept(p, o.parent)
  BY <1>2, <1>5, <1>7, KeptOnAndOn
<1>9. o.parent[f.at] = f.at
  BY <1>3, <1>5, <1>7 DEF Kept, Parents
<1>10. ASSUME NEW S \in SUBSET (1..n), Whole(p, S) PROVE (a \in S <=> f.at \in S) /\ (b \in S <=> o.at \in S)
  <2>1. a \in S <=> f.at \in S
    BY <1>3, <1>10 DEF Finds
  <2>2. Whole(f.parent, S)
    BY <1>2, <1>5, <1>10 DEF Kept
  <2> QED
    BY <2>1, <2>2, <1>6 DEF Finds
<1>11. \A S \in SUBSET (1..n) : Whole(p, S) <=> Whole(o.parent, S)
  BY <1>2, <1>8 DEF Kept
<1>12. CASE f.at = o.at
  <2>1. q = o.parent
    BY <1>4, <1>12
  <2> QED
    BY <2>1, <1>7, <1>10, <1>11, <1>12 DEF Forest
<1>13. CASE f.at # o.at
  <2> DEFINE h == o.parent
             ra == f.at
             rb == o.at
             top == IF rank[ra] > rank[rb] THEN rank[ra] ELSE rank[rb] + 1
             higher == [rank EXCEPT ![ra] = top]
  <2>1. q = [h EXCEPT ![rb] = ra]
    BY <1>4, <1>13
  <2>2. h \in [1..n -> 1..n] /\ ra \in 1..n /\ rb \in 1..n /\ ra # rb /\ h[ra] = ra /\ h[rb] = rb
    BY <1>5, <1>6, <1>7, <1>9, <1>13 DEF Parents
  <2>3. Ranks(rank, h)
    BY <1>7
  <2> HIDE DEF h, ra, rb
  <2>4. q \in [1..n -> 1..n] /\ \A x \in 1..n : q[x] = IF x = rb THEN ra ELSE h[x]
    BY <2>1, <2>2
  <2>5. /\ higher \in [1..n -> Nat] /\ \A x \in 1..n : rank[x] <= higher[x] /\ (x # ra => higher[x] = rank[x])
        /\ higher[rb] < higher[ra]
    <3>1. rank[ra] \in Nat /\ rank[rb] \in Nat /\ \A x \in 1..n : rank[x] \in Nat
      BY <2>2
    <3>2. top \in Nat /\ rank[ra] <= top /\ rank[rb] < top
      BY <3>1
    <3> HIDE DEF top
    <3>3. higher \in [1..n -> Nat] /\ \A x \in 1..n : higher[x] = IF x = ra THEN top ELSE rank[x]
      BY <3>2
    <3> HIDE DEF higher
    <3>4. higher[rb] = rank[rb] /\ higher[ra] = top
      BY <2>2, <3>3
    <3>5. \A x \in 1..n : rank[x] <= higher[x] /\ (x # ra => higher[x] = rank[x])
      BY <3>1, <3>2, <3>3
    <3> QED
      BY <3>2, <3>3, <3>4, <3>5
  <2>6. higher[rb] < higher[ra]
    BY <2>5
  <2> HIDE DEF higher, q
  <2>7. ASSUME NEW x \in 1..n, q[x] # x PROVE higher[x] < higher[q[x]]
    <3>1. CASE x = rb
      BY <3>1, <2>4, <2>6
    <3>2. CASE x # rb
      <4>1. q[x] = h[x] /\ h[x] \in 1..n
        BY <3>2, <2>2, <2>4
      <4>2. x # ra
        BY <4>1, <2>2, <2>7
      <4>3. rank[x] < rank[h[x]]
        BY <4>1, <2>2, <2>3, <2>7 DEF Ranks
      <4>4. higher[x] = rank[x] /\ rank[h[x]] <= higher[h[x]] /\ rank[x] \in Nat /\ rank[h[x]] \in Nat /\ higher[h[x]] \in Nat
        BY <4>1, <4>2, <2>5
      <4>5. higher[x] < higher[h[x]]
        BY <4>3, <4>4
      <4> QED
        BY <4>1, <4>5
    <3> QED
      BY <3>1, <3>2
  <2>8. Forest(q, n)
    BY <2>4, <2>5, <2>7 DEF Forest, Ranks, Parents
  <2>9. ASSUME NEW S \in SUBSET (1..n) PROVE Whole(q, S) <=> Whole(h, S) /\ (ra \in S <=> rb \in S)
    <3>1. DOMAIN q = 1..n /\ DOMAIN h = 1..n
      BY <2>2, <2>4
    <3>2. ASSUME Whole(q, S) PROVE Whole(h, S) /\ (ra \in S <=> rb \in S)
      <4>1. \A x \in 1..n : x \in S <=> q[x] \in S
        BY <3>1, <3>2 DEF Whole
      <4>2. rb \in S <=> ra \in S
        BY <2>2, <2>4, <4>1
      <4>3. ASSUME NEW x \in 1..n PROVE x \in S <=> h[x] \in S
        <5>1. CASE x = rb
          BY <5>1, <2>2
        <5>2. CASE x # rb
          <6>1. q[x] = h[x]
            BY <5>2, <2>4
          <6> QED
            BY <6>1, <4>1
        <5> QED
          BY <5>1, <5>2
      <4> QED
        BY <3>1, <4>2, <4>3 DEF Whole
    <3>3. Whole(h, S) /\ (ra \in S <=> rb \in S) => Whole(q, S)
      BY <2>2, <2>4, <3>1 DEF Whole
    <3> QED
      BY <3>2, <3>3
  <2>10. ASSUME NEW S \in SUBSET (1..n) PROVE Whole(q, S) <=> Whole(p, S) /\ (a \in S <=> b \in S)
    BY <2>9, <1>10, <1>11 DEF h, ra, rb
  <2> QED
    BY <2>8, <2>10 DEF q
<1> QED
  BY <1>12, <1>13

\* The nodes of a plan, and what they name.
LEMMA PlansAreLists ==
    ASSUME NEW nodes \in Plans
    PROVE  /\ Len(nodes) \in Nat \ {0} /\ DOMAIN nodes = 1..Len(nodes)
           /\ \A i \in DOMAIN nodes :
                 /\ Len(nodes[i]) \in Nat /\ DOMAIN nodes[i] = 1..Len(nodes[i])
                 /\ \A k \in DOMAIN nodes[i] :
                       /\ nodes[i][k] \in Binding
                       /\ nodes[i][k].source \in {"live", "planned"} => nodes[i][k].index \in Nat \ {0}
                       /\ nodes[i][k].source = "planned" => nodes[i][k].index \in 1..(i - 1)
<1>1. nodes \in Seq(Seq(Binding)) /\ nodes # <<>>
  BY LinkerAssumption
<1>2. Len(nodes) \in Nat \ {0} /\ DOMAIN nodes = 1..Len(nodes)
  <2>1. Len(nodes) \in Nat /\ DOMAIN nodes = 1..Len(nodes)
    BY <1>1, LenProperties
  <2>2. Len(nodes) # 0
    BY <1>1, <2>1, EmptySeq
  <2> QED
    BY <2>1, <2>2
<1>3. ASSUME NEW i \in DOMAIN nodes
      PROVE  /\ Len(nodes[i]) \in Nat /\ DOMAIN nodes[i] = 1..Len(nodes[i])
             /\ \A k \in DOMAIN nodes[i] : nodes[i][k] \in Binding
  <2>1. nodes[i] \in Seq(Binding)
    BY <1>1, <1>2, ElementOfSeq
  <2>2. Len(nodes[i]) \in Nat /\ DOMAIN nodes[i] = 1..Len(nodes[i])
    BY <2>1, LenProperties
  <2>3. \A k \in 1..Len(nodes[i]) : nodes[i][k] \in Binding
    BY <2>1, ElementOfSeq
  <2> QED
    BY <2>2, <2>3
<1>4. ASSUME NEW b \in Binding, b.source \in {"live", "planned"} PROVE b.index \in Nat \ {0}
  BY <1>4 DEF Binding
<1>5. ASSUME NEW i \in DOMAIN nodes, NEW k \in DOMAIN nodes[i], nodes[i][k].source = "planned"
      PROVE  nodes[i][k].index \in 1..(i - 1)
  <2>1. nodes[i][k].index < i
    BY <1>5, LinkerAssumption
  <2>2. nodes[i][k].index \in Nat \ {0}
    BY <1>3, <1>4, <1>5
  <2>3. i \in Nat
    BY <1>2
  <2> QED
    BY <2>1, <2>2, <2>3
<1> QED
  BY <1>2, <1>3, <1>4, <1>5

\* A node is joined to those it must share with, and nothing else is.
LEMMA JoinNodeJoins ==
    ASSUME NEW n \in Nat, NEW p, Forest(p, n), NEW i \in 1..n, NEW node, Len(node) \in Nat,
           \A k \in 1..Len(node) : Shares(node[k], "planned") => node[k].index \in 1..n
    PROVE  LET q == JoinNode(p, i, node)
           IN  /\ Forest(q, n)
               /\ \A S \in SUBSET (1..n) : Whole(q, S) <=>
                     /\ Whole(p, S)
                     /\ \A k \in 1..Len(node) : Shares(node[k], "planned") => (i \in S <=> node[k].index \in S)
<1> DEFINE m == Len(node)
           Forests == {f \in Parents(n) : Forest(f, n)}
           joinOne(f, k) == IF Shares(node[k], "planned") THEN Union(f, i, node[k].index) ELSE f
           step == [x \in (1..m) \X Forests |-> joinOne(x[2], x[1])]
           joined == CHOOSE g : g = [k \in 0..m |->
                        IF k = 0 THEN p
                        ELSE IF Shares(node[k], "planned") THEN Union(g[k - 1], i, node[k].index) ELSE g[k - 1]]
           Joins(k, S) == Shares(node[k], "planned") => (i \in S <=> node[k].index \in S)
<1>1. ASSUME NEW f \in Forests, NEW k \in 1..m
      PROVE  /\ joinOne(f, k) \in Forests
             /\ \A S \in SUBSET (1..n) : Whole(joinOne(f, k), S) <=> Whole(f, S) /\ Joins(k, S)
  <2>1. Forest(f, n)
    OBVIOUS
  <2>2. CASE Shares(node[k], "planned")
    <3>1. node[k].index \in 1..n
      BY <2>2
    <3> DEFINE q == Union(f, i, node[k].index)
    <3>2. /\ Forest(q, n)
          /\ \A S \in SUBSET (1..n) : Whole(q, S) <=> Whole(f, S) /\ (i \in S <=> node[k].index \in S)
      BY <2>1, <3>1, UnionJoins
    <3>3. joinOne(f, k) = q
      BY <2>2
    <3> HIDE DEF q
    <3>4. q \in Forests
      BY <3>2 DEF Forest
    <3> HIDE DEF joinOne
    <3> QED
      BY <2>2, <3>2, <3>3, <3>4
  <2>3. CASE ~Shares(node[k], "planned")
    <3>1. joinOne(f, k) = f
      BY <2>3
    <3> HIDE DEF joinOne
    <3> QED
      BY <2>3, <3>1
  <2> QED
    BY <2>2, <2>3
<1>2. p \in Forests
  BY DEF Forest
<1>3. step \in [(1..m) \X Forests -> Forests]
  <2> HIDE DEF joinOne, Forests
  <2> QED
    BY <1>1
<1>4. PICK g \in [0..m -> Forests] : g = [k \in 0..m |-> IF k = 0 THEN p ELSE step[<<k, g[k - 1]>>]]
  <2> HIDE DEF Forests, step
  <2>1. \E g \in [0..m -> Forests] : Rounds(g, m, p, step)
    BY <1>2, <1>3, RoundsExist
  <2> QED
    BY <2>1 DEF Rounds
<1>5. \A k \in 0..m : k # 0 => k \in 1..m /\ k - 1 \in 0..m
  OBVIOUS
<1>6. \A k \in 1..m : step[<<k, g[k - 1]>>] = joinOne(g[k - 1], k)
  <2>1. \A k \in 1..m : k - 1 \in 0..m
    OBVIOUS
  <2> HIDE DEF Forests, joinOne, m
  <2> QED
    BY <2>1, <1>4
<1>7. g = [k \in 0..m |-> IF k = 0 THEN p
                          ELSE IF Shares(node[k], "planned") THEN Union(g[k - 1], i, node[k].index) ELSE g[k - 1]]
  <2>1. \A k \in 0..m : g[k] = IF k = 0 THEN p ELSE step[<<k, g[k - 1]>>]
    <3> HIDE DEF step, Forests, m
    <3> QED
      BY <1>4
  <2>2. \A k \in 0..m : g[k] = IF k = 0 THEN p ELSE joinOne(g[k - 1], k)
    <3> HIDE DEF step, Forests, m, joinOne
    <3> QED
      BY <2>1, <1>5, <1>6
  <2>3. g = [k \in 0..m |-> g[k]]
    <3> HIDE DEF step, Forests, m
    <3> QED
      BY <1>4
  <2> HIDE DEF step, Forests, m
  <2> QED
    BY <2>2, <2>3
<1>8. joined = [k \in 0..m |-> IF k = 0 THEN p
                          ELSE IF Shares(node[k], "planned") THEN Union(joined[k - 1], i, node[k].index) ELSE joined[k - 1]]
  <2> HIDE DEF m
  <2> QED
    BY <1>7
<1>9. JoinNode(p, i, node) = joined[m]
  BY DEF JoinNode
<1> HIDE DEF joined
<1>10. joined[0] = p /\ \A k \in 1..m : joined[k] = joinOne(joined[k - 1], k)
  <2>1. 0 \in 0..m /\ \A k \in 1..m : k \in 0..m /\ k # 0
    OBVIOUS
  <2> HIDE DEF m
  <2> QED
    BY <1>8, <2>1
<1> DEFINE Done(k) == /\ joined[k] \in Forests
                      /\ \A S \in SUBSET (1..n) : Whole(joined[k], S) <=> Whole(p, S) /\ \A l \in 1..k : Joins(l, S)
           T == {k \in 0..m : Done(k)}
<1>11. 0 \in T
  <2>1. 0 \in 0..m /\ 1..0 = {}
    OBVIOUS
  <2> HIDE DEF Joins, Forests, m
  <2> QED
    BY <1>2, <1>10, <2>1
<1>12. ASSUME NEW k \in 1..m, k - 1 \in T PROVE k \in T
  <2>1. Done(k - 1)
    BY <1>12
  <2>2. k \in 0..m /\ \A l \in 1..k : l \in 1..(k - 1) \/ l = k
    OBVIOUS
  <2>3. \A l \in 1..(k - 1) : l \in 1..k
    OBVIOUS
  <2> HIDE DEF Joins, Forests, joinOne, m
  <2>4. joined[k] = joinOne(joined[k - 1], k)
    BY <1>10
  <2>5. joined[k] \in Forests
    BY <1>1, <2>1, <2>4
  <2>6. ASSUME NEW S \in SUBSET (1..n)
        PROVE  Whole(joined[k], S) <=> Whole(p, S) /\ \A l \in 1..k : Joins(l, S)
    <3>1. Whole(joined[k], S) <=> Whole(joined[k - 1], S) /\ Joins(k, S)
      BY <1>1, <2>1, <2>4
    <3>2. Whole(joined[k - 1], S) <=> Whole(p, S) /\ \A l \in 1..(k - 1) : Joins(l, S)
      BY <2>1
    <3>3. (\A l \in 1..k : Joins(l, S)) <=> (\A l \in 1..(k - 1) : Joins(l, S)) /\ Joins(k, S)
      <4>1. k \in 1..k
        OBVIOUS
      <4> QED
        BY <2>2, <2>3, <4>1
    <3> QED
      BY <3>1, <3>2, <3>3
  <2> QED
    BY <2>2, <2>5, <2>6
<1>13. m \in T
  <2>1. \A k \in 1..m : k - 1 \in T => k \in T
    BY <1>12
  <2>2. m \in 0..m
    OBVIOUS
  <2> HIDE DEF T
  <2>3. 0..m \subseteq T
    BY <1>11, <2>1, Climb
  <2> QED
    BY <2>2, <2>3
<1> HIDE DEF Joins, m
<1>14. Done(m)
  BY <1>13
<1> QED
  BY <1>9, <1>14 DEF Joins, m

\* A set of nodes that has whoever must share with one it has.
Respects(nodes, S) == \A pair \in Shared(nodes, "planned") : pair[1] \in S <=> pair[2] \in S

\* Who must share, node by node.
LEMMA SharedNodeByNode ==
    ASSUME NEW nodes, NEW source, NEW pair
    PROVE  pair \in Shared(nodes, source) <=>
              \E i \in DOMAIN nodes : \E k \in DOMAIN nodes[i] :
                 Shares(nodes[i][k], source) /\ pair = <<i, nodes[i][k].index>>
BY DEF Shared

\* The nodes of a plan have the same root exactly if every set that respects
\* the plan has both or none.
LEMMA RootsAreSets ==
    ASSUME NEW nodes \in Plans
    PROVE  LET n == Len(nodes)
               root == SetRoots(nodes)
           IN  /\ root \in [1..n -> 1..n]
               /\ \A i, j \in 1..n : root[i] = root[j] <=>
                     \A S \in SUBSET (1..n) : Respects(nodes, S) => (i \in S <=> j \in S)
<1> DEFINE n == Len(nodes)
           alone == [j \in DOMAIN nodes |-> j]
           Forests == {f \in Parents(n) : Forest(f, n)}
           step == [x \in (1..n) \X Forests |-> JoinNode(x[2], x[1], nodes[x[1]])]
           parent == CHOOSE g : g = [i \in 0..n |-> IF i = 0 THEN alone ELSE JoinNode(g[i - 1], i, nodes[i])]
           Joins(i, S) == \A k \in 1..Len(nodes[i]) :
                             Shares(nodes[i][k], "planned") => (i \in S <=> nodes[i][k].index \in S)
<1>1. /\ n \in Nat /\ DOMAIN nodes = 1..n
      /\ \A i \in 1..n : /\ Len(nodes[i]) \in Nat /\ DOMAIN nodes[i] = 1..Len(nodes[i])
                         /\ \A k \in 1..Len(nodes[i]) :
                               Shares(nodes[i][k], "planned") => nodes[i][k].index \in 1..n
  <2>1. n \in Nat /\ DOMAIN nodes = 1..n
    BY PlansAreLists
  <2>2. ASSUME NEW i \in 1..n
        PROVE  /\ Len(nodes[i]) \in Nat /\ DOMAIN nodes[i] = 1..Len(nodes[i])
               /\ \A k \in 1..Len(nodes[i]) :
                     Shares(nodes[i][k], "planned") => nodes[i][k].index \in 1..n
    <3>1. /\ Len(nodes[i]) \in Nat /\ DOMAIN nodes[i] = 1..Len(nodes[i])
          /\ \A k \in DOMAIN nodes[i] :
                nodes[i][k].source = "planned" => nodes[i][k].index \in 1..(i - 1)
      BY <2>1, PlansAreLists
    <3>2. \A x \in 1..(i - 1) : x \in 1..n
      BY <2>1
    <3> QED
      BY <3>1, <3>2 DEF Shares
  <2> QED
    BY <2>1, <2>2
<1>2. ASSUME NEW f \in Forests, NEW i \in 1..n
      PROVE  /\ JoinNode(f, i, nodes[i]) \in Forests
             /\ \A S \in SUBSET (1..n) : Whole(JoinNode(f, i, nodes[i]), S) <=> Whole(f, S) /\ Joins(i, S)
  <2> DEFINE q == JoinNode(f, i, nodes[i])
  <2>1. Forest(f, n)
    OBVIOUS
  <2>2. Forest(q, n) /\ \A S \in SUBSET (1..n) : Whole(q, S) <=> Whole(f, S) /\ Joins(i, S)
    BY <1>1, <2>1, JoinNodeJoins
  <2> HIDE DEF q, Joins
  <2>3. q \in Forests
    BY <2>2 DEF Forest
  <2> QED
    BY <2>2, <2>3 DEF q
<1>3. alone \in Forests /\ \A S \in SUBSET (1..n) : Whole(alone, S)
  <2>1. alone \in [1..n -> 1..n] /\ DOMAIN alone = 1..n /\ \A x \in 1..n : alone[x] = x
    BY <1>1
  <2> HIDE DEF alone
  <2>2. \E rank \in [1..n -> Nat] : Ranks(rank, alone)
    <3>1. [x \in 1..n |-> 0] \in [1..n -> Nat] /\ Ranks([x \in 1..n |-> 0], alone)
      BY <2>1 DEF Ranks
    <3> QED
      BY <3>1
  <2>3. Forest(alone, n)
    BY <2>1, <2>2 DEF Forest, Parents
  <2> QED
    BY <2>1, <2>3 DEF Forest, Whole
<1>4. step \in [(1..n) \X Forests -> Forests]
  <2> HIDE DEF Forests
  <2> QED
    BY <1>2
<1>5. PICK g \in [0..n -> Forests] : g = [k \in 0..n |-> IF k = 0 THEN alone ELSE step[<<k, g[k - 1]>>]]
  <2> HIDE DEF Forests, step, alone, n
  <2>1. \E g \in [0..n -> Forests] : Rounds(g, n, alone, step)
    BY <1>1, <1>3, <1>4, RoundsExist
  <2> QED
    BY <2>1 DEF Rounds
<1>6. \A k \in 0..n : k # 0 => k \in 1..n /\ k - 1 \in 0..n
  BY <1>1
<1>7. \A k \in 1..n : step[<<k, g[k - 1]>>] = JoinNode(g[k - 1], k, nodes[k])
  <2>1. \A k \in 1..n : k - 1 \in 0..n
    BY <1>1
  <2> HIDE DEF Forests, n, alone
  <2> QED
    BY <2>1, <1>5
<1>8. g = [i \in 0..n |-> IF i = 0 THEN alone ELSE JoinNode(g[i - 1], i, nodes[i])]
  <2> HIDE DEF step, Forests, n, alone
  <2>1. \A k \in 0..n : g[k] = IF k = 0 THEN alone ELSE step[<<k, g[k - 1]>>]
    BY <1>5
  <2>2. \A k \in 0..n : g[k] = IF k = 0 THEN alone ELSE JoinNode(g[k - 1], k, nodes[k])
    BY <2>1, <1>6, <1>7
  <2>3. g = [k \in 0..n |-> g[k]]
    BY <1>5
  <2> QED
    BY <2>2, <2>3
<1>9. parent = [i \in 0..n |-> IF i = 0 THEN alone ELSE JoinNode(parent[i - 1], i, nodes[i])]
  <2> HIDE DEF n, alone
  <2> QED
    BY <1>8
<1>10. SetRoots(nodes) = [i \in DOMAIN nodes |-> Find(parent[n], i).at]
  BY DEF SetRoots
<1> HIDE DEF parent
<1>11. parent[0] = alone /\ \A k \in 1..n : parent[k] = JoinNode(parent[k - 1], k, nodes[k])
  <2>1. 0 \in 0..n /\ \A k \in 1..n : k \in 0..n /\ k # 0
    BY <1>1
  <2> HIDE DEF n, alone
  <2> QED
    BY <1>9, <2>1
<1> DEFINE Done(k) == /\ parent[k] \in Forests
                      /\ \A S \in SUBSET (1..n) : Whole(parent[k], S) <=> \A i \in 1..k : Joins(i, S)
           T == {k \in 0..n : Done(k)}
<1> HIDE DEF n
<1>12. 0 \in T
  <2>1. 0 \in 0..n /\ 1..0 = {}
    BY <1>1
  <2> HIDE DEF Joins, Forests, alone
  <2> QED
    BY <1>3, <1>11, <2>1
<1>13. ASSUME NEW k \in 1..n, k - 1 \in T PROVE k \in T
  <2>1. Done(k - 1)
    BY <1>13
  <2>2. k \in 0..n /\ \A l \in 1..k : l \in 1..(k - 1) \/ l = k
    BY <1>1
  <2>3. k \in 1..k /\ \A l \in 1..(k - 1) : l \in 1..k
    BY <1>1
  <2> HIDE DEF Joins, Forests
  <2>4. parent[k] = JoinNode(parent[k - 1], k, nodes[k])
    BY <1>11
  <2>5. parent[k] \in Forests
    BY <1>2, <2>1, <2>4
  <2>6. ASSUME NEW S \in SUBSET (1..n)
        PROVE  Whole(parent[k], S) <=> \A l \in 1..k : Joins(l, S)
    <3>1. Whole(parent[k], S) <=> Whole(parent[k - 1], S) /\ Joins(k, S)
      BY <1>2, <2>1, <2>4
    <3>2. Whole(parent[k - 1], S) <=> \A l \in 1..(k - 1) : Joins(l, S)
      BY <2>1
    <3> QED
      BY <3>1, <3>2, <2>2, <2>3
  <2> QED
    BY <2>2, <2>5, <2>6
<1>14. Done(n)
  <2>1. \A k \in 1..n : k - 1 \in T => k \in T
    BY <1>13
  <2>2. n \in 0..n
    BY <1>1
  <2> HIDE DEF T
  <2>3. 0..n \subseteq T
    BY <1>1, <1>12, <2>1, Climb
  <2>4. n \in T
    BY <2>2, <2>3
  <2> HIDE DEF Done
  <2> QED
    BY <2>4 DEF T
<1>15. ASSUME NEW S \in SUBSET (1..n) PROVE Respects(nodes, S) <=> \A i \in 1..n : Joins(i, S)
  <2>1. ASSUME Respects(nodes, S), NEW i \in 1..n PROVE Joins(i, S)
    <3> SUFFICES ASSUME NEW k \in 1..Len(nodes[i]), Shares(nodes[i][k], "planned")
                 PROVE  i \in S <=> nodes[i][k].index \in S
      OBVIOUS
    <3>1. <<i, nodes[i][k].index>> \in Shared(nodes, "planned")
      BY <1>1, SharedNodeByNode
    <3> QED
      BY <2>1, <3>1 DEF Respects
  <2>2. ASSUME \A i \in 1..n : Joins(i, S) PROVE Respects(nodes, S)
    <3> SUFFICES ASSUME NEW pair \in Shared(nodes, "planned") PROVE pair[1] \in S <=> pair[2] \in S
      BY DEF Respects
    <3>1. PICK i \in 1..n : \E k \in 1..Len(nodes[i]) :
             Shares(nodes[i][k], "planned") /\ pair = <<i, nodes[i][k].index>>
      BY <1>1, SharedNodeByNode
    <3>2. PICK k \in 1..Len(nodes[i]) : Shares(nodes[i][k], "planned") /\ pair = <<i, nodes[i][k].index>>
      BY <3>1
    <3>3. i \in S <=> nodes[i][k].index \in S
      BY <2>2, <3>2
    <3>4. pair[1] = i /\ pair[2] = nodes[i][k].index
      BY <3>2
    <3> QED
      BY <3>3, <3>4
  <2> QED
    BY <2>1, <2>2
<1> HIDE DEF Joins
<1>16. Forest(parent[n], n) /\ \A S \in SUBSET (1..n) : Whole(parent[n], S) <=> Respects(nodes, S)
  BY <1>14, <1>15
<1>17. \A i, j \in 1..n :
          /\ Find(parent[n], i).at \in 1..n
          /\ Find(parent[n], i).at = Find(parent[n], j).at <=>
                \A S \in SUBSET (1..n) : Whole(parent[n], S) => (i \in S <=> j \in S)
  BY <1>1, <1>16, RootsMeet
<1> DEFINE root == SetRoots(nodes)
<1>18. root \in [1..n -> 1..n] /\ \A i \in 1..n : root[i] = Find(parent[n], i).at
  BY <1>1, <1>10, <1>17
<1> HIDE DEF root
<1>19. \A i, j \in 1..n : root[i] = root[j] <=>
          \A S \in SUBSET (1..n) : Respects(nodes, S) => (i \in S <=> j \in S)
  BY <1>16, <1>17, <1>18
<1> QED
  BY <1>18, <1>19 DEF root, n

-----------------------------------------------------------------------------
(* Where the nodes of a plan go.                                           *)

\* Every component of the host is in one of its stores.
Housed == stores \in Nat /\ DOMAIN loaded \subseteq Nat \ {0} /\ \A i \in DOMAIN loaded : loaded[i].group \in 1..stores

\* A plan for this host.
Fitting(nodes) ==
    /\ nodes \in Plans
    /\ \A i \in DOMAIN nodes : \A k \in DOMAIN nodes[i] :
          nodes[i][k].source = "live" => nodes[i][k].index \in DOMAIN loaded

\* A component that node i must share with, by way of its set, is in store g.
AnchoredAt(nodes, r, g) ==
    \E pair \in Shared(nodes, "live") : SetRoots(nodes)[pair[1]] = r /\ loaded[pair[2]].group = g

\* More than one means two.
LEMMA AtMostOne ==
    ASSUME NEW S, IsFiniteSet(S)
    PROVE  Cardinality(S) > 1 <=> \E x, y \in S : x # y
<1>1. Cardinality(S) \in Nat
  BY FS_CardinalityType
<1>2. ASSUME NEW x \in S, NEW y \in S, x # y PROVE Cardinality(S) > 1
  <2>1. IsFiniteSet({x}) /\ Cardinality({x}) = 1
    BY FS_Singleton
  <2>2. Cardinality({x} \cup {y}) = 2
    BY <1>2, <2>1, FS_AddElement
  <2>3. ({x} \cup {y}) \in SUBSET S
    OBVIOUS
  <2>4. Cardinality({x} \cup {y}) <= Cardinality(S)
    BY <2>3, FS_Subset
  <2> QED
    BY <1>1, <2>2, <2>4
<1>3. ASSUME \A x, y \in S : x = y PROVE ~(Cardinality(S) > 1)
  <2>1. CASE S = {}
    BY <2>1, FS_EmptySet
  <2>2. CASE S # {}
    <3>1. PICK x \in S : TRUE
      BY <2>2
    <3>2. S = {x}
      BY <1>3
    <3>3. Cardinality(S) = 1
      BY <3>2, FS_Singleton
    <3> QED
      BY <3>3
  <2> QED
    BY <2>1, <2>2
<1> QED
  BY <1>2, <1>3

\* The anchors of each set.
LEMMA AnchorsAre ==
    ASSUME Housed, NEW nodes, Fitting(nodes)
    PROVE  LET anchor == Anchors(nodes, SetRoots(nodes))
           IN  \A r \in 1..Len(nodes) :
                  /\ anchor[r] \in SUBSET (1..stores) /\ IsFiniteSet(anchor[r])
                  /\ \A g : g \in anchor[r] <=> AnchoredAt(nodes, r, g)
<1> DEFINE root == SetRoots(nodes)
           anchor == Anchors(nodes, root)
<1>1. DOMAIN nodes = 1..Len(nodes)
  BY PlansAreLists DEF Fitting
<1> SUFFICES ASSUME NEW r \in 1..Len(nodes)
             PROVE  /\ anchor[r] \in SUBSET (1..stores) /\ IsFiniteSet(anchor[r])
                    /\ \A g : g \in anchor[r] <=> AnchoredAt(nodes, r, g)
  OBVIOUS
<1>2. anchor[r] = {loaded[pair[2]].group : pair \in {p \in Shared(nodes, "live") : root[p[1]] = r}}
  BY <1>1 DEF Anchors
<1>3. \A g : g \in anchor[r] <=> AnchoredAt(nodes, r, g)
  <2> HIDE DEF anchor
  <2> QED
    BY <1>2 DEF AnchoredAt
<1>4. \A pair \in Shared(nodes, "live") : pair[2] \in DOMAIN loaded
  BY SharedNodeByNode DEF Fitting, Shares
<1>5. anchor[r] \in SUBSET (1..stores)
  <2> HIDE DEF anchor
  <2> QED
    BY <1>3, <1>4 DEF AnchoredAt, Housed
<1>6. IsFiniteSet(1..stores)
  <2>1. stores \in Int /\ 1 \in Int
    BY DEF Housed
  <2> QED
    BY <2>1, FS_Interval
<1> HIDE DEF anchor
<1>7. IsFiniteSet(anchor[r])
  BY <1>5, <1>6, FS_Subset
<1> QED
  BY <1>3, <1>5, <1>7

\* A plan is refused exactly if a set of its nodes has anchors in two stores.
LEMMA RefusedIs ==
    ASSUME Housed, NEW nodes, Fitting(nodes)
    PROVE  Refused(nodes) <=>
              \E r \in 1..Len(nodes) : \E g, h : g # h /\ AnchoredAt(nodes, r, g) /\ AnchoredAt(nodes, r, h)
<1> DEFINE anchor == Anchors(nodes, SetRoots(nodes))
<1>1. DOMAIN anchor = 1..Len(nodes)
  BY PlansAreLists DEF Fitting, Anchors
<1>2. Refused(nodes) <=> \E r \in 1..Len(nodes) : Cardinality(anchor[r]) > 1
  <2>1. Range(anchor) = {anchor[r] : r \in 1..Len(nodes)}
    BY <1>1 DEF Range
  <2>2. Refused(nodes) <=> \E groups \in Range(anchor) : Cardinality(groups) > 1
    BY DEF Refused
  <2> HIDE DEF anchor
  <2> QED
    BY <2>1, <2>2
<1>3. ASSUME NEW r \in 1..Len(nodes)
      PROVE  Cardinality(anchor[r]) > 1 <=> \E g, h : g # h /\ AnchoredAt(nodes, r, g) /\ AnchoredAt(nodes, r, h)
  <2>1. IsFiniteSet(anchor[r]) /\ \A g : g \in anchor[r] <=> AnchoredAt(nodes, r, g)
    BY AnchorsAre
  <2> HIDE DEF anchor
  <2>2. Cardinality(anchor[r]) > 1 <=> \E x, y \in anchor[r] : x # y
    BY <2>1, AtMostOne
  <2> QED
    BY <2>1, <2>2
<1> QED
  BY <1>2, <1>3

\* The first node that has a root.
FirstIs(root, i, j) == j \in 1..i /\ root[j] = root[i] /\ \A k \in 1..(j - 1) : root[k] # root[i]

\* Some node is the first of those with one root.
LEMMA FirstExists ==
    ASSUME NEW n \in Nat, NEW root, NEW i \in 1..n
    PROVE  \E j \in 1..i : FirstIs(root, i, j)
<1> DEFINE S == {k \in 1..n : root[k] = root[i]}
<1>1. i \in S /\ i \in 0..n
  OBVIOUS
<1>2. PICK j \in S : j \in 0..i /\ \A k \in 0..(j - 1) : k \notin S
  <2> HIDE DEF S
  <2> QED
    BY <1>1, Least
<1>3. j \in 1..i /\ \A k \in 1..(j - 1) : k \in 0..(j - 1) /\ k \in 1..n
  BY <1>2
<1> QED
  BY <1>2, <1>3 DEF FirstIs

\* Two nodes have the same root exactly if they have the same first node.
LEMMA FirstIsOfRoot ==
    ASSUME NEW n \in Nat, NEW root, NEW i \in 1..n, NEW j \in 1..n, NEW a, NEW b,
           FirstIs(root, i, a), FirstIs(root, j, b)
    PROVE  root[i] = root[j] <=> a = b
<1>1. a \in 1..n /\ b \in 1..n /\ root[a] = root[i] /\ root[b] = root[j]
  BY DEF FirstIs
<1>2. ASSUME a = b PROVE root[i] = root[j]
  BY <1>1, <1>2
<1>3. ASSUME root[i] = root[j] PROVE a = b
  <2>1. a < b => a \in 1..(b - 1)
    BY <1>1
  <2>2. b < a => b \in 1..(a - 1)
    BY <1>1
  <2>3. ~(a < b) /\ ~(b < a)
    BY <1>1, <1>3, <2>1, <2>2 DEF FirstIs
  <2> QED
    BY <1>1, <2>3
<1> QED
  BY <1>2, <1>3

\* How many of the first nodes are in a set.
CountTo(O, j) == Cardinality({k \in 1..j : k \in O})

\* The count grows with each of them.
LEMMA CountGrows ==
    ASSUME NEW n \in Nat, NEW O \in SUBSET (1..n)
    PROVE  /\ IsFiniteSet(O) /\ Cardinality(O) \in Nat
           /\ \A j \in 1..n : CountTo(O, j) \in Nat /\ CountTo(O, j) <= Cardinality(O)
           /\ \A j \in O : CountTo(O, j) > 0
           /\ \A j, k \in O : j < k => CountTo(O, j) < CountTo(O, k)
<1>1. IsFiniteSet(1..n)
  BY FS_Interval
<1>2. IsFiniteSet(O) /\ Cardinality(O) \in Nat
  BY <1>1, FS_Subset, FS_CardinalityType
<1> DEFINE U(j) == {k \in 1..j : k \in O}
<1>3. \A j : U(j) \in SUBSET O
  OBVIOUS
<1> HIDE DEF U
<1>4. \A j : IsFiniteSet(U(j)) /\ Cardinality(U(j)) \in Nat /\ Cardinality(U(j)) <= Cardinality(O)
  BY <1>2, <1>3, FS_Subset, FS_CardinalityType
<1>5. \A j \in O : Cardinality(U(j)) > 0
  <2>1. \A j \in O : j \in U(j)
    BY DEF U
  <2>2. \A j \in O : Cardinality(U(j)) # 0
    BY <1>4, <2>1, FS_EmptySet
  <2> QED
    BY <1>4, <2>2
<1>6. ASSUME NEW j \in O, NEW k \in O, j < k PROVE Cardinality(U(j)) < Cardinality(U(k))
  <2>1. U(j) \in SUBSET U(k) /\ k \in U(k) /\ k \notin U(j)
    BY <1>6 DEF U
  <2>2. Cardinality(U(j)) <= Cardinality(U(k)) /\ Cardinality(U(j)) # Cardinality(U(k))
    BY <1>4, <2>1, FS_Subset
  <2> QED
    BY <1>4, <2>2
<1> QED
  BY <1>2, <1>4, <1>5, <1>6 DEF CountTo, U

\* A set with anchors goes to their store, and each that has none to a new store
\* of its own: as many are made as there are such sets.
LEMMA AssignmentPlaces ==
    ASSUME Housed, NEW nodes, Fitting(nodes), ~Refused(nodes)
    PROVE  LET n == Len(nodes)
               root == SetRoots(nodes)
               to == Assignment(nodes)
               made == Cardinality({to[i] : i \in DOMAIN nodes} \ 1..stores)
           IN  /\ made \in Nat
               /\ to \in [1..n -> 1..(stores + made)]
               /\ \A i \in 1..n : \A g : AnchoredAt(nodes, root[i], g) => to[i] = g /\ g \in 1..stores
               /\ \A i \in 1..n : to[i] \in 1..stores => AnchoredAt(nodes, root[i], to[i])
               /\ \A i, j \in 1..n : to[i] = to[j] /\ to[i] \notin 1..stores => root[i] = root[j]
               /\ \A i, j \in 1..n : root[i] = root[j] => to[i] = to[j]
<1> DEFINE n == Len(nodes)
           root == SetRoots(nodes)
           anchor == Anchors(nodes, root)
           opener(i) == anchor[root[i]] = {} /\ \A j \in 1..(i - 1) : root[j] # root[i]
           first(i) == CHOOSE j \in 1..i : root[j] = root[i] /\ \A k \in 1..(j - 1) : root[k] # root[i]
           to == Assignment(nodes)
           new == {to[i] : i \in DOMAIN nodes} \ 1..stores
           O == {i \in 1..n : opener(i)}
<1>1. n \in Nat /\ DOMAIN nodes = 1..n /\ nodes \in Plans
  BY PlansAreLists DEF Fitting
<1>2. root \in [1..n -> 1..n]
  BY <1>1, RootsAreSets
<1>3. \A i \in 1..n : \A g : g \in anchor[root[i]] <=> AnchoredAt(nodes, root[i], g)
  BY <1>2, AnchorsAre
<1>4. \A i \in 1..n : \A g \in anchor[root[i]] : g \in 1..stores
  BY <1>2, AnchorsAre
<1>5. ASSUME NEW i \in 1..n, NEW g \in anchor[root[i]], NEW h \in anchor[root[i]] PROVE g = h
  <2>1. AnchoredAt(nodes, root[i], g) /\ AnchoredAt(nodes, root[i], h) /\ root[i] \in 1..n
    BY <1>2, <1>3
  <2> QED
    BY <2>1, RefusedIs
<1>6. stores \in Nat
  BY DEF Housed
<1>7. to = [i \in 1..n |-> IF anchor[root[i]] # {} THEN CHOOSE g \in anchor[root[i]] : TRUE
                            ELSE stores + Cardinality({j \in 1..first(i) : opener(j)})]
  <2>1. to = [i \in DOMAIN nodes |-> IF anchor[root[i]] # {} THEN CHOOSE g \in anchor[root[i]] : TRUE
                            ELSE stores + Cardinality({j \in 1..first(i) : opener(j)})]
    BY DEF Assignment
  <2> HIDE DEF to, n, anchor, root
  <2> QED
    BY <1>1, <2>1
<1>8. \A i \in 1..n : FirstIs(root, i, first(i))
  <2> HIDE DEF root, n
  <2> SUFFICES ASSUME NEW i \in 1..n PROVE FirstIs(root, i, first(i))
    OBVIOUS
  <2>1. \E j \in 1..i : root[j] = root[i] /\ \A k \in 1..(j - 1) : root[k] # root[i]
    <3>1. \E j \in 1..i : FirstIs(root, i, j)
      BY <1>1, FirstExists
    <3> QED
      BY <3>1 DEF FirstIs
  <2> QED
    BY <2>1 DEF FirstIs
<1> HIDE DEF n, root, anchor, to, first
<1>9. \A i \in 1..n : first(i) \in 1..n /\ first(i) \in 1..i /\ root[first(i)] = root[i]
  BY <1>1, <1>8 DEF FirstIs
<1>10. ASSUME NEW i \in 1..n, anchor[root[i]] = {} PROVE first(i) \in O
  BY <1>8, <1>9, <1>10 DEF FirstIs
<1>11. ASSUME NEW i \in 1..n PROVE {j \in 1..first(i) : opener(j)} = {j \in 1..first(i) : j \in O}
  <2>1. \A j \in 1..first(i) : j \in 1..n
    BY <1>1, <1>9
  <2> QED
    BY <2>1
<1>12. O \in SUBSET (1..n)
  OBVIOUS
<1>13. ASSUME NEW i \in O PROVE first(i) = i
  <2>1. i \in 1..n /\ FirstIs(root, i, i)
    BY <1>1, <1>13 DEF FirstIs
  <2>2. FirstIs(root, i, first(i))
    BY <1>8, <2>1
  <2> HIDE DEF O, opener
  <2>3. root[i] = root[i] <=> first(i) = i
    BY <1>1, <2>1, <2>2, FirstIsOfRoot
  <2> QED
    BY <2>3
<1>14. ASSUME NEW i \in O PROVE anchor[root[i]] = {}
  BY <1>14
<1> HIDE DEF opener, O
<1>15. ASSUME NEW i \in 1..n
       PROVE  IF anchor[root[i]] # {} THEN to[i] \in anchor[root[i]] ELSE to[i] = stores + CountTo(O, first(i))
  <2>1. CASE anchor[root[i]] # {}
    <3>1. to[i] = CHOOSE g \in anchor[root[i]] : TRUE
      BY <1>7, <2>1
    <3> QED
      BY <2>1, <3>1
  <2>2. CASE anchor[root[i]] = {}
    <3>1. to[i] = stores + Cardinality({j \in 1..first(i) : opener(j)})
      BY <1>7, <2>2
    <3> QED
      BY <1>11, <2>2, <3>1 DEF CountTo
  <2> QED
    BY <2>1, <2>2
<1>16. /\ IsFiniteSet(O) /\ Cardinality(O) \in Nat
       /\ \A j \in 1..n : CountTo(O, j) \in Nat /\ CountTo(O, j) <= Cardinality(O)
       /\ \A j \in O : CountTo(O, j) > 0
       /\ \A j, k \in O : j < k => CountTo(O, j) < CountTo(O, k)
  BY <1>1, <1>12, CountGrows
<1>17. ASSUME NEW i \in 1..n, anchor[root[i]] = {}
       PROVE  to[i] \in Nat /\ to[i] > stores /\ to[i] <= stores + Cardinality(O)
  <2>1. to[i] = stores + CountTo(O, first(i)) /\ first(i) \in O /\ first(i) \in 1..n
    BY <1>9, <1>10, <1>15, <1>17
  <2>2. CountTo(O, first(i)) \in Nat /\ CountTo(O, first(i)) > 0 /\ CountTo(O, first(i)) <= Cardinality(O)
    BY <1>16, <2>1
  <2> QED
    BY <1>6, <1>16, <2>1, <2>2
<1>18. ASSUME NEW i \in 1..n, anchor[root[i]] # {} PROVE to[i] \in 1..stores /\ AnchoredAt(nodes, root[i], to[i])
  BY <1>3, <1>4, <1>15, <1>18
<1>19. ASSUME NEW i \in 1..n, NEW j \in 1..n, anchor[root[i]] = {}, anchor[root[j]] = {}, to[i] = to[j]
       PROVE  root[i] = root[j]
  <2>1. /\ to[i] = stores + CountTo(O, first(i)) /\ first(i) \in O /\ first(i) \in 1..n
        /\ to[j] = stores + CountTo(O, first(j)) /\ first(j) \in O /\ first(j) \in 1..n
    BY <1>9, <1>10, <1>15, <1>19
  <2>2. CountTo(O, first(i)) \in Nat /\ CountTo(O, first(j)) \in Nat
    BY <1>16, <2>1
  <2> DEFINE ci == CountTo(O, first(i))
             cj == CountTo(O, first(j))
  <2>3. ci = cj
    <3>1. stores + ci = stores + cj
      BY <1>19, <2>1
    <3>2. ci \in Nat /\ cj \in Nat
      BY <2>2
    <3> HIDE DEF ci, cj
    <3> QED
      BY <1>6, <3>1, <3>2
  <2>4. ~(first(i) < first(j)) /\ ~(first(j) < first(i))
    BY <1>16, <2>1, <2>2, <2>3
  <2>5. first(i) = first(j)
    BY <1>1, <2>1, <2>4
  <2> QED
    BY <1>1, <1>8, <2>5, FirstIsOfRoot
<1>20. /\ IsFiniteSet(new) /\ Cardinality(new) \in Nat
  <2>1. new \subseteq 1..(stores + Cardinality(O))
    <3>1. ASSUME NEW i \in 1..n, to[i] \notin 1..stores PROVE to[i] \in 1..(stores + Cardinality(O))
      <4>1. to[i] \in Nat /\ to[i] > stores /\ to[i] <= stores + Cardinality(O)
        BY <1>17, <1>18, <3>1
      <4> QED
        BY <1>6, <1>16, <4>1
    <3> QED
      BY <1>1, <3>1
  <2>2. IsFiniteSet(1..(stores + Cardinality(O)))
    BY <1>6, <1>16, FS_Interval
  <2> HIDE DEF new
  <2> QED
    BY <2>1, <2>2, FS_Subset, FS_CardinalityType
<1>21. Cardinality(O) <= Cardinality(new)
  <2> SUFFICES ASSUME Cardinality(new) < Cardinality(O) PROVE FALSE
    BY <1>16, <1>20
  <2> DEFINE f == [i \in O |-> to[i]]
  <2>1. \A i \in O : to[i] \in new
    BY <1>1, <1>6, <1>12, <1>14, <1>17
  <2>2. f \in [O -> new]
    BY <2>1
  <2>3. PICK x \in O, y \in O : x # y /\ f[x] = f[y]
    <3> HIDE DEF new, f
    <3> QED
      BY <1>16, <1>20, <2>2, FS_PigeonHole
  <2>4. root[x] = root[y]
    BY <1>12, <1>14, <1>19, <2>3
  <2>5. first(x) = first(y)
    BY <1>1, <1>8, <1>12, <2>4, FirstIsOfRoot
  <2> QED
    BY <1>13, <2>3, <2>5
<1> HIDE DEF new
<1>22. to \in [1..n -> 1..(stores + Cardinality(new))]
  <2>1. ASSUME NEW i \in 1..n PROVE to[i] \in 1..(stores + Cardinality(new))
    <3>1. CASE anchor[root[i]] = {}
      BY <1>6, <1>16, <1>17, <1>20, <1>21, <3>1
    <3>2. CASE anchor[root[i]] # {}
      BY <1>6, <1>18, <1>20, <3>2
    <3> QED
      BY <3>1, <3>2
  <2>2. to = [i \in 1..n |-> to[i]]
    BY <1>7
  <2> QED
    BY <2>1, <2>2
<1>23. ASSUME NEW i \in 1..n, NEW g, AnchoredAt(nodes, root[i], g) PROVE to[i] = g /\ g \in 1..stores
  BY <1>3, <1>4, <1>5, <1>15, <1>23
<1>24. ASSUME NEW i \in 1..n, to[i] \in 1..stores PROVE AnchoredAt(nodes, root[i], to[i])
  <2>1. anchor[root[i]] # {}
    BY <1>6, <1>17, <1>24
  <2> QED
    BY <1>18, <2>1
<1>25. ASSUME NEW i \in 1..n, NEW j \in 1..n, to[i] = to[j], to[i] \notin 1..stores PROVE root[i] = root[j]
  BY <1>18, <1>19, <1>25
<1>26. ASSUME NEW i \in 1..n, NEW j \in 1..n, root[i] = root[j] PROVE to[i] = to[j]
  <2>1. CASE anchor[root[i]] = {}
    <3>1. first(i) = first(j)
      BY <1>1, <1>8, <1>26, FirstIsOfRoot
    <3> QED
      BY <1>15, <1>26, <2>1, <3>1
  <2>2. CASE anchor[root[i]] # {}
    BY <1>5, <1>15, <1>26, <2>2
  <2> QED
    BY <2>1, <2>2
<1> QED
  BY <1>20, <1>22, <1>23, <1>24, <1>25, <1>26 DEF n, root, to, new

-----------------------------------------------------------------------------
(* Which components a plan bonds.                                          *)

\* The components there are once the plan is loaded.
Coming(nodes) == 1..(Len(loaded) + Len(nodes))

\* A set of components that has whoever must share with one it has.
Steady(nodes, S) ==
    /\ \A p \in bonds : p[1] \in S /\ p[2] \in Coming(nodes) => p[2] \in S
    /\ \A p \in Shared(nodes, "live") : Len(loaded) + p[1] \in S <=> p[2] \in S
    /\ \A p \in Shared(nodes, "planned") : Len(loaded) + p[1] \in S <=> Len(loaded) + p[2] \in S

\* The components of the host are numbered.
Numbered == Housed /\ Len(loaded) \in Nat /\ DOMAIN loaded = 1..Len(loaded)

\* Who is shared with is there.
LEMMA SharedAreThere ==
    ASSUME Numbered, NEW nodes, Fitting(nodes)
    PROVE  /\ Len(nodes) \in Nat \ {0} /\ DOMAIN nodes = 1..Len(nodes) /\ nodes \in Plans
           /\ \A p \in Shared(nodes, "live") : p[1] \in 1..Len(nodes) /\ p[2] \in DOMAIN loaded
           /\ \A p \in Shared(nodes, "planned") : p[1] \in 1..Len(nodes) /\ p[2] \in 1..Len(nodes)
<1>1. /\ Len(nodes) \in Nat \ {0} /\ DOMAIN nodes = 1..Len(nodes)
      /\ \A i \in DOMAIN nodes : \A k \in DOMAIN nodes[i] :
            nodes[i][k].source = "planned" => nodes[i][k].index \in 1..(i - 1)
  BY PlansAreLists DEF Fitting
<1>2. \A p \in Shared(nodes, "live") : p[1] \in 1..Len(nodes) /\ p[2] \in DOMAIN loaded
  BY <1>1, SharedNodeByNode DEF Fitting, Shares
<1>3. ASSUME NEW p \in Shared(nodes, "planned") PROVE p[1] \in 1..Len(nodes) /\ p[2] \in 1..Len(nodes)
  <2>1. PICK i \in DOMAIN nodes : \E k \in DOMAIN nodes[i] :
           Shares(nodes[i][k], "planned") /\ p = <<i, nodes[i][k].index>>
    BY <1>3, SharedNodeByNode
  <2>2. p[1] = i /\ p[2] \in 1..(i - 1)
    BY <1>1, <2>1 DEF Shares
  <2> QED
    BY <1>1, <2>2
<1> QED
  BY <1>1, <1>2, <1>3 DEF Fitting

\* Two components are bonded exactly if every steady set that has the one has
\* the other.
LEMMA BondsAreSteady ==
    ASSUME Numbered, NEW nodes, Fitting(nodes)
    PROVE  BondsWith(nodes) = {p \in Coming(nodes) \X Coming(nodes) :
                                  \A S \in SUBSET Coming(nodes) : p[1] \in S /\ Steady(nodes, S) => p[2] \in S}
<1> DEFINE live == DOMAIN loaded
           at(i) == Len(loaded) + i
           node == live \cup {at(i) : i \in DOMAIN nodes}
           toLive == {<<at(p[1]), p[2]>> : p \in Shared(nodes, "live")}
           toPlanned == {<<at(p[1]), at(p[2])>> : p \in Shared(nodes, "planned")}
           pairs == toLive \cup toPlanned
           edge == bonds \cup pairs \cup {<<p[2], p[1]>> : p \in pairs}
           Closed(S) == \A e \in edge : e[1] \in S /\ e[2] \in node => e[2] \in S
<1>1. /\ Len(nodes) \in Nat \ {0} /\ DOMAIN nodes = 1..Len(nodes)
      /\ \A p \in Shared(nodes, "live") : p[1] \in 1..Len(nodes) /\ p[2] \in DOMAIN loaded
      /\ \A p \in Shared(nodes, "planned") : p[1] \in 1..Len(nodes) /\ p[2] \in 1..Len(nodes)
  BY SharedAreThere
<1>2. Len(loaded) \in Nat /\ DOMAIN loaded = 1..Len(loaded)
  BY DEF Numbered
<1>3. node = Coming(nodes)
  <2>1. ASSUME NEW x \in Coming(nodes) PROVE x \in node
    <3>1. x \in 1..Len(loaded) \/ (x - Len(loaded) \in 1..Len(nodes) /\ x = at(x - Len(loaded)))
      BY <1>1, <1>2 DEF Coming
    <3> QED
      BY <1>1, <1>2, <3>1
  <2>2. ASSUME NEW x \in node PROVE x \in Coming(nodes)
    BY <1>1, <1>2 DEF Coming
  <2> QED
    BY <2>1, <2>2
<1>4. BondsWith(nodes) = {p \in node \X node : Leads(node, edge, p[1], p[2])}
  BY DEF BondsWith
<1>5. \A p \in Shared(nodes, "live") : at(p[1]) \in Coming(nodes) /\ p[2] \in Coming(nodes)
  BY <1>1, <1>2 DEF Coming
<1>6. \A p \in Shared(nodes, "planned") : at(p[1]) \in Coming(nodes) /\ at(p[2]) \in Coming(nodes)
  BY <1>1, <1>2 DEF Coming
<1> HIDE DEF node, at
<1>7. ASSUME NEW S \in SUBSET Coming(nodes) PROVE Closed(S) <=> Steady(nodes, S)
  <2>1. ASSUME Closed(S) PROVE Steady(nodes, S)
    <3>1. \A p \in bonds : p[1] \in S /\ p[2] \in Coming(nodes) => p[2] \in S
      BY <1>3, <2>1
    <3>2. ASSUME NEW p \in pairs, p[1] \in Coming(nodes), p[2] \in Coming(nodes) PROVE p[1] \in S <=> p[2] \in S
      <4>1. p \in edge /\ <<p[2], p[1]>> \in edge
        OBVIOUS
      <4> HIDE DEF edge, pairs
      <4>2. p[1] \in S => p[2] \in S
        BY <1>3, <2>1, <3>2, <4>1
      <4>3. <<p[2], p[1]>>[1] \in S => <<p[2], p[1]>>[2] \in S
        BY <1>3, <2>1, <3>2, <4>1
      <4> QED
        BY <4>2, <4>3
    <3>3. ASSUME NEW p \in Shared(nodes, "live") PROVE at(p[1]) \in S <=> p[2] \in S
      <4>1. <<at(p[1]), p[2]>> \in pairs
        OBVIOUS
      <4> HIDE DEF pairs
      <4>2. <<at(p[1]), p[2]>>[1] \in S <=> <<at(p[1]), p[2]>>[2] \in S
        BY <1>5, <3>2, <4>1
      <4> QED
        BY <4>2
    <3>4. ASSUME NEW p \in Shared(nodes, "planned") PROVE at(p[1]) \in S <=> at(p[2]) \in S
      <4>1. <<at(p[1]), at(p[2])>> \in pairs
        OBVIOUS
      <4> HIDE DEF pairs
      <4>2. <<at(p[1]), at(p[2])>>[1] \in S <=> <<at(p[1]), at(p[2])>>[2] \in S
        BY <1>6, <3>2, <4>1
      <4> QED
        BY <4>2
    <3> QED
      BY <3>1, <3>3, <3>4 DEF Steady, at
  <2>2. ASSUME Steady(nodes, S) PROVE Closed(S)
    <3>1. ASSUME NEW e \in bonds, e[1] \in S, e[2] \in node PROVE e[2] \in S
      BY <1>3, <2>2, <3>1 DEF Steady
    <3>2. ASSUME NEW p \in pairs PROVE p[1] \in S <=> p[2] \in S
      <4>1. CASE p \in toLive
        BY <2>2, <4>1 DEF Steady, at
      <4>2. CASE p \in toPlanned
        BY <2>2, <4>2 DEF Steady, at
      <4> QED
        BY <4>1, <4>2
    <3> HIDE DEF pairs
    <3> QED
      BY <3>1, <3>2
  <2> QED
    BY <2>1, <2>2
<1>8. ASSUME NEW m, NEW n
      PROVE  Leads(node, edge, m, n) <=> \A S \in SUBSET Coming(nodes) : m \in S /\ Steady(nodes, S) => n \in S
  <2>1. Leads(node, edge, m, n) <=> \A S \in SUBSET Coming(nodes) : m \in S /\ Closed(S) => n \in S
    <3> HIDE DEF edge
    <3> QED
      BY <1>3 DEF Leads
  <2> HIDE DEF Closed
  <2> QED
    BY <1>7, <2>1
<1> HIDE DEF edge
<1> QED
  BY <1>3, <1>4, <1>8

\* The bonds of the live components are their stores.
BondsFit == bonds = {p \in (DOMAIN loaded) \X (DOMAIN loaded) : loaded[p[1]].group = loaded[p[2]].group}

\* Two components are bonded exactly when they are in one store.
LEMMA BondsFitPairs ==
    ASSUME BondsFit
    PROVE  /\ \A l, m \in DOMAIN loaded : <<l, m>> \in bonds <=> loaded[l].group = loaded[m].group
           /\ \A p \in bonds : p[1] \in DOMAIN loaded /\ p[2] \in DOMAIN loaded /\ loaded[p[1]].group = loaded[p[2]].group
<1> DEFINE D == DOMAIN loaded
           same(p) == loaded[p[1]].group = loaded[p[2]].group
<1>1. bonds = {p \in D \X D : same(p)}
  BY DEF BondsFit
<1>2. \A l, m \in D : same(<<l, m>>) <=> loaded[l].group = loaded[m].group
  OBVIOUS
<1> HIDE DEF same
<1>3. \A l, m \in D : <<l, m>> \in bonds <=> loaded[l].group = loaded[m].group
  BY <1>1, <1>2
<1>4. \A p \in bonds : p[1] \in D /\ p[2] \in D /\ same(p)
  BY <1>1
<1> QED
  BY <1>3, <1>4 DEF same

\* Nodes that have a root in common are in the same steady sets.
LEMMA RootsAreSteady ==
    ASSUME Numbered, NEW nodes, Fitting(nodes), NEW S, Steady(nodes, S),
           NEW i \in 1..Len(nodes), NEW j \in 1..Len(nodes), SetRoots(nodes)[i] = SetRoots(nodes)[j]
    PROVE  Len(loaded) + i \in S <=> Len(loaded) + j \in S
<1> DEFINE R == {x \in 1..Len(nodes) : Len(loaded) + x \in S}
<1>1. Respects(nodes, R)
  <2>1. \A p \in Shared(nodes, "planned") : p[1] \in 1..Len(nodes) /\ p[2] \in 1..Len(nodes)
    BY SharedAreThere
  <2> QED
    BY <2>1 DEF Respects, Steady
<1>2. R \in SUBSET (1..Len(nodes))
  OBVIOUS
<1> HIDE DEF R
<1>3. i \in R <=> j \in R
  BY <1>1, <1>2, RootsAreSets DEF Fitting
<1> QED
  BY <1>3 DEF R

\* So is a node with a component its set must share with.
LEMMA AnchorsAreSteady ==
    ASSUME Numbered, NEW nodes, Fitting(nodes), NEW i \in 1..Len(nodes), NEW g, AnchoredAt(nodes, SetRoots(nodes)[i], g)
    PROVE  \E l \in DOMAIN loaded : /\ loaded[l].group = g
                                    /\ \A S : Steady(nodes, S) => (Len(loaded) + i \in S <=> l \in S)
<1>1. PICK p \in Shared(nodes, "live") : SetRoots(nodes)[p[1]] = SetRoots(nodes)[i] /\ loaded[p[2]].group = g
  BY DEF AnchoredAt
<1>2. p[1] \in 1..Len(nodes) /\ p[2] \in DOMAIN loaded
  BY SharedAreThere
<1>3. ASSUME NEW S, Steady(nodes, S) PROVE Len(loaded) + i \in S <=> p[2] \in S
  <2>1. Len(loaded) + p[1] \in S <=> Len(loaded) + i \in S
    BY <1>1, <1>2, <1>3, RootsAreSteady
  <2>2. Len(loaded) + p[1] \in S <=> p[2] \in S
    BY <1>3 DEF Steady
  <2> QED
    BY <2>1, <2>2
<1> QED
  BY <1>1, <1>2, <1>3

\* Where each component is once the plan is loaded.
Home(nodes, x) == IF x \in DOMAIN loaded THEN loaded[x].group ELSE Assignment(nodes)[x - Len(loaded)]

\* A plan bonds exactly the components that are to be in one store.
LEMMA BondsAreHomes ==
    ASSUME Numbered, BondsFit, NEW nodes, Fitting(nodes), ~Refused(nodes)
    PROVE  BondsWith(nodes) = {p \in Coming(nodes) \X Coming(nodes) : Home(nodes, p[1]) = Home(nodes, p[2])}
<1> DEFINE n == Len(nodes)
           root == SetRoots(nodes)
           to == Assignment(nodes)
<1>1. /\ n \in Nat \ {0} /\ DOMAIN nodes = 1..n
      /\ \A p \in Shared(nodes, "live") : p[1] \in 1..n /\ p[2] \in DOMAIN loaded
      /\ \A p \in Shared(nodes, "planned") : p[1] \in 1..n /\ p[2] \in 1..n
  BY SharedAreThere
<1>2. Len(loaded) \in Nat /\ DOMAIN loaded = 1..Len(loaded) /\ Housed
  BY DEF Numbered
<1>3. /\ \A i \in 1..n : \A g : AnchoredAt(nodes, root[i], g) => to[i] = g /\ g \in 1..stores
      /\ \A i \in 1..n : to[i] \in 1..stores => AnchoredAt(nodes, root[i], to[i])
      /\ \A i, j \in 1..n : to[i] = to[j] /\ to[i] \notin 1..stores => root[i] = root[j]
      /\ \A i, j \in 1..n : root[i] = root[j] => to[i] = to[j]
  BY <1>2, AssignmentPlaces
<1>4. root \in [1..n -> 1..n] /\ \A i, j \in 1..n : root[i] = root[j] <=>
         \A S \in SUBSET (1..n) : Respects(nodes, S) => (i \in S <=> j \in S)
  BY RootsAreSets DEF Fitting
<1> HIDE DEF n, root, to
<1>5. \A i \in 1..n : Len(loaded) + i \in Coming(nodes) /\ Home(nodes, Len(loaded) + i) = to[i]
  <2> SUFFICES ASSUME NEW i \in 1..n PROVE Len(loaded) + i \in Coming(nodes) /\ Home(nodes, Len(loaded) + i) = to[i]
    OBVIOUS
  <2>1. Len(loaded) + i \notin DOMAIN loaded /\ (Len(loaded) + i) - Len(loaded) = i
    BY <1>1, <1>2
  <2>2. Len(loaded) + i \in Coming(nodes)
    BY <1>1, <1>2 DEF Coming, n
  <2> QED
    BY <2>1, <2>2 DEF Home, to
<1>6. \A x \in Coming(nodes) : x \in DOMAIN loaded \/ \E i \in 1..n : x = Len(loaded) + i
  <2> SUFFICES ASSUME NEW x \in Coming(nodes), x \notin DOMAIN loaded PROVE \E i \in 1..n : x = Len(loaded) + i
    OBVIOUS
  <2>1. x - Len(loaded) \in 1..n /\ x = Len(loaded) + (x - Len(loaded))
    BY <1>1, <1>2 DEF Coming, n
  <2> QED
    BY <2>1
<1>7. \A x \in DOMAIN loaded : x \in Coming(nodes) /\ Home(nodes, x) = loaded[x].group /\ Home(nodes, x) \in 1..stores
  BY <1>1, <1>2 DEF Coming, Home, Housed, n
<1>8. ASSUME NEW x \in Coming(nodes), Home(nodes, x) \in 1..stores
      PROVE  \E l \in DOMAIN loaded : /\ loaded[l].group = Home(nodes, x)
                                      /\ \A S : Steady(nodes, S) => (x \in S <=> l \in S)
  <2>1. CASE x \in DOMAIN loaded
    BY <1>7, <2>1
  <2>2. CASE x \notin DOMAIN loaded
    <3>1. PICK i \in 1..n : x = Len(loaded) + i
      BY <1>6, <2>2
    <3>2. AnchoredAt(nodes, root[i], Home(nodes, x))
      BY <1>3, <1>5, <1>8, <3>1
    <3> QED
      BY <3>1, <3>2, AnchorsAreSteady DEF n, root
  <2> QED
    BY <2>1, <2>2
<1>9. ASSUME NEW x \in Coming(nodes), NEW y \in Coming(nodes), Home(nodes, x) = Home(nodes, y),
             NEW S \in SUBSET Coming(nodes), x \in S, Steady(nodes, S)
      PROVE  y \in S
  <2>1. CASE Home(nodes, x) \in 1..stores
    <3>1. PICK l \in DOMAIN loaded : loaded[l].group = Home(nodes, x) /\ (x \in S <=> l \in S)
      BY <1>8, <1>9, <2>1
    <3>2. PICK m \in DOMAIN loaded : loaded[m].group = Home(nodes, y) /\ (y \in S <=> m \in S)
      BY <1>8, <1>9, <2>1
    <3>3. <<l, m>> \in bonds
      BY <1>9, <3>1, <3>2, BondsFitPairs
    <3>4. <<l, m>>[1] \in S /\ <<l, m>>[2] \in Coming(nodes)
      BY <1>7, <1>9, <3>1
    <3>5. <<l, m>>[2] \in S
      BY <1>9, <3>3, <3>4 DEF Steady
    <3> QED
      BY <3>2, <3>5
  <2>2. CASE Home(nodes, x) \notin 1..stores
    <3>1. PICK i \in 1..n : x = Len(loaded) + i
      BY <1>6, <1>7, <2>2
    <3>2. PICK j \in 1..n : y = Len(loaded) + j
      BY <1>6, <1>7, <1>9, <2>2
    <3>3. root[i] = root[j]
      BY <1>3, <1>5, <1>9, <2>2, <3>1, <3>2
    <3> QED
      BY <1>9, <3>1, <3>2, <3>3, RootsAreSteady DEF n, root
  <2> QED
    BY <2>1, <2>2
<1>10. ASSUME NEW x \in Coming(nodes), NEW y \in Coming(nodes),
              \A S \in SUBSET Coming(nodes) : x \in S /\ Steady(nodes, S) => y \in S
       PROVE  Home(nodes, x) = Home(nodes, y)
  <2> DEFINE S == {z \in Coming(nodes) : Home(nodes, z) = Home(nodes, x)}
  <2>1. ASSUME NEW p \in bonds, p[1] \in S, p[2] \in Coming(nodes) PROVE p[2] \in S
    <3>1. p[1] \in DOMAIN loaded /\ p[2] \in DOMAIN loaded /\ loaded[p[1]].group = loaded[p[2]].group
      BY BondsFitPairs
    <3> QED
      BY <1>7, <2>1, <3>1
  <2>2. ASSUME NEW p \in Shared(nodes, "live") PROVE Len(loaded) + p[1] \in S <=> p[2] \in S
    <3>1. p[1] \in 1..n /\ p[2] \in DOMAIN loaded
      BY <1>1 DEF n
    <3>2. AnchoredAt(nodes, root[p[1]], loaded[p[2]].group)
      BY DEF AnchoredAt, root
    <3>3. to[p[1]] = loaded[p[2]].group
      BY <1>3, <3>1, <3>2
    <3>4. Home(nodes, Len(loaded) + p[1]) = Home(nodes, p[2])
      BY <1>5, <1>7, <3>1, <3>3
    <3> QED
      BY <1>5, <1>7, <3>1, <3>4
  <2>3. ASSUME NEW p \in Shared(nodes, "planned") PROVE Len(loaded) + p[1] \in S <=> Len(loaded) + p[2] \in S
    <3>1. p[1] \in 1..n /\ p[2] \in 1..n
      BY <1>1 DEF n
    <3>2. root[p[1]] = root[p[2]]
      BY <1>4, <3>1 DEF Respects
    <3>3. to[p[1]] = to[p[2]]
      BY <1>3, <3>1, <3>2
    <3> QED
      BY <1>5, <3>1, <3>3
  <2>4. S \in SUBSET Coming(nodes) /\ x \in S
    OBVIOUS
  <2> HIDE DEF S
  <2>5. Steady(nodes, S)
    BY <2>1, <2>2, <2>3 DEF Steady
  <2>6. y \in S
    BY <1>10, <2>4, <2>5
  <2> QED
    BY <2>6 DEF S
<1>11. BondsWith(nodes) = {p \in Coming(nodes) \X Coming(nodes) :
                               \A S \in SUBSET Coming(nodes) : p[1] \in S /\ Steady(nodes, S) => p[2] \in S}
  BY BondsAreSteady
<1>12. \A p \in Coming(nodes) \X Coming(nodes) :
          (\A S \in SUBSET Coming(nodes) : p[1] \in S /\ Steady(nodes, S) => p[2] \in S)
             <=> Home(nodes, p[1]) = Home(nodes, p[2])
  BY <1>9, <1>10
<1> QED
  BY <1>11, <1>12

\* What RefusedOnlyForTwoStores says of a plan.
LEMMA RefusalIsRight ==
    ASSUME Numbered, BondsFit, NEW nodes, Fitting(nodes)
    PROVE  Refused(nodes) <=>
              \E p \in Among(BondsWith(nodes), DOMAIN loaded) : loaded[p[1]].group # loaded[p[2]].group
<1>1. DOMAIN loaded \subseteq Coming(nodes)
  <2>1. Len(loaded) \in Nat /\ DOMAIN loaded = 1..Len(loaded) /\ Len(nodes) \in Nat
    BY SharedAreThere DEF Numbered
  <2> QED
    BY <2>1 DEF Coming
<1>2. ASSUME ~Refused(nodes), NEW p \in Among(BondsWith(nodes), DOMAIN loaded)
      PROVE  loaded[p[1]].group = loaded[p[2]].group
  <2>1. Home(nodes, p[1]) = Home(nodes, p[2]) /\ p[1] \in DOMAIN loaded /\ p[2] \in DOMAIN loaded
    BY <1>2, BondsAreHomes DEF Among
  <2> QED
    BY <2>1 DEF Home
<1>3. ASSUME Refused(nodes)
      PROVE  \E p \in Among(BondsWith(nodes), DOMAIN loaded) : loaded[p[1]].group # loaded[p[2]].group
  <2>1. PICK r \in 1..Len(nodes) : \E g, h : g # h /\ AnchoredAt(nodes, r, g) /\ AnchoredAt(nodes, r, h)
    BY <1>3, RefusedIs DEF Numbered
  <2>2. PICK g, h : g # h /\ AnchoredAt(nodes, r, g) /\ AnchoredAt(nodes, r, h)
    BY <2>1
  <2>3. PICK p \in Shared(nodes, "live") : SetRoots(nodes)[p[1]] = r /\ loaded[p[2]].group = g
    BY <2>2 DEF AnchoredAt
  <2>4. PICK q \in Shared(nodes, "live") : SetRoots(nodes)[q[1]] = r /\ loaded[q[2]].group = h
    BY <2>2 DEF AnchoredAt
  <2>5. p[1] \in 1..Len(nodes) /\ p[2] \in DOMAIN loaded /\ q[1] \in 1..Len(nodes) /\ q[2] \in DOMAIN loaded
    BY SharedAreThere
  <2>6. ASSUME NEW S, Steady(nodes, S), p[2] \in S PROVE q[2] \in S
    <3>1. Len(loaded) + p[1] \in S <=> Len(loaded) + q[1] \in S
      BY <2>3, <2>4, <2>5, <2>6, RootsAreSteady
    <3> QED
      BY <2>6, <3>1 DEF Steady
  <2>7. <<p[2], q[2]>> \in BondsWith(nodes)
    BY <1>1, <2>5, <2>6, BondsAreSteady
  <2>8. <<p[2], q[2]>> \in Among(BondsWith(nodes), DOMAIN loaded)
    BY <2>5, <2>7 DEF Among
  <2> QED
    BY <2>2, <2>3, <2>4, <2>8
<1> QED
  BY <1>2, <1>3

-----------------------------------------------------------------------------
(* What holds of a host, whatever is loaded.                               *)

LinkTo == [kind : {"direct", "locked", "remote", "stub"}, to : Nat]
Component == [group : Nat \ {0}, links : SUBSET LinkTo]

\* The components there are, and those the plan will add.
Present == 1..(IF Idle THEN Len(loaded) ELSE base + Len(plan))
Placed(i) == IF i \in DOMAIN loaded THEN loaded[i].group ELSE assigned[i - base]

PlanTypes ==
    IF Idle THEN assigned = <<>> /\ base = 0
    ELSE /\ plan \in Plans
         /\ assigned \in [1..Len(plan) -> 1..stores]
         /\ base \in Nat /\ base <= Len(loaded) /\ Len(loaded) < base + Len(plan)
         /\ \A i \in DOMAIN plan : \A k \in DOMAIN plan[i] :
               plan[i][k].source = "live" => plan[i][k].index \in 1..base

HostTypes ==
    /\ loaded \in Seq(Component)
    /\ stores \in Nat /\ \A i \in DOMAIN loaded : loaded[i].group \in 1..stores
    /\ poisoned \subseteq 1..stores
    /\ blamed \subseteq DOMAIN loaded

\* Links go to components loaded before, and lock unless both are in one store.
LinkFits(i, link) ==
    IF link.kind \in {"direct", "locked"}
    THEN link.to \in 1..(i - 1) /\ (link.kind = "direct" <=> loaded[link.to].group = loaded[i].group)
    ELSE link.to = 0
LinksFit == \A i \in DOMAIN loaded : \A link \in loaded[i].links : LinkFits(i, link)

\* The bonds are the stores, those of the components to come included.
BondsAreStores == bonds = {p \in Present \X Present : Placed(p[1]) = Placed(p[2])}

\* A store that is poisoned is not used again, unless somebody is there.
NoneIsSentToPoison ==
    \A k \in Present \ DOMAIN loaded : Placed(k) \in poisoned =>
        \E j \in DOMAIN loaded : loaded[j].group = Placed(k)

LinkerInv == HostTypes /\ PlanTypes /\ LinksFit /\ BondsAreStores /\ NoneIsSentToPoison

\* The stores that loaded components are in have been counted.
LEMMA HostIsNumbered ==
    ASSUME HostTypes
    PROVE  Numbered /\ \A i \in DOMAIN loaded : loaded[i] \in Component
<1>1. Len(loaded) \in Nat /\ DOMAIN loaded = 1..Len(loaded) /\ \A i \in 1..Len(loaded) : loaded[i] \in Component
  BY LenProperties, ElementOfSeq DEF HostTypes
<1> QED
  BY <1>1 DEF HostTypes, Numbered, Housed

\* Bonds, pair by pair.
LEMMA BondPairs ==
    ASSUME BondsAreStores
    PROVE  /\ \A x, y \in Present : <<x, y>> \in bonds <=> Placed(x) = Placed(y)
           /\ \A p \in bonds : p[1] \in Present /\ p[2] \in Present /\ p = <<p[1], p[2]>>
<1> DEFINE same(p) == Placed(p[1]) = Placed(p[2])
<1>1. bonds = {p \in Present \X Present : same(p)}
  BY DEF BondsAreStores
<1>2. \A x, y : same(<<x, y>>) <=> Placed(x) = Placed(y)
  OBVIOUS
<1> HIDE DEF same
<1> QED
  BY <1>1, <1>2

\* A pair of components is bonded if both are there and in one store.
LEMMA IdleBondsFit ==
    ASSUME HostTypes, BondsAreStores, Idle
    PROVE  BondsFit
<1>1. Present = DOMAIN loaded
  BY HostIsNumbered DEF Present, Numbered
<1>2. \A x \in DOMAIN loaded : Placed(x) = loaded[x].group
  BY DEF Placed
<1> QED
  BY <1>1, <1>2 DEF BondsAreStores, BondsFit

\* What a plan's bindings may name, said of one binding at a time.
LEMMA FittingIs ==
    ASSUME NEW nodes \in Plans, Fits(nodes)
    PROVE  Fitting(nodes)
BY DEF Fits, Fitting

\* No component is loaded.
LEMMA LinkerInitially == LinkerInit => LinkerInv
<1> SUFFICES ASSUME LinkerInit PROVE LinkerInv
  OBVIOUS
<1>1. loaded = <<>> /\ DOMAIN loaded = {} /\ Len(loaded) = 0 /\ Idle
  BY DEF LinkerInit, Idle
<1>2. HostTypes /\ PlanTypes /\ LinksFit
  BY <1>1 DEF LinkerInit, HostTypes, PlanTypes, LinksFit
<1>3. Present = {}
  BY <1>1 DEF Present
<1>4. bonds = {}
  BY DEF LinkerInit
<1> QED
  BY <1>2, <1>3, <1>4 DEF LinkerInv, BondsAreStores, NoneIsSentToPoison

\* Assigning a plan to stores (assign_groups) puts together what it binds, and
\* merges no two stores.
LEMMA AssignKeepsLinks ==
    ASSUME LinkerInv, NEW nodes \in Plans, Assign(nodes)
    PROVE  LinkerInv'
<1> DEFINE n == Len(nodes)
           to == Assignment(nodes)
           made == Cardinality({to[i] : i \in DOMAIN nodes} \ 1..stores)
           root == SetRoots(nodes)
<1>1. Numbered /\ Fitting(nodes) /\ BondsFit /\ Idle /\ ~Refused(nodes)
  BY HostIsNumbered, IdleBondsFit, FittingIs DEF LinkerInv, Assign
<1>2. Housed /\ Len(loaded) \in Nat /\ DOMAIN loaded = 1..Len(loaded) /\ stores \in Nat
  BY <1>1 DEF Numbered, Housed
<1>3. n \in Nat \ {0} /\ DOMAIN nodes = 1..n
  BY <1>1, SharedAreThere
<1>4. /\ made \in Nat /\ to \in [1..n -> 1..(stores + made)]
      /\ \A i \in 1..n : \A g : AnchoredAt(nodes, root[i], g) => to[i] = g /\ g \in 1..stores
      /\ \A i \in 1..n : to[i] \in 1..stores => AnchoredAt(nodes, root[i], to[i])
  <2>1. made \in Nat /\ to \in [1..n -> 1..(stores + made)]
    BY <1>1, <1>2, AssignmentPlaces
  <2>2. \A i \in 1..n : \A g : AnchoredAt(nodes, root[i], g) => to[i] = g /\ g \in 1..stores
    BY <1>1, <1>2, AssignmentPlaces
  <2>3. \A i \in 1..n : to[i] \in 1..stores => AnchoredAt(nodes, root[i], to[i])
    BY <1>1, <1>2, AssignmentPlaces
  <2> QED
    BY <2>1, <2>2, <2>3
<1>5. /\ assigned' = to /\ stores' = stores + made /\ plan' = nodes /\ base' = Len(loaded)
      /\ bonds' = BondsWith(nodes) /\ UNCHANGED <<loaded, poisoned, blamed>>
  BY DEF Assign
<1> HIDE DEF made, to, n, root
<1>6. ~Idle'
  BY <1>5, LinkerAssumption DEF Idle
<1>7. HostTypes'
  BY <1>2, <1>4, <1>5 DEF LinkerInv, HostTypes
<1>8. PlanTypes'
  <2>1. \A i \in DOMAIN nodes : \A k \in DOMAIN nodes[i] :
           nodes[i][k].source = "live" => nodes[i][k].index \in 1..Len(loaded)
    BY <1>1, <1>2 DEF Fitting
  <2>2. Len(loaded) < Len(loaded) + n
    BY <1>2, <1>3
  <2> QED
    BY <1>2, <1>4, <1>5, <1>6, <2>1, <2>2 DEF PlanTypes, n
<1>9. LinksFit'
  BY <1>5 DEF LinkerInv, LinksFit, LinkFits
<1>10. Present' = Coming(nodes) /\ \A x : Placed(x)' = Home(nodes, x)
  BY <1>5, <1>6 DEF Present, Coming, Placed, Home, to
<1>11. BondsAreStores'
  <2>1. BondsWith(nodes) = {p \in Coming(nodes) \X Coming(nodes) : Home(nodes, p[1]) = Home(nodes, p[2])}
    BY <1>1, BondsAreHomes
  <2> QED
    BY <1>5, <1>10, <2>1 DEF BondsAreStores
<1>12. NoneIsSentToPoison'
  <2> SUFFICES ASSUME NEW k \in Coming(nodes) \ DOMAIN loaded, Home(nodes, k) \in poisoned
               PROVE  \E j \in DOMAIN loaded : loaded[j].group = Home(nodes, k)
    BY <1>5, <1>10 DEF NoneIsSentToPoison
  <2>1. k - Len(loaded) \in 1..n
    BY <1>2, <1>3 DEF Coming, n
  <2>2. Home(nodes, k) = to[k - Len(loaded)] /\ Home(nodes, k) \in 1..stores
    BY DEF Home, to, LinkerInv, HostTypes
  <2>3. AnchoredAt(nodes, root[k - Len(loaded)], Home(nodes, k))
    BY <1>4, <2>1, <2>2
  <2>4. \A pair \in Shared(nodes, "live") : pair[2] \in DOMAIN loaded
    BY <1>1, SharedAreThere
  <2> QED
    BY <2>3, <2>4 DEF AnchoredAt
<1> QED
  BY <1>7, <1>8, <1>9, <1>11, <1>12 DEF LinkerInv

\* Where the next node is, and what it is linked to.
LEMMA NextNodeFits ==
    ASSUME LinkerInv, ~Idle
    PROVE  LET node == NextNode
           IN  /\ Len(loaded) \in Nat /\ DOMAIN loaded = 1..Len(loaded) /\ base \in Nat
               /\ Len(loaded) - base + 1 \in 1..Len(plan) /\ Len(plan) \in Nat
               /\ NextGroup \in 1..stores /\ NextGroup = Placed(Len(loaded) + 1)
               /\ \A k \in DOMAIN node :
                     LET link == Link(node[k], NextGroup)
                     IN  /\ link \in LinkTo
                         /\ IF link.kind \in {"direct", "locked"}
                            THEN /\ link.to \in 1..Len(loaded)
                                 /\ link.kind = "direct" <=> loaded[link.to].group = NextGroup
                            ELSE link.to = 0
<1>1. Len(loaded) \in Nat /\ DOMAIN loaded = 1..Len(loaded)
  BY HostIsNumbered DEF LinkerInv, Numbered
<1>2. /\ plan \in Plans /\ assigned \in [1..Len(plan) -> 1..stores]
      /\ base \in Nat /\ base <= Len(loaded) /\ Len(loaded) < base + Len(plan)
      /\ \A i \in DOMAIN plan : \A k \in DOMAIN plan[i] :
            plan[i][k].source = "live" => plan[i][k].index \in 1..base
  BY DEF LinkerInv, PlanTypes
<1>3. /\ Len(plan) \in Nat /\ DOMAIN plan = 1..Len(plan)
      /\ \A i \in DOMAIN plan : \A k \in DOMAIN plan[i] :
            /\ plan[i][k] \in Binding
            /\ plan[i][k].source \in {"live", "planned"} => plan[i][k].index \in Nat \ {0}
            /\ plan[i][k].source = "planned" => plan[i][k].index \in 1..(i - 1)
  BY <1>2, PlansAreLists
<1> DEFINE i == Len(loaded) - base + 1
<1>4. i \in 1..Len(plan)
  BY <1>1, <1>2, <1>3
<1>5. NextGroup \in 1..stores /\ NextGroup = Placed(Len(loaded) + 1)
  <2>1. NextGroup = assigned[i] /\ assigned[i] \in 1..stores
    BY <1>2, <1>4 DEF NextGroup
  <2>2. Len(loaded) + 1 \notin DOMAIN loaded /\ (Len(loaded) + 1) - base = i
    BY <1>1, <1>2
  <2> QED
    BY <2>1, <2>2 DEF Placed
<1>6. ASSUME NEW k \in DOMAIN NextNode
      PROVE  LET link == Link(NextNode[k], NextGroup)
             IN  /\ link \in LinkTo
                 /\ IF link.kind \in {"direct", "locked"}
                    THEN /\ link.to \in 1..Len(loaded)
                         /\ link.kind = "direct" <=> loaded[link.to].group = NextGroup
                    ELSE link.to = 0
  <2> DEFINE b == NextNode[k]
             link == Link(b, NextGroup)
             target == IF b.source = "live" THEN b.index ELSE base + b.index
  <2>1. NextNode = plan[i]
    BY DEF NextNode
  <2>2. /\ b.source \in {"live", "planned"} => b.index \in Nat \ {0}
        /\ b.source = "planned" => b.index \in 1..(i - 1)
        /\ b.source = "live" => b.index \in 1..base
    BY <1>2, <1>3, <1>4, <2>1
  <2> HIDE DEF b
  <2>3. CASE b.source \in {"live", "planned"}
    <3>1. target \in 1..Len(loaded)
      <4>1. CASE b.source = "live"
        BY <1>1, <1>2, <2>2, <4>1
      <4>2. CASE b.source = "planned"
        BY <1>1, <1>2, <2>2, <4>2
      <4> QED
        BY <2>3, <4>1, <4>2
    <3>2. link = [kind |-> Forward(NextGroup, target), to |-> target]
      BY <2>3 DEF Link
    <3> HIDE DEF target, link
    <3>3. link.to = target /\ link.kind = IF loaded[target].group = NextGroup THEN "direct" ELSE "locked"
      BY <3>2 DEF Forward
    <3>4. link \in LinkTo
      BY <1>1, <3>1, <3>2, <3>3 DEF LinkTo, Forward
    <3> QED
      BY <3>1, <3>3, <3>4 DEF link, b
  <2>4. CASE b.source \notin {"live", "planned"}
    <3>1. link = [kind |-> IF b.source = "nats" THEN "remote" ELSE "stub", to |-> 0]
      BY <2>4 DEF Link
    <3> HIDE DEF link
    <3> QED
      BY <3>1 DEF LinkTo, link, b
  <2> QED
    BY <2>3, <2>4
<1> QED
  BY <1>1, <1>2, <1>3, <1>4, <1>5, <1>6

\* The component that a step loads.
Loading == [group |-> NextGroup, links |-> {Link(NextNode[k], NextGroup) : k \in DOMAIN NextNode}]

\* What a load leaves alone.
LEMMA LoadAdds ==
    ASSUME LinkerInv, Load
    PROVE  /\ Loading \in Component /\ Len(loaded) \in Nat /\ DOMAIN loaded = 1..Len(loaded)
           /\ loaded' \in Seq(Component) /\ Len(loaded') = Len(loaded) + 1
           /\ DOMAIN loaded' = 1..(Len(loaded) + 1)
           /\ \A i \in DOMAIN loaded : loaded'[i] = loaded[i]
           /\ loaded'[Len(loaded) + 1] = Loading
           /\ NextGroup \in 1..stores /\ NextGroup = Placed(Len(loaded) + 1) /\ Len(loaded) + 1 \in Present
<1>1. ~Idle /\ loaded' = Append(loaded, Loading)
  BY DEF Load, Loading
<1>2. /\ Len(loaded) \in Nat /\ DOMAIN loaded = 1..Len(loaded) /\ base \in Nat
      /\ Len(loaded) - base + 1 \in 1..Len(plan) /\ Len(plan) \in Nat
      /\ NextGroup \in 1..stores /\ NextGroup = Placed(Len(loaded) + 1)
      /\ \A k \in DOMAIN NextNode : Link(NextNode[k], NextGroup) \in LinkTo
  BY <1>1, NextNodeFits
<1>3. Loading \in Component
  <2>1. NextGroup \in Nat \ {0}
    BY <1>2 DEF LinkerInv, HostTypes
  <2>2. {Link(NextNode[k], NextGroup) : k \in DOMAIN NextNode} \in SUBSET LinkTo
    BY <1>2
  <2> QED
    BY <2>1, <2>2 DEF Loading, Component
<1>4. loaded \in Seq(Component)
  BY DEF LinkerInv, HostTypes
<1> HIDE DEF Loading
<1>5. /\ loaded' \in Seq(Component) /\ Len(loaded') = Len(loaded) + 1
      /\ \A i \in 1..Len(loaded) : loaded'[i] = loaded[i]
      /\ loaded'[Len(loaded) + 1] = Loading
  BY <1>1, <1>3, <1>4, AppendProperties
<1>6. DOMAIN loaded' = 1..(Len(loaded) + 1)
  BY <1>5, LenProperties
<1>7. Len(loaded) + 1 \in Present
  BY <1>1, <1>2 DEF Present
<1> QED
  BY <1>2, <1>3, <1>5, <1>6, <1>7

\* Loading the next component of a plan puts it in the store it was assigned to.
LEMMA LoadKeepsLinks ==
    ASSUME LinkerInv, Load
    PROVE  LinkerInv'
<1> DEFINE L == Len(loaded)
<1>1. /\ Len(loaded) \in Nat /\ DOMAIN loaded = 1..L
      /\ loaded' \in Seq(Component) /\ Len(loaded') = L + 1 /\ DOMAIN loaded' = 1..(L + 1)
      /\ \A i \in DOMAIN loaded : loaded'[i] = loaded[i]
      /\ loaded'[L + 1] = Loading
      /\ NextGroup \in 1..stores /\ NextGroup = Placed(L + 1) /\ L + 1 \in Present
  BY LoadAdds
<1>2. ~Idle /\ UNCHANGED <<stores, poisoned, bonds, blamed>>
  BY DEF Load
<1>3. Loading.group = NextGroup
  BY DEF Loading
<1>4. \A k \in DOMAIN NextNode :
         LET link == Link(NextNode[k], NextGroup)
         IN  IF link.kind \in {"direct", "locked"}
             THEN link.to \in 1..L /\ (link.kind = "direct" <=> loaded[link.to].group = NextGroup)
             ELSE link.to = 0
  BY <1>2, NextNodeFits
<1> HIDE DEF L
<1>5. HostTypes'
  <2>1. \A i \in DOMAIN loaded' : i \in DOMAIN loaded \/ i = L + 1
    BY <1>1 DEF L
  <2>2. \A i \in DOMAIN loaded' : loaded'[i].group \in 1..stores
    BY <1>1, <1>3, <2>1 DEF LinkerInv, HostTypes
  <2>3. blamed \subseteq DOMAIN loaded'
    BY <1>1 DEF LinkerInv, HostTypes, L
  <2> QED
    BY <1>1, <1>2, <2>2, <2>3 DEF LinkerInv, HostTypes
<1>6. LinksFit'
  <2> SUFFICES ASSUME NEW i \in 1..(L + 1), NEW link \in loaded'[i].links
               PROVE  IF link.kind \in {"direct", "locked"}
                      THEN link.to \in 1..(i - 1) /\ (link.kind = "direct" <=> loaded'[link.to].group = loaded'[i].group)
                      ELSE link.to = 0
    BY <1>1 DEF LinksFit, LinkFits
  <2>1. CASE i = L + 1
    <3>1. PICK k \in DOMAIN NextNode : link = Link(NextNode[k], NextGroup)
      BY <1>1, <2>1 DEF Loading
    <3>2. IF link.kind \in {"direct", "locked"}
          THEN link.to \in 1..L /\ (link.kind = "direct" <=> loaded[link.to].group = NextGroup)
          ELSE link.to = 0
      BY <1>4, <3>1
    <3>3. loaded'[i].group = NextGroup /\ \A j \in 1..L : loaded'[j] = loaded[j]
      BY <1>1, <1>3, <2>1 DEF L
    <3>4. i - 1 = L
      BY <1>1, <2>1 DEF L
    <3> QED
      BY <3>2, <3>3, <3>4
  <2>2. CASE i # L + 1
    <3>1. i \in DOMAIN loaded /\ loaded'[i] = loaded[i] /\ \A j \in 1..(i - 1) : loaded'[j] = loaded[j]
      BY <1>1, <2>2 DEF L
    <3>2. LinkFits(i, link)
      BY <3>1 DEF LinkerInv, LinksFit
    <3> QED
      BY <3>1, <3>2 DEF LinkFits
  <2> QED
    BY <2>1, <2>2
<1>7. L + 1 = base + Len(plan) \/ L + 1 # base + Len(plan)
  OBVIOUS
<1>8. plan \in Plans /\ Len(plan) \in Nat /\ base \in Nat /\ base <= L /\ L < base + Len(plan) /\ assigned \in [1..Len(plan) -> 1..stores]
  BY <1>2, PlansAreLists DEF LinkerInv, PlanTypes, L
<1>9. CASE L + 1 = base + Len(plan)
  <2>1. plan' = <<>> /\ assigned' = <<>> /\ base' = 0
    BY <1>9 DEF Load, EndPlan, L
  <2>2. Idle' /\ PlanTypes'
    BY <2>1 DEF Idle, PlanTypes
  <2>3. Present' = Present
    BY <1>1, <1>2, <1>9, <2>2 DEF Present
  <2>4. \A x \in Present : Placed(x)' = Placed(x)
    <3>1. \A x \in Present : x \in DOMAIN loaded \/ x = L + 1
      BY <1>1, <1>2, <1>8, <1>9 DEF Present, L
    <3>2. \A x \in DOMAIN loaded : x \in DOMAIN loaded' /\ loaded'[x] = loaded[x]
      BY <1>1 DEF L
    <3>3. L + 1 \in DOMAIN loaded' /\ loaded'[L + 1].group = Placed(L + 1)
      BY <1>1, <1>3 DEF L
    <3> QED
      BY <3>1, <3>2, <3>3 DEF Placed
  <2>5. BondsAreStores'
    <3>1. bonds = {p \in Present \X Present : Placed(p[1]) = Placed(p[2])}
      BY DEF LinkerInv, BondsAreStores
    <3> QED
      BY <1>2, <2>3, <2>4, <3>1 DEF BondsAreStores
  <2>6. NoneIsSentToPoison'
    <3>1. Present' \ DOMAIN loaded' = {}
      BY <1>1, <2>2 DEF Present
    <3> QED
      BY <3>1 DEF NoneIsSentToPoison
  <2> QED
    BY <1>5, <1>6, <2>2, <2>5, <2>6 DEF LinkerInv
<1>10. CASE L + 1 # base + Len(plan)
  <2>1. UNCHANGED <<plan, assigned, base>>
    BY <1>10 DEF Load, L
  <2>2. ~Idle' /\ PlanTypes'
    <3>1. base <= L + 1 /\ L + 1 < base + Len(plan)
      BY <1>1, <1>8, <1>10 DEF L
    <3> QED
      BY <1>1, <1>2, <2>1, <3>1 DEF LinkerInv, Idle, PlanTypes
  <2>3. Present' = Present
    BY <1>2, <2>1, <2>2 DEF Present
  <2>4. \A x \in Present : Placed(x)' = Placed(x)
    <3>1. \A x \in DOMAIN loaded : x \in DOMAIN loaded' /\ loaded'[x] = loaded[x]
      BY <1>1 DEF L
    <3>2. \A x \in DOMAIN loaded' : x \in DOMAIN loaded \/ x = L + 1
      BY <1>1 DEF L
    <3>3. loaded'[L + 1].group = Placed(L + 1)
      BY <1>1, <1>3
    <3> QED
      BY <2>1, <3>1, <3>2, <3>3 DEF Placed
  <2>5. BondsAreStores'
    <3>1. bonds = {p \in Present \X Present : Placed(p[1]) = Placed(p[2])}
      BY DEF LinkerInv, BondsAreStores
    <3> QED
      BY <1>2, <2>3, <2>4, <3>1 DEF BondsAreStores
  <2>6. NoneIsSentToPoison'
    <3> SUFFICES ASSUME NEW k \in Present \ DOMAIN loaded', Placed(k)' \in poisoned
                 PROVE  \E j \in DOMAIN loaded' : loaded'[j].group = Placed(k)'
      BY <1>2, <2>3 DEF NoneIsSentToPoison
    <3>1. k \in Present \ DOMAIN loaded /\ Placed(k)' = Placed(k)
      BY <1>1, <2>4 DEF L
    <3>2. PICK j \in DOMAIN loaded : loaded[j].group = Placed(k)
      BY <3>1 DEF LinkerInv, NoneIsSentToPoison
    <3> QED
      BY <1>1, <3>1, <3>2 DEF L
  <2> QED
    BY <1>5, <1>6, <2>2, <2>5, <2>6 DEF LinkerInv
<1> QED
  BY <1>7, <1>9, <1>10

\* A component that cannot be instantiated poisons its store, and ends the plan.
LEMMA LoadFailsKeepsLinks ==
    ASSUME LinkerInv, LoadFails
    PROVE  LinkerInv'
<1>1. /\ ~Idle /\ plan' = <<>> /\ assigned' = <<>> /\ base' = 0
      /\ bonds' = Among(bonds, DOMAIN loaded) /\ UNCHANGED <<stores, loaded>>
  BY DEF LoadFails, EndPlan
<1>2. Len(loaded) \in Nat /\ DOMAIN loaded = 1..Len(loaded) /\ NextGroup \in 1..stores /\ Len(plan) \in Nat /\ base \in Nat
      /\ Len(loaded) - base + 1 \in 1..Len(plan)
  BY <1>1, NextNodeFits
<1>3. Idle' /\ PlanTypes' /\ LinksFit'
  BY <1>1 DEF Idle, PlanTypes, LinkerInv, LinksFit, LinkFits
<1>4. HostTypes'
  <2>1. poisoned' \subseteq 1..stores /\ blamed' \subseteq DOMAIN loaded
    BY <1>2 DEF LoadFails, LinkerInv, HostTypes
  <2> QED
    BY <1>1, <2>1 DEF LinkerInv, HostTypes
<1>5. Present' = DOMAIN loaded /\ DOMAIN loaded \subseteq Present
  BY <1>1, <1>2, <1>3 DEF Present
<1>6. \A x \in DOMAIN loaded : Placed(x)' = Placed(x)
  BY <1>1 DEF Placed
<1>7. BondsAreStores'
  <2>1. \A x, y \in Present : <<x, y>> \in bonds <=> Placed(x) = Placed(y)
    BY BondPairs DEF LinkerInv
  <2>2. \A p \in bonds : p = <<p[1], p[2]>>
    BY BondPairs DEF LinkerInv
  <2> DEFINE D == DOMAIN loaded
  <2>3. ASSUME NEW p \in D \X D PROVE p \in bonds' <=> Placed(p[1])' = Placed(p[2])'
    <3>1. p = <<p[1], p[2]>> /\ p[1] \in D /\ p[2] \in D
      OBVIOUS
    <3>2. p \in bonds <=> Placed(p[1]) = Placed(p[2])
      BY <1>5, <2>1, <3>1
    <3>3. p \in bonds' <=> p \in bonds
      BY <1>1, <3>1 DEF Among
    <3> QED
      BY <1>6, <3>1, <3>2, <3>3
  <2>4. bonds' \subseteq D \X D
    BY <1>1, <2>2 DEF Among
  <2>5. bonds' = {p \in D \X D : Placed(p[1])' = Placed(p[2])'}
    BY <2>3, <2>4
  <2> QED
    BY <1>5, <2>5 DEF BondsAreStores
<1>8. NoneIsSentToPoison'
  BY <1>1, <1>5 DEF NoneIsSentToPoison
<1> QED
  BY <1>3, <1>4, <1>7, <1>8 DEF LinkerInv

\* A call may poison a store, and blame a component.
LEMMA CallsKeepLinks ==
    ASSUME LinkerInv, UNCHANGED <<stores, loaded, plan, assigned, base, bonds>>,
           poisoned' \subseteq 1..stores, blamed' \subseteq DOMAIN loaded, Idle \/ UNCHANGED poisoned
    PROVE  LinkerInv'
<1>1. Present' = Present /\ \A x : Placed(x)' = Placed(x)
  BY DEF Present, Placed, Idle
<1>2. HostTypes' /\ PlanTypes' /\ LinksFit'
  BY DEF LinkerInv, HostTypes, PlanTypes, LinksFit, LinkFits, Idle
<1>3. BondsAreStores'
  BY <1>1 DEF LinkerInv, BondsAreStores
<1>4. NoneIsSentToPoison'
  <2>1. CASE Idle
    <3>1. Present = DOMAIN loaded
      BY <2>1, HostIsNumbered DEF Present, LinkerInv, Numbered
    <3> QED
      BY <1>1, <3>1 DEF NoneIsSentToPoison
  <2>2. CASE UNCHANGED poisoned
    BY <1>1, <2>2 DEF LinkerInv, NoneIsSentToPoison
  <2> QED
    BY <2>1, <2>2
<1> QED
  BY <1>2, <1>3, <1>4 DEF LinkerInv

\* Every step of instantiate keeps it.
LEMMA InstantiateKeepsLinks ==
    ASSUME LinkerInv, Instantiate
    PROVE  LinkerInv'
<1>1. CASE \E nodes \in Plans : Refuse(nodes)
  <2>1. UNCHANGED linkerVars
    BY <1>1 DEF Refuse
  <2>2. poisoned' \subseteq 1..stores /\ blamed' \subseteq DOMAIN loaded
    BY <2>1 DEF linkerVars, LinkerInv, HostTypes
  <2> QED
    BY <2>1, <2>2, CallsKeepLinks DEF linkerVars
<1>2. ASSUME NEW nodes \in Plans, Assign(nodes) PROVE LinkerInv'
  BY <1>2, AssignKeepsLinks
<1>3. CASE Load
  BY <1>3, LoadKeepsLinks
<1>4. CASE LoadFails
  BY <1>4, LoadFailsKeepsLinks
<1> QED
  BY <1>1, <1>2, <1>3, <1>4 DEF Instantiate

\* Components share a store exactly if a plan bonds them.
LEMMA TogetherFollows == LinkerInv => TogetherOnlyIfBound
<1> SUFFICES ASSUME LinkerInv, NEW i \in DOMAIN loaded, NEW j \in DOMAIN loaded
             PROVE  loaded[i].group = loaded[j].group <=> <<i, j>> \in bonds
  BY DEF TogetherOnlyIfBound
<1>1. i \in Present /\ j \in Present
  <2>1. Len(loaded) \in Nat /\ DOMAIN loaded = 1..Len(loaded)
    BY HostIsNumbered DEF LinkerInv, Numbered
  <2>2. CASE Idle
    BY <2>1, <2>2 DEF Present
  <2>3. CASE ~Idle
    <3>1. base \in Nat /\ Len(plan) \in Nat /\ Len(loaded) < base + Len(plan)
      BY <2>3, PlansAreLists DEF LinkerInv, PlanTypes
    <3> QED
      BY <2>1, <2>3, <3>1 DEF Present
  <2> QED
    BY <2>2, <2>3
<1>2. <<i, j>> \in bonds <=> Placed(i) = Placed(j)
  BY <1>1, BondPairs DEF LinkerInv
<1> QED
  BY <1>2 DEF Placed

\* A plan is refused exactly if it would make one store of two.
LEMMA RefusedFollows == LinkerInv => RefusedOnlyForTwoStores
<1> SUFFICES ASSUME LinkerInv, Idle, NEW nodes \in Plans, Fits(nodes)
             PROVE  Refused(nodes) <=>
                       \E p \in Among(BondsWith(nodes), DOMAIN loaded) : loaded[p[1]].group # loaded[p[2]].group
  BY DEF RefusedOnlyForTwoStores
<1>1. Numbered /\ BondsFit /\ Fitting(nodes)
  BY HostIsNumbered, IdleBondsFit, FittingIs DEF LinkerInv
<1> QED
  BY <1>1, RefusalIsRight

-----------------------------------------------------------------------------
(* Calls: the forms of frames and lines.                                   *)

Phases == {"locking", "running", "parked", "traps", "refused"}
Frame == [at : Nat \ {0}, owns : BOOLEAN, phase : Phases]
Turns == [caller : Callers, depth : Nat \ {0}]

\* Nobody has two places in a line.
Distinct(line) == \A k, l \in DOMAIN line : line[k] = line[l] => k = l

\* A call waits in the frames below its last; the first locks; and each was
\* called by the one below, without the lock if both are in one store.
FrameFits(s, d) ==
    /\ s[d].at \in DOMAIN loaded
    /\ d < Len(s) => s[d].phase = "running"
    /\ d = 1 => s[d].owns
    /\ s[d].phase \in {"locking", "refused"} => s[d].owns
    /\ d > 1 => \E link \in loaded[s[d - 1].at].links :
                   link.to = s[d].at /\ link.kind = IF s[d].owns THEN "locked" ELSE "direct"
StackFits(s) == s \in Seq(Frame) /\ \A d \in DOMAIN s : FrameFits(s, d)
Stacks(st) == st \in [Callers -> Seq(Frame)] /\ \A c \in Callers : StackFits(st[c])

\* A place in a queue is that of a frame that asked for the store, which has it
\* only if it is the first.
TurnFits(q, st, g, k) ==
    LET t == q[g][k]
    IN  /\ t.depth \in DOMAIN st[t.caller]
        /\ st[t.caller][t.depth].owns
        /\ GroupOf(st[t.caller][t.depth]) = g
        /\ k > 1 => st[t.caller][t.depth].phase = "locking"

\* Every frame that asked for its store has a place.
HasTurn(q, st, c, d) ==
    LET line == q[GroupOf(st[c][d])] IN \E k \in DOMAIN line : line[k] = Turn(c, d)

Queues(q, st) ==
    /\ q \in [1..stores -> Seq(Turns)]
    /\ \A g \in 1..stores : Distinct(q[g]) /\ \A k \in DOMAIN q[g] : TurnFits(q, st, g, k)
    /\ \A c \in Callers : \A d \in DOMAIN st[c] : st[c][d].owns => HasTurn(q, st, c, d)

\* What calls do to stacks and queues.
TopOf(st, c) == st[c][Len(st[c])]
Becoming(st, c, p) == [st EXCEPT ![c][Len(st[c])].phase = p]
Popping(st, c) == [st EXCEPT ![c] = Pop(@)]
Failing(st, c) == [st EXCEPT ![c] = Trapped(Pop(@))]
Unlocking(q, frame) == IF frame.owns THEN [q EXCEPT ![GroupOf(frame)] = Tail(@)] ELSE q
Places(st, c) == {Turn(c, d) : d \in DOMAIN st[c]}
Dropping(q, turns) == [g \in DOMAIN q |-> Without(q[g], turns)]

\* Nobody calls while a plan is loaded.
Quiet == Idle \/ \A c \in Callers : stack[c] = <<>>

CallInv == LinkerInv /\ Stacks(stack) /\ Queues(queue, stack) /\ Quiet

-----------------------------------------------------------------------------
(* Lines.                                                                  *)

LEMMA WithoutLeaves ==
    ASSUME NEW S, NEW line \in Seq(S), NEW turns
    PROVE  LET w == Without(line, turns)
           IN  /\ w \in Seq(S)
               /\ \A m \in DOMAIN w : \E j \in DOMAIN line : m <= j /\ w[m] = line[j] /\ line[j] \notin turns
               /\ \A j \in DOMAIN line : line[j] \notin turns => \E m \in DOMAIN w : w[m] = line[j]
               /\ Distinct(line) => Distinct(w)
<1> DEFINE n == Len(line)
           next(w, k) == IF line[k] \in turns THEN w ELSE Append(w, line[k])
           step == [x \in (1..n) \X Seq(S) |-> next(x[2], x[1])]
           kept == CHOOSE f : f = [k \in 0..n |->
                      IF k = 0 THEN <<>> ELSE IF line[k] \in turns THEN f[k - 1] ELSE Append(f[k - 1], line[k])]
<1>1. n \in Nat /\ DOMAIN line = 1..n /\ \A k \in 1..n : line[k] \in S
  BY LenProperties, ElementOfSeq
<1>2. ASSUME NEW w \in Seq(S), NEW k \in 1..n PROVE next(w, k) \in Seq(S)
  BY <1>1, AppendProperties
<1>3. step \in [(1..n) \X Seq(S) -> Seq(S)]
  <2> HIDE DEF next, n
  <2> QED
    BY <1>2
<1>4. <<>> \in Seq(S)
  BY EmptySeq
<1>5. PICK g \in [0..n -> Seq(S)] : g = [k \in 0..n |-> IF k = 0 THEN <<>> ELSE step[<<k, g[k - 1]>>]]
  <2> HIDE DEF step, n
  <2>1. \E g \in [0..n -> Seq(S)] : Rounds(g, n, <<>>, step)
    BY <1>1, <1>3, <1>4, RoundsExist
  <2> QED
    BY <2>1 DEF Rounds
<1>6. \A k \in 1..n : step[<<k, g[k - 1]>>] = next(g[k - 1], k)
  <2>1. \A k \in 1..n : k - 1 \in 0..n
    BY <1>1
  <2> HIDE DEF next, n
  <2> QED
    BY <2>1, <1>5
<1>7. \A k \in 0..n : k # 0 => k \in 1..n
  BY <1>1
<1>8. g = [k \in 0..n |-> IF k = 0 THEN <<>> ELSE IF line[k] \in turns THEN g[k - 1] ELSE Append(g[k - 1], line[k])]
  <2>1. \A k \in 0..n : g[k] = IF k = 0 THEN <<>> ELSE step[<<k, g[k - 1]>>]
    <3> HIDE DEF step, n
    <3> QED
      BY <1>5
  <2>2. \A k \in 0..n : g[k] = IF k = 0 THEN <<>> ELSE next(g[k - 1], k)
    <3> HIDE DEF step, n, next
    <3> QED
      BY <2>1, <1>6, <1>7
  <2>3. g = [k \in 0..n |-> g[k]]
    <3> HIDE DEF step, n
    <3> QED
      BY <1>5
  <2> HIDE DEF step, n
  <2> QED
    BY <2>2, <2>3
<1>9. kept = [k \in 0..n |-> IF k = 0 THEN <<>> ELSE IF line[k] \in turns THEN kept[k - 1] ELSE Append(kept[k - 1], line[k])]
  <2> HIDE DEF n
  <2> QED
    BY <1>8
<1>10. Without(line, turns) = kept[n]
  BY DEF Without
<1> HIDE DEF kept, n
<1>11. kept[0] = <<>> /\ \A k \in 1..n : kept[k] = next(kept[k - 1], k)
  <2>1. 0 \in 0..n /\ \A k \in 1..n : k \in 0..n /\ k # 0
    BY <1>1
  <2> QED
    BY <1>9, <2>1
<1> DEFINE From(w, k) == \A m \in DOMAIN w : \E j \in 1..k : m <= j /\ w[m] = line[j] /\ line[j] \notin turns
           Has(w, k) == \A j \in 1..k : line[j] \notin turns => \E m \in DOMAIN w : w[m] = line[j]
           Done(k) == /\ kept[k] \in Seq(S) /\ From(kept[k], k) /\ Has(kept[k], k)
                      /\ Distinct(line) => Distinct(kept[k])
           T == {k \in 0..n : Done(k)}
<1>12. 0 \in T
  <2>1. 0 \in 0..n /\ DOMAIN kept[0] = {}
    BY <1>1, <1>11
  <2>2. From(kept[0], 0) /\ Has(kept[0], 0) /\ Distinct(kept[0])
    BY <2>1 DEF Distinct
  <2> QED
    BY <1>4, <1>11, <2>1, <2>2
<1>13. ASSUME NEW k \in 1..n, k - 1 \in T PROVE k \in T
  <2> DEFINE w == kept[k - 1]
             v == kept[k]
  <2>1. w \in Seq(S) /\ From(w, k - 1) /\ Has(w, k - 1) /\ (Distinct(line) => Distinct(w))
    BY <1>13
  <2>2. v = next(w, k)
    BY <1>11
  <2>3. k \in 0..n /\ (\A j \in 1..k : j \in 1..(k - 1) \/ j = k) /\ k \in 1..k /\ (\A j \in 1..(k - 1) : j \in 1..k)
    BY <1>1
  <2> HIDE DEF w, v
  <2>4. Len(w) \in Nat /\ DOMAIN w = 1..Len(w)
    BY <2>1, LenProperties
  <2>5. CASE line[k] \in turns
    <3>1. v = w
      BY <2>2, <2>5
    <3>2. From(v, k) /\ Has(v, k)
      BY <2>1, <2>3, <2>5, <3>1
    <3> QED
      BY <2>1, <2>3, <3>1, <3>2 DEF v
  <2>6. CASE line[k] \notin turns
    <3>1. v = Append(w, line[k]) /\ line[k] \in S
      BY <1>1, <2>2, <2>6
    <3>2. /\ v \in Seq(S) /\ Len(v) = Len(w) + 1
          /\ \A m \in 1..Len(w) : v[m] = w[m]
          /\ v[Len(w) + 1] = line[k]
      BY <2>1, <3>1, AppendProperties
    <3>3. DOMAIN v = 1..(Len(w) + 1)
      BY <3>2, LenProperties
    <3>4. \A m \in DOMAIN v : m \in DOMAIN w \/ m = Len(w) + 1
      BY <2>4, <3>3
    <3>5. Len(w) <= k - 1
      <4>1. CASE Len(w) = 0
        BY <4>1
      <4>2. CASE Len(w) # 0
        <5>1. Len(w) \in DOMAIN w
          BY <2>4, <4>2
        <5>2. PICK j \in 1..(k - 1) : Len(w) <= j
          BY <2>1, <5>1
        <5> QED
          BY <2>4, <5>2
      <4> QED
        BY <4>1, <4>2
    <3>6. From(v, k)
      <4> SUFFICES ASSUME NEW m \in DOMAIN v
                   PROVE  \E j \in 1..k : m <= j /\ v[m] = line[j] /\ line[j] \notin turns
        OBVIOUS
      <4>1. CASE m \in DOMAIN w
        BY <2>1, <2>3, <2>4, <3>2, <4>1
      <4>2. CASE m = Len(w) + 1
        <5>1. m <= k /\ v[m] = line[k]
          BY <2>4, <3>2, <3>5, <4>2
        <5> QED
          BY <2>3, <2>6, <5>1
      <4> QED
        BY <3>4, <4>1, <4>2
    <3>7. Has(v, k)
      <4> SUFFICES ASSUME NEW j \in 1..k, line[j] \notin turns PROVE \E m \in DOMAIN v : v[m] = line[j]
        OBVIOUS
      <4>1. CASE j = k
        BY <2>4, <3>2, <3>3, <4>1
      <4>2. CASE j \in 1..(k - 1)
        <5>1. PICK m \in DOMAIN w : w[m] = line[j]
          BY <2>1, <4>2
        <5> QED
          BY <2>4, <3>2, <3>3, <5>1
      <4> QED
        BY <2>3, <4>1, <4>2
    <3>8. ASSUME Distinct(line) PROVE Distinct(v)
      <4> SUFFICES ASSUME NEW m \in DOMAIN v, NEW l \in DOMAIN v, v[m] = v[l] PROVE m = l
        BY DEF Distinct
      <4>1. ASSUME NEW x \in DOMAIN w, v[x] = line[k] PROVE FALSE
        <5>1. PICK j \in 1..(k - 1) : w[x] = line[j]
          BY <2>1, <4>1
        <5>2. line[j] = line[k] /\ j \in DOMAIN line /\ k \in DOMAIN line /\ j # k
          BY <1>1, <2>3, <2>4, <3>2, <4>1, <5>1
        <5> QED
          BY <3>8, <5>2 DEF Distinct
      <4>2. CASE m \in DOMAIN w /\ l \in DOMAIN w
        BY <2>1, <2>4, <3>2, <3>8, <4>2 DEF Distinct
      <4>3. CASE m = Len(w) + 1 /\ l = Len(w) + 1
        BY <4>3
      <4>4. CASE m \in DOMAIN w /\ l = Len(w) + 1
        BY <3>2, <4>1, <4>4
      <4>5. CASE m = Len(w) + 1 /\ l \in DOMAIN w
        BY <3>2, <4>1, <4>5
      <4> QED
        BY <3>4, <4>2, <4>3, <4>4, <4>5
    <3> HIDE DEF From, Has
    <3> QED
      BY <2>3, <3>2, <3>6, <3>7, <3>8 DEF v
  <2> QED
    BY <2>5, <2>6
<1>14. Done(n)
  <2>1. \A k \in 1..n : k - 1 \in T => k \in T
    BY <1>13
  <2>2. n \in 0..n
    BY <1>1
  <2> HIDE DEF T
  <2>3. 0..n \subseteq T
    BY <1>1, <1>12, <2>1, Climb
  <2>4. n \in T
    BY <2>2, <2>3
  <2> HIDE DEF Done
  <2> QED
    BY <2>4 DEF T
<1> QED
  BY <1>1, <1>10, <1>14

-----------------------------------------------------------------------------
(* Frames and places, for stacks st and queues q.                          *)

LEMMA FrameIs ==
    ASSUME HostTypes, NEW st, Stacks(st), NEW c \in Callers
    PROVE  /\ st[c] \in Seq(Frame) /\ Len(st[c]) \in Nat /\ DOMAIN st[c] = 1..Len(st[c])
           /\ \A d \in DOMAIN st[c] : st[c][d] \in Frame /\ st[c][d].at \in DOMAIN loaded /\ GroupOf(st[c][d]) \in 1..stores
<1>1. st[c] \in Seq(Frame) /\ \A d \in DOMAIN st[c] : st[c][d].at \in DOMAIN loaded
  BY DEF Stacks, StackFits, FrameFits
<1>2. Len(st[c]) \in Nat /\ DOMAIN st[c] = 1..Len(st[c]) /\ \A d \in 1..Len(st[c]) : st[c][d] \in Frame
  BY <1>1, LenProperties, ElementOfSeq
<1> QED
  BY <1>1, <1>2 DEF HostTypes, GroupOf

\* What a store's line is: turns, the first of them its head (the fair queue of a
\* tokio mutex).
LEMMA LineIs ==
    ASSUME NEW st, NEW q, Queues(q, st), NEW g \in 1..stores
    PROVE  /\ q[g] \in Seq(Turns) /\ Len(q[g]) \in Nat /\ DOMAIN q[g] = 1..Len(q[g])
           /\ \A k \in DOMAIN q[g] : q[g][k] \in Turns
           /\ q[g] = <<>> <=> Len(q[g]) = 0
           /\ q[g] # <<>> => Head(q[g]) = q[g][1]
<1>1. q[g] \in Seq(Turns)
  BY DEF Queues
<1>2. Len(q[g]) \in Nat /\ DOMAIN q[g] = 1..Len(q[g]) /\ \A k \in 1..Len(q[g]) : q[g][k] \in Turns
  BY <1>1, LenProperties, ElementOfSeq
<1>3. q[g] = <<>> <=> Len(q[g]) = 0
  BY <1>1, EmptySeq
<1> QED
  BY <1>1, <1>2, <1>3

\* A turn is told by who takes it and at which depth of its calls.
LEMMA TurnIs ==
    ASSUME NEW c \in Callers, NEW d \in Nat \ {0}
    PROVE  /\ Turn(c, d) \in Turns
           /\ \A t \in Turns : t = Turn(c, d) <=> t.caller = c /\ t.depth = d
BY DEF Turn, Turns

\* Whoever is in a store it asked for is the first in its line.
LEMMA OwnerIsFirst ==
    ASSUME HostTypes, NEW st, Stacks(st), NEW q, Queues(q, st), NEW c \in Callers, NEW d \in DOMAIN st[c],
           st[c][d].owns, st[c][d].phase # "locking"
    PROVE  LET line == q[GroupOf(st[c][d])] IN line # <<>> /\ line[1] = Turn(c, d)
<1> DEFINE g == GroupOf(st[c][d])
<1>1. g \in 1..stores /\ d \in Nat \ {0}
  BY FrameIs
<1>2. PICK k \in DOMAIN q[g] : q[g][k] = Turn(c, d)
  BY DEF Queues, HasTurn
<1>3. TurnFits(q, st, g, k)
  BY <1>1 DEF Queues
<1>4. q[g][k].caller = c /\ q[g][k].depth = d
  BY <1>2 DEF Turn
<1>5. ~(k > 1)
  BY <1>3, <1>4 DEF TurnFits
<1>6. k = 1 /\ q[g] # <<>>
  BY <1>1, <1>5, LineIs
<1> QED
  BY <1>2, <1>6

\* Frames change their phase: what has its store, or did not lock, does nothing
\* to the lines.
LEMMA PhasesKeepLines ==
    ASSUME HostTypes, NEW st, Stacks(st), NEW q, Queues(q, st), NEW new,
           \A x \in Callers : /\ DOMAIN new[x] = DOMAIN st[x]
                              /\ \A d \in DOMAIN st[x] :
                                    /\ new[x][d].at = st[x][d].at /\ new[x][d].owns = st[x][d].owns
                                    /\ st[x][d].phase = "locking" =>
                                          \/ new[x][d].phase = "locking"
                                          \/ q[GroupOf(st[x][d])][1] = Turn(x, d)
    PROVE  Queues(q, new)
<1>1. ASSUME NEW g \in 1..stores, NEW k \in DOMAIN q[g] PROVE TurnFits(q, new, g, k)
  <2> DEFINE t == q[g][k]
  <2>1. TurnFits(q, st, g, k) /\ t \in Turns
    BY LineIs DEF Queues
  <2>2. t.caller \in Callers /\ t.depth \in DOMAIN st[t.caller] /\ st[t.caller][t.depth].owns /\ GroupOf(st[t.caller][t.depth]) = g
    BY <2>1 DEF TurnFits, Turns
  <2>3. k \in Nat /\ 1 \in DOMAIN q[g]
    BY LineIs
  <2>4. Distinct(q[g]) /\ t = Turn(t.caller, t.depth)
    BY <2>1 DEF Queues, Turns, Turn
  <2>5. k > 1 => new[t.caller][t.depth].phase = "locking"
    <3> SUFFICES ASSUME k > 1 PROVE new[t.caller][t.depth].phase = "locking"
      OBVIOUS
    <3>1. st[t.caller][t.depth].phase = "locking"
      BY <2>1 DEF TurnFits
    <3>2. q[g][1] # t
      BY <2>3, <2>4 DEF Distinct
    <3> HIDE DEF t
    <3> QED
      BY <2>2, <2>4, <3>1, <3>2
  <2> QED
    BY <2>2, <2>5 DEF TurnFits, GroupOf
<1>2. ASSUME NEW c \in Callers, NEW d \in DOMAIN new[c], new[c][d].owns PROVE HasTurn(q, new, c, d)
  <2>1. d \in DOMAIN st[c] /\ st[c][d].owns /\ GroupOf(new[c][d]) = GroupOf(st[c][d])
    BY <1>2 DEF GroupOf
  <2> QED
    BY <2>1 DEF Queues, HasTurn
<1> QED
  BY <1>1, <1>2 DEF Queues

\* A frame is added that runs in the store of the one below.
LEMMA EnterKeepsLines ==
    ASSUME HostTypes, NEW st, Stacks(st), NEW q, Queues(q, st), NEW c \in Callers, NEW f \in Frame, ~f.owns,
           NEW new, new = [st EXCEPT ![c] = Append(@, f)]
    PROVE  Queues(q, new)
<1>1. /\ Len(st[c]) \in Nat /\ DOMAIN st[c] = 1..Len(st[c]) /\ st[c] \in Seq(Frame)
  BY FrameIs
<1>2. /\ new[c] = Append(st[c], f) /\ \A x \in Callers : x # c => new[x] = st[x]
  BY DEF Stacks
<1>3. /\ DOMAIN new[c] = 1..(Len(st[c]) + 1) /\ new[c][Len(st[c]) + 1] = f
      /\ \A d \in DOMAIN st[c] : new[c][d] = st[c][d]
  <2>1. /\ new[c] \in Seq(Frame) /\ Len(new[c]) = Len(st[c]) + 1 /\ new[c][Len(st[c]) + 1] = f
        /\ \A d \in 1..Len(st[c]) : new[c][d] = st[c][d]
    BY <1>1, <1>2, AppendProperties
  <2>2. DOMAIN new[c] = 1..Len(new[c])
    BY <2>1, LenProperties
  <2> QED
    BY <1>1, <2>1, <2>2
<1>4. \A x \in Callers : \A d \in DOMAIN st[x] : d \in DOMAIN new[x] /\ new[x][d] = st[x][d]
  BY <1>1, <1>2, <1>3
<1>5. ASSUME NEW g \in 1..stores, NEW k \in DOMAIN q[g] PROVE TurnFits(q, new, g, k)
  <2>1. TurnFits(q, st, g, k) /\ q[g][k] \in Turns
    BY LineIs DEF Queues
  <2> QED
    BY <1>4, <2>1 DEF TurnFits, Turns
<1>6. ASSUME NEW x \in Callers, NEW d \in DOMAIN new[x], new[x][d].owns PROVE HasTurn(q, new, x, d)
  <2>1. d \in DOMAIN st[x]
    <3>1. CASE x = c
      <4>1. d # Len(st[c]) + 1
        BY <1>3, <1>6, <3>1
      <4> QED
        BY <1>1, <1>3, <3>1, <4>1
    <3>2. CASE x # c
      BY <1>2, <3>2
    <3> QED
      BY <3>1, <3>2
  <2> QED
    BY <1>4, <1>6, <2>1 DEF Queues, HasTurn
<1> QED
  BY <1>5, <1>6 DEF Queues

\* A frame is added that asks for a store, and so is its place.
LEMMA LockKeepsLines ==
    ASSUME HostTypes, NEW st, Stacks(st), NEW q, Queues(q, st), NEW c \in Callers, NEW f \in Frame,
           f.owns, f.phase = "locking", f.at \in DOMAIN loaded,
           NEW new, new = [st EXCEPT ![c] = Append(@, f)],
           NEW lines, lines = [q EXCEPT ![GroupOf(f)] = Append(@, Turn(c, Len(st[c]) + 1))]
    PROVE  Queues(lines, new)
<1> DEFINE n == Len(st[c]) + 1
           h == GroupOf(f)
<1>1. Len(st[c]) \in Nat /\ DOMAIN st[c] = 1..Len(st[c]) /\ st[c] \in Seq(Frame) /\ h \in 1..stores
  BY FrameIs DEF HostTypes, GroupOf
<1>2. new[c] = Append(st[c], f) /\ \A x \in Callers : x # c => new[x] = st[x]
  BY DEF Stacks
<1>3. /\ DOMAIN new[c] = 1..n /\ new[c][n] = f
      /\ \A d \in DOMAIN st[c] : new[c][d] = st[c][d]
  <2>1. /\ new[c] \in Seq(Frame) /\ Len(new[c]) = Len(st[c]) + 1 /\ new[c][Len(st[c]) + 1] = f
        /\ \A d \in 1..Len(st[c]) : new[c][d] = st[c][d]
    BY <1>1, <1>2, AppendProperties
  <2>2. DOMAIN new[c] = 1..Len(new[c])
    BY <2>1, LenProperties
  <2> QED
    BY <1>1, <2>1, <2>2
<1>4. n \in Nat \ {0} /\ n \notin DOMAIN st[c] /\ \A d \in 1..n : d = n \/ d \in DOMAIN st[c]
  BY <1>1
<1>5. Turn(c, n) \in Turns /\ \A t \in Turns : t = Turn(c, n) <=> t.caller = c /\ t.depth = n
  BY <1>4, TurnIs
<1>6. \A x \in Callers : \A d \in DOMAIN st[x] : d \in DOMAIN new[x] /\ new[x][d] = st[x][d]
  BY <1>1, <1>2, <1>3, <1>4
<1> DEFINE old == q[h]
<1>7. /\ old \in Seq(Turns) /\ Len(old) \in Nat /\ DOMAIN old = 1..Len(old)
  BY <1>1, LineIs
<1>8. lines[h] = Append(old, Turn(c, n)) /\ (\A g \in 1..stores : g # h => lines[g] = q[g]) /\ DOMAIN lines = 1..stores
  BY <1>1 DEF Queues
<1> HIDE DEF n, h, old
<1>9. /\ lines[h] \in Seq(Turns) /\ Len(lines[h]) = Len(old) + 1 /\ lines[h][Len(old) + 1] = Turn(c, n)
      /\ \A k \in 1..Len(old) : lines[h][k] = old[k]
  <2> DEFINE turn == Turn(c, n)
             line == lines[h]
  <2>1. turn \in Turns /\ line = Append(old, turn)
    BY <1>5, <1>8
  <2> HIDE DEF turn, line
  <2>2. /\ line \in Seq(Turns) /\ Len(line) = Len(old) + 1 /\ line[Len(old) + 1] = turn
        /\ \A k \in 1..Len(old) : line[k] = old[k]
    BY <1>7, <2>1, AppendProperties
  <2> QED
    BY <2>2 DEF turn, line
<1>10. DOMAIN lines[h] = 1..(Len(old) + 1)
  BY <1>9, LenProperties
<1>11. \A g \in 1..stores : \A k \in DOMAIN q[g] : k \in DOMAIN lines[g] /\ lines[g][k] = q[g][k]
  BY <1>7, <1>8, <1>9, <1>10 DEF old
<1>12. ASSUME NEW g \in 1..stores, NEW k \in DOMAIN q[g] PROVE q[g][k] # Turn(c, n)
  <2>1. TurnFits(q, st, g, k) /\ q[g][k] \in Turns
    BY <1>12, LineIs DEF Queues
  <2> QED
    BY <1>4, <1>5, <2>1 DEF TurnFits
<1>13. lines \in [1..stores -> Seq(Turns)]
  <2>1. \A g \in 1..stores : lines[g] \in Seq(Turns)
    BY <1>8, <1>9 DEF Queues
  <2>2. lines = [g \in 1..stores |-> lines[g]]
    BY <1>1, <1>8 DEF Queues, h
  <2> QED
    BY <2>1, <2>2
<1>14. ASSUME NEW g \in 1..stores PROVE Distinct(lines[g])
  <2>1. CASE g # h
    BY <1>8, <2>1 DEF Queues
  <2>2. CASE g = h
    <3> SUFFICES ASSUME NEW k \in 1..(Len(old) + 1), NEW l \in 1..(Len(old) + 1), lines[h][k] = lines[h][l]
                 PROVE  k = l
      BY <1>10, <2>2 DEF Distinct
    <3>1. Distinct(old) /\ \A m \in 1..Len(old) : lines[h][m] = old[m] /\ old[m] # Turn(c, n)
      BY <1>7, <1>9, <1>12, <2>2 DEF Queues, old
    <3>2. (k = Len(old) + 1 \/ k \in 1..Len(old)) /\ (l = Len(old) + 1 \/ l \in 1..Len(old))
      BY <1>7
    <3>3. CASE k \in 1..Len(old) /\ l \in 1..Len(old)
      BY <1>7, <3>1, <3>3 DEF Distinct
    <3>4. CASE k = Len(old) + 1 \/ l = Len(old) + 1
      BY <1>9, <3>1, <3>2, <3>4
    <3> QED
      BY <3>2, <3>3, <3>4
  <2> QED
    BY <2>1, <2>2
<1>15. ASSUME NEW g \in 1..stores, NEW k \in DOMAIN lines[g] PROVE TurnFits(lines, new, g, k)
  <2>1. CASE k \in DOMAIN q[g]
    <3>1. TurnFits(q, st, g, k) /\ q[g][k] \in Turns /\ lines[g][k] = q[g][k]
      BY <1>11, <2>1, LineIs DEF Queues
    <3> DEFINE t == q[g][k]
    <3>2. /\ t.caller \in Callers /\ t.depth \in DOMAIN st[t.caller]
          /\ st[t.caller][t.depth].owns /\ GroupOf(st[t.caller][t.depth]) = g
          /\ k > 1 => st[t.caller][t.depth].phase = "locking"
      BY <3>1 DEF TurnFits, Turns
    <3> HIDE DEF t
    <3>3. t.depth \in DOMAIN new[t.caller] /\ new[t.caller][t.depth] = st[t.caller][t.depth]
      BY <1>6, <3>2
    <3>4. lines[g][k] = t
      BY <3>1 DEF t
    <3> QED
      BY <3>2, <3>3, <3>4 DEF TurnFits
  <2>2. CASE k \notin DOMAIN q[g]
    <3>1. g = h /\ k = Len(old) + 1
      BY <1>7, <1>8, <1>10, <1>15, <2>2 DEF old
    <3>2. lines[g][k].caller = c /\ lines[g][k].depth = n /\ n \in DOMAIN new[c] /\ new[c][n] = f
      BY <1>3, <1>4, <1>9, <3>1 DEF Turn
    <3> QED
      BY <3>1, <3>2 DEF TurnFits, h
  <2> QED
    BY <2>1, <2>2
<1>16. ASSUME NEW x \in Callers, NEW d \in DOMAIN new[x], new[x][d].owns PROVE HasTurn(lines, new, x, d)
  <2>1. CASE d \in DOMAIN st[x]
    <3>1. new[x][d] = st[x][d] /\ GroupOf(st[x][d]) \in 1..stores
      BY <1>6, <2>1, FrameIs
    <3>2. HasTurn(q, st, x, d)
      BY <1>16, <2>1, <3>1 DEF Queues
    <3> QED
      BY <1>11, <3>1, <3>2 DEF HasTurn
  <2>2. CASE d \notin DOMAIN st[x]
    <3>1. x = c /\ d = n
      BY <1>2, <1>3, <1>4, <1>16, <2>2
    <3>2. GroupOf(new[x][d]) = h /\ lines[h][Len(old) + 1] = Turn(c, n) /\ Len(old) + 1 \in DOMAIN lines[h]
      BY <1>3, <1>7, <1>9, <1>10, <3>1 DEF h
    <3> QED
      BY <3>1, <3>2 DEF HasTurn
  <2> QED
    BY <2>1, <2>2
<1> QED
  BY <1>13, <1>14, <1>15, <1>16 DEF Queues

\* The last frame ends, and gives up the store if it has it.
LEMMA UnlockKeepsLines ==
    ASSUME HostTypes, NEW st, Stacks(st), NEW q, Queues(q, st), NEW c \in Callers, st[c] # <<>>,
           TopOf(st, c).phase # "locking",
           NEW new, \A x \in Callers : x # c => new[x] = st[x],
           DOMAIN new[c] = 1..(Len(st[c]) - 1),
           \A d \in 1..(Len(st[c]) - 1) : new[c][d].at = st[c][d].at /\ new[c][d].owns = st[c][d].owns,
           NEW lines, lines = Unlocking(q, TopOf(st, c))
    PROVE  Queues(lines, new)
<1> DEFINE n == Len(st[c])
           top == TopOf(st, c)
           h == GroupOf(top)
<1>1. /\ n \in Nat \ {0} /\ DOMAIN st[c] = 1..n /\ n \in DOMAIN st[c]
      /\ \A x \in Callers : \A d \in DOMAIN st[x] : GroupOf(st[x][d]) \in 1..stores
  <2>1. st[c] \in Seq(Frame) /\ n \in Nat /\ DOMAIN st[c] = 1..n
    BY FrameIs
  <2>2. n # 0
    BY <2>1, EmptySeq
  <2> QED
    BY <2>1, <2>2, FrameIs
<1>2. \A d \in 1..(n - 1) : d \in DOMAIN st[c] /\ d # n /\ st[c][d].phase = "running"
  <2> SUFFICES ASSUME NEW d \in 1..(n - 1) PROVE d \in DOMAIN st[c] /\ d # n /\ st[c][d].phase = "running"
    OBVIOUS
  <2>1. d \in DOMAIN st[c] /\ d # n /\ d < n
    BY <1>1
  <2>2. FrameFits(st[c], d)
    BY <2>1 DEF Stacks, StackFits
  <2> QED
    BY <2>1, <2>2 DEF FrameFits
<1>3. \A d \in DOMAIN st[c] : d = n \/ d \in 1..(n - 1)
  BY <1>1
<1> HIDE DEF n
<1>4. DOMAIN new[c] = 1..(n - 1) /\ \A d \in 1..(n - 1) : new[c][d].at = st[c][d].at /\ new[c][d].owns = st[c][d].owns
  BY DEF n
<1>5. ASSUME NEW g \in 1..stores, NEW k \in DOMAIN q[g], q[g][k] # Turn(c, n)
      PROVE  LET t == q[g][k]
             IN  /\ t.caller \in Callers /\ t.depth \in DOMAIN new[t.caller]
                 /\ new[t.caller][t.depth].owns /\ GroupOf(new[t.caller][t.depth]) = g
                 /\ k > 1 => new[t.caller][t.depth].phase = "locking"
  <2> DEFINE t == q[g][k]
  <2>1. TurnFits(q, st, g, k) /\ t \in Turns
    BY LineIs DEF Queues
  <2>2. /\ t.caller \in Callers /\ t.depth \in DOMAIN st[t.caller]
        /\ st[t.caller][t.depth].owns /\ GroupOf(st[t.caller][t.depth]) = g
        /\ k > 1 => st[t.caller][t.depth].phase = "locking"
    BY <2>1 DEF TurnFits, Turns
  <2>3. t.caller = c => t.depth # n
    BY <1>1, <1>5, <2>1, TurnIs
  <2> HIDE DEF t
  <2>4. CASE t.caller = c
    <3>1. t.depth \in 1..(n - 1)
      BY <1>3, <2>2, <2>3, <2>4
    <3>2. ~(k > 1)
      BY <1>2, <2>2, <2>4, <3>1
    <3> QED
      BY <1>4, <2>2, <2>4, <3>1, <3>2 DEF t, GroupOf
  <2>5. CASE t.caller # c
    BY <2>2, <2>5 DEF t
  <2> QED
    BY <2>4, <2>5
<1>6. ASSUME NEW x \in Callers, NEW d \in DOMAIN new[x], new[x][d].owns
      PROVE  /\ d \in DOMAIN st[x] /\ GroupOf(new[x][d]) = GroupOf(st[x][d]) /\ HasTurn(q, st, x, d)
             /\ x = c => d # n
  <2>1. CASE x = c
    <3>1. d \in DOMAIN st[c] /\ d # n /\ st[c][d].owns /\ new[c][d].at = st[c][d].at
      BY <1>2, <1>4, <1>6, <2>1
    <3> QED
      BY <2>1, <3>1 DEF Queues, GroupOf
  <2>2. CASE x # c
    BY <1>6, <2>2 DEF Queues
  <2> QED
    BY <2>1, <2>2
<1>7. top = st[c][n] /\ top.phase # "locking"
  BY DEF n, TopOf
<1>10. lines = IF top.owns THEN [q EXCEPT ![h] = Tail(@)] ELSE q
  BY DEF Unlocking
<1> HIDE DEF top
<1>8. CASE ~top.owns
  <2>1. lines = q
    BY <1>8, <1>10
  <2>2. ASSUME NEW g \in 1..stores, NEW k \in DOMAIN q[g] PROVE q[g][k] # Turn(c, n)
    <3>1. TurnFits(q, st, g, k)
      BY DEF Queues
    <3> QED
      BY <1>7, <1>8, <3>1 DEF TurnFits, Turn
  <2>3. \A g \in 1..stores : \A k \in DOMAIN q[g] : TurnFits(q, new, g, k)
    BY <1>5, <2>2 DEF TurnFits
  <2>4. \A x \in Callers : \A d \in DOMAIN new[x] : new[x][d].owns => HasTurn(q, new, x, d)
    BY <1>6 DEF HasTurn
  <2> QED
    BY <2>1, <2>3, <2>4 DEF Queues
<1>9. CASE top.owns
  <2>1. lines = [q EXCEPT ![h] = Tail(@)] /\ h \in 1..stores
    BY <1>1, <1>7, <1>9, <1>10
  <2>2. q[h] # <<>> /\ q[h][1] = Turn(c, n)
    BY <1>1, <1>7, <1>9, OwnerIsFirst
  <2> DEFINE old == q[h]
  <2>3. old \in Seq(Turns) /\ Len(old) \in Nat /\ DOMAIN old = 1..Len(old) /\ Len(old) # 0 /\ Distinct(old)
    BY <2>1, <2>2, LineIs DEF Queues
  <2>4. lines[h] = Tail(old) /\ (\A g \in 1..stores : g # h => lines[g] = q[g]) /\ DOMAIN lines = 1..stores
    BY <2>1 DEF Queues
  <2> HIDE DEF h, old
  <2>5. /\ lines[h] \in Seq(Turns) /\ Len(lines[h]) = Len(old) - 1
        /\ \A k \in 1..(Len(old) - 1) : lines[h][k] = old[k + 1]
    <3>1. old # <<>>
      BY <2>2 DEF old
    <3> DEFINE rest == Tail(old)
    <3>2. rest \in Seq(Turns) /\ Len(rest) = Len(old) - 1 /\ \A k \in 1..Len(rest) : rest[k] = old[k + 1]
      BY <2>3, <3>1, HeadTailProperties
    <3> QED
      BY <2>4, <3>2
  <2>6. DOMAIN lines[h] = 1..(Len(old) - 1)
    BY <2>5, LenProperties
  <2>7. lines \in [1..stores -> Seq(Turns)]
    <3>1. \A g \in 1..stores : lines[g] \in Seq(Turns)
      BY <2>4, <2>5 DEF Queues
    <3>2. lines = [g \in 1..stores |-> lines[g]]
      BY <2>1 DEF Queues
    <3> QED
      BY <3>1, <3>2
  <2>8. ASSUME NEW g \in 1..stores, NEW k \in DOMAIN lines[g]
        PROVE  \E m \in DOMAIN q[g] : /\ lines[g][k] = q[g][m] /\ q[g][m] # Turn(c, n)
                                      /\ m = IF g = h THEN k + 1 ELSE k
    <3>1. CASE g = h
      <4>1. k \in 1..(Len(old) - 1) /\ k + 1 \in DOMAIN old /\ k + 1 # 1 /\ 1 \in DOMAIN old
        BY <2>3, <2>6, <2>8, <3>1
      <4>2. old[k + 1] # old[1]
        BY <2>3, <4>1 DEF Distinct
      <4> QED
        BY <2>2, <2>5, <3>1, <4>1, <4>2 DEF old
    <3>2. CASE g # h
      <4>1. lines[g][k] = q[g][k] /\ k \in DOMAIN q[g]
        BY <2>4, <2>8, <3>2
      <4>2. q[g][k] # Turn(c, n)
        <5>1. TurnFits(q, st, g, k)
          BY <4>1 DEF Queues
        <5> QED
          BY <1>7, <3>2, <5>1 DEF TurnFits, Turn, h
      <4> QED
        BY <3>2, <4>1, <4>2
    <3> QED
      BY <3>1, <3>2
  <2>9. ASSUME NEW g \in 1..stores PROVE Distinct(lines[g])
    <3>1. CASE g = h
      <4>1. ASSUME NEW k \in 1..(Len(old) - 1), NEW l \in 1..(Len(old) - 1), lines[h][k] = lines[h][l] PROVE k = l
        <5>1. k + 1 \in DOMAIN old /\ l + 1 \in DOMAIN old
          BY <2>3
        <5>2. old[k + 1] = old[l + 1]
          BY <2>5, <4>1
        <5>3. k + 1 = l + 1
          BY <2>3, <5>1, <5>2 DEF Distinct
        <5> QED
          BY <5>3
      <4>2. \A k, l \in DOMAIN lines[h] : lines[h][k] = lines[h][l] => k = l
        BY <2>6, <4>1
      <4> QED
        BY <3>1, <4>2 DEF Distinct
    <3>2. CASE g # h
      BY <2>4, <3>2 DEF Queues
    <3> QED
      BY <3>1, <3>2
  <2>10. ASSUME NEW g \in 1..stores, NEW k \in DOMAIN lines[g] PROVE TurnFits(lines, new, g, k)
    <3>1. PICK m \in DOMAIN q[g] : lines[g][k] = q[g][m] /\ q[g][m] # Turn(c, n) /\ m = IF g = h THEN k + 1 ELSE k
      BY <2>8
    <3>2. k > 1 => m > 1
      <4>1. k \in Nat
        <5>1. lines[g] \in Seq(Turns)
          BY <2>7
        <5> QED
          BY <5>1, LenProperties
      <4> QED
        BY <3>1, <4>1
    <3>3. LET t == q[g][m]
          IN  /\ t.caller \in Callers /\ t.depth \in DOMAIN new[t.caller]
              /\ new[t.caller][t.depth].owns /\ GroupOf(new[t.caller][t.depth]) = g
              /\ m > 1 => new[t.caller][t.depth].phase = "locking"
      BY <1>5, <3>1
    <3> QED
      BY <3>1, <3>2, <3>3 DEF TurnFits
  <2>11. ASSUME NEW x \in Callers, NEW d \in DOMAIN new[x], new[x][d].owns PROVE HasTurn(lines, new, x, d)
    <3> DEFINE g == GroupOf(st[x][d])
    <3>1. /\ d \in DOMAIN st[x] /\ GroupOf(new[x][d]) = g /\ HasTurn(q, st, x, d)
          /\ (x = c => d # n)
      BY <1>6, <2>11
    <3>2. g \in 1..stores
      BY <1>1, <3>1
    <3>3. PICK k \in DOMAIN q[g] : q[g][k] = Turn(x, d)
      BY <3>1 DEF HasTurn
    <3> HIDE DEF g
    <3>4. CASE g # h
      BY <2>4, <3>1, <3>2, <3>3, <3>4 DEF HasTurn
    <3>5. CASE g = h
      <4>1. Turn(x, d) # Turn(c, n)
        BY <3>1 DEF Turn
      <4>2. k \in DOMAIN old /\ old[k] = Turn(x, d) /\ k # 1
        BY <2>2, <3>3, <3>5, <4>1 DEF old
      <4>3. k - 1 \in DOMAIN lines[h] /\ lines[h][k - 1] = old[k]
        <5>1. k - 1 \in 1..(Len(old) - 1) /\ (k - 1) + 1 = k
          BY <2>3, <4>2
        <5> QED
          BY <2>5, <2>6, <5>1
      <4> QED
        BY <3>1, <3>5, <4>2, <4>3 DEF HasTurn
    <3> QED
      BY <3>4, <3>5
  <2> QED
    BY <2>7, <2>9, <2>10, <2>11 DEF Queues
<1> QED
  BY <1>8, <1>9

\* A call is dropped, with all its places.
LEMMA CancelKeepsLines ==
    ASSUME HostTypes, NEW st, Stacks(st), NEW q, Queues(q, st), NEW c \in Callers,
           NEW new, new = [st EXCEPT ![c] = <<>>],
           NEW lines, lines = Dropping(q, Places(st, c))
    PROVE  Queues(lines, new)
<1> DEFINE turns == Places(st, c)
<1>7. turns = {Turn(c, d) : d \in DOMAIN st[c]} /\ lines = [g \in DOMAIN q |-> Without(q[g], turns)]
  BY DEF Places, Dropping
<1> HIDE DEF turns
<1>1. DOMAIN new[c] = {} /\ \A x \in Callers : x # c => new[x] = st[x]
  BY DEF Stacks
<1>2. DOMAIN q = 1..stores /\ \A g \in 1..stores : lines[g] = Without(q[g], turns)
  BY <1>7 DEF Queues
<1>3. \A g \in 1..stores :
         /\ lines[g] \in Seq(Turns)
         /\ \A m \in DOMAIN lines[g] : \E j \in DOMAIN q[g] : m <= j /\ lines[g][m] = q[g][j] /\ q[g][j] \notin turns
         /\ \A j \in DOMAIN q[g] : q[g][j] \notin turns => \E m \in DOMAIN lines[g] : lines[g][m] = q[g][j]
         /\ Distinct(lines[g])
  <2> SUFFICES ASSUME NEW g \in 1..stores
               PROVE  /\ lines[g] \in Seq(Turns)
                      /\ \A m \in DOMAIN lines[g] : \E j \in DOMAIN q[g] :
                            m <= j /\ lines[g][m] = q[g][j] /\ q[g][j] \notin turns
                      /\ \A j \in DOMAIN q[g] : q[g][j] \notin turns => \E m \in DOMAIN lines[g] : lines[g][m] = q[g][j]
                      /\ Distinct(lines[g])
    OBVIOUS
  <2> DEFINE line == q[g]
             w == Without(line, turns)
  <2>1. line \in Seq(Turns) /\ Distinct(line) /\ lines[g] = w
    BY <1>2, LineIs DEF Queues
  <2> HIDE DEF line
  <2>2. /\ w \in Seq(Turns)
        /\ \A m \in DOMAIN w : \E j \in DOMAIN line : m <= j /\ w[m] = line[j] /\ line[j] \notin turns
        /\ \A j \in DOMAIN line : line[j] \notin turns => \E m \in DOMAIN w : w[m] = line[j]
        /\ Distinct(line) => Distinct(w)
    <3>1. line \in Seq(Turns)
      BY <2>1
    <3> QED
      BY ONLY <3>1, WithoutLeaves
  <2> HIDE DEF w
  <2> QED
    BY <2>1, <2>2 DEF line
<1>4. ASSUME NEW g \in 1..stores, NEW m \in DOMAIN lines[g] PROVE TurnFits(lines, new, g, m)
  <2>1. PICK j \in DOMAIN q[g] : m <= j /\ lines[g][m] = q[g][j] /\ q[g][j] \notin turns
    BY <1>3
  <2> DEFINE t == q[g][j]
  <2>2. TurnFits(q, st, g, j) /\ t \in Turns /\ j \in Nat
    BY LineIs DEF Queues
  <2>3. /\ t.caller \in Callers /\ t.depth \in DOMAIN st[t.caller]
        /\ st[t.caller][t.depth].owns /\ GroupOf(st[t.caller][t.depth]) = g
        /\ j > 1 => st[t.caller][t.depth].phase = "locking"
        /\ t = Turn(t.caller, t.depth)
    BY <2>2 DEF TurnFits, Turns, Turn
  <2>4. m \in Nat
    <3>1. lines[g] \in Seq(Turns)
      BY <1>3
    <3> QED
      BY <3>1, LenProperties
  <2>5. t \notin turns /\ lines[g][m] = t
    BY <2>1
  <2> HIDE DEF t
  <2>6. t.caller # c
    BY <1>7, <2>3, <2>5
  <2>7. m > 1 => j > 1
    BY <2>1, <2>2, <2>4
  <2> QED
    BY <1>1, <2>3, <2>5, <2>6, <2>7 DEF TurnFits
<1>5. ASSUME NEW x \in Callers, NEW d \in DOMAIN new[x], new[x][d].owns PROVE HasTurn(lines, new, x, d)
  <2>1. x # c /\ new[x] = st[x]
    BY <1>1, <1>5
  <2> DEFINE g == GroupOf(st[x][d])
  <2>2. g \in 1..stores
    BY <1>5, <2>1, FrameIs
  <2>3. PICK j \in DOMAIN q[g] : q[g][j] = Turn(x, d)
    BY <1>5, <2>1 DEF Queues, HasTurn
  <2>4. q[g][j] \notin turns
    <3>1. \A e \in DOMAIN st[c] : Turn(c, e) # Turn(x, d)
      BY <2>1 DEF Turn
    <3> QED
      BY <1>7, <2>3, <3>1
  <2> HIDE DEF g
  <2>5. \E m \in DOMAIN lines[g] : lines[g][m] = q[g][j]
    BY <1>3, <2>2, <2>4
  <2> QED
    BY <2>1, <2>3, <2>5 DEF HasTurn, g
<1>6. lines \in [1..stores -> Seq(Turns)]
  BY <1>2, <1>3, <1>7
<1> QED
  BY <1>3, <1>4, <1>5, <1>6 DEF Queues

\* Whoever is in a store, having asked for it or not, is of the call that is the
\* first in its line, and above where that call asked.
LEMMA InsideIsFirst ==
    ASSUME HostTypes, LinksFit, NEW st, Stacks(st), NEW q, Queues(q, st), NEW c \in Callers,
           NEW d \in DOMAIN st[c], st[c][d].phase # "locking"
    PROVE  LET line == q[GroupOf(st[c][d])] IN line # <<>> /\ line[1].caller = c /\ line[1].depth <= d
<1> DEFINE s == st[c]
           n == Len(s)
           First(k) == LET line == q[GroupOf(s[k])] IN line # <<>> /\ line[1].caller = c /\ line[1].depth <= k
           T == {k \in 0..n : k = 0 \/ s[k].phase = "locking" \/ First(k)}
<1>1. n \in Nat /\ DOMAIN s = 1..n /\ \A k \in DOMAIN s : FrameFits(s, k) /\ s[k].at \in DOMAIN loaded
  BY FrameIs DEF Stacks, StackFits
<1>2. \A k \in DOMAIN s : s[k].owns /\ s[k].phase # "locking" => First(k)
  <2> SUFFICES ASSUME NEW k \in DOMAIN s, s[k].owns, s[k].phase # "locking" PROVE First(k)
    OBVIOUS
  <2>1. q[GroupOf(st[c][k])] # <<>> /\ q[GroupOf(st[c][k])][1] = Turn(c, k)
    BY OwnerIsFirst
  <2>2. k <= k
    BY <1>1
  <2> QED
    BY <2>1, <2>2 DEF Turn
<1> HIDE DEF s, n
<1>3. \A k \in DOMAIN s : ~s[k].owns => k - 1 \in DOMAIN s /\ s[k - 1].phase = "running" /\ GroupOf(s[k]) = GroupOf(s[k - 1])
  <2> SUFFICES ASSUME NEW k \in DOMAIN s, ~s[k].owns
               PROVE  k - 1 \in DOMAIN s /\ s[k - 1].phase = "running" /\ GroupOf(s[k]) = GroupOf(s[k - 1])
    OBVIOUS
  <2>1. k # 1
    BY <1>1 DEF FrameFits
  <2>2. k - 1 \in DOMAIN s /\ k - 1 < n /\ k > 1
    BY <1>1, <2>1
  <2>3. s[k - 1].phase = "running"
    BY <1>1, <2>2 DEF FrameFits, n
  <2>4. PICK link \in loaded[s[k - 1].at].links : link.to = s[k].at /\ link.kind = "direct"
    BY <1>1, <2>2 DEF FrameFits
  <2>5. LinkFits(s[k - 1].at, link)
    BY <1>1, <2>2 DEF LinksFit
  <2> QED
    BY <2>2, <2>3, <2>4, <2>5 DEF LinkFits, GroupOf
<1>4. 0 \in T
  BY <1>1
<1>5. ASSUME NEW k \in 1..n, k - 1 \in T PROVE k \in T
  <2>1. k \in 0..n /\ k \in DOMAIN s
    BY <1>1
  <2>2. CASE s[k].owns
    BY <1>2, <2>1, <2>2
  <2>3. CASE ~s[k].owns
    <3>1. k - 1 \in DOMAIN s /\ s[k - 1].phase = "running" /\ GroupOf(s[k]) = GroupOf(s[k - 1])
      BY <1>3, <2>1, <2>3
    <3>2. First(k - 1)
      BY <1>1, <1>5, <3>1
    <3>3. q[GroupOf(s[k - 1])][1].depth <= k
      <4>1. GroupOf(s[k - 1]) \in 1..stores
        BY <3>1, FrameIs DEF s
      <4>2. q[GroupOf(s[k - 1])][1] \in Turns
        BY <3>2, <4>1, LineIs
      <4>3. q[GroupOf(s[k - 1])][1].depth \in Nat /\ q[GroupOf(s[k - 1])][1].depth <= k - 1
        BY <3>2, <4>2 DEF Turns
      <4> QED
        BY <1>1, <4>3
    <3> QED
      BY <2>1, <3>1, <3>2, <3>3
  <2> QED
    BY <2>2, <2>3
<1>6. \A k \in 1..n : k - 1 \in T => k \in T
  BY <1>5
<1>7. 0..n \subseteq T
  <2> HIDE DEF T
  <2> QED
    BY <1>1, <1>4, <1>6, Climb
<1>8. d \in 0..n /\ d # 0
  BY <1>1 DEF s
<1> QED
  BY <1>7, <1>8 DEF s

-----------------------------------------------------------------------------
(* Stacks.                                                                 *)

\* The last frame changes its phase.
LEMMA BecomeIs ==
    ASSUME HostTypes, NEW st, Stacks(st), NEW c \in Callers, Len(st[c]) > 0, NEW p \in Phases,
           p \in {"locking", "refused"} => st[c][Len(st[c])].owns,
           NEW new, new = Becoming(st, c, p)
    PROVE  /\ Stacks(new) /\ Len(new[c]) = Len(st[c])
           /\ \A x \in Callers : x # c => new[x] = st[x]
           /\ \A x \in Callers : DOMAIN new[x] = DOMAIN st[x]
           /\ \A x \in Callers : \A d \in DOMAIN st[x] :
                 /\ new[x][d].at = st[x][d].at /\ new[x][d].owns = st[x][d].owns
                 /\ x # c \/ d # Len(st[c]) => new[x][d] = st[x][d]
           /\ new[c][Len(st[c])].phase = p
<1> DEFINE s == st[c]
           n == Len(s)
           r == new[c]
<1>1. /\ s \in Seq(Frame) /\ n \in Nat /\ DOMAIN s = 1..n /\ n \in 1..n
      /\ \A d \in 1..n : s[d] \in Frame /\ FrameFits(s, d)
  BY FrameIs DEF Stacks, StackFits
<1>2. r = [s EXCEPT ![n].phase = p] /\ \A x \in Callers : x # c => new[x] = st[x]
  BY DEF Stacks, Becoming
<1> DEFINE f == [s[n] EXCEPT !.phase = p]
<1>3. f \in Frame /\ f.at = s[n].at /\ f.owns = s[n].owns /\ f.phase = p
  BY <1>1 DEF Frame
<1>4. r = [s EXCEPT ![n] = f]
  BY <1>1, <1>2
<1> HIDE DEF s, n, r, f
<1>5. /\ r \in Seq(Frame) /\ Len(r) = n
      /\ \A d \in 1..n : r[d] = IF d = n THEN f ELSE s[d]
  BY <1>1, <1>3, <1>4, ExceptSeq DEF n
<1>6. DOMAIN r = 1..n
  BY <1>5, LenProperties
<1>7. ASSUME NEW d \in 1..n PROVE FrameFits(r, d)
  <2>1. FrameFits(s, d) /\ Len(s) = n
    BY <1>1 DEF n
  <2>2. r[d].at = s[d].at /\ r[d].owns = s[d].owns /\ (d # n => r[d] = s[d])
    BY <1>3, <1>5
  <2>3. r[d].at \in DOMAIN loaded /\ (d = 1 => r[d].owns)
    BY <2>1, <2>2 DEF FrameFits
  <2>4. d < Len(r) => r[d].phase = "running"
    <3>1. d < n => d # n
      BY <1>1
    <3> QED
      BY <1>5, <2>1, <2>2, <3>1 DEF FrameFits
  <2>5. r[d].phase \in {"locking", "refused"} => r[d].owns
    <3>1. CASE d = n
      BY <1>3, <1>5, <3>1 DEF s, n
    <3>2. CASE d # n
      BY <2>1, <2>2, <3>2 DEF FrameFits
    <3> QED
      BY <3>1, <3>2
  <2>6. d > 1 => r[d - 1].at = s[d - 1].at
    <3>1. d > 1 => d - 1 \in 1..n
      BY <1>1
    <3> QED
      BY <1>3, <1>5, <3>1
  <2>7. d > 1 => \E link \in loaded[r[d - 1].at].links :
                    link.to = r[d].at /\ link.kind = IF r[d].owns THEN "locked" ELSE "direct"
    BY <2>1, <2>2, <2>6 DEF FrameFits
  <2> QED
    BY <2>3, <2>4, <2>5, <2>7 DEF FrameFits
<1>8. StackFits(r)
  BY <1>5, <1>6, <1>7 DEF StackFits
<1>9. Stacks(new)
  <2>1. \A x \in Callers : new[x] \in Seq(Frame) /\ StackFits(new[x])
    BY <1>2, <1>5, <1>8 DEF Stacks, r
  <2>2. DOMAIN new = Callers /\ new = [x \in Callers |-> new[x]]
    BY DEF Stacks, Becoming
  <2> QED
    BY <2>1, <2>2 DEF Stacks
<1>10. \A x \in Callers : DOMAIN new[x] = DOMAIN st[x]
  BY <1>1, <1>2, <1>6 DEF r, s
<1>11. \A x \in Callers : \A d \in DOMAIN st[x] :
          /\ new[x][d].at = st[x][d].at /\ new[x][d].owns = st[x][d].owns
          /\ x # c \/ d # n => new[x][d] = st[x][d]
  <2> SUFFICES ASSUME NEW x \in Callers, NEW d \in DOMAIN st[x]
               PROVE  /\ new[x][d].at = st[x][d].at /\ new[x][d].owns = st[x][d].owns
                      /\ x # c \/ d # n => new[x][d] = st[x][d]
    OBVIOUS
  <2>1. CASE x # c
    BY <1>2, <2>1
  <2>2. CASE x = c
    BY <1>1, <1>3, <1>5, <2>2 DEF r, s
  <2> QED
    BY <2>1, <2>2
<1> QED
  BY <1>1, <1>2, <1>3, <1>5, <1>9, <1>10, <1>11 DEF r, s, n

\* A frame is added.
LEMMA PushIs ==
    ASSUME HostTypes, NEW st, Stacks(st), NEW c \in Callers, NEW f \in Frame, f.at \in DOMAIN loaded,
           f.phase \in {"locking", "refused"} => f.owns,
           \/ Len(st[c]) = 0 /\ f.owns
           \/ /\ Len(st[c]) > 0 /\ st[c][Len(st[c])].phase = "running"
              /\ \E link \in loaded[st[c][Len(st[c])].at].links :
                    link.to = f.at /\ link.kind = IF f.owns THEN "locked" ELSE "direct",
           NEW new, new = [st EXCEPT ![c] = Append(@, f)]
    PROVE  /\ Stacks(new) /\ Len(new[c]) = Len(st[c]) + 1 /\ new[c][Len(st[c]) + 1] = f
           /\ \A x \in Callers : x # c => new[x] = st[x]
           /\ \A d \in DOMAIN st[c] : new[c][d] = st[c][d]
<1> DEFINE s == st[c]
           n == Len(s)
           r == new[c]
<1>1. /\ s \in Seq(Frame) /\ n \in Nat /\ DOMAIN s = 1..n
      /\ \A d \in 1..n : s[d] \in Frame /\ FrameFits(s, d)
  BY FrameIs DEF Stacks, StackFits
<1>2. r = Append(s, f) /\ \A x \in Callers : x # c => new[x] = st[x]
  BY DEF Stacks
<1>3. \/ n = 0 /\ f.owns
      \/ n > 0 /\ s[n].phase = "running" /\ \E link \in loaded[s[n].at].links :
                    link.to = f.at /\ link.kind = IF f.owns THEN "locked" ELSE "direct"
  OBVIOUS
<1> HIDE DEF s, n, r
<1>4. r \in Seq(Frame) /\ Len(r) = n + 1 /\ r[n + 1] = f /\ \A d \in 1..n : r[d] = s[d]
  BY <1>1, <1>2, AppendProperties DEF n
<1>5. DOMAIN r = 1..(n + 1)
  BY <1>4, LenProperties
<1>6. ASSUME NEW d \in 1..n PROVE FrameFits(r, d)
  <2>1. FrameFits(s, d) /\ Len(s) = n /\ r[d] = s[d]
    BY <1>1, <1>4 DEF n
  <2>2. d < Len(r) => r[d].phase = "running"
    <3>1. CASE d = n
      BY <1>1, <1>3, <2>1, <3>1
    <3>2. CASE d # n
      <4>1. d < n
        BY <1>1, <3>2
      <4> QED
        BY <2>1, <4>1 DEF FrameFits
    <3> QED
      BY <3>1, <3>2
  <2>3. d > 1 => r[d - 1] = s[d - 1]
    <3>1. d > 1 => d - 1 \in 1..n
      BY <1>1
    <3> QED
      BY <1>4, <3>1
  <2> QED
    BY <2>1, <2>2, <2>3 DEF FrameFits
<1>7. FrameFits(r, n + 1)
  <2>1. ~(n + 1 < Len(r)) /\ (n + 1 = 1 <=> n = 0) /\ (n + 1 > 1 <=> n > 0) /\ (n + 1) - 1 = n
    BY <1>1, <1>4
  <2>2. n > 0 => r[n] = s[n]
    <3>1. n > 0 => n \in 1..n
      BY <1>1
    <3> QED
      BY <1>4, <3>1
  <2>3. n + 1 = 1 => f.owns
    BY <1>1, <1>3, <2>1
  <2>4. n + 1 > 1 => \E link \in loaded[r[n].at].links :
                        link.to = f.at /\ link.kind = IF f.owns THEN "locked" ELSE "direct"
    BY <1>1, <1>3, <2>1, <2>2
  <2> QED
    BY <1>4, <2>1, <2>3, <2>4 DEF FrameFits
<1>8. StackFits(r)
  <2>1. \A d \in 1..(n + 1) : d \in 1..n \/ d = n + 1
    BY <1>1
  <2> QED
    BY <1>4, <1>5, <1>6, <1>7, <2>1 DEF StackFits
<1>9. Stacks(new)
  <2>1. \A x \in Callers : new[x] \in Seq(Frame) /\ StackFits(new[x])
    BY <1>2, <1>4, <1>8 DEF Stacks, r
  <2>2. DOMAIN new = Callers /\ new = [x \in Callers |-> new[x]]
    BY DEF Stacks
  <2> QED
    BY <2>1, <2>2 DEF Stacks
<1> QED
  BY <1>1, <1>2, <1>4, <1>9 DEF r, s, n

\* The last frame ends, and the one below goes on, or traps too.
LEMMA PopIs ==
    ASSUME HostTypes, NEW st, Stacks(st), NEW c \in Callers, st[c] # <<>>,
           NEW new, new = Popping(st, c) \/ new = Failing(st, c)
    PROVE  /\ Stacks(new)
           /\ \A x \in Callers : x # c => new[x] = st[x]
           /\ Len(st[c]) \in Nat \ {0} /\ DOMAIN new[c] = 1..(Len(st[c]) - 1)
           /\ \A d \in 1..(Len(st[c]) - 1) :
                 /\ new[c][d].at = st[c][d].at /\ new[c][d].owns = st[c][d].owns
                 /\ d < Len(st[c]) - 1 => new[c][d] = st[c][d]
                 /\ new[c][d] = st[c][d] \/ new[c][d].phase = "traps"
<1> DEFINE s == st[c]
           n == Len(s)
           m == n - 1
           p == Pop(s)
           r == new[c]
<1>1. /\ s \in Seq(Frame) /\ n \in Nat /\ DOMAIN s = 1..n
      /\ \A d \in 1..n : s[d] \in Frame /\ FrameFits(s, d)
  BY FrameIs DEF Stacks, StackFits
<1>2. n # 0
  BY <1>1, EmptySeq
<1>3. (r = p \/ r = Trapped(p)) /\ \A x \in Callers : x # c => new[x] = st[x]
  BY DEF Stacks, Popping, Failing
<1> HIDE DEF s, n, r
<1>4. p \in Seq(Frame) /\ Len(p) = m /\ \A d \in 1..m : p[d] = s[d]
  <2>1. p = SubSeq(s, 1, m) /\ m \in Int /\ 1 \in Int /\ \A d \in 1..m : s[d] \in Frame
    BY <1>1, <1>2 DEF Pop, n
  <2>2. /\ SubSeq(s, 1, m) \in Seq(Frame)
        /\ Len(SubSeq(s, 1, m)) = IF 1 <= m THEN m - 1 + 1 ELSE 0
        /\ \A d \in 1..(m - 1 + 1) : SubSeq(s, 1, m)[d] = s[1 + d - 1]
    <3> HIDE DEF m, p
    <3> QED
      BY ONLY <2>1, SubSeqProperties
  <2>3. m - 1 + 1 = m /\ (~(1 <= m) => m = 0) /\ \A d \in 1..m : 1 + d - 1 = d
    BY <1>1, <1>2
  <2> QED
    BY <2>1, <2>2, <2>3
<1> HIDE DEF p
<1>5. m \in Nat /\ \A d \in 1..m : d \in 1..n /\ d < n /\ s[d].phase = "running"
  BY <1>1, <1>2 DEF FrameFits, n
<1>6. /\ r \in Seq(Frame) /\ Len(r) = m
      /\ \A d \in 1..m :
            /\ r[d].at = s[d].at /\ r[d].owns = s[d].owns
            /\ d < m => r[d] = s[d]
            /\ r[d] = s[d] \/ r[d].phase = "traps"
  <2>1. CASE r = p
    BY <1>4, <2>1
  <2>2. CASE r # p
    <3>1. r = Trapped(p)
      BY <1>3, <2>2
    <3>2. p # <<>>
      BY <2>2, <3>1 DEF Trapped
    <3>3. m \in 1..m
      BY <1>4, <1>5, <3>2, EmptySeq
    <3> DEFINE f == [p[m] EXCEPT !.phase = "traps"]
    <3>4. p[m] \in Frame
      BY <1>1, <1>4, <1>5, <3>3
    <3>5. f \in Frame /\ f.at = p[m].at /\ f.owns = p[m].owns /\ f.phase = "traps"
      BY <3>4 DEF Frame, Phases
    <3>6. r = [p EXCEPT ![m] = f]
      BY <1>4, <3>1, <3>2 DEF Trapped
    <3> HIDE DEF f, m
    <3>7. r \in Seq(Frame) /\ Len(r) = m /\ \A d \in 1..m : r[d] = IF d = m THEN f ELSE p[d]
      BY <1>4, <3>3, <3>5, <3>6, ExceptSeq
    <3>8. \A d \in 1..m : d < m => d # m
      BY <1>5
    <3> QED
      BY <1>4, <2>2, <3>5, <3>7, <3>8
  <2> QED
    BY <2>1, <2>2
<1>7. DOMAIN r = 1..m
  BY <1>6, LenProperties
<1>8. ASSUME NEW d \in 1..m PROVE FrameFits(r, d)
  <2>1. FrameFits(s, d) /\ s[d].phase = "running" /\ r[d].at = s[d].at /\ r[d].owns = s[d].owns
    BY <1>1, <1>5, <1>6
  <2>2. r[d].at \in DOMAIN loaded /\ (d = 1 => r[d].owns)
    BY <2>1 DEF FrameFits
  <2>3. d < Len(r) => r[d].phase = "running"
    BY <1>6, <2>1
  <2>4. r[d].phase \notin {"locking", "refused"}
    BY <1>6, <2>1
  <2>5. d > 1 => r[d - 1].at = s[d - 1].at
    <3>1. d > 1 => d - 1 \in 1..m
      BY <1>5
    <3> QED
      BY <1>6, <3>1
  <2>6. d > 1 => \E link \in loaded[r[d - 1].at].links :
                    link.to = r[d].at /\ link.kind = IF r[d].owns THEN "locked" ELSE "direct"
    BY <2>1, <2>5 DEF FrameFits
  <2> QED
    BY <2>2, <2>3, <2>4, <2>6 DEF FrameFits
<1>9. StackFits(r)
  BY <1>6, <1>7, <1>8 DEF StackFits
<1>10. Stacks(new)
  <2>1. \A x \in Callers : new[x] \in Seq(Frame) /\ StackFits(new[x])
    BY <1>3, <1>6, <1>9 DEF Stacks, r
  <2>2. DOMAIN new = Callers /\ new = [x \in Callers |-> new[x]]
    BY DEF Stacks, Popping, Failing
  <2> QED
    BY <2>1, <2>2 DEF Stacks
<1> QED
  BY <1>1, <1>2, <1>3, <1>6, <1>7, <1>10 DEF r, s, n, p

\* A call that ends leaves nothing.
LEMMA DropIs ==
    ASSUME NEW st, Stacks(st), NEW c \in Callers, NEW new, new = [st EXCEPT ![c] = <<>>]
    PROVE  Stacks(new)
<1>1. new[c] = <<>> /\ DOMAIN new[c] = {} /\ \A x \in Callers : x # c => new[x] = st[x]
  BY DEF Stacks
<1>2. <<>> \in Seq(Frame)
  BY EmptySeq
<1>3. \A x \in Callers : new[x] \in Seq(Frame) /\ StackFits(new[x])
  BY <1>1, <1>2 DEF Stacks, StackFits
<1>4. DOMAIN new = Callers /\ new = [x \in Callers |-> new[x]]
  BY DEF Stacks
<1> QED
  BY <1>3, <1>4 DEF Stacks

-----------------------------------------------------------------------------
(* Every step keeps the stacks and the lines.                              *)

\* What a call does not load, it does not move either.
LEMMA SameHost ==
    ASSUME UNCHANGED <<stores, loaded>>, Stacks(stack'), Queues(queue', stack')
    PROVE  Stacks(stack)' /\ Queues(queue, stack)'
<1>1. ASSUME NEW c \in Callers, NEW d \in DOMAIN stack'[c], FrameFits(stack'[c], d) PROVE FrameFits(stack[c], d)'
  BY <1>1 DEF FrameFits
<1>2. Stacks(stack)'
  BY <1>1 DEF Stacks, StackFits
<1>3. ASSUME NEW g \in 1..stores, NEW k \in DOMAIN queue'[g], TurnFits(queue', stack', g, k)
      PROVE  TurnFits(queue, stack, g, k)'
  BY <1>3 DEF TurnFits, GroupOf
<1>4. ASSUME NEW c \in Callers, NEW d \in DOMAIN stack'[c], HasTurn(queue', stack', c, d)
      PROVE  HasTurn(queue, stack, c, d)'
  BY <1>4 DEF HasTurn, GroupOf
<1>5. Queues(queue, stack)'
  BY <1>3, <1>4 DEF Queues
<1> QED
  BY <1>2, <1>5

\* A step of a call keeps the host as it is, but for what is poisoned.
LEMMA CallsKeep ==
    ASSUME CallInv, Idle, UNCHANGED <<stores, loaded, plan, assigned, base, bonds>>,
           poisoned' \subseteq 1..stores, blamed' \subseteq DOMAIN loaded,
           Stacks(stack'), Queues(queue', stack')
    PROVE  CallInv'
<1>1. LinkerInv'
  BY CallsKeepLinks DEF CallInv
<1>2. Stacks(stack)' /\ Queues(queue, stack)'
  BY SameHost
<1>3. Quiet'
  BY DEF Quiet, Idle
<1> QED
  BY <1>1, <1>2, <1>3 DEF CallInv

\* Where a call is.
LEMMA InCall ==
    ASSUME CallInv, NEW c \in Callers, stack[c] # <<>>
    PROVE  /\ Idle /\ HostTypes /\ LinksFit /\ Stacks(stack) /\ Queues(queue, stack)
           /\ poisoned \subseteq 1..stores /\ blamed \subseteq DOMAIN loaded
           /\ Depth(c) \in Nat /\ Depth(c) > 0 /\ DOMAIN stack[c] = 1..Depth(c) /\ Depth(c) \in DOMAIN stack[c]
           /\ Top(c) \in Frame /\ Top(c) = stack[c][Len(stack[c])] /\ FrameFits(stack[c], Depth(c))
           /\ Top(c).at \in DOMAIN loaded /\ GroupOf(Top(c)) \in 1..stores
<1>1. Idle /\ HostTypes /\ LinksFit /\ Stacks(stack) /\ Queues(queue, stack)
  BY DEF CallInv, LinkerInv, Quiet
<1>2. poisoned \subseteq 1..stores /\ blamed \subseteq DOMAIN loaded
  BY <1>1 DEF HostTypes
<1>3. stack[c] \in Seq(Frame) /\ Depth(c) \in Nat /\ DOMAIN stack[c] = 1..Depth(c)
  BY <1>1, FrameIs DEF Depth
<1>4. Depth(c) # 0
  BY <1>3, EmptySeq DEF Depth
<1>5. Depth(c) \in DOMAIN stack[c] /\ Depth(c) > 0
  BY <1>3, <1>4
<1>6. Top(c) = stack[c][Len(stack[c])]
  BY DEF Top, Depth
<1>7. Top(c) \in Frame /\ Top(c).at \in DOMAIN loaded /\ GroupOf(Top(c)) \in 1..stores
  BY <1>1, <1>5, FrameIs DEF Top
<1>8. FrameFits(stack[c], Depth(c))
  BY <1>1, <1>5 DEF Stacks, StackFits
<1> QED
  BY <1>1, <1>2, <1>3, <1>5, <1>6, <1>7, <1>8

\* Whoever is at some phase is in a call.
LEMMA TopIsInCall ==
    ASSUME CallInv, NEW c \in Callers, NEW p, TopIs(c, p)
    PROVE  stack[c] # <<>>
BY EmptySeq DEF TopIs, Depth

\* A call from outside of the host joins the line of one store.
LEMMA CallKeeps ==
    ASSUME CallInv, NEW c \in Callers, NEW i \in DOMAIN loaded, Call(c, i)
    PROVE  CallInv'
<1> DEFINE f == Locking(i)
<1>1. HostTypes /\ Stacks(stack) /\ Queues(queue, stack)
  BY DEF CallInv, LinkerInv
<1>2. i \in Nat \ {0}
  BY <1>1, HostIsNumbered DEF Numbered, Housed
<1>3. f \in Frame /\ f.owns /\ f.phase = "locking" /\ f.at = i /\ f.at \in DOMAIN loaded
  BY <1>2 DEF Locking, Frame, Phases
<1>4. stack[c] = <<>> /\ Len(stack[c]) = 0
  BY DEF Call
<1>5. stack' = [stack EXCEPT ![c] = Append(@, f)]
  BY <1>4 DEF Call
<1>6. queue' = [queue EXCEPT ![GroupOf(f)] = Append(@, Turn(c, Len(stack[c]) + 1))]
  BY <1>3, <1>4 DEF Call, Lock, GroupOf
<1> HIDE DEF f
<1>7. Stacks(stack')
  BY <1>1, <1>3, <1>4, <1>5, PushIs
<1>8. Queues(queue', stack')
  BY <1>1, <1>3, <1>5, <1>6, LockKeepsLines
<1>9. Idle /\ UNCHANGED linkerVars /\ poisoned \subseteq 1..stores /\ blamed \subseteq DOMAIN loaded
  BY <1>1 DEF Call, HostTypes
<1> QED
  BY <1>7, <1>8, <1>9, CallsKeep DEF linkerVars

\* The last frame of a call changes its phase, and gets the store if it locked.
LEMMA BecomeKeeps ==
    ASSUME CallInv, NEW c \in Callers, stack[c] # <<>>, NEW p \in Phases, Become(c, p),
           p \in {"locking", "refused"} => Top(c).owns,
           Top(c).phase = "locking" => Holds(c, Depth(c)),
           UNCHANGED queue
    PROVE  Stacks(stack') /\ Queues(queue', stack')
<1>1. /\ HostTypes /\ Stacks(stack) /\ Queues(queue, stack) /\ Len(stack[c]) > 0
      /\ Top(c) = stack[c][Len(stack[c])] /\ GroupOf(Top(c)) \in 1..stores
  BY InCall DEF Depth
<1>2. stack' = Becoming(stack, c, p)
  BY DEF Become, Becoming, Depth
<1>3. /\ Stacks(stack')
      /\ \A x \in Callers : DOMAIN stack'[x] = DOMAIN stack[x]
      /\ \A x \in Callers : \A d \in DOMAIN stack[x] :
            /\ stack'[x][d].at = stack[x][d].at /\ stack'[x][d].owns = stack[x][d].owns
            /\ x # c \/ d # Len(stack[c]) => stack'[x][d] = stack[x][d]
  <2>1. p \in {"locking", "refused"} => stack[c][Len(stack[c])].owns
    BY <1>1
  <2>2. c \in Callers /\ p \in Phases
    OBVIOUS
  <2> QED
    BY ONLY <1>1, <1>2, <2>1, <2>2, BecomeIs
<1>4. Top(c).phase = "locking" => queue[GroupOf(Top(c))][1] = Turn(c, Len(stack[c]))
  <2>1. queue[GroupOf(Top(c))] # <<>> => Head(queue[GroupOf(Top(c))]) = queue[GroupOf(Top(c))][1]
    BY <1>1, LineIs
  <2> QED
    BY <2>1 DEF Holds, Top, Depth
<1>5. \A x \in Callers : \A d \in DOMAIN stack[x] : stack[x][d].phase = "locking" =>
         \/ stack'[x][d].phase = "locking"
         \/ queue[GroupOf(stack[x][d])][1] = Turn(x, d)
  <2> SUFFICES ASSUME NEW x \in Callers, NEW d \in DOMAIN stack[x], stack[x][d].phase = "locking"
               PROVE  \/ stack'[x][d].phase = "locking"
                      \/ queue[GroupOf(stack[x][d])][1] = Turn(x, d)
    OBVIOUS
  <2>1. CASE x # c \/ d # Len(stack[c])
    <3>1. stack'[x][d] = stack[x][d]
      BY <1>3, <2>1
    <3> QED
      BY <3>1
  <2>2. CASE x = c /\ d = Len(stack[c])
    <3>1. stack[x][d] = Top(c)
      BY <1>1, <2>2
    <3> QED
      BY <1>4, <2>2, <3>1
  <2> QED
    BY <2>1, <2>2
<1>6. Queues(queue, stack')
  <2> DEFINE new == stack'
  <2>1. /\ HostTypes /\ Stacks(stack) /\ Queues(queue, stack)
        /\ \A x \in Callers : /\ DOMAIN new[x] = DOMAIN stack[x]
                              /\ \A d \in DOMAIN stack[x] :
                                    /\ new[x][d].at = stack[x][d].at /\ new[x][d].owns = stack[x][d].owns
                                    /\ stack[x][d].phase = "locking" =>
                                          \/ new[x][d].phase = "locking"
                                          \/ queue[GroupOf(stack[x][d])][1] = Turn(x, d)
    BY <1>1, <1>3, <1>5
  <2> HIDE DEF new
  <2>2. Queues(queue, new)
    BY <2>1, PhasesKeepLines
  <2> QED
    BY <2>2 DEF new
<1> QED
  BY <1>3, <1>6

\* Whoever has its turn goes in, or finds the store poisoned (wasm.rs, call).
LEMMA EnterKeeps ==
    ASSUME CallInv, NEW c \in Callers, Enter(c) \/ FindNothing(c)
    PROVE  CallInv'
<1>1. /\ TopIs(c, "locking") /\ Holds(c, Depth(c)) /\ UNCHANGED <<linkerVars, queue>>
      /\ Become(c, "refused") \/ Become(c, "running")
  BY DEF Enter, FindNothing
<1>2. stack[c] # <<>> /\ Top(c).phase = "locking"
  BY <1>1, TopIsInCall DEF TopIs
<1>3. /\ Idle /\ FrameFits(stack[c], Depth(c)) /\ poisoned \subseteq 1..stores /\ blamed \subseteq DOMAIN loaded
  BY <1>2, InCall
<1>4. Top(c).owns
  BY <1>2, <1>3 DEF FrameFits, Top
<1>5. Stacks(stack') /\ Queues(queue', stack')
  <2>1. CASE Become(c, "refused")
    BY <1>1, <1>2, <1>4, <2>1, BecomeKeeps DEF Phases
  <2>2. CASE Become(c, "running")
    BY <1>1, <1>2, <1>4, <2>2, BecomeKeeps DEF Phases
  <2> QED
    BY <1>1, <2>1, <2>2
<1> QED
  BY <1>1, <1>3, <1>5, CallsKeep DEF linkerVars

\* A call parks, or goes on.
LEMMA ParkKeeps ==
    ASSUME CallInv, NEW c \in Callers,
           \/ TopIs(c, "running") /\ Become(c, "parked")
           \/ TopIs(c, "parked") /\ Become(c, "running"),
           UNCHANGED <<linkerVars, queue>>
    PROVE  CallInv'
<1>1. stack[c] # <<>> /\ Top(c).phase # "locking"
  BY TopIsInCall DEF TopIs
<1>2. Idle /\ poisoned \subseteq 1..stores /\ blamed \subseteq DOMAIN loaded
  BY <1>1, InCall
<1>3. Stacks(stack') /\ Queues(queue', stack')
  <2>1. CASE Become(c, "parked")
    BY <1>1, <2>1, BecomeKeeps DEF Phases
  <2>2. CASE Become(c, "running")
    BY <1>1, <2>2, BecomeKeeps DEF Phases
  <2> QED
    BY <2>1, <2>2
<1> QED
  BY <1>2, <1>3, CallsKeep DEF linkerVars

\* A component traps.
LEMMA BlameKeeps ==
    ASSUME CallInv, NEW c \in Callers, TopIs(c, "running") \/ TopIs(c, "parked"), Blame(c)
    PROVE  CallInv'
<1>1. stack[c] # <<>> /\ Top(c).phase # "locking"
  BY TopIsInCall DEF TopIs
<1>2. Idle /\ poisoned \subseteq 1..stores /\ blamed \subseteq DOMAIN loaded /\ Top(c).at \in DOMAIN loaded
  BY <1>1, InCall
<1>3. Stacks(stack') /\ Queues(queue', stack')
  BY <1>1, BecomeKeeps DEF Blame, Phases
<1>4. poisoned' \subseteq 1..stores /\ blamed' \subseteq DOMAIN loaded
  BY <1>2 DEF Blame
<1> QED
  BY <1>2, <1>3, <1>4, CallsKeep DEF Blame

\* A component calls an import, within its store or in another.
LEMMA ForwardKeeps ==
    ASSUME CallInv, NEW c \in Callers, TopIs(c, "running"), NEW link \in loaded[Top(c).at].links,
           CallWithin(c, link) \/ CallAcross(c, link)
    PROVE  CallInv'
<1> DEFINE f == [at |-> link.to, owns |-> link.kind = "locked",
                 phase |-> IF link.kind = "locked" THEN "locking" ELSE "running"]
<1>1. stack[c] # <<>> /\ Top(c).phase = "running"
  BY TopIsInCall DEF TopIs
<1>2. /\ Idle /\ HostTypes /\ LinksFit /\ Stacks(stack) /\ Queues(queue, stack)
      /\ poisoned \subseteq 1..stores /\ blamed \subseteq DOMAIN loaded
      /\ Len(stack[c]) > 0 /\ Top(c) = stack[c][Len(stack[c])] /\ Top(c).at \in DOMAIN loaded
  BY <1>1, InCall DEF Depth
<1>3. link.kind \in {"direct", "locked"}
  BY DEF CallWithin, CallAcross
<1>4. link.to \in DOMAIN loaded /\ link.to \in Nat \ {0}
  <2>1. LinkFits(Top(c).at, link)
    BY <1>2 DEF LinksFit
  <2>2. Len(loaded) \in Nat /\ DOMAIN loaded = 1..Len(loaded)
    BY <1>2, HostIsNumbered DEF Numbered
  <2> QED
    BY <1>2, <1>3, <2>1, <2>2 DEF LinkFits
<1>5. f \in Frame /\ f.at = link.to /\ (f.owns <=> link.kind = "locked") /\ (f.phase = "locking" <=> f.owns)
  <2>1. f.at \in Nat \ {0} /\ f.owns \in BOOLEAN /\ f.phase \in Phases
    BY <1>4 DEF Phases
  <2>2. f = [at |-> f.at, owns |-> f.owns, phase |-> f.phase]
    OBVIOUS
  <2>3. f \in Frame
    <3> DEFINE a == f.at
               o == f.owns
               p == f.phase
    <3> HIDE DEF f
    <3>1. a \in Nat \ {0} /\ o \in BOOLEAN /\ p \in Phases /\ f = [at |-> a, owns |-> o, phase |-> p]
      BY <2>1, <2>2
    <3> HIDE DEF a, o, p
    <3> QED
      BY <3>1 DEF Frame
  <2> QED
    BY <2>3
<1>6. stack' = [stack EXCEPT ![c] = Append(@, f)] /\ UNCHANGED linkerVars
  BY DEF CallWithin, CallAcross, Locking
<1>7. f.phase \in {"locking", "refused"} => f.owns
  BY <1>5
<1>8. link.kind = IF f.owns THEN "locked" ELSE "direct"
  BY <1>3, <1>5
<1>9. CallWithin(c, link) => ~f.owns /\ queue' = queue
  BY DEF CallWithin
<1>10. CallAcross(c, link) => f.owns /\ queue' = [queue EXCEPT ![GroupOf(f)] = Append(@, Turn(c, Len(stack[c]) + 1))]
  BY DEF CallAcross, Lock, GroupOf, Depth
<1> HIDE DEF f
<1>11. Stacks(stack')
  <2>1. \E l \in loaded[stack[c][Len(stack[c])].at].links : l.to = f.at /\ l.kind = IF f.owns THEN "locked" ELSE "direct"
    BY <1>2, <1>5, <1>8
  <2>2. c \in Callers /\ stack[c][Len(stack[c])].phase = "running"
    BY <1>1, <1>2
  <2> QED
    BY ONLY <1>2, <1>4, <1>5, <1>6, <1>7, <2>1, <2>2, PushIs
<1>12. Queues(queue', stack')
  <2>1. CASE CallWithin(c, link)
    BY <1>2, <1>5, <1>6, <1>9, <2>1, EnterKeepsLines
  <2>2. CASE CallAcross(c, link)
    <3>1. c \in Callers /\ f.owns /\ f.phase = "locking" /\ f.at \in DOMAIN loaded
      BY <1>4, <1>5, <1>10, <2>2
    <3>2. queue' = [queue EXCEPT ![GroupOf(f)] = Append(@, Turn(c, Len(stack[c]) + 1))]
      BY <1>10, <2>2
    <3> QED
      BY ONLY <1>2, <1>5, <1>6, <3>1, <3>2, LockKeepsLines
  <2> QED
    BY <2>1, <2>2
<1> QED
  BY <1>2, <1>6, <1>11, <1>12, CallsKeep DEF linkerVars

\* A call of an import stays in its store, or joins the line of another.
LEMMA ImportKeeps ==
    ASSUME CallInv, NEW c \in Callers, Import(c)
    PROVE  CallInv'
<1>1. PICK link \in loaded[Top(c).at].links :
         CallWithin(c, link) \/ CallAcross(c, link) \/ CallRemote(c, link) \/ CallStub(c, link)
  BY DEF Import
<1>2. TopIs(c, "running")
  BY DEF Import
<1>3. CASE CallWithin(c, link) \/ CallAcross(c, link)
  BY <1>2, <1>3, ForwardKeeps
<1>4. CASE CallRemote(c, link)
  BY <1>2, <1>4, ParkKeeps DEF CallRemote
<1>5. CASE CallStub(c, link)
  BY <1>2, <1>5, BlameKeeps DEF CallStub
<1> QED
  BY <1>1, <1>3, <1>4, <1>5

\* Returning or trapping gives one store up, and it alone.
LEMMA EndKeeps ==
    ASSUME CallInv, NEW c \in Callers, Return(c) \/ Unwind(c)
    PROVE  CallInv'
<1>1. stack[c] # <<>> /\ Top(c).phase # "locking"
  BY TopIsInCall DEF Return, Unwind, TopIs
<1>2. /\ Idle /\ HostTypes /\ Stacks(stack) /\ Queues(queue, stack)
      /\ poisoned \subseteq 1..stores /\ blamed \subseteq DOMAIN loaded
      /\ Top(c) = stack[c][Len(stack[c])] /\ GroupOf(Top(c)) \in 1..stores
  BY <1>1, InCall
<1>3. TopOf(stack, c) = Top(c)
  BY DEF TopOf, Top, Depth
<1>4. stack' = Popping(stack, c) \/ stack' = Failing(stack, c)
  BY DEF Return, Unwind, Popping, Failing
<1>5. queue' = Unlocking(queue, TopOf(stack, c))
  BY <1>3 DEF Return, Unwind, Unlock, Unlocking
<1>6. /\ Stacks(stack')
      /\ \A x \in Callers : x # c => stack'[x] = stack[x]
      /\ DOMAIN stack'[c] = 1..(Len(stack[c]) - 1)
      /\ \A d \in 1..(Len(stack[c]) - 1) : stack'[c][d].at = stack[c][d].at /\ stack'[c][d].owns = stack[c][d].owns
  <2>1. c \in Callers
    OBVIOUS
  <2> QED
    BY ONLY <1>1, <1>2, <1>4, <2>1, PopIs
<1>7. Queues(queue', stack')
  <2>1. c \in Callers
    OBVIOUS
  <2> QED
    BY ONLY <1>1, <1>2, <1>3, <1>5, <1>6, <2>1, UnlockKeepsLines
<1>8. poisoned' \subseteq 1..stores /\ blamed' \subseteq DOMAIN loaded /\ UNCHANGED <<stores, loaded, plan, assigned, base, bonds>>
  BY <1>2 DEF Return, Unwind, linkerVars
<1> QED
  BY <1>2, <1>6, <1>7, <1>8, CallsKeep

\* Dropping a caller's future gives up every store it has or waits for.
LEMMA CancelKeeps ==
    ASSUME CallInv, NEW c \in Callers, Cancel(c)
    PROVE  CallInv'
<1>1. stack[c] # <<>>
  BY DEF Cancel
<1>2. /\ Idle /\ HostTypes /\ Stacks(stack) /\ Queues(queue, stack)
      /\ poisoned \subseteq 1..stores /\ blamed \subseteq DOMAIN loaded
  BY <1>1, InCall
<1>3. stack' = [stack EXCEPT ![c] = <<>>] /\ queue' = Dropping(queue, Places(stack, c))
  BY DEF Cancel, Dropping, Places
<1>5. Stacks(stack')
  BY <1>2, <1>3, DropIs
<1>7. Queues(queue', stack')
  BY <1>2, <1>3, CancelKeepsLines
<1>8. UNCHANGED <<stores, loaded, plan, assigned, base, bonds>>
  BY DEF Cancel
<1>9. \A d \in DOMAIN stack[c] : GroupOf(stack[c][d]) \in 1..stores /\ stack[c][d].at \in DOMAIN loaded
  BY <1>2, FrameIs
<1>10. poisoned' \subseteq 1..stores /\ blamed' \subseteq DOMAIN loaded
  BY <1>2, <1>9 DEF Cancel
<1> QED
  BY <1>2, <1>5, <1>7, <1>8, <1>10, CallsKeep

\* While a plan is loaded all lines are empty, and a store that is made has one.
LEMMA InstantiatingKeeps ==
    ASSUME CallInv, Instantiating
    PROVE  CallInv'
<1>1. LinkerInv /\ Stacks(stack) /\ Queues(queue, stack) /\ \A c \in Callers : stack[c] = <<>>
  BY DEF CallInv, Instantiating
<1>2. LinkerInv'
  BY <1>1, InstantiateKeepsLinks DEF Instantiating
<1>3. UNCHANGED stack /\ queue' = [g \in 1..stores' |-> IF g \in DOMAIN queue THEN queue[g] ELSE <<>>]
  BY DEF Instantiating
<1>4. \A c \in Callers : DOMAIN stack[c] = {}
  BY <1>1
<1>5. \A g \in DOMAIN queue : DOMAIN queue[g] = {} /\ queue[g] \in Seq(Turns)
  <2> SUFFICES ASSUME NEW g \in DOMAIN queue PROVE DOMAIN queue[g] = {} /\ queue[g] \in Seq(Turns)
    OBVIOUS
  <2>1. g \in 1..stores /\ queue[g] \in Seq(Turns)
    BY <1>1 DEF Queues
  <2>2. \A k \in DOMAIN queue[g] : FALSE
    <3> SUFFICES ASSUME NEW k \in DOMAIN queue[g] PROVE FALSE
      OBVIOUS
    <3>1. TurnFits(queue, stack, g, k) /\ queue[g][k] \in Turns
      BY <1>1, <2>1, LineIs DEF Queues
    <3> QED
      BY <1>4, <3>1 DEF TurnFits, Turns
  <2> QED
    BY <2>1, <2>2
<1>6. Stacks(stack)'
  BY <1>1, <1>3, <1>4 DEF Stacks, StackFits
<1>7. \A g \in 1..stores' : DOMAIN queue'[g] = {} /\ queue'[g] \in Seq(Turns)
  <2>1. <<>> \in Seq(Turns) /\ DOMAIN <<>> = {}
    BY EmptySeq
  <2> QED
    BY <1>3, <1>5, <2>1
<1>8. queue' \in [1..stores' -> Seq(Turns)]
  BY <1>3, <1>7
<1>9. Queues(queue, stack)'
  BY <1>3, <1>4, <1>7, <1>8 DEF Queues, Distinct
<1>10. Quiet'
  BY <1>1, <1>3 DEF Quiet
<1> QED
  BY <1>2, <1>6, <1>9, <1>10 DEF CallInv

\* No component is loaded, nobody calls.
LEMMA CallInvInitially == Init => CallInv
<1> SUFFICES ASSUME Init PROVE CallInv
  OBVIOUS
<1>1. LinkerInv /\ stores = 0 /\ 1..stores = {}
  BY LinkerInitially DEF Init, LinkerInit
<1>2. \A c \in Callers : stack[c] = <<>> /\ DOMAIN stack[c] = {}
  BY DEF Init
<1>3. <<>> \in Seq(Frame)
  BY EmptySeq
<1>4. Stacks(stack)
  BY <1>2, <1>3 DEF Init, Stacks, StackFits
<1>5. Queues(queue, stack)
  BY <1>1, <1>2 DEF Init, Queues
<1> QED
  BY <1>1, <1>2, <1>4, <1>5 DEF CallInv, Quiet

\* Every step keeps it: of the linker, or of one caller.
LEMMA CallInvKept == CallInv /\ [Next]_vars => CallInv'
<1> SUFFICES ASSUME CallInv, [Next]_vars PROVE CallInv'
  OBVIOUS
<1>1. CASE UNCHANGED vars
  <2>1. UNCHANGED <<stores, loaded, plan, assigned, base, bonds, poisoned, blamed, stack, queue>>
    BY <1>1 DEF vars, linkerVars
  <2>2. HostTypes
    BY DEF CallInv, LinkerInv
  <2>3. LinkerInv'
    BY <2>1, <2>2, CallsKeepLinks DEF CallInv, HostTypes
  <2>4. Stacks(stack') /\ Queues(queue', stack')
    BY <2>1 DEF CallInv
  <2>5. Stacks(stack)' /\ Queues(queue, stack)'
    BY <2>1, <2>4, SameHost
  <2>6. Quiet'
    BY <2>1 DEF CallInv, Quiet, Idle
  <2> QED
    BY <2>3, <2>5, <2>6 DEF CallInv
<1>2. CASE Instantiating
  BY <1>2, InstantiatingKeeps
<1>3. ASSUME NEW c \in Callers, NEW i \in DOMAIN loaded, Call(c, i) PROVE CallInv'
  BY <1>3, CallKeeps
<1>4. ASSUME NEW c \in Callers, Enter(c) \/ FindNothing(c) PROVE CallInv'
  BY <1>4, EnterKeeps
<1>5. ASSUME NEW c \in Callers, Import(c) PROVE CallInv'
  BY <1>5, ImportKeeps
<1>6. ASSUME NEW c \in Callers, Trap(c) \/ RemoteFails(c) PROVE CallInv'
  BY <1>6, BlameKeeps DEF Trap, RemoteFails
<1>7. ASSUME NEW c \in Callers, RemoteReturns(c) PROVE CallInv'
  BY <1>7, ParkKeeps DEF RemoteReturns
<1>8. ASSUME NEW c \in Callers, Return(c) \/ Unwind(c) PROVE CallInv'
  BY <1>8, EndKeeps
<1>9. ASSUME NEW c \in Callers, Cancel(c) PROVE CallInv'
  BY <1>9, CancelKeeps
<1> QED
  BY <1>1, <1>2, <1>3, <1>4, <1>5, <1>6, <1>7, <1>8, <1>9 DEF Next

\* Calls nest, queue and end as CallInv says, whatever is loaded meanwhile.
LEMMA CallsAreSteady == Spec => []CallInv
BY CallInvInitially, CallInvKept, PTL DEF Spec

-----------------------------------------------------------------------------
(* What follows from the lines.                                            *)

\* Two components are in one store exactly when a plan, or a chain of plans,
\* says that they must be (assign_groups), while calls go on.
THEOREM OnlyTheBoundShareAStore == Spec => []TogetherOnlyIfBound
BY CallsAreSteady, TogetherFollows, PTL DEF CallInv

\* CannotShareStore is answered exactly to a plan that would join two stores.
THEOREM OnlyTwoStoresAreRefused == Spec => []RefusedOnlyForTwoStores
BY CallsAreSteady, RefusedFollows, PTL DEF CallInv

\* Guest calls within a store are serial: whoever is in it has its lock, taken
\* where the call asked for it or below.
THEOREM CallsWithinAStoreAreSerial == Spec => []InsideHoldsTheStore
<1>1. CallInv => InsideHoldsTheStore
  <2> SUFFICES ASSUME CallInv, NEW c \in Callers, NEW d \in DOMAIN stack[c], stack[c][d].phase # "locking"
               PROVE  LET line == queue[GroupOf(stack[c][d])]
                      IN  line # <<>> /\ Head(line).caller = c /\ Head(line).depth <= d
    BY DEF InsideHoldsTheStore
  <2>1. HostTypes /\ LinksFit /\ Stacks(stack) /\ Queues(queue, stack)
    BY DEF CallInv, LinkerInv
  <2> DEFINE line == queue[GroupOf(stack[c][d])]
  <2>2. line # <<>> /\ line[1].caller = c /\ line[1].depth <= d
    BY <2>1, InsideIsFirst
  <2>3. GroupOf(stack[c][d]) \in 1..stores
    BY <2>1, FrameIs
  <2>4. Head(line) = line[1]
    BY <2>1, <2>2, <2>3, LineIs
  <2> QED
    BY <2>2, <2>4
<1> QED
  BY <1>1, CallsAreSteady, PTL

\* Whatever a call does, returns, traps or is dropped, no place in a queue
\* outlives the frame that took it.
THEOREM LocksAreGivenUp == Spec => []NoLockIsLost
<1>1. CallInv => NoLockIsLost
  <2> SUFFICES ASSUME CallInv, NEW g \in DOMAIN queue, NEW k \in DOMAIN queue[g]
               PROVE  LET t == queue[g][k]
                      IN  /\ t.depth <= Depth(t.caller)
                          /\ stack[t.caller][t.depth].owns
                          /\ GroupOf(stack[t.caller][t.depth]) = g
                          /\ k > 1 => stack[t.caller][t.depth].phase = "locking"
    BY DEF NoLockIsLost
  <2>1. HostTypes /\ Stacks(stack) /\ Queues(queue, stack)
    BY DEF CallInv, LinkerInv
  <2>2. g \in 1..stores
    BY <2>1 DEF Queues
  <2>3. TurnFits(queue, stack, g, k) /\ queue[g][k] \in Turns
    BY <2>1, <2>2, LineIs DEF Queues
  <2> DEFINE t == queue[g][k]
  <2>4. t.caller \in Callers /\ t.depth \in DOMAIN stack[t.caller]
    BY <2>3 DEF TurnFits, Turns
  <2> HIDE DEF t
  <2>5. t.depth <= Depth(t.caller)
    BY <2>1, <2>4, FrameIs DEF Depth
  <2> QED
    BY <2>3, <2>5 DEF TurnFits, t
<1> QED
  BY <1>1, CallsAreSteady, PTL

-----------------------------------------------------------------------------
(* Deadlocks.                                                              *)

\* A way of edges can be gone on.
LEMMA LeadsOn ==
    ASSUME NEW node, NEW edge
    PROVE  /\ \A m : Leads(node, edge, m, m)
           /\ \A m, n, k : Leads(node, edge, m, n) /\ Leads(node, edge, n, k) => Leads(node, edge, m, k)
           /\ \A e \in edge : e[2] \in node => Leads(node, edge, e[1], e[2])
BY DEF Leads

\* Links, pair by pair: what a component is linked to that is of the host.
LEMMA LinkPairs ==
    ASSUME HostTypes, LinksFit
    PROVE  /\ \A i \in DOMAIN loaded : \A link \in loaded[i].links : link.to # 0 => <<i, link.to>> \in Links
           /\ \A l \in Links : /\ l[1] \in DOMAIN loaded /\ l[2] \in DOMAIN loaded
                               /\ \E link \in loaded[l[1]].links : link.to = l[2] /\ link.to # 0
<1>1. Len(loaded) \in Nat /\ DOMAIN loaded = 1..Len(loaded)
  BY HostIsNumbered DEF Numbered
<1>2. ASSUME NEW i \in DOMAIN loaded, NEW link \in loaded[i].links, link.to # 0
      PROVE  <<i, link.to>> \in Links
  <2>1. <<i, link.to>> \in {i} \X ({l.to : l \in loaded[i].links} \ {0})
    BY <1>2
  <2> QED
    BY <2>1 DEF Links
<1>3. ASSUME NEW l \in Links
      PROVE  /\ l[1] \in DOMAIN loaded /\ l[2] \in DOMAIN loaded
             /\ \E link \in loaded[l[1]].links : link.to = l[2] /\ link.to # 0
  <2>1. PICK i \in DOMAIN loaded : l \in {i} \X ({link.to : link \in loaded[i].links} \ {0})
    BY DEF Links
  <2>2. l[1] = i /\ l[2] \in {link.to : link \in loaded[i].links} \ {0}
    BY <2>1
  <2>3. PICK link \in loaded[i].links : l[2] = link.to /\ link.to # 0
    BY <2>2
  <2>4. LinkFits(i, link)
    BY DEF LinksFit
  <2>5. link.to \in 1..(i - 1)
    BY <2>3, <2>4 DEF LinkFits
  <2> QED
    BY <1>1, <2>2, <2>3, <2>5
<1> QED
  BY <1>2, <1>3

\* A frame is at a component that the one below is linked to, in another store
\* if it asked for it.
LEMMA FramesCall ==
    ASSUME HostTypes, LinksFit, NEW st, Stacks(st), NEW c \in Callers, NEW d \in DOMAIN st[c], d > 1
    PROVE  LET from == st[c][d - 1]
               to == st[c][d]
           IN  /\ d - 1 \in DOMAIN st[c]
               /\ <<from.at, to.at>> \in Links
               /\ to.owns => GroupOf(from) # GroupOf(to)
               /\ GroupOf(from) # GroupOf(to) => <<GroupOf(from), GroupOf(to)>> \in CallsBetween
<1> DEFINE from == st[c][d - 1]
           to == st[c][d]
<1>1. d - 1 \in DOMAIN st[c]
  BY FrameIs
<1>2. from.at \in DOMAIN loaded /\ to.at \in DOMAIN loaded /\ to.at # 0
  BY <1>1, FrameIs, HostIsNumbered DEF Numbered
<1>3. PICK link \in loaded[from.at].links : link.to = to.at /\ link.kind = IF to.owns THEN "locked" ELSE "direct"
  BY DEF Stacks, StackFits, FrameFits
<1>4. LinkFits(from.at, link)
  BY <1>2 DEF LinksFit
<1> HIDE DEF from, to
<1>5. <<from.at, to.at>> \in Links
  BY <1>2, <1>3, LinkPairs
<1>6. to.owns => GroupOf(from) # GroupOf(to)
  BY <1>3, <1>4 DEF LinkFits, GroupOf
<1>7. ASSUME GroupOf(from) # GroupOf(to) PROVE <<GroupOf(from), GroupOf(to)>> \in CallsBetween
  <2> DEFINE p == <<GroupOf(from), GroupOf(to)>>
             l == <<from.at, to.at>>
  <2>1. p = <<loaded[l[1]].group, loaded[l[2]].group>> /\ p[1] # p[2]
    BY <1>7 DEF GroupOf
  <2>2. p \in {<<loaded[x[1]].group, loaded[x[2]].group>> : x \in Links}
    BY <1>5, <2>1
  <2> QED
    BY <2>1, <2>2 DEF CallsBetween
<1> QED
  BY <1>1, <1>5, <1>6, <1>7 DEF from, to

\* A way of n places, each the one before or an edge further.
LEMMA WaysLead ==
    ASSUME NEW node, NEW edge, NEW n \in Nat, NEW way, NEW b \in 1..n, NEW d \in 1..n, b <= d,
           \A k \in 2..n : way[k] = way[k - 1] \/ (way[k] \in node /\ \E e \in edge : e[1] = way[k - 1] /\ e[2] = way[k])
    PROVE  Leads(node, edge, way[b], way[d])
<1> DEFINE Way(k) == Leads(node, edge, way[b], way[k])
           T == {k \in 0..n : k < b \/ Way(k)}
<1>1. 0 \in T
  OBVIOUS
<1>2. ASSUME NEW k \in 1..n, k - 1 \in T PROVE k \in T
  <2>1. k \in 0..n
    OBVIOUS
  <2>2. CASE k < b
    BY <2>1, <2>2
  <2>3. CASE k = b
    BY <2>1, <2>3, LeadsOn
  <2>4. CASE k > b
    <3>1. k \in 2..n /\ ~(k - 1 < b)
      BY <2>4
    <3>2. Way(k - 1)
      BY <1>2, <3>1
    <3>3. Leads(node, edge, way[k - 1], way[k])
      <4>1. CASE way[k] = way[k - 1]
        BY <4>1, LeadsOn
      <4>2. CASE way[k] # way[k - 1]
        <5>1. PICK e \in edge : e[1] = way[k - 1] /\ e[2] = way[k] /\ e[2] \in node
          BY <3>1, <4>2
        <5>2. Leads(node, edge, e[1], e[2])
          BY <5>1, LeadsOn
        <5> QED
          BY <5>1, <5>2
      <4> QED
        BY <4>1, <4>2
    <3>4. Way(k)
      BY <3>2, <3>3, LeadsOn
    <3> QED
      BY <2>1, <3>4
  <2> QED
    BY <2>1, <2>2, <2>3, <2>4
<1>3. \A k \in 1..n : k - 1 \in T => k \in T
  BY <1>2
<1>4. 0..n \subseteq T
  <2> HIDE DEF T
  <2> QED
    BY <1>1, <1>3, Climb
<1>5. d \in 0..n /\ ~(d < b)
  OBVIOUS
<1> QED
  BY <1>4, <1>5

\* Calls go from store to store, and from component to component, as the frames
\* of a stack do.
LEMMA FramesLead ==
    ASSUME HostTypes, LinksFit, NEW st, Stacks(st), NEW c \in Callers,
           NEW b \in DOMAIN st[c], NEW d \in DOMAIN st[c], b <= d
    PROVE  /\ Leads(1..stores, CallsBetween, GroupOf(st[c][b]), GroupOf(st[c][d]))
           /\ \A edge : Links \subseteq edge => Leads(DOMAIN loaded, edge, st[c][b].at, st[c][d].at)
<1> DEFINE n == Len(st[c])
           group == [k \in 1..n |-> GroupOf(st[c][k])]
           at == [k \in 1..n |-> st[c][k].at]
<1>1. n \in Nat /\ DOMAIN st[c] = 1..n /\ b \in 1..n /\ d \in 1..n
  BY FrameIs
<1>2. ASSUME NEW k \in 2..n
      PROVE  /\ k \in 1..n /\ k - 1 \in 1..n
             /\ <<at[k - 1], at[k]>> \in Links /\ at[k] \in DOMAIN loaded
             /\ group[k] \in 1..stores
             /\ group[k - 1] # group[k] => <<group[k - 1], group[k]>> \in CallsBetween
  <2>1. k \in DOMAIN st[c] /\ k > 1 /\ k \in 1..n /\ k - 1 \in 1..n
    BY <1>1
  <2>2. /\ <<st[c][k - 1].at, st[c][k].at>> \in Links
        /\ GroupOf(st[c][k - 1]) # GroupOf(st[c][k]) => <<GroupOf(st[c][k - 1]), GroupOf(st[c][k])>> \in CallsBetween
    BY <2>1, FramesCall
  <2>3. st[c][k].at \in DOMAIN loaded /\ GroupOf(st[c][k]) \in 1..stores
    BY <2>1, FrameIs
  <2> QED
    BY <2>1, <2>2, <2>3
<1>3. group[b] = GroupOf(st[c][b]) /\ group[d] = GroupOf(st[c][d]) /\ at[b] = st[c][b].at /\ at[d] = st[c][d].at
  BY <1>1
<1> HIDE DEF group, at, n
<1>4. Leads(1..stores, CallsBetween, group[b], group[d])
  <2>1. \A k \in 2..n : group[k] = group[k - 1] \/
           (group[k] \in 1..stores /\ \E e \in CallsBetween : e[1] = group[k - 1] /\ e[2] = group[k])
    <3> SUFFICES ASSUME NEW k \in 2..n, group[k] # group[k - 1]
                 PROVE  group[k] \in 1..stores /\ \E e \in CallsBetween : e[1] = group[k - 1] /\ e[2] = group[k]
      OBVIOUS
    <3> DEFINE e == <<group[k - 1], group[k]>>
    <3>1. e \in CallsBetween /\ e[1] = group[k - 1] /\ e[2] = group[k]
      BY <1>2
    <3> QED
      BY <1>2, <3>1
  <2> QED
    BY <1>1, <2>1, WaysLead
<1>5. ASSUME NEW edge, Links \subseteq edge PROVE Leads(DOMAIN loaded, edge, at[b], at[d])
  <2>1. \A k \in 2..n : at[k] = at[k - 1] \/
           (at[k] \in DOMAIN loaded /\ \E e \in edge : e[1] = at[k - 1] /\ e[2] = at[k])
    <3> SUFFICES ASSUME NEW k \in 2..n
                 PROVE  at[k] \in DOMAIN loaded /\ \E e \in edge : e[1] = at[k - 1] /\ e[2] = at[k]
      OBVIOUS
    <3> DEFINE e == <<at[k - 1], at[k]>>
    <3>1. e \in edge /\ e[1] = at[k - 1] /\ e[2] = at[k]
      BY <1>2, <1>5
    <3> QED
      BY <1>2, <3>1
  <2> QED
    BY <1>1, <2>1, WaysLead
<1> QED
  BY <1>3, <1>4, <1>5

\* The store a call waits for leads to the one that its holder waits for, and if
\* stores call each other in no cycle, there is no way back.
LEMMA HolderWaitsFurther ==
    ASSUME CallInv, NEW waiting \in SUBSET Callers, Deadlocked(waiting), NEW c \in waiting,
           \A e \in CallsBetween : ~Leads(1..stores, CallsBetween, e[2], e[1])
    PROVE  \E h \in waiting :
              /\ Leads(1..stores, CallsBetween, GroupOf(Top(c)), GroupOf(Top(h)))
              /\ ~Leads(1..stores, CallsBetween, GroupOf(Top(h)), GroupOf(Top(c)))
<1> DEFINE Way(x, y) == Leads(1..stores, CallsBetween, x, y)
           g == GroupOf(Top(c))
           line == queue[g]
           t == line[1]
           h == t.caller
           d == t.depth
           n == Depth(h)
<1>1. HostTypes /\ LinksFit /\ Stacks(stack) /\ Queues(queue, stack)
  BY DEF CallInv, LinkerInv
<1>2. ASSUME NEW x \in waiting
      PROVE  /\ x \in Callers /\ Top(x).phase = "locking" /\ ~Holds(x, Depth(x))
             /\ Head(queue[GroupOf(Top(x))]).caller \in waiting
             /\ Depth(x) \in Nat /\ DOMAIN stack[x] = 1..Depth(x) /\ Depth(x) \in DOMAIN stack[x]
             /\ GroupOf(Top(x)) \in 1..stores /\ Top(x) = stack[x][Depth(x)] /\ Top(x).owns
  <2>1. x \in Callers /\ TopIs(x, "locking") /\ ~Holds(x, Depth(x)) /\ Head(queue[GroupOf(Top(x))]).caller \in waiting
    BY DEF Deadlocked
  <2>2. stack[x] # <<>>
    BY <2>1, TopIsInCall
  <2>3. /\ Depth(x) \in Nat /\ DOMAIN stack[x] = 1..Depth(x) /\ Depth(x) \in DOMAIN stack[x]
        /\ GroupOf(Top(x)) \in 1..stores /\ FrameFits(stack[x], Depth(x))
    BY <2>1, <2>2, InCall
  <2>4. Top(x).phase = "locking"
    BY <2>1 DEF TopIs
  <2> QED
    BY <2>1, <2>3, <2>4 DEF Top, FrameFits
<1>3. g \in 1..stores /\ c \in Callers
  BY <1>2
<1>4. line # <<>>
  <2>1. Top(c).owns /\ Depth(c) \in DOMAIN stack[c] /\ Top(c) = stack[c][Depth(c)]
    BY <1>2
  <2>2. HasTurn(queue, stack, c, Depth(c))
    BY <1>1, <1>3, <2>1 DEF Queues
  <2>3. \E k \in DOMAIN line : TRUE
    BY <2>1, <2>2 DEF HasTurn
  <2> QED
    BY <2>3
<1>5. Head(line) = t /\ t \in Turns /\ TurnFits(queue, stack, g, 1)
  <2>1. 1 \in DOMAIN line /\ Head(line) = t
    BY <1>1, <1>3, <1>4, LineIs
  <2> QED
    BY <1>1, <1>3, <2>1, LineIs DEF Queues
<1>6. h \in waiting /\ h \in Callers
  BY <1>2, <1>5
<1>7. d \in DOMAIN stack[h] /\ GroupOf(stack[h][d]) = g /\ t = Turn(h, d)
  BY <1>5 DEF TurnFits, Turns, Turn
<1> HIDE DEF g, line, t, h, d, n
<1>8. /\ n \in Nat /\ DOMAIN stack[h] = 1..n /\ n \in DOMAIN stack[h] /\ Top(h) = stack[h][n]
      /\ Top(h).owns /\ ~Holds(h, n) /\ GroupOf(Top(h)) \in 1..stores
  BY <1>2, <1>6 DEF n
<1>9. d # n
  BY <1>4, <1>5, <1>7, <1>8 DEF Holds, line
<1>10. d <= n - 1 /\ n - 1 \in DOMAIN stack[h] /\ n > 1
  BY <1>7, <1>8, <1>9
<1> DEFINE last == GroupOf(stack[h][n - 1])
           e == <<last, GroupOf(Top(h))>>
<1>11. Way(g, last)
  <2>1. Leads(1..stores, CallsBetween, GroupOf(stack[h][d]), last)
    BY <1>1, <1>6, <1>7, <1>10, FramesLead
  <2> QED
    BY <1>7, <2>1
<1>12. e \in CallsBetween /\ e[1] = last /\ e[2] = GroupOf(Top(h)) /\ e[2] \in 1..stores
  <2>1. last # GroupOf(stack[h][n]) /\ <<last, GroupOf(stack[h][n])>> \in CallsBetween
    BY <1>1, <1>6, <1>8, <1>10, FramesCall
  <2> QED
    BY <1>8, <2>1
<1> HIDE DEF last, e
<1>13. Way(last, GroupOf(Top(h))) /\ ~Way(GroupOf(Top(h)), last)
  <2>1. Way(e[1], e[2]) /\ ~Way(e[2], e[1])
    BY <1>12, LeadsOn
  <2> QED
    BY <1>12, <2>1
<1>14. Way(g, GroupOf(Top(h)))
  BY <1>11, <1>13, LeadsOn
<1>15. ~Way(GroupOf(Top(h)), g)
  BY <1>11, <1>13, LeadsOn
<1> QED
  BY <1>6, <1>14, <1>15 DEF g

\* Only if the calls between stores make a cycle can calls wait for each other,
\* or one for itself.
THEOREM OnlyCyclicStoresDeadlock == Spec => []DeadlockNeedsCyclicStores
<1>1. CallInv => DeadlockNeedsCyclicStores
  <2> SUFFICES ASSUME CallInv, NEW waiting \in SUBSET Callers, Deadlocked(waiting),
                      \A e \in CallsBetween : ~Leads(1..stores, CallsBetween, e[2], e[1])
               PROVE  FALSE
    BY DEF DeadlockNeedsCyclicStores
  <2> DEFINE N == 1..stores
             Way(x, y) == Leads(N, CallsBetween, x, y)
             g(c) == GroupOf(Top(c))
             From(c) == {x \in N : Way(g(c), x)}
             F == {From(c) : c \in waiting}
  <2>1. \A c \in waiting : \E h \in waiting : Way(g(c), g(h)) /\ ~Way(g(h), g(c))
    BY HolderWaitsFurther
  <2>2. \A c \in waiting : g(c) \in N
    <3>1. ASSUME NEW c \in waiting PROVE g(c) \in N
      <4>1. TopIs(c, "locking")
        BY DEF Deadlocked
      <4>2. stack[c] # <<>>
        BY <4>1, TopIsInCall
      <4> QED
        BY <4>2, InCall
    <3> QED
      BY <3>1
  <2>3. F \subseteq FiniteSubsetsOf(N)
    <3>1. IsFiniteSet(N)
      <4>1. stores \in Int /\ 1 \in Int
        BY DEF CallInv, LinkerInv, HostTypes
      <4> QED
        BY <4>1, FS_Interval
    <3>2. FiniteSubsetsOf(N) = SUBSET N
      BY <3>1, FS_FiniteSubsetsOfFinite
    <3> QED
      BY <3>2
  <2>4. F # {}
    BY DEF Deadlocked
  <2>5. PICK X \in F : \A Y \in F : ~ (<<Y, X>> \in StrictSubsetOrdering(N))
    <3> HIDE DEF F, N
    <3> QED
      BY <2>3, <2>4, FS_StrictSubsetOrderingWellFounded, WFMin
  <2>6. PICK c \in waiting : X = From(c)
    OBVIOUS
  <2>7. PICK h \in waiting : Way(g(c), g(h)) /\ ~Way(g(h), g(c))
    BY <2>1
  <2>8. From(h) \subseteq From(c)
    BY <2>7, LeadsOn
  <2>9. g(c) \in From(c) /\ g(c) \notin From(h)
    BY <2>2, <2>7, LeadsOn
  <2>10. <<From(h), From(c)>> \in StrictSubsetOrdering(N)
    <3> DEFINE A == From(h)
               B == From(c)
    <3>1. A \subseteq B /\ A # B /\ A \subseteq N /\ B \subseteq N
      BY <2>8, <2>9
    <3>2. <<A, B>> \in StrictSubsetOrdering(N)
      <4> HIDE DEF A, B, N
      <4> QED
        BY <3>1 DEF StrictSubsetOrdering
    <3> QED
      BY <3>2
  <2> QED
    BY <2>5, <2>6, <2>10
<1> QED
  BY <1>1, CallsAreSteady, PTL

-----------------------------------------------------------------------------
(* Traps.                                                                  *)

\* Whether a component that trapped is to be reached.
Reaches(i) == \E t \in blamed : Leads(DOMAIN loaded, bonds \cup Links, i, t)

\* A frame ends with a trap if one is to be reached from it, and was refused
\* entry for that its store is poisoned, or by func_of.
FailFits(frame, d) ==
    /\ frame.phase = "traps" => Reaches(frame.at)
    /\ frame.phase = "refused" /\ d > 1 => GroupOf(frame) \in poisoned

TrapInv ==
    /\ CallInv
    /\ TrapIsContained
    /\ \A c \in Callers : \A d \in DOMAIN stack[c] : FailFits(stack[c][d], d)

\* Who trapped is reached, and by whom shares a store with one that reaches it,
\* or imports one.
TrapsAreReached ==
    /\ \A i \in DOMAIN loaded : i \in blamed => Reaches(i)
    /\ \A i, j \in DOMAIN loaded :
          Reaches(j) /\ (<<i, j>> \in Links \/ loaded[i].group = loaded[j].group) => Reaches(i)

\* A trap is reached from where it happened, from whatever is linked to what it is
\* reached from, and throughout a store.
LEMMA Reaching == LinkerInv => TrapsAreReached
<1> SUFFICES ASSUME LinkerInv PROVE TrapsAreReached
  OBVIOUS
<1>1. \A i \in DOMAIN loaded : i \in blamed => Reaches(i)
  BY LeadsOn DEF Reaches
<1>2. ASSUME NEW i \in DOMAIN loaded, NEW j \in DOMAIN loaded, Reaches(j),
             <<i, j>> \in Links \/ loaded[i].group = loaded[j].group
      PROVE  Reaches(i)
  <2> DEFINE edge == bonds \cup Links
             e == <<i, j>>
  <2>1. e \in edge /\ e[1] = i /\ e[2] = j
    BY <1>2, TogetherFollows DEF TogetherOnlyIfBound
  <2> HIDE DEF e
  <2>2. Leads(DOMAIN loaded, edge, e[1], e[2])
    BY <2>1, LeadsOn
  <2>3. Leads(DOMAIN loaded, edge, i, j)
    BY <2>1, <2>2
  <2>4. PICK t \in blamed : Leads(DOMAIN loaded, edge, j, t)
    BY <1>2 DEF Reaches
  <2>5. Leads(DOMAIN loaded, edge, i, t)
    BY <2>3, <2>4, LeadsOn
  <2> QED
    BY <2>5 DEF Reaches
<1> QED
  BY <1>1, <1>2 DEF TrapsAreReached

\* With more nodes, and no edge between the old ones less, ways stay.
LEMMA WaysStay ==
    ASSUME NEW node, NEW edge, NEW more, NEW further, node \subseteq more,
           \A e \in edge : e[1] \in node /\ e[2] \in node => \E f \in further : f[1] = e[1] /\ f[2] = e[2],
           NEW m \in node, NEW n, Leads(node, edge, m, n)
    PROVE  Leads(more, further, m, n)
<1> SUFFICES ASSUME NEW S \in SUBSET more, m \in S, \A f \in further : f[1] \in S /\ f[2] \in more => f[2] \in S
             PROVE  n \in S
  BY DEF Leads
<1> DEFINE Old == S \cap node
<1>1. Old \in SUBSET node /\ m \in Old
  OBVIOUS
<1>2. \A e \in edge : e[1] \in Old /\ e[2] \in node => e[2] \in Old
  <2> SUFFICES ASSUME NEW e \in edge, e[1] \in Old, e[2] \in node PROVE e[2] \in Old
    OBVIOUS
  <2>1. PICK f \in further : f[1] = e[1] /\ f[2] = e[2]
    OBVIOUS
  <2> QED
    BY <2>1
<1> HIDE DEF Old
<1>3. n \in Old
  BY <1>1, <1>2 DEF Leads
<1> QED
  BY <1>3 DEF Old

\* What is loaded stays, and who reached a trap still does.
LEMMA ReachesStays ==
    ASSUME LinkerInv, LinkerInv', DOMAIN loaded \subseteq DOMAIN loaded',
           \A i \in DOMAIN loaded : loaded'[i] = loaded[i], blamed \subseteq blamed'
    PROVE  \A i \in DOMAIN loaded : Reaches(i) => Reaches(i)'
<1> DEFINE node == DOMAIN loaded
           edge == bonds \cup Links
           more == DOMAIN loaded'
           further == bonds' \cup Links'
<1>1. TogetherOnlyIfBound /\ TogetherOnlyIfBound'
  <2>1. LinkerInv' => TogetherOnlyIfBound'
    BY TogetherFollows, PTL
  <2> QED
    BY <2>1, TogetherFollows
<1>2. \A p \in bonds : p = <<p[1], p[2]>>
  BY BondPairs DEF LinkerInv
<1>3. Links \subseteq Links'
  BY DEF Links
<1>4. ASSUME NEW e \in edge, e[1] \in node, e[2] \in node PROVE \E f \in further : f[1] = e[1] /\ f[2] = e[2]
  <2>1. CASE e \in Links
    BY <1>3, <2>1
  <2>2. CASE e \in bonds
    <3> DEFINE x == e[1]
               y == e[2]
               f == <<x, y>>
    <3>1. f \in bonds
      BY <1>2, <2>2
    <3>2. loaded[x].group = loaded[y].group
      BY <1>1, <1>4, <3>1 DEF TogetherOnlyIfBound
    <3>3. loaded'[x].group = loaded'[y].group /\ x \in more /\ y \in more
      BY <1>4, <3>2
    <3>4. f \in bonds'
      BY <1>1, <3>3 DEF TogetherOnlyIfBound
    <3>5. f[1] = e[1] /\ f[2] = e[2]
      OBVIOUS
    <3> HIDE DEF f
    <3> QED
      BY <3>4, <3>5
  <2> QED
    BY <1>4, <2>1, <2>2
<1>5. node \subseteq more
  OBVIOUS
<1> SUFFICES ASSUME NEW i \in node, Reaches(i) PROVE Reaches(i)'
  OBVIOUS
<1>6. PICK t \in blamed : Leads(node, edge, i, t)
  BY DEF Reaches
<1>7. t \in blamed'
  BY <1>6
<1> HIDE DEF node, edge, more, further
<1>8. Leads(more, further, i, t)
  <2>1. \A e \in edge : e[1] \in node /\ e[2] \in node => \E f \in further : f[1] = e[1] /\ f[2] = e[2]
    BY <1>4
  <2> QED
    BY <1>5, <1>6, <2>1, WaysStay
<1> QED
  BY <1>7, <1>8 DEF Reaches, more, further

\* The same, of the state after a step.
LEMMA ReachingNext == LinkerInv' => TrapsAreReached'
BY Reaching, PTL

\* A step of a call is contained if what it poisons reaches a trap, and what it
\* makes fail may.
LEMMA CallsContain ==
    ASSUME TrapInv, CallInv', UNCHANGED <<loaded, bonds>>, poisoned \subseteq poisoned', blamed \subseteq blamed',
           \A i \in DOMAIN loaded : loaded[i].group \in poisoned' \ poisoned => Reaches(i)',
           NEW c \in Callers, \A x \in Callers : x # c => stack'[x] = stack[x],
           \A d \in DOMAIN stack'[c] : \/ d \in DOMAIN stack[c] /\ stack'[c][d] = stack[c][d]
                                       \/ FailFits(stack[c][d], d)'
    PROVE  TrapInv'
<1>1. LinkerInv /\ LinkerInv'
  BY DEF TrapInv, CallInv
<1>2. \A i \in DOMAIN loaded : Reaches(i) => Reaches(i)'
  BY <1>1, ReachesStays
<1>3. \A i \in DOMAIN loaded : loaded[i].group \in poisoned => Reaches(i)
  BY DEF TrapInv, TrapIsContained, Reaches
<1>4. TrapIsContained'
  <2>1. \A i \in DOMAIN loaded' : loaded'[i].group \in poisoned' => Reaches(i)'
    BY <1>2, <1>3
  <2> QED
    BY <2>1 DEF TrapIsContained, Reaches
<1>5. ASSUME NEW x \in Callers, NEW d \in DOMAIN stack'[x] PROVE FailFits(stack[x][d], d)'
  <2>1. CASE d \in DOMAIN stack[x] /\ stack'[x][d] = stack[x][d]
    <3>4. PICK f : f = stack[x][d]
      OBVIOUS
    <3>1. FailFits(f, d) /\ f.at \in DOMAIN loaded
      BY <2>1, <3>4, FrameIs DEF TrapInv, CallInv, LinkerInv
    <3>2. f.phase = "traps" => Reaches(f.at)'
      BY <1>2, <3>1 DEF FailFits
    <3>3. f.phase = "refused" /\ d > 1 => GroupOf(f) \in poisoned'
      BY <3>1 DEF FailFits
    <3> QED
      BY <2>1, <3>2, <3>3, <3>4 DEF FailFits, GroupOf
  <2>2. CASE ~(d \in DOMAIN stack[x] /\ stack'[x][d] = stack[x][d])
    BY <2>2
  <2> QED
    BY <2>1, <2>2
<1> QED
  BY <1>4, <1>5 DEF TrapInv

\* A step of a call after which nothing fails that did not before.
LEMMA NothingFails ==
    ASSUME TrapInv, CallInv', UNCHANGED linkerVars, NEW c \in Callers, \A x \in Callers : x # c => stack'[x] = stack[x],
           \A d \in DOMAIN stack'[c] : \/ d \in DOMAIN stack[c] /\ stack'[c][d] = stack[c][d]
                                       \/ stack'[c][d].phase \notin {"traps", "refused"}
    PROVE  TrapInv'
<1>1. \A d \in DOMAIN stack'[c] : \/ d \in DOMAIN stack[c] /\ stack'[c][d] = stack[c][d]
                                  \/ FailFits(stack[c][d], d)'
  BY DEF FailFits
<1> QED
  BY <1>1, CallsContain DEF linkerVars

\* The frames of a call whose last changes its phase.
LEMMA BecomeLeaves ==
    ASSUME CallInv, NEW c \in Callers, stack[c] # <<>>, NEW p \in Phases, Become(c, p),
           p \in {"locking", "refused"} => Top(c).owns
    PROVE  /\ \A x \in Callers : x # c => stack'[x] = stack[x]
           /\ \A d \in DOMAIN stack'[c] : d \in DOMAIN stack[c] /\ (d # Depth(c) => stack'[c][d] = stack[c][d])
           /\ stack'[c][Depth(c)].at = Top(c).at /\ stack'[c][Depth(c)].phase = p
<1>1. /\ HostTypes /\ Stacks(stack) /\ Len(stack[c]) > 0 /\ Depth(c) \in DOMAIN stack[c]
      /\ Top(c) = stack[c][Len(stack[c])]
  BY InCall DEF Depth
<1>2. stack' = Becoming(stack, c, p)
  BY DEF Become, Becoming, Depth
<1>3. c \in Callers /\ p \in Phases /\ (p \in {"locking", "refused"} => stack[c][Len(stack[c])].owns)
  BY <1>1
<1>4. /\ \A x \in Callers : x # c => stack'[x] = stack[x]
      /\ \A x \in Callers : DOMAIN stack'[x] = DOMAIN stack[x]
      /\ \A x \in Callers : \A d \in DOMAIN stack[x] :
            /\ stack'[x][d].at = stack[x][d].at /\ stack'[x][d].owns = stack[x][d].owns
            /\ x # c \/ d # Len(stack[c]) => stack'[x][d] = stack[x][d]
      /\ stack'[c][Len(stack[c])].phase = p
  BY ONLY <1>1, <1>2, <1>3, BecomeIs
<1> QED
  BY <1>1, <1>4 DEF Depth, Top

\* A call from outside traps nobody.
LEMMA CallContains ==
    ASSUME TrapInv, CallInv', NEW c \in Callers, NEW i \in DOMAIN loaded, Call(c, i)
    PROVE  TrapInv'
<1>1. stack' = [stack EXCEPT ![c] = <<Locking(i)>>] /\ stack \in [Callers -> Seq(Frame)]
  BY DEF Call, TrapInv, CallInv, Stacks
<1>2. stack'[c] = <<Locking(i)>> /\ \A x \in Callers : x # c => stack'[x] = stack[x]
  BY <1>1
<1>3. \A d \in DOMAIN stack'[c] : stack'[c][d] = Locking(i)
  BY <1>2
<1>4. \A d \in DOMAIN stack'[c] : stack'[c][d].phase \notin {"traps", "refused"}
  BY <1>3 DEF Locking
<1> QED
  BY <1>2, <1>4, NothingFails DEF Call

\* Entry is refused because the store is poisoned, or else at the first frame.
LEMMA EnterContains ==
    ASSUME TrapInv, CallInv', NEW c \in Callers, Enter(c) \/ FindNothing(c)
    PROVE  TrapInv'
<1>1. /\ TopIs(c, "locking") /\ UNCHANGED linkerVars
      /\ \/ Become(c, "refused") /\ (GroupOf(Top(c)) \in poisoned \/ Depth(c) = 1)
         \/ Become(c, "running")
  BY DEF Enter, FindNothing
<1>2. CallInv /\ stack[c] # <<>> /\ Top(c).phase = "locking"
  BY <1>1, TopIsInCall DEF TopIs, TrapInv
<1>3. Top(c).owns
  BY <1>2, InCall DEF FrameFits, Top
<1>4. CASE Become(c, "running")
  <2>1. /\ \A x \in Callers : x # c => stack'[x] = stack[x]
        /\ \A d \in DOMAIN stack'[c] : d \in DOMAIN stack[c] /\ (d # Depth(c) => stack'[c][d] = stack[c][d])
        /\ stack'[c][Depth(c)].phase = "running"
    BY <1>2, <1>4, BecomeLeaves DEF Phases
  <2>2. \A d \in DOMAIN stack'[c] : \/ d \in DOMAIN stack[c] /\ stack'[c][d] = stack[c][d]
                                    \/ stack'[c][d].phase \notin {"traps", "refused"}
    BY <2>1
  <2> QED
    BY <1>1, <2>1, <2>2, NothingFails
<1>5. CASE Become(c, "refused") /\ (GroupOf(Top(c)) \in poisoned \/ Depth(c) = 1)
  <2>1. /\ \A x \in Callers : x # c => stack'[x] = stack[x]
        /\ \A d \in DOMAIN stack'[c] : d \in DOMAIN stack[c] /\ (d # Depth(c) => stack'[c][d] = stack[c][d])
        /\ stack'[c][Depth(c)].at = Top(c).at /\ stack'[c][Depth(c)].phase = "refused"
    BY <1>2, <1>3, <1>5, BecomeLeaves DEF Phases
  <2>3. ASSUME NEW d \in DOMAIN stack'[c], d = Depth(c) PROVE FailFits(stack[c][d], d)'
    <3>1. d > 1 => GroupOf(Top(c)) \in poisoned
      BY <1>5, <2>3
    <3>2. UNCHANGED <<loaded, poisoned>>
      BY <1>1 DEF linkerVars
    <3> QED
      BY <2>1, <2>3, <3>1, <3>2 DEF FailFits, GroupOf
  <2>4. \A d \in DOMAIN stack'[c] : \/ d \in DOMAIN stack[c] /\ stack'[c][d] = stack[c][d]
                                    \/ FailFits(stack[c][d], d)'
    BY <2>1, <2>3
  <2> QED
    BY <1>1, <2>1, <2>4, CallsContain DEF linkerVars
<1> QED
  BY <1>1, <1>4, <1>5

\* Waiting for the host's I/O, or going on after it, traps nobody.
LEMMA ParkContains ==
    ASSUME TrapInv, CallInv', NEW c \in Callers, TopIs(c, "running") \/ TopIs(c, "parked"),
           Become(c, "parked") \/ Become(c, "running"), UNCHANGED linkerVars
    PROVE  TrapInv'
<1>1. CallInv /\ stack[c] # <<>>
  BY TopIsInCall DEF TrapInv
<1>2. PICK p \in {"parked", "running"} : Become(c, p)
  OBVIOUS
<1>3. /\ \A x \in Callers : x # c => stack'[x] = stack[x]
      /\ \A d \in DOMAIN stack'[c] : d \in DOMAIN stack[c] /\ (d # Depth(c) => stack'[c][d] = stack[c][d])
      /\ stack'[c][Depth(c)].phase = p
  BY <1>1, <1>2, BecomeLeaves DEF Phases
<1>4. \A d \in DOMAIN stack'[c] : \/ d \in DOMAIN stack[c] /\ stack'[c][d] = stack[c][d]
                                  \/ stack'[c][d].phase \notin {"traps", "refused"}
  BY <1>2, <1>3
<1> QED
  BY <1>3, <1>4, NothingFails

\* Who traps is blamed.
LEMMA BlameContains ==
    ASSUME TrapInv, CallInv', NEW c \in Callers, TopIs(c, "running") \/ TopIs(c, "parked"), Blame(c)
    PROVE  TrapInv'
<1>1. CallInv /\ stack[c] # <<>>
  BY TopIsInCall DEF TrapInv
<1>2. Top(c).at \in DOMAIN loaded
  BY <1>1, InCall
<1>3. /\ \A x \in Callers : x # c => stack'[x] = stack[x]
      /\ \A d \in DOMAIN stack'[c] : d \in DOMAIN stack[c] /\ (d # Depth(c) => stack'[c][d] = stack[c][d])
      /\ stack'[c][Depth(c)].at = Top(c).at /\ stack'[c][Depth(c)].phase = "traps"
  BY <1>1, BecomeLeaves DEF Phases, Blame
<1>4. PICK i \in DOMAIN loaded : i = Top(c).at
  BY <1>2
<1>5. Reaches(i)'
  <2>1. i \in DOMAIN loaded' /\ i \in blamed'
    BY <1>4 DEF Blame
  <2>2. TrapsAreReached'
    BY ReachingNext DEF CallInv
  <2> QED
    BY <2>1, <2>2 DEF TrapsAreReached
<1>6. ASSUME NEW d \in DOMAIN stack'[c], d = Depth(c) PROVE FailFits(stack[c][d], d)'
  BY <1>3, <1>4, <1>5, <1>6 DEF FailFits
<1>7. \A d \in DOMAIN stack'[c] : \/ d \in DOMAIN stack[c] /\ stack'[c][d] = stack[c][d]
                                  \/ FailFits(stack[c][d], d)'
  BY <1>3, <1>6
<1> QED
  BY <1>3, <1>7, CallsContain DEF Blame

\* A call of an import traps nobody but, at worst, its own caller.
LEMMA ImportContains ==
    ASSUME TrapInv, CallInv', NEW c \in Callers, Import(c)
    PROVE  TrapInv'
<1>1. PICK link \in loaded[Top(c).at].links :
         CallWithin(c, link) \/ CallAcross(c, link) \/ CallRemote(c, link) \/ CallStub(c, link)
  BY DEF Import
<1>2. TopIs(c, "running")
  BY DEF Import
<1>3. CASE CallWithin(c, link) \/ CallAcross(c, link)
  <2>1. CallInv /\ Stacks(stack) /\ stack[c] \in Seq(Frame)
    BY FrameIs DEF TrapInv, CallInv, Stacks
  <2>2. PICK f : stack' = [stack EXCEPT ![c] = Append(@, f)] /\ f.phase \notin {"traps", "refused"}
    BY <1>3 DEF CallWithin, CallAcross, Locking
  <2>3. stack'[c] = Append(stack[c], f) /\ \A x \in Callers : x # c => stack'[x] = stack[x]
    BY <2>1, <2>2 DEF Stacks
  <2>4. \A d \in DOMAIN stack'[c] : (d \in DOMAIN stack[c] /\ stack'[c][d] = stack[c][d]) \/ stack'[c][d] = f
    BY <2>1, <2>3
  <2>5. \A d \in DOMAIN stack'[c] : \/ d \in DOMAIN stack[c] /\ stack'[c][d] = stack[c][d]
                                    \/ stack'[c][d].phase \notin {"traps", "refused"}
    BY <2>2, <2>4
  <2>6. UNCHANGED linkerVars
    BY <1>3 DEF CallWithin, CallAcross
  <2> QED
    BY <2>3, <2>5, <2>6, NothingFails
<1>4. CASE CallRemote(c, link)
  BY <1>2, <1>4, ParkContains DEF CallRemote
<1>5. CASE CallStub(c, link)
  BY <1>2, <1>5, BlameContains DEF CallStub
<1> QED
  BY <1>1, <1>3, <1>4, <1>5

\* A call that returns traps nobody.
LEMMA ReturnContains ==
    ASSUME TrapInv, CallInv', NEW c \in Callers, Return(c)
    PROVE  TrapInv'
<1>1. CallInv /\ stack[c] # <<>>
  BY TopIsInCall DEF TrapInv, Return
<1>2. HostTypes /\ Stacks(stack)
  BY <1>1, InCall
<1>3. stack' = Popping(stack, c) /\ UNCHANGED linkerVars
  BY DEF Return, Popping
<1>4. /\ \A x \in Callers : x # c => stack'[x] = stack[x]
      /\ Len(stack[c]) \in Nat \ {0} /\ DOMAIN stack'[c] = 1..(Len(stack[c]) - 1)
  BY <1>1, <1>2, <1>3, PopIs
<1>5. stack'[c] = SubSeq(stack[c], 1, Len(stack[c]) - 1) /\ stack[c] \in Seq(Frame) /\ DOMAIN stack[c] = 1..Len(stack[c])
  BY <1>2, <1>3, FrameIs DEF Stacks, Pop, Popping
<1>6. \A d \in DOMAIN stack'[c] : d \in DOMAIN stack[c] /\ stack'[c][d] = stack[c][d]
  <2> SUFFICES ASSUME NEW d \in DOMAIN stack'[c] PROVE d \in DOMAIN stack[c] /\ stack'[c][d] = stack[c][d]
    OBVIOUS
  <2>1. d \in 1..(Len(stack[c]) - 1) /\ d \in 1..Len(stack[c])
    BY <1>4
  <2> QED
    BY <1>4, <1>5, <2>1
<1> QED
  BY <1>3, <1>4, <1>6, NothingFails

\* A failure reaches who called, which so reaches the trap that it came from.
LEMMA UnwindContains ==
    ASSUME TrapInv, CallInv', NEW c \in Callers, Unwind(c)
    PROVE  TrapInv'
<1> DEFINE n == Len(stack[c])
<1>1. CallInv /\ stack[c] # <<>> /\ (Top(c).phase = "traps" \/ Top(c).phase = "refused")
  BY TopIsInCall DEF TrapInv, Unwind, TopIs
<1>2. /\ HostTypes /\ LinksFit /\ Stacks(stack) /\ n \in DOMAIN stack[c] /\ Top(c) = stack[c][n]
      /\ Top(c).at \in DOMAIN loaded
  BY <1>1, InCall DEF Depth
<1>3. /\ stack' = Failing(stack, c)
      /\ poisoned' = IF Top(c).phase = "traps" THEN poisoned \cup {GroupOf(Top(c))} ELSE poisoned
      /\ UNCHANGED <<stores, loaded, plan, assigned, base, bonds, blamed>>
  <2>1. TopIs(c, "traps") <=> Top(c).phase = "traps"
    BY <1>1, InCall DEF TopIs
  <2> QED
    BY <2>1 DEF Unwind, Failing
<1>4. /\ \A x \in Callers : x # c => stack'[x] = stack[x]
      /\ n \in Nat \ {0} /\ DOMAIN stack'[c] = 1..(n - 1)
      /\ \A d \in 1..(n - 1) :
            /\ stack'[c][d].at = stack[c][d].at
            /\ d < n - 1 => stack'[c][d] = stack[c][d]
            /\ stack'[c][d] = stack[c][d] \/ stack'[c][d].phase = "traps"
  BY <1>1, <1>2, <1>3, PopIs
<1>5. TrapsAreReached /\ LinkerInv /\ LinkerInv'
  BY <1>1, Reaching DEF CallInv
<1>6. FailFits(Top(c), n)
  BY <1>2 DEF TrapInv
<1>7. Top(c).phase = "traps" \/ n > 1 => Reaches(Top(c).at)
  <2>1. CASE Top(c).phase = "traps"
    BY <1>6, <2>1 DEF FailFits
  <2>2. CASE Top(c).phase = "refused" /\ n > 1
    <3>1. loaded[Top(c).at].group \in poisoned
      BY <1>6, <2>2 DEF FailFits, GroupOf
    <3> QED
      BY <1>2, <3>1 DEF TrapInv, TrapIsContained, Reaches
  <2> QED
    BY <1>1, <2>1, <2>2
<1>8. \A i \in DOMAIN loaded : Reaches(i) => Reaches(i)'
  BY <1>3, <1>5, ReachesStays
<1>9. \A i \in DOMAIN loaded : loaded[i].group \in poisoned' \ poisoned => Reaches(i)'
  <2> SUFFICES ASSUME NEW i \in DOMAIN loaded, loaded[i].group \in poisoned' \ poisoned PROVE Reaches(i)'
    OBVIOUS
  <2>1. Top(c).phase = "traps" /\ loaded[i].group = loaded[Top(c).at].group
    BY <1>3 DEF GroupOf
  <2>2. Reaches(i)
    BY <1>2, <1>5, <1>7, <2>1 DEF TrapsAreReached
  <2> QED
    BY <1>8, <2>2
<1> HIDE DEF n
<1>10. ASSUME NEW d \in DOMAIN stack'[c], d = n - 1 PROVE FailFits(stack[c][d], d)'
  <2>1. d \in 1..(n - 1) /\ n > 1 /\ n - 1 \in DOMAIN stack[c] /\ (n - 1) < n
    BY <1>2, <1>4, <1>10, FrameIs DEF n
  <2>2. <<stack[c][n - 1].at, stack[c][n].at>> \in Links /\ stack[c][n - 1].at \in DOMAIN loaded
    BY <1>2, <2>1, FramesCall, FrameIs
  <2>3. PICK i \in DOMAIN loaded : i = stack[c][n - 1].at
    BY <2>2
  <2>4. Reaches(i)
    BY <1>2, <1>5, <1>7, <2>1, <2>2, <2>3 DEF TrapsAreReached
  <2>5. Reaches(i)'
    BY <1>8, <2>4
  <2>6. stack'[c][d].at = i
    BY <1>4, <1>10, <2>1, <2>3
  <2>7. stack'[c][d].phase # "refused"
    <3>1. FrameFits(stack[c], n - 1) /\ n = Len(stack[c])
      BY <1>2, <2>1 DEF Stacks, StackFits, n
    <3>2. stack[c][n - 1].phase = "running"
      BY <2>1, <3>1 DEF FrameFits
    <3> QED
      BY <1>4, <1>10, <2>1, <3>2
  <2> QED
    BY <2>5, <2>6, <2>7 DEF FailFits
<1>11. \A d \in DOMAIN stack'[c] : \/ d \in DOMAIN stack[c] /\ stack'[c][d] = stack[c][d]
                                   \/ FailFits(stack[c][d], d)'
  <2> SUFFICES ASSUME NEW d \in DOMAIN stack'[c], d # n - 1 PROVE d \in DOMAIN stack[c] /\ stack'[c][d] = stack[c][d]
    BY <1>10
  <2>1. d \in 1..(n - 1) /\ d < n - 1 /\ d \in 1..n
    BY <1>4
  <2>2. DOMAIN stack[c] = 1..n
    BY <1>2, FrameIs DEF n
  <2> QED
    BY <1>4, <2>1, <2>2
<1>12. poisoned \subseteq poisoned' /\ blamed \subseteq blamed'
  BY <1>3
<1> QED
  BY <1>3, <1>4, <1>9, <1>11, <1>12, CallsContain

\* A call that is dropped was in the frames below its last, and may have been in
\* that; whoever it was in calls where it was.
LEMMA CancelContains ==
    ASSUME TrapInv, CallInv', NEW c \in Callers, Cancel(c)
    PROVE  TrapInv'
<1> DEFINE n == Len(stack[c])
           In(d) == stack[c][d].phase \notin {"locking", "refused"}
           inside == {d \in DOMAIN stack[c] : In(d)}
<1>1. CallInv /\ stack[c] # <<>>
  BY DEF Cancel, TrapInv
<1>2. HostTypes /\ LinksFit /\ Stacks(stack) /\ LinkerInv /\ LinkerInv'
  BY <1>1 DEF CallInv, LinkerInv
<1>3. /\ stack' = [stack EXCEPT ![c] = <<>>]
      /\ UNCHANGED <<stores, loaded, plan, assigned, base, bonds, calls>>
      /\ \/ UNCHANGED <<poisoned, blamed>>
         \/ /\ poisoned' = poisoned \cup {GroupOf(stack[c][d]) : d \in inside}
            /\ blamed' = blamed \cup {stack[c][d].at : d \in {e \in inside : e + 1 \notin inside}}
  BY DEF Cancel
<1>4. n \in Nat /\ DOMAIN stack[c] = 1..n /\ \A d \in DOMAIN stack[c] : stack[c][d].at \in DOMAIN loaded
  BY <1>2, FrameIs
<1>5. \A d \in 1..n : d < n => In(d)
  <2> SUFFICES ASSUME NEW d \in 1..n, d < n PROVE In(d)
    OBVIOUS
  <2>1. FrameFits(stack[c], d)
    BY <1>2, <1>4 DEF Stacks, StackFits
  <2> QED
    BY <2>1 DEF FrameFits
<1>6. inside \subseteq 1..n
  BY <1>4
<1>7. \A d \in 1..n : d < n => d \in inside
  BY <1>4, <1>5
<1> HIDE DEF inside, n
<1>8. ASSUME NEW d \in inside PROVE \E m \in inside : d <= m /\ m + 1 \notin inside
  <2>1. d \in 1..n /\ d <= n
    BY <1>4, <1>6
  <2>2. CASE n \in inside
    <3>1. n + 1 \notin inside
      BY <1>4, <1>6
    <3> QED
      BY <2>1, <2>2, <3>1
  <2>3. CASE n \notin inside
    <3>1. d <= n - 1 /\ n - 1 \in 1..n /\ n - 1 < n /\ (n - 1) + 1 = n
      BY <1>4, <2>1, <2>3
    <3>2. n - 1 \in inside
      BY <1>7, <3>1
    <3> QED
      BY <2>3, <3>1, <3>2
  <2> QED
    BY <2>2, <2>3
<1>9. ASSUME NEW d \in inside,
             blamed' = blamed \cup {stack[c][e].at : e \in {k \in inside : k + 1 \notin inside}}
      PROVE  \E i \in DOMAIN loaded : i = stack[c][d].at /\ Reaches(i)'
  <2>1. PICK m \in inside : d <= m /\ m + 1 \notin inside
    BY <1>8
  <2>2. d \in DOMAIN stack[c] /\ m \in DOMAIN stack[c]
    BY <1>4, <1>6
  <2>3. PICK t \in blamed' : t = stack[c][m].at
    BY <1>9, <2>1
  <2>4. PICK i \in DOMAIN loaded : i = stack[c][d].at
    BY <1>4, <2>2
  <2>5. Leads(DOMAIN loaded, bonds \cup Links, i, t)
    BY <1>2, <2>1, <2>2, <2>3, <2>4, FramesLead
  <2>6. UNCHANGED <<loaded, bonds, Links>>
    BY <1>3 DEF Links
  <2>7. Reaches(i)'
    BY <2>3, <2>5, <2>6 DEF Reaches
  <2> QED
    BY <2>4, <2>7
<1>10. \A i \in DOMAIN loaded : loaded[i].group \in poisoned' \ poisoned => Reaches(i)'
  <2> SUFFICES ASSUME NEW i \in DOMAIN loaded, loaded[i].group \in poisoned' \ poisoned PROVE Reaches(i)'
    OBVIOUS
  <2>1. PICK d \in inside : loaded[i].group = GroupOf(stack[c][d])
    BY <1>3
  <2>2. PICK j \in DOMAIN loaded : j = stack[c][d].at /\ Reaches(j)'
    BY <1>3, <1>9
  <2>3. loaded'[i].group = loaded'[j].group /\ i \in DOMAIN loaded' /\ j \in DOMAIN loaded'
    BY <1>3, <2>1, <2>2 DEF GroupOf
  <2>4. TrapsAreReached'
    BY <1>2, ReachingNext
  <2> QED
    BY <2>2, <2>3, <2>4 DEF TrapsAreReached
<1>11. stack'[c] = <<>> /\ \A x \in Callers : x # c => stack'[x] = stack[x]
  BY <1>2, <1>3 DEF Stacks
<1>12. poisoned \subseteq poisoned' /\ blamed \subseteq blamed' /\ DOMAIN stack'[c] = {}
  BY <1>3, <1>11
<1> QED
  BY <1>3, <1>10, <1>11, <1>12, CallsContain

\* A plan is loaded while nobody calls.  What it puts into a store that is
\* poisoned is bound to whoever is there; and if a node traps as it starts, it
\* is those bound to it whose store it poisons.
LEMMA InstantiatingContains ==
    ASSUME TrapInv, CallInv', Instantiating
    PROVE  TrapInv'
<1>1. /\ LinkerInv /\ LinkerInv' /\ \A c \in Callers : DOMAIN stack'[c] = {}
      /\ Instantiate
  BY DEF Instantiating, TrapInv, CallInv
<1>2. \A i \in DOMAIN loaded : loaded[i].group \in poisoned => Reaches(i)
  BY DEF TrapInv, TrapIsContained, Reaches
<1>3. TrapsAreReached /\ TrapsAreReached'
  BY <1>1, Reaching, ReachingNext
<1>4. \A i \in DOMAIN loaded' : loaded'[i].group \in poisoned' => Reaches(i)'
  <2>1. CASE UNCHANGED <<loaded, poisoned, blamed>>
    <3>1. \A i \in DOMAIN loaded : Reaches(i) => Reaches(i)'
      BY <1>1, <2>1, ReachesStays
    <3> QED
      BY <1>2, <2>1, <3>1
  <2>2. CASE Load
    <3>1. /\ DOMAIN loaded = 1..Len(loaded) /\ DOMAIN loaded' = 1..(Len(loaded) + 1) /\ Len(loaded) \in Nat
          /\ \A i \in DOMAIN loaded : loaded'[i] = loaded[i]
          /\ loaded'[Len(loaded) + 1] = Loading
          /\ NextGroup = Placed(Len(loaded) + 1) /\ Len(loaded) + 1 \in Present
      BY <1>1, <2>2, LoadAdds
    <3>2. UNCHANGED <<poisoned, blamed>>
      BY <2>2 DEF Load
    <3>3. DOMAIN loaded \subseteq DOMAIN loaded' /\ \A i \in DOMAIN loaded' : i \in DOMAIN loaded \/ i = Len(loaded) + 1
      BY <3>1
    <3>4. \A i \in DOMAIN loaded : Reaches(i) => Reaches(i)'
      BY <1>1, <3>1, <3>2, <3>3, ReachesStays
    <3>5. ASSUME NEW i \in DOMAIN loaded', i = Len(loaded) + 1, loaded'[i].group \in poisoned' PROVE Reaches(i)'
      <4>1. loaded'[i].group = NextGroup /\ i \in Present \ DOMAIN loaded /\ NextGroup = Placed(i)
        BY <3>1, <3>5 DEF Loading
      <4>2. PICK j \in DOMAIN loaded : loaded[j].group = NextGroup
        BY <1>1, <3>2, <3>5, <4>1 DEF LinkerInv, NoneIsSentToPoison
      <4>3. Reaches(j)'
        BY <1>2, <3>2, <3>4, <3>5, <4>1, <4>2
      <4>4. j \in DOMAIN loaded' /\ loaded'[i].group = loaded'[j].group
        BY <3>1, <3>3, <4>1, <4>2
      <4> QED
        BY <1>3, <4>3, <4>4 DEF TrapsAreReached
    <3>6. ASSUME NEW i \in DOMAIN loaded, loaded'[i].group \in poisoned' PROVE Reaches(i)'
      BY <1>2, <3>1, <3>2, <3>4, <3>6
    <3> QED
      BY <3>3, <3>5, <3>6
  <2>3. CASE LoadFails
    <3>1. UNCHANGED <<stores, loaded>> /\ blamed \subseteq blamed'
      BY <2>3 DEF LoadFails
    <3>2. \A i \in DOMAIN loaded : Reaches(i) => Reaches(i)'
      BY <1>1, <3>1, ReachesStays
    <3>3. CASE UNCHANGED <<poisoned, blamed>>
      BY <1>2, <3>1, <3>2, <3>3
    <3>4. CASE /\ poisoned' = poisoned \cup {NextGroup}
               /\ blamed' = blamed \cup {i \in DOMAIN loaded : <<i, Len(loaded) + 1>> \in bonds}
      <4>1. ASSUME NEW i \in DOMAIN loaded, loaded[i].group = NextGroup PROVE Reaches(i)'
        <5>1. /\ Len(loaded) \in Nat /\ DOMAIN loaded = 1..Len(loaded) /\ base \in Nat
              /\ Len(loaded) - base + 1 \in 1..Len(plan) /\ Len(plan) \in Nat
              /\ NextGroup = Placed(Len(loaded) + 1) /\ ~Idle
          BY <1>1, <2>3, NextNodeFits DEF LoadFails
        <5>2. i \in Present /\ Len(loaded) + 1 \in Present
          BY <5>1 DEF Present
        <5>3. Placed(i) = Placed(Len(loaded) + 1)
          BY <4>1, <5>1 DEF Placed
        <5>4. <<i, Len(loaded) + 1>> \in bonds
          BY <1>1, <5>2, <5>3, BondPairs DEF LinkerInv
        <5>5. i \in blamed' /\ i \in DOMAIN loaded'
          BY <3>1, <3>4, <5>4
        <5> QED
          BY <1>3, <5>5 DEF TrapsAreReached
      <4> QED
        BY <1>2, <3>1, <3>2, <3>4, <4>1
    <3> QED
      BY <2>3, <3>3, <3>4 DEF LoadFails
  <2> QED
    BY <1>1, <2>1, <2>2, <2>3 DEF Instantiate, Refuse, Assign, linkerVars
<1>5. TrapIsContained'
  BY <1>4 DEF TrapIsContained, Reaches
<1> QED
  BY <1>1, <1>5 DEF TrapInv

\* Every step keeps traps within the stores that reach one.
LEMMA TrapInvKept == TrapInv /\ [Next]_vars => TrapInv'
<1> SUFFICES ASSUME TrapInv, [Next]_vars PROVE TrapInv'
  OBVIOUS
<1>0. CallInv'
  BY CallInvKept DEF TrapInv
<1>1. CASE UNCHANGED vars
  BY <1>0, <1>1 DEF TrapInv, TrapIsContained, FailFits, Reaches, GroupOf, Links, vars, linkerVars
<1>2. CASE Instantiating
  BY <1>0, <1>2, InstantiatingContains
<1>3. ASSUME NEW c \in Callers, NEW i \in DOMAIN loaded, Call(c, i) PROVE TrapInv'
  BY <1>0, <1>3, CallContains
<1>4. ASSUME NEW c \in Callers, Enter(c) \/ FindNothing(c) PROVE TrapInv'
  BY <1>0, <1>4, EnterContains
<1>5. ASSUME NEW c \in Callers, Import(c) PROVE TrapInv'
  BY <1>0, <1>5, ImportContains
<1>6. ASSUME NEW c \in Callers, Trap(c) \/ RemoteFails(c) PROVE TrapInv'
  BY <1>0, <1>6, BlameContains DEF Trap, RemoteFails
<1>7. ASSUME NEW c \in Callers, RemoteReturns(c) PROVE TrapInv'
  BY <1>0, <1>7, ParkContains DEF RemoteReturns
<1>8. ASSUME NEW c \in Callers, Return(c) PROVE TrapInv'
  BY <1>0, <1>8, ReturnContains
<1>9. ASSUME NEW c \in Callers, Unwind(c) PROVE TrapInv'
  BY <1>0, <1>9, UnwindContains
<1>10. ASSUME NEW c \in Callers, Cancel(c) PROVE TrapInv'
  BY <1>0, <1>10, CancelContains
<1> QED
  BY <1>1, <1>2, <1>3, <1>4, <1>5, <1>6, <1>7, <1>8, <1>9, <1>10 DEF Next

\* A trap is contained: a component can no longer be entered only if it imports,
\* or must share a store with, one that trapped, or one that does, and so on;
\* whether the failure was passed on by imports, or calls were dropped, or more
\* plans were loaded after it.
THEOREM TrapsAreContained == Spec => []TrapIsContained
<1>1. Init => TrapInv
  <2> SUFFICES ASSUME Init PROVE TrapInv
    OBVIOUS
  <2>1. \A c \in Callers : DOMAIN stack[c] = {}
    BY DEF Init
  <2>2. DOMAIN loaded = {}
    BY DEF Init, LinkerInit
  <2> QED
    BY <2>1, <2>2, CallInvInitially DEF TrapInv, TrapIsContained
<1> QED
  BY <1>1, TrapInvKept, PTL DEF Spec, TrapInv
=============================================================================
