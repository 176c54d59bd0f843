----------------------------- MODULE PathTheorems -----------------------------
(***************************************************************************)
(* Lemmas about paths: the cost and the nodes of a path that grows by an   *)
(* edge or is cut to a prefix, and which paths the search reaches.  A cost *)
(* is defined by recursion over the path, so what holds of it is shown by  *)
(* induction on the naturals, in the form NatSetInduction; so is what      *)
(* holds of finite sets of integers.                                       *)
(***************************************************************************)
EXTENDS PathSemantics, SequenceTheorems, FiniteSetTheorems,
        WellFoundedInduction, TLAPS

\* Induction over the naturals, for a set instead of a predicate.
LEMMA NatSetInduction ==
  ASSUME NEW S, 0 \in S, \A n \in Nat : n \in S => n + 1 \in S
  PROVE  Nat \subseteq S
<1> DEFINE T == {n \in Nat : n \notin S}
           Less == {ss \in Nat \X Nat : ss[1] < ss[2]}
<1>1. SUFFICES ASSUME T # {} PROVE FALSE
  OBVIOUS
<1>2. IsWellFoundedOn(Less, Nat)
  BY NatLessThanWellFounded DEF OpToRel
<1>3. PICK n \in T : \A m \in T : <<m, n>> \notin Less
  <2> HIDE DEF Less
  <2> QED
    BY <1>1, <1>2, WFMin
<1>4. n \in Nat /\ n # 0 /\ n - 1 \in Nat
  OBVIOUS
<1>5. n - 1 \in T
  BY <1>4
<1>6. <<n - 1, n>> \in Less
  BY <1>4
<1> QED
  BY <1>3, <1>5, <1>6

\* An element of a set is its largest, or smallest, one.
Largest(S, x) == x \in S /\ \A y \in S : x >= y
Smallest(S, x) == x \in S /\ \A y \in S : x <= y

LEMMA Extremes ==
  ASSUME NEW S, IsFiniteSet(S), S \subseteq Int, S # {}
  PROVE  (\E x : Largest(S, x)) /\ (\E x : Smallest(S, x))
<1> DEFINE HasExtremes(X) == (\E x : Largest(X, x)) /\ (\E x : Smallest(X, x))
           Sizes == {n \in Nat : \A X \in SUBSET S : Cardinality(X) = n => X = {} \/ HasExtremes(X)}
<1>1. 0 \in Sizes
  <2>1. \A X \in SUBSET S : Cardinality(X) = 0 => X = {}
    BY FS_Subset, FS_EmptySet
  <2> HIDE DEF HasExtremes
  <2> QED
    BY <2>1
<1>2. ASSUME NEW n \in Nat, n \in Sizes PROVE n + 1 \in Sizes
  <2>1. ASSUME NEW X \in SUBSET S, Cardinality(X) = n + 1, X # {}
        PROVE  HasExtremes(X)
    <3>1. PICK z \in X : TRUE
      BY <2>1
    <3>2. IsFiniteSet(X) /\ z \in Int
      BY FS_Subset
    <3>3. Cardinality(X \ {z}) = n /\ X \ {z} \in SUBSET S
      <4>1. IsFiniteSet(X \ {z}) /\ Cardinality(X \ {z}) = Cardinality(X) - 1
        BY <3>1, <3>2, FS_RemoveElement
      <4> QED
        BY <2>1, <4>1
    <3>4. CASE X \ {z} = {}
      <4>1. Largest(X, z) /\ Smallest(X, z)
        BY <3>2, <3>4 DEF Largest, Smallest
      <4> QED
        BY <4>1
    <3>5. CASE X \ {z} # {}
      <4>1. PICK a, b : Largest(X \ {z}, a) /\ Smallest(X \ {z}, b)
        <5>1. HasExtremes(X \ {z})
          <6> HIDE DEF HasExtremes
          <6> QED
            BY <1>2, <3>3, <3>5
        <5> QED
          BY <5>1
      <4>2. a \in Int /\ b \in Int /\ a \in X /\ b \in X
        BY <3>3, <4>1 DEF Largest, Smallest
      <4>3. \E x : Largest(X, x)
        <5>1. CASE a >= z
          <6>1. Largest(X, a)
            BY <3>2, <4>1, <4>2, <5>1 DEF Largest
          <6> QED
            BY <6>1
        <5>2. CASE z >= a
          <6>1. \A y \in X \ {z} : a >= y /\ y \in Int
            BY <3>3, <4>1 DEF Largest
          <6>2. Largest(X, z)
            BY <3>2, <4>2, <5>2, <6>1 DEF Largest
          <6> QED
            BY <6>2
        <5> QED
          BY <3>2, <4>2, <5>1, <5>2
      <4>4. \E x : Smallest(X, x)
        <5>1. CASE b <= z
          <6>1. Smallest(X, b)
            BY <3>2, <4>1, <4>2, <5>1 DEF Smallest
          <6> QED
            BY <6>1
        <5>2. CASE z <= b
          <6>1. \A y \in X \ {z} : b <= y /\ y \in Int
            BY <3>3, <4>1 DEF Smallest
          <6>2. Smallest(X, z)
            BY <3>2, <4>2, <5>2, <6>1 DEF Smallest
          <6> QED
            BY <6>2
        <5> QED
          BY <3>2, <4>2, <5>1, <5>2
      <4> QED
        BY <4>3, <4>4
    <3> QED
      BY <3>4, <3>5
  <2>2. n + 1 \in Nat
    OBVIOUS
  <2> HIDE DEF HasExtremes
  <2> QED
    BY <2>1, <2>2
<1>3. Cardinality(S) \in Sizes
  <2>1. Cardinality(S) \in Nat
    BY FS_CardinalityType
  <2> HIDE DEF Sizes
  <2> QED
    BY <1>1, <1>2, <2>1, NatSetInduction
<1> QED
  BY <1>3

\* The accumulated costs of a path (cost_accumulated of its frames) are given
\* by their recursive equation.
LEMMA CostAlongExists ==
  ASSUME NEW q, NEW p, Len(p) \in Nat
  PROVE  CostAlong(q, p) =
           [i \in 0..Len(p) |->
              IF i = 0 THEN 0 ELSE CostAlong(q, p)[i - 1] + EdgeCost(q, p[i].type)]
<1> DEFINE Step(g, i) == IF i = 0 THEN 0 ELSE g[i - 1] + EdgeCost(q, p[i].type)
           S == {n \in Nat : \E g : g = [i \in 0..n |-> Step(g, i)]}
<1>1. 0 \in S
  <2> DEFINE g == [i \in 0..0 |-> 0]
  <2>1. g = [i \in 0..0 |-> Step(g, i)]
    OBVIOUS
  <2> QED
    BY <2>1
<1>2. ASSUME NEW n \in Nat, n \in S PROVE n + 1 \in S
  <2>1. PICK g : g = [i \in 0..n |-> Step(g, i)]
    BY <1>2
  <2> DEFINE h == [i \in 0..n + 1 |-> IF i = n + 1 THEN Step(g, i) ELSE g[i]]
  <2>2. \A i \in 0..n+1 : h[i] = Step(h, i)
    <3> TAKE i \in 0..n+1
    <3>1. CASE i = n + 1
      <4>1. h[i-1] = g[i-1]
        BY <3>1
      <4> QED BY <4>1, <3>1
    <3>2. CASE i # n + 1
      <4>1. h[i] = g[i] /\ (i # 0 => h[i-1] = g[i-1])
        BY <3>2
      <4>2. g[i] = Step(g, i)
        BY <2>1, <3>2
      <4> QED BY <4>1, <4>2
    <3> QED BY <3>1, <3>2
  <2>3. h = [i \in 0..n+1 |-> Step(h, i)]
    BY <2>2
  <2> HIDE DEF h
  <2> QED BY <2>3
<1>3. Nat \subseteq S
  BY <1>1, <1>2, NatSetInduction
<1>4. \E g : g = [i \in 0..Len(p) |-> Step(g, i)]
  BY <1>3
<1> QED
  BY <1>4 DEF CostAlong

\* Edge costs of a well-formed query are integers.
LEMMA EdgeCostType ==
  ASSUME NEW q, IsQuery(q), NEW t
  PROVE  EdgeCost(q, t) \in Int
BY DEF EdgeCost, IsQuery, IsPolicy

\* The accumulated costs of two paths agree as far as their edges do.
LEMMA CostAlongAgrees ==
  ASSUME NEW q, NEW p, NEW r, NEW k \in Nat,
         Len(p) \in Nat, Len(r) \in Nat, k <= Len(p), k <= Len(r),
         \A i \in 1..k : p[i] = r[i]
  PROVE  CostAlong(q, p)[k] = CostAlong(q, r)[k]
<1> DEFINE S == {n \in Nat : n <= k => CostAlong(q, p)[n] = CostAlong(q, r)[n]}
<1>1. 0 \in S
  BY CostAlongExists
<1>2. ASSUME NEW n \in Nat, n \in S PROVE n + 1 \in S
  <2>1. SUFFICES ASSUME n + 1 <= k
                 PROVE  CostAlong(q, p)[n + 1] = CostAlong(q, r)[n + 1]
    OBVIOUS
  <2>2. CostAlong(q, p)[n] = CostAlong(q, r)[n]
    BY <1>2, <2>1
  <2>3. CostAlong(q, p)[n + 1] = CostAlong(q, p)[n] + EdgeCost(q, p[n + 1].type)
    BY <2>1, CostAlongExists
  <2>4. CostAlong(q, r)[n + 1] = CostAlong(q, r)[n] + EdgeCost(q, r[n + 1].type)
    BY <2>1, CostAlongExists
  <2> QED
    BY <2>1, <2>2, <2>3, <2>4
<1>3. Nat \subseteq S
  BY <1>1, <1>2, NatSetInduction
<1> QED
  BY <1>3

\* The accumulated costs along a path are integers.
LEMMA CostAlongType ==
  ASSUME NEW q, IsQuery(q), NEW p, Len(p) \in Nat, NEW k \in 0..Len(p)
  PROVE  CostAlong(q, p)[k] \in Int
<1> DEFINE S == {n \in Nat : n <= Len(p) => CostAlong(q, p)[n] \in Int}
<1>1. 0 \in S
  BY CostAlongExists
<1>2. ASSUME NEW n \in Nat, n \in S PROVE n + 1 \in S
  <2>1. SUFFICES ASSUME n + 1 <= Len(p) PROVE CostAlong(q, p)[n + 1] \in Int
    OBVIOUS
  <2>2. CostAlong(q, p)[n + 1] = CostAlong(q, p)[n] + EdgeCost(q, p[n + 1].type)
    BY <2>1, CostAlongExists
  <2> QED
    BY <1>2, <2>1, <2>2, EdgeCostType
<1>3. Nat \subseteq S
  BY <1>1, <1>2, NatSetInduction
<1> QED
  BY <1>3

\* The search starts with nothing accumulated.
LEMMA PathCostEmpty ==
  ASSUME NEW q
  PROVE  PathCost(q, <<>>) = 0
BY CostAlongExists, EmptySeq DEF PathCost

\* A prefix of a path is a path, with the same edges.
LEMMA PrefixElements ==
  ASSUME NEW S, NEW p \in Seq(S), NEW k \in 0..Len(p)
  PROVE  /\ Prefix(p, k) \in Seq(S)
         /\ Len(Prefix(p, k)) = k
         /\ \A i \in 1..k : Prefix(p, k)[i] = p[i]
         /\ k \in Nat /\ Len(p) \in Nat
BY SubSeqProperties, ElementOfSeq, LenProperties DEF Prefix

\* PathCost of a prefix is what the path had accumulated there.
LEMMA PathCostPrefix ==
  ASSUME NEW q, NEW S, NEW p \in Seq(S), NEW k \in 0..Len(p)
  PROVE  PathCost(q, Prefix(p, k)) = CostAlong(q, p)[k]
<1> DEFINE r == Prefix(p, k)
<1>1. /\ r \in Seq(S)
      /\ Len(r) = k
      /\ \A i \in 1..k : r[i] = p[i]
      /\ k \in Nat /\ Len(p) \in Nat
  BY PrefixElements
<1> HIDE DEF r
<1>2. Len(r) \in Nat /\ k <= Len(r) /\ k <= Len(p)
  BY <1>1
<1>3. CostAlong(q, r)[k] = CostAlong(q, p)[k]
  BY <1>1, <1>2, CostAlongAgrees
<1> QED
  BY <1>1, <1>3 DEF PathCost, r

\* Extending a path adds the cost of the new edge to its accumulated cost.
LEMMA PathCostAppend ==
  ASSUME NEW q, NEW S, NEW p \in Seq(S), NEW e \in S
  PROVE  PathCost(q, Append(p, e)) = PathCost(q, p) + EdgeCost(q, e.type)
<1> DEFINE r == Append(p, e)
           n == Len(p)
<1>1. /\ Len(r) = n + 1
      /\ n \in Nat
      /\ r[n + 1] = e
      /\ \A i \in 1..n : r[i] = p[i]
  BY AppendProperties, LenProperties
<1>2. CostAlong(q, r)[n + 1] = CostAlong(q, r)[n] + EdgeCost(q, e.type)
  <2> HIDE DEF r
  <2> QED BY <1>1, CostAlongExists
<1>3. CostAlong(q, r)[n] = CostAlong(q, p)[n]
  <2> HIDE DEF r
  <2> QED BY <1>1, CostAlongAgrees
<1> QED
  BY <1>1, <1>2, <1>3 DEF PathCost


-----------------------------------------------------------------------------
(***************************************************************************)
(* The nodes of an extended path and of a prefix.                          *)
(***************************************************************************)
LEMMA AppendNodes ==
  ASSUME NEW q, NEW S, NEW p \in Seq(S), NEW e \in S
  PROVE  /\ Len(Append(p, e)) = Len(p) + 1
         /\ \A i \in 0..Len(p) : NodeAt(q, Append(p, e), i) = NodeAt(q, p, i)
         /\ NodeAt(q, Append(p, e), Len(p) + 1) = e.target
         /\ LastNode(q, Append(p, e)) = e.target
         /\ NodesOf(q, Append(p, e)) = NodesOf(q, p) \cup {e.target}
<1> DEFINE r == Append(p, e)
           n == Len(p)
<1>1. /\ n \in Nat
      /\ Len(r) = n + 1
      /\ r[n + 1] = e
      /\ \A i \in 1..n : r[i] = p[i]
  BY AppendProperties, LenProperties
<1> HIDE DEF r
<1>2. \A i \in 0..n : NodeAt(q, r, i) = NodeAt(q, p, i)
  BY <1>1 DEF NodeAt
<1>3. NodeAt(q, r, n + 1) = e.target
  BY <1>1 DEF NodeAt
<1>4. NodesOf(q, r) = NodesOf(q, p) \cup {e.target}
  <2>1. 0..Len(r) = 0..n \cup {n + 1}
    BY <1>1
  <2> QED
    BY <2>1, <1>1, <1>2, <1>3 DEF NodesOf
<1> QED
  BY <1>1, <1>2, <1>3, <1>4 DEF LastNode, r

\* A prefix of a path visits the nodes of the path up to there.
LEMMA PrefixNodes ==
  ASSUME NEW q, NEW S, NEW p \in Seq(S), NEW k \in 0..Len(p)
  PROVE  /\ \A i \in 0..k : NodeAt(q, Prefix(p, k), i) = NodeAt(q, p, i)
         /\ LastNode(q, Prefix(p, k)) = NodeAt(q, p, k)
         /\ NodesOf(q, Prefix(p, k)) = {NodeAt(q, p, i) : i \in 0..k}
<1> DEFINE r == Prefix(p, k)
<1>1. /\ Len(r) = k
      /\ \A i \in 1..k : r[i] = p[i]
      /\ k \in Nat
  BY PrefixElements
<1> HIDE DEF r
<1>2. \A i \in 0..k : NodeAt(q, r, i) = NodeAt(q, p, i)
  BY <1>1 DEF NodeAt
<1> QED
  BY <1>1, <1>2 DEF LastNode, NodesOf, r

\* Prefixes of an extended path are prefixes of the path, or the whole of it.
LEMMA AppendPrefixes ==
  ASSUME NEW S, NEW p \in Seq(S), NEW e \in S
  PROVE  /\ \A i \in 0..Len(p) : Prefix(Append(p, e), i) = Prefix(p, i)
         /\ Prefix(Append(p, e), Len(p)) = p
<1> DEFINE r == Append(p, e)
<1>1. /\ r \in Seq(S)
      /\ Len(r) = Len(p) + 1
      /\ Len(p) \in Nat
      /\ \A i \in 1..Len(p) : r[i] = p[i]
  BY AppendProperties, LenProperties
<1> HIDE DEF r
<1>2. ASSUME NEW i \in 0..Len(p) PROVE Prefix(r, i) = Prefix(p, i)
  <2>0. i \in 0..Len(r) /\ i \in Nat
    BY <1>1
  <2>1. /\ Prefix(r, i) \in Seq(S)
        /\ Len(Prefix(r, i)) = i
        /\ \A j \in 1..i : Prefix(r, i)[j] = r[j]
    BY <1>1, <2>0, PrefixElements
  <2>2. /\ Prefix(p, i) \in Seq(S)
        /\ Len(Prefix(p, i)) = i
        /\ \A j \in 1..i : Prefix(p, i)[j] = p[j]
    BY PrefixElements
  <2> DEFINE u == Prefix(r, i)
             v == Prefix(p, i)
  <2> HIDE DEF u, v
  <2>a. \A j \in 1..i : u[j] = r[j]
    BY <2>1 DEF u
  <2>b. \A j \in 1..i : v[j] = p[j]
    BY <2>2 DEF v
  <2>c. \A j \in 1..i : j \in 1..Len(p)
    BY <2>0, <1>1
  <2>3. \A j \in 1..i : u[j] = v[j]
    BY <2>a, <2>b, <2>c, <1>1
  <2>4. u = v
    BY <2>1, <2>2, <2>3, SeqEqual DEF u, v
  <2> QED
    BY <2>4 DEF u, v
<1>3. Prefix(p, Len(p)) = p
  BY SubSeqFull DEF Prefix
<1> QED
  BY <1>1, <1>2, <1>3 DEF r

\* A prefix grows by the edge that follows it.
LEMMA PrefixSucc ==
  ASSUME NEW S, NEW p \in Seq(S), NEW k \in 0..Len(p) - 1
  PROVE  /\ p[k + 1] \in S
         /\ Prefix(p, k + 1) = Append(Prefix(p, k), p[k + 1])
<1>1. /\ Len(p) \in Nat /\ k \in Nat /\ k + 1 \in 0..Len(p) /\ k \in 0..Len(p)
      /\ k + 1 \in 1..Len(p)
  BY LenProperties
<1>2. p[k + 1] \in S
  BY <1>1, ElementOfSeq
<1> DEFINE r == Prefix(p, k)
           t == Append(r, p[k + 1])
           u == Prefix(p, k + 1)
<1>3. r \in Seq(S) /\ Len(r) = k /\ \A i \in 1..k : r[i] = p[i]
  BY <1>1, PrefixElements
<1>4. u \in Seq(S) /\ Len(u) = k + 1 /\ \A i \in 1..k + 1 : u[i] = p[i]
  BY <1>1, PrefixElements
<1> HIDE DEF r, u
<1>5. /\ t \in Seq(S) /\ Len(t) = k + 1
      /\ t[k + 1] = p[k + 1] /\ \A i \in 1..k : t[i] = r[i]
  BY <1>2, <1>3, AppendProperties
<1> HIDE DEF t
<1>6. \A i \in 1..k + 1 : t[i] = u[i]
  BY <1>1, <1>3, <1>4, <1>5
<1>7. t = u
  BY <1>4, <1>5, <1>6, SeqEqual
<1> QED
  BY <1>2, <1>7 DEF t, u, r

-----------------------------------------------------------------------------
(***************************************************************************)
(* The search reaches the children of a frame, and only those.             *)
(***************************************************************************)
\* The search reaches its source, where the root frame stands.
LEMMA ReachableRoot ==
  ASSUME NEW E, NEW q, MaxHops(q) \in Nat
  PROVE  Reachable(E, q, <<>>)
BY EmptySeq DEF Reachable, Chained, Simple, Permitted

\* An edge the search follows (lines 193-207 of pathfinder.py) from a reachable
\* frame leads to a reachable frame.
LEMMA ReachableChild ==
  ASSUME NEW E, NEW q, NEW p, Reachable(E, q, p), MaxHops(q) \in Int,
         NEW e \in E, e.source = LastNode(q, p), e.type \in q.types,
         e.target \notin NodesOf(q, p), Len(p) < MaxHops(q),
         WithinBudget(q, PathCost(q, p)), LastNode(q, p) # q.target
  PROVE  Reachable(E, q, Append(p, e))
<1> DEFINE r == Append(p, e)
           n == Len(p)
<1>1. p \in Seq(E) /\ n \in Nat
  BY LenProperties DEF Reachable
<1>2. /\ r \in Seq(E) /\ Len(r) = n + 1
      /\ r[n + 1] = e /\ \A i \in 1..n : r[i] = p[i]
      /\ \A i \in 0..n : NodeAt(q, r, i) = NodeAt(q, p, i)
      /\ NodeAt(q, r, n + 1) = e.target
      /\ \A i \in 0..n : Prefix(r, i) = Prefix(p, i)
      /\ Prefix(r, n) = p
  BY <1>1, AppendProperties, AppendNodes, AppendPrefixes
<1> HIDE DEF r
<1>3. Chained(q, r)
  BY <1>1, <1>2 DEF Reachable, Chained, LastNode
<1>4. Simple(q, r)
  <2>1. \A i \in 0..n : NodeAt(q, p, i) \in NodesOf(q, p)
    BY DEF NodesOf
  <2> QED
    BY <1>1, <1>2, <2>1 DEF Reachable, Simple
<1>5. Permitted(q, r)
  BY <1>1, <1>2 DEF Reachable, Permitted
<1>6. \A i \in 0..Len(r) - 1 : /\ WithinBudget(q, PathCost(q, Prefix(r, i)))
                                /\ NodeAt(q, r, i) # q.target
  BY <1>1, <1>2 DEF Reachable, LastNode
<1> QED
  BY <1>1, <1>2, <1>3, <1>4, <1>5, <1>6 DEF Reachable, r

\* A valid path leaves each of its proper prefixes by an edge the search
\* follows from there.
LEMMA AttackPathStep ==
  ASSUME NEW E, NEW q, NEW p, IsAttackPath(E, q, p), NEW k \in 0..Len(p) - 1
  PROVE  /\ p[k + 1] \in E
         /\ p[k + 1].source = LastNode(q, Prefix(p, k))
         /\ p[k + 1].type \in q.types
         /\ p[k + 1].target \notin NodesOf(q, Prefix(p, k))
         /\ WithinBudget(q, PathCost(q, Prefix(p, k)))
         /\ LastNode(q, Prefix(p, k)) # q.target
<1>1. /\ p \in Seq(E) /\ Len(p) \in Nat /\ k \in Nat
      /\ k \in 0..Len(p) /\ k + 1 \in 0..Len(p) /\ k + 1 \in 1..Len(p)
  BY LenProperties DEF IsAttackPath, Reachable
<1>2. /\ LastNode(q, Prefix(p, k)) = NodeAt(q, p, k)
      /\ NodesOf(q, Prefix(p, k)) = {NodeAt(q, p, i) : i \in 0..k}
  BY <1>1, PrefixNodes
<1>3. p[k + 1] \in E
  BY <1>1, ElementOfSeq
<1>4. p[k + 1].source = NodeAt(q, p, k)
  BY <1>1 DEF IsAttackPath, Reachable, Chained
<1>5. p[k + 1].target = NodeAt(q, p, k + 1)
  BY <1>1 DEF NodeAt
<1>6. \A i \in 0..k : NodeAt(q, p, i) # NodeAt(q, p, k + 1)
  BY <1>1 DEF IsAttackPath, Reachable, Simple
<1> QED
  BY <1>1, <1>2, <1>3, <1>4, <1>5, <1>6
     DEF IsAttackPath, Reachable, Permitted

-----------------------------------------------------------------------------
(***************************************************************************)
(* The answers to a query: there are finitely many, none is a prefix of    *)
(* another, and their order is strict and total.                           *)
(***************************************************************************)
\* AttackPaths holds the valid paths of the call, and only those.
LEMMA AttackPathsMember ==
  ASSUME NEW E, NEW q, MaxHops(q) \in Int, NEW p
  PROVE  p \in AttackPaths(E, q) <=> IsAttackPath(E, q, p)
<1>1. ASSUME IsAttackPath(E, q, p)
      PROVE  p \in UNION {[1..n -> E] : n \in 0..MaxHops(q)}
  <2>1. p \in Seq(E) /\ Len(p) \in Nat /\ Len(p) <= MaxHops(q)
    BY <1>1, LenProperties DEF IsAttackPath, Reachable
  <2>2. p \in [1..Len(p) -> E] /\ Len(p) \in 0..MaxHops(q)
    BY <2>1, LenProperties
  <2> QED
    BY <2>2
<1> QED
  BY <1>1 DEF AttackPaths

\* A query from an entity to itself has only the zero-hop path.
LEMMA ZeroHopOnly ==
  ASSUME NEW E, NEW q, q.source = q.target, NEW p, IsAttackPath(E, q, p)
  PROVE  p = <<>>
<1>1. p \in Seq(E) /\ Len(p) \in Nat
  BY LenProperties DEF IsAttackPath, Reachable
<1>2. NodeAt(q, p, 0) = NodeAt(q, p, Len(p))
  BY DEF IsAttackPath, LastNode, NodeAt
<1>3. Len(p) = 0
  BY <1>1, <1>2 DEF IsAttackPath, Reachable, Simple
<1> QED
  BY <1>1, <1>3, EmptySeq

\* A store of finitely many edges has finitely many paths of a length.
LEMMA SequencesAreFinite ==
  ASSUME NEW E, IsFiniteSet(E), NEW n \in Nat
  PROVE  IsFiniteSet([1..n -> E])
<1> DEFINE T == (1..n) \X E
           graph == [f \in [1..n -> E] |-> {<<i, f[i]>> : i \in 1..n}]
<1>1. IsFiniteSet(SUBSET T)
  <2>1. IsFiniteSet(1..n)
    BY FS_Interval
  <2>2. IsFiniteSet(T)
    BY <2>1, FS_Product
  <2> QED
    BY <2>2, FS_SUBSET
<1>2. \A f \in [1..n -> E] : graph[f] \in SUBSET T
  OBVIOUS
<1>3. ASSUME NEW f \in [1..n -> E], NEW h \in [1..n -> E], graph[f] = graph[h]
      PROVE  f = h
  <2>1. {<<i, f[i]>> : i \in 1..n} = {<<i, h[i]>> : i \in 1..n}
    BY <1>3
  <2>2. ASSUME NEW i \in 1..n PROVE f[i] = h[i]
    <3>1. <<i, f[i]>> \in {<<j, h[j]>> : j \in 1..n}
      BY <2>1
    <3>2. PICK j \in 1..n : <<i, f[i]>> = <<j, h[j]>>
      BY <3>1
    <3> QED
      BY <3>2
  <2> QED
    BY <2>2
<1>4. graph \in [[1..n -> E] -> SUBSET T]
  BY <1>2
<1>5. graph \in Injection([1..n -> E], SUBSET T)
  <2>1. DOMAIN graph = [1..n -> E]
    OBVIOUS
  <2> HIDE DEF graph
  <2> QED
    BY <1>3, <1>4, <2>1 DEF Injection, IsInjective
<1> HIDE DEF graph, T
<1> QED
  BY <1>1, <1>5, FS_Injection

LEMMA AttackPathsAreFinite ==
  ASSUME NEW E, IsFiniteSet(E), NEW q, MaxHops(q) \in Int
  PROVE  IsFiniteSet(AttackPaths(E, q))
<1> DEFINE N == 0..MaxHops(q)
           S == {[1..n -> E] : n \in N}
           f == [n \in N |-> [1..n -> E]]
<1>1. IsFiniteSet(N)
  BY FS_Interval
<1>2. f \in Surjection(N, S)
  BY DEF Surjection
<1>3. \A T \in S : IsFiniteSet(T)
  BY SequencesAreFinite
<1>4. AttackPaths(E, q) \subseteq UNION S
  BY DEF AttackPaths
<1> HIDE DEF f, N, S
<1>5. IsFiniteSet(S)
  BY <1>1, <1>2, FS_Surjection
<1>6. IsFiniteSet(UNION S)
  BY <1>3, <1>5, FS_UNION
<1> QED
  BY <1>4, <1>6, FS_Subset

\* Two paths agree on a prefix when they agree on its edges.
LEMMA PathBeforePointwise ==
  ASSUME NEW S, NEW p \in Seq(S), NEW r \in Seq(S)
  PROVE  PathBefore(p, r) <=>
           \E i \in 1..Len(p) : /\ i <= Len(r)
                                /\ \A j \in 1..i - 1 : p[j] = r[j]
                                /\ EdgeBefore(p[i], r[i])
<1>1. Len(p) \in Nat /\ Len(r) \in Nat
  BY LenProperties
<1>2. ASSUME NEW i \in 1..Len(p), i <= Len(r)
      PROVE  Prefix(p, i - 1) = Prefix(r, i - 1) <=> \A j \in 1..i - 1 : p[j] = r[j]
  <2>1. i - 1 \in 0..Len(p) /\ i - 1 \in 0..Len(r)
    BY <1>1, <1>2
  <2>2. /\ Prefix(p, i - 1) \in Seq(S) /\ Len(Prefix(p, i - 1)) = i - 1
        /\ \A j \in 1..i - 1 : Prefix(p, i - 1)[j] = p[j]
    BY <2>1, PrefixElements
  <2>3. /\ Prefix(r, i - 1) \in Seq(S) /\ Len(Prefix(r, i - 1)) = i - 1
        /\ \A j \in 1..i - 1 : Prefix(r, i - 1)[j] = r[j]
    BY <2>1, PrefixElements
  <2>4. (\A j \in 1..i - 1 : p[j] = r[j]) => Prefix(p, i - 1) = Prefix(r, i - 1)
    BY <2>2, <2>3, SeqEqual
  <2>5. Prefix(p, i - 1) = Prefix(r, i - 1) => \A j \in 1..i - 1 : p[j] = r[j]
    BY <2>2, <2>3
  <2> QED
    BY <2>4, <2>5
<1> QED
  BY <1>2 DEF PathBefore

\* The order is irreflexive.
LEMMA NeverBeforeItself ==
  ASSUME NEW p \in Seq(Edge)
  PROVE  ~PathBefore(p, p)
<1>1. ASSUME NEW e \in Edge PROVE ~EdgeBefore(e, e)
  <2>1. e.id \in Nat /\ e.target \in Nat /\ e.type \in Nat
    BY OrderedIdentifiers DEF Edge
  <2> QED
    BY <2>1 DEF EdgeBefore
<1>2. \A i \in 1..Len(p) : p[i] \in Edge
  BY ElementOfSeq
<1>3. \A i \in 1..Len(p) : ~EdgeBefore(p[i], p[i])
  BY <1>1, <1>2
<1> QED
  BY <1>3, Zenon DEF PathBefore

\* Of two paths that have parted, the one that is ahead stays ahead.
LEMMA BeforeWhateverExtends ==
  ASSUME NEW S, NEW p \in Seq(S), NEW r \in Seq(S), NEW s \in Seq(S), NEW t \in Seq(S),
         Len(p) <= Len(s), p = Prefix(s, Len(p)),
         Len(r) <= Len(t), r = Prefix(t, Len(r)),
         PathBefore(p, r)
  PROVE  PathBefore(s, t)
<1>1. /\ Len(p) \in Nat /\ Len(r) \in Nat /\ Len(s) \in Nat /\ Len(t) \in Nat
      /\ Len(p) \in 0..Len(s) /\ Len(r) \in 0..Len(t)
  BY LenProperties
<1>2. /\ \A j \in 1..Len(p) : p[j] = s[j]
      /\ \A j \in 1..Len(r) : r[j] = t[j]
  <2>1. \A u \in Seq(S) : \A k \in 0..Len(u) : \A j \in 1..k : Prefix(u, k)[j] = u[j]
    BY PrefixElements
  <2> QED
    BY <1>1, <2>1
<1>3. PICK i \in 1..Len(p) : /\ i <= Len(r)
                             /\ \A j \in 1..i - 1 : p[j] = r[j]
                             /\ EdgeBefore(p[i], r[i])
  BY PathBeforePointwise
<1>4. /\ i \in 1..Len(s) /\ i <= Len(t) /\ i \in 1..Len(r)
      /\ \A j \in 1..i - 1 : j \in 1..Len(p) /\ j \in 1..Len(r)
  BY <1>1, <1>3
<1>5. EdgeBefore(s[i], t[i])
  BY <1>2, <1>3, <1>4
<1>6. \A j \in 1..i - 1 : s[j] = t[j]
  BY <1>2, <1>3, <1>4
<1> QED
  BY <1>4, <1>5, <1>6, PathBeforePointwise

\* Two extensions of a path are in the order of the edges that they add.
LEMMA BeforeSibling ==
  ASSUME NEW S, NEW p \in Seq(S), NEW e \in S, NEW f \in S, EdgeBefore(e, f)
  PROVE  PathBefore(Append(p, e), Append(p, f))
<1> DEFINE n == Len(p) + 1
<1>1. /\ Append(p, e) \in Seq(S) /\ Len(Append(p, e)) = n /\ Append(p, e)[n] = e
      /\ Append(p, f) \in Seq(S) /\ Len(Append(p, f)) = n /\ Append(p, f)[n] = f
      /\ \A j \in 1..Len(p) : Append(p, e)[j] = p[j] /\ Append(p, f)[j] = p[j]
      /\ Len(p) \in Nat
  BY AppendProperties, LenProperties
<1>2. n \in 1..Len(Append(p, e)) /\ n <= Len(Append(p, f)) /\ n - 1 = Len(p)
  BY <1>1
<1>3. \A j \in 1..n - 1 : Append(p, e)[j] = Append(p, f)[j]
  BY <1>1, <1>2
<1> HIDE DEF n
<1>4. EdgeBefore(Append(p, e)[n], Append(p, f)[n])
  BY <1>1
<1> QED
  BY <1>1, <1>2, <1>3, <1>4, PathBeforePointwise

StrictlyOrdered(P) ==
  /\ \A p \in P : ~PathBefore(p, p)
  /\ \A p, r, s \in P : PathBefore(p, r) /\ PathBefore(r, s) => PathBefore(p, s)
  /\ \A p, r \in P : p # r => PathBefore(p, r) \/ PathBefore(r, p)

\* The order of the edges that leave an entity in the search is total: two of
\* them with the same type, target and id are one edge.
LEMMA EdgesOrdered ==
  ASSUME NEW E \in SUBSET Edge
  PROVE  /\ \A e \in E : ~EdgeBefore(e, e)
         /\ \A e, f, g \in E : EdgeBefore(e, f) /\ EdgeBefore(f, g) => EdgeBefore(e, g)
         /\ \A e, f \in E : e # f /\ e.source = f.source =>
              EdgeBefore(e, f) \/ EdgeBefore(f, e)
<1>1. \A e \in E : e.id \in Nat /\ e.target \in Nat /\ e.type \in Nat
  BY OrderedIdentifiers DEF Edge
<1>2. ASSUME NEW e \in E, NEW f \in E, e # f, e.source = f.source
      PROVE  e.id # f.id \/ e.target # f.target \/ e.type # f.type
  BY <1>2 DEF Edge
<1> QED
  BY <1>1, <1>2 DEF EdgeBefore

\* Two different answers part at some edge: were one a prefix of the other, it
\* would end at the target, which the other only reaches with its last edge.
LEMMA AttackPathsPart ==
  ASSUME NEW E, NEW q, NEW p, NEW r,
         IsAttackPath(E, q, p), IsAttackPath(E, q, r), p # r
  PROVE  \E i \in 1..Len(p) : /\ i <= Len(r)
                              /\ \A j \in 1..i - 1 : p[j] = r[j]
                              /\ p[i] # r[i]
<1>1. /\ p \in Seq(E) /\ r \in Seq(E) /\ Len(p) \in Nat /\ Len(r) \in Nat
  BY LenProperties DEF IsAttackPath, Reachable
<1>2. ASSUME NEW a, NEW b, IsAttackPath(E, q, a), IsAttackPath(E, q, b),
             Len(a) \in Nat, Len(b) \in Nat, Len(a) < Len(b),
             \A j \in 1..Len(a) : a[j] = b[j]
      PROVE  FALSE
  <2>1. NodeAt(q, b, Len(a)) # q.target
    BY <1>2 DEF IsAttackPath, Reachable
  <2>2. NodeAt(q, a, Len(a)) = q.target
    BY <1>2 DEF IsAttackPath, LastNode
  <2>3. NodeAt(q, a, Len(a)) = NodeAt(q, b, Len(a))
    BY <1>2 DEF NodeAt
  <2> QED
    BY <2>1, <2>2, <2>3
<1> DEFINE D == {i \in Nat : i \in 1..Len(p) /\ i <= Len(r) /\ p[i] # r[i]}
<1>3. D # {}
  <2> SUFFICES ASSUME D = {} PROVE FALSE
    OBVIOUS
  <2>1. \A i \in 1..Len(p) : i <= Len(r) => p[i] = r[i]
    BY <1>1
  <2>2. ~(Len(p) < Len(r)) /\ ~(Len(r) < Len(p))
    BY <1>1, <1>2, <2>1
  <2>3. Len(p) = Len(r)
    BY <1>1, <2>2
  <2> QED
    BY <1>1, <2>1, <2>3, SeqEqual
<1>4. PICK i \in D : \A j \in D : i <= j
  <2> DEFINE S == {n \in Nat : \A m \in D : m <= n => \E i \in D : \A j \in D : i <= j}
  <2>1. 0 \in S
    OBVIOUS
  <2>2. ASSUME NEW n \in Nat, n \in S
        PROVE  n + 1 \in S
    <3> SUFFICES ASSUME NEW m \in D, m <= n + 1
                 PROVE  \E i \in D : \A j \in D : i <= j
      OBVIOUS
    <3> HIDE DEF D
    <3>1. CASE \A j \in D : m <= j
      BY <3>1
    <3>2. CASE \E j \in D : ~(m <= j)
      <4>1. PICK j \in D : ~(m <= j)
        BY <3>2
      <4>2. j <= n
        BY <4>1 DEF D
      <4> QED
        BY <2>2, <4>2
    <3> QED
      BY <3>1, <3>2
  <2> HIDE DEF S
  <2>3. Nat \subseteq S
    BY <2>1, <2>2, NatSetInduction
  <2>4. PICK m \in D : TRUE
    BY <1>3
  <2>5. m \in Nat /\ m \in S
    BY <2>3
  <2> QED
    BY <2>4, <2>5 DEF S
<1>5. \A j \in 1..i - 1 : j \in 1..Len(p) /\ j <= Len(r) /\ j \in Nat /\ ~(i <= j)
  BY <1>1
<1>6. \A j \in 1..i - 1 : p[j] = r[j]
  BY <1>4, <1>5
<1> QED
  BY <1>6

\* The order of the answers is the lexicographic one of their edges.
LEMMA AttackPathsOrdered ==
  ASSUME NEW E \in SUBSET Edge, NEW q, MaxHops(q) \in Int
  PROVE  StrictlyOrdered(AttackPaths(E, q))
<1> DEFINE P == AttackPaths(E, q)
<1>1. \A p \in P : IsAttackPath(E, q, p) /\ p \in Seq(E) /\ Len(p) \in Nat
  BY AttackPathsMember, LenProperties DEF IsAttackPath, Reachable
<1>2. \A p \in P : \A i \in 1..Len(p) : p[i] \in E
  BY <1>1, ElementOfSeq
<1> HIDE DEF P
<1>3. \A p, r \in P : PathBefore(p, r) <=>
        \E i \in 1..Len(p) : /\ i <= Len(r)
                             /\ \A j \in 1..i - 1 : p[j] = r[j]
                             /\ EdgeBefore(p[i], r[i])
  BY <1>1, PathBeforePointwise
<1>4. ASSUME NEW p \in P PROVE ~PathBefore(p, p)
  BY <1>2, <1>3, EdgesOrdered
<1>5. ASSUME NEW p \in P, NEW r \in P, NEW s \in P, PathBefore(p, r), PathBefore(r, s)
      PROVE  PathBefore(p, s)
  <2>1. PICK i \in 1..Len(p) : /\ i <= Len(r)
                               /\ \A j \in 1..i - 1 : p[j] = r[j]
                               /\ EdgeBefore(p[i], r[i])
    BY <1>3, <1>5
  <2>2. PICK k \in 1..Len(r) : /\ k <= Len(s)
                               /\ \A j \in 1..k - 1 : r[j] = s[j]
                               /\ EdgeBefore(r[k], s[k])
    BY <1>3, <1>5
  <2>3. Len(p) \in Nat /\ Len(r) \in Nat /\ Len(s) \in Nat
    BY <1>1
  <2>4. CASE i < k
    <3>1. i \in 1..k - 1 /\ i <= Len(s) /\ \A j \in 1..i - 1 : j \in 1..k - 1
      BY <2>1, <2>2, <2>3, <2>4
    <3>2. (\A j \in 1..i - 1 : p[j] = s[j]) /\ EdgeBefore(p[i], s[i])
      BY <2>1, <2>2, <3>1
    <3> QED
      BY <1>3, <3>1, <3>2
  <2>5. CASE i = k
    <3>1. p[i] \in E /\ r[i] \in E /\ s[i] \in E
      BY <1>2, <2>1, <2>2, <2>3, <2>5
    <3>2. EdgeBefore(p[i], s[i])
      BY <2>1, <2>2, <2>5, <3>1, EdgesOrdered
    <3>3. i <= Len(s) /\ \A j \in 1..i - 1 : p[j] = s[j]
      BY <2>1, <2>2, <2>5
    <3> QED
      BY <1>3, <3>2, <3>3
  <2>6. CASE k < i
    <3>1. k \in 1..i - 1 /\ k \in 1..Len(p) /\ \A j \in 1..k - 1 : j \in 1..i - 1
      BY <2>1, <2>2, <2>3, <2>6
    <3>2. (\A j \in 1..k - 1 : p[j] = s[j]) /\ EdgeBefore(p[k], s[k])
      BY <2>1, <2>2, <3>1
    <3> QED
      BY <1>3, <2>2, <3>1, <3>2
  <2> QED
    BY <2>3, <2>4, <2>5, <2>6
<1>6. ASSUME NEW p \in P, NEW r \in P, p # r
      PROVE  PathBefore(p, r) \/ PathBefore(r, p)
  <2>1. PICK i \in 1..Len(p) : /\ i <= Len(r)
                               /\ \A j \in 1..i - 1 : p[j] = r[j]
                               /\ p[i] # r[i]
    BY <1>1, <1>6, AttackPathsPart
  <2>2. i \in 1..Len(r) /\ i <= Len(p) /\ \A j \in 1..i - 1 : r[j] = p[j]
    BY <1>1, <2>1
  <2>3. p[i].source = r[i].source
    <3>1. NodeAt(q, p, i - 1) = NodeAt(q, r, i - 1)
      BY <1>1, <2>1 DEF NodeAt
    <3>2. p[i].source = NodeAt(q, p, i - 1) /\ r[i].source = NodeAt(q, r, i - 1)
      BY <1>1, <2>1, <2>2 DEF IsAttackPath, Reachable, Chained
    <3> QED
      BY <3>1, <3>2
  <2>4. EdgeBefore(p[i], r[i]) \/ EdgeBefore(r[i], p[i])
    BY <1>2, <2>1, <2>2, <2>3, EdgesOrdered
  <2> QED
    BY <1>3, <2>1, <2>2, <2>4
<1> QED
  BY <1>4, <1>5, <1>6 DEF StrictlyOrdered, P

(***************************************************************************)
(* FirstPaths: the paths of a finite set in their order, each once.        *)
(***************************************************************************)
Earlier(P, p) == {r \in P : PathBefore(r, p)}

RankIn(P, p) == Cardinality(Earlier(P, p)) + 1

\* The ranks of the paths of a set are 1, 2, ..., in their order.
LEMMA Ranks ==
  ASSUME NEW P, IsFiniteSet(P), StrictlyOrdered(P)
  PROVE  /\ Cardinality(P) \in Nat
         /\ \A p \in P : RankIn(P, p) \in 1..Cardinality(P)
         /\ \A p, r \in P : PathBefore(p, r) <=> RankIn(P, p) < RankIn(P, r)
         /\ \A p, r \in P : RankIn(P, p) = RankIn(P, r) => p = r
         /\ \A k \in 1..Cardinality(P) : \E p \in P : RankIn(P, p) = k
<1> DEFINE N == Cardinality(P)
<1>1. N \in Nat
  BY FS_CardinalityType
<1>2. \A p \in P : IsFiniteSet(Earlier(P, p)) /\ Cardinality(Earlier(P, p)) \in Nat
  <2>1. \A p \in P : Earlier(P, p) \in SUBSET P
    BY DEF Earlier
  <2> QED
    BY <2>1, FS_Subset, FS_CardinalityType
<1>3. ASSUME NEW p \in P, NEW Q, IsFiniteSet(Q), Earlier(P, p) \cup {p} \subseteq Q
      PROVE  RankIn(P, p) <= Cardinality(Q) /\ Cardinality(Q) \in Nat
  <2>1. p \notin Earlier(P, p)
    BY DEF StrictlyOrdered, Earlier
  <2>2. Cardinality(Earlier(P, p) \cup {p}) = RankIn(P, p)
    BY <1>2, <2>1, FS_AddElement DEF RankIn
  <2>3. Cardinality(Earlier(P, p) \cup {p}) <= Cardinality(Q) /\ Cardinality(Q) \in Nat
    BY <1>3, FS_Subset, FS_CardinalityType
  <2> QED
    BY <2>2, <2>3
<1>4. \A p \in P : RankIn(P, p) \in 1..N
  <2> SUFFICES ASSUME NEW p \in P PROVE RankIn(P, p) \in 1..N
    OBVIOUS
  <2>1. Earlier(P, p) \cup {p} \subseteq P
    BY DEF Earlier
  <2>2. RankIn(P, p) <= N
    BY <1>3, <2>1
  <2>3. RankIn(P, p) \in Nat /\ RankIn(P, p) >= 1
    BY <1>2 DEF RankIn
  <2> QED
    BY <1>1, <2>2, <2>3
<1>5. ASSUME NEW p \in P, NEW r \in P, PathBefore(p, r)
      PROVE  RankIn(P, p) < RankIn(P, r)
  <2>1. Earlier(P, p) \cup {p} \subseteq Earlier(P, r)
    BY <1>5 DEF StrictlyOrdered, Earlier
  <2>2. RankIn(P, p) <= Cardinality(Earlier(P, r))
    BY <1>2, <1>3, <2>1
  <2>3. Cardinality(Earlier(P, r)) \in Nat /\ RankIn(P, p) \in Nat
    BY <1>2, <1>4
  <2> QED
    BY <2>2, <2>3 DEF RankIn
<1>6. \A p, r \in P : p = r \/ PathBefore(p, r) \/ PathBefore(r, p)
  BY DEF StrictlyOrdered
<1>7. \A p, r \in P : PathBefore(p, r) <=> RankIn(P, p) < RankIn(P, r)
  BY <1>4, <1>5, <1>6
<1>8. \A p, r \in P : RankIn(P, p) = RankIn(P, r) => p = r
  BY <1>4, <1>5, <1>6
<1>9. \A k \in 1..N : \E p \in P : RankIn(P, p) = k
  <2> DEFINE f == [p \in P |-> RankIn(P, p)]
  <2>1. f \in Injection(P, 1..N)
    BY <1>4, <1>8 DEF Injection, IsInjective
  <2>2. IsFiniteSet(1..N) /\ Cardinality(1..N) = N
    BY <1>1, FS_Interval
  <2>3. f \in Surjection(P, 1..N)
    <3> HIDE DEF f
    <3> QED
      BY <2>1, <2>2, FS_Injection
  <2> QED
    BY <2>3 DEF Surjection
<1> QED
  BY <1>1, <1>4, <1>7, <1>8, <1>9

LEMMA FirstPathsProperties ==
  ASSUME NEW P, IsFiniteSet(P), StrictlyOrdered(P), NEW count \in Nat,
         NEW n, n = IF Cardinality(P) <= count THEN Cardinality(P) ELSE count
  PROVE  /\ n \in Nat /\ n <= Cardinality(P) /\ n <= count
         /\ FirstPaths(P, count) \in [1..n -> P]
         /\ \A k \in 1..n : RankIn(P, FirstPaths(P, count)[k]) = k
         /\ {FirstPaths(P, count)[k] : k \in 1..n} = {p \in P : RankIn(P, p) <= n}
<1> DEFINE f == FirstPaths(P, count)
<1>1. Cardinality(P) \in Nat /\ n \in Nat /\ n <= Cardinality(P) /\ n <= count
  BY FS_CardinalityType
<1>2. f = [k \in 1..n |-> CHOOSE p \in P : RankIn(P, p) = k]
  BY DEF FirstPaths, RankIn, Earlier
<1> HIDE DEF f
<1>3. ASSUME NEW k \in 1..n
      PROVE  f[k] \in P /\ RankIn(P, f[k]) = k
  <2>1. k \in 1..Cardinality(P)
    BY <1>1
  <2>2. \E p \in P : RankIn(P, p) = k
    BY <2>1, Ranks
  <2> QED
    BY <1>2, <2>2
<1>4. f \in [1..n -> P]
  BY <1>2, <1>3
<1>5. \A p \in P : RankIn(P, p) \in 1..Cardinality(P)
  BY Ranks
<1>6. ASSUME NEW p \in P, RankIn(P, p) <= n
      PROVE  \E k \in 1..n : f[k] = p
  <2>1. RankIn(P, p) \in 1..n
    BY <1>1, <1>5, <1>6
  <2>2. RankIn(P, f[RankIn(P, p)]) = RankIn(P, p) /\ f[RankIn(P, p)] \in P
    BY <1>3, <2>1
  <2>3. f[RankIn(P, p)] = p
    BY <2>2, Ranks
  <2> QED
    BY <2>1, <2>3
<1>7. {f[k] : k \in 1..n} = {p \in P : RankIn(P, p) <= n}
  BY <1>1, <1>3, <1>6
<1> QED
  BY <1>1, <1>3, <1>4, <1>7 DEF f

\* A query whose bound on the number of paths is not less than that number is
\* answered by all of them, each once.
LEMMA EnumerationComplete ==
  ASSUME NEW E \in SUBSET Edge, IsFiniteSet(E), NEW q, MaxHops(q) \in Int,
         q.maxPaths \in Nat
  PROVE  /\ IsFiniteSet(AttackPaths(E, q)) /\ Cardinality(AttackPaths(E, q)) \in Nat
         /\ Enumeration(E, q) \in Seq(AttackPaths(E, q))
         /\ Len(Enumeration(E, q)) =
              IF Cardinality(AttackPaths(E, q)) <= q.maxPaths
              THEN Cardinality(AttackPaths(E, q)) ELSE q.maxPaths
         /\ Cardinality(AttackPaths(E, q)) <= q.maxPaths =>
              {Enumeration(E, q)[k] : k \in 1..Len(Enumeration(E, q))} = AttackPaths(E, q)
<1> DEFINE P == AttackPaths(E, q)
<1>1. IsFiniteSet(P) /\ StrictlyOrdered(P)
  BY AttackPathsAreFinite, AttackPathsOrdered
<1> HIDE DEF P
<1>2. Cardinality(P) \in Nat
  BY <1>1, FS_CardinalityType
<1>3. PICK n : n = IF Cardinality(P) <= q.maxPaths THEN Cardinality(P) ELSE q.maxPaths
  OBVIOUS
<1>4. PICK f : f = FirstPaths(P, q.maxPaths)
  OBVIOUS
<1>5. /\ n \in Nat /\ f \in [1..n -> P]
      /\ {f[k] : k \in 1..n} = {p \in P : RankIn(P, p) <= n}
  <2>1. PICK count \in Nat : count = q.maxPaths
    OBVIOUS
  <2>2. n = IF Cardinality(P) <= count THEN Cardinality(P) ELSE count
    BY <1>3, <2>1
  <2>3. /\ n \in Nat /\ FirstPaths(P, count) \in [1..n -> P]
        /\ {FirstPaths(P, count)[k] : k \in 1..n} = {p \in P : RankIn(P, p) <= n}
    BY <1>1, <2>2, FirstPathsProperties
  <2> QED
    BY <1>4, <2>1, <2>3
<1>6. f \in Seq(P) /\ Len(f) = n
  BY <1>5, SeqDef
<1>7. \A p \in P : RankIn(P, p) <= Cardinality(P)
  BY <1>1, <1>2, Ranks
<1>8. Cardinality(P) <= q.maxPaths => {f[k] : k \in 1..Len(f)} = P
  BY <1>3, <1>5, <1>6, <1>7
<1>9. Enumeration(E, q) = f
  BY <1>4 DEF Enumeration, P
<1> QED
  BY <1>1, <1>2, <1>3, <1>6, <1>8, <1>9 DEF P
===============================================================================
