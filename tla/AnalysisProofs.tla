---------------------------- MODULE AnalysisProofs ----------------------------
(***************************************************************************)
(* Theorems about what an analysis is made of: the evidence of a path as   *)
(* it ages (EvidenceAging), and the policies and contexts two analyses are *)
(* compared by (AnalysisPolicy).                                           *)
(***************************************************************************)
EXTENDS AnalysisPolicy, EvidenceAging, PathTheorems

-----------------------------------------------------------------------------
(***************************************************************************)
(* Evidence: the row that wins is the least confident of the latest ones.  *)
(***************************************************************************)
LEMMA SmallestIs ==
  ASSUME NEW S, IsFiniteSet(S), S \subseteq Int, S # {}
  PROVE  Min(S) \in S /\ \A y \in S : Min(S) <= y
<1>1. \E x : x \in S /\ \A y \in S : x <= y
  BY Extremes DEF Smallest
<1> QED
  BY <1>1 DEF Min

\* t is the tier of a row that wins, as it is at that time.
Resolves(rows, time, t) ==
  \E i \in DOMAIN rows :
    /\ t = Decayed(rows[i], time)
    /\ \A j \in DOMAIN rows :
         \/ rows[j].collected < rows[i].collected
         \/ rows[j].collected = rows[i].collected /\ t <= Decayed(rows[j], time)

LEMMA DecayedIs ==
  ASSUME NEW row \in EvidenceRow, NEW time \in Nat
  PROVE  /\ Decayed(row, time) \in Tier
         /\ Decayed(row, time + 1) <= Decayed(row, time)
<1>1. row.tier \in Tier /\ row.collected \in Nat /\ row.ttl \in Nat
  BY DEF EvidenceRow
<1>2. Downgrade(row.tier) \in Tier /\ Downgrade(row.tier) <= row.tier
  BY <1>1 DEF Downgrade, Tier
<1>3. Stale(row, time) => Stale(row, time + 1)
  BY <1>1 DEF Stale
<1> QED
  BY <1>1, <1>2, <1>3 DEF Decayed, Tier

LEMMA WinnerIs ==
  ASSUME NEW rows \in Seq(EvidenceRow), rows # <<>>, NEW time \in Nat
  PROVE  /\ Winner(rows, time) \in EvidenceRow
         /\ Resolves(rows, time, Decayed(Winner(rows, time), time))
<1>1. PICK n \in Nat : n = Len(rows)
  BY LenProperties
<1>2. n # 0 /\ DOMAIN rows = 1..n /\ \A i \in 1..n : rows[i] \in EvidenceRow
  BY <1>1, EmptySeq, LenProperties
<1> DEFINE key == [i \in 1..n |-> 4 * rows[i].collected - Decayed(rows[i], time)]
           S == {key[i] : i \in 1..n}
           best == {i \in Eligible(rows, time) :
                      \A j \in Eligible(rows, time) : ~Precedes(rows[j], rows[i], time)}
<1>3. \A i \in 1..n : rows[i].collected \in Nat /\ Decayed(rows[i], time) \in Tier
  BY <1>2, DecayedIs DEF EvidenceRow
<1>4. \A i \in 1..n : key[i] \in Int
  BY <1>3 DEF Tier
<1>5. IsFiniteSet(1..n)
  BY FS_Interval
<1>6. IsFiniteSet(S)
  <2>1. key \in [1..n -> S] /\ \A x \in S : \E i \in 1..n : key[i] = x
    OBVIOUS
  <2> HIDE DEF key, S
  <2>2. key \in Surjection(1..n, S)
    BY <2>1 DEF Surjection
  <2> QED
    BY <1>5, <2>2, FS_Surjection
<1>7. S \subseteq Int /\ S # {}
  <2>1. 1 \in 1..n
    BY <1>2
  <2> HIDE DEF key
  <2> QED
    BY <1>4, <2>1
<1>8. PICK x : Largest(S, x)
  <2> HIDE DEF S, key
  <2> QED
    BY <1>6, <1>7, Extremes
<1>9. PICK m \in 1..n : \A j \in 1..n : key[m] >= key[j]
  <2> HIDE DEF key
  <2> QED
    BY <1>8 DEF Largest
<1>10. m \in best
  <2> SUFFICES ASSUME NEW j \in 1..n, Precedes(rows[j], rows[m], time) PROVE FALSE
    BY <1>2 DEF Eligible
  <2>1. PICK c \in Nat, d \in Nat, t \in Tier, u \in Tier :
          /\ c = rows[m].collected /\ d = rows[j].collected
          /\ t = Decayed(rows[m], time) /\ u = Decayed(rows[j], time)
    BY <1>3
  <2>2. 4 * c - t >= 4 * d - u
    BY <1>9, <2>1
  <2>3. d > c \/ (d = c /\ u < t)
    BY <2>1 DEF Precedes
  <2> QED
    BY <2>2, <2>3 DEF Tier
<1>11. best \subseteq 1..n
  BY <1>2 DEF Eligible
<1>12. \A i \in best, j \in 1..n : ~Precedes(rows[j], rows[i], time)
  BY <1>2 DEF Eligible
<1>13. Winner(rows, time) = rows[Min(best)]
  BY DEF Winner
<1> HIDE DEF best
<1>14. PICK w \in 1..n : w = Min(best) /\ w \in best
  <2>1. IsFiniteSet(best)
    BY <1>5, <1>11, FS_Subset
  <2>2. best \subseteq Int /\ best # {}
    BY <1>10, <1>11
  <2>3. Min(best) \in best
    BY <2>1, <2>2, SmallestIs
  <2> QED
    BY <1>11, <2>3
<1>15. ASSUME NEW j \in 1..n
       PROVE  \/ rows[j].collected < rows[w].collected
              \/ /\ rows[j].collected = rows[w].collected
                 /\ Decayed(rows[w], time) <= Decayed(rows[j], time)
  <2>1. PICK c \in Nat, d \in Nat, t \in Tier, u \in Tier :
          /\ c = rows[w].collected /\ d = rows[j].collected
          /\ t = Decayed(rows[w], time) /\ u = Decayed(rows[j], time)
    BY <1>3
  <2>2. ~(d > c \/ (d = c /\ u < t))
    BY <1>12, <1>14, <2>1 DEF Precedes
  <2>3. d < c \/ (d = c /\ t <= u)
    BY <2>2 DEF Tier
  <2> QED
    BY <2>1, <2>3
<1> QED
  BY <1>2, <1>13, <1>14, <1>15 DEF Resolves

LEMMA RowsAre ==
  ASSUME NEW rows \in Seq(EvidenceRow), NEW i \in DOMAIN rows
  PROVE  rows[i] \in EvidenceRow /\ rows[i].collected \in Nat
<1>1. i \in 1..Len(rows)
  BY LenProperties
<1>2. rows[i] \in EvidenceRow
  BY <1>1, ElementOfSeq
<1> QED
  BY <1>2 DEF EvidenceRow

LEMMA OneTier ==
  ASSUME NEW rows \in Seq(EvidenceRow), NEW time \in Nat,
         NEW t, Resolves(rows, time, t), NEW u, Resolves(rows, time, u)
  PROVE  t = u
<1>1. \A i \in DOMAIN rows : rows[i].collected \in Nat /\ Decayed(rows[i], time) \in Tier
  BY RowsAre, DecayedIs
<1>2. PICK i \in DOMAIN rows :
        /\ t = Decayed(rows[i], time)
        /\ \A j \in DOMAIN rows :
             \/ rows[j].collected < rows[i].collected
             \/ rows[j].collected = rows[i].collected /\ t <= Decayed(rows[j], time)
  BY DEF Resolves
<1>3. PICK k \in DOMAIN rows :
        /\ u = Decayed(rows[k], time)
        /\ \A j \in DOMAIN rows :
             \/ rows[j].collected < rows[k].collected
             \/ rows[j].collected = rows[k].collected /\ u <= Decayed(rows[j], time)
  BY DEF Resolves
<1>4. t \in Tier /\ u \in Tier /\ rows[i].collected \in Nat /\ rows[k].collected \in Nat
  BY <1>1, <1>2, <1>3
<1>5. rows[k].collected < rows[i].collected
        \/ (rows[k].collected = rows[i].collected /\ t <= u)
  BY <1>2, <1>3
<1>6. rows[i].collected < rows[k].collected
        \/ (rows[i].collected = rows[k].collected /\ u <= t)
  BY <1>2, <1>3
<1> QED
  BY <1>4, <1>5, <1>6 DEF Tier

\* What an edge resolves to does not depend on the order of its rows.
LEMMA ShuffledResolves ==
  ASSUME NEW rows, NEW new \in Shuffles(rows), NEW time, NEW t, Resolves(rows, time, t)
  PROVE  Resolves(new, time, t)
<1>1. PICK f \in Bijection(DOMAIN rows, DOMAIN rows) :
        new = [i \in DOMAIN rows |-> rows[f[i]]]
  BY DEF Shuffles
<1>2. /\ DOMAIN new = DOMAIN rows
      /\ \A i \in DOMAIN rows : f[i] \in DOMAIN rows /\ new[i] = rows[f[i]]
      /\ \A j \in DOMAIN rows : \E i \in DOMAIN rows : f[i] = j
  BY <1>1 DEF Bijection, Injection, Surjection
<1>3. PICK i \in DOMAIN rows :
        /\ t = Decayed(rows[i], time)
        /\ \A j \in DOMAIN rows :
             \/ rows[j].collected < rows[i].collected
             \/ rows[j].collected = rows[i].collected /\ t <= Decayed(rows[j], time)
  BY DEF Resolves
<1>4. PICK k \in DOMAIN rows : f[k] = i
  BY <1>2
<1>5. k \in DOMAIN new /\ new[k] = rows[i]
  BY <1>2, <1>4
<1>6. ASSUME NEW j \in DOMAIN new
      PROVE  \/ new[j].collected < new[k].collected
             \/ new[j].collected = new[k].collected /\ t <= Decayed(new[j], time)
  <2>1. f[j] \in DOMAIN rows /\ new[j] = rows[f[j]]
    BY <1>2
  <2> QED
    BY <1>3, <1>5, <2>1
<1> QED
  BY <1>3, <1>5, <1>6 DEF Resolves

LEMMA AgedResolves ==
  ASSUME NEW rows \in Seq(EvidenceRow), NEW time \in Nat,
         NEW t, Resolves(rows, time, t), NEW u, Resolves(rows, time + 1, u)
  PROVE  u <= t
<1>1. \A i \in DOMAIN rows : /\ rows[i].collected \in Nat
                             /\ Decayed(rows[i], time) \in Tier
                             /\ Decayed(rows[i], time + 1) \in Tier
                             /\ Decayed(rows[i], time + 1) <= Decayed(rows[i], time)
  <2>1. time + 1 \in Nat
    OBVIOUS
  <2> QED
    BY <2>1, RowsAre, DecayedIs
<1>2. PICK i \in DOMAIN rows :
        /\ t = Decayed(rows[i], time)
        /\ \A j \in DOMAIN rows :
             \/ rows[j].collected < rows[i].collected
             \/ rows[j].collected = rows[i].collected /\ t <= Decayed(rows[j], time)
  BY DEF Resolves
<1>3. PICK k \in DOMAIN rows :
        /\ u = Decayed(rows[k], time + 1)
        /\ \A j \in DOMAIN rows :
             \/ rows[j].collected < rows[k].collected
             \/ rows[j].collected = rows[k].collected /\ u <= Decayed(rows[j], time + 1)
  BY DEF Resolves
<1>4. /\ t \in Tier /\ u \in Tier /\ rows[i].collected \in Nat /\ rows[k].collected \in Nat
      /\ Decayed(rows[i], time + 1) \in Tier /\ Decayed(rows[i], time + 1) <= t
  BY <1>1, <1>2, <1>3
<1>5. rows[k].collected <= rows[i].collected
  BY <1>2, <1>4
<1>6. rows[i].collected < rows[k].collected
        \/ (rows[i].collected = rows[k].collected /\ u <= Decayed(rows[i], time + 1))
  BY <1>3
<1> QED
  BY <1>4, <1>5, <1>6 DEF Tier

-----------------------------------------------------------------------------
(***************************************************************************)
(* Confidence: what the tiers of the edges make of the risk of a path.     *)
(***************************************************************************)
LEMMA ResolvedIs ==
  ASSUME NEW p \in Seq(EvidencedEdge), NEW k \in DOMAIN p, NEW time \in Nat
  PROVE  /\ p[k].rows \in Seq(EvidenceRow)
         /\ Resolved(p, k, time).tier \in Tier
         /\ IF p[k].tier = "INFERRED" \/ p[k].rows = <<>>
            THEN Resolved(p, k, time).tier = 0
            ELSE Resolves(p[k].rows, time, Resolved(p, k, time).tier)
<1>1. p[k].rows \in Seq(EvidenceRow)
  <2>1. k \in 1..Len(p)
    BY LenProperties
  <2>2. p[k] \in EvidencedEdge
    BY <2>1, ElementOfSeq
  <2> QED
    BY <2>2 DEF EvidencedEdge
<1>2. CASE p[k].tier = "INFERRED" \/ p[k].rows = <<>>
  BY <1>1, <1>2 DEF Resolved, Tier
<1>3. CASE ~(p[k].tier = "INFERRED" \/ p[k].rows = <<>>)
  <2>1. PICK rows \in Seq(EvidenceRow) : rows = p[k].rows /\ rows # <<>>
    BY <1>1, <1>3
  <2>2. /\ Winner(rows, time) \in EvidenceRow
        /\ Resolves(rows, time, Decayed(Winner(rows, time), time))
    BY <2>1, WinnerIs
  <2>3. Decayed(Winner(rows, time), time) \in Tier
    BY <2>2, DecayedIs
  <2>4. Resolved(p, k, time).tier = Decayed(Winner(rows, time), time)
    BY <1>3, <2>1 DEF Resolved
  <2> QED
    BY <1>1, <1>3, <2>1, <2>2, <2>3, <2>4
<1> QED
  BY <1>2, <1>3

LEMMA ConfidenceRises ==
  ASSUME NEW t \in Tier, NEW u \in Tier, u <= t
  PROVE  /\ ConfidenceValue(t) \in 0..Unit /\ ConfidenceValue(u) \in 0..Unit
         /\ ConfidenceValue(u) <= ConfidenceValue(t)
<1>1. /\ ConfidenceValue(0) = 10 /\ ConfidenceValue(1) = 25
      /\ ConfidenceValue(2) = 40 /\ ConfidenceValue(3) = 50
  BY DEF ConfidenceValue
<1>2. t \in {0, 1, 2, 3} /\ u \in {0, 1, 2, 3}
  BY DEF Tier
<1> QED
  BY <1>1, <1>2 DEF Unit

\* An edge is trusted as far as its tier says, and less if it is inferred.
LEMMA TrustRises ==
  ASSUME NEW p \in Seq(EvidencedEdge), NEW q \in Seq(EvidencedEdge), NEW k,
         k \in DOMAIN p, k \in DOMAIN q, p[k].tier = q[k].tier,
         NEW time \in Nat, NEW later \in Nat,
         Resolved(q, k, later).tier <= Resolved(p, k, time).tier
  PROVE  /\ EdgeConfidence(p, k, time) \in 0..Unit
         /\ EdgeConfidence(q, k, later) <= EdgeConfidence(p, k, time)
<1>1. PICK t \in Tier, u \in Tier :
        t = Resolved(p, k, time).tier /\ u = Resolved(q, k, later).tier
  BY ResolvedIs
<1>2. PICK v \in 0..Unit, w \in 0..Unit :
        v = ConfidenceValue(t) /\ w = ConfidenceValue(u) /\ w <= v
  BY <1>1, ConfidenceRises
<1>3. EdgeConfidence(p, k, time) = IF p[k].tier = "INFERRED" THEN (v * 4) \div 5 ELSE v
  BY <1>1, <1>2 DEF EdgeConfidence
<1>4. EdgeConfidence(q, k, later) = IF p[k].tier = "INFERRED" THEN (w * 4) \div 5 ELSE w
  BY <1>1, <1>2 DEF EdgeConfidence
<1>5. (v * 4) \div 5 \in 0..Unit /\ (w * 4) \div 5 <= (v * 4) \div 5
  <2>1. v \in 0..50 /\ w \in 0..50 /\ w <= v
    BY <1>2 DEF Unit
  <2>2. PICK x \in Nat, y \in Nat : x = v * 4 /\ y = w * 4 /\ y <= x /\ x <= 200
    BY <2>1
  <2>3. x \div 5 \in 0..50 /\ y \div 5 <= x \div 5
    BY <2>2
  <2> QED
    BY <2>2, <2>3 DEF Unit
<1> QED
  BY <1>2, <1>3, <1>4, <1>5

LEMMA MinimumIs ==
  ASSUME NEW p \in Seq(EvidencedEdge), NEW time \in Nat
  PROVE  /\ MinimumConfidence(p, time) \in 0..Unit
         /\ \A k \in DOMAIN p : MinimumConfidence(p, time) <= EdgeConfidence(p, k, time)
         /\ \/ MinimumConfidence(p, time) = Unit
            \/ \E k \in DOMAIN p : MinimumConfidence(p, time) = EdgeConfidence(p, k, time)
<1> DEFINE C == {EdgeConfidence(p, k, time) : k \in DOMAIN p}
<1>1. IsFiniteSet(C)
  <2> DEFINE f == [k \in DOMAIN p |-> EdgeConfidence(p, k, time)]
  <2>1. f \in [DOMAIN p -> C] /\ \A x \in C : \E k \in DOMAIN p : f[k] = x
    OBVIOUS
  <2>2. PICK n \in Nat : n = Len(p) /\ DOMAIN p = 1..n
    BY LenProperties
  <2>3. IsFiniteSet(DOMAIN p)
    BY <2>2, FS_Interval
  <2> HIDE DEF f, C
  <2>4. f \in Surjection(DOMAIN p, C)
    BY <2>1 DEF Surjection
  <2> QED
    BY <2>3, <2>4, FS_Surjection
<1>2. \A k \in DOMAIN p : EdgeConfidence(p, k, time) \in 0..Unit
  <2> SUFFICES ASSUME NEW k \in DOMAIN p PROVE EdgeConfidence(p, k, time) \in 0..Unit
    OBVIOUS
  <2>1. Resolved(p, k, time).tier <= Resolved(p, k, time).tier
    BY ResolvedIs DEF Tier
  <2> QED
    BY <2>1, TrustRises
<1>3. C \subseteq 0..Unit /\ Unit \in 0..Unit
  <2>1. C \subseteq 0..Unit
    BY <1>2
  <2>2. Unit \in 0..Unit
    BY DEF Unit
  <2> QED
    BY <2>1, <2>2
<1>4. MinimumConfidence(p, time) = Min(C \cup {Unit})
  BY DEF MinimumConfidence, Confidences
<1>5. \A k \in DOMAIN p : EdgeConfidence(p, k, time) \in C
  OBVIOUS
<1>6. \A x \in C : \E k \in DOMAIN p : x = EdgeConfidence(p, k, time)
  OBVIOUS
<1> HIDE DEF C
<1>7. PICK S : S = C \cup {Unit}
  OBVIOUS
<1>8. IsFiniteSet(S) /\ S \subseteq 0..Unit /\ S \subseteq Int /\ S # {}
  <2>1. IsFiniteSet(S)
    BY <1>1, <1>7, FS_AddElement
  <2>2. S \subseteq 0..Unit /\ S # {}
    BY <1>3, <1>7
  <2> QED
    BY <2>1, <2>2
<1>9. Min(S) \in S /\ \A y \in S : Min(S) <= y
  BY <1>8, SmallestIs
<1> QED
  BY <1>4, <1>5, <1>6, <1>7, <1>8, <1>9

LEMMA PowerIs == \A n \in Nat : Power(n) \in Nat
<1> SUFFICES ASSUME NEW n \in Nat PROVE Power(n) \in Nat
  OBVIOUS
<1> DEFINE Powers(f, m) == f = [k \in 0..m |-> IF k = 0 THEN 1 ELSE Unit * f[k - 1]]
           Sizes == {m \in Nat : \E f : Powers(f, m)}
<1>1. 0 \in Sizes
  <2> DEFINE f == [k \in 0..0 |-> 1]
  <2>1. Powers(f, 0)
    OBVIOUS
  <2> HIDE DEF f, Powers
  <2> QED
    BY <2>1
<1>2. ASSUME NEW m \in Nat, m \in Sizes PROVE m + 1 \in Sizes
  <2>1. PICK f : Powers(f, m)
    BY <1>2
  <2> DEFINE h == [k \in 0..m + 1 |-> IF k = m + 1 THEN Unit * f[m] ELSE f[k]]
  <2>2. ASSUME NEW k \in 0..m + 1
        PROVE  h[k] = IF k = 0 THEN 1 ELSE Unit * h[k - 1]
    <3>1. CASE k = m + 1
      <4>1. h[k - 1] = f[m] /\ k # 0
        BY <3>1
      <4> QED
        BY <3>1, <4>1
    <3>2. CASE k # m + 1
      <4>1. k \in 0..m /\ h[k] = f[k]
        BY <3>2
      <4>2. k # 0 => h[k - 1] = f[k - 1]
        BY <3>2
      <4>3. f[k] = IF k = 0 THEN 1 ELSE Unit * f[k - 1]
        BY <2>1, <4>1
      <4> QED
        BY <4>1, <4>2, <4>3
    <3> QED
      BY <3>1, <3>2
  <2>3. h = [k \in 0..m + 1 |-> h[k]]
    OBVIOUS
  <2> HIDE DEF h
  <2>4. Powers(h, m + 1)
    BY <2>2, <2>3
  <2>5. m + 1 \in Nat
    OBVIOUS
  <2> HIDE DEF Powers
  <2> QED
    BY <2>4, <2>5
<1>3. PICK f : Powers(f, n)
  <2>1. n \in Sizes
    <3> HIDE DEF Sizes
    <3> QED
      BY <1>1, <1>2, NatSetInduction
  <2> HIDE DEF Powers
  <2> QED
    BY <2>1
<1> DEFINE g == CHOOSE h : h = [k \in 0..n |-> IF k = 0 THEN 1 ELSE Unit * h[k - 1]]
<1>4. g = [k \in 0..n |-> IF k = 0 THEN 1 ELSE Unit * g[k - 1]]
  BY <1>3
<1>5. Power(n) = g[n]
  BY DEF Power
<1> HIDE DEF g
<1> DEFINE S == {m \in Nat : m <= n => g[m] \in Nat}
<1>6. 0 \in S
  BY <1>4
<1>7. ASSUME NEW m \in Nat, m \in S PROVE m + 1 \in S
  <2> SUFFICES ASSUME m + 1 <= n PROVE g[m + 1] \in Nat
    OBVIOUS
  <2>1. PICK x \in Nat : x = g[m]
    BY <1>7
  <2>2. g[m + 1] = Unit * x
    BY <1>4, <2>1
  <2> QED
    BY <2>2 DEF Unit
<1>8. n \in S
  <2> HIDE DEF S
  <2> QED
    BY <1>6, <1>7, NatSetInduction
<1> QED
  BY <1>5, <1>8

(***************************************************************************)
(* Risk-v1 rises with the least confidence.                                *)
(***************************************************************************)
LEMMA UpToUnit == \A x \in 0..Unit : x \in Nat /\ x \in Int /\ x <= Unit
BY DEF Unit

LEMMA Scaled ==
  ASSUME NEW a \in Nat, NEW b \in Nat, NEW c \in Nat, a <= b
  PROVE  a * c \in Nat /\ b * c \in Nat /\ a * c <= b * c
<1>1. PICK d \in Nat : d = b - a /\ b = a + d
  OBVIOUS
<1>2. a * c \in Nat /\ d * c \in Nat
  OBVIOUS
<1>3. b * c = a * c + d * c
  BY <1>1
<1> QED
  BY <1>2, <1>3

LEMMA RiskRises ==
  ASSUME NEW p \in Seq(EvidencedEdge), NEW q \in Seq(EvidencedEdge), Len(p) = Len(q),
         NEW f \in Factor,
         NEW time \in Nat, NEW later \in Nat,
         MinimumConfidence(q, later) <= MinimumConfidence(p, time)
  PROVE  Risk("risk-v1", q, f, later) <= Risk("risk-v1", p, f, time)
<1>0. PICK g \in Nat, h \in Nat : g = Precision /\ h = Precision * Precision * Precision
  <2>1. PICK g \in Nat : g = Precision
    BY FactorsAreFractions
  <2>2. g * g * g \in Nat
    OBVIOUS
  <2> QED
    BY <2>1, <2>2
<1>1. PICK n \in Nat : n = Len(p)
  BY LenProperties
<1>2. PICK u \in Nat, one \in Nat : u = Power(n) /\ one = h * Power(n + 1)
  <2>1. n + 1 \in Nat
    OBVIOUS
  <2>2. PICK v \in Nat, w \in Nat : v = Power(n) /\ w = Power(n + 1)
    BY <2>1, PowerIs
  <2>3. h * w \in Nat
    OBVIOUS
  <2> QED
    BY <2>2, <2>3
<1>3. PICK x \in Nat, y \in Nat :
        x = MinimumConfidence(p, time) /\ y = MinimumConfidence(q, later) /\ y <= x
  BY MinimumIs
<1>4. PICK c \in Nat : c = f.criticality * f.exposure * f.enablement
  <2>1. PICK i \in Nat, j \in Nat, k \in Nat :
          i = f.criticality /\ j = f.exposure /\ k = f.enablement
    <3>1. f.criticality \in 0..g /\ f.exposure \in 0..g /\ f.enablement \in 0..g
      BY <1>0 DEF Factor
    <3>2. \A part \in 0..g : part \in Nat
      OBVIOUS
    <3> QED
      BY <3>1, <3>2
  <2>2. i * j * k \in Nat
    OBVIOUS
  <2> QED
    BY <2>1, <2>2
<1>5. PICK a \in 0..g : a = f.amplifier
  BY <1>0 DEF Factor
<1>6. PICK v \in Nat, w \in Nat : v = x * u /\ w = y * u /\ w <= v
  BY <1>3, Scaled
<1>7. PICK s \in Nat, t \in Nat : s = c * v /\ t = c * w /\ t <= s
  <2>1. w * c \in Nat /\ v * c \in Nat /\ w * c <= v * c
    BY <1>6, Scaled
  <2>2. c * v = v * c /\ c * w = w * c
    OBVIOUS
  <2> QED
    BY <2>1, <2>2
<1>8. /\ PathConfidence("risk-v1", p, time) = v
      /\ PathConfidence("risk-v1", q, later) = w
  BY <1>1, <1>2, <1>3, <1>6 DEF PathConfidence
<1>9. /\ Risk("risk-v1", p, f, time) = g * s + (one - s) * a
      /\ Risk("risk-v1", q, f, later) = g * t + (one - t) * a
  BY <1>0, <1>1, <1>2, <1>4, <1>5, <1>7, <1>8 DEF Risk
<1>10. PICK b \in Nat : b = g - a /\ g = a + b
  OBVIOUS
<1>11. /\ g * s + (one - s) * a = s * b + one * a
       /\ g * t + (one - t) * a = t * b + one * a
  <2>1. a \in Nat /\ g * s = a * s + b * s /\ g * t = a * t + b * t
    BY <1>10
  <2> QED
    BY <2>1
<1>12. PICK k \in Nat, l \in Nat, m \in Nat : k = s * b /\ l = t * b /\ m = one * a /\ l <= k
  <2>1. t * b \in Nat /\ s * b \in Nat /\ t * b <= s * b
    BY <1>7, Scaled
  <2> QED
    BY <2>1
<1> QED
  BY <1>9, <1>11, <1>12

\* If no edge is trusted more, neither is the path.
LEMMA MinimumRises ==
  ASSUME NEW p \in Seq(EvidencedEdge), NEW q \in Seq(EvidencedEdge),
         DOMAIN q = DOMAIN p, NEW time \in Nat, NEW later \in Nat,
         \A k \in DOMAIN p : EdgeConfidence(q, k, later) <= EdgeConfidence(p, k, time)
  PROVE  MinimumConfidence(q, later) <= MinimumConfidence(p, time)
<1>1. PICK x \in 0..Unit, y \in 0..Unit :
        x = MinimumConfidence(p, time) /\ y = MinimumConfidence(q, later)
  BY MinimumIs
<1>2. CASE x = Unit
  BY <1>1, <1>2, UpToUnit
<1>3. CASE x # Unit
  <2>1. PICK k \in DOMAIN p : x = EdgeConfidence(p, k, time)
    BY <1>1, <1>3, MinimumIs
  <2>2. y <= EdgeConfidence(q, k, later)
    BY <1>1, MinimumIs
  <2>3. EdgeConfidence(q, k, later) <= x
    BY <2>1
  <2>4. EdgeConfidence(q, k, later) \in Int
    <3>1. PICK t \in Tier : t = Resolved(q, k, later).tier
      BY ResolvedIs
    <3>2. t <= t
      BY DEF Tier
    <3>3. EdgeConfidence(q, k, later) \in 0..Unit
      BY <3>1, <3>2, TrustRises
    <3> QED
      BY <3>3, UpToUnit
  <2> QED
    BY <1>1, <2>2, <2>3, <2>4, UpToUnit
<1> QED
  BY <1>1, <1>2, <1>3

LEMMA PathAges ==
  ASSUME NEW p \in Seq(EvidencedEdge), NEW time \in Nat,
         NEW f \in Factor
  PROVE  Risk("risk-v1", p, f, time + 1) <= Risk("risk-v1", p, f, time)
<1>1. PICK later \in Nat : later = time + 1
  OBVIOUS
<1>2. ASSUME NEW k \in DOMAIN p
      PROVE  EdgeConfidence(p, k, later) <= EdgeConfidence(p, k, time)
  <2>1. PICK t \in Tier, u \in Tier :
          t = Resolved(p, k, time).tier /\ u = Resolved(p, k, later).tier
    BY ResolvedIs
  <2>2. CASE p[k].tier = "INFERRED" \/ p[k].rows = <<>>
    <3>1. t = 0 /\ u = 0
      BY <2>1, <2>2, ResolvedIs
    <3>2. Resolved(p, k, later).tier <= Resolved(p, k, time).tier
      BY <2>1, <3>1
    <3> QED
      BY <3>2, TrustRises
  <2>3. CASE ~(p[k].tier = "INFERRED" \/ p[k].rows = <<>>)
    <3>1. PICK rows \in Seq(EvidenceRow) : rows = p[k].rows
      BY ResolvedIs
    <3>2. Resolves(rows, time, t) /\ Resolves(rows, later, u)
      BY <2>1, <2>3, <3>1, ResolvedIs
    <3>3. u <= t
      BY <1>1, <3>2, AgedResolves
    <3> QED
      BY <2>1, <3>3, TrustRises
  <2> QED
    BY <2>2, <2>3
<1>3. MinimumConfidence(p, later) <= MinimumConfidence(p, time)
  BY <1>2, MinimumRises
<1> QED
  BY <1>1, <1>3, RiskRises

LEMMA PathReordered ==
  ASSUME NEW p \in Seq(EvidencedEdge), NEW q \in Reordered(p), NEW time \in Nat,
         NEW f \in Factor
  PROVE  Risk("risk-v1", q, f, time) = Risk("risk-v1", p, f, time)
<1>1. PICK m, new : /\ m \in DOMAIN p /\ new \in Shuffles(p[m].rows)
                     /\ q = [p EXCEPT ![m].rows = new]
  <2>1. PICK m \in DOMAIN p : q \in {[p EXCEPT ![m].rows = rows] : rows \in Shuffles(p[m].rows)}
    BY DEF Reordered
  <2> QED
    BY <2>1
<1>2. PICK n \in Nat : n = Len(p) /\ DOMAIN p = 1..n /\ \A k \in 1..n : p[k] \in EvidencedEdge
  BY LenProperties, ElementOfSeq
<1>3. PICK rows \in Seq(EvidenceRow) : rows = p[m].rows
  BY <1>1, <1>2 DEF EvidencedEdge
<1>4. PICK g \in Bijection(DOMAIN rows, DOMAIN rows) :
        new = [i \in DOMAIN rows |-> rows[g[i]]]
  BY <1>1, <1>3 DEF Shuffles
<1>5. PICK l \in Nat : l = Len(rows) /\ DOMAIN rows = 1..l
  BY LenProperties
<1>6. \A i \in 1..l : g[i] \in 1..l
  BY <1>4, <1>5 DEF Bijection, Injection
<1>7. new \in Seq(EvidenceRow) /\ (new = <<>> <=> rows = <<>>)
  <2>1. \A i \in 1..l : rows[g[i]] \in EvidenceRow
    BY <1>5, <1>6, ElementOfSeq
  <2>2. new = [i \in 1..l |-> rows[g[i]]]
    BY <1>4, <1>5
  <2>3. new \in Seq(EvidenceRow) /\ Len(new) = l
    BY <2>1, <2>2
  <2> QED
    BY <1>5, <2>3, EmptySeq
<1>8. /\ q \in Seq(EvidencedEdge) /\ DOMAIN q = 1..n /\ Len(q) = n
      /\ \A k \in 1..n : k # m => q[k] = p[k]
      /\ q[m].rows = new /\ q[m].tier = p[m].tier
  <2>1. q = [k \in 1..n |-> IF k = m THEN [p[m] EXCEPT !.rows = new] ELSE p[k]]
    BY <1>1, <1>2
  <2>2. [p[m] EXCEPT !.rows = new] \in EvidencedEdge
    BY <1>1, <1>2, <1>7 DEF EvidencedEdge
  <2>3. /\ [p[m] EXCEPT !.rows = new].rows = new
        /\ [p[m] EXCEPT !.rows = new].tier = p[m].tier
    BY <1>1, <1>2 DEF EvidencedEdge
  <2>4. \A k \in 1..n : q[k] \in EvidencedEdge
    BY <1>2, <2>1, <2>2
  <2>5. q \in Seq(EvidencedEdge) /\ Len(q) = n
    <3>1. q \in [1..n -> EvidencedEdge]
      BY <2>1, <2>4
    <3>2. q \in Seq(EvidencedEdge)
      BY <3>1, SeqDef
    <3> QED
      BY <3>1, <3>2, LenProperties
  <2> QED
    BY <1>1, <1>2, <2>1, <2>3, <2>5
<1>9. ASSUME NEW k \in DOMAIN p
      PROVE  /\ EdgeConfidence(q, k, time) <= EdgeConfidence(p, k, time)
             /\ EdgeConfidence(p, k, time) <= EdgeConfidence(q, k, time)
  <2>1. PICK t \in Tier, u \in Tier :
          t = Resolved(p, k, time).tier /\ u = Resolved(q, k, time).tier
    BY <1>2, <1>8, ResolvedIs
  <2>2. q[k].tier = p[k].tier /\ (q[k].rows = <<>> <=> p[k].rows = <<>>)
    BY <1>2, <1>3, <1>7, <1>8
  <2>3. t = u
    <3>1. CASE p[k].tier = "INFERRED" \/ p[k].rows = <<>>
      BY <1>2, <1>8, <2>1, <2>2, <3>1, ResolvedIs
    <3>2. CASE ~(p[k].tier = "INFERRED" \/ p[k].rows = <<>>)
      <4>1. PICK r, s : r = p[k].rows /\ s = q[k].rows
        OBVIOUS
      <4>2. /\ r \in Seq(EvidenceRow) /\ s \in Seq(EvidenceRow)
            /\ Resolves(r, time, t) /\ Resolves(s, time, u)
        BY <1>2, <1>8, <2>1, <2>2, <3>2, <4>1, ResolvedIs
      <4>3. s = r \/ s \in Shuffles(r)
        BY <1>1, <1>2, <1>8, <4>1
      <4>4. Resolves(s, time, t)
        BY <4>2, <4>3, ShuffledResolves
      <4> QED
        BY <4>2, <4>4, OneTier
    <3> QED
      BY <3>1, <3>2
  <2>4. t <= t
    BY DEF Tier
  <2> QED
    BY <1>2, <1>8, <2>1, <2>2, <2>3, <2>4, TrustRises
<1>10. DOMAIN q = DOMAIN p /\ Len(p) = Len(q)
  BY <1>2, <1>8
<1>11. /\ MinimumConfidence(q, time) <= MinimumConfidence(p, time)
       /\ MinimumConfidence(p, time) <= MinimumConfidence(q, time)
  BY <1>8, <1>9, <1>10, MinimumRises
<1>12. MinimumConfidence(q, time) = MinimumConfidence(p, time)
  <2>1. MinimumConfidence(q, time) \in 0..Unit /\ MinimumConfidence(p, time) \in 0..Unit
    BY <1>8, MinimumIs
  <2>2. PICK x \in Nat, y \in Nat :
          x = MinimumConfidence(p, time) /\ y = MinimumConfidence(q, time)
    BY <2>1, UpToUnit
  <2> QED
    BY <1>11, <2>2
<1> QED
  BY <1>10, <1>12 DEF Risk, PathConfidence

-----------------------------------------------------------------------------
(***************************************************************************)
(* The theorems about evidence.                                            *)
(***************************************************************************)
AgingInv ==
  /\ path \in Seq(EvidencedEdge)
  /\ factors \in Factor
  /\ now \in Nat

LEMMA AgingInvariance == AgingSpec => []AgingInv
<1>1. AgingInit => AgingInv
  BY PathsAreEvidenced, FactorsAreFractions DEF AgingInit, AgingInv
<1>2. AgingInv /\ [EvaluateLater]_agingVars => AgingInv'
  BY DEF AgingInv, EvaluateLater, agingVars
<1> QED
  BY <1>1, <1>2, PTL DEF AgingSpec

\* decay.py and risk-v1: whatever the evidence of a path, its risk is never
\* higher when the evidence is older, although decay may change which row wins.
THEOREM Pessimism == AgingSpec => AgingNeverRaisesRisk
<1> DEFINE Lower == Risk("risk-v1", path, factors, now') <= Risk("risk-v1", path, factors, now)
<1>1. AgingInv /\ [EvaluateLater]_agingVars => [Lower]_now
  <2> SUFFICES ASSUME AgingInv, EvaluateLater PROVE Lower
    BY DEF agingVars
  <2>1. PICK p, f, t : p = path /\ f = factors /\ t = now
    OBVIOUS
  <2>2. /\ p \in Seq(EvidencedEdge) /\ t \in Nat
        /\ f \in Factor
    BY <2>1 DEF AgingInv
  <2>3. now' = t + 1
    BY <2>1 DEF EvaluateLater
  <2>4. Risk("risk-v1", p, f, t + 1) <= Risk("risk-v1", p, f, t)
    BY <2>2, PathAges
  <2> QED
    BY <2>1, <2>3, <2>4
<1> QED
  BY <1>1, AgingInvariance, PTL DEF AgingSpec, AgingNeverRaisesRisk

\* resolve_edge_evidence sorts rows that no query orders: their order does not
\* show in the risk.
THEOREM RowOrder == AgingSpec => []RowOrderKeepsConfidence
<1>1. AgingInv => RowOrderKeepsConfidence
  BY PathReordered DEF AgingInv, RowOrderKeepsConfidence
<1> QED
  BY <1>1, AgingInvariance, PTL

-----------------------------------------------------------------------------
(***************************************************************************)
(* Policies and contexts.  Each is a function of the input it was built    *)
(* from: the invariant says which.                                         *)
(***************************************************************************)
\* What ConstructPolicy builds, of an input no check refuses.
Built(in) ==
  CASE in.kind = "v2" -> PolicyV2(in)
    [] in.kind = "v1" -> PolicyV1(in)
    [] OTHER          -> [kind |-> in.kind]

BuiltFrom(p, in) == p = Built(in) /\ (in.kind = "v2" => Accepted(in))

PolicyInv ==
  /\ input \in [Side -> Inputs]
  /\ policy = [x \in Side |-> policy[x]]
  /\ context = [x \in Side |-> context[x]]
  /\ stage = [x \in Side |-> stage[x]]
  /\ \A x \in Side :
       /\ stage[x] = "new" => policy[x] = NoPolicy
       /\ policy[x] # NoPolicy => BuiltFrom(policy[x], input[x])
       /\ stage[x] = "policy" => policy[x] # NoPolicy
       /\ context[x] # NoContext =>
            /\ policy[x] # NoPolicy
            /\ ContextAccepted(policy[x], input[x])
            /\ context[x] = Context(policy[x], input[x])
  /\ verdict # "none" =>
       /\ \A x \in Side : policy[x] # NoPolicy
       /\ verdict = Verdict(policy[1], policy[2])

LEMMA PolicyInit == Init => PolicyInv
BY DEF Init, PolicyInv, Side

LEMMA PolicyConstructed ==
  ASSUME PolicyInv, NEW x \in Side, ConstructPolicy(x)
  PROVE  PolicyInv'
<1> DEFINE in    == input[x]
           built == CASE in.kind = "v2" -> IF Accepted(in) THEN PolicyV2(in) ELSE NoPolicy
                      [] in.kind = "v1" -> PolicyV1(in)
                      [] OTHER          -> [kind |-> in.kind]
<1>1. /\ stage[x] = "new" /\ policy[x] = NoPolicy
      /\ policy' = [policy EXCEPT ![x] = built]
      /\ stage' = [stage EXCEPT ![x] = IF built = NoPolicy THEN "rejected" ELSE "policy"]
      /\ UNCHANGED <<input, context, verdict>>
  BY DEF ConstructPolicy, PolicyInv
<1>2. built # NoPolicy => BuiltFrom(built, in)
  <2>1. CASE in.kind = "v2" /\ Accepted(in)
    BY <2>1 DEF Built, BuiltFrom
  <2>2. CASE in.kind = "v2" /\ ~Accepted(in)
    BY <2>2
  <2>3. CASE in.kind = "v1"
    BY <2>3 DEF Built, BuiltFrom
  <2>4. CASE in.kind # "v1" /\ in.kind # "v2"
    BY <2>4 DEF Built, BuiltFrom
  <2> QED
    BY <2>1, <2>2, <2>3, <2>4
<1> HIDE DEF built
<1>3. /\ policy'[x] = built
      /\ \A y \in Side \ {x} : policy'[y] = policy[y] /\ stage'[y] = stage[y]
      /\ policy' = [y \in Side |-> policy'[y]]
  BY <1>1 DEF PolicyInv
<1>4. verdict = "none" /\ context[x] = NoContext
  BY <1>1 DEF PolicyInv
<1>5. stage'[x] = "new" => FALSE
  <2>1. stage'[x] = IF built = NoPolicy THEN "rejected" ELSE "policy"
    BY <1>1 DEF PolicyInv
  <2> QED
    BY <2>1
<1>6. stage'[x] = "policy" => built # NoPolicy
  BY <1>1 DEF PolicyInv
<1> QED
  BY <1>1, <1>2, <1>3, <1>4, <1>5, <1>6 DEF PolicyInv

LEMMA ContextConstructed ==
  ASSUME PolicyInv, NEW x \in Side, ConstructContext(x)
  PROVE  PolicyInv'
<1> DEFINE accepted == ContextAccepted(policy[x], input[x])
           built    == IF accepted THEN Context(policy[x], input[x]) ELSE NoContext
<1>1. /\ stage[x] = "policy" /\ policy[x] # NoPolicy
      /\ context' = [context EXCEPT ![x] = built]
      /\ stage' = [stage EXCEPT ![x] = IF accepted THEN "context" ELSE "refused"]
      /\ UNCHANGED <<input, policy, verdict>>
  BY DEF ConstructContext, PolicyInv
<1>2. built # NoContext => accepted /\ built = Context(policy[x], input[x])
  OBVIOUS
<1> HIDE DEF built, accepted
<1>3. /\ context'[x] = built /\ stage'[x] = IF accepted THEN "context" ELSE "refused"
      /\ \A y \in Side \ {x} : context'[y] = context[y] /\ stage'[y] = stage[y]
      /\ context' = [y \in Side |-> context'[y]]
      /\ stage' = [y \in Side |-> stage'[y]]
  BY <1>1 DEF PolicyInv
<1>4. built # NoContext => /\ ContextAccepted(policy[x], input[x])
                           /\ built = Context(policy[x], input[x])
  BY <1>2 DEF accepted
<1>5. stage'[x] # "new" /\ stage'[x] # "policy"
  BY <1>3
<1> QED
  BY <1>1, <1>3, <1>4, <1>5 DEF PolicyInv

LEMMA PolicyVerified ==
  ASSUME PolicyInv, VerifyComparability
  PROVE  PolicyInv'
BY DEF PolicyInv, VerifyComparability

LEMMA PolicyInvariance == Spec => []PolicyInv
<1>1. PolicyInv /\ [Next]_vars => PolicyInv'
  <2> SUFFICES ASSUME PolicyInv, [Next]_vars PROVE PolicyInv'
    OBVIOUS
  <2>1. CASE \E x \in Side : ConstructPolicy(x)
    BY <2>1, PolicyConstructed
  <2>2. CASE \E x \in Side : ConstructContext(x)
    BY <2>2, ContextConstructed
  <2>3. CASE VerifyComparability
    BY <2>3, PolicyVerified
  <2>4. CASE UNCHANGED vars
    BY <2>4 DEF vars, PolicyInv
  <2> QED
    BY <2>1, <2>2, <2>3, <2>4 DEF Next
<1> QED
  BY <1>1, PolicyInit, PTL DEF Spec

\* A V2 policy is its meaning: types that list the same set are one list, and
\* the costs are those of that set.
LEMMA PolicyIsMeaning ==
  ASSUME NEW in \in Inputs, NEW ot \in Inputs, Accepted(in), Accepted(ot)
  PROVE  PolicyV2(in) = PolicyV2(ot) <=> Meaning(in) = Meaning(ot)
<1>1. /\ in.costs = [t \in TypeSet(in.types) |-> in.costs[t]]
      /\ ot.costs = [t \in TypeSet(ot.types) |-> ot.costs[t]]
  BY InputsAreTyped DEF Accepted
<1>2. in.costs = ot.costs => TypeSet(in.types) = TypeSet(ot.types)
  BY DEF Accepted
<1>3. TypeSet(in.types) = TypeSet(ot.types)
        => CanonicalTypes(in.types) = CanonicalTypes(ot.types)
  BY DEF CanonicalTypes
<1>4. Meaning(in) = [maxHops |-> in.maxHops, budget |-> in.budget,
                     maxPaths |-> in.maxPaths, costs |-> in.costs]
  BY <1>1 DEF Meaning
<1>5. Meaning(ot) = [maxHops |-> ot.maxHops, budget |-> ot.budget,
                     maxPaths |-> ot.maxPaths, costs |-> ot.costs]
  BY <1>1 DEF Meaning
<1> QED
  BY <1>2, <1>3, <1>4, <1>5 DEF PolicyV2

\* The kind of a policy is that of its input.
LEMMA KindBuilt ==
  ASSUME NEW in \in Inputs
  PROVE  Built(in).kind = in.kind
BY DEF Built, PolicyV1, PolicyV2

\* Weights that round alike are less than one unit of the fourth decimal apart.
LEMMA RoundedApart ==
  ASSUME NEW m \in Int, NEW n \in Int, Rounded(m) = Rounded(n)
  PROVE  m - n \in -9..9
<1> DEFINE Size(w) == IF w < 0 THEN -w ELSE w
<1>1. (m < 0 <=> n < 0) /\ (Size(m) + 5) \div 10 = (Size(n) + 5) \div 10
  BY DEF Rounded
<1>2. PICK k \in Nat, l \in Nat : k = Size(m) /\ l = Size(n)
  OBVIOUS
<1>3. k - l \in -9..9
  BY <1>1, <1>2
<1>4. CASE m < 0
  BY <1>1, <1>2, <1>3, <1>4
<1>5. CASE ~(m < 0)
  BY <1>1, <1>2, <1>3, <1>5
<1> QED
  BY <1>4, <1>5

\* An aware time is the instant it names.
LEMMA Normalized ==
  ASSUME NEW time \in [aware : BOOLEAN, local : Int, offset : Int], time.aware
  PROVE  NormalizeTime(time) = [aware |-> TRUE, local |-> time.local - time.offset,
                                offset |-> 0]
<1>1. PICK l \in Int, o \in Int : time = [aware |-> TRUE, local |-> l, offset |-> o]
  <2>1. time = [aware |-> time.aware, local |-> time.local, offset |-> time.offset]
    OBVIOUS
  <2>2. time.aware = TRUE /\ time.local \in Int /\ time.offset \in Int
    OBVIOUS
  <2> QED
    BY <2>1, <2>2
<1>2. time.local = l /\ time.offset = o
  BY <1>1
<1>3. NormalizeTime(time) = [[time EXCEPT !.local = l - o] EXCEPT !.offset = 0]
  BY <1>1, <1>2 DEF NormalizeTime
<1> QED
  BY <1>1, <1>2, <1>3

\* verify_comparability: V2 policies are comparable exactly when they mean the
\* same, and then answer alike on every store; comparable legacy policies
\* differ by less than the precision of a fingerprint.
THEOREM Comparability == Spec => []ComparableMeansSameAnalysis
<1> SUFFICES PolicyInv => ComparableMeansSameAnalysis
  BY PolicyInvariance, PTL
<1> SUFFICES ASSUME PolicyInv, verdict # "none" PROVE ComparableMeansSameAnalysis
  BY DEF ComparableMeansSameAnalysis
<1> DEFINE p == policy[1]
           q == policy[2]
<1>1. PICK a \in Inputs, b \in Inputs : a = input[1] /\ b = input[2]
  BY DEF PolicyInv, Side
<1>2. /\ p = Built(a) /\ (a.kind = "v2" => Accepted(a)) /\ p.kind = a.kind
      /\ q = Built(b) /\ (b.kind = "v2" => Accepted(b)) /\ q.kind = b.kind
      /\ verdict = Verdict(p, q)
  BY <1>1, KindBuilt DEF PolicyInv, BuiltFrom, Side
<1> HIDE DEF p, q
<1>3. verdict = "comparable"
        => p.kind = q.kind /\ p.kind \in {"v1", "v2"} /\ Fingerprint(p) = Fingerprint(q)
  BY <1>2 DEF Verdict
<1>4. p.kind = q.kind /\ p.kind \in {"v1", "v2"} /\ Fingerprint(p) = Fingerprint(q)
        => verdict = "comparable"
  BY <1>2 DEF Verdict
<1>5. CASE a.kind = "v2" /\ b.kind = "v2"
  <2>1. p = PolicyV2(a) /\ q = PolicyV2(b)
    BY <1>2, <1>5 DEF Built
  <2>2. Fingerprint(p) = p /\ Fingerprint(q) = q
    BY <1>2, <1>5 DEF Fingerprint
  <2>3. verdict = "comparable" <=> p = q
    BY <1>2, <1>3, <1>4, <1>5, <2>2
  <2>4. verdict = "comparable" <=> Meaning(a) = Meaning(b)
    BY <1>2, <1>5, <2>1, <2>3, PolicyIsMeaning
  <2>5. verdict = "comparable" => SameAnswers(p, q)
    BY <2>3 DEF SameAnswers
  <2> QED
    BY <1>1, <1>2, <1>5, <2>4, <2>5 DEF ComparableMeansSameAnalysis, p, q
<1>6. CASE a.kind = "v1" /\ b.kind = "v1"
  <2>1. p = PolicyV1(a) /\ q = PolicyV1(b)
    BY <1>2, <1>6 DEF Built
  <2>2. ASSUME verdict = "comparable"
        PROVE  p = [q EXCEPT !.weight = p.weight] /\ p.weight - q.weight \in -9..9
    <3>1. [p EXCEPT !.weight = Rounded(@)] = [q EXCEPT !.weight = Rounded(@)]
      BY <1>2, <1>3, <1>6, <2>2 DEF Fingerprint
    <3>2. /\ a.maxHops = b.maxHops /\ a.budget = b.budget /\ a.maxPaths = b.maxPaths
          /\ a.types = b.types /\ a.costs = b.costs
          /\ Rounded(a.weight) = Rounded(b.weight)
      BY <2>1, <3>1 DEF PolicyV1
    <3>3. p.weight = a.weight /\ q.weight = b.weight /\ a.weight \in Int /\ b.weight \in Int
      BY <2>1, InputsAreTyped DEF PolicyV1
    <3>4. p = [q EXCEPT !.weight = p.weight]
      BY <2>1, <3>2 DEF PolicyV1
    <3> QED
      BY <3>2, <3>3, <3>4, RoundedApart
  <2> QED
    BY <1>1, <1>2, <1>6, <2>2 DEF ComparableMeansSameAnalysis, p, q
<1>7. CASE ~(a.kind = "v2" /\ b.kind = "v2") /\ ~(a.kind = "v1" /\ b.kind = "v1")
  <2>1. verdict # "comparable"
    BY <1>2, <1>3, <1>7
  <2>2. {p.kind, q.kind} # {"v2"} /\ {p.kind, q.kind} # {"v1"}
    BY <1>2, <1>7
  <2> QED
    BY <2>1, <2>2 DEF ComparableMeansSameAnalysis, p, q
<1> QED
  BY <1>5, <1>6, <1>7

\* AnalysisContext.provenance is equal exactly when policy, instant and scope
\* definition are.
THEOREM Provenances == Spec => []ProvenanceIdentifiesAnalysis
<1> SUFFICES PolicyInv => ProvenanceIdentifiesAnalysis
  BY PolicyInvariance, PTL
<1> SUFFICES ASSUME PolicyInv, \A x \in Side : context[x] # NoContext
             PROVE  ProvenanceIdentifiesAnalysis
  BY DEF ProvenanceIdentifiesAnalysis
<1>1. PICK a \in Inputs, b \in Inputs : a = input[1] /\ b = input[2]
  BY DEF PolicyInv, Side
<1> DEFINE p == PolicyV2(a)
           q == PolicyV2(b)
<1>2. /\ a.kind = "v2" /\ Accepted(a) /\ a.time.aware /\ context[1] = Context(p, a)
      /\ b.kind = "v2" /\ Accepted(b) /\ b.time.aware /\ context[2] = Context(q, b)
      /\ ScopeAccepted(a.scope) /\ ScopeAccepted(b.scope)
  <2>1. /\ BuiltFrom(policy[1], a) /\ ContextAccepted(policy[1], a)
        /\ context[1] = Context(policy[1], a)
    BY <1>1 DEF PolicyInv, Side
  <2>2. /\ BuiltFrom(policy[2], b) /\ ContextAccepted(policy[2], b)
        /\ context[2] = Context(policy[2], b)
    BY <1>1 DEF PolicyInv, Side
  <2>3. a.kind = "v2" /\ b.kind = "v2"
    BY <2>1, <2>2, KindBuilt DEF BuiltFrom, ContextAccepted
  <2> QED
    BY <2>1, <2>2, <2>3 DEF BuiltFrom, Built, ContextAccepted
<1>3. p = q <=> Meaning(a) = Meaning(b)
  BY <1>2, PolicyIsMeaning
<1>4. p.kind = "v2" /\ q.kind = "v2" /\ Fingerprint(p) = p /\ Fingerprint(q) = q
  BY DEF PolicyV2, Fingerprint
<1> HIDE DEF p, q
<1>5. NormalizeTime(a.time) = NormalizeTime(b.time)
        <=> a.time.local - a.time.offset = b.time.local - b.time.offset
  <2>1. PICK u, w : /\ u = a.time /\ u \in [aware : BOOLEAN, local : Int, offset : Int]
                    /\ w = b.time /\ w \in [aware : BOOLEAN, local : Int, offset : Int]
    BY InputsAreTyped
  <2>2. NormalizeTime(u) = [aware |-> TRUE, local |-> u.local - u.offset, offset |-> 0]
    BY <1>2, <2>1, Normalized
  <2>3. NormalizeTime(w) = [aware |-> TRUE, local |-> w.local - w.offset, offset |-> 0]
    BY <1>2, <2>1, Normalized
  <2>4. PICK m \in Int, n \in Int : m = u.local - u.offset /\ n = w.local - w.offset
    BY <2>1
  <2>5. [aware |-> TRUE, local |-> m, offset |-> 0] = [aware |-> TRUE, local |-> n, offset |-> 0]
          <=> m = n
    OBVIOUS
  <2> QED
    BY <2>1, <2>2, <2>3, <2>4, <2>5
<1>6. a.scope.id = b.scope.id /\ a.scope.version = b.scope.version <=> a.scope = b.scope
  <2>1. /\ a.scope \in [id : Nat, version : Int, resolved : BOOLEAN]
        /\ b.scope \in [id : Nat, version : Int, resolved : BOOLEAN]
    BY InputsAreTyped
  <2>2. a.scope.resolved = TRUE /\ b.scope.resolved = TRUE
    BY <1>2, <2>1 DEF ScopeAccepted
  <2> QED
    BY <2>1, <2>2
<1>7. Provenance(context[1]) =
        [version |-> "v2", fingerprint |-> p, time |-> NormalizeTime(a.time),
         scopeId |-> a.scope.id, scopeVersion |-> a.scope.version]
  BY <1>2, <1>4 DEF Provenance, Context
<1>8. Provenance(context[2]) =
        [version |-> "v2", fingerprint |-> q, time |-> NormalizeTime(b.time),
         scopeId |-> b.scope.id, scopeVersion |-> b.scope.version]
  BY <1>2, <1>4 DEF Provenance, Context
<1>9. Provenance(context[1]) = Provenance(context[2]) <=>
        /\ p = q /\ NormalizeTime(a.time) = NormalizeTime(b.time)
        /\ a.scope.id = b.scope.id /\ a.scope.version = b.scope.version
  BY <1>7, <1>8
<1> QED
  BY <1>1, <1>3, <1>5, <1>6, <1>9 DEF ProvenanceIdentifiesAnalysis
=============================================================================
