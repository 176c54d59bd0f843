------------------------- MODULE CounterfactualProofs -------------------------
(***************************************************************************)
(* For every store, every query and every list of candidates: the checks   *)
(* that the engine makes of itself never fire, each removal splits the     *)
(* baseline into the paths that use the relationship and those that do     *)
(* not, environment risks are what they are said to be, and an             *)
(* authoritative ranking misses no path; and what the overlap analysis     *)
(* says of a baseline, complete or not, is what removing does to it.  And  *)
(* for every call that analyze makes: it gives up for want of a path or    *)
(* for saturation only, no relationship is a better cut than the featured  *)
(* one, and the bounded analysis is that of the report or says that it is  *)
(* not.                                                                    *)
(***************************************************************************)
EXTENDS ShowcaseReport, PathTheorems

-----------------------------------------------------------------------------
(***************************************************************************)
(* The inductive invariant.                                                *)
(***************************************************************************)
IsStore(E) == E \in SUBSET Edge /\ IsFiniteSet(E)

\* Queries that differ in the number of paths they ask for at most.
SameSearch(q, r) ==
  /\ q.source = r.source /\ q.target = r.target
  /\ q.policy = r.policy /\ q.maxHops = r.maxHops /\ q.types = r.types

CallInv ==
  /\ store \in Graphs /\ \E c \in Calls : SameSearch(call.query, c.query)
  /\ IsStore(store)
  /\ IsQuery(call.query)
  /\ call.context \in {"none", "ad_hoc", "canonical"}
  /\ remaining \in Seq(RelId)

BeforeBaseline == {"called", "arguments_rejected", "bounds_error"}

\* What may be recorded for a candidate: the search of the store without it.
Results ==
  {Result(id, FindPaths(WithoutRelationship(store, id))) : id \in RelId}

\* Every result is about the store of the call and its only baseline, neither
\* of which a removal changes.
ResultsInv ==
  /\ phase \in BeforeBaseline => baseline = NoResult /\ results = <<>>
  /\ phase \notin BeforeBaseline => ~BoundsInvalid /\ baseline = FindPaths(store)
  /\ results \in Seq(Results)

RankingInv ==
  phase = "returned" => \E f \in SortingOrders(results) : ranking = Ranking(f)

IInv == CallInv /\ ResultsInv /\ RankingInv /\ FailClosedChecksNeverFire

-----------------------------------------------------------------------------
(***************************************************************************)
(* Searches with and without a relationship.                               *)
(***************************************************************************)
LEMMA QueryTyped ==
  ASSUME NEW q, IsQuery(q)
  PROVE  MaxHops(q) \in Int /\ q.maxPaths \in Int
BY DEF IsQuery, IsPolicy, MaxHops

LEMMA StoreWithout ==
  ASSUME NEW E, IsStore(E), NEW id
  PROVE  IsStore(WithoutRelationship(E, id))
<1>1. WithoutRelationship(E, id) \in SUBSET E
  BY DEF WithoutRelationship
<1>2. IsFiniteSet(WithoutRelationship(E, id))
  BY <1>1, FS_Subset DEF IsStore
<1> QED
  BY <1>1, <1>2 DEF IsStore

\* The answers without a relationship are the answers that do not use it.
LEMMA PathsWithout ==
  ASSUME NEW E, NEW q, MaxHops(q) \in Int, NEW id
  PROVE  AttackPaths(WithoutRelationship(E, id), q) =
           {p \in AttackPaths(E, q) : ~Uses(p, id)}
<1> DEFINE W == WithoutRelationship(E, id)
<1>1. ASSUME NEW p, p \in Seq(W)
      PROVE  p \in Seq(E) /\ ~Uses(p, id)
  <2>1. W \subseteq E /\ \A e \in W : e.id # id
    BY DEF WithoutRelationship
  <2>2. \A i \in 1..Len(p) : p[i] \in W
    BY <1>1, ElementOfSeq
  <2> QED
    BY <1>1, <2>1, <2>2, SeqMonotonic DEF Uses
<1>2. ASSUME NEW p, p \in Seq(E), ~Uses(p, id)
      PROVE  p \in Seq(W)
  <2>1. Len(p) \in Nat /\ p \in [1..Len(p) -> E]
    BY <1>2, LenProperties
  <2>2. \A i \in 1..Len(p) : p[i] \in W
    BY <1>2, <2>1 DEF Uses, WithoutRelationship
  <2>3. p \in [1..Len(p) -> W]
    BY <2>1, <2>2
  <2> QED
    BY <2>1, <2>3, SeqDef
<1> HIDE DEF W
<1>3. ASSUME NEW p
      PROVE  IsAttackPath(W, q, p) <=> IsAttackPath(E, q, p) /\ ~Uses(p, id)
  BY <1>1, <1>2 DEF IsAttackPath, Reachable
<1>4. \A p : p \in AttackPaths(W, q) <=> IsAttackPath(W, q, p)
  BY AttackPathsMember
<1>5. \A p : p \in AttackPaths(E, q) <=> IsAttackPath(E, q, p)
  BY AttackPathsMember
<1> QED
  BY <1>3, <1>4, <1>5 DEF W

\* An unsaturated result holds every answer once.
LEMMA Unsaturated ==
  ASSUME NEW E, IsStore(E), IsQuery(call.query), ~BoundsInvalid, ~FindPaths(E).saturated
  PROVE  /\ PathIds(FindPaths(E)) = AttackPaths(E, call.query)
         /\ Len(FindPaths(E).paths) = Cardinality(AttackPaths(E, call.query))
<1> DEFINE q == call.query
           P == AttackPaths(E, q)
<1>1. MaxHops(q) \in Int /\ q.maxPaths \in Nat /\ q.maxPaths >= 1
  BY QueryTyped DEF BoundsInvalid
<1>2. IsFiniteSet(P) /\ Cardinality(P) \in Nat
  BY <1>1, EnumerationComplete DEF IsStore
<1>3. Cardinality(P) <= q.maxPaths
  <2>1. CASE q.source = q.target
    <3>1. ASSUME NEW p \in P
          PROVE  p = <<>>
      <4>1. IsAttackPath(E, q, p)
        BY <1>1, AttackPathsMember
      <4> HIDE DEF q
      <4> QED
        BY <2>1, <4>1, ZeroHopOnly
    <3>2. P \in SUBSET {<<>>}
      BY <3>1
    <3>3. IsFiniteSet({<<>>}) /\ Cardinality({<<>>}) = 1
      BY FS_Singleton
    <3> HIDE DEF P
    <3>4. Cardinality(P) <= 1
      BY <3>2, <3>3, FS_Subset
    <3> QED
      BY <1>1, <1>2, <3>4
  <2>2. CASE q.source # q.target
    <3>1. ~Saturated(E, q)
      BY DEF FindPaths
    <3>2. ~(Cardinality(P) >= q.maxPaths)
      BY <2>2, <3>1 DEF Saturated
    <3> HIDE DEF P, q
    <3> QED
      BY <1>1, <1>2, <3>2
  <2> QED
    BY <2>1, <2>2
<1>4. FindPaths(E).paths = Enumeration(E, q)
  BY DEF FindPaths
<1>5. /\ {Enumeration(E, q)[k] : k \in 1..Len(Enumeration(E, q))} = P
      /\ Len(Enumeration(E, q)) = Cardinality(P)
  BY <1>1, <1>3, EnumerationComplete DEF IsStore
<1> QED
  BY <1>4, <1>5 DEF PathIds

\* Removing a relationship does not saturate a search.
LEMMA RemovalNeverSaturates ==
  ASSUME NEW E, IsStore(E), IsQuery(call.query), NEW id,
         FindPaths(WithoutRelationship(E, id)).saturated
  PROVE  FindPaths(E).saturated
<1> DEFINE q == call.query
           P == AttackPaths(E, q)
           W == AttackPaths(WithoutRelationship(E, id), q)
<1>1. MaxHops(q) \in Int /\ q.maxPaths \in Int
  BY QueryTyped
<1>2. W \subseteq P
  BY <1>1, PathsWithout
<1>3. IsFiniteSet(P)
  BY <1>1, AttackPathsAreFinite DEF IsStore
<1>4. /\ Cardinality(P) \in Nat /\ Cardinality(W) \in Nat
      /\ Cardinality(W) <= Cardinality(P)
  BY <1>2, <1>3, FS_Subset, FS_CardinalityType
<1>5. q.source # q.target /\ Cardinality(W) >= q.maxPaths
  BY DEF FindPaths, Saturated
<1> QED
  BY <1>1, <1>4, <1>5 DEF FindPaths, Saturated

LEMMA FindPathsSeq ==
  ASSUME NEW E, IsStore(E), IsQuery(call.query), ~BoundsInvalid
  PROVE  Len(FindPaths(E).paths) \in Nat
<1>1. MaxHops(call.query) \in Int /\ call.query.maxPaths \in Nat
  BY QueryTyped DEF BoundsInvalid
<1>2. Enumeration(E, call.query) \in Seq(AttackPaths(E, call.query))
  BY <1>1, EnumerationComplete DEF IsStore
<1> QED
  BY <1>2, LenProperties DEF FindPaths

-----------------------------------------------------------------------------
(***************************************************************************)
(* What a search lists, truncated or not.                                  *)
(***************************************************************************)
\* A sequence that holds each of some answers once.
Lists(paths, P) ==
  /\ paths \in Seq(P)
  /\ {paths[k] : k \in 1..Len(paths)} = P
  /\ \A k, l \in 1..Len(paths) : paths[k] = paths[l] => k = l

\* A search lists the answers that max_paths has room for, each once.
LEMMA SearchLists ==
  ASSUME NEW E, IsStore(E), IsQuery(call.query), ~BoundsInvalid,
         NEW P, P = AttackPaths(E, call.query), NEW L, L = PathIds(FindPaths(E))
  PROVE  /\ L \in SUBSET P /\ IsFiniteSet(P) /\ IsFiniteSet(L)
         /\ \A p \in P : p \in L <=> RankIn(P, p) <= call.query.maxPaths
         /\ Lists(FindPaths(E).paths, L)
         /\ Len(FindPaths(E).paths) = Cardinality(L)
<1>1. PICK count \in Nat : count = call.query.maxPaths
  BY QueryTyped DEF BoundsInvalid
<1>2. IsFiniteSet(P) /\ StrictlyOrdered(P)
  <2>1. E \in SUBSET Edge /\ IsFiniteSet(E) /\ MaxHops(call.query) \in Int
    BY QueryTyped DEF IsStore
  <2> QED
    BY <2>1, AttackPathsAreFinite, AttackPathsOrdered
<1>3. PICK n : n = IF Cardinality(P) <= count THEN Cardinality(P) ELSE count
  OBVIOUS
<1>4. PICK f : f = FirstPaths(P, count)
  OBVIOUS
<1>5. /\ n \in Nat /\ n <= Cardinality(P) /\ n <= count /\ f \in [1..n -> P]
      /\ \A k \in 1..n : RankIn(P, f[k]) = k
      /\ {f[k] : k \in 1..n} = {p \in P : RankIn(P, p) <= n}
  <2>1. /\ n \in Nat /\ n <= Cardinality(P) /\ n <= count
        /\ FirstPaths(P, count) \in [1..n -> P]
        /\ \A k \in 1..n : RankIn(P, FirstPaths(P, count)[k]) = k
        /\ {FirstPaths(P, count)[k] : k \in 1..n} = {p \in P : RankIn(P, p) <= n}
    <3> DEFINE room == IF Cardinality(P) <= count THEN Cardinality(P) ELSE count
               first == FirstPaths(P, count)
    <3>1. /\ room \in Nat /\ room <= Cardinality(P) /\ room <= count
          /\ first \in [1..room -> P]
          /\ \A k \in 1..room : RankIn(P, first[k]) = k
          /\ {first[k] : k \in 1..room} = {p \in P : RankIn(P, p) <= room}
      BY <1>2, FirstPathsProperties
    <3>2. n = room
      BY <1>3
    <3> HIDE DEF room
    <3> QED
      BY <3>1, <3>2
  <2> QED
    BY <1>4, <2>1
<1>6. FindPaths(E).paths = f
  BY <1>1, <1>4 DEF FindPaths, Enumeration
<1>7. Len(f) = n /\ {f[k] : k \in 1..n} = L
  BY <1>5, <1>6 DEF PathIds
<1>8. Cardinality(P) \in Nat /\ \A p \in P : RankIn(P, p) \in 1..Cardinality(P)
  BY <1>2, Ranks
<1>9. \A p \in P : p \in L <=> RankIn(P, p) <= count
  <2>1. \A p \in P : p \in L <=> RankIn(P, p) <= n
    BY <1>5, <1>7
  <2> QED
    BY <1>3, <1>8, <2>1
<1>10. L \in SUBSET P /\ IsFiniteSet(L)
  BY <1>2, <1>5, <1>7, FS_Subset
<1>11. f \in [1..n -> L] /\ \A k, l \in 1..n : f[k] = f[l] => k = l
  BY <1>5, <1>7
<1>12. Lists(f, L)
  BY <1>5, <1>7, <1>11, SeqDef DEF Lists
<1>13. Cardinality(L) = n
  <2>1. f \in Bijection(1..n, L)
    BY <1>7, <1>11 DEF Bijection, Injection, Surjection, IsInjective
  <2>2. IsFiniteSet(1..n) /\ Cardinality(1..n) = n
    <3>1. n \in Nat
      BY <1>5
    <3>2. IsFiniteSet(1..n) /\ Cardinality(1..n) = IF 1 > n THEN 0 ELSE n - 1 + 1
      BY <3>1, FS_Interval
    <3> QED
      BY <3>1, <3>2
  <2> QED
    BY <2>1, <2>2, FS_Bijection DEF ExistsBijection
<1> QED
  BY <1>1, <1>2, <1>6, <1>7, <1>9, <1>10, <1>12, <1>13

\* A path that the search lists and that does not use the relationship is
\* listed without the relationship too: it only moves forward.
LEMMA KeptStayListed ==
  ASSUME NEW E, IsStore(E), IsQuery(call.query), ~BoundsInvalid, NEW id,
         NEW p \in PathIds(FindPaths(E))
  PROVE  p \in PathIds(FindPaths(WithoutRelationship(E, id))) <=> ~Uses(p, id)
<1>1. PICK W, P, Q : /\ W = WithoutRelationship(E, id)
                     /\ P = AttackPaths(E, call.query) /\ Q = AttackPaths(W, call.query)
  OBVIOUS
<1>2. IsStore(W)
  BY <1>1, StoreWithout
<1>3. /\ p \in P /\ IsFiniteSet(P) /\ RankIn(P, p) <= call.query.maxPaths
  BY <1>1, SearchLists
<1>4. /\ PathIds(FindPaths(W)) \in SUBSET Q
      /\ \A r \in Q : r \in PathIds(FindPaths(W)) <=> RankIn(Q, r) <= call.query.maxPaths
  BY <1>1, <1>2, SearchLists
<1>5. Q = {r \in P : ~Uses(r, id)}
  BY <1>1, QueryTyped, PathsWithout
<1>6. RankIn(Q, p) <= RankIn(P, p) /\ RankIn(Q, p) \in Int /\ RankIn(P, p) \in Int
  <2>1. Earlier(Q, p) \in SUBSET Earlier(P, p) /\ Earlier(P, p) \in SUBSET P
    BY <1>5 DEF Earlier
  <2>2. IsFiniteSet(Earlier(P, p))
    BY <1>3, <2>1, FS_Subset
  <2>3. /\ IsFiniteSet(Earlier(Q, p))
        /\ Cardinality(Earlier(Q, p)) <= Cardinality(Earlier(P, p))
    BY <2>1, <2>2, FS_Subset
  <2>4. Cardinality(Earlier(P, p)) \in Nat /\ Cardinality(Earlier(Q, p)) \in Nat
    BY <2>2, <2>3, FS_CardinalityType
  <2> QED
    BY <2>3, <2>4 DEF RankIn
<1>7. call.query.maxPaths \in Int
  BY QueryTyped
<1>8. RankIn(Q, p) <= call.query.maxPaths
  BY <1>3, <1>6, <1>7
<1> QED
  BY <1>1, <1>3, <1>4, <1>5, <1>8

-----------------------------------------------------------------------------
(***************************************************************************)
(* The ranking passes the validators of its schema.                        *)
(***************************************************************************)
\* What was recorded is the search of a store that lacks one relationship.
LEMMA RecordedResult ==
  ASSUME CallInv, ResultsInv, NEW i \in 1..Len(results)
  PROVE  /\ phase \notin BeforeBaseline /\ ~BoundsInvalid /\ baseline = FindPaths(store)
         /\ \E id \in RelId :
              results[i] = Result(id, FindPaths(WithoutRelationship(store, id)))
         /\ results[i].saturated => baseline.saturated
         /\ results[i].rankable = ~(baseline.saturated \/ results[i].saturated)
<1>1. phase \notin BeforeBaseline
  <2> SUFFICES ASSUME phase \in BeforeBaseline PROVE FALSE
    OBVIOUS
  <2>1. results = <<>>
    BY DEF ResultsInv
  <2> QED
    BY <2>1
<1>2. ~BoundsInvalid /\ baseline = FindPaths(store)
  BY <1>1 DEF ResultsInv
<1>3. results[i] \in Results
  BY ElementOfSeq DEF ResultsInv
<1>4. PICK id \in RelId :
        results[i] = Result(id, FindPaths(WithoutRelationship(store, id)))
  BY <1>3 DEF Results
<1>5. /\ results[i].saturated = FindPaths(WithoutRelationship(store, id)).saturated
      /\ results[i].rankable = ~(baseline.saturated \/ results[i].saturated)
  BY <1>4 DEF Result
<1>6. results[i].saturated => baseline.saturated
  BY <1>2, <1>5, RemovalNeverSaturates DEF CallInv
<1> QED
  BY <1>1, <1>2, <1>4, <1>5, <1>6

LEMMA RankingPasses ==
  ASSUME CallInv, ResultsInv, NEW f \in SortingOrders(results)
  PROVE  RankingIsConsistent(Ranking(f))
<1>0. PICK r : r = Ranking(f)
  OBVIOUS
<1>1. Len(results) \in Nat
  BY LenProperties DEF ResultsInv
<1>2. /\ f \in [1..Len(results) -> 1..Len(results)]
      /\ \A k \in 1..Len(results) : \E i \in 1..Len(results) : f[i] = k
  BY DEF SortingOrders
<1>3. /\ Len(Ordered(results, f)) = Len(results)
      /\ \A i \in 1..Len(results) : Ordered(results, f)[i] = results[f[i]]
  BY <1>1, <1>2 DEF Ordered
<1>4. AnySaturated(Ordered(results, f)) <=> AnySaturated(results)
  <2>1. PICK s : s = Ordered(results, f)
    OBVIOUS
  <2>2. Len(s) = Len(results) /\ \A i \in 1..Len(results) : s[i] = results[f[i]]
    BY <1>3, <2>1
  <2>3. ASSUME NEW i \in 1..Len(results), s[i].saturated
        PROVE  f[i] \in 1..Len(results) /\ results[f[i]].saturated
    BY <1>2, <2>2, <2>3
  <2>4. ASSUME NEW k \in 1..Len(results), results[k].saturated
        PROVE  \E i \in 1..Len(results) : s[i].saturated
    <3>1. PICK i \in 1..Len(results) : f[i] = k
      BY <1>2
    <3> QED
      BY <2>2, <2>4, <3>1
  <2>5. AnySaturated(s) <=> AnySaturated(results)
    BY <2>2, <2>3, <2>4 DEF AnySaturated
  <2> QED
    BY <2>1, <2>5
<1>5. AnySaturated(results) => baseline.saturated
  BY RecordedResult DEF AnySaturated
<1>6. \A i \in 1..Len(results) : results[i].rankable = ~(baseline.saturated \/ results[i].saturated)
  BY RecordedResult
<1>7. /\ r.candidates = Ordered(results, f)
      /\ r.baselineSaturated = baseline.saturated
      /\ r.saturated = (baseline.saturated \/ AnySaturated(results))
      /\ r.reasons = Reasons
      /\ r.authoritative = (Reasons = {})
  BY <1>0 DEF Ranking
<1>8. /\ "BASELINE_SATURATED" \in Reasons <=> baseline.saturated
      /\ "COUNTERFACTUAL_SATURATED" \in Reasons <=> AnySaturated(results)
      /\ "NO_ANALYSIS_CONTEXT" \in Reasons <=> call.context = "none"
      /\ "NON_CANONICAL_SCOPE" \in Reasons <=> call.context = "ad_hoc"
  <2> DEFINE own == CASE call.context = "none"   -> {"NO_ANALYSIS_CONTEXT"}
                     [] call.context = "ad_hoc" -> {"NON_CANONICAL_SCOPE"}
                     [] OTHER                   -> {}
             base == IF baseline.saturated THEN {"BASELINE_SATURATED"} ELSE {}
             some == IF AnySaturated(results) THEN {"COUNTERFACTUAL_SATURATED"} ELSE {}
  <2>1. Reasons = base \cup some \cup own
    BY DEF Reasons
  <2>2. /\ call.context = "none" => own = {"NO_ANALYSIS_CONTEXT"}
        /\ call.context = "ad_hoc" => own = {"NON_CANONICAL_SCOPE"}
        /\ call.context = "canonical" => own = {}
    OBVIOUS
  <2>3. base = IF baseline.saturated THEN {"BASELINE_SATURATED"} ELSE {}
    OBVIOUS
  <2>4. some = IF AnySaturated(results) THEN {"COUNTERFACTUAL_SATURATED"} ELSE {}
    OBVIOUS
  <2> HIDE DEF own, base, some
  <2>5. call.context \in {"none", "ad_hoc", "canonical"}
    BY DEF CallInv
  <2> QED
    BY <2>1, <2>2, <2>3, <2>4, <2>5
<1>9. \A i \in 1..Len(r.candidates) :
        r.candidates[i].rankable = ~(r.baselineSaturated \/ r.candidates[i].saturated)
  <2>1. PICK s : s = Ordered(results, f)
    OBVIOUS
  <2>2. Len(s) = Len(results) /\ \A i \in 1..Len(results) : s[i] = results[f[i]]
    BY <1>3, <2>1
  <2>3. r.candidates = s /\ r.baselineSaturated = baseline.saturated
    BY <1>7, <2>1
  <2>4. ASSUME NEW i \in 1..Len(results)
        PROVE  s[i].rankable = ~(baseline.saturated \/ s[i].saturated)
    <3>1. f[i] \in 1..Len(results)
      BY <1>2
    <3>2. s[i] = results[f[i]]
      BY <2>2
    <3>3. results[f[i]].rankable = ~(baseline.saturated \/ results[f[i]].saturated)
      BY <1>6, <3>1
    <3> QED
      BY <3>2, <3>3
  <2> QED
    BY <2>2, <2>3, <2>4
<1>10. AnySaturated(r.candidates) <=> AnySaturated(results)
  BY <1>4, <1>7
<1>11. /\ AnySaturated(r.candidates) => r.baselineSaturated
       /\ r.saturated = (r.baselineSaturated \/ AnySaturated(r.candidates))
       /\ r.authoritative = (r.reasons = {})
  BY <1>5, <1>7, <1>10, Zenon
<1>12. /\ "BASELINE_SATURATED" \in r.reasons <=> r.baselineSaturated
       /\ "COUNTERFACTUAL_SATURATED" \in r.reasons <=> AnySaturated(r.candidates)
       /\ "NO_ANALYSIS_CONTEXT" \in r.reasons <=> call.context = "none"
       /\ "NON_CANONICAL_SCOPE" \in r.reasons <=> call.context = "ad_hoc"
  BY <1>7, <1>8, <1>10, Zenon
<1>13. RankingIsConsistent(r)
  BY <1>9, <1>11, <1>12, Zenon DEF RankingIsConsistent
<1> QED
  BY <1>0, <1>13

-----------------------------------------------------------------------------
(***************************************************************************)
(* The invariant holds in every call.                                      *)
(***************************************************************************)
LEMMA InitInv == Init => IInv
<1> SUFFICES ASSUME Init PROVE IInv
  OBVIOUS
<1>1. CallInv
  BY StoresAreFinite, CallsAreTyped DEF Init, CallInv, IsStore, SameSearch
<1>2. ResultsInv
  BY EmptySeq DEF Init, ResultsInv, BeforeBaseline
<1> QED
  BY <1>1, <1>2 DEF Init, IInv, RankingInv, FailClosedChecksNeverFire

\* What is recorded stays a result of the call while query and baseline stay.
LEMMA SameResults ==
  ASSUME UNCHANGED <<store, call.query, baseline>>
  PROVE  /\ Results' = Results /\ (BoundsInvalid' <=> BoundsInvalid)
         /\ FindPaths(store)' = FindPaths(store)
BY DEF Results, Result, Risk, PathIds, FindPaths, WithoutRelationship, BoundsInvalid

\* A call that ends before the baseline, or with a candidate that is refused,
\* has recorded nothing that was not there.
LEMMA RejectionInv ==
  ASSUME IInv, RejectArguments \/ BaselineBoundsError \/ RejectCandidate
  PROVE  IInv'
<1>1. UNCHANGED <<store, call, remaining, baseline, results, ranking>>
  BY DEF RejectArguments, BaselineBoundsError, RejectCandidate
<1>2. CallInv'
  BY <1>1 DEF IInv, CallInv
<1>3. /\ Results' = Results /\ (BoundsInvalid' <=> BoundsInvalid)
      /\ FindPaths(store)' = FindPaths(store)
  BY <1>1, SameResults
<1>4. /\ phase' \in {"arguments_rejected", "bounds_error", "candidate_rejected"}
      /\ phase' \in BeforeBaseline <=> phase \in BeforeBaseline
  BY DEF RejectArguments, BaselineBoundsError, RejectCandidate, Evaluating, BeforeBaseline
<1>5. ResultsInv'
  BY <1>1, <1>3, <1>4 DEF IInv, ResultsInv
<1> QED
  BY <1>2, <1>4, <1>5 DEF IInv, RankingInv, FailClosedChecksNeverFire

LEMMA EvaluateBaselineInv ==
  ASSUME IInv, EvaluateBaseline
  PROVE  IInv'
<1>1. UNCHANGED <<store, call, remaining, results, ranking>>
  BY DEF EvaluateBaseline
<1>2. CallInv'
  BY <1>1 DEF IInv, CallInv
<1>3. results' = <<>> /\ phase' = "evaluating"
  BY DEF EvaluateBaseline, IInv, ResultsInv, BeforeBaseline
<1>4. ~BoundsInvalid' /\ baseline' = FindPaths(store)'
  BY <1>1 DEF EvaluateBaseline, FindPaths, BoundsInvalid
<1>5. ResultsInv'
  BY <1>3, <1>4, EmptySeq DEF ResultsInv, BeforeBaseline
<1> QED
  BY <1>2, <1>3, <1>5 DEF IInv, RankingInv, FailClosedChecksNeverFire

LEMMA EvaluateCandidateInv ==
  ASSUME IInv, EvaluateCandidate
  PROVE  IInv'
<1> DEFINE cf == FindPaths(WithoutRelationship(store, Candidate))
<1>1. /\ UNCHANGED <<store, call, baseline, ranking>>
      /\ remaining # <<>> /\ remaining' = Tail(remaining) /\ phase = "evaluating"
  BY DEF EvaluateCandidate, Evaluable, Evaluating
<1>2. Candidate \in RelId /\ remaining' \in Seq(RelId)
  BY <1>1, HeadTailProperties DEF IInv, CallInv, Candidate
<1>3. ~BoundsInvalid /\ baseline = FindPaths(store)
  BY <1>1 DEF IInv, ResultsInv, BeforeBaseline
<1>4. ~(cf.saturated /\ ~baseline.saturated)
  BY <1>3, RemovalNeverSaturates DEF IInv, CallInv
<1>5. phase' = "evaluating" /\ results' = Append(results, Result(Candidate, cf))
  BY <1>1, <1>4 DEF EvaluateCandidate
<1>6. Result(Candidate, cf) \in Results
  BY <1>2 DEF Results
<1>7. results' \in Seq(Results)
  BY <1>5, <1>6, AppendProperties DEF IInv, ResultsInv
<1>8. CallInv'
  BY <1>1, <1>2 DEF IInv, CallInv
<1>9. /\ Results' = Results /\ ~BoundsInvalid'
      /\ FindPaths(store)' = FindPaths(store) /\ baseline' = baseline
  BY <1>1, <1>3, SameResults
<1>10. ResultsInv'
  BY <1>3, <1>5, <1>7, <1>9 DEF ResultsInv, BeforeBaseline
<1> QED
  BY <1>5, <1>8, <1>10 DEF IInv, RankingInv, FailClosedChecksNeverFire

LEMMA ReturnRankingInv ==
  ASSUME IInv, ReturnRanking
  PROVE  IInv'
<1>1. /\ UNCHANGED <<store, call, remaining, baseline, results>>
      /\ phase = "evaluating"
  BY DEF ReturnRanking
<1>2. PICK f \in SortingOrders(results) :
        /\ phase' = IF RankingIsConsistent(Ranking(f)) THEN "returned" ELSE "ranking_rejected"
        /\ ranking' = IF RankingIsConsistent(Ranking(f)) THEN Ranking(f) ELSE NoRanking
  BY DEF ReturnRanking
<1>3. phase' = "returned" /\ ranking' = Ranking(f)
  BY <1>2, RankingPasses DEF IInv
<1>4. CallInv'
  BY <1>1 DEF IInv, CallInv
<1>5. /\ Results' = Results /\ (BoundsInvalid' <=> BoundsInvalid)
      /\ FindPaths(store)' = FindPaths(store)
  BY <1>1, SameResults
<1>6. ResultsInv'
  BY <1>1, <1>3, <1>5 DEF IInv, ResultsInv, BeforeBaseline
<1>7. SortingOrders(results)' = SortingOrders(results) /\ Ranking(f)' = Ranking(f)
  BY <1>1 DEF SortingOrders, Ranking, Ordered, AnySaturated, Reasons, Risk
<1>8. RankingInv'
  BY <1>3, <1>7 DEF RankingInv
<1> QED
  BY <1>3, <1>4, <1>6, <1>8 DEF IInv, FailClosedChecksNeverFire

\* The invariant is inductive.
LEMMA NextInv == IInv /\ [Next]_vars => IInv'
<1> SUFFICES ASSUME IInv, [Next]_vars PROVE IInv'
  OBVIOUS
<1>1. CASE RejectArguments \/ BaselineBoundsError \/ RejectCandidate
  BY <1>1, RejectionInv
<1>2. CASE EvaluateBaseline
  BY <1>2, EvaluateBaselineInv
<1>3. CASE EvaluateCandidate
  BY <1>3, EvaluateCandidateInv
<1>4. CASE ReturnRanking
  BY <1>4, ReturnRankingInv
<1>5. CASE UNCHANGED vars
  <2>1. UNCHANGED <<store, call, phase, remaining, baseline, results, ranking>>
    BY <1>5 DEF vars
  <2>2. CallInv'
    BY <2>1 DEF IInv, CallInv
  <2>3. /\ Results' = Results /\ (BoundsInvalid' <=> BoundsInvalid)
        /\ FindPaths(store)' = FindPaths(store)
    BY <2>1, SameResults
  <2>4. ResultsInv'
    BY <2>1, <2>3 DEF IInv, ResultsInv
  <2>5. /\ SortingOrders(results)' = SortingOrders(results)
        /\ \A f : Ranking(f)' = Ranking(f)
    BY <2>1 DEF SortingOrders, Ranking, Ordered, AnySaturated, Reasons, Risk
  <2>6. RankingInv'
    BY <2>1, <2>5 DEF IInv, RankingInv
  <2> QED
    BY <2>1, <2>2, <2>4, <2>6 DEF IInv, FailClosedChecksNeverFire
<1> QED
  BY <1>1, <1>2, <1>3, <1>4, <1>5 DEF Next

\* Every result of a call is the search of the same store without one
\* relationship, and a returned ranking orders them.
THEOREM Invariance == Spec => []IInv
<1> QED
  BY InitInv, NextInv, PTL DEF Spec

-----------------------------------------------------------------------------
\* What theorem Partition says of a state.
LEMMA PartitionFollows == IInv => RemovalPartitionsBaseline
<1> SUFFICES ASSUME IInv, NEW i \in 1..Len(results)
             PROVE  /\ results[i].removed =
                         {p \in PathIds(baseline) : Uses(p, results[i].id)}
                    /\ results[i].kept = PathIds(baseline) \ results[i].removed
                    /\ ~baseline.saturated => results[i].cfCount = Cardinality(results[i].kept)
  BY DEF RemovalPartitionsBaseline
<1>1. /\ ~BoundsInvalid /\ baseline = FindPaths(store)
      /\ results[i].saturated => baseline.saturated
      /\ \E id \in RelId :
           results[i] = Result(id, FindPaths(WithoutRelationship(store, id)))
  BY RecordedResult DEF IInv
<1>2. PICK id \in RelId :
        results[i] = Result(id, FindPaths(WithoutRelationship(store, id)))
  BY <1>1
<1>3. IsStore(store) /\ IsQuery(call.query)
  BY DEF IInv, CallInv
<1>4. PICK W, B, C : /\ W = WithoutRelationship(store, id)
                     /\ B = PathIds(baseline) /\ C = PathIds(FindPaths(W))
  OBVIOUS
<1>5. /\ results[i].id = id /\ results[i].removed = B \ C /\ results[i].kept = B \cap C
      /\ results[i].cfCount = Len(FindPaths(W).paths)
      /\ results[i].saturated = FindPaths(W).saturated
  BY <1>2, <1>4 DEF Result
<1>6. \A p \in B : p \in C <=> ~Uses(p, id)
  BY <1>1, <1>3, <1>4, KeptStayListed
<1>7. ASSUME ~baseline.saturated
      PROVE  results[i].cfCount = Cardinality(results[i].kept)
  <2>1. IsStore(W) /\ ~FindPaths(W).saturated
    BY <1>1, <1>3, <1>4, <1>5, <1>7, StoreWithout
  <2>2. /\ C = AttackPaths(W, call.query) /\ B = AttackPaths(store, call.query)
        /\ Len(FindPaths(W).paths) = Cardinality(C)
    BY <1>1, <1>3, <1>4, <1>7, <2>1, Unsaturated
  <2>3. C \subseteq B
    BY <1>3, <1>4, <2>2, QueryTyped, PathsWithout
  <2> QED
    BY <1>5, <2>2, <2>3
<1>8. results[i].removed = {p \in B : Uses(p, id)} /\ results[i].kept = B \ results[i].removed
  BY <1>5, <1>6
<1> QED
  BY <1>4, <1>5, <1>7, <1>8

\* What theorem Authority says of a state.
LEMMA AuthorityFollows == IInv => AuthoritativeIsComplete
<1> SUFFICES ASSUME IInv, phase = "returned", ranking.authoritative
             PROVE  /\ call.context = "canonical"
                    /\ PathIds(baseline) = AttackPaths(store, call.query)
                    /\ \A i \in 1..Len(ranking.candidates) : ranking.candidates[i].rankable
  BY DEF AuthoritativeIsComplete
<1>1. PICK f \in SortingOrders(results) : ranking = Ranking(f)
  BY DEF IInv, RankingInv
<1>2. ranking.candidates = Ordered(results, f) /\ Reasons = {}
  BY <1>1 DEF Ranking
<1>3. ~baseline.saturated /\ ~AnySaturated(results)
  BY <1>2 DEF Reasons
<1>4. call.context \notin {"none", "ad_hoc"}
  BY <1>2 DEF Reasons
<1>5. ~BoundsInvalid /\ baseline = FindPaths(store)
  BY DEF IInv, ResultsInv, BeforeBaseline
<1>6. PathIds(baseline) = AttackPaths(store, call.query)
  BY <1>3, <1>5, Unsaturated DEF IInv, CallInv
<1>7. Len(results) \in Nat
  BY LenProperties DEF IInv, ResultsInv
<1>8. \A i \in 1..Len(results) : results[i].rankable
  BY <1>3, RecordedResult DEF IInv, AnySaturated
<1>9. \A i \in 1..Len(ranking.candidates) : ranking.candidates[i].rankable
  <2>1. f \in [1..Len(results) -> 1..Len(results)]
    BY DEF SortingOrders
  <2>2. /\ Len(Ordered(results, f)) = Len(results)
        /\ \A i \in 1..Len(results) : Ordered(results, f)[i] = results[f[i]]
    BY <1>7, <2>1 DEF Ordered
  <2> QED
    BY <1>2, <1>8, <2>1, <2>2
<1> QED
  BY <1>4, <1>6, <1>9 DEF IInv, CallInv


-----------------------------------------------------------------------------
(***************************************************************************)
(* The environment risk of some of the paths of a set.                     *)
(***************************************************************************)
RiskAt(risks, i) == IF i <= Len(risks) THEN risks[i] ELSE 0

IsRisks(risks) ==
  /\ Len(risks) \in Nat /\ Len(risks) <= MaxRisks
  /\ \A i \in 1..Len(risks) : risks[i] \in 0..Scale

\* What a further factor does to two products.
LEMMA Factors ==
  ASSUME NEW A \in Nat, NEW B \in Nat, A <= B, NEW f \in Nat
  PROVE  /\ A * f \in Nat /\ B * f \in Nat /\ A * f <= B * f
         /\ B * f > 0 <=> B > 0 /\ f > 0
         /\ A * f < B * f <=> A < B /\ f > 0
         /\ \A g \in Nat : f < g /\ B > 0 => A * f < B * g
<1>1. \A x, y \in Nat : x * y \in Nat
  OBVIOUS
<1>2. \A x, y \in Nat : x > 0 /\ y > 0 => x * y > 0
  OBVIOUS
<1>3. \A x, y, z \in Int : (x + y) * z = x * z + y * z
  OBVIOUS
<1>4. \A x, y, z \in Int : z * (x + y) = z * x + z * y
  OBVIOUS
<1>5. PICK d \in Nat : d = B - A
  OBVIOUS
<1>6. B * f = A * f + d * f
  <2>1. B = A + d
    BY <1>5
  <2>2. A \in Int /\ d \in Int /\ f \in Int
    OBVIOUS
  <2> QED
    BY <1>3, <2>1, <2>2
<1>7. A * f \in Nat /\ B * f \in Nat /\ d * f \in Nat
  BY <1>1
<1>8. \A x \in Nat : 0 * x = 0 /\ x * 0 = 0
  OBVIOUS
<1>9. d * f > 0 <=> d > 0 /\ f > 0
  BY <1>2, <1>8
<1>10. B * f > 0 <=> B > 0 /\ f > 0
  BY <1>2, <1>8
<1>11. A * f < B * f <=> A < B /\ f > 0
  BY <1>5, <1>6, <1>7, <1>9
<1>12. ASSUME NEW g \in Nat, f < g, B > 0
       PROVE  A * f < B * g
  <2>1. PICK e \in Nat : e = g - f
    BY <1>12
  <2>2. B * g = B * f + B * e
    <3>1. g = f + e
      BY <2>1, <1>12
    <3>2. B \in Int /\ f \in Int /\ e \in Int
      OBVIOUS
    <3> QED
      BY <1>4, <3>1, <3>2
  <2>3. B * e \in Nat /\ B * e > 0
    <3>1. e > 0
      BY <1>12, <2>1
    <3> QED
      BY <1>1, <1>2, <1>12, <3>1
  <2> QED
    BY <1>6, <1>7, <2>2, <2>3
<1> QED
  BY <1>6, <1>7, <1>10, <1>11, <1>12

\* The products of the complements of some risks.
LEMMA ProductsStep ==
  ASSUME NEW risks
  PROVE  /\ Products(risks)[0] = 1
         /\ \A i \in Nat : i + 1 <= MaxRisks =>
              Products(risks)[i + 1] = Products(risks)[i] * (Scale - RiskAt(risks, i + 1))
<1> DEFINE Step(g, i) == IF i = 0 THEN 1
                         ELSE g[i - 1] * (Scale - (IF i <= Len(risks) THEN risks[i] ELSE 0))
           S == {n \in Nat : \E g : g = [i \in 0..n |-> Step(g, i)]}
<1>1. 0 \in S
  <2> DEFINE g == [i \in 0..0 |-> 1]
  <2>1. g = [i \in 0..0 |-> Step(g, i)]
    OBVIOUS
  <2> QED
    BY <2>1
<1>2. ASSUME NEW n \in Nat, n \in S PROVE n + 1 \in S
  <2>1. PICK g : g = [i \in 0..n |-> Step(g, i)]
    BY <1>2
  <2> DEFINE h == [i \in 0..n + 1 |-> IF i = n + 1 THEN Step(g, i) ELSE g[i]]
  <2>2. \A i \in 0..n + 1 : h[i] = Step(h, i)
    <3> TAKE i \in 0..n + 1
    <3>1. CASE i = n + 1
      <4>1. h[i - 1] = g[i - 1]
        BY <3>1
      <4> QED
        BY <4>1, <3>1
    <3>2. CASE i # n + 1
      <4>1. h[i] = g[i] /\ (i # 0 => h[i - 1] = g[i - 1])
        BY <3>2
      <4>2. g[i] = Step(g, i)
        BY <2>1, <3>2
      <4> QED
        BY <4>1, <4>2
    <3> QED
      BY <3>1, <3>2
  <2>3. h = [i \in 0..n + 1 |-> Step(h, i)]
    BY <2>2
  <2> HIDE DEF h
  <2> QED
    BY <2>3
<1>3. Nat \subseteq S
  BY <1>1, <1>2, NatSetInduction
<1>4. \E g : g = [i \in 0..MaxRisks |-> Step(g, i)]
  BY <1>3, RiskUnits
<1>5. Products(risks) = [i \in 0..MaxRisks |-> Step(Products(risks), i)]
  BY <1>4 DEF Products
<1>6. Products(risks)[0] = 1
  BY <1>5, RiskUnits
<1>7. ASSUME NEW i \in Nat, i + 1 <= MaxRisks
      PROVE  Products(risks)[i + 1] = Products(risks)[i] * (Scale - RiskAt(risks, i + 1))
  <2>1. i + 1 \in 0..MaxRisks /\ i + 1 # 0 /\ (i + 1) - 1 = i
    BY <1>7, RiskUnits
  <2>2. Products(risks)[i + 1] = Step(Products(risks), i + 1)
    BY <1>5, <2>1
  <2> QED
    BY <2>1, <2>2 DEF RiskAt
<1> QED
  BY <1>6, <1>7

LEMMA RiskAtType ==
  ASSUME NEW risks, IsRisks(risks), NEW i \in Nat \ {0}
  PROVE  RiskAt(risks, i) \in 0..Scale /\ Scale - RiskAt(risks, i) \in Nat
<1>1. RiskAt(risks, i) \in 0..Scale
  BY RiskUnits DEF RiskAt, IsRisks
<1> QED
  BY <1>1, RiskUnits

LEMMA ProductsType ==
  ASSUME NEW risks, IsRisks(risks), NEW n \in Nat, n <= MaxRisks
  PROVE  Products(risks)[n] \in Nat
<1> DEFINE S == {k \in Nat : k <= MaxRisks => Products(risks)[k] \in Nat}
<1>1. 0 \in S
  BY ProductsStep
<1>2. ASSUME NEW k \in Nat, k \in S PROVE k + 1 \in S
  <2> SUFFICES ASSUME k + 1 <= MaxRisks PROVE Products(risks)[k + 1] \in Nat
    OBVIOUS
  <2>1. Products(risks)[k + 1] = Products(risks)[k] * (Scale - RiskAt(risks, k + 1))
    BY ProductsStep
  <2>2. Products(risks)[k] \in Nat
    BY <1>2, RiskUnits
  <2>3. Scale - RiskAt(risks, k + 1) \in Nat
    BY RiskAtType
  <2> QED
    BY <2>1, <2>2, <2>3, Factors
<1>3. Nat \subseteq S
  <2> HIDE DEF S
  <2> QED
    BY <1>1, <1>2, NatSetInduction
<1> QED
  BY <1>3

\* Risks that are taken away: the product does not fall, and rises unless a
\* certain risk is left or none of those taken away was positive.
LEMMA Thinning ==
  ASSUME NEW a, IsRisks(a), NEW b, IsRisks(b),
         \A i \in 1..MaxRisks : RiskAt(b, i) = RiskAt(a, i) \/ RiskAt(b, i) = 0
  PROVE  /\ Complement(a) \in Nat /\ Complement(b) \in Nat
         /\ Complement(a) <= Complement(b)
         /\ Complement(a) < Complement(b) <=>
              /\ \E i \in 1..MaxRisks : RiskAt(b, i) # RiskAt(a, i)
              /\ \A i \in 1..MaxRisks : RiskAt(b, i) < Scale
<1> DEFINE A(n) == Products(a)[n]
           B(n) == Products(b)[n]
           Less(n) == \E i \in 1..n : RiskAt(b, i) # RiskAt(a, i)
           Open(n) == \A i \in 1..n : RiskAt(b, i) < Scale
           Claim(n) == /\ A(n) \in Nat /\ B(n) \in Nat /\ A(n) <= B(n)
                       /\ B(n) > 0 <=> Open(n)
                       /\ A(n) < B(n) <=> Less(n) /\ Open(n)
           S == {n \in Nat : n <= MaxRisks => Claim(n)}
<1>1. 0 \in S
  <2>1. A(0) = 1 /\ B(0) = 1
    BY ProductsStep
  <2>2. ~Less(0) /\ Open(0)
    OBVIOUS
  <2> QED
    BY <2>1, <2>2
<1>2. ASSUME NEW n \in Nat, n \in S PROVE n + 1 \in S
  <2> SUFFICES ASSUME n + 1 <= MaxRisks PROVE Claim(n + 1)
    OBVIOUS
  <2> DEFINE x == RiskAt(a, n + 1)
             y == RiskAt(b, n + 1)
  <2>1. Claim(n)
    BY <1>2, RiskUnits
  <2>2. A(n + 1) = A(n) * (Scale - x) /\ B(n + 1) = B(n) * (Scale - y)
    BY ProductsStep
  <2>3. x \in 0..Scale /\ y \in 0..Scale /\ Scale - x \in Nat /\ Scale - y \in Nat
    BY RiskAtType
  <2>4. y = x \/ y = 0
    BY RiskUnits
  <2>5. \A i : i \in 1..n + 1 <=> i \in 1..n \/ i = n + 1
    OBVIOUS
  <2>6. (Less(n + 1) <=> Less(n) \/ y # x) /\ (Open(n + 1) <=> Open(n) /\ y < Scale)
    BY <2>5
  <2> HIDE DEF A, B, Less, Open, x, y
  <2>7. PICK f \in Nat, g \in Nat : f = Scale - x /\ g = Scale - y
    BY <2>3
  <2>8. g > 0 <=> y < Scale
    BY <2>3, <2>7, RiskUnits
  <2>9. CASE y = x
    <3>1. f = g
      BY <2>7, <2>9
    <3>2. /\ A(n) * f \in Nat /\ B(n) * f \in Nat /\ A(n) * f <= B(n) * f
          /\ B(n) * f > 0 <=> B(n) > 0 /\ f > 0
          /\ A(n) * f < B(n) * f <=> A(n) < B(n) /\ f > 0
      BY <2>1, Factors
    <3>3. A(n + 1) = A(n) * f /\ B(n + 1) = B(n) * f
      BY <2>2, <2>7, <3>1
    <3> QED
      BY <2>1, <2>6, <2>8, <2>9, <3>1, <3>2, <3>3
  <2>10. CASE y # x
    <3>1. y = 0 /\ x > 0 /\ f < g /\ g > 0
      BY <2>3, <2>4, <2>7, <2>10, RiskUnits
    <3>2. /\ A(n) * f \in Nat /\ B(n) * f \in Nat /\ A(n) * f <= B(n) * f
          /\ B(n) > 0 => A(n) * f < B(n) * g
      BY <2>1, <3>1, Factors
    <3>3. B(n) * g \in Nat /\ (B(n) * g > 0 <=> B(n) > 0)
      BY <2>1, <3>1, Factors
    <3>4. A(n + 1) = A(n) * f /\ B(n + 1) = B(n) * g
      BY <2>2, <2>7
    <3>5. B(n) = 0 => A(n) * f = 0 /\ B(n) * g = 0
      <4>1. B(n) = 0 => A(n) = 0
        BY <2>1
      <4>2. \A z \in Nat : 0 * z = 0
        OBVIOUS
      <4> QED
        BY <4>1, <4>2
    <3>6. B(n) = 0 \/ B(n) > 0
      BY <2>1
    <3> QED
      BY <2>1, <2>6, <2>8, <2>10, <3>1, <3>2, <3>3, <3>4, <3>5, <3>6
  <2> QED
    BY <2>9, <2>10
<1>3. Nat \subseteq S
  <2> HIDE DEF S
  <2> QED
    BY <1>1, <1>2, NatSetInduction
<1>4. Claim(MaxRisks)
  BY <1>3, RiskUnits
<1> QED
  BY <1>4 DEF Complement


LEMMA NoRisks == IsRisks(<<>>) /\ \A i \in Nat \ {0} : RiskAt(<<>>, i) = 0
BY RiskUnits DEF IsRisks, RiskAt

\* Paths without risk may be put in anywhere.
LEMMA Spreading ==
  ASSUME NEW b, IsRisks(b), NEW s, IsRisks(s), NEW c \in [0..MaxRisks -> Nat],
         c[0] = 0, c[MaxRisks] = Len(b),
         \A i \in Nat : i + 1 <= MaxRisks =>
           \/ c[i + 1] = c[i] /\ RiskAt(s, i + 1) = 0
           \/ c[i + 1] = c[i] + 1 /\ RiskAt(s, i + 1) = RiskAt(b, c[i] + 1)
  PROVE  Complement(s) = Complement(b)
<1> DEFINE P(n) == Products(s)[n]
           B(n) == Products(b)[n]
           Pow(n) == Products(<<>>)[n]
           m == Len(b)
           Claim(n) == c[n] <= n /\ P(n) = B(c[n]) * Pow(n - c[n])
           S == {n \in Nat : n <= MaxRisks => Claim(n)}
           T == {n \in Nat : m + n <= MaxRisks => B(m + n) = B(m) * Pow(n)}
<1>1. \A x, y, z \in Nat : /\ (x * y) * z = x * (y * z) /\ (x * y) * z = (x * z) * y
                           /\ x * 1 = x /\ 1 * x = x
  OBVIOUS
<1>2. \A n \in Nat : n <= MaxRisks => P(n) \in Nat /\ B(n) \in Nat /\ Pow(n) \in Nat
  BY ProductsType, NoRisks
<1>3. P(0) = 1 /\ B(0) = 1 /\ Pow(0) = 1
  BY ProductsStep
<1>4. \A n \in Nat : n + 1 <= MaxRisks => Pow(n + 1) = Pow(n) * Scale
  <2> SUFFICES ASSUME NEW n \in Nat, n + 1 <= MaxRisks PROVE Pow(n + 1) = Pow(n) * Scale
    OBVIOUS
  <2>1. Pow(n + 1) = Pow(n) * (Scale - RiskAt(<<>>, n + 1))
    BY ProductsStep
  <2>2. RiskAt(<<>>, n + 1) = 0
    BY NoRisks
  <2> QED
    BY <2>1, <2>2, RiskUnits
<1>5. /\ \A n \in Nat : n + 1 <= MaxRisks => P(n + 1) = P(n) * (Scale - RiskAt(s, n + 1))
      /\ \A n \in Nat : n + 1 <= MaxRisks => B(n + 1) = B(n) * (Scale - RiskAt(b, n + 1))
  BY ProductsStep
<1>6. /\ \A n \in Nat : Scale - RiskAt(s, n + 1) \in Nat
      /\ \A n \in Nat : Scale - RiskAt(b, n + 1) \in Nat
  BY RiskAtType
<1>7. MaxRisks \in Nat /\ Scale \in Nat /\ m \in Nat /\ m <= MaxRisks
  BY RiskUnits DEF IsRisks
<1>8. \A n \in Nat : m + n + 1 <= MaxRisks => RiskAt(b, m + n + 1) = 0
  BY <1>7 DEF RiskAt
<1> HIDE DEF P, B, Pow
<1>9. 0 \in S
  BY <1>1, <1>3
<1>10. ASSUME NEW n \in Nat, n \in S PROVE n + 1 \in S
  <2> SUFFICES ASSUME n + 1 <= MaxRisks PROVE Claim(n + 1)
    OBVIOUS
  <2>1. n <= MaxRisks /\ n \in 0..MaxRisks /\ n + 1 \in 0..MaxRisks
    BY <1>7
  <2>2. c[n] \in Nat /\ c[n] <= n /\ P(n) = B(c[n]) * Pow(n - c[n])
    BY <1>10, <2>1
  <2>3. PICK k \in Nat, j \in Nat : k = c[n] /\ j = n - c[n]
    BY <2>2
  <2>4. k <= MaxRisks /\ j <= MaxRisks /\ k + j = n
    BY <1>7, <2>1, <2>2, <2>3
  <2>5. P(n) = B(k) * Pow(j) /\ B(k) \in Nat /\ Pow(j) \in Nat
    BY <1>2, <2>2, <2>3, <2>4
  <2>6. CASE c[n + 1] = c[n] /\ RiskAt(s, n + 1) = 0
    <3>1. P(n + 1) = (B(k) * Pow(j)) * Scale
      BY <1>5, <1>7, <2>5, <2>6
    <3>2. Pow(j + 1) = Pow(j) * Scale
      BY <1>4, <1>7, <2>3, <2>4, SMTT(40)
    <3>3. P(n + 1) = B(k) * Pow(j + 1)
      BY <1>1, <1>7, <2>5, <3>1, <3>2
    <3>4. c[n + 1] = k
      BY <2>3, <2>6
    <3>5. (n + 1) - k = j + 1 /\ k <= n + 1
      BY <2>4
    <3> QED
      BY <3>3, <3>4, <3>5
  <2>7. CASE c[n + 1] = c[n] + 1 /\ RiskAt(s, n + 1) = RiskAt(b, c[n] + 1)
    <3>1. PICK f \in Nat : f = Scale - RiskAt(s, n + 1)
      BY <1>6
    <3>2. P(n + 1) = (B(k) * Pow(j)) * f
      BY <1>5, <2>5, <3>1
    <3>3. B(k + 1) = B(k) * f
      <4>1. k + 1 <= MaxRisks
        BY <1>7, <2>4
      <4>2. f = Scale - RiskAt(b, k + 1)
        BY <2>3, <2>7, <3>1
      <4> QED
        BY <1>5, <4>1, <4>2
    <3>4. P(n + 1) = B(k + 1) * Pow(j)
      BY <1>1, <2>5, <3>2, <3>3
    <3>5. c[n + 1] = k + 1
      BY <2>3, <2>7
    <3>6. (n + 1) - (k + 1) = j /\ k + 1 <= n + 1
      BY <2>4
    <3> QED
      BY <3>4, <3>5, <3>6
  <2> QED
    BY <2>6, <2>7
<1>11. 0 \in T
  BY <1>1, <1>2, <1>3, <1>7
<1>12. ASSUME NEW n \in Nat, n \in T PROVE n + 1 \in T
  <2> SUFFICES ASSUME m + (n + 1) <= MaxRisks PROVE B(m + (n + 1)) = B(m) * Pow(n + 1)
    OBVIOUS
  <2>1. PICK k \in Nat : k = m + n
    BY <1>7
  <2>2. k + 1 = m + (n + 1) /\ k + 1 = m + n + 1 /\ k + 1 <= MaxRisks /\ n + 1 <= MaxRisks
        /\ n <= MaxRisks /\ k <= MaxRisks
    BY <1>7, <2>1
  <2>3. B(k) = B(m) * Pow(n)
    BY <1>12, <2>1, <2>2
  <2>4. RiskAt(b, k + 1) = 0
    BY <1>8, <2>2
  <2>5. B(k + 1) = (B(m) * Pow(n)) * Scale
    BY <1>5, <1>7, <2>2, <2>3, <2>4
  <2>6. Pow(n + 1) = Pow(n) * Scale
    BY <1>4, <2>2
  <2>7. B(m) \in Nat /\ Pow(n) \in Nat
    BY <1>2, <1>7, <2>2
  <2>8. B(k + 1) = B(m) * Pow(n + 1)
    BY <1>1, <1>7, <2>5, <2>6, <2>7
  <2> QED
    BY <2>2, <2>8
<1> HIDE DEF S, T
<1>13. Nat \subseteq S
  BY <1>9, <1>10, NatSetInduction
<1>14. Nat \subseteq T
  BY <1>11, <1>12, NatSetInduction
<1>15. P(MaxRisks) = B(m) * Pow(MaxRisks - m)
  <2>1. MaxRisks \in S
    BY <1>7, <1>13
  <2>2. Claim(MaxRisks)
    BY <1>7, <2>1 DEF S
  <2> QED
    BY <2>2
<1>16. B(MaxRisks) = B(m) * Pow(MaxRisks - m)
  <2>1. MaxRisks - m \in T /\ m + (MaxRisks - m) = MaxRisks
    BY <1>7, <1>14
  <2> QED
    BY <1>7, <2>1 DEF T
<1> QED
  BY <1>15, <1>16 DEF Complement, P, B


\* The risks of some paths, in their order.
RiskSeq(paths) == [i \in 1..Len(paths) |-> PathRisk(paths[i])]

\* All of P in order, and all of its part W in order: W carries at most the
\* risk of P, and less of it exactly when a path with risk is left out and
\* nothing that is kept is certain.
LEMMA RiskOfPart ==
  ASSUME NEW P, IsFiniteSet(P), StrictlyOrdered(P), Cardinality(P) <= MaxRisks,
         \A p \in P : PathRisk(p) \in 0..Scale,
         NEW W \in SUBSET P,
         NEW a \in [1..Cardinality(P) -> P],
         \A i \in 1..Cardinality(P) : RankIn(P, a[i]) = i,
         NEW b \in [1..Cardinality(W) -> W],
         \A k \in 1..Cardinality(W) : RankIn(W, b[k]) = k
  PROVE  /\ Complement(RiskSeq(a)) \in Nat /\ Complement(RiskSeq(b)) \in Nat
         /\ Complement(RiskSeq(a)) <= Complement(RiskSeq(b))
         /\ Complement(RiskSeq(a)) < Complement(RiskSeq(b)) <=>
              /\ \E p \in P \ W : PathRisk(p) > 0
              /\ \A p \in W : PathRisk(p) < Scale
<1>1. IsFiniteSet(W) /\ StrictlyOrdered(W)
  BY FS_Subset DEF StrictlyOrdered
<1>2. PICK n \in Nat, m \in Nat : n = Cardinality(P) /\ m = Cardinality(W)
  BY <1>1, FS_CardinalityType
<1>3. /\ MaxRisks \in Nat /\ Scale \in Nat \ {0} /\ n <= MaxRisks /\ m <= n
  BY <1>2, RiskUnits, FS_Subset
<1>4. /\ \A p \in P : RankIn(P, p) \in 1..n
      /\ \A p, r \in P : PathBefore(p, r) <=> RankIn(P, p) < RankIn(P, r)
      /\ \A p, r \in P : RankIn(P, p) = RankIn(P, r) => p = r
  BY <1>2, Ranks
<1>5. /\ \A p \in W : RankIn(W, p) \in 1..m
      /\ \A p, r \in W : RankIn(W, p) = RankIn(W, r) => p = r
  BY <1>1, <1>2, Ranks
<1>6. /\ a \in [1..n -> P] /\ Len(a) = n
      /\ \A i \in 1..n : a[i] \in P /\ RankIn(P, a[i]) = i
      /\ \A p \in P : a[RankIn(P, p)] = p
  <2>1. a \in [1..n -> P] /\ Len(a) = n
    BY <1>2
  <2>2. \A i \in 1..n : a[i] \in P /\ RankIn(P, a[i]) = i
    BY <1>2, <2>1
  <2>3. \A p \in P : a[RankIn(P, p)] = p
    BY <1>4, <2>2
  <2> QED
    BY <2>1, <2>2, <2>3
<1>7. /\ Len(b) = m
      /\ \A k \in 1..m : b[k] \in W /\ RankIn(W, b[k]) = k
  BY <1>2
<1> DEFINE A == RiskSeq(a)
           B == RiskSeq(b)
           s == [i \in 1..n |-> IF a[i] \in W THEN PathRisk(a[i]) ELSE 0]
           upto(i) == {r \in W : RankIn(P, r) <= i}
           c == [i \in 0..MaxRisks |-> Cardinality(upto(i))]
<1>8. IsRisks(A) /\ \A i \in Nat \ {0} : RiskAt(A, i) = IF i <= n THEN PathRisk(a[i]) ELSE 0
  <2>1. Len(A) = n /\ \A i \in 1..n : A[i] = PathRisk(a[i])
    BY <1>6 DEF RiskSeq
  <2> HIDE DEF A
  <2> QED
    BY <1>3, <1>6, <2>1 DEF IsRisks, RiskAt
<1>9. IsRisks(B) /\ \A i \in Nat \ {0} : RiskAt(B, i) = IF i <= m THEN PathRisk(b[i]) ELSE 0
  <2>1. Len(B) = m /\ \A i \in 1..m : B[i] = PathRisk(b[i])
    BY <1>7 DEF RiskSeq
  <2> HIDE DEF B
  <2>2. \A i \in 1..m : b[i] \in P
    BY <1>7
  <2> QED
    BY <1>3, <2>1, <2>2 DEF IsRisks, RiskAt
<1>10. /\ IsRisks(s)
       /\ \A i \in Nat \ {0} : RiskAt(s, i) =
            IF i <= n THEN (IF a[i] \in W THEN PathRisk(a[i]) ELSE 0) ELSE 0
  <2>1. Len(s) = n /\ \A i \in 1..n : s[i] = IF a[i] \in W THEN PathRisk(a[i]) ELSE 0
    OBVIOUS
  <2> HIDE DEF s
  <2> QED
    BY <1>3, <1>6, <2>1 DEF IsRisks, RiskAt
<1>11. \A i \in Nat : /\ IsFiniteSet(upto(i)) /\ Cardinality(upto(i)) \in Nat
                      /\ Cardinality(upto(i)) <= m
  <2> TAKE i \in Nat
  <2>1. upto(i) \in SUBSET W
    OBVIOUS
  <2> HIDE DEF upto
  <2> QED
    BY <1>1, <1>2, <2>1, FS_Subset, FS_CardinalityType
<1>12. c \in [0..MaxRisks -> Nat] /\ \A i \in 0..MaxRisks : c[i] = Cardinality(upto(i))
  <2> HIDE DEF upto
  <2> QED
    BY <1>3, <1>11, SMTT(40)
<1>13. c[0] = 0
  <2>1. upto(0) = {}
    BY <1>4
  <2> HIDE DEF upto, c
  <2>2. c[0] = Cardinality(upto(0))
    BY <1>3, <1>12
  <2> QED
    BY <2>1, <2>2, FS_EmptySet
<1>14. c[MaxRisks] = Len(B)
  <2>1. upto(MaxRisks) = W
    BY <1>3, <1>4
  <2> HIDE DEF upto, c
  <2>2. c[MaxRisks] = Cardinality(upto(MaxRisks))
    BY <1>3, <1>12
  <2> QED
    BY <1>2, <1>7, <2>1, <2>2 DEF RiskSeq
<1> HIDE DEF A, B, s, c
<1>15. ASSUME NEW i \in Nat, i + 1 <= MaxRisks
       PROVE  \/ c[i + 1] = c[i] /\ RiskAt(s, i + 1) = 0
              \/ c[i + 1] = c[i] + 1 /\ RiskAt(s, i + 1) = RiskAt(B, c[i] + 1)
  <2>1. c[i] = Cardinality(upto(i)) /\ c[i + 1] = Cardinality(upto(i + 1))
    <3>1. i \in 0..MaxRisks /\ i + 1 \in 0..MaxRisks
      BY <1>3, <1>15
    <3> QED
      BY <1>12, <3>1
  <2>2. CASE i + 1 <= n /\ a[i + 1] \in W
    <3>1. PICK p \in W : p = a[i + 1] /\ RankIn(P, p) = i + 1
      BY <1>6, <2>2
    <3>2. upto(i + 1) = upto(i) \cup {p} /\ p \notin upto(i)
      <4>1. \A r \in W : RankIn(P, r) \in Nat /\ (RankIn(P, r) = i + 1 => r = p)
        BY <1>4, <3>1
      <4> QED
        BY <3>1, <4>1
    <3>3. c[i + 1] = c[i] + 1
      <4>1. IsFiniteSet(upto(i))
        BY <1>11
      <4> HIDE DEF upto
      <4> QED
        BY <2>1, <3>2, <4>1, FS_AddElement
    <3>4. {r \in W : PathBefore(r, p)} = upto(i)
      <4>1. \A r \in W : PathBefore(r, p) <=> RankIn(P, r) < i + 1
        BY <1>4, <3>1
      <4>2. \A r \in W : RankIn(P, r) \in Nat
        BY <1>4
      <4> QED
        BY <4>1, <4>2
    <3>5. RankIn(W, p) = c[i] + 1
      BY <2>1, <3>4 DEF RankIn, Earlier
    <3>6. c[i] + 1 \in 1..m
      BY <1>5, <3>5
    <3>7. b[c[i] + 1] = p
      BY <1>5, <1>7, <3>5, <3>6
    <3>8. RiskAt(B, c[i] + 1) = PathRisk(p)
      BY <1>9, <3>6, <3>7
    <3>9. RiskAt(s, i + 1) = PathRisk(p)
      BY <1>10, <2>2, <3>1
    <3> QED
      BY <3>3, <3>8, <3>9
  <2>3. CASE ~(i + 1 <= n /\ a[i + 1] \in W)
    <3>1. ASSUME NEW r \in W
          PROVE  RankIn(P, r) \in Nat /\ RankIn(P, r) # i + 1
      <4>1. RankIn(P, r) \in 1..n /\ a[RankIn(P, r)] = r
        BY <1>4, <1>6
      <4> QED
        BY <2>3, <4>1
    <3>2. upto(i + 1) = upto(i)
      BY <3>1
    <3>3. RiskAt(s, i + 1) = 0
      BY <1>10, <2>3
    <3> QED
      BY <2>1, <3>2, <3>3
  <2> QED
    BY <2>2, <2>3
<1>16. Complement(s) = Complement(B)
  BY <1>9, <1>10, <1>12, <1>13, <1>14, <1>15, Spreading
<1>17. \A i \in 1..MaxRisks : RiskAt(s, i) = RiskAt(A, i) \/ RiskAt(s, i) = 0
  BY <1>3, <1>8, <1>10
<1>18. /\ Complement(A) \in Nat /\ Complement(s) \in Nat
       /\ Complement(A) <= Complement(s)
       /\ Complement(A) < Complement(s) <=>
            /\ \E i \in 1..MaxRisks : RiskAt(s, i) # RiskAt(A, i)
            /\ \A i \in 1..MaxRisks : RiskAt(s, i) < Scale
  BY <1>8, <1>10, <1>17, Thinning
<1>19. (\E i \in 1..MaxRisks : RiskAt(s, i) # RiskAt(A, i)) <=>
         \E p \in P \ W : PathRisk(p) > 0
  <2>1. ASSUME NEW i \in 1..MaxRisks, RiskAt(s, i) # RiskAt(A, i)
        PROVE  \E p \in P \ W : PathRisk(p) > 0
    <3>1. i \in 1..n /\ a[i] \notin W /\ PathRisk(a[i]) # 0
      BY <1>3, <1>8, <1>10, <2>1
    <3>2. a[i] \in P \ W /\ PathRisk(a[i]) \in 0..Scale
      BY <1>6, <3>1
    <3> QED
      BY <1>3, <3>1, <3>2
  <2>2. ASSUME NEW p \in P \ W, PathRisk(p) > 0
        PROVE  \E i \in 1..MaxRisks : RiskAt(s, i) # RiskAt(A, i)
    <3>1. PICK i \in 1..n : i = RankIn(P, p) /\ a[i] = p
      BY <1>4, <1>6
    <3>2. i \in 1..MaxRisks /\ RiskAt(s, i) = 0 /\ RiskAt(A, i) = PathRisk(p)
      BY <1>3, <1>8, <1>10, <3>1
    <3> QED
      BY <2>2, <3>2
  <2> QED
    BY <2>1, <2>2
<1>20. (\A i \in 1..MaxRisks : RiskAt(s, i) < Scale) <=> \A p \in W : PathRisk(p) < Scale
  <2>1. ASSUME NEW p \in W, \A i \in 1..MaxRisks : RiskAt(s, i) < Scale
        PROVE  PathRisk(p) < Scale
    <3>1. PICK i \in 1..n : i = RankIn(P, p) /\ a[i] = p
      BY <1>4, <1>6
    <3>2. i \in 1..MaxRisks /\ RiskAt(s, i) = PathRisk(p)
      BY <1>3, <1>10, <3>1
    <3> QED
      BY <2>1, <3>2
  <2>2. ASSUME NEW i \in 1..MaxRisks, \A p \in W : PathRisk(p) < Scale
        PROVE  RiskAt(s, i) < Scale
    <3>1. CASE i <= n /\ a[i] \in W
      BY <1>10, <2>2, <3>1
    <3>2. CASE ~(i <= n /\ a[i] \in W)
      <4>1. RiskAt(s, i) = 0
        BY <1>10, <3>2
      <4> QED
        BY <1>3, <4>1
    <3> QED
      BY <3>1, <3>2
  <2> QED
    BY <2>1, <2>2
<1>21. Complement(A) < Complement(B) <=>
         /\ \E p \in P \ W : PathRisk(p) > 0
         /\ \A p \in W : PathRisk(p) < Scale
  BY <1>16, <1>18, <1>19, <1>20
<1> QED
  BY <1>16, <1>18, <1>21 DEF A, B


-----------------------------------------------------------------------------
(***************************************************************************)
(* The environment risk of a search.                                       *)
(***************************************************************************)
Measurable(P) ==
  /\ IsFiniteSet(P) /\ StrictlyOrdered(P) /\ Cardinality(P) <= MaxRisks
  /\ \A p \in P : PathRisk(p) \in 0..Scale

RiskOfAll(P) == EnvironmentRisk(RiskSeq(FirstPaths(P, Cardinality(P))))

LEMMA AllInOrder ==
  ASSUME NEW P, Measurable(P)
  PROVE  /\ FirstPaths(P, Cardinality(P)) \in [1..Cardinality(P) -> P]
         /\ \A k \in 1..Cardinality(P) :
              RankIn(P, FirstPaths(P, Cardinality(P))[k]) = k
<1>1. PICK n \in Nat : n = Cardinality(P)
  BY FS_CardinalityType DEF Measurable
<1>2. n = IF Cardinality(P) <= n THEN Cardinality(P) ELSE n
  BY <1>1
<1>3. /\ FirstPaths(P, n) \in [1..n -> P]
      /\ \A k \in 1..n : RankIn(P, FirstPaths(P, n)[k]) = k
  BY <1>2, FirstPathsProperties DEF Measurable
<1> QED
  BY <1>1, <1>3

LEMMA PartIsMeasurable ==
  ASSUME NEW P, Measurable(P), NEW W \in SUBSET P
  PROVE  Measurable(W)
<1>1. IsFiniteSet(W) /\ Cardinality(W) <= Cardinality(P) /\ StrictlyOrdered(W)
  BY FS_Subset DEF Measurable, StrictlyOrdered
<1>2. Cardinality(W) \in Nat /\ Cardinality(P) \in Nat /\ MaxRisks \in Nat
  BY <1>1, FS_CardinalityType, RiskUnits DEF Measurable
<1> QED
  BY <1>1, <1>2 DEF Measurable

\* All of a part of some paths: never more risk, and less exactly when a path
\* with risk is gone and nothing that is left is certain.
LEMMA RiskOfAllOfPart ==
  ASSUME NEW P, Measurable(P), NEW W \in SUBSET P
  PROVE  /\ RiskOfAll(P) \in Int /\ RiskOfAll(W) \in Int
         /\ RiskOfAll(W) <= RiskOfAll(P)
         /\ RiskOfAll(W) < RiskOfAll(P) <=>
              /\ \E p \in P \ W : PathRisk(p) > 0
              /\ \A p \in W : PathRisk(p) < Scale
<1>1. PICK a \in [1..Cardinality(P) -> P], b \in [1..Cardinality(W) -> W] :
        /\ a = FirstPaths(P, Cardinality(P)) /\ b = FirstPaths(W, Cardinality(W))
        /\ \A k \in 1..Cardinality(P) : RankIn(P, a[k]) = k
        /\ \A k \in 1..Cardinality(W) : RankIn(W, b[k]) = k
  BY AllInOrder, PartIsMeasurable
<1>2. /\ Complement(RiskSeq(a)) \in Nat /\ Complement(RiskSeq(b)) \in Nat
      /\ Complement(RiskSeq(a)) <= Complement(RiskSeq(b))
      /\ Complement(RiskSeq(a)) < Complement(RiskSeq(b)) <=>
           /\ \E p \in P \ W : PathRisk(p) > 0
           /\ \A p \in W : PathRisk(p) < Scale
  <2>1. /\ IsFiniteSet(P) /\ StrictlyOrdered(P) /\ Cardinality(P) <= MaxRisks
        /\ \A p \in P : PathRisk(p) \in 0..Scale
    BY DEF Measurable
  <2>2. /\ \A k \in 1..Cardinality(P) : RankIn(P, a[k]) = k
        /\ \A k \in 1..Cardinality(W) : RankIn(W, b[k]) = k
    BY <1>1
  <2> QED
    BY <2>1, <2>2, RiskOfPart
<1>3. Complement(<<>>) \in Nat
  BY NoRisks, ProductsType, RiskUnits DEF Complement
<1>4. PICK x \in Nat, y \in Nat, z \in Nat :
        /\ x = Complement(<<>>) /\ y = Complement(RiskSeq(a)) /\ z = Complement(RiskSeq(b))
        /\ RiskOfAll(P) = x - y /\ RiskOfAll(W) = x - z
  BY <1>1, <1>2, <1>3 DEF RiskOfAll, EnvironmentRisk
<1> QED
  BY <1>2, <1>4

\* The first paths of a set, in order, are all of the set of them.
LEMMA FirstAreAllOfThem ==
  ASSUME NEW P, Measurable(P), NEW count \in Nat
  PROVE  \E W \in SUBSET P :
           /\ FirstPaths(P, count) = FirstPaths(W, Cardinality(W))
           /\ W = {FirstPaths(P, count)[k] : k \in 1..Len(FirstPaths(P, count))}
           /\ Cardinality(P) <= count => W = P
<1>1. PICK n : n = IF Cardinality(P) <= count THEN Cardinality(P) ELSE count
  OBVIOUS
<1>2. PICK f : f = FirstPaths(P, count)
  OBVIOUS
<1>3. /\ n \in Nat /\ n <= Cardinality(P) /\ n <= count /\ f \in [1..n -> P]
      /\ \A k \in 1..n : RankIn(P, f[k]) = k
      /\ {f[k] : k \in 1..n} = {p \in P : RankIn(P, p) <= n}
  <2>1. IsFiniteSet(P) /\ StrictlyOrdered(P)
    BY DEF Measurable
  <2>2. /\ n \in Nat /\ n <= Cardinality(P) /\ n <= count
        /\ FirstPaths(P, count) \in [1..n -> P]
        /\ \A k \in 1..n : RankIn(P, FirstPaths(P, count)[k]) = k
        /\ {FirstPaths(P, count)[k] : k \in 1..n} = {p \in P : RankIn(P, p) <= n}
    BY <1>1, <2>1, FirstPathsProperties
  <2> QED
    BY <1>2, <2>2
<1>4. /\ Cardinality(P) \in Nat
      /\ \A p \in P : RankIn(P, p) \in 1..Cardinality(P)
      /\ \A p, r \in P : PathBefore(p, r) <=> RankIn(P, p) < RankIn(P, r)
      /\ \A p, r \in P : RankIn(P, p) = RankIn(P, r) => p = r
  BY Ranks DEF Measurable
<1>5. PICK W \in SUBSET P : W = {p \in P : RankIn(P, p) <= n}
  OBVIOUS
<1>6. Cardinality(W) = n
  <2>1. f \in [1..n -> W]
    BY <1>3, <1>5
  <2>2. f \in Bijection(1..n, W)
    <3>1. \A i, j \in 1..n : f[i] = f[j] => i = j
      BY <1>3
    <3>2. \A w \in W : \E k \in 1..n : f[k] = w
      BY <1>3, <1>5
    <3> QED
      BY <2>1, <3>1, <3>2 DEF Bijection, Injection, Surjection, IsInjective
  <2>3. IsFiniteSet(1..n) /\ Cardinality(1..n) = n
    <3>1. n \in Nat
      BY <1>3
    <3>2. IsFiniteSet(1..n) /\ Cardinality(1..n) = IF 1 > n THEN 0 ELSE n - 1 + 1
      BY <3>1, FS_Interval
    <3> QED
      BY <3>1, <3>2
  <2> QED
    BY <2>2, <2>3, FS_Bijection DEF ExistsBijection
<1>7. \A k \in 1..n : f[k] \in W /\ RankIn(W, f[k]) = k
  <2> TAKE k \in 1..n
  <2>1. f[k] \in W /\ RankIn(P, f[k]) = k
    BY <1>3, <1>5
  <2>2. {r \in W : PathBefore(r, f[k])} = {r \in P : PathBefore(r, f[k])}
    BY <1>3, <1>4, <1>5, <2>1
  <2> QED
    BY <2>1, <2>2 DEF RankIn, Earlier
<1>8. Measurable(W)
  BY PartIsMeasurable
<1>9. PICK b \in [1..n -> W] : /\ b = FirstPaths(W, Cardinality(W))
                               /\ \A k \in 1..n : RankIn(W, b[k]) = k
  BY <1>6, <1>8, AllInOrder
<1>10. \A k \in 1..n : b[k] = f[k]
  <2>1. \A p, r \in W : RankIn(W, p) = RankIn(W, r) => p = r
    BY <1>8, Ranks DEF Measurable
  <2> QED
    BY <1>7, <1>9, <2>1
<1>11. f = b
  BY <1>3, <1>9, <1>10
<1>12. Cardinality(P) <= count => W = P
  BY <1>1, <1>4, <1>5
<1>13. W = {f[k] : k \in 1..Len(f)}
  <2>1. Len(f) = n
    BY <1>3
  <2> QED
    BY <1>3, <1>5, <2>1
<1>14. /\ FirstPaths(P, count) = FirstPaths(W, Cardinality(W))
       /\ W = {FirstPaths(P, count)[k] : k \in 1..Len(FirstPaths(P, count))}
  <2>1. f = FirstPaths(P, count) /\ b = FirstPaths(W, Cardinality(W)) /\ f = b
    BY <1>2, <1>9, <1>11
  <2> QED
    BY <2>1, <1>13, Zenon
<1> QED
  BY <1>12, <1>14, Zenon

\* What a search measures is at most the risk of all the answers, and exactly
\* that when it is not saturated.
LEMMA RiskOfSearch ==
  ASSUME NEW E, IsStore(E), IsQuery(call.query), ~BoundsInvalid,
         Measurable(AttackPaths(E, call.query))
  PROVE  /\ FullRisk(E) = RiskOfAll(AttackPaths(E, call.query))
         /\ FullRisk(E) \in Int /\ Risk(FindPaths(E)) \in Int
         /\ Risk(FindPaths(E)) <= FullRisk(E)
         /\ ~FindPaths(E).saturated => Risk(FindPaths(E)) = FullRisk(E)
         /\ Measurable(PathIds(FindPaths(E)))
         /\ Risk(FindPaths(E)) = RiskOfAll(PathIds(FindPaths(E)))
<1>1. PICK P : P = AttackPaths(E, call.query)
  OBVIOUS
<1>2. PICK count \in Nat : count = call.query.maxPaths
  BY QueryTyped DEF BoundsInvalid
<1>3. Measurable(P)
  BY <1>1
<1>4. FullRisk(E) = RiskOfAll(P)
  BY <1>1 DEF FullRisk, RiskOfAll, RiskSeq
<1>5. PICK W \in SUBSET P : /\ FirstPaths(P, count) = FirstPaths(W, Cardinality(W))
                            /\ W = {FirstPaths(P, count)[k] : k \in 1..Len(FirstPaths(P, count))}
                            /\ Cardinality(P) <= count => W = P
  BY <1>3, FirstAreAllOfThem
<1>6. Risk(FindPaths(E)) = RiskOfAll(W)
  BY <1>1, <1>2, <1>5 DEF Risk, FindPaths, Enumeration, RiskOfAll, RiskSeq
<1>7. ASSUME ~FindPaths(E).saturated
      PROVE  Cardinality(P) <= count
  <2>1. MaxHops(call.query) \in Int
    BY QueryTyped
  <2>2. Len(FindPaths(E).paths) = Cardinality(P)
    BY <1>1, <1>7, Unsaturated
  <2>3. /\ Len(Enumeration(E, call.query)) =
             IF Cardinality(P) <= count THEN Cardinality(P) ELSE count
        /\ Cardinality(P) \in Nat
    BY <1>1, <1>2, <2>1, EnumerationComplete DEF IsStore
  <2>4. FindPaths(E).paths = Enumeration(E, call.query)
    BY DEF FindPaths
  <2> QED
    BY <2>2, <2>3, <2>4
<1>8. RiskOfAll(P) \in Int /\ RiskOfAll(W) \in Int /\ RiskOfAll(W) <= RiskOfAll(P)
  BY <1>3, RiskOfAllOfPart
<1>9. ~FindPaths(E).saturated => Risk(FindPaths(E)) = FullRisk(E)
  BY <1>4, <1>5, <1>6, <1>7
<1>10. PathIds(FindPaths(E)) = W /\ Measurable(W)
  BY <1>1, <1>2, <1>3, <1>5, PartIsMeasurable DEF PathIds, FindPaths, Enumeration
<1> QED
  BY <1>1, <1>4, <1>6, <1>8, <1>9, <1>10

\* The answers to a query do not depend on the number of paths it asks for.
LEMMA SameSearchSamePaths ==
  ASSUME NEW E, NEW q, NEW r, SameSearch(q, r), MaxHops(q) \in Int
  PROVE  AttackPaths(E, q) = AttackPaths(E, r)
<1>1. /\ MaxHops(r) = MaxHops(q) /\ q.source = r.source /\ q.target = r.target
      /\ q.types = r.types /\ q.policy = r.policy
  BY DEF SameSearch, MaxHops
<1>2. /\ \A p, i : NodeAt(q, p, i) = NodeAt(r, p, i)
      /\ \A t : EdgeCost(q, t) = EdgeCost(r, t)
      /\ \A cost : WithinBudget(q, cost) <=> WithinBudget(r, cost)
  BY <1>1 DEF NodeAt, EdgeCost, WithinBudget
<1>3. ASSUME NEW p, Len(p) \in Nat
      PROVE  PathCost(q, p) = PathCost(r, p)
  <2> DEFINE S == {n \in Nat : n <= Len(p) => CostAlong(q, p)[n] = CostAlong(r, p)[n]}
  <2>1. 0 \in S
    <3>1. CostAlong(q, p)[0] = 0 /\ CostAlong(r, p)[0] = 0
      BY <1>3, CostAlongExists
    <3> QED
      BY <3>1
  <2>2. ASSUME NEW n \in Nat, n \in S PROVE n + 1 \in S
    <3> SUFFICES ASSUME n + 1 <= Len(p)
                 PROVE  CostAlong(q, p)[n + 1] = CostAlong(r, p)[n + 1]
      OBVIOUS
    <3>1. n + 1 \in 0..Len(p) /\ n + 1 # 0 /\ (n + 1) - 1 = n /\ n <= Len(p)
      BY <1>3
    <3>2. CostAlong(q, p)[n + 1] = CostAlong(q, p)[n] + EdgeCost(q, p[n + 1].type)
      BY <1>3, <3>1, CostAlongExists
    <3>3. CostAlong(r, p)[n + 1] = CostAlong(r, p)[n] + EdgeCost(r, p[n + 1].type)
      BY <1>3, <3>1, CostAlongExists
    <3>4. CostAlong(q, p)[n] = CostAlong(r, p)[n]
      BY <2>2, <3>1
    <3> QED
      BY <1>2, <3>2, <3>3, <3>4
  <2>3. Nat \subseteq S
    <3> HIDE DEF S
    <3> QED
      BY <2>1, <2>2, NatSetInduction
  <2> QED
    BY <1>3, <2>3 DEF PathCost
<1>4. ASSUME NEW p \in Seq(E)
      PROVE  /\ Len(p) \in Nat
             /\ \A i \in 0..Len(p) - 1 : PathCost(q, Prefix(p, i)) = PathCost(r, Prefix(p, i))
             /\ PathCost(q, p) = PathCost(r, p)
  <2>1. Len(p) \in Nat
    BY LenProperties
  <2>2. \A i \in 0..Len(p) - 1 : Len(Prefix(p, i)) \in Nat
    BY <2>1, PrefixElements
  <2> QED
    BY <1>3, <2>1, <2>2
<1>5. ASSUME NEW p \in Seq(E)
      PROVE  IsAttackPath(E, q, p) <=> IsAttackPath(E, r, p)
  <2>1. Chained(q, p) <=> Chained(r, p)
    BY <1>2 DEF Chained
  <2>2. Simple(q, p) <=> Simple(r, p)
    BY <1>2 DEF Simple
  <2>3. Permitted(q, p) <=> Permitted(r, p)
    BY <1>1 DEF Permitted
  <2>4. \A i \in 0..Len(p) - 1 :
          /\ WithinBudget(q, PathCost(q, Prefix(p, i))) <=> WithinBudget(r, PathCost(r, Prefix(p, i)))
          /\ NodeAt(q, p, i) # q.target <=> NodeAt(r, p, i) # r.target
    BY <1>1, <1>2, <1>4
  <2>5. Reachable(E, q, p) <=> Reachable(E, r, p)
    BY <1>1, <2>1, <2>2, <2>3, <2>4 DEF Reachable
  <2>6. LastNode(q, p) = LastNode(r, p)
    BY <1>2 DEF LastNode
  <2>7. WithinBudget(q, PathCost(q, p)) <=> WithinBudget(r, PathCost(r, p))
    BY <1>2, <1>4
  <2> QED
    BY <1>1, <2>5, <2>6, <2>7 DEF IsAttackPath
<1>6. \A p : IsAttackPath(E, q, p) \/ IsAttackPath(E, r, p) => p \in Seq(E)
  BY DEF IsAttackPath, Reachable
<1>7. \A p : p \in AttackPaths(E, q) <=> IsAttackPath(E, q, p)
  BY AttackPathsMember
<1>8. \A p : p \in AttackPaths(E, r) <=> IsAttackPath(E, r, p)
  BY <1>1, AttackPathsMember
<1>9. \A p : p \in AttackPaths(E, q) <=> p \in AttackPaths(E, r)
  BY <1>5, <1>6, <1>7, <1>8
<1>10. AttackPaths(E, q) \subseteq AttackPaths(E, r) /\ AttackPaths(E, r) \subseteq AttackPaths(E, q)
  BY <1>9
<1> QED
  BY <1>10

\* The searches of a call have risks that fit.
LEMMA SearchesAreMeasurable ==
  ASSUME CallInv, NEW id
  PROVE  LET W == WithoutRelationship(store, id)
         IN  /\ IsStore(W)
             /\ Measurable(AttackPaths(store, call.query))
             /\ Measurable(AttackPaths(W, call.query))
             /\ AttackPaths(W, call.query) \in SUBSET AttackPaths(store, call.query)
<1> DEFINE W == WithoutRelationship(store, id)
<1>1. /\ store \in Graphs /\ IsStore(store) /\ IsStore(W)
      /\ MaxHops(call.query) \in Int
  BY StoreWithout, QueryTyped DEF CallInv
<1>2. AttackPaths(W, call.query) \in SUBSET AttackPaths(store, call.query)
  BY <1>1, PathsWithout
<1>3. PICK P : P = AttackPaths(store, call.query)
  OBVIOUS
<1>4. IsFiniteSet(P) /\ StrictlyOrdered(P)
  BY <1>1, <1>3, AttackPathsAreFinite, AttackPathsOrdered DEF IsStore
<1>5. Cardinality(P) <= MaxRisks /\ \A p \in P : PathRisk(p) \in 0..Scale
  <2>1. PICK c \in Calls : SameSearch(call.query, c.query)
    BY DEF CallInv
  <2>2. P = AttackPaths(store, c.query)
    BY <1>1, <1>3, <2>1, SameSearchSamePaths
  <2> QED
    BY <1>1, <2>2, RisksFit
<1>6. Measurable(P)
  BY <1>4, <1>5 DEF Measurable
<1> HIDE DEF W
<1>7. Measurable(AttackPaths(W, call.query))
  BY <1>2, <1>3, <1>6, PartIsMeasurable
<1> QED
  BY <1>1, <1>2, <1>3, <1>6, <1>7 DEF W

\* What theorem RankableReduction says of a state.
LEMMA ReductionFollows == IInv => RankableReductionIsSound
<1> SUFFICES ASSUME IInv, NEW i \in 1..Len(results), results[i].rankable
             PROVE  /\ results[i].reduction >= 0
                    /\ results[i].reduction > 0 <=>
                         /\ \E p \in results[i].removed : PathRisk(p) > 0
                         /\ \A p \in results[i].kept : PathRisk(p) < Scale
  BY DEF RankableReductionIsSound
<1>1. /\ ~BoundsInvalid /\ baseline = FindPaths(store)
      /\ ~baseline.saturated /\ ~results[i].saturated
      /\ \E id \in RelId :
           results[i] = Result(id, FindPaths(WithoutRelationship(store, id)))
  BY RecordedResult DEF IInv
<1>2. PICK id \in RelId :
        results[i] = Result(id, FindPaths(WithoutRelationship(store, id)))
  BY <1>1
<1>3. PICK W : W = WithoutRelationship(store, id)
  OBVIOUS
<1>4. PICK P, Q : P = AttackPaths(store, call.query) /\ Q = AttackPaths(W, call.query)
  OBVIOUS
<1>5. /\ IsStore(store) /\ IsQuery(call.query) /\ IsStore(W)
      /\ Measurable(P) /\ Measurable(Q) /\ Q \in SUBSET P
  BY <1>3, <1>4, SearchesAreMeasurable DEF IInv, CallInv
<1>6. /\ results[i].removed = PathIds(baseline) \ PathIds(FindPaths(W))
      /\ results[i].kept = PathIds(baseline) \cap PathIds(FindPaths(W))
      /\ results[i].reduction = Risk(baseline) - Risk(FindPaths(W))
      /\ ~FindPaths(W).saturated
  BY <1>1, <1>2, <1>3 DEF Result
<1>7. PathIds(baseline) = P /\ PathIds(FindPaths(W)) = Q
  BY <1>1, <1>4, <1>5, <1>6, Unsaturated
<1>8. results[i].removed = P \ Q /\ results[i].kept = Q
  BY <1>5, <1>6, <1>7
<1>9. Risk(baseline) = RiskOfAll(P) /\ Risk(FindPaths(W)) = RiskOfAll(Q)
  BY <1>1, <1>4, <1>5, <1>6, RiskOfSearch
<1>10. /\ RiskOfAll(P) \in Int /\ RiskOfAll(Q) \in Int
       /\ RiskOfAll(Q) <= RiskOfAll(P)
       /\ RiskOfAll(Q) < RiskOfAll(P) <=>
            /\ \E p \in P \ Q : PathRisk(p) > 0
            /\ \A p \in Q : PathRisk(p) < Scale
  BY <1>5, RiskOfAllOfPart
<1>11. results[i].reduction = RiskOfAll(P) - RiskOfAll(Q)
  BY <1>6, <1>9
<1>12. results[i].reduction >= 0
       /\ (results[i].reduction > 0 <=> RiskOfAll(Q) < RiskOfAll(P))
  BY <1>10, <1>11
<1> QED
  BY <1>8, <1>10, <1>12

\* A candidate lowers the risk that was found, of a complete search or not,
\* only if it removes a path with risk.
LEMMA ReductionNeedsRisk ==
  ASSUME IInv, NEW i \in 1..Len(results), results[i].reduction > 0
  PROVE  \E p \in results[i].removed : PathRisk(p) > 0
<1>1. /\ ~BoundsInvalid /\ baseline = FindPaths(store)
      /\ \E id \in RelId :
           results[i] = Result(id, FindPaths(WithoutRelationship(store, id)))
  BY RecordedResult DEF IInv
<1>2. PICK id \in RelId :
        results[i] = Result(id, FindPaths(WithoutRelationship(store, id)))
  BY <1>1
<1>3. PICK W, B, C : /\ W = WithoutRelationship(store, id)
                     /\ B = PathIds(baseline) /\ C = PathIds(FindPaths(W))
  OBVIOUS
<1>4. /\ IsStore(store) /\ IsQuery(call.query) /\ IsStore(W)
      /\ Measurable(AttackPaths(store, call.query))
      /\ Measurable(AttackPaths(W, call.query))
  BY <1>3, SearchesAreMeasurable DEF IInv, CallInv
<1>5. Risk(baseline) = RiskOfAll(B) /\ Measurable(B)
  BY <1>1, <1>3, <1>4, RiskOfSearch
<1>6. Risk(FindPaths(W)) = RiskOfAll(C) /\ Measurable(C)
  BY <1>1, <1>3, <1>4, RiskOfSearch
<1>7. PICK K : K = B \cap C
  OBVIOUS
<1>8. /\ RiskOfAll(B) \in Int /\ RiskOfAll(K) \in Int
      /\ RiskOfAll(K) < RiskOfAll(B) => \E p \in B \ K : PathRisk(p) > 0
  <2>1. K \in SUBSET B
    BY <1>7
  <2> QED
    BY <1>5, <2>1, RiskOfAllOfPart
<1>9. RiskOfAll(C) \in Int /\ RiskOfAll(K) <= RiskOfAll(C)
  <2>1. K \in SUBSET C
    BY <1>7
  <2> QED
    BY <1>6, <2>1, RiskOfAllOfPart
<1>10. results[i].removed = B \ C /\ results[i].reduction = RiskOfAll(B) - RiskOfAll(C)
  BY <1>2, <1>3, <1>5, <1>6 DEF Result
<1>11. RiskOfAll(K) < RiskOfAll(B)
  BY <1>8, <1>9, <1>10
<1>12. B \ K = B \ C
  BY <1>7
<1> QED
  BY <1>8, <1>10, <1>11, <1>12

\* What theorem LowerBounds says of a state.
LEMMA BoundsFollow == IInv => RisksAreLowerBounds
<1> SUFFICES ASSUME IInv PROVE RisksAreLowerBounds
  OBVIOUS
<1>1. ASSUME phase \in {"evaluating", "returned"}
      PROVE  /\ Risk(baseline) <= FullRisk(store)
             /\ ~baseline.saturated => Risk(baseline) = FullRisk(store)
  <2>1. ~BoundsInvalid /\ baseline = FindPaths(store)
    BY <1>1 DEF IInv, ResultsInv, BeforeBaseline
  <2>2. /\ IsStore(store) /\ IsQuery(call.query)
        /\ Measurable(AttackPaths(store, call.query))
    BY SearchesAreMeasurable DEF IInv, CallInv
  <2> QED
    BY <2>1, <2>2, RiskOfSearch
<1>2. ASSUME NEW i \in 1..Len(results)
      PROVE  LET r == results[i]
                 full == FullRisk(WithoutRelationship(store, r.id))
             IN  r.cfRisk <= full /\ (r.rankable => r.cfRisk = full)
  <2>1. /\ ~BoundsInvalid
        /\ results[i].rankable => ~results[i].saturated
        /\ \E id \in RelId :
             results[i] = Result(id, FindPaths(WithoutRelationship(store, id)))
    BY RecordedResult DEF IInv
  <2>2. PICK id \in RelId :
          results[i] = Result(id, FindPaths(WithoutRelationship(store, id)))
    BY <2>1
  <2>3. PICK W : W = WithoutRelationship(store, id)
    OBVIOUS
  <2>4. /\ results[i].id = id /\ results[i].cfRisk = Risk(FindPaths(W))
        /\ results[i].saturated = FindPaths(W).saturated
    BY <2>2, <2>3 DEF Result
  <2>5. /\ IsQuery(call.query) /\ IsStore(W) /\ Measurable(AttackPaths(W, call.query))
    BY <2>3, SearchesAreMeasurable DEF IInv, CallInv
  <2>6. /\ Risk(FindPaths(W)) <= FullRisk(W)
        /\ ~FindPaths(W).saturated => Risk(FindPaths(W)) = FullRisk(W)
    BY <2>1, <2>5, RiskOfSearch
  <2> QED
    BY <2>1, <2>3, <2>4, <2>6
<1> QED
  BY <1>1, <1>2 DEF RisksAreLowerBounds


-----------------------------------------------------------------------------
(***************************************************************************)
(* What is reported: the candidates of a showcase, and its ranking.        *)
(***************************************************************************)
\* The ids of a finite set, sorted: each of them, once.
LEMMA SortedIds ==
  ASSUME NEW ids \in SUBSET Nat, IsFiniteSet(ids)
  PROVE  /\ Cardinality(ids) \in Nat
         /\ Sorted(ids) \in Bijection(1..Cardinality(ids), ids)
<1> DEFINE Smaller(i) == {j \in ids : j < i}
           N == Cardinality(ids)
           s == Sorted(ids)
<1>1. N \in Nat
  BY FS_CardinalityType
<1>2. ASSUME NEW i \in ids
      PROVE  /\ IsFiniteSet(Smaller(i)) /\ Cardinality(Smaller(i)) \in Nat
             /\ IsFiniteSet(Smaller(i) \cup {i})
             /\ Cardinality(Smaller(i) \cup {i}) = Cardinality(Smaller(i)) + 1
  <2>1. Smaller(i) \in SUBSET ids /\ i \notin Smaller(i)
    OBVIOUS
  <2> HIDE DEF Smaller
  <2>2. IsFiniteSet(Smaller(i)) /\ Cardinality(Smaller(i)) \in Nat
    BY <2>1, FS_Subset, FS_CardinalityType
  <2> QED
    BY <2>1, <2>2, FS_AddElement
<1>3. ASSUME NEW i \in ids
      PROVE  Cardinality(Smaller(i)) + 1 \in 1..N
  <2>1. Smaller(i) \cup {i} \in SUBSET ids
    OBVIOUS
  <2> HIDE DEF Smaller
  <2>2. Cardinality(Smaller(i) \cup {i}) <= N
    BY <2>1, FS_Subset
  <2> QED
    BY <1>1, <1>2, <2>2
<1>4. ASSUME NEW i \in ids, NEW j \in ids, i < j
      PROVE  Cardinality(Smaller(i)) < Cardinality(Smaller(j))
  <2>1. Smaller(i) \cup {i} \in SUBSET Smaller(j)
    <3>1. \A x, y, z \in Int : x < y /\ y < z => x < z
      OBVIOUS
    <3>2. \A x \in ids : x < i => x < j
      BY <1>4, <3>1
    <3> QED
      BY <1>4, <3>2
  <2> HIDE DEF Smaller
  <2>2. /\ IsFiniteSet(Smaller(j)) /\ Cardinality(Smaller(j)) \in Nat
        /\ Cardinality(Smaller(i)) \in Nat
        /\ Cardinality(Smaller(i) \cup {i}) = Cardinality(Smaller(i)) + 1
    BY <1>2
  <2>3. Cardinality(Smaller(i) \cup {i}) <= Cardinality(Smaller(j))
    BY <2>1, <2>2, FS_Subset
  <2> QED
    BY <2>2, <2>3
<1>5. \A i, j \in ids : Cardinality(Smaller(i)) = Cardinality(Smaller(j)) => i = j
  <2> SUFFICES ASSUME NEW i \in ids, NEW j \in ids,
                      Cardinality(Smaller(i)) = Cardinality(Smaller(j)), i # j
               PROVE  FALSE
    OBVIOUS
  <2>1. i < j \/ j < i
    OBVIOUS
  <2>2. /\ i < j => Cardinality(Smaller(i)) < Cardinality(Smaller(j))
        /\ j < i => Cardinality(Smaller(j)) < Cardinality(Smaller(i))
    BY <1>4
  <2>3. Cardinality(Smaller(i)) \in Nat /\ Cardinality(Smaller(j)) \in Nat
    BY <1>2
  <2> HIDE DEF Smaller
  <2> QED
    BY <2>1, <2>2, <2>3
<1> DEFINE r == [i \in ids |-> Cardinality(Smaller(i)) + 1]
<1>6. r \in Surjection(ids, 1..N)
  <2>1. r \in [ids -> 1..N]
    BY <1>3
  <2>2. \A i, j \in ids : r[i] = r[j] => i = j
    <3>1. \A i \in ids : r[i] = Cardinality(Smaller(i)) + 1 /\ Cardinality(Smaller(i)) \in Nat
      BY <1>2
    <3> HIDE DEF r, Smaller
    <3> QED
      BY <1>5, <3>1
  <2> HIDE DEF r
  <2>3. r \in Injection(ids, 1..N)
    BY <2>1, <2>2 DEF Injection, IsInjective
  <2>4. IsFiniteSet(1..N) /\ Cardinality(1..N) = N
    BY <1>1, FS_Interval
  <2> QED
    BY <2>3, <2>4, FS_Injection
<1>7. ASSUME NEW k \in 1..N
      PROVE  s[k] \in ids /\ Cardinality(Smaller(s[k])) = k - 1
  <2>1. PICK i \in ids : r[i] = k
    BY <1>6 DEF Surjection
  <2>2. Cardinality(Smaller(i)) = k - 1
    <3>1. r[i] = Cardinality(Smaller(i)) + 1 /\ Cardinality(Smaller(i)) \in Nat
      BY <1>2
    <3> HIDE DEF r, Smaller
    <3> QED
      BY <2>1, <3>1
  <2>3. s[k] = CHOOSE j \in ids : Cardinality(Smaller(j)) = k - 1
    BY DEF Sorted
  <2> HIDE DEF Smaller, s
  <2> QED
    BY <2>2, <2>3
<1>8. s \in [1..N -> ids]
  <2> DEFINE Kth(k) == CHOOSE j \in ids : Cardinality(Smaller(j)) = k - 1
  <2>1. s = [k \in 1..N |-> Kth(k)]
    BY DEF Sorted
  <2> HIDE DEF s, Smaller, Kth
  <2>2. \A k \in 1..N : s[k] = Kth(k)
    BY <2>1
  <2>3. \A k \in 1..N : Kth(k) \in ids
    BY <1>7, <2>2
  <2> QED
    BY <2>1, <2>3
<1>9. \A k, l \in 1..N : s[k] = s[l] => k = l
  <2> HIDE DEF s, Smaller
  <2> QED
    BY <1>1, <1>7
<1>10. \A i \in ids : \E k \in 1..N : s[k] = i
  <2> TAKE i \in ids
  <2>1. /\ Cardinality(Smaller(i)) \in Nat /\ Cardinality(Smaller(i)) + 1 \in 1..N
    BY <1>2, <1>3
  <2> HIDE DEF s, Smaller
  <2>2. PICK k \in 1..N : k - 1 = Cardinality(Smaller(i))
    BY <2>1
  <2>3. s[k] = i
    BY <1>5, <1>7, <2>2
  <2> QED
    BY <2>3
<1> HIDE DEF s, N
<1>11. s \in Bijection(1..N, ids)
  BY <1>8, <1>9, <1>10 DEF Bijection, Injection, Surjection, IsInjective
<1> QED
  BY <1>1, <1>11 DEF s, N


\* What evaluating a candidate tells if no search is cut off.
Answers == AttackPaths(store, call.query)

AnswersWithout(id) == AttackPaths(WithoutRelationship(store, id), call.query)

Measured(id) ==
  [id        |-> id,
   cfRisk    |-> RiskOfAll(AnswersWithout(id)),
   reduction |-> RiskOfAll(Answers) - RiskOfAll(AnswersWithout(id)),
   cfCount   |-> Cardinality(AnswersWithout(id)),
   removed   |-> Answers \ AnswersWithout(id),
   kept      |-> AnswersWithout(id),
   saturated |-> FALSE,
   rankable  |-> TRUE]

MeasuredResults == [i \in 1..Len(call.candidates) |-> Measured(call.candidates[i])]

MeasuredRanking(f) ==
  [candidates        |-> Ordered(MeasuredResults, f),
   baselineSaturated |-> FALSE,
   saturated         |-> FALSE,
   reasons           |-> {},
   authoritative     |-> TRUE,
   baselineRisk      |-> RiskOfAll(Answers),
   baselineCount     |-> Cardinality(Answers)]

\* How far the engine is in the list of candidates.
ProgressInv ==
  /\ call.candidates \in Seq(RelId)
  /\ Len(results) + Len(remaining) = Len(call.candidates)
  /\ \A i \in 1..Len(results) : results[i].id = call.candidates[i]
  /\ \A i \in 1..Len(remaining) : remaining[i] = call.candidates[Len(results) + i]
  /\ phase = "returned" => remaining = <<>>

ShowcaseCallInv ==
  stage # "none" =>
    /\ DOMAIN call = {"context", "explicitBounds", "evaluationTime", "candidates", "query"}
    /\ DOMAIN call.query = {"source", "target", "policy", "maxHops", "maxPaths", "types"}
    /\ call.context = "canonical" /\ call.query.source # call.query.target
    /\ ~BoundsInvalid

DistinctCandidates ==
  \A i, j \in 1..Len(call.candidates) : call.candidates[i] = call.candidates[j] => i = j

\* The candidates are the relationships on the paths that analyze has found,
\* and the ranking that it keeps is the one that nothing has cut off.
StageInv ==
  /\ stage \in {"none", "traversing", "primary", "bounded", "reported", "inconsistent"}
  /\ stage = "traversing" => results = <<>> /\ phase # "returned"
  /\ stage \in {"primary", "bounded"} => DistinctCandidates
  /\ stage = "primary" =>
       /\ report.traversal = FindPaths(store)
       /\ {call.candidates[i] : i \in 1..Len(call.candidates)} = IdsOn(report.traversal.paths)
       /\ call.candidates # <<>>
  /\ stage = "bounded" =>
       /\ DOMAIN report = {"traversal", "primary", "featured", "equivalent"}
       /\ \E f \in SortingOrders(MeasuredResults) : report.primary = MeasuredRanking(f)

ReportInv ==
  /\ IInv /\ ProgressInv /\ ShowcaseCallInv /\ StageInv
  /\ OnlySaturationIsInconsistent
  /\ FeaturedIsTheBestCut
  /\ BoundSensitivityIsHonest


-----------------------------------------------------------------------------
(***************************************************************************)
(* The report starts from a call that may be the showcase's, and the       *)
(* engine keeps what is known of it.                                       *)
(***************************************************************************)
LEMMA InitReport == ReportInit => ReportInv
<1> SUFFICES ASSUME ReportInit PROVE ReportInv
  OBVIOUS
<1>1. Init
  BY DEF ReportInit
<1>2. IInv
  BY <1>1, InitInv
<1>3. ProgressInv
  <2>1. call \in Calls /\ results = <<>> /\ remaining = call.candidates /\ phase = "called"
    BY <1>1 DEF Init
  <2>2. call.candidates \in Seq(RelId)
    BY <2>1, CallsAreTyped
  <2>3. Len(call.candidates) \in Nat /\ Len(results) = 0
    BY <2>1, <2>2, LenProperties, EmptySeq
  <2> QED
    BY <2>1, <2>2, <2>3 DEF ProgressInv
<1>4. stage \in {"none", "traversing"} /\ (stage = "traversing" => call \in Showcases)
  BY DEF ReportInit
<1>5. ShowcaseCallInv
  <2> SUFFICES ASSUME stage # "none" PROVE ShowcaseCallInv
    BY DEF ShowcaseCallInv
  <2>1. /\ call = [context |-> "canonical", explicitBounds |-> FALSE,
                   evaluationTime |-> "unset", candidates |-> <<>>, query |-> call.query]
        /\ DOMAIN call.query = {"source", "target", "policy", "maxHops", "maxPaths", "types"}
        /\ call.query.source # call.query.target
        /\ MaxHops(call.query) >= 0 /\ call.query.maxPaths >= 1
    BY <1>4, ShowcasesAreCalls
  <2>2. /\ DOMAIN call = {"context", "explicitBounds", "evaluationTime", "candidates", "query"}
        /\ call.context = "canonical"
    BY <2>1
  <2>3. ~BoundsInvalid
    <3>1. MaxHops(call.query) \in Int /\ call.query.maxPaths \in Int
      BY <1>2, QueryTyped DEF IInv, CallInv
    <3> QED
      BY <2>1, <3>1 DEF BoundsInvalid
  <2> QED
    BY <2>1, <2>2, <2>3 DEF ShowcaseCallInv
<1>6. StageInv
  BY <1>1, <1>4 DEF StageInv, Init
<1> QED
  BY <1>2, <1>3, <1>4, <1>5, <1>6
  DEF ReportInv, OnlySaturationIsInconsistent, FeaturedIsTheBestCut, BoundSensitivityIsHonest

\* The engine takes the candidates one by one, in their order.
LEMMA NextProgress ==
  ASSUME IInv, ProgressInv, Next
  PROVE  ProgressInv' /\ UNCHANGED <<store, call>>
<1>1. CASE RejectArguments \/ BaselineBoundsError \/ RejectCandidate \/ EvaluateBaseline
  <2>1. UNCHANGED <<store, call, remaining, results>> /\ phase' # "returned"
    BY <1>1 DEF RejectArguments, BaselineBoundsError, RejectCandidate, EvaluateBaseline
  <2> QED
    BY <2>1 DEF ProgressInv
<1>2. CASE ReturnRanking
  <2>1. UNCHANGED <<store, call, remaining, results>> /\ remaining = <<>>
    BY <1>2 DEF ReturnRanking
  <2> QED
    BY <2>1 DEF ProgressInv
<1>3. CASE EvaluateCandidate
  <2> DEFINE cf == FindPaths(WithoutRelationship(store, Candidate))
  <2>1. /\ UNCHANGED <<store, call, baseline>> /\ remaining' = Tail(remaining)
        /\ remaining # <<>> /\ phase = "evaluating"
    BY <1>3 DEF EvaluateCandidate, Evaluable, Evaluating
  <2>2. baseline = FindPaths(store)
    BY <2>1 DEF IInv, ResultsInv, BeforeBaseline
  <2>3. ~(cf.saturated /\ ~baseline.saturated)
    BY <2>2, RemovalNeverSaturates DEF IInv, CallInv
  <2>4. phase' = "evaluating" /\ results' = Append(results, Result(Candidate, cf))
    BY <1>3, <2>1, <2>3 DEF EvaluateCandidate
  <2>5. PICK r : r = Result(Candidate, cf)
    OBVIOUS
  <2>6. r.id = remaining[1]
    BY <2>5 DEF Result, Candidate
  <2> HIDE DEF cf
  <2>7. PICK n \in Nat, m \in Nat :
          /\ n = Len(results) /\ m = Len(remaining) /\ m # 0
          /\ Len(Tail(remaining)) = m - 1
          /\ \A i \in 1..m - 1 : Tail(remaining)[i] = remaining[i + 1]
    <3>1. remaining \in Seq(RelId) /\ results \in Seq(Results)
      BY DEF IInv, CallInv, ResultsInv
    <3>2. Len(results) \in Nat /\ Len(remaining) \in Nat
      BY <3>1, LenProperties
    <3>3. Len(remaining) # 0
      BY <2>1, <3>1, EmptySeq
    <3>4. /\ Len(Tail(remaining)) = Len(remaining) - 1
          /\ \A i \in 1..Len(Tail(remaining)) : Tail(remaining)[i] = remaining[i + 1]
      BY <2>1, <3>1, HeadTailProperties
    <3>5. \A i \in 1..Len(remaining) - 1 : Tail(remaining)[i] = remaining[i + 1]
      BY <3>4
    <3> QED
      BY <3>2, <3>3, <3>4, <3>5
  <2>8. /\ Len(results') = n + 1 /\ results'[n + 1] = r
        /\ \A i \in 1..n : results'[i] = results[i]
    BY <2>4, <2>5, <2>7, AppendProperties DEF IInv, ResultsInv
  <2>9. PICK c : c = call.candidates /\ c = call'.candidates
    BY <2>1
  <2>10. /\ n + m = Len(c)
         /\ \A i \in 1..n : results[i].id = c[i]
         /\ \A i \in 1..m : remaining[i] = c[n + i]
    BY <2>7, <2>9 DEF ProgressInv
  <2>11. \A i \in 1..n + 1 : results'[i].id = c[i]
    <3> TAKE i \in 1..n + 1
    <3>1. CASE i \in 1..n
      BY <2>8, <2>10, <3>1
    <3>2. CASE i = n + 1
      BY <2>6, <2>7, <2>8, <2>10, <3>2
    <3> QED
      BY <3>1, <3>2
  <2>12. \A i \in 1..m - 1 : remaining'[i] = c[(n + 1) + i]
    <3> TAKE i \in 1..m - 1
    <3>1. i + 1 \in 1..m /\ n + (i + 1) = (n + 1) + i
      OBVIOUS
    <3>2. remaining'[i] = remaining[i + 1] /\ remaining[i + 1] = c[n + (i + 1)]
      BY <2>1, <2>7, <2>10, <3>1
    <3> QED
      BY <3>1, <3>2
  <2>13. Len(results') + Len(remaining') = Len(c)
    BY <2>1, <2>7, <2>8, <2>10
  <2>14. Len(remaining') = m - 1
    BY <2>1, <2>7
  <2> QED
    BY <2>1, <2>4, <2>8, <2>9, <2>11, <2>12, <2>13, <2>14 DEF ProgressInv
<1> QED
  BY <1>1, <1>2, <1>3 DEF Next


\* What the complete searches measure does not depend on max_paths.
LEMMA SameMeasures ==
  ASSUME store' = store, (call.candidates)' = call.candidates,
         SameSearch(call.query, call'.query), MaxHops(call.query) \in Int
  PROVE  /\ Answers' = Answers
         /\ \A id : AnswersWithout(id)' = AnswersWithout(id)
         /\ MeasuredResults' = MeasuredResults
         /\ \A f : MeasuredRanking(f)' = MeasuredRanking(f)
         /\ SortingOrders(MeasuredResults)' = SortingOrders(MeasuredResults)
<1>1. Answers' = Answers
  BY SameSearchSamePaths DEF Answers
<1>2. \A id : AnswersWithout(id)' = AnswersWithout(id)
  <2> TAKE id
  <2>1. PICK W : W = WithoutRelationship(store, id)
    OBVIOUS
  <2>2. W = WithoutRelationship(store, id)'
    BY <2>1 DEF WithoutRelationship
  <2>3. AttackPaths(W, call.query) = AttackPaths(W, call'.query)
    BY SameSearchSamePaths
  <2> QED
    BY <2>1, <2>2, <2>3 DEF AnswersWithout
<1>3. \A id : Measured(id)' = Measured(id)
  BY <1>1, <1>2 DEF Measured, RiskOfAll, RiskSeq
<1>4. MeasuredResults' = MeasuredResults
  BY <1>3 DEF MeasuredResults
<1>5. \A f : MeasuredRanking(f)' = MeasuredRanking(f)
  BY <1>1, <1>4 DEF MeasuredRanking, Ordered, RiskOfAll, RiskSeq
<1>6. SortingOrders(MeasuredResults)' = SortingOrders(MeasuredResults)
  BY <1>4 DEF SortingOrders
<1> QED
  BY <1>1, <1>2, <1>4, <1>5, <1>6

\* The best cut, in terms of the paths that are left.
BestCut(best, equivalent) ==
  /\ \A e \in store : RiskOfAll(AnswersWithout(best)) <= RiskOfAll(AnswersWithout(e.id))
  /\ {best} \cup equivalent =
       {e.id : e \in {f \in store : AnswersWithout(f.id) = AnswersWithout(best)}}

LEMMA BestCutIsFeatured ==
  FeaturedIsTheBestCut <=>
    (stage \in {"bounded", "reported"} => BestCut(report.featured, report.equivalent))
<1>1. \A id : FullRisk(WithoutRelationship(store, id)) = RiskOfAll(AnswersWithout(id))
  BY DEF FullRisk, RiskOfAll, RiskSeq, AnswersWithout
<1> QED
  BY <1>1 DEF FeaturedIsTheBestCut, BestCut, AnswersWithout

\* While the call is the same, nothing that is known of the report changes.
LEMMA SameReport ==
  ASSUME ShowcaseCallInv, StageInv, OnlySaturationIsInconsistent,
         FeaturedIsTheBestCut, BoundSensitivityIsHonest, IInv,
         UNCHANGED <<store, call, stage, report>>,
         stage = "traversing" => (results = <<>>)' /\ phase' # "returned"
  PROVE  /\ ShowcaseCallInv' /\ StageInv' /\ OnlySaturationIsInconsistent'
         /\ FeaturedIsTheBestCut' /\ BoundSensitivityIsHonest'
<1>1. SameSearch(call.query, call'.query) /\ MaxHops(call.query) \in Int
  BY QueryTyped DEF SameSearch, IInv, CallInv
<1>2. /\ Answers' = Answers
      /\ \A id : AnswersWithout(id)' = AnswersWithout(id)
      /\ \A f : MeasuredRanking(f)' = MeasuredRanking(f)
      /\ SortingOrders(MeasuredResults)' = SortingOrders(MeasuredResults)
  BY <1>1, SameMeasures
<1>3. ShowcaseCallInv'
  BY DEF ShowcaseCallInv, BoundsInvalid
<1>4. FindPaths(store)' = FindPaths(store) /\ IdsOn(report.traversal.paths)' = IdsOn(report.traversal.paths)
  BY DEF FindPaths, IdsOn
<1>5. StageInv'
  BY <1>2, <1>4 DEF StageInv, DistinctCandidates
<1>6. OnlySaturationIsInconsistent'
  BY <1>2 DEF OnlySaturationIsInconsistent, Answers, Saturated
<1>7. FeaturedIsTheBestCut'
  <2>1. stage \in {"bounded", "reported"} => BestCut(report.featured, report.equivalent)
    BY BestCutIsFeatured
  <2>2. stage' \in {"bounded", "reported"} =>
          BestCut(report.featured, report.equivalent)'
    BY <1>2, <2>1 DEF BestCut
  <2>3. (FeaturedIsTheBestCut <=>
           (stage \in {"bounded", "reported"} => BestCut(report.featured, report.equivalent)))'
    BY BestCutIsFeatured, PTL
  <2> QED
    BY <2>2, <2>3
<1>8. BoundSensitivityIsHonest'
  BY DEF BoundSensitivityIsHonest
<1> QED
  BY <1>3, <1>5, <1>6, <1>7, <1>8

LEMMA EngineReport ==
  ASSUME ReportInv, Engine
  PROVE  ReportInv'
<1>1. /\ Next /\ UNCHANGED <<stage, report>> /\ stage # "traversing"
  BY DEF Engine
<1>2. ProgressInv' /\ UNCHANGED <<store, call>>
  BY <1>1, NextProgress DEF ReportInv
<1>3. IInv'
  BY <1>1, NextInv DEF ReportInv
<1> QED
  BY <1>1, <1>2, <1>3, SameReport DEF ReportInv


-----------------------------------------------------------------------------
(***************************************************************************)
(* analyze finds the paths, and takes the relationships on them.           *)
(***************************************************************************)
LEMMA PathsOfSearch ==
  ASSUME IsStore(store), IsQuery(call.query), ~BoundsInvalid
  PROVE  /\ FindPaths(store).paths \in Seq(Answers)
         /\ Len(FindPaths(store).paths) \in Nat
         /\ FindPaths(store).paths = <<>> => Answers = {}
         /\ \A p \in Answers : IsAttackPath(store, call.query, p)
<1>1. MaxHops(call.query) \in Int /\ call.query.maxPaths \in Nat /\ call.query.maxPaths >= 1
  BY QueryTyped DEF BoundsInvalid
<1>2. PICK paths : paths = FindPaths(store).paths
  OBVIOUS
<1>3. /\ IsFiniteSet(Answers) /\ Cardinality(Answers) \in Nat /\ paths \in Seq(Answers)
      /\ Len(paths) = IF Cardinality(Answers) <= call.query.maxPaths
                      THEN Cardinality(Answers) ELSE call.query.maxPaths
  BY <1>1, <1>2, EnumerationComplete DEF FindPaths, Answers, IsStore
<1>4. ASSUME paths = <<>> PROVE Answers = {}
  <2>1. Len(paths) = 0
    BY <1>4, EmptySeq
  <2>2. Cardinality(Answers) = 0
    BY <1>1, <1>3, <2>1
  <2> QED
    BY <1>3, <2>2, FS_EmptySet
<1>5. \A p \in Answers : IsAttackPath(store, call.query, p)
  BY <1>1, AttackPathsMember DEF Answers
<1> QED
  BY <1>2, <1>3, <1>4, <1>5, LenProperties

\* The candidates are the relationships on the paths, each once.
LEMMA CandidatesOnPaths ==
  ASSUME IsStore(store), IsQuery(call.query), ~BoundsInvalid,
         call.query.source # call.query.target,
         NEW paths, paths = FindPaths(store).paths, paths # <<>>,
         NEW c, c = Candidates(paths)
  PROVE  /\ c \in Seq(RelId) /\ c # <<>>
         /\ {c[i] : i \in 1..Len(c)} = IdsOn(paths)
         /\ \A i, j \in 1..Len(c) : c[i] = c[j] => i = j
<1>1. /\ paths \in Seq(Answers) /\ Len(paths) \in Nat
      /\ \A p \in Answers : IsAttackPath(store, call.query, p)
  BY PathsOfSearch
<1>2. \A i \in 1..Len(paths) : IsAttackPath(store, call.query, paths[i])
  BY <1>1, ElementOfSeq
<1>3. ASSUME NEW p, IsAttackPath(store, call.query, p)
      PROVE  /\ Len(p) \in Nat /\ Len(p) # 0
             /\ EdgeIds(p) \subseteq {e.id : e \in store} /\ EdgeIds(p) # {}
  <2>1. p \in Seq(store) /\ LastNode(call.query, p) = call.query.target
    BY <1>3 DEF IsAttackPath, Reachable
  <2>2. Len(p) \in Nat /\ \A i \in 1..Len(p) : p[i] \in store
    BY <2>1, LenProperties, ElementOfSeq
  <2>3. Len(p) # 0
    BY <2>1 DEF LastNode, NodeAt
  <2>4. 1 \in 1..Len(p)
    BY <2>2, <2>3
  <2> QED
    BY <2>2, <2>3, <2>4 DEF EdgeIds
<1>4. IdsOn(paths) \subseteq {e.id : e \in store}
  BY <1>2, <1>3 DEF IdsOn
<1>5. IdsOn(paths) # {}
  <2>1. Len(paths) # 0
    BY <1>1, EmptySeq
  <2>2. 1 \in 1..Len(paths)
    BY <1>1, <2>1
  <2>3. EdgeIds(paths[1]) # {} /\ EdgeIds(paths[1]) \subseteq IdsOn(paths)
    BY <1>2, <1>3, <2>2 DEF IdsOn
  <2> QED
    BY <2>3
<1>6. IsFiniteSet({e.id : e \in store}) /\ {e.id : e \in store} \subseteq RelId
  <2>1. [e \in store |-> e.id] \in Surjection(store, {e.id : e \in store})
    BY DEF Surjection
  <2>2. \A e \in store : e.id \in RelId
    BY DEF IsStore, Edge
  <2> QED
    BY <2>1, <2>2, FS_Surjection DEF IsStore
<1>7. IsFiniteSet(IdsOn(paths)) /\ IdsOn(paths) \in SUBSET Nat /\ IdsOn(paths) \subseteq RelId
  BY <1>4, <1>6, FS_Subset, OrderedIdentifiers
<1>8. PICK n : n = Cardinality(IdsOn(paths))
  OBVIOUS
<1>9. n \in Nat /\ c \in Bijection(1..n, IdsOn(paths))
  BY <1>7, <1>8, SortedIds DEF Candidates
<1>10. c \in [1..n -> RelId]
  BY <1>7, <1>9 DEF Bijection, Injection
<1>11. c \in Seq(RelId) /\ Len(c) = n
  BY <1>9, <1>10, SeqDef
<1>12. /\ {c[i] : i \in 1..n} = IdsOn(paths)
       /\ \A i, j \in 1..n : c[i] = c[j] => i = j
  BY <1>9, SMTT(40) DEF Bijection, Injection, Surjection, IsInjective
<1>13. c # <<>>
  <2>1. n # 0
    BY <1>5, <1>12
  <2> QED
    BY <1>11, <2>1, EmptySeq
<1> QED
  BY <1>11, <1>12, <1>13

\* analyze may give up if there is no path, or the search was cut off.
LEMMA InconsistentReport ==
  ASSUME ReportInv, Inconsistent, stage # "none",
         AttackPaths(store, call.query) = {} \/ Saturated(store, call.query)
  PROVE  ReportInv'
<1>1. stage' = "inconsistent" /\ UNCHANGED <<vars, report>>
  BY DEF Inconsistent
<1>2. UNCHANGED <<store, call, phase, remaining, baseline, results, ranking>>
  BY <1>1 DEF vars
<1>3. IInv'
  BY <1>1, NextInv DEF ReportInv
<1>4. ProgressInv'
  BY <1>2 DEF ReportInv, ProgressInv
<1>5. ShowcaseCallInv'
  BY <1>2 DEF ReportInv, ShowcaseCallInv, BoundsInvalid
<1>6. StageInv'
  BY <1>1 DEF StageInv
<1>7. OnlySaturationIsInconsistent'
  BY <1>2 DEF OnlySaturationIsInconsistent, Saturated
<1> QED
  BY <1>1, <1>3, <1>4, <1>5, <1>6, <1>7
  DEF ReportInv, FeaturedIsTheBestCut, BoundSensitivityIsHonest

LEMMA TraverseReport ==
  ASSUME ReportInv, Traverse
  PROVE  ReportInv'
<1>1. /\ stage = "traversing" /\ results = <<>> /\ phase # "returned"
      /\ IsStore(store) /\ IsQuery(call.query) /\ ~BoundsInvalid
      /\ call.query.source # call.query.target /\ call.context = "canonical"
      /\ DOMAIN call = {"context", "explicitBounds", "evaluationTime", "candidates", "query"}
      /\ DOMAIN call.query = {"source", "target", "policy", "maxHops", "maxPaths", "types"}
  BY DEF Traverse, ReportInv, StageInv, ShowcaseCallInv, IInv, CallInv
<1>2. CASE FindPaths(store).paths = <<>>
  <2>1. Inconsistent
    BY <1>2 DEF Traverse, TraversalPaths
  <2>2. AttackPaths(store, call.query) = {}
    BY <1>1, <1>2, PathsOfSearch DEF Answers
  <2> QED
    BY <1>1, <2>1, <2>2, InconsistentReport
<1>3. CASE FindPaths(store).paths # <<>>
  <2>1. PICK paths, c : paths = FindPaths(store).paths /\ c = Candidates(paths)
    OBVIOUS
  <2>2. /\ stage' = "primary"
        /\ report' = [traversal |-> FindPaths(store)]
        /\ call' = [call EXCEPT !.candidates = c]
        /\ remaining' = c
        /\ UNCHANGED <<store, phase, baseline, results, ranking>>
    BY <1>3, <2>1 DEF Traverse, TraversalPaths
  <2>3. /\ c \in Seq(RelId) /\ c # <<>>
        /\ {c[i] : i \in 1..Len(c)} = IdsOn(paths)
        /\ \A i, j \in 1..Len(c) : c[i] = c[j] => i = j
    BY <1>1, <1>3, <2>1, CandidatesOnPaths
  <2>4. /\ DOMAIN call' = DOMAIN call /\ (call.candidates)' = c
        /\ (call.query)' = call.query /\ (call.context)' = call.context
    BY <1>1, <2>2
  <2>5. /\ Results' = Results /\ (BoundsInvalid' <=> BoundsInvalid)
        /\ FindPaths(store)' = FindPaths(store)
    BY <2>2, <2>4, SameResults
  <2>6. CallInv'
    BY <2>2, <2>3, <2>4 DEF ReportInv, IInv, CallInv
  <2>7. ResultsInv'
    BY <2>2, <2>5 DEF ReportInv, IInv, ResultsInv
  <2>8. IInv'
    BY <1>1, <2>2, <2>6, <2>7 DEF ReportInv, IInv, RankingInv, FailClosedChecksNeverFire
  <2>9. ProgressInv'
    <3>1. Len(results') = 0 /\ Len(c) \in Nat
      BY <1>1, <2>2, <2>3, EmptySeq, LenProperties
    <3> QED
      BY <1>1, <2>2, <2>3, <2>4, <3>1 DEF ProgressInv
  <2>10. ShowcaseCallInv'
    BY <1>1, <2>4, <2>5 DEF ShowcaseCallInv
  <2>11. StageInv'
    <3>1. report'.traversal = FindPaths(store)
      BY <2>2
    <3>2. report'.traversal.paths = paths
      BY <2>1, <3>1
    <3>3. IdsOn(report.traversal.paths)' = IdsOn(paths)
      BY <3>2 DEF IdsOn
    <3>4. DistinctCandidates'
      BY <2>3, <2>4 DEF DistinctCandidates
    <3> QED
      BY <2>2, <2>3, <2>4, <2>5, <3>1, <3>3, <3>4 DEF StageInv
  <2> QED
    BY <2>2, <2>8, <2>9, <2>10, <2>11
    DEF ReportInv, OnlySaturationIsInconsistent, FeaturedIsTheBestCut, BoundSensitivityIsHonest
<1> QED
  BY <1>2, <1>3


-----------------------------------------------------------------------------
(***************************************************************************)
(* A ranking that nothing cut off is the measured one.                     *)
(***************************************************************************)
LEMMA ReturnedRanking ==
  ASSUME IInv, ProgressInv, phase = "returned"
  PROVE  \E f \in SortingOrders(results) :
           /\ ranking = Ranking(f)
           /\ Len(results) = Len(call.candidates) /\ Len(results) \in Nat
           /\ f \in [1..Len(results) -> 1..Len(results)]
           /\ Len(ranking.candidates) = Len(results)
           /\ \A i \in 1..Len(results) : ranking.candidates[i] = results[f[i]]
<1>1. PICK f \in SortingOrders(results) : ranking = Ranking(f)
  BY DEF IInv, RankingInv
<1>2. Len(results) \in Nat /\ Len(remaining) \in Nat
  BY LenProperties DEF IInv, ResultsInv, CallInv
<1>3. Len(remaining) = 0
  BY EmptySeq DEF ProgressInv
<1>4. Len(results) + Len(remaining) = Len(call.candidates)
  BY DEF ProgressInv
<1>5. Len(results) = Len(call.candidates)
  BY <1>2, <1>3, <1>4
<1>6. f \in [1..Len(results) -> 1..Len(results)]
  BY DEF SortingOrders
<1>7. ranking.candidates = Ordered(results, f)
  BY <1>1 DEF Ranking
<1>8. /\ Len(Ordered(results, f)) = Len(results)
      /\ \A i \in 1..Len(results) : Ordered(results, f)[i] = results[f[i]]
  BY <1>2, <1>6 DEF Ordered
<1> QED
  BY <1>1, <1>2, <1>5, <1>6, <1>7, <1>8

\* A result of a search that was not cut off is the measured one.
LEMMA MeasuredResult ==
  ASSUME IInv, ~baseline.saturated, NEW i \in 1..Len(results)
  PROVE  results[i] = Measured(results[i].id)
<1>1. /\ ~BoundsInvalid /\ baseline = FindPaths(store) /\ ~results[i].saturated
      /\ \E id \in RelId :
           results[i] = Result(id, FindPaths(WithoutRelationship(store, id)))
  BY RecordedResult DEF IInv
<1>2. PICK id \in RelId :
        results[i] = Result(id, FindPaths(WithoutRelationship(store, id)))
  BY <1>1
<1>3. PICK W, cf : W = WithoutRelationship(store, id) /\ cf = FindPaths(W)
  OBVIOUS
<1>4. /\ IsStore(store) /\ IsQuery(call.query) /\ IsStore(W)
      /\ Measurable(Answers) /\ Measurable(AnswersWithout(id))
      /\ AnswersWithout(id) \in SUBSET Answers
  BY <1>3, SearchesAreMeasurable DEF IInv, CallInv, Answers, AnswersWithout
<1>5. results[i] = Result(id, cf) /\ results[i].id = id /\ ~cf.saturated
  BY <1>1, <1>2, <1>3 DEF Result
<1>6. /\ PathIds(baseline) = Answers
      /\ PathIds(cf) = AnswersWithout(id) /\ Len(cf.paths) = Cardinality(AnswersWithout(id))
  BY <1>1, <1>3, <1>4, <1>5, Unsaturated DEF Answers, AnswersWithout
<1>7. Risk(baseline) = RiskOfAll(Answers) /\ Risk(cf) = RiskOfAll(AnswersWithout(id))
  BY <1>1, <1>3, <1>4, <1>5, RiskOfSearch DEF Answers, AnswersWithout
<1>8. /\ PathIds(baseline) \ PathIds(cf) = Answers \ AnswersWithout(id)
      /\ PathIds(baseline) \cap PathIds(cf) = AnswersWithout(id)
  BY <1>4, <1>6
<1>9. cf.saturated = FALSE /\ ~(baseline.saturated \/ cf.saturated) = TRUE
  <2>1. cf.saturated = Saturated(W, call.query)
    BY <1>3 DEF FindPaths
  <2>2. Saturated(W, call.query) = FALSE
    BY <1>5, <2>1 DEF Saturated
  <2> QED
    BY <1>5, <2>1, <2>2
<1>10. Result(id, cf) = Measured(id)
  BY <1>6, <1>7, <1>8, <1>9 DEF Result, Measured
<1> QED
  BY <1>5, <1>10

LEMMA CompleteIsMeasured ==
  ASSUME IInv, ProgressInv, phase = "returned", call.context = "canonical",
         ~baseline.saturated
  PROVE  /\ results = MeasuredResults
         /\ \E f \in SortingOrders(MeasuredResults) : ranking = MeasuredRanking(f)
<1>1. PICK f \in SortingOrders(results) :
        /\ ranking = Ranking(f)
        /\ Len(results) = Len(call.candidates) /\ Len(results) \in Nat
  BY ReturnedRanking
<1>2. results = MeasuredResults
  <2>1. results \in [1..Len(results) -> Results]
    BY LenProperties DEF IInv, ResultsInv
  <2>2. results = [i \in 1..Len(results) |-> results[i]]
    BY <2>1
  <2>3. \A i \in 1..Len(results) : results[i] = Measured(call.candidates[i])
    BY MeasuredResult DEF ProgressInv
  <2> QED
    BY <1>1, <2>2, <2>3 DEF MeasuredResults
<1>3. ~AnySaturated(results)
  BY RecordedResult DEF IInv, AnySaturated
<1>4. Reasons = {}
  <2>1. (IF baseline.saturated THEN {"BASELINE_SATURATED"} ELSE {}) = {}
    OBVIOUS
  <2>2. (IF AnySaturated(results) THEN {"COUNTERFACTUAL_SATURATED"} ELSE {}) = {}
    BY <1>3
  <2>3. (CASE call.context = "none"   -> {"NO_ANALYSIS_CONTEXT"}
           [] call.context = "ad_hoc" -> {"NON_CANONICAL_SCOPE"}
           [] OTHER                   -> {}) = {}
    OBVIOUS
  <2> QED
    BY <2>1, <2>2, <2>3 DEF Reasons
<1>5. /\ IsStore(store) /\ IsQuery(call.query) /\ Measurable(Answers)
      /\ ~BoundsInvalid /\ baseline = FindPaths(store)
  BY SearchesAreMeasurable DEF IInv, CallInv, ResultsInv, BeforeBaseline, Answers
<1>6. Risk(baseline) = RiskOfAll(Answers) /\ Len(baseline.paths) = Cardinality(Answers)
  BY <1>5, RiskOfSearch, Unsaturated DEF Answers
<1>7. baseline.saturated = FALSE
  <2>1. baseline.saturated = Saturated(store, call.query)
    BY <1>5 DEF FindPaths
  <2>2. Saturated(store, call.query) = FALSE
    BY <2>1 DEF Saturated
  <2> QED
    BY <2>1, <2>2
<1>8. (baseline.saturated \/ AnySaturated(results)) = FALSE /\ (Reasons = {}) = TRUE
  BY <1>3, <1>4
<1>9. Ranking(f) = MeasuredRanking(f)
  BY <1>2, <1>4, <1>6, <1>7, <1>8 DEF Ranking, MeasuredRanking
<1> QED
  BY <1>1, <1>2, <1>9

\* The measures that a ranking compares, and how they are ordered.
LEMMA MeasuredValues ==
  ASSUME IInv, NEW id \in RelId
  PROVE  /\ RiskOfAll(Answers) \in Int /\ RiskOfAll(AnswersWithout(id)) \in Int
         /\ RiskOfAll(AnswersWithout(id)) <= RiskOfAll(Answers)
         /\ IsFiniteSet(AnswersWithout(id)) /\ Cardinality(AnswersWithout(id)) \in Nat
         /\ AnswersWithout(id) = {p \in Answers : ~Uses(p, id)}
<1>1. /\ Measurable(Answers) /\ AnswersWithout(id) \in SUBSET Answers
      /\ Measurable(AnswersWithout(id))
  BY SearchesAreMeasurable DEF IInv, Answers, AnswersWithout
<1>2. IsFiniteSet(AnswersWithout(id)) /\ Cardinality(AnswersWithout(id)) \in Nat
  BY <1>1, FS_CardinalityType DEF Measurable
<1>3. AnswersWithout(id) = {p \in Answers : ~Uses(p, id)}
  BY QueryTyped, PathsWithout DEF IInv, CallInv, Answers, AnswersWithout
<1> QED
  BY <1>1, <1>2, <1>3, RiskOfAllOfPart

\* The candidate that is ranked first reduces the risk most.
LEMMA FirstReducesMost ==
  ASSUME IInv, ProgressInv, NEW f \in SortingOrders(MeasuredResults),
         NEW c, c = call.candidates, c # <<>>, NEW k \in 1..Len(c)
  PROVE  /\ 1 \in 1..Len(c) /\ f[1] \in 1..Len(c)
         /\ RiskOfAll(AnswersWithout(c[f[1]])) <= RiskOfAll(AnswersWithout(c[k]))
<1>1. c \in Seq(RelId) /\ Len(c) \in Nat /\ Len(c) # 0 /\ \A i \in 1..Len(c) : c[i] \in RelId
  BY EmptySeq, LenProperties, ElementOfSeq DEF ProgressInv
<1>2. Len(MeasuredResults) = Len(c) /\ \A i \in 1..Len(c) : MeasuredResults[i] = Measured(c[i])
  BY <1>1 DEF MeasuredResults
<1>3. PICK rs : rs = MeasuredResults
  OBVIOUS
<1>4. /\ f \in [1..Len(c) -> 1..Len(c)]
      /\ \E i \in 1..Len(c) : f[i] = k
      /\ \A i, j \in 1..Len(c) : i < j => ~RanksBefore(rs[f[j]], rs[f[i]])
  BY <1>2, <1>3 DEF SortingOrders
<1>5. 1 \in 1..Len(c) /\ f[1] \in 1..Len(c)
  BY <1>1, <1>4
<1>6. PICK i \in 1..Len(c) : f[i] = k
  BY <1>4
<1>7. CASE i = 1
  <2>1. RiskOfAll(AnswersWithout(c[k])) \in Int
    BY <1>1, MeasuredValues
  <2> QED
    BY <1>5, <1>6, <1>7, <2>1
<1>8. CASE i # 1
  <2>1. ~RanksBefore(rs[k], rs[f[1]])
    BY <1>4, <1>5, <1>6, <1>8
  <2>2. ~(rs[k].reduction > rs[f[1]].reduction)
    BY <2>1 DEF RanksBefore
  <2>3. PICK a \in Int, x \in Int, y \in Int :
          /\ a = RiskOfAll(Answers) /\ x = RiskOfAll(AnswersWithout(c[f[1]]))
          /\ y = RiskOfAll(AnswersWithout(c[k]))
    BY <1>1, <1>5, MeasuredValues
  <2>4. rs[k].reduction = a - y /\ rs[f[1]].reduction = a - x
    <3>1. \A id : Measured(id).reduction = RiskOfAll(Answers) - RiskOfAll(AnswersWithout(id))
      BY DEF Measured
    <3>2. rs[k] = Measured(c[k]) /\ rs[f[1]] = Measured(c[f[1]])
      BY <1>2, <1>3, <1>5
    <3> QED
      BY <2>3, <3>1, <3>2
  <2>5. x <= y
    BY <2>2, <2>4
  <2> QED
    BY <1>5, <2>3, <2>5
<1> QED
  BY <1>7, <1>8


-----------------------------------------------------------------------------
(***************************************************************************)
(* analyze compares, and features the first of the ranking.                *)
(***************************************************************************)
EquivalentTo(ranked, best) ==
  {ranked[i].id : i \in {k \in 2..Len(ranked) : Equivalent(ranked[k], best)}}

LEMMA FeaturedCut ==
  ASSUME IInv, ProgressInv, ~BoundsInvalid, ~FindPaths(store).saturated,
         NEW c, c = call.candidates, c # <<>>,
         {c[i] : i \in 1..Len(c)} = IdsOn(FindPaths(store).paths),
         NEW f \in SortingOrders(MeasuredResults),
         NEW ranked, ranked = Ordered(MeasuredResults, f), NEW best, best = ranked[1]
  PROVE  BestCut(best.id, EquivalentTo(ranked, best))
<1>1. c \in Seq(RelId) /\ Len(c) \in Nat /\ Len(c) # 0 /\ \A i \in 1..Len(c) : c[i] \in RelId
  BY EmptySeq, LenProperties, ElementOfSeq DEF ProgressInv
<1>2. /\ f \in [1..Len(c) -> 1..Len(c)]
      /\ \A k \in 1..Len(c) : \E i \in 1..Len(c) : f[i] = k
  <2>1. Len(MeasuredResults) = Len(c)
    BY <1>1 DEF MeasuredResults
  <2> QED
    BY <2>1 DEF SortingOrders
<1>3. Len(ranked) = Len(c) /\ \A i \in 1..Len(c) : ranked[i] = Measured(c[f[i]])
  <2>1. Len(MeasuredResults) = Len(c) /\ \A i \in 1..Len(c) : MeasuredResults[i] = Measured(c[i])
    BY <1>1 DEF MeasuredResults
  <2>2. PICK rs : rs = MeasuredResults
    OBVIOUS
  <2>3. ranked = [i \in 1..Len(c) |-> rs[f[i]]]
    BY <2>1, <2>2 DEF Ordered
  <2>4. Len(ranked) = Len(c) /\ \A i \in 1..Len(c) : ranked[i] = rs[f[i]]
    BY <1>1, <2>3
  <2> QED
    BY <1>2, <2>1, <2>2, <2>4
<1>4. /\ IsStore(store) /\ IsQuery(call.query) /\ store \in SUBSET Edge
      /\ \A e \in store : e.id \in RelId
  BY DEF IInv, CallInv, IsStore, Edge
<1>5. \A id : id \in IdsOn(FindPaths(store).paths) <=> \E p \in Answers : Uses(p, id)
  <2>1. PathIds(FindPaths(store)) = Answers
    BY <1>4, Unsaturated DEF Answers
  <2> QED
    BY <2>1, SMTT(40) DEF IdsOn, EdgeIds, Uses, PathIds
<1>6. \A p \in Answers : \A id : Uses(p, id) => \E e \in store : e.id = id
  <2>1. \A p \in Answers : p \in Seq(store)
    BY <1>4, PathsOfSearch DEF IsAttackPath, Reachable
  <2> QED
    BY <2>1, ElementOfSeq DEF Uses
<1>7. ASSUME NEW id, \E p \in Answers : Uses(p, id)
      PROVE  \E k \in 1..Len(c) : c[f[k]] = id
  <2>1. PICK i \in 1..Len(c) : c[i] = id
    BY <1>5, <1>7
  <2>2. PICK k \in 1..Len(c) : f[k] = i
    BY <1>2
  <2> QED
    BY <2>1, <2>2
<1>8. PICK b : b = c[f[1]]
  OBVIOUS
<1>9. /\ 1 \in 1..Len(c) /\ f[1] \in 1..Len(c) /\ b \in RelId
      /\ \A k \in 1..Len(c) :
           RiskOfAll(AnswersWithout(b)) <= RiskOfAll(AnswersWithout(c[k]))
  BY <1>1, <1>8, FirstReducesMost
<1>10. ASSUME NEW e \in store
       PROVE  RiskOfAll(AnswersWithout(b)) <= RiskOfAll(AnswersWithout(e.id))
  <2>1. CASE \E p \in Answers : Uses(p, e.id)
    <3>1. PICK k \in 1..Len(c) : c[f[k]] = e.id
      BY <1>7, <2>1
    <3>2. f[k] \in 1..Len(c)
      BY <1>2
    <3> QED
      BY <1>9, <3>1, <3>2
  <2>2. CASE ~\E p \in Answers : Uses(p, e.id)
    <3>1. AnswersWithout(e.id) = {p \in Answers : ~Uses(p, e.id)}
      BY <1>4, MeasuredValues
    <3>2. AnswersWithout(e.id) = Answers
      BY <2>2, <3>1
    <3>3. RiskOfAll(AnswersWithout(b)) <= RiskOfAll(Answers)
      BY <1>9, MeasuredValues
    <3> QED
      BY <3>2, <3>3
  <2> QED
    BY <2>1, <2>2
<1>11. ranked[1].id = b
  <2>1. \A id : Measured(id).id = id
    BY DEF Measured
  <2> QED
    BY <1>3, <1>8, <1>9, <2>1
<1>12. /\ \E e \in store : e.id = b
       /\ AnswersWithout(b) # Answers
  <2>1. b \in IdsOn(FindPaths(store).paths)
    BY <1>8, <1>9
  <2>2. PICK p \in Answers : Uses(p, b)
    BY <1>5, <2>1
  <2>3. AnswersWithout(b) = {r \in Answers : ~Uses(r, b)}
    BY <1>9, MeasuredValues
  <2> QED
    BY <1>6, <2>2, <2>3
<1>13. \A k \in 1..Len(c) :
         Equivalent(ranked[k], ranked[1]) <=> AnswersWithout(c[f[k]]) = AnswersWithout(b)
  <2>1. \A id : /\ Measured(id).reduction = RiskOfAll(Answers) - RiskOfAll(AnswersWithout(id))
                /\ Measured(id).kept = AnswersWithout(id)
    BY DEF Measured
  <2> QED
    BY <1>3, <1>8, <1>9, <2>1 DEF Equivalent
<1>14. \A k \in 1..Len(c) : ranked[k].id = c[f[k]]
  <2>1. \A id : Measured(id).id = id
    BY DEF Measured
  <2> QED
    BY <1>3, <2>1
<1> DEFINE equal == {e.id : e \in {g \in store : AnswersWithout(g.id) = AnswersWithout(b)}}
           others == EquivalentTo(ranked, ranked[1])
<1>15. ASSUME NEW id \in others
       PROVE  id \in equal
  <2>1. PICK k \in 1..Len(c) : id = ranked[k].id /\ Equivalent(ranked[k], ranked[1])
    BY <1>1, <1>3 DEF EquivalentTo
  <2>2. c[f[k]] = id /\ AnswersWithout(id) = AnswersWithout(b)
    BY <1>13, <1>14, <2>1
  <2>3. f[k] \in 1..Len(c)
    BY <1>2
  <2>4. id \in IdsOn(FindPaths(store).paths)
    BY <2>2, <2>3
  <2>5. PICK e \in store : e.id = id
    BY <1>5, <1>6, <2>4
  <2> QED
    BY <2>2, <2>5
<1>16. ASSUME NEW e \in store, AnswersWithout(e.id) = AnswersWithout(b), e.id # b
       PROVE  e.id \in others
  <2>1. AnswersWithout(e.id) = {p \in Answers : ~Uses(p, e.id)}
    BY <1>4, MeasuredValues
  <2>2. \E p \in Answers : Uses(p, e.id)
    BY <1>12, <1>16, <2>1
  <2>3. PICK k \in 1..Len(c) : c[f[k]] = e.id
    BY <1>7, <2>2
  <2>4. k # 1 /\ k \in 2..Len(ranked)
    BY <1>1, <1>3, <1>8, <1>16, <2>3
  <2>5. Equivalent(ranked[k], ranked[1]) /\ ranked[k].id = e.id
    BY <1>13, <1>14, <1>16, <2>3
  <2> QED
    BY <2>4, <2>5 DEF EquivalentTo
<1>17. {b} \cup others = equal
  <2>1. b \in equal
    BY <1>12
  <2>2. others \subseteq equal
    BY <1>15
  <2>3. \A id \in equal : id = b \/ id \in others
    BY <1>16
  <2> HIDE DEF equal, others
  <2> QED
    BY <2>1, <2>2, <2>3
<1> QED
  BY <1>10, <1>11, <1>17 DEF BestCut


LEMMA FeatureReport ==
  ASSUME ReportInv, Feature
  PROVE  ReportInv'
<1>1. /\ stage = "primary" /\ phase = "returned"
      /\ IInv /\ ProgressInv
      /\ report.traversal = FindPaths(store) /\ DistinctCandidates
      /\ {call.candidates[i] : i \in 1..Len(call.candidates)} = IdsOn(report.traversal.paths)
      /\ call.candidates # <<>>
  BY DEF Feature, ReportInv, StageInv
<1>2. /\ store \in Graphs /\ IsStore(store) /\ IsQuery(call.query) /\ ~BoundsInvalid
      /\ call.query.source # call.query.target /\ call.context = "canonical"
      /\ DOMAIN call = {"context", "explicitBounds", "evaluationTime", "candidates", "query"}
      /\ DOMAIN call.query = {"source", "target", "policy", "maxHops", "maxPaths", "types"}
      /\ baseline = FindPaths(store)
  BY <1>1 DEF ReportInv, ShowcaseCallInv, IInv, CallInv, ResultsInv, BeforeBaseline
<1>3. PICK f \in SortingOrders(results) :
        /\ ranking = Ranking(f)
        /\ Len(results) = Len(call.candidates) /\ Len(results) \in Nat
        /\ f \in [1..Len(results) -> 1..Len(results)]
        /\ Len(ranking.candidates) = Len(results)
        /\ \A i \in 1..Len(results) : ranking.candidates[i] = results[f[i]]
  BY <1>1, ReturnedRanking
<1>4. PICK ranked, best : ranked = ranking.candidates /\ best = ranked[1]
  OBVIOUS
<1>5. call.candidates \in Seq(RelId) /\ Len(results) # 0 /\ 1 \in 1..Len(results)
      /\ f[1] \in 1..Len(results) /\ best = results[f[1]]
  <2>1. call.candidates \in Seq(RelId)
    BY <1>1 DEF ProgressInv
  <2>2. Len(results) # 0
    BY <1>1, <1>3, <2>1, EmptySeq
  <2>3. 1 \in 1..Len(results)
    BY <1>3, <2>2
  <2> QED
    BY <1>3, <1>4, <2>1, <2>2, <2>3
<1>6. ~Diverges
  <2>1. /\ ranking.baselineCount = Len(baseline.paths)
        /\ ranking.baselineRisk = Risk(baseline)
        /\ ranking.baselineSaturated = baseline.saturated
    BY <1>3 DEF Ranking
  <2> QED
    BY <1>1, <1>2, <2>1 DEF Diverges
<1>7. ASSUME NEW i \in 1..Len(ranked)
      PROVE  Partitions(ranked[i])
  <2>1. PICK k \in 1..Len(results) : ranked[i] = results[k]
    BY <1>3, <1>4
  <2>2. \E id \in RelId : results[k] = Result(id, FindPaths(WithoutRelationship(store, id)))
    BY <1>1, RecordedResult DEF IInv
  <2>3. PICK id \in RelId : results[k] = Result(id, FindPaths(WithoutRelationship(store, id)))
    BY <2>2
  <2>4. PICK kept : kept = PathIds(FindPaths(WithoutRelationship(store, id)))
    OBVIOUS
  <2>5. /\ ranked[i].removed = PathIds(baseline) \ kept
        /\ ranked[i].kept = PathIds(baseline) \cap kept
    BY <2>1, <2>3, <2>4 DEF Result
  <2> QED
    BY <1>1, <1>2, <2>5 DEF Partitions
<1>8. ASSUME ~baseline.saturated
      PROVE  best.rankable /\ Cardinality(best.kept) = best.cfCount
  <2>1. best = Measured(best.id)
    BY <1>1, <1>5, <1>8, MeasuredResult
  <2>2. \A id : /\ Measured(id).rankable
                /\ Cardinality(Measured(id).kept) = Measured(id).cfCount
    BY DEF Measured
  <2>3. PICK id : id = best.id
    OBVIOUS
  <2> QED
    BY <2>1, <2>2, <2>3
<1>9. CASE ~best.rankable \/ Cardinality(best.kept) # best.cfCount
  <2>1. Inconsistent
    BY <1>4, <1>9 DEF Feature
  <2>2. Saturated(store, call.query)
    BY <1>2, <1>8, <1>9 DEF FindPaths
  <2> QED
    BY <1>1, <2>1, <2>2, InconsistentReport
<1>10. CASE best.rankable /\ Cardinality(best.kept) = best.cfCount
  <2>1. PICK equivalent :
          equivalent = {ranked[i].id : i \in {k \in 2..Len(ranked) : Equivalent(ranked[k], best)}}
    OBVIOUS
  <2>2. /\ stage' = "bounded"
        /\ report' = [traversal  |-> report.traversal, primary |-> ranking,
                      featured   |-> best.id, equivalent |-> equivalent]
        /\ call' = [call EXCEPT !.query.maxPaths = BoundedMaxPaths]
        /\ phase' = "called" /\ remaining' = call.candidates
        /\ baseline' = NoResult /\ results' = <<>> /\ ranking' = NoRanking
        /\ UNCHANGED store
    BY <1>4, <1>6, <1>7, <1>10, <2>1 DEF Feature
  <2>3. /\ DOMAIN call' = DOMAIN call /\ (call.candidates)' = call.candidates
        /\ (call.context)' = call.context
        /\ (call.query)' = [call.query EXCEPT !.maxPaths = BoundedMaxPaths]
    BY <1>2, <2>2
  <2>4. PICK q : q = (call.query)'
    OBVIOUS
  <2>5. /\ DOMAIN q = DOMAIN call.query /\ q.maxPaths = BoundedMaxPaths
        /\ SameSearch(call.query, q) /\ MaxHops(q) = MaxHops(call.query)
    BY <1>2, <2>3, <2>4 DEF SameSearch, MaxHops
  <2>6. IsQuery(q) /\ ~(MaxHops(q) < 0 \/ q.maxPaths < 1)
    <3>1. BoundedMaxPaths \in Int /\ BoundedMaxPaths >= 1
      BY ShowcasesAreCalls
    <3>2. IsQuery(q)
      BY <1>2, <2>5, <3>1 DEF IsQuery, SameSearch
    <3>3. ~(q.maxPaths < 1)
      BY <2>5, <3>1
    <3> QED
      BY <1>2, <2>5, <3>2, <3>3 DEF BoundsInvalid
  <2>7. CallInv'
    <3>1. PICK c \in Calls : SameSearch(call.query, c.query)
      BY <1>1 DEF IInv, CallInv
    <3>2. SameSearch(q, c.query)
      BY <2>5, <3>1 DEF SameSearch
    <3>3. (\E d \in Calls : SameSearch(call.query, d.query))'
      BY <2>4, <3>2
    <3>4. IsQuery(call.query)'
      BY <2>4, <2>6
    <3> QED
      BY <1>2, <1>5, <2>2, <2>3, <3>3, <3>4 DEF CallInv
  <2>8. IInv'
    <3>1. ResultsInv'
      BY <2>2, EmptySeq DEF ResultsInv, BeforeBaseline
    <3> QED
      BY <2>2, <2>7, <3>1 DEF IInv, RankingInv, FailClosedChecksNeverFire
  <2>9. ProgressInv'
    <3>1. Len(results') = 0 /\ Len(call.candidates) \in Nat
      BY <1>5, <2>2, EmptySeq, LenProperties
    <3> QED
      BY <1>5, <2>2, <2>3, <3>1 DEF ProgressInv
  <2>10. ShowcaseCallInv'
    <3>1. ~BoundsInvalid'
      BY <2>4, <2>6 DEF BoundsInvalid
    <3>2. (call.query.source # call.query.target)'
      BY <1>2, <2>4, <2>5 DEF SameSearch
    <3> QED
      BY <1>2, <2>3, <2>4, <2>5, <3>1, <3>2 DEF ShowcaseCallInv
  <2>11. ~baseline.saturated
    BY <1>1, <1>5, <1>10, RecordedResult DEF IInv
  <2>12. PICK g \in SortingOrders(MeasuredResults) : ranking = MeasuredRanking(g)
    BY <1>1, <1>2, <2>11, CompleteIsMeasured
  <2>13. ranked = Ordered(MeasuredResults, g)
    BY <1>4, <2>12 DEF MeasuredRanking
  <2>14. BestCut(best.id, equivalent)
    <3>1. /\ ~FindPaths(store).saturated
          /\ {call.candidates[i] : i \in 1..Len(call.candidates)} = IdsOn(FindPaths(store).paths)
      <4>1. IdsOn(report.traversal.paths) = IdsOn(FindPaths(store).paths)
        BY <1>1
      <4>2. ~FindPaths(store).saturated
        BY <1>2, <2>11
      <4> QED
        BY <1>1, <4>1, <4>2
    <3>2. BestCut(best.id, EquivalentTo(ranked, best))
      <4>1. PICK c : c = call.candidates
        OBVIOUS
      <4>2. c # <<>> /\ {c[i] : i \in 1..Len(c)} = IdsOn(FindPaths(store).paths)
        BY <1>1, <3>1, <4>1
      <4>3. IInv /\ ProgressInv /\ ~BoundsInvalid
        BY <1>1, <1>2
      <4> QED
        BY <1>4, <2>13, <3>1, <4>1, <4>2, <4>3, FeaturedCut
    <3> QED
      BY <2>1, <3>2 DEF EquivalentTo
  <2>15. /\ \A id : AnswersWithout(id)' = AnswersWithout(id)
         /\ \A h : MeasuredRanking(h)' = MeasuredRanking(h)
         /\ SortingOrders(MeasuredResults)' = SortingOrders(MeasuredResults)
    <3>1. SameSearch(call.query, call'.query) /\ MaxHops(call.query) \in Int
      BY <1>2, <2>4, <2>5, QueryTyped
    <3> QED
      BY <2>2, <2>3, <3>1, SameMeasures
  <2>16. FeaturedIsTheBestCut'
    <3>1. PICK b : b = best.id
      OBVIOUS
    <3>2. report'.featured = b /\ report'.equivalent = equivalent
      BY <2>2, <3>1
    <3>3. BestCut(b, equivalent)'
      BY <2>2, <2>14, <2>15, <3>1 DEF BestCut
    <3>4. BestCut(report.featured, report.equivalent)'
      BY <3>2, <3>3
    <3>5. (FeaturedIsTheBestCut <=>
             (stage \in {"bounded", "reported"} => BestCut(report.featured, report.equivalent)))'
      BY BestCutIsFeatured, PTL
    <3> QED
      BY <3>4, <3>5
  <2>17. StageInv'
    <3>1. /\ DOMAIN report' = {"traversal", "primary", "featured", "equivalent"}
          /\ report'.primary = MeasuredRanking(g)
      BY <2>2, <2>12
    <3>2. (\E h \in SortingOrders(MeasuredResults) : report.primary = MeasuredRanking(h))'
      BY <2>15, <3>1
    <3>3. DistinctCandidates'
      BY <1>1, <2>3 DEF DistinctCandidates
    <3> QED
      BY <2>2, <3>1, <3>2, <3>3 DEF StageInv
  <2> QED
    BY <2>2, <2>8, <2>9, <2>10, <2>16, <2>17
    DEF ReportInv, OnlySaturationIsInconsistent, BoundSensitivityIsHonest
<1> QED
  BY <1>9, <1>10


-----------------------------------------------------------------------------
(***************************************************************************)
(* analyze publishes the second analysis with the first.                   *)
(***************************************************************************)
\* Different candidates can be ranked in one way only.
LEMMA OrderIsDetermined ==
  ASSUME IInv, ProgressInv, DistinctCandidates,
         NEW f \in SortingOrders(MeasuredResults), NEW g \in SortingOrders(MeasuredResults)
  PROVE  f = g
<1>1. PICK n, rs : n = Len(call.candidates) /\ rs = MeasuredResults
  OBVIOUS
<1>2. n \in Nat /\ \A i \in 1..n : call.candidates[i] \in RelId
  BY <1>1, LenProperties, ElementOfSeq DEF ProgressInv
<1>3. Len(rs) = n /\ \A i \in 1..n : rs[i] = Measured(call.candidates[i])
  BY <1>1, <1>2 DEF MeasuredResults
<1>4. ASSUME NEW h \in SortingOrders(MeasuredResults)
      PROVE  /\ h \in [1..n -> 1..n]
             /\ \A k \in 1..n : \E i \in 1..n : h[i] = k
             /\ \A i, j \in 1..n : h[i] = h[j] => i = j
             /\ \A i, j \in 1..n : i < j => ~RanksBefore(rs[h[j]], rs[h[i]])
  <2>1. /\ h \in [1..n -> 1..n]
        /\ \A k \in 1..n : \E i \in 1..n : h[i] = k
        /\ \A i, j \in 1..n : i < j => ~RanksBefore(rs[h[j]], rs[h[i]])
    BY <1>1, <1>3 DEF SortingOrders
  <2>2. h \in Surjection(1..n, 1..n)
    BY <2>1 DEF Surjection
  <2>3. IsFiniteSet(1..n)
    BY <1>2, FS_Interval
  <2>4. h \in Injection(1..n, 1..n)
    BY <2>2, <2>3, FS_SurjSameCardinalityImpliesInj
  <2>5. \A i, j \in 1..n : h[i] = h[j] => i = j
    BY <2>4 DEF Injection, IsInjective
  <2> QED
    BY <2>1, <2>5
<1>5. ASSUME NEW i \in 1..n
      PROVE  /\ rs[i].id = call.candidates[i] /\ rs[i].id \in Int
             /\ rs[i].reduction \in Int /\ rs[i].cfRisk \in Int /\ rs[i].cfCount \in Int
  <2>1. PICK id \in RelId : id = call.candidates[i]
    BY <1>2
  <2>2. /\ RiskOfAll(Answers) \in Int /\ RiskOfAll(AnswersWithout(id)) \in Int
        /\ Cardinality(AnswersWithout(id)) \in Nat
    BY MeasuredValues
  <2>3. /\ rs[i].id = id
        /\ rs[i].reduction = RiskOfAll(Answers) - RiskOfAll(AnswersWithout(id))
        /\ rs[i].cfRisk = RiskOfAll(AnswersWithout(id))
        /\ rs[i].cfCount = Cardinality(AnswersWithout(id))
    BY <1>3, <2>1 DEF Measured
  <2>4. id \in Int
    BY OrderedIdentifiers
  <2> QED
    BY <2>1, <2>2, <2>3, <2>4
<1>6. ASSUME NEW i \in 1..n, NEW j \in 1..n
      PROVE  /\ i # j => RanksBefore(rs[i], rs[j]) \/ RanksBefore(rs[j], rs[i])
             /\ ~(RanksBefore(rs[i], rs[j]) /\ RanksBefore(rs[j], rs[i]))
  <2>1. i # j => rs[i].id # rs[j].id
    BY <1>1, <1>5 DEF DistinctCandidates
  <2>2. /\ rs[i].id \in Int /\ rs[i].reduction \in Int /\ rs[i].cfRisk \in Int /\ rs[i].cfCount \in Int
        /\ rs[j].id \in Int /\ rs[j].reduction \in Int /\ rs[j].cfRisk \in Int /\ rs[j].cfCount \in Int
    BY <1>5
  <2> QED
    BY <2>1, <2>2 DEF RanksBefore
<1>7. ASSUME NEW h \in SortingOrders(MeasuredResults), NEW i \in 1..n, NEW j \in 1..n, i < j
      PROVE  RanksBefore(rs[h[i]], rs[h[j]])
  <2>1. /\ h \in [1..n -> 1..n]
        /\ \A k, l \in 1..n : h[k] = h[l] => k = l
        /\ \A k, l \in 1..n : k < l => ~RanksBefore(rs[h[l]], rs[h[k]])
    BY <1>4
  <2>2. h[i] \in 1..n /\ h[j] \in 1..n /\ h[i] # h[j] /\ ~RanksBefore(rs[h[j]], rs[h[i]])
    BY <1>7, <2>1
  <2> QED
    BY <1>6, <2>2
<1> DEFINE S == {m \in Nat : \A i \in 1..n : i <= m => f[i] = g[i]}
<1>8. 0 \in S
  OBVIOUS
<1>9. ASSUME NEW m \in Nat, m \in S PROVE m + 1 \in S
  <2>1. \A i \in 1..n : i <= m => f[i] = g[i]
    BY <1>9
  <2> SUFFICES ASSUME NEW i \in 1..n, i = m + 1, f[i] # g[i] PROVE FALSE
    BY <1>2, <2>1
  <2>2. /\ f[i] \in 1..n /\ g[i] \in 1..n
        /\ \A k, l \in 1..n : f[k] = f[l] => k = l
        /\ \A k, l \in 1..n : g[k] = g[l] => k = l
        /\ \A x \in 1..n : \E k \in 1..n : f[k] = x
        /\ \A x \in 1..n : \E k \in 1..n : g[k] = x
    BY <1>4, ZenonT(40)
  <2>3. PICK j \in 1..n : f[j] = g[i]
    BY <2>2
  <2>4. PICK k \in 1..n : g[k] = f[i]
    BY <2>2
  <2>5. i < j
    <3>1. j # i
      BY <2>3
    <3>2. ~(j <= m)
      BY <2>1, <2>2, <2>3, <3>1
    <3> QED
      BY <1>2, <3>1, <3>2
  <2>6. i < k
    <3>1. k # i
      BY <2>4
    <3>2. ~(k <= m)
      BY <2>1, <2>2, <2>4, <3>1
    <3> QED
      BY <1>2, <3>1, <3>2
  <2>7. RanksBefore(rs[f[i]], rs[g[i]]) /\ RanksBefore(rs[g[i]], rs[f[i]])
    BY <1>7, <2>3, <2>4, <2>5, <2>6
  <2> QED
    BY <1>6, <2>2, <2>7
<1>10. Nat \subseteq S
  <2> HIDE DEF S
  <2> QED
    BY <1>8, <1>9, NatSetInduction
<1>11. \A i \in 1..n : f[i] = g[i]
  <2> TAKE i \in 1..n
  <2>1. i \in Nat /\ i <= i
    BY <1>2
  <2>2. i \in S
    BY <1>10, <2>1
  <2> QED
    BY <2>1, <2>2
<1>12. f = [i \in 1..n |-> f[i]] /\ g = [i \in 1..n |-> g[i]]
  <2>1. f \in [1..n -> 1..n] /\ g \in [1..n -> 1..n]
    BY <1>4
  <2> QED
    BY <2>1
<1>13. [i \in 1..n |-> f[i]] = [i \in 1..n |-> g[i]]
  BY <1>11
<1> QED
  BY <1>12, <1>13, Zenon

LEMMA PublishReport ==
  ASSUME ReportInv, Publish
  PROVE  ReportInv'
<1>1. /\ stage = "bounded" /\ phase = "returned" /\ stage' = "reported"
      /\ UNCHANGED <<store, call, phase, remaining, baseline, results, ranking>>
      /\ IInv /\ ProgressInv /\ DistinctCandidates
      /\ DOMAIN report = {"traversal", "primary", "featured", "equivalent"}
  BY DEF Publish, vars, ReportInv, StageInv
<1>2. /\ IsStore(store) /\ IsQuery(call.query) /\ ~BoundsInvalid /\ call.context = "canonical"
      /\ baseline = FindPaths(store)
  BY <1>1 DEF ReportInv, ShowcaseCallInv, IInv, CallInv, ResultsInv, BeforeBaseline
<1>3. PICK d : d = Svg!Drawing(Environment)
  OBVIOUS
<1>4. report' = [part \in DOMAIN report \cup {"bounded", "drawing"} |->
                   CASE part = "bounded" -> ranking
                     [] part = "drawing" -> d
                     [] OTHER -> report[part]]
  BY <1>3 DEF Publish, Bounded
<1>5. /\ report'.bounded = ranking /\ report'.primary = report.primary
      /\ report'.featured = report.featured /\ report'.equivalent = report.equivalent
  BY <1>1, <1>4
<1>6. IInv'
  BY <1>1, NextInv DEF Publish
<1>7. ProgressInv'
  BY <1>1 DEF ProgressInv
<1>8. ShowcaseCallInv'
  BY <1>1 DEF ReportInv, ShowcaseCallInv, BoundsInvalid
<1>9. StageInv'
  BY <1>1 DEF StageInv
<1>10. FeaturedIsTheBestCut'
  <2>1. BestCut(report.featured, report.equivalent)
    BY <1>1, BestCutIsFeatured DEF ReportInv
  <2>2. PICK b, q : b = report.featured /\ q = report.equivalent
    OBVIOUS
  <2>3. \A id : AnswersWithout(id)' = AnswersWithout(id)
    BY <1>1 DEF AnswersWithout, WithoutRelationship
  <2>4. BestCut(b, q)'
    BY <1>1, <2>1, <2>2, <2>3 DEF BestCut
  <2>5. BestCut(report.featured, report.equivalent)'
    BY <1>5, <2>2, <2>4
  <2>6. (FeaturedIsTheBestCut <=>
           (stage \in {"bounded", "reported"} => BestCut(report.featured, report.equivalent)))'
    BY BestCutIsFeatured, PTL
  <2> QED
    BY <2>5, <2>6
<1>11. BoundSensitivityIsHonest'
  <2>1. PICK g \in SortingOrders(MeasuredResults) : report.primary = MeasuredRanking(g)
    BY <1>1 DEF ReportInv, StageInv
  <2>2. PICK f \in SortingOrders(results) :
          /\ ranking = Ranking(f) /\ Len(results) \in Nat
          /\ f \in [1..Len(results) -> 1..Len(results)]
          /\ Len(ranking.candidates) = Len(results)
          /\ \A i \in 1..Len(results) : ranking.candidates[i] = results[f[i]]
    BY <1>1, ReturnedRanking
  <2>3. ranking.baselineRisk <= report.primary.baselineRisk
    <3>1. ranking.baselineRisk = Risk(baseline) /\ report.primary.baselineRisk = RiskOfAll(Answers)
      BY <2>1, <2>2 DEF Ranking, MeasuredRanking
    <3>2. Measurable(Answers)
      BY <1>1, SearchesAreMeasurable DEF IInv, Answers
    <3> QED
      BY <1>2, <3>1, <3>2, RiskOfSearch DEF Answers
  <2>4. ranking.saturated <=> baseline.saturated
    <3>1. AnySaturated(results) => baseline.saturated
      BY <1>1, RecordedResult DEF IInv, AnySaturated
    <3>2. ranking.saturated = (baseline.saturated \/ AnySaturated(results))
      BY <2>2 DEF Ranking
    <3> QED
      BY <3>1, <3>2, Zenon
  <2>5. ASSUME baseline.saturated
        PROVE  /\ ~ranking.authoritative
               /\ \A i \in 1..Len(ranking.candidates) : ~ranking.candidates[i].rankable
    <3>1. Reasons # {}
      BY <2>5 DEF Reasons
    <3>2. ranking.authoritative = (Reasons = {})
      BY <2>2 DEF Ranking
    <3>3. \A i \in 1..Len(results) : ~results[i].rankable
      BY <1>1, <2>5, RecordedResult DEF IInv
    <3> QED
      BY <2>2, <3>1, <3>2, <3>3
  <2>6. ASSUME ~baseline.saturated
        PROVE  ranking = report.primary
    <3>1. PICK h \in SortingOrders(MeasuredResults) : ranking = MeasuredRanking(h)
      BY <1>1, <1>2, <2>6, CompleteIsMeasured
    <3>2. h = g
      BY <1>1, OrderIsDetermined
    <3> QED
      BY <2>1, <3>1, <3>2
  <2> QED
    BY <1>5, <2>3, <2>4, <2>5, <2>6 DEF BoundSensitivityIsHonest
<1> QED
  BY <1>1, <1>6, <1>7, <1>8, <1>9, <1>10, <1>11 DEF ReportInv, OnlySaturationIsInconsistent


-----------------------------------------------------------------------------
(***************************************************************************)
(* The theorems: of the engine called by itself, and of analyze.           *)
(***************************************************************************)
\* What is known of a report, and of the engine that it calls, holds in every
\* step of analyze.
THEOREM ReportInvariance == ReportSpec => []ReportInv
<1>1. ReportInv /\ [ReportNext]_reportVars => ReportInv'
  <2> SUFFICES ASSUME ReportInv, [ReportNext]_reportVars PROVE ReportInv'
    OBVIOUS
  <2>1. CASE Engine
    BY <2>1, EngineReport
  <2>2. CASE Traverse
    BY <2>2, TraverseReport
  <2>3. CASE Feature
    BY <2>3, FeatureReport
  <2>4. CASE Publish
    BY <2>4, PublishReport
  <2>5. CASE UNCHANGED reportVars
    <3>1. UNCHANGED vars /\ UNCHANGED <<stage, report>>
      BY <2>5 DEF reportVars
    <3>2. UNCHANGED <<store, call, phase, remaining, baseline, results, ranking>>
      BY <3>1 DEF vars
    <3>3. IInv'
      BY <3>1, NextInv DEF ReportInv
    <3>4. ProgressInv'
      BY <3>2 DEF ReportInv, ProgressInv
    <3>5. stage = "traversing" => (results = <<>>)' /\ phase' # "returned"
      BY <3>2 DEF ReportInv, StageInv
    <3> QED
      BY <3>1, <3>2, <3>3, <3>4, <3>5, SameReport DEF ReportInv
  <2> QED
    BY <2>1, <2>2, <2>3, <2>4, <2>5 DEF ReportNext
<1> QED
  BY <1>1, InitReport, PTL DEF ReportSpec

-----------------------------------------------------------------------------
(***************************************************************************)
(* Sums over finite sets, as MapThenSumSet computes them: an element at a  *)
(* time, in an order that does not matter.                                 *)
(***************************************************************************)
Any(X) == CHOOSE x \in X : TRUE

SumStep(w, sum, X) == IF X = {} THEN 0 ELSE w[Any(X)] + sum[X \ {Any(X)}]

AreSums(sum, S, w) == sum = [X \in SUBSET S |-> SumStep(w, sum, X)]

\* What is needed of the elements that are taken.
LEMMA SmallerSubset ==
  ASSUME NEW S, IsFiniteSet(S), NEW X \in SUBSET S, X # {}
  PROVE  /\ Any(X) \in X /\ Any(X) \in S /\ X \ {Any(X)} \in SUBSET S
         /\ Cardinality(X) \in Nat /\ Cardinality(X) # 0
         /\ Cardinality(X \ {Any(X)}) = Cardinality(X) - 1
<1>1. Any(X) \in X
  BY DEF Any
<1>2. IsFiniteSet(X) /\ Cardinality(X) \in Nat
  BY FS_Subset, FS_CardinalityType
<1>3. Cardinality(X \ {Any(X)}) = Cardinality(X) - 1
  BY <1>1, <1>2, FS_RemoveElement
<1>4. Cardinality(X) # 0
  BY <1>2, FS_EmptySet
<1> QED
  BY <1>1, <1>2, <1>3, <1>4

LEMMA SumsExist ==
  ASSUME NEW S, IsFiniteSet(S), NEW w
  PROVE  \E sum : AreSums(sum, S, w)
<1> DEFINE Upto(n) == {X \in SUBSET S : Cardinality(X) <= n}
           Sizes == {n \in Nat : \E g : g = [X \in Upto(n) |-> SumStep(w, g, X)]}
<1>1. 0 \in Sizes
  <2> DEFINE g == [X \in Upto(0) |-> 0]
  <2>1. \A X \in Upto(0) : X = {}
    <3> SUFFICES ASSUME NEW X \in Upto(0), X # {} PROVE FALSE
      OBVIOUS
    <3>1. Cardinality(X) \in Nat /\ Cardinality(X) # 0 /\ Cardinality(X) <= 0
      BY SmallerSubset
    <3> QED
      BY <3>1
  <2>2. \A X \in Upto(0) : SumStep(w, g, X) = 0
    BY <2>1 DEF SumStep
  <2>3. g = [X \in Upto(0) |-> SumStep(w, g, X)]
    BY <2>2
  <2> HIDE DEF g, Upto
  <2> QED
    BY <2>3
<1>2. ASSUME NEW n \in Nat, n \in Sizes PROVE n + 1 \in Sizes
  <2>1. PICK g : g = [X \in Upto(n) |-> SumStep(w, g, X)]
    BY <1>2
  <2> DEFINE h == [X \in Upto(n + 1) |-> IF X \in Upto(n) THEN g[X] ELSE SumStep(w, g, X)]
  <2>2. ASSUME NEW X \in Upto(n + 1)
        PROVE  h[X] = SumStep(w, h, X)
    <3>1. h[X] = SumStep(w, g, X)
      <4>1. CASE X \in Upto(n)
        <5>1. g[X] = SumStep(w, g, X)
          <6> HIDE DEF Upto
          <6> QED
            BY <2>1, <4>1
        <5> QED
          BY <4>1, <5>1
      <4>2. CASE X \notin Upto(n)
        BY <4>2
      <4> QED
        BY <4>1, <4>2
    <3>2. CASE X = {}
      BY <3>1, <3>2 DEF SumStep
    <3>3. CASE X # {}
      <4>1. /\ X \ {Any(X)} \in SUBSET S
            /\ Cardinality(X) \in Nat /\ Cardinality(X) <= n + 1
            /\ Cardinality(X \ {Any(X)}) = Cardinality(X) - 1
        BY <3>3, SmallerSubset
      <4>2. X \ {Any(X)} \in Upto(n) /\ X \ {Any(X)} \in Upto(n + 1)
        BY <4>1
      <4>3. h[X \ {Any(X)}] = g[X \ {Any(X)}]
        BY <4>2
      <4> HIDE DEF h, Upto
      <4> QED
        BY <3>1, <3>3, <4>3 DEF SumStep
    <3> QED
      BY <3>2, <3>3
  <2>3. h = [X \in Upto(n + 1) |-> h[X]]
    OBVIOUS
  <2> HIDE DEF h, Upto
  <2>4. h = [X \in Upto(n + 1) |-> SumStep(w, h, X)]
    BY <2>2, <2>3
  <2> QED
    BY <2>4
<1>3. PICK n \in Nat : n = Cardinality(S)
  BY FS_CardinalityType
<1>4. Upto(n) = SUBSET S
  BY <1>3, FS_Subset
<1>5. n \in Sizes
  <2> HIDE DEF Sizes
  <2> QED
    BY <1>1, <1>2, NatSetInduction
<1>6. \E sum : sum = [X \in SUBSET S |-> SumStep(w, sum, X)]
  BY <1>4, <1>5
<1> QED
  BY <1>6 DEF AreSums

\* A sum of integers is an integer; one of naturals is positive exactly when
\* one of them is.
LEMMA SumsOfIntegers ==
  ASSUME NEW S, IsFiniteSet(S), NEW w, \A x \in S : w[x] \in Int,
         NEW sum, AreSums(sum, S, w)
  PROVE  /\ sum[S] \in Int
         /\ (\A x \in S : w[x] >= 0) =>
              sum[S] >= 0 /\ (sum[S] > 0 <=> \E x \in S : w[x] > 0)
<1> DEFINE Fits(X) ==
             /\ sum[X] \in Int
             /\ (\A x \in S : w[x] >= 0) =>
                  sum[X] >= 0 /\ (sum[X] > 0 <=> \E x \in X : w[x] > 0)
           Sizes == {n \in Nat : \A X \in SUBSET S : Cardinality(X) = n => Fits(X)}
<1>1. \A X \in SUBSET S : sum[X] = SumStep(w, sum, X)
  BY DEF AreSums
<1>2. \A X \in SUBSET S : Cardinality(X) = 0 => X = {}
  BY FS_Subset, FS_EmptySet
<1>3. 0 \in Sizes
  <2>1. sum[{}] = 0
    BY <1>1 DEF SumStep
  <2>2. Fits({})
    BY <2>1
  <2>3. \A X \in SUBSET S : Cardinality(X) = 0 => Fits(X)
    <3> HIDE DEF Fits
    <3> QED
      BY <1>2, <2>2
  <2> HIDE DEF Fits
  <2> QED
    BY <2>3
<1>4. ASSUME NEW n \in Nat, n \in Sizes PROVE n + 1 \in Sizes
  <2>1. ASSUME NEW X \in SUBSET S, Cardinality(X) = n + 1 PROVE Fits(X)
    <3>1. X # {}
      <4>1. Cardinality({}) = 0 /\ n + 1 # 0
        BY FS_EmptySet
      <4> QED
        BY <2>1, <4>1
    <3>2. /\ Any(X) \in X /\ Any(X) \in S /\ X \ {Any(X)} \in SUBSET S
          /\ Cardinality(X \ {Any(X)}) = n
      <4>1. /\ Any(X) \in X /\ Any(X) \in S /\ X \ {Any(X)} \in SUBSET S
            /\ Cardinality(X \ {Any(X)}) = Cardinality(X) - 1
        BY <3>1, SmallerSubset
      <4> QED
        BY <2>1, <4>1
    <3>3. Fits(X \ {Any(X)})
      <4> HIDE DEF Fits
      <4> QED
        BY <1>4, <3>2
    <3>4. sum[X] = w[Any(X)] + sum[X \ {Any(X)}]
      BY <1>1, <3>1 DEF SumStep
    <3>5. w[Any(X)] \in Int /\ sum[X \ {Any(X)}] \in Int
      BY <3>2, <3>3
    <3>6. ASSUME \A x \in S : w[x] >= 0
          PROVE  sum[X] >= 0 /\ (sum[X] > 0 <=> \E x \in X : w[x] > 0)
      <4>1. w[Any(X)] >= 0 /\ sum[X \ {Any(X)}] >= 0
        BY <3>2, <3>3, <3>6
      <4>2. sum[X] > 0 <=> w[Any(X)] > 0 \/ sum[X \ {Any(X)}] > 0
        BY <3>4, <3>5, <4>1
      <4>3. sum[X \ {Any(X)}] > 0 <=> \E x \in X \ {Any(X)} : w[x] > 0
        BY <3>3, <3>6
      <4>4. (\E x \in X : w[x] > 0) <=>
              w[Any(X)] > 0 \/ \E x \in X \ {Any(X)} : w[x] > 0
        BY <3>2
      <4> QED
        BY <3>4, <3>5, <4>1, <4>2, <4>3, <4>4
    <3> QED
      BY <3>4, <3>5, <3>6
  <2>2. n + 1 \in Nat
    OBVIOUS
  <2> HIDE DEF Fits
  <2> QED
    BY <2>1, <2>2
<1>5. Cardinality(S) \in Nat
  BY FS_CardinalityType
<1>6. Cardinality(S) \in Sizes
  <2> HIDE DEF Sizes
  <2> QED
    BY <1>3, <1>4, <1>5, NatSetInduction
<1> QED
  BY <1>6

LEMMA RiskWeightIsPositive ==
  ASSUME NEW paths, NEW id, IsFiniteSet(Traversals(paths, id)),
         \A t \in Traversals(paths, id) : PathRisk(paths[t[1]]) \in Nat
  PROVE  RiskWeightedParticipation(paths, id) > 0 <=>
           \E t \in Traversals(paths, id) : PathRisk(paths[t[1]]) > 0
<1> DEFINE T == Traversals(paths, id)
           w == [t \in T |-> PathRisk(paths[t[1]])]
           sum == CHOOSE f : f = [X \in SUBSET T |->
                    IF X = {} THEN 0
                    ELSE PathRisk(paths[Any(X)[1]]) + f[X \ {Any(X)}]]
<1>1. RiskWeightedParticipation(paths, id) = sum[T]
  BY DEF RiskWeightedParticipation, Sets!MapThenSumSet, Sets!MapThenFoldSet, Any
<1>2. ASSUME NEW f, NEW X \in SUBSET T
      PROVE  (IF X = {} THEN 0 ELSE PathRisk(paths[Any(X)[1]]) + f[X \ {Any(X)}])
               = SumStep(w, f, X)
  BY DEF SumStep, Any
<1>3. PICK g : AreSums(g, T, w)
  <2>1. IsFiniteSet(T)
    OBVIOUS
  <2> HIDE DEF w, T, sum
  <2> QED
    BY <2>1, SumsExist
<1>4. g = [X \in SUBSET T |->
             IF X = {} THEN 0 ELSE PathRisk(paths[Any(X)[1]]) + g[X \ {Any(X)}]]
  <2> HIDE DEF w, T
  <2> QED
    BY <1>2, <1>3 DEF AreSums
<1>5. sum = [X \in SUBSET T |->
               IF X = {} THEN 0 ELSE PathRisk(paths[Any(X)[1]]) + sum[X \ {Any(X)}]]
  <2> HIDE DEF w, T
  <2> QED
    BY <1>4
<1> HIDE DEF sum
<1>6. AreSums(sum, T, w)
  <2> HIDE DEF w, T
  <2> QED
    BY <1>2, <1>5 DEF AreSums
<1>7. \A t \in T : w[t] = PathRisk(paths[t[1]]) /\ w[t] \in Int /\ w[t] >= 0
  OBVIOUS
<1>8. sum[T] > 0 <=> \E t \in T : w[t] > 0
  <2>1. IsFiniteSet(T)
    OBVIOUS
  <2> HIDE DEF w, T
  <2> QED
    BY <1>6, <1>7, <2>1, SumsOfIntegers
<1> QED
  BY <1>1, <1>7, <1>8

-----------------------------------------------------------------------------
(***************************************************************************)
(* Overlap: a path traverses an edge once, passes an entity once, and is   *)
(* known by its edges, so that counting places is counting paths.          *)
(***************************************************************************)
UniqueIds(E) == \A e, f \in E : e.id = f.id => e = f

LEMMA PathOnce ==
  ASSUME NEW E, UniqueIds(E), NEW q, NEW p, IsAttackPath(E, q, p)
  PROVE  /\ Len(p) \in Nat /\ \A i \in 1..Len(p) : p[i] \in E
         /\ \A i, j \in 1..Len(p) : p[i].id = p[j].id => i = j
         /\ \A i, j \in 1..Len(p) : p[i].target = p[j].target => i = j
         /\ \A i \in 1..Len(p) : p[i].source = NodeAt(q, p, i - 1)
         /\ NodeAt(q, p, Len(p)) = q.target
<1>1. p \in Seq(E) /\ Simple(q, p) /\ Chained(q, p)
  BY DEF IsAttackPath, Reachable
<1>2. Len(p) \in Nat /\ \A i \in 1..Len(p) : p[i] \in E
  BY <1>1, LenProperties, ElementOfSeq
<1>3. \A i, j \in 1..Len(p) : p[i].target = p[j].target => i = j
  <2>1. \A i \in 1..Len(p) : i \in 0..Len(p) /\ NodeAt(q, p, i) = p[i].target
    BY <1>2 DEF NodeAt
  <2> QED
    BY <1>1, <2>1 DEF Simple
<1>4. \A i, j \in 1..Len(p) : p[i].id = p[j].id => i = j
  BY <1>2, <1>3 DEF UniqueIds
<1> QED
  BY <1>1, <1>2, <1>3, <1>4 DEF Chained, IsAttackPath, LastNode

\* Two paths of a query that traverse the same edges are the same: the one
\* follows the other as far as it goes.
LEMMA PathFollows ==
  ASSUME NEW E, UniqueIds(E), NEW q, NEW p, IsAttackPath(E, q, p),
         NEW r, IsAttackPath(E, q, r), EdgeIds(p) \subseteq EdgeIds(r)
  PROVE  Len(p) <= Len(r) /\ \A i \in 1..Len(p) : p[i] = r[i]
<1>1. /\ Len(p) \in Nat /\ \A i \in 1..Len(p) : p[i] \in E
      /\ \A i \in 1..Len(p) : p[i].source = NodeAt(q, p, i - 1)
  BY PathOnce
<1>2. /\ Len(r) \in Nat /\ \A i \in 1..Len(r) : r[i] \in E
      /\ \A i \in 1..Len(r) : r[i].source = NodeAt(q, r, i - 1)
  BY PathOnce
<1>3. \A i \in 1..Len(p) : \E j \in 1..Len(r) : r[j] = p[i]
  <2>1. \A i \in 1..Len(p) : \E j \in 1..Len(r) : r[j].id = p[i].id
    BY DEF EdgeIds
  <2> QED
    BY <1>1, <1>2, <2>1 DEF UniqueIds
<1>4. \A i, j \in 0..Len(r) : NodeAt(q, r, i) = NodeAt(q, r, j) => i = j
  BY DEF IsAttackPath, Reachable, Simple
<1> DEFINE S == {m \in Nat : m <= Len(p) => m <= Len(r) /\ \A i \in 1..m : p[i] = r[i]}
<1>5. 0 \in S
  BY <1>2
<1>6. ASSUME NEW m \in Nat, m \in S PROVE m + 1 \in S
  <2> SUFFICES ASSUME m + 1 <= Len(p)
               PROVE  m + 1 <= Len(r) /\ \A i \in 1..m + 1 : p[i] = r[i]
    OBVIOUS
  <2>1. m <= Len(r) /\ \A i \in 1..m : p[i] = r[i]
    BY <1>1, <1>6
  <2>2. m + 1 \in 1..Len(p)
    BY <1>1
  <2>3. PICK j \in 1..Len(r) : r[j] = p[m + 1]
    BY <1>3, <2>2
  <2>4. NodeAt(q, p, m) = NodeAt(q, r, m)
    <3>1. m # 0 => m \in 1..m
      OBVIOUS
    <3> QED
      BY <2>1, <3>1 DEF NodeAt
  <2>5. p[m + 1].source = NodeAt(q, p, m)
    <3>1. (m + 1) - 1 = m
      OBVIOUS
    <3> QED
      BY <1>1, <2>2, <3>1
  <2>6. r[j].source = NodeAt(q, r, j - 1)
    BY <1>2
  <2>7. j - 1 = m
    <3>1. j - 1 \in 0..Len(r) /\ m \in 0..Len(r)
      BY <1>2, <2>1
    <3> QED
      BY <1>4, <2>3, <2>4, <2>5, <2>6, <3>1
  <2> QED
    BY <1>2, <2>1, <2>3, <2>7
<1>7. Len(p) \in S
  <2> HIDE DEF S
  <2> QED
    BY <1>1, <1>5, <1>6, NatSetInduction
<1> QED
  BY <1>1, <1>7

LEMMA SameEdgesSamePath ==
  ASSUME NEW E, UniqueIds(E), NEW q, NEW p, IsAttackPath(E, q, p),
         NEW r, IsAttackPath(E, q, r), EdgeIds(p) = EdgeIds(r)
  PROVE  p = r
<1>1. Len(p) <= Len(r) /\ \A i \in 1..Len(p) : p[i] = r[i]
  BY PathFollows
<1>2. Len(r) <= Len(p)
  BY PathFollows
<1>3. p \in Seq(E) /\ r \in Seq(E) /\ Len(p) \in Nat /\ Len(r) \in Nat
  BY LenProperties DEF IsAttackPath, Reachable
<1>4. Len(p) = Len(r)
  BY <1>1, <1>2, <1>3
<1> QED
  BY <1>1, <1>3, <1>4, SeqEqual

\* Places of which each path has one at most are as many as the paths that
\* have one.
LEMMA PlacesCount ==
  ASSUME NEW P, IsFiniteSet(P), NEW paths, Lists(paths, P),
         NEW T \in SUBSET Places(paths), \A t, u \in T : t[1] = u[1] => t = u,
         NEW Q \in SUBSET P, \A p \in P : p \in Q <=> \E t \in T : paths[t[1]] = p
  PROVE  IsFiniteSet(T) /\ Cardinality(T) = Cardinality(Q)
<1> DEFINE f == [t \in T |-> paths[t[1]]]
<1>1. \A t \in T : t[1] \in 1..Len(paths) /\ paths[t[1]] \in P
  <2>1. \A t \in T : t[1] \in 1..Len(paths)
    BY DEF Places
  <2> QED
    BY <2>1 DEF Lists
<1>2. f \in [T -> Q]
  BY <1>1
<1>3. \A t, u \in T : f[t] = f[u] => t = u
  BY <1>1 DEF Lists
<1>4. \A p \in Q : \E t \in T : f[t] = p
  OBVIOUS
<1> HIDE DEF f
<1>5. f \in Bijection(T, Q)
  BY <1>2, <1>3, <1>4 DEF Bijection, Injection, Surjection, IsInjective
<1>6. IsFiniteSet(Q)
  BY FS_Subset
<1>7. f \in Injection(T, Q) /\ f \in Surjection(T, Q)
  BY <1>5 DEF Bijection
<1> QED
  BY <1>6, <1>7, FS_Injection

\* An edge participates in as many paths as use it.
LEMMA Participation ==
  ASSUME NEW E, UniqueIds(E), NEW q, MaxHops(q) \in Int,
         NEW P \in SUBSET AttackPaths(E, q), IsFiniteSet(P),
         NEW paths, Lists(paths, P), NEW id
  PROVE  /\ IsFiniteSet(Traversals(paths, id))
         /\ \A Q \in SUBSET P :
              (\A p \in P : p \in Q <=> Uses(p, id))
                => EdgeParticipation(paths, id) = Cardinality(Q)
         /\ \A t \in Traversals(paths, id) :
              paths[t[1]] \in P /\ Uses(paths[t[1]], id)
         /\ \A p \in P :
              Uses(p, id) => \E t \in Traversals(paths, id) : paths[t[1]] = p
<1> DEFINE T == Traversals(paths, id)
<1>1. ASSUME NEW t \in T
      PROVE  /\ t[1] \in 1..Len(paths) /\ paths[t[1]] \in P
             /\ t[2] \in 1..Len(paths[t[1]]) /\ t = <<t[1], t[2]>>
             /\ paths[t[1]][t[2]].id = id
  <2>1. t \in Places(paths) /\ paths[t[1]][t[2]].id = id
    BY DEF Traversals
  <2>2. PICK k \in 1..Len(paths) : t \in {k} \X (1..Len(paths[k]))
    BY <2>1 DEF Places
  <2>3. t[1] = k /\ t[2] \in 1..Len(paths[k]) /\ t = <<t[1], t[2]>>
    BY <2>2
  <2>4. paths[k] \in P
    BY DEF Lists
  <2> QED
    BY <2>1, <2>3, <2>4
<1>2. ASSUME NEW k \in 1..Len(paths), NEW i \in 1..Len(paths[k]), paths[k][i].id = id
      PROVE  <<k, i>> \in T
  <2>1. <<k, i>> \in {k} \X (1..Len(paths[k]))
    OBVIOUS
  <2>2. <<k, i>> \in Places(paths)
    BY <2>1 DEF Places
  <2>3. <<k, i>>[1] = k /\ <<k, i>>[2] = i
    OBVIOUS
  <2> QED
    BY <1>2, <2>2, <2>3 DEF Traversals
<1>3. \A t, u \in T : t[1] = u[1] => t = u
  <2> SUFFICES ASSUME NEW t \in T, NEW u \in T, t[1] = u[1]
               PROVE  t = u
    OBVIOUS
  <2>1. PICK p : p = paths[t[1]] /\ IsAttackPath(E, q, p)
    BY <1>1, AttackPathsMember
  <2>2. \A i, j \in 1..Len(p) : p[i].id = p[j].id => i = j
    BY <2>1, PathOnce
  <2>3. /\ t[2] \in 1..Len(p) /\ p[t[2]].id = id
        /\ u[2] \in 1..Len(p) /\ p[u[2]].id = id
    BY <1>1, <2>1
  <2>4. t[2] = u[2]
    BY <2>2, <2>3
  <2> QED
    BY <1>1, <2>4
<1>4. T \in SUBSET Places(paths)
  BY DEF Traversals
<1>5. \A p \in P : Uses(p, id) <=> \E t \in T : paths[t[1]] = p
  <2>1. ASSUME NEW p \in P, NEW t \in T, paths[t[1]] = p
        PROVE  Uses(p, id)
    BY <1>1, <2>1 DEF Uses
  <2>2. ASSUME NEW p \in P, Uses(p, id)
        PROVE  \E t \in T : paths[t[1]] = p
    <3>1. PICK k \in 1..Len(paths) : paths[k] = p
      BY DEF Lists
    <3>2. PICK i \in 1..Len(p) : p[i].id = id
      BY <2>2 DEF Uses
    <3>3. <<k, i>> \in T /\ <<k, i>>[1] = k
      BY <1>2, <3>1, <3>2
    <3> QED
      BY <3>1, <3>3
  <2> QED
    BY <2>1, <2>2
<1> HIDE DEF T
<1>6. ASSUME NEW Q \in SUBSET P, \A p \in P : p \in Q <=> Uses(p, id)
      PROVE  IsFiniteSet(T) /\ Cardinality(T) = Cardinality(Q)
  <2>1. IsFiniteSet(P) /\ Lists(paths, P)
    OBVIOUS
  <2>2. \A p \in P : p \in Q <=> \E t \in T : paths[t[1]] = p
    BY <1>5, <1>6
  <2> QED
    BY <1>3, <1>4, <2>1, <2>2, PlacesCount
<1>9. IsFiniteSet(T)
  <2>1. PICK Q \in SUBSET P : Q = {p \in P : Uses(p, id)}
    OBVIOUS
  <2> QED
    BY <1>6, <2>1
<1>7. \A t \in T : paths[t[1]] \in P /\ Uses(paths[t[1]], id)
  BY <1>1 DEF Uses
<1>8. \A p \in P : Uses(p, id) => \E t \in T : paths[t[1]] = p
  BY <1>5
<1> QED
  BY <1>6, <1>7, <1>8, <1>9 DEF T, EdgeParticipation

\* An inner entity is a choke point of as many paths as pass it; the paths
\* that do not pass it are those that are left without it.
Passes(p, n) == \E i \in 1..Len(p) : p[i].target = n

LEMMA ChokesCount ==
  ASSUME NEW E, UniqueIds(E), NEW q, MaxHops(q) \in Int,
         NEW P \in SUBSET AttackPaths(E, q), IsFiniteSet(P),
         NEW paths, Lists(paths, P), NEW n, n # q.target
  PROVE  ChokePoints(paths, n) = Cardinality({p \in P : Passes(p, n)})
<1> DEFINE T == {p \in Places(paths) :
                   p[2] < Len(paths[p[1]]) /\ paths[p[1]][p[2]].target = n}
<1>1. ASSUME NEW t \in T
      PROVE  /\ t[1] \in 1..Len(paths) /\ paths[t[1]] \in P
             /\ t[2] \in 1..Len(paths[t[1]]) /\ t = <<t[1], t[2]>>
             /\ paths[t[1]][t[2]].target = n
  <2>1. t \in Places(paths) /\ paths[t[1]][t[2]].target = n
    OBVIOUS
  <2>2. PICK k \in 1..Len(paths) : t \in {k} \X (1..Len(paths[k]))
    BY <2>1 DEF Places
  <2>3. t[1] = k /\ t[2] \in 1..Len(paths[k]) /\ t = <<t[1], t[2]>>
    BY <2>2
  <2>4. paths[k] \in P
    BY DEF Lists
  <2> QED
    BY <2>1, <2>3, <2>4
<1>2. ASSUME NEW k \in 1..Len(paths), NEW i \in 1..Len(paths[k]),
             paths[k][i].target = n
      PROVE  <<k, i>> \in T
  <2>1. <<k, i>> \in {k} \X (1..Len(paths[k]))
    OBVIOUS
  <2>2. <<k, i>> \in Places(paths)
    BY <2>1 DEF Places
  <2>3. <<k, i>>[1] = k /\ <<k, i>>[2] = i
    OBVIOUS
  <2>4. paths[k] \in P
    BY DEF Lists
  <2>5. IsAttackPath(E, q, paths[k])
    BY <2>4, AttackPathsMember
  <2>6. Len(paths[k]) \in Nat /\ NodeAt(q, paths[k], Len(paths[k])) = q.target
    BY <2>5, PathOnce
  <2>7. i # Len(paths[k])
    <3> SUFFICES ASSUME i = Len(paths[k]) PROVE FALSE
      OBVIOUS
    <3>1. i # 0
      OBVIOUS
    <3>2. NodeAt(q, paths[k], i) = n
      BY <1>2, <3>1 DEF NodeAt
    <3> QED
      BY <2>6, <3>2
  <2>8. i < Len(paths[k])
    BY <2>6, <2>7
  <2> QED
    BY <1>2, <2>2, <2>3, <2>8
<1>3. \A t, u \in T : t[1] = u[1] => t = u
  <2> SUFFICES ASSUME NEW t \in T, NEW u \in T, t[1] = u[1]
               PROVE  t = u
    OBVIOUS
  <2>1. PICK p : p = paths[t[1]] /\ IsAttackPath(E, q, p)
    BY <1>1, AttackPathsMember
  <2>2. \A i, j \in 1..Len(p) : p[i].target = p[j].target => i = j
    BY <2>1, PathOnce
  <2>3. /\ t[2] \in 1..Len(p) /\ p[t[2]].target = n
        /\ u[2] \in 1..Len(p) /\ p[u[2]].target = n
    BY <1>1, <2>1
  <2>4. t[2] = u[2]
    BY <2>2, <2>3
  <2> QED
    BY <1>1, <2>4
<1>4. T \in SUBSET Places(paths)
  OBVIOUS
<1>5. ChokePoints(paths, n) = Cardinality(T)
  BY DEF ChokePoints
<1> HIDE DEF T
<1>6. \A p \in P : Passes(p, n) <=> \E t \in T : paths[t[1]] = p
  <2>1. ASSUME NEW p \in P, NEW t \in T, paths[t[1]] = p
        PROVE  Passes(p, n)
    BY <1>1, <2>1 DEF Passes
  <2>2. ASSUME NEW p \in P, Passes(p, n)
        PROVE  \E t \in T : paths[t[1]] = p
    <3>1. PICK k \in 1..Len(paths) : paths[k] = p
      BY DEF Lists
    <3>2. PICK i \in 1..Len(p) : p[i].target = n
      BY <2>2 DEF Passes
    <3>3. <<k, i>> \in T /\ <<k, i>>[1] = k
      BY <1>2, <3>1, <3>2
    <3> QED
      BY <3>1, <3>3
  <2> QED
    BY <2>1, <2>2
<1>7. IsFiniteSet(P) /\ Lists(paths, P)
  OBVIOUS
<1>8. Cardinality(T) = Cardinality({p \in P : Passes(p, n)})
  <2>1. PICK Q \in SUBSET P : Q = {p \in P : Passes(p, n)}
    OBVIOUS
  <2>2. \A p \in P : p \in Q <=> \E t \in T : paths[t[1]] = p
    BY <1>6, <2>1
  <2>3. Cardinality(T) = Cardinality(Q)
    BY <1>3, <1>4, <1>7, <2>2, PlacesCount
  <2> QED
    BY <2>1, <2>3
<1> QED
  BY <1>5, <1>8

LEMMA PathsIsolated ==
  ASSUME NEW E, UniqueIds(E), NEW q, MaxHops(q) \in Int, NEW n, n # q.source
  PROVE  AttackPaths(Isolated(E, n), q) = {p \in AttackPaths(E, q) : ~Passes(p, n)}
<1> DEFINE W == Isolated(E, n)
<1>1. ASSUME NEW p, p \in Seq(W)
      PROVE  p \in Seq(E) /\ ~Passes(p, n)
  <2>1. W \subseteq E /\ \A e \in W : e.target # n
    BY DEF Isolated
  <2>2. \A i \in 1..Len(p) : p[i] \in W
    BY <1>1, ElementOfSeq
  <2> QED
    BY <1>1, <2>1, <2>2, SeqMonotonic DEF Passes
<1>2. ASSUME NEW p, IsAttackPath(E, q, p), ~Passes(p, n)
      PROVE  p \in Seq(W)
  <2>1. /\ Len(p) \in Nat /\ \A i \in 1..Len(p) : p[i] \in E
        /\ \A i \in 1..Len(p) : p[i].source = NodeAt(q, p, i - 1)
    BY <1>2, PathOnce
  <2>2. ASSUME NEW i \in 1..Len(p)
        PROVE  p[i].target # n /\ p[i].source # n
    <3>1. p[i].target # n
      BY <1>2 DEF Passes
    <3>2. p[i].source = NodeAt(q, p, i - 1)
      BY <2>1
    <3>3. CASE i = 1
      BY <3>1, <3>2, <3>3 DEF NodeAt
    <3>4. CASE i # 1
      <4>1. i - 1 \in 1..Len(p) /\ i - 1 # 0
        BY <2>1, <3>4
      <4> QED
        BY <1>2, <3>1, <3>2, <4>1 DEF NodeAt, Passes
    <3> QED
      BY <3>3, <3>4
  <2>3. \A i \in 1..Len(p) : p[i] \in W
    BY <2>1, <2>2 DEF Isolated
  <2>4. p \in [1..Len(p) -> W]
    <3>1. p \in Seq(E)
      BY <1>2 DEF IsAttackPath, Reachable
    <3>2. p \in [1..Len(p) -> E]
      BY <3>1, LenProperties
    <3> HIDE DEF W
    <3> QED
      BY <2>3, <3>2
  <2> QED
    BY <2>1, <2>4, SeqDef
<1> HIDE DEF W
<1>3. ASSUME NEW p
      PROVE  IsAttackPath(W, q, p) <=> IsAttackPath(E, q, p) /\ ~Passes(p, n)
  <2>1. IsAttackPath(W, q, p) => IsAttackPath(E, q, p) /\ ~Passes(p, n)
    BY <1>1 DEF IsAttackPath, Reachable
  <2>2. IsAttackPath(E, q, p) /\ ~Passes(p, n) => IsAttackPath(W, q, p)
    BY <1>2 DEF IsAttackPath, Reachable
  <2> QED
    BY <2>1, <2>2
<1>4. \A p : p \in AttackPaths(W, q) <=> IsAttackPath(W, q, p)
  BY AttackPathsMember
<1>5. \A p : p \in AttackPaths(E, q) <=> IsAttackPath(E, q, p)
  BY AttackPathsMember
<1> QED
  BY <1>3, <1>4, <1>5 DEF W

LEMMA EdgeIdsAreFinite ==
  ASSUME NEW E, UniqueIds(E), NEW q, NEW p, IsAttackPath(E, q, p)
  PROVE  IsFiniteSet(EdgeIds(p))
<1>1. PICK n \in Nat : n = Len(p)
  BY PathOnce
<1>2. IsFiniteSet(1..n)
  BY FS_Interval
<1> DEFINE f == [i \in 1..n |-> p[i].id]
<1>3. f \in [1..n -> EdgeIds(p)] /\ \A x \in EdgeIds(p) : \E i \in 1..n : f[i] = x
  BY <1>1 DEF EdgeIds
<1> HIDE DEF f
<1>4. f \in Surjection(1..n, EdgeIds(p))
  BY <1>3 DEF Surjection
<1> QED
  BY <1>2, <1>4, FS_Surjection

\* Two paths that use a relationship overlap.
LEMMA CommonEdgeIsListed ==
  ASSUME NEW E, UniqueIds(E), NEW s,
         NEW P \in SUBSET AttackPaths(E, s), NEW paths, Lists(paths, P),
         MaxHops(s) \in Int, NEW p \in TopPaths(paths), NEW q \in P, p # q,
         p \in P, NEW id, Uses(p, id), Uses(q, id)
  PROVE  \E o \in JaccardOverlap(paths) : o.a = p /\ o.b = q
<1>1. IsAttackPath(E, s, p)
  BY AttackPathsMember
<1>2. IsFiniteSet(EdgeIds(p))
  BY <1>1, EdgeIdsAreFinite
<1>3. id \in EdgeIds(p) \cap EdgeIds(q)
  BY DEF Uses, EdgeIds
<1>4. IsFiniteSet(EdgeIds(p) \cap EdgeIds(q))
  BY <1>2, FS_Subset
<1>5. PICK n \in Nat : n = Cardinality(EdgeIds(p) \cap EdgeIds(q))
  BY <1>4, FS_CardinalityType
<1>6. n > 0
  BY <1>3, <1>4, <1>5, FS_EmptySet
<1>7. q \in {paths[i] : i \in 1..Len(paths)}
  BY DEF Lists
<1>8. PICK o : o = Overlap(p, q)
  OBVIOUS
<1>9. o.a = p /\ o.b = q /\ o.shared = n
  BY <1>5, <1>8 DEF Overlap
<1>10. o \in {Overlap(x, y) : x \in TopPaths(paths), y \in {paths[i] : i \in 1..Len(paths)}}
  BY <1>7, <1>8
<1> QED
  BY <1>6, <1>9, <1>10 DEF JaccardOverlap

\* Different paths differ in an edge.
LEMMA OverlapIsPartial ==
  ASSUME NEW E, UniqueIds(E), NEW s, MaxHops(s) \in Int,
         NEW P \in SUBSET AttackPaths(E, s), NEW paths, Lists(paths, P),
         NEW o \in JaccardOverlap(paths)
  PROVE  o.shared < o.all
<1>0. o.a # o.b
  BY DEF JaccardOverlap
<1>1. PICK p \in TopPaths(paths), q \in {paths[i] : i \in 1..Len(paths)} :
        /\ o.a = p /\ o.b = q /\ p # q
        /\ o.shared = Cardinality(EdgeIds(p) \cap EdgeIds(q))
        /\ o.all = Cardinality(EdgeIds(p) \cup EdgeIds(q))
  <2>1. PICK p \in TopPaths(paths), q \in {paths[i] : i \in 1..Len(paths)} :
          o = Overlap(p, q)
    BY DEF JaccardOverlap
  <2>2. /\ o.a = p /\ o.b = q
        /\ o.shared = Cardinality(EdgeIds(p) \cap EdgeIds(q))
        /\ o.all = Cardinality(EdgeIds(p) \cup EdgeIds(q))
    BY <2>1 DEF Overlap
  <2> QED
    BY <1>0, <2>2
<1>2. p \in AttackPaths(E, s) /\ q \in AttackPaths(E, s)
  <2>1. PICK k \in 1..Len(paths) : p = paths[k]
    BY DEF TopPaths
  <2>2. PICK l \in 1..Len(paths) : q = paths[l]
    OBVIOUS
  <2> QED
    BY <2>1, <2>2 DEF Lists
<1>3. IsAttackPath(E, s, p) /\ IsAttackPath(E, s, q)
  BY <1>2, AttackPathsMember
<1>4. IsFiniteSet(EdgeIds(p)) /\ IsFiniteSet(EdgeIds(q))
  BY <1>3, EdgeIdsAreFinite
<1>5. EdgeIds(p) # EdgeIds(q)
  BY <1>1, <1>3, SameEdgesSamePath
<1>6. PICK S, T : S = EdgeIds(p) \cap EdgeIds(q) /\ T = EdgeIds(p) \cup EdgeIds(q)
  OBVIOUS
<1>7. IsFiniteSet(T)
  BY <1>4, <1>6, FS_Union
<1>8. S \in SUBSET T /\ S # T
  BY <1>5, <1>6
<1>9. /\ Cardinality(S) <= Cardinality(T) /\ Cardinality(S) # Cardinality(T)
      /\ Cardinality(S) \in Nat /\ Cardinality(T) \in Nat
  BY <1>7, <1>8, FS_Subset, FS_CardinalityType
<1> QED
  BY <1>1, <1>6, <1>9

LEMMA ListedBaseline ==
  ASSUME IInv, phase \in {"evaluating", "returned"},
         NEW P, P = AttackPaths(store, call.query), NEW L, L = PathIds(baseline)
  PROVE  /\ UniqueIds(store) /\ MaxHops(call.query) \in Int
         /\ L \in SUBSET P /\ IsFiniteSet(L) /\ Lists(baseline.paths, L)
         /\ Len(baseline.paths) = Cardinality(L)
         /\ ~baseline.saturated => L = P
         /\ \A p \in L : PathRisk(p) \in Nat
<1>1. ~BoundsInvalid /\ baseline = FindPaths(store)
  BY DEF IInv, ResultsInv, BeforeBaseline
<1>2. IsStore(store) /\ IsQuery(call.query) /\ store \in Graphs
  BY DEF IInv, CallInv
<1>3. UniqueIds(store)
  BY <1>2, UniqueRelationshipIds DEF UniqueIds
<1>4. /\ L \in SUBSET P /\ IsFiniteSet(L) /\ Lists(baseline.paths, L)
      /\ Len(baseline.paths) = Cardinality(L)
  BY <1>1, <1>2, SearchLists
<1>5. ~baseline.saturated => L = P
  BY <1>1, <1>2, Unsaturated
<1>6. Measurable(P)
  BY SearchesAreMeasurable DEF IInv
<1>7. \A p \in L : PathRisk(p) \in Nat
  <2>1. Scale \in Nat
    BY RiskUnits
  <2> QED
    BY <1>4, <1>6, <2>1 DEF Measurable
<1> QED
  BY <1>2, <1>3, <1>4, <1>5, <1>7, QueryTyped

\* What theorem OverlapPrediction says of a state.
LEMMA OverlapFollows == IInv => OverlapPredictsRemediation
<1> SUFFICES ASSUME IInv, phase \in {"evaluating", "returned"}
             PROVE  OverlapPredictsRemediation
  BY DEF OverlapPredictsRemediation
<1>1. PICK s, P, L, paths : /\ s = call.query /\ P = AttackPaths(store, s)
                            /\ L = PathIds(baseline) /\ paths = baseline.paths
  OBVIOUS
<1>2. /\ UniqueIds(store) /\ MaxHops(s) \in Int
      /\ L \in SUBSET P /\ IsFiniteSet(L) /\ Lists(paths, L)
      /\ Len(paths) = Cardinality(L)
      /\ ~baseline.saturated => L = P
      /\ \A p \in L : PathRisk(p) \in Nat
  BY <1>1, ListedBaseline
<1>3. ASSUME NEW i \in 1..Len(results)
      PROVE  LET r == results[i]
             IN  /\ EdgeParticipation(paths, r.id) = Cardinality(r.removed)
                 /\ r.reduction > 0 => RiskWeightedParticipation(paths, r.id) > 0
                 /\ \A p \in r.removed \cap TopPaths(paths) : \A q \in r.removed \ {p} :
                      \E o \in JaccardOverlap(paths) : o.a = p /\ o.b = q
  <2>1. PICK r : r = results[i]
    OBVIOUS
  <2>2. r.removed = {p \in L : Uses(p, r.id)}
    BY <1>1, <2>1, PartitionFollows DEF RemovalPartitionsBaseline
  <2>3. /\ IsFiniteSet(Traversals(paths, r.id))
        /\ \A Q \in SUBSET L :
             (\A p \in L : p \in Q <=> Uses(p, r.id))
               => EdgeParticipation(paths, r.id) = Cardinality(Q)
        /\ \A t \in Traversals(paths, r.id) : paths[t[1]] \in L /\ Uses(paths[t[1]], r.id)
        /\ \A p \in L : Uses(p, r.id) => \E t \in Traversals(paths, r.id) : paths[t[1]] = p
    BY <1>1, <1>2, Participation
  <2>4. EdgeParticipation(paths, r.id) = Cardinality(r.removed)
    BY <2>2, <2>3
  <2>5. ASSUME r.reduction > 0
        PROVE  RiskWeightedParticipation(paths, r.id) > 0
    <3>1. \E p \in r.removed : PathRisk(p) > 0
      BY <2>1, <2>5, ReductionNeedsRisk
    <3>2. \E t \in Traversals(paths, r.id) : PathRisk(paths[t[1]]) > 0
      BY <2>2, <2>3, <3>1
    <3>3. \A t \in Traversals(paths, r.id) : PathRisk(paths[t[1]]) \in Nat
      BY <1>2, <2>3
    <3> QED
      BY <2>3, <3>2, <3>3, RiskWeightIsPositive
  <2>6. ASSUME NEW p \in r.removed \cap TopPaths(paths), NEW q \in r.removed \ {p}
        PROVE  \E o \in JaccardOverlap(paths) : o.a = p /\ o.b = q
    <3>1. p \in TopPaths(paths) /\ p # q /\ p \in L /\ q \in L /\ Uses(p, r.id) /\ Uses(q, r.id)
      BY <2>2
    <3> QED
      BY <1>1, <1>2, <3>1, CommonEdgeIsListed
  <2> QED
    BY <2>1, <2>4, <2>5, <2>6
<1>4. \A o \in JaccardOverlap(paths) : o.shared < o.all
  BY <1>1, <1>2, OverlapIsPartial
<1>5. ASSUME NEW n \in Node \ {s.source, s.target}
      PROVE  LET chokes == ChokePoints(paths, n) = Len(paths)
                 needed == AttackPaths(Isolated(store, n), s) = {}
             IN  (needed => chokes) /\ (chokes /\ ~baseline.saturated => needed)
  <2>1. ChokePoints(paths, n) = Cardinality({p \in L : Passes(p, n)})
    BY <1>1, <1>2, ChokesCount
  <2>2. AttackPaths(Isolated(store, n), s) = {p \in P : ~Passes(p, n)}
    BY <1>1, <1>2, PathsIsolated
  <2>3. PICK Q \in SUBSET L : Q = {p \in L : Passes(p, n)}
    OBVIOUS
  <2>4. Cardinality(Q) = Cardinality(L) <=> Q = L
    BY <1>2, FS_Subset
  <2>5. ChokePoints(paths, n) = Len(paths) <=> \A p \in L : Passes(p, n)
    BY <1>2, <2>1, <2>3, <2>4
  <2>6. AttackPaths(Isolated(store, n), s) = {} <=> \A p \in P : Passes(p, n)
    BY <2>2
  <2> QED
    BY <1>2, <2>5, <2>6
<1> QED
  BY <1>1, <1>3, <1>4, <1>5 DEF OverlapPredictsRemediation

-----------------------------------------------------------------------------
(***************************************************************************)
(* The drawing.  Largest and smallest elements, as FiniteSetsExt has them.  *)
(***************************************************************************)
LEMMA MaxIs ==
  ASSUME NEW S, IsFiniteSet(S), S \subseteq Int, S # {}
  PROVE  Svg!Sets!Max(S) \in S /\ \A y \in S : Svg!Sets!Max(S) >= y
<1>1. \E x : x \in S /\ \A y \in S : x >= y
  BY Extremes DEF Largest
<1> QED
  BY <1>1 DEF Svg!Sets!Max

LEMMA MinIs ==
  ASSUME NEW S, IsFiniteSet(S), S \subseteq Int, S # {}
  PROVE  Svg!Sets!Min(S) \in S /\ \A y \in S : Svg!Sets!Min(S) <= y
<1>1. \E x : x \in S /\ \A y \in S : x <= y
  BY Extremes DEF Smallest
<1> QED
  BY <1>1 DEF Svg!Sets!Min

LEMMA MaxOfTwo ==
  ASSUME NEW a \in Int, NEW b \in Int
  PROVE  Svg!Sets!Max({a, b}) \in Int /\ Svg!Sets!Max({a, b}) >= a /\ Svg!Sets!Max({a, b}) >= b
<1>1. PICK S : S = {a, b}
  OBVIOUS
<1>2. IsFiniteSet(S) /\ S \subseteq Int /\ S # {}
  <2>1. IsFiniteSet({a}) /\ S = {a} \cup {b}
    BY <1>1, FS_Singleton
  <2>2. IsFiniteSet({a} \cup {b})
    BY <2>1, FS_AddElement
  <2> QED
    BY <1>1, <2>1, <2>2
<1>3. Svg!Sets!Max(S) \in S /\ \A y \in S : Svg!Sets!Max(S) >= y
  BY <1>2, MaxIs
<1> QED
  BY <1>1, <1>3

-----------------------------------------------------------------------------
(***************************************************************************)
(* Layers.                                                                 *)
(***************************************************************************)
\* A graph that can be drawn.
IsDrawing(g) ==
  /\ IsFiniteSet(g.nodes) /\ g.nodes \subseteq Nat /\ g.source \in g.nodes
  /\ IsFiniteSet(g.edges)
  /\ \A e \in g.edges : e.id \in Nat /\ e.source \in g.nodes /\ e.target \in g.nodes

\* The cardinality of the instance is that of the module.
LEMMA SvgCardinality == ASSUME NEW S PROVE Svg!Cardinality(S) = Cardinality(S)
BY Zenon DEF Svg!Cardinality, Cardinality

LEMMA WalkedIs ==
  ASSUME NEW g, NEW n \in Nat, n = Cardinality(g.nodes)
  PROVE  /\ Svg!Walked(g)[0] = {g.source}
         /\ \A k \in 1..n : Svg!Walked(g)[k] = Svg!Successors(g, Svg!Walked(g)[k - 1])
<1> DEFINE Walks(f, m) == f = [k \in 0..m |-> IF k = 0 THEN {g.source} ELSE Svg!Successors(g, f[k - 1])]
           Sizes == {m \in Nat : \E f : Walks(f, m)}
<1>1. 0 \in Sizes
  <2> DEFINE f == [k \in 0..0 |-> {g.source}]
  <2>1. Walks(f, 0)
    OBVIOUS
  <2> HIDE DEF f, Walks
  <2> QED
    BY <2>1
<1>2. ASSUME NEW m \in Nat, m \in Sizes PROVE m + 1 \in Sizes
  <2>1. PICK f : Walks(f, m)
    BY <1>2
  <2> DEFINE h == [k \in 0..m + 1 |-> IF k = m + 1 THEN Svg!Successors(g, f[m]) ELSE f[k]]
  <2>2. ASSUME NEW k \in 0..m + 1
        PROVE  h[k] = IF k = 0 THEN {g.source} ELSE Svg!Successors(g, h[k - 1])
    <3>1. CASE k = m + 1
      <4>1. h[k - 1] = f[m] /\ k # 0
        BY <3>1
      <4> QED
        BY <3>1, <4>1
    <3>2. CASE k # m + 1
      <4>1. k \in 0..m /\ h[k] = f[k]
        BY <3>2
      <4>2. k # 0 => h[k - 1] = f[k - 1]
        BY <3>2
      <4>3. f[k] = IF k = 0 THEN {g.source} ELSE Svg!Successors(g, f[k - 1])
        BY <2>1, <4>1
      <4> QED
        BY <4>1, <4>2, <4>3
    <3> QED
      BY <3>1, <3>2
  <2>3. h = [k \in 0..m + 1 |-> h[k]]
    OBVIOUS
  <2> HIDE DEF h
  <2>4. Walks(h, m + 1)
    BY <2>2, <2>3
  <2>5. m + 1 \in Nat
    OBVIOUS
  <2> HIDE DEF Walks
  <2> QED
    BY <2>4, <2>5
<1>3. PICK f : Walks(f, n)
  <2>1. n \in Sizes
    <3> HIDE DEF Sizes
    <3> QED
      BY <1>1, <1>2, NatSetInduction
  <2> HIDE DEF Walks
  <2> QED
    BY <2>1
<1>4. n = Svg!Cardinality(g.nodes)
  BY SvgCardinality
<1>5. Svg!Walked(g) = [k \in 0..Svg!Cardinality(g.nodes) |->
                         IF k = 0 THEN {g.source}
                         ELSE Svg!Successors(g, Svg!Walked(g)[k - 1])]
  BY <1>3, <1>4 DEF Svg!Walked
<1>6. PICK w : w = Svg!Walked(g)
  OBVIOUS
<1>7. w[0] = {g.source}
  BY <1>4, <1>5, <1>6
<1>8. ASSUME NEW k \in 1..n
      PROVE  w[k] = Svg!Successors(g, w[k - 1])
  <2>1. k \in 0..n /\ k # 0
    OBVIOUS
  <2> QED
    BY <1>4, <1>5, <1>6, <2>1
<1> QED
  BY <1>6, <1>7, <1>8

LEMMA WalkStep ==
  ASSUME NEW g, IsDrawing(g), NEW n \in Nat, n = Cardinality(g.nodes),
         NEW k \in 0..n, k < n, NEW e \in g.edges, e.source \in Svg!Walked(g)[k]
  PROVE  e.target \in Svg!Walked(g)[k + 1]
<1>1. k + 1 \in 1..n /\ (k + 1) - 1 = k
  OBVIOUS
<1>2. Svg!Walked(g)[k + 1] = Svg!Successors(g, Svg!Walked(g)[k])
  BY <1>1, WalkedIs
<1> QED
  BY <1>2 DEF Svg!Successors

LEMMA WalkLengthsAre ==
  ASSUME NEW g, IsDrawing(g), NEW n \in Nat, n = Cardinality(g.nodes), NEW m
  PROVE  /\ Svg!WalkLengths(g, m) = {k \in 0..n : m \in Svg!Walked(g)[k]}
         /\ IsFiniteSet(Svg!WalkLengths(g, m)) /\ Svg!WalkLengths(g, m) \subseteq Int
<1>1. Svg!WalkLengths(g, m) = {k \in 0..n : m \in Svg!Walked(g)[k]}
  <2>1. n = Svg!Cardinality(g.nodes)
    BY SvgCardinality
  <2> QED
    BY <2>1 DEF Svg!WalkLengths
<1>2. IsFiniteSet(0..n)
  BY FS_Interval
<1>3. Svg!WalkLengths(g, m) \in SUBSET (0..n)
  BY <1>1
<1> QED
  BY <1>1, <1>2, <1>3, FS_Subset

\* The number of relationships from the source to a node.
Distance(g, m) ==
  IF Svg!Acyclic(g) THEN Svg!Sets!Max(Svg!WalkLengths(g, m))
  ELSE Svg!Sets!Min(Svg!WalkLengths(g, m))

LEMMA DistanceIs ==
  ASSUME NEW g, IsDrawing(g), NEW m, Svg!Reached(g, m)
  PROVE  /\ Distance(g, m) \in Svg!WalkLengths(g, m)
         /\ Distance(g, m) \in Nat
         /\ Svg!Acyclic(g) => \A k \in Svg!WalkLengths(g, m) : k <= Distance(g, m)
<1> DEFINE S == Svg!WalkLengths(g, m)
<1>1. PICK n \in Nat : n = Cardinality(g.nodes)
  BY FS_CardinalityType DEF IsDrawing
<1>2. /\ S = {k \in 0..n : m \in Svg!Walked(g)[k]}
      /\ IsFiniteSet(S) /\ S \subseteq Int
  BY <1>1, WalkLengthsAre
<1>3. S # {}
  BY DEF Svg!Reached
<1>4. S \subseteq Nat
  BY <1>2
<1> HIDE DEF S
<1>5. Svg!Sets!Max(S) \in S /\ \A y \in S : Svg!Sets!Max(S) >= y
  BY <1>2, <1>3, MaxIs
<1>6. Svg!Sets!Min(S) \in S
  BY <1>2, <1>3, MinIs
<1>7. CASE Svg!Acyclic(g)
  <2>1. Distance(g, m) = Svg!Sets!Max(S)
    BY <1>7 DEF Distance, S
  <2>2. \A k \in S : k <= Distance(g, m)
    BY <1>4, <1>5, <2>1
  <2> QED
    BY <1>4, <1>5, <2>1, <2>2 DEF S
<1>8. CASE ~Svg!Acyclic(g)
  <2>1. Distance(g, m) = Svg!Sets!Min(S)
    BY <1>8 DEF Distance, S
  <2> QED
    BY <1>4, <1>6, <1>8, <2>1 DEF S
<1> QED
  BY <1>7, <1>8

LEMMA SourceIsReached ==
  ASSUME NEW g, IsDrawing(g)
  PROVE  Svg!Reached(g, g.source)
<1>1. PICK n \in Nat : n = Cardinality(g.nodes)
  BY FS_CardinalityType DEF IsDrawing
<1>2. 0 \in 0..n /\ g.source \in Svg!Walked(g)[0]
  BY <1>1, WalkedIs
<1>3. 0 \in Svg!WalkLengths(g, g.source)
  BY <1>1, <1>2, WalkLengthsAre
<1> QED
  BY <1>3 DEF Svg!Reached

LEMMA LayerIs ==
  ASSUME NEW g, IsDrawing(g), NEW m \in g.nodes
  PROVE  /\ Svg!Layer(g)[m] \in Nat
         /\ Svg!Reached(g, m) => Svg!Layer(g)[m] = Distance(g, m)
<1> DEFINE D == {Distance(g, x) : x \in {y \in g.nodes : Svg!Reached(g, y)}}
<1>1. Svg!Layer(g)[m] = IF Svg!Reached(g, m) THEN Distance(g, m) ELSE Svg!Sets!Max(D) + 1
  BY Zenon DEF Svg!Layer, Distance
<1>2. Svg!Reached(g, m) => Distance(g, m) \in Nat
  BY DistanceIs
<1>3. Svg!Sets!Max(D) \in Nat
  <2>1. D \subseteq Nat
    BY DistanceIs
  <2>2. D # {}
    BY SourceIsReached DEF IsDrawing
  <2>3. PICK R : R = {y \in g.nodes : Svg!Reached(g, y)}
    OBVIOUS
  <2>4. IsFiniteSet(R)
    BY <2>3, FS_Subset DEF IsDrawing
  <2>5. IsFiniteSet(D)
    <3> DEFINE f == [x \in R |-> Distance(g, x)]
    <3>1. D = {Distance(g, x) : x \in R}
      BY <2>3
    <3>2. f \in [R -> D] /\ \A d \in D : \E x \in R : f[x] = d
      BY <3>1
    <3> HIDE DEF f, D
    <3>3. f \in Surjection(R, D)
      BY <3>2 DEF Surjection
    <3> QED
      BY <2>4, <3>3, FS_Surjection
  <2>7. D \subseteq Int
    BY <2>1
  <2> HIDE DEF D
  <2>6. Svg!Sets!Max(D) \in D
    BY <2>2, <2>5, <2>7, MaxIs
  <2> QED
    BY <2>1, <2>6
<1> HIDE DEF D
<1> QED
  BY <1>1, <1>2, <1>3

\* A relationship of what is reached leads at least a layer further down.
LEMMA RelationshipsDescend ==
  ASSUME NEW g, IsDrawing(g), Svg!Acyclic(g), NEW e \in g.edges, Svg!Reached(g, e.source)
  PROVE  Svg!Layer(g)[e.source] + 1 <= Svg!Layer(g)[e.target]
<1>1. PICK n \in Nat : n = Cardinality(g.nodes)
  BY FS_CardinalityType DEF IsDrawing
<1>2. e.source \in g.nodes /\ e.target \in g.nodes
  BY DEF IsDrawing
<1>3. PICK k : k = Distance(g, e.source)
  OBVIOUS
<1>4. k \in Nat /\ k \in Svg!WalkLengths(g, e.source)
  BY <1>3, DistanceIs
<1>5. k \in 0..n /\ e.source \in Svg!Walked(g)[k]
  BY <1>1, <1>4, WalkLengthsAre
<1>6. Svg!Walked(g)[n] = {}
  BY <1>1, SvgCardinality DEF Svg!Acyclic
<1>7. k < n
  BY <1>5, <1>6
<1>8. e.target \in Svg!Walked(g)[k + 1] /\ k + 1 \in 0..n
  BY <1>1, <1>5, <1>7, WalkStep
<1>9. k + 1 \in Svg!WalkLengths(g, e.target)
  BY <1>1, <1>8, WalkLengthsAre
<1>10. Svg!Reached(g, e.target)
  BY <1>9 DEF Svg!Reached
<1>11. k + 1 <= Distance(g, e.target)
  BY <1>9, <1>10, DistanceIs
<1> QED
  BY <1>2, <1>3, <1>10, <1>11, LayerIs

\* What a chain consists of.
LEMMA ChainIs ==
  ASSUME NEW g, IsDrawing(g), NEW e \in g.edges
  PROVE  LET from == Svg!Layer(g)[e.source]
             upto == Svg!Layer(g)[e.target]
             items == Svg!Chain(g, e).items
         IN  \E m \in Nat :
               /\ from + 1 <= upto => m = upto - from - 1
               /\ Len(items) = m + 2
               /\ items[1] = Svg!Box(g, e.source) /\ items[m + 2] = Svg!Box(g, e.target)
               /\ \A i \in 1..m : items[i + 1] = [kind |-> "waypoint", id |-> e.id, layer |-> from + i]
<1> DEFINE from == Svg!Layer(g)[e.source]
           upto == Svg!Layer(g)[e.target]
           items == Svg!Chain(g, e).items
           m == Svg!Sets!Max({0, upto - from - 1})
           between == [i \in 1..m |-> [kind |-> "waypoint", id |-> e.id, layer |-> from + i]]
<1>1. from \in Nat /\ upto \in Nat
  BY LayerIs DEF IsDrawing
<1>2. m \in {0, upto - from - 1} /\ m >= 0 /\ m >= upto - from - 1
  <2>1. PICK a \in Int : a = upto - from - 1
    BY <1>1
  <2>2. PICK S : S = {0, a}
    OBVIOUS
  <2>3. IsFiniteSet(S) /\ S \subseteq Int /\ S # {}
    <3>1. IsFiniteSet({0}) /\ S = {0} \cup {a}
      BY <2>2, FS_Singleton
    <3>2. IsFiniteSet({0} \cup {a})
      BY <3>1, FS_AddElement
    <3> QED
      BY <2>2, <3>1, <3>2
  <2>4. Svg!Sets!Max(S) \in S /\ \A y \in S : Svg!Sets!Max(S) >= y
    BY <2>3, MaxIs
  <2>5. m = Svg!Sets!Max(S)
    BY <2>1, <2>2
  <2> HIDE DEF m, from, upto
  <2> QED
    BY <2>1, <2>2, <2>4, <2>5
<1>3. m \in Nat /\ (from + 1 <= upto => m = upto - from - 1)
  <2> HIDE DEF m, from, upto
  <2> QED
    BY <1>1, <1>2
<1>4. items = <<Svg!Box(g, e.source)>> \o between \o <<Svg!Box(g, e.target)>>
  BY DEF Svg!Chain
<1> HIDE DEF from, upto, items, m
<1>5. PICK s, t : s = Svg!Box(g, e.source) /\ t = Svg!Box(g, e.target)
  OBVIOUS
<1>6. between \in Seq({between[i] : i \in 1..m}) /\ Len(between) = m
  BY <1>3
<1> HIDE DEF between
<1>7. /\ Len(<<s>> \o between \o <<t>>) = m + 2
      /\ (<<s>> \o between \o <<t>>)[1] = s /\ (<<s>> \o between \o <<t>>)[m + 2] = t
      /\ \A i \in 1..m : (<<s>> \o between \o <<t>>)[i + 1] = between[i]
  BY <1>3, <1>6
<1>8. /\ Len(items) = m + 2
      /\ items[1] = s /\ items[m + 2] = t
      /\ \A i \in 1..m : items[i + 1] = between[i]
  BY <1>4, <1>5, <1>7
<1>9. \A i \in 1..m : between[i] = [kind |-> "waypoint", id |-> e.id, layer |-> from + i]
  BY DEF between
<1> QED
  BY <1>3, <1>5, <1>8, <1>9 DEF from, upto, items

LEMMA ChainsRunDown ==
  ASSUME NEW g, IsDrawing(g), Svg!Acyclic(g), NEW e \in g.edges, Svg!Reached(g, e.source)
  PROVE  LET items == Svg!Chain(g, e).items
         IN  \A k \in 1..Len(items) - 1 : items[k + 1].layer = items[k].layer + 1
<1>1. PICK from, upto, items : /\ from = Svg!Layer(g)[e.source] /\ upto = Svg!Layer(g)[e.target]
                               /\ items = Svg!Chain(g, e).items
  OBVIOUS
<1>2. from \in Nat /\ upto \in Nat /\ from + 1 <= upto
  BY <1>1, LayerIs, RelationshipsDescend DEF IsDrawing
<1>3. PICK m \in Nat :
        /\ from + 1 <= upto => m = upto - from - 1
        /\ Len(items) = m + 2
        /\ items[1] = Svg!Box(g, e.source) /\ items[m + 2] = Svg!Box(g, e.target)
        /\ \A i \in 1..m : items[i + 1] = [kind |-> "waypoint", id |-> e.id, layer |-> from + i]
  BY <1>1, ChainIs
<1>4. \A k \in 1..m + 2 : items[k].layer = from + k - 1
  <2> SUFFICES ASSUME NEW k \in 1..m + 2 PROVE items[k].layer = from + k - 1
    OBVIOUS
  <2>1. CASE k = 1
    BY <1>1, <1>2, <1>3, <2>1 DEF Svg!Box
  <2>2. CASE k = m + 2
    <3>1. items[k] = Svg!Box(g, e.target)
      BY <1>3, <2>2
    <3>2. items[k].layer = upto
      BY <1>1, <3>1 DEF Svg!Box
    <3>3. upto = from + m + 1
      BY <1>2, <1>3
    <3> QED
      BY <1>2, <2>2, <3>2, <3>3
  <2>3. CASE k # 1 /\ k # m + 2
    <3>1. k - 1 \in 1..m /\ (k - 1) + 1 = k
      BY <2>3
    <3>2. items[k] = [kind |-> "waypoint", id |-> e.id, layer |-> from + (k - 1)]
      BY <1>3, <3>1
    <3> QED
      BY <1>2, <3>2
  <2> QED
    BY <2>1, <2>2, <2>3
<1>5. ASSUME NEW k \in 1..Len(items) - 1
      PROVE  items[k + 1].layer = items[k].layer + 1
  <2>1. k \in 1..m + 2 /\ k + 1 \in 1..m + 2
    BY <1>3
  <2>2. items[k].layer = from + k - 1 /\ items[k + 1].layer = from + (k + 1) - 1
    BY <1>4, <2>1
  <2> QED
    BY <1>2, <2>2
<1> QED
  BY <1>1, <1>5

-----------------------------------------------------------------------------
(***************************************************************************)
(* Rows.                                                                   *)
(***************************************************************************)
\* The ranks of a finite set in a strict total order are 1, 2, ...; before[x]
\* is what precedes x.
LEMMA RanksExist ==
  ASSUME NEW S, IsFiniteSet(S), NEW before,
         \A x \in S : before[x] \subseteq S /\ x \notin before[x],
         \A x, y \in S : x \in before[y] => before[x] \subseteq before[y],
         \A x, y \in S : x = y \/ x \in before[y] \/ y \in before[x],
         NEW k \in 1..Cardinality(S)
  PROVE  \E x \in S : Cardinality(before[x]) = k - 1
<1> DEFINE Rank(x) == Cardinality(before[x]) + 1
<1>1. PICK n \in Nat : n = Cardinality(S)
  BY FS_CardinalityType
<1>2. \A x \in S : IsFiniteSet(before[x]) /\ Cardinality(before[x]) \in Nat
  <2>1. \A x \in S : before[x] \in SUBSET S
    OBVIOUS
  <2> QED
    BY <2>1, FS_Subset, FS_CardinalityType
<1>3. ASSUME NEW x \in S, NEW Q, IsFiniteSet(Q), before[x] \cup {x} \subseteq Q
      PROVE  Rank(x) <= Cardinality(Q) /\ Cardinality(Q) \in Nat
  <2>1. x \notin before[x]
    OBVIOUS
  <2>2. Cardinality(before[x] \cup {x}) = Rank(x)
    BY <1>2, <2>1, FS_AddElement
  <2>3. Cardinality(before[x] \cup {x}) <= Cardinality(Q) /\ Cardinality(Q) \in Nat
    BY <1>3, FS_Subset, FS_CardinalityType
  <2> QED
    BY <2>2, <2>3
<1>4. ASSUME NEW x \in S PROVE Rank(x) \in 1..n
  <2>1. before[x] \cup {x} \subseteq S
    OBVIOUS
  <2>2. Rank(x) <= n
    <3> HIDE DEF Rank
    <3> QED
      BY <1>1, <1>3, <2>1
  <2> QED
    BY <1>1, <1>2, <2>2
<1>5. ASSUME NEW x \in S, NEW y \in S, x \in before[y]
      PROVE  Rank(x) < Rank(y)
  <2>1. before[x] \cup {x} \subseteq before[y]
    BY <1>5
  <2>2. Rank(x) <= Cardinality(before[y])
    <3> HIDE DEF Rank
    <3> QED
      BY <1>2, <1>3, <2>1
  <2>3. Cardinality(before[y]) \in Nat /\ Rank(x) \in Nat
    <3> QED
      BY <1>2
  <2> QED
    BY <2>2, <2>3
<1> HIDE DEF Rank
<1>6. \A x, y \in S : Rank(x) = Rank(y) => x = y
  <2> SUFFICES ASSUME NEW x \in S, NEW y \in S, Rank(x) = Rank(y) PROVE x = y
    OBVIOUS
  <2>1. Rank(x) \in 1..n /\ Rank(y) \in 1..n
    BY <1>4
  <2>2. ~(Rank(x) < Rank(y)) /\ ~(Rank(y) < Rank(x))
    BY <2>1
  <2>3. x \notin before[y] /\ y \notin before[x]
    BY <1>5, <2>2
  <2> QED
    BY <2>3
<1> DEFINE f == [x \in S |-> Rank(x)]
<1>7. f \in Injection(S, 1..n)
  BY <1>4, <1>6 DEF Injection, IsInjective
<1>8. IsFiniteSet(1..n) /\ Cardinality(1..n) = n
  BY FS_Interval
<1>9. f \in Surjection(S, 1..n)
  <2> HIDE DEF f
  <2> QED
    BY <1>1, <1>7, <1>8, FS_Injection
<1>10. PICK x \in S : Rank(x) = k
  <2>1. \E x \in S : f[x] = k
    <3> HIDE DEF f
    <3> QED
      BY <1>1, <1>9 DEF Surjection
  <2> QED
    BY <2>1
<1>11. Cardinality(before[x]) = k - 1
  <2>1. Cardinality(before[x]) \in Nat
    BY <1>2
  <2> QED
    BY <1>10, <2>1 DEF Rank
<1> QED
  BY <1>11

IsItem(i) ==
  /\ i = [kind |-> i.kind, id |-> i.id, layer |-> i.layer]
  /\ i.kind \in {"box", "waypoint"} /\ i.id \in Nat /\ i.layer \in Nat

\* What is wished for by the items of a layer.
AreWishes(wishes) ==
  /\ IsFiniteSet(wishes)
  /\ \A v \in wishes : v = [item |-> v.item, at |-> v.at] /\ IsItem(v.item) /\ v.at \in Int
  /\ \A v, w \in wishes : v.item.layer = w.item.layer

LEMMA RowIs ==
  ASSUME NEW wishes, AreWishes(wishes), NEW n \in Nat, n = Cardinality(wishes)
  PROVE  /\ Len(Svg!Row(wishes)) = n
         /\ \A k \in 1..n : Svg!Row(wishes)[k] \in wishes
<1> DEFINE Before(v) == {w \in wishes : Svg!StandsBefore(w, v)}
<1>2. ASSUME NEW v \in wishes PROVE ~Svg!StandsBefore(v, v)
  <2>1. v.at \in Int /\ v.item.id \in Nat
    BY DEF AreWishes, IsItem
  <2> QED
    BY <2>1 DEF Svg!StandsBefore
<1>3. ASSUME NEW v \in wishes, NEW w \in wishes
      PROVE  v = w \/ Svg!StandsBefore(v, w) \/ Svg!StandsBefore(w, v)
  <2>1. /\ v = [item |-> v.item, at |-> v.at] /\ w = [item |-> w.item, at |-> w.at]
        /\ v.at \in Int /\ w.at \in Int
        /\ v.item.kind \in {"box", "waypoint"} /\ w.item.kind \in {"box", "waypoint"}
        /\ v.item.id \in Nat /\ w.item.id \in Nat /\ v.item.layer = w.item.layer
        /\ v.item = [kind |-> v.item.kind, id |-> v.item.id, layer |-> v.item.layer]
        /\ w.item = [kind |-> w.item.kind, id |-> w.item.id, layer |-> w.item.layer]
    BY DEF AreWishes, IsItem
  <2>2. CASE v.at = w.at /\ v.item.kind = w.item.kind /\ v.item.id = w.item.id
    <3>1. v.item = w.item
      BY <2>1, <2>2
    <3> QED
      BY <2>1, <2>2, <3>1
  <2>3. CASE ~(v.at = w.at /\ v.item.kind = w.item.kind /\ v.item.id = w.item.id)
    BY <2>1, <2>3 DEF Svg!StandsBefore
  <2> QED
    BY <2>2, <2>3
<1>4. ASSUME NEW u \in wishes, NEW v \in wishes, NEW w \in wishes,
             Svg!StandsBefore(u, v), Svg!StandsBefore(v, w)
      PROVE  Svg!StandsBefore(u, w)
  <2>1. /\ u.at \in Int /\ v.at \in Int /\ w.at \in Int
        /\ u.item.id \in Nat /\ v.item.id \in Nat /\ w.item.id \in Nat
    BY DEF AreWishes, IsItem
  <2> QED
    BY <1>4, <2>1 DEF Svg!StandsBefore
<1>5. ASSUME NEW k \in 1..n
      PROVE  \E v \in wishes : Svg!Cardinality(Before(v)) = k - 1
  <2> DEFINE before == [v \in wishes |-> Before(v)]
  <2>1. IsFiniteSet(wishes) /\ k \in 1..Cardinality(wishes)
    BY DEF AreWishes
  <2>2. \A x \in wishes : before[x] \subseteq wishes /\ x \notin before[x]
    BY <1>2
  <2>3. \A x, y \in wishes : x \in before[y] => before[x] \subseteq before[y]
    BY <1>4
  <2>4. \A x, y \in wishes : x = y \/ x \in before[y] \/ y \in before[x]
    BY <1>3
  <2>5. \A x \in wishes : before[x] = Before(x)
    OBVIOUS
  <2> HIDE DEF before, Before
  <2>6. PICK v \in wishes : Cardinality(before[v]) = k - 1
    BY <2>1, <2>2, <2>3, <2>4, RanksExist
  <2>7. Svg!Cardinality(Before(v)) = k - 1
    BY <2>5, <2>6, SvgCardinality
  <2> QED
    BY <2>7
<1>9. n = Svg!Cardinality(wishes)
  BY SvgCardinality
<1>6. Svg!Row(wishes) = [k \in 1..Svg!Cardinality(wishes) |->
        CHOOSE v \in wishes : Svg!Cardinality(Before(v)) = k - 1]
  BY DEF Svg!Row
<1> HIDE DEF Before
<1>7. ASSUME NEW k \in 1..n PROVE Svg!Row(wishes)[k] \in wishes
  BY <1>5, <1>6, <1>9
<1>8. Len(Svg!Row(wishes)) = n
  BY <1>6, <1>9
<1> QED
  BY <1>7, <1>8

LEMMA WidthIs == \A i : Svg!Width(i) \in Nat /\ Svg!Width(i) \div 2 \in Nat
BY DEF Svg!Width, Svg!NodeWidth, Svg!WaypointWidth

LEMMA LeftsExist ==
  ASSUME NEW row, NEW n \in Nat, n = Len(row)
  PROVE  Svg!Lefts(row) =
           [k \in 1..n |->
              IF k = 1 THEN Svg!Wish(row, k)
              ELSE Svg!Sets!Max({Svg!Wish(row, k),
                     Svg!Lefts(row)[k - 1] + Svg!Width(row[k - 1].item) + Svg!HGap})]
<1> DEFINE Step(f, k) ==
             IF k = 1 THEN Svg!Wish(row, k)
             ELSE Svg!Sets!Max({Svg!Wish(row, k),
                    f[k - 1] + Svg!Width(row[k - 1].item) + Svg!HGap})
           Sizes == {m \in Nat : \E f : f = [k \in 1..m |-> Step(f, k)]}
<1>1. 0 \in Sizes
  <2> DEFINE f == [k \in 1..0 |-> 0]
  <2>1. f = [k \in 1..0 |-> Step(f, k)]
    OBVIOUS
  <2> HIDE DEF Step, f
  <2> QED
    BY <2>1
<1>2. ASSUME NEW m \in Nat, m \in Sizes PROVE m + 1 \in Sizes
  <2>1. PICK f : f = [k \in 1..m |-> Step(f, k)]
    BY <1>2
  <2> DEFINE h == [k \in 1..m + 1 |-> IF k = m + 1 THEN Step(f, k) ELSE f[k]]
  <2>2. ASSUME NEW k \in 1..m + 1 PROVE h[k] = Step(h, k)
    <3>1. h[k] = Step(f, k)
      <4> HIDE DEF Step
      <4>1. CASE k = m + 1
        BY <4>1
      <4>2. CASE k # m + 1
        <5>1. k \in 1..m /\ h[k] = f[k]
          BY <4>2
        <5> QED
          BY <2>1, <5>1
      <4> QED
        BY <4>1, <4>2
    <3>2. k # 1 => h[k - 1] = f[k - 1]
      OBVIOUS
    <3> HIDE DEF h
    <3> QED
      BY <3>1, <3>2
  <2>3. h = [k \in 1..m + 1 |-> Step(h, k)]
    <3> HIDE DEF Step
    <3> QED
      BY <2>2
  <2>4. m + 1 \in Nat
    OBVIOUS
  <2> HIDE DEF h, Step
  <2> QED
    BY <2>3, <2>4
<1>3. n \in Sizes
  <2> HIDE DEF Sizes
  <2> QED
    BY <1>1, <1>2, NatSetInduction
<1>4. \E f : f = [k \in 1..n |-> Step(f, k)]
  BY <1>3
<1> QED
  BY <1>4 DEF Svg!Lefts

\* Each item clears those before it.
LEMMA LeftsClear ==
  ASSUME NEW row, NEW n \in Nat, n = Len(row), \A k \in 1..n : row[k].at \in Int
  PROVE  /\ \A k \in 1..n : Svg!Lefts(row)[k] \in Int
         /\ \A j, k \in 1..n :
              j < k => Svg!Lefts(row)[j] + Svg!Width(row[j].item) + Svg!HGap <= Svg!Lefts(row)[k]
<1> DEFINE Clears(k) ==
             /\ Svg!Lefts(row)[k] \in Int
             /\ \A j \in 1..n :
                  j < k => Svg!Lefts(row)[j] + Svg!Width(row[j].item) + Svg!HGap <= Svg!Lefts(row)[k]
           S == {m \in Nat : \A k \in 1..n : k <= m => Clears(k)}
<1>1. 0 \in S
  OBVIOUS
<1>2. ASSUME NEW m \in Nat, m \in S PROVE m + 1 \in S
  <2>1. ASSUME m + 1 \in 1..n PROVE Clears(m + 1)
    <3>1. PICK w : w = Svg!Wish(row, m + 1)
      OBVIOUS
    <3>2. w \in Int
      <4>1. row[m + 1].at \in Int
        BY <2>1
      <4> QED
        BY <3>1, <4>1, WidthIs DEF Svg!Wish
    <3>3. CASE m = 0
      <4>0. 1 \in 1..n /\ m + 1 = 1
        BY <2>1, <3>3
      <4> DEFINE left(k) ==
                   IF k = 1 THEN Svg!Wish(row, k)
                   ELSE Svg!Sets!Max({Svg!Wish(row, k),
                          Svg!Lefts(row)[k - 1] + Svg!Width(row[k - 1].item) + Svg!HGap})
      <4>1. Svg!Lefts(row)[1] = Svg!Wish(row, 1)
        <5>1. Svg!Lefts(row) = [k \in 1..n |-> left(k)]
          BY LeftsExist
        <5>2. left(1) = Svg!Wish(row, 1)
          OBVIOUS
        <5> HIDE DEF left
        <5> QED
          BY <4>0, <5>1, <5>2
      <4>2. Svg!Lefts(row)[m + 1] = w
        BY <3>1, <4>0, <4>1
      <4>3. \A j \in 1..n : ~(j < m + 1)
        BY <4>0
      <4>4. Svg!Lefts(row)[m + 1] \in Int
        BY <3>2, <4>2
      <4> QED
        BY <4>3, <4>4
    <3>4. CASE m # 0
      <4>1. m \in 1..n /\ m <= m /\ m + 1 # 1 /\ (m + 1) - 1 = m
        BY <2>1, <3>4
      <4>2. Clears(m)
        <5> HIDE DEF Clears
        <5> QED
          BY <1>2, <4>1
      <4>3. PICK a : a = Svg!Lefts(row)[m] + Svg!Width(row[m].item) + Svg!HGap
        OBVIOUS
      <4>4. a \in Int /\ Svg!Lefts(row)[m] <= a
        <5>1. PICK l \in Int, x \in Nat : l = Svg!Lefts(row)[m] /\ x = Svg!Width(row[m].item)
          BY <4>2, WidthIs
        <5> QED
          BY <4>3, <5>1 DEF Svg!HGap
      <4>5. Svg!Lefts(row)[m + 1] = Svg!Sets!Max({w, a})
        BY <2>1, <3>1, <4>1, <4>3, LeftsExist
      <4>6. Svg!Lefts(row)[m + 1] \in Int /\ Svg!Lefts(row)[m + 1] >= a
        BY <3>2, <4>4, <4>5, MaxOfTwo
      <4>7. ASSUME NEW j \in 1..n, j < m + 1
            PROVE  Svg!Lefts(row)[j] + Svg!Width(row[j].item) + Svg!HGap <= Svg!Lefts(row)[m + 1]
        <5>1. CASE j = m
          BY <4>3, <4>6, <5>1
        <5>2. CASE j < m
          <6>1. Svg!Lefts(row)[j] + Svg!Width(row[j].item) + Svg!HGap <= Svg!Lefts(row)[m]
            BY <4>2, <5>2
          <6>2. Svg!Lefts(row)[j] \in Int
            <7>1. Clears(j)
              <8>1. j <= m
                BY <5>2
              <8> HIDE DEF Clears
              <8> QED
                BY <1>2, <8>1
            <7> QED
              BY <7>1
          <6>3. Svg!Lefts(row)[m] \in Int
            BY <4>2
          <6>4. PICK b \in Int : b = Svg!Lefts(row)[j] + Svg!Width(row[j].item) + Svg!HGap
            BY <6>2, WidthIs DEF Svg!HGap
          <6> QED
            BY <4>4, <4>6, <6>1, <6>3, <6>4
        <5> QED
          BY <4>7, <5>1, <5>2
      <4> QED
        BY <4>6, <4>7
    <3> QED
      BY <3>3, <3>4
  <2>2. \A k \in 1..n : k <= m + 1 => k <= m \/ k = m + 1
    OBVIOUS
  <2> HIDE DEF Clears
  <2>3. \A k \in 1..n : k <= m + 1 => Clears(k)
    BY <1>2, <2>1, <2>2
  <2> QED
    BY <2>3
<1>3. n \in S
  <2> HIDE DEF S
  <2> QED
    BY <1>1, <1>2, NatSetInduction
<1> QED
  BY <1>3

-----------------------------------------------------------------------------
(***************************************************************************)
(* Items, and where they are placed.                                       *)
(***************************************************************************)
LEMMA ItemsOfChain ==
  ASSUME NEW g, IsDrawing(g), NEW e \in g.edges
  PROVE  LET items == Svg!Chain(g, e).items
         IN  /\ IsFiniteSet({items[k] : k \in 1..Len(items)})
             /\ \A k \in 1..Len(items) : IsItem(items[k])
<1>1. PICK from, upto, items : /\ from = Svg!Layer(g)[e.source] /\ upto = Svg!Layer(g)[e.target]
                               /\ items = Svg!Chain(g, e).items
  OBVIOUS
<1>2. /\ from \in Nat /\ upto \in Nat
      /\ e.id \in Nat /\ e.source \in Nat /\ e.target \in Nat
  BY <1>1, LayerIs DEF IsDrawing
<1>3. PICK m \in Nat :
        /\ Len(items) = m + 2
        /\ items[1] = Svg!Box(g, e.source) /\ items[m + 2] = Svg!Box(g, e.target)
        /\ \A i \in 1..m : items[i + 1] = [kind |-> "waypoint", id |-> e.id, layer |-> from + i]
  BY <1>1, ChainIs
<1>4. ASSUME NEW k \in 1..Len(items) PROVE IsItem(items[k])
  <2>1. k \in 1..m + 2
    BY <1>3
  <2>2. CASE k = 1
    BY <1>1, <1>2, <1>3, <2>2 DEF Svg!Box, IsItem
  <2>3. CASE k = m + 2
    <3>1. items[k] = Svg!Box(g, e.target)
      BY <1>3, <2>3
    <3> QED
      BY <1>1, <1>2, <3>1 DEF Svg!Box, IsItem
  <2>4. CASE k # 1 /\ k # m + 2
    <3>1. k - 1 \in 1..m /\ (k - 1) + 1 = k
      BY <2>1, <2>4
    <3>2. items[k] = [kind |-> "waypoint", id |-> e.id, layer |-> from + (k - 1)]
      BY <1>3, <3>1
    <3>3. from + (k - 1) \in Nat
      BY <1>2, <3>1
    <3> QED
      BY <1>2, <3>2, <3>3 DEF IsItem
  <2> QED
    BY <2>2, <2>3, <2>4
<1>5. IsFiniteSet({items[k] : k \in 1..Len(items)})
  <2>1. PICK n \in Nat : n = m + 2
    OBVIOUS
  <2>2. IsFiniteSet(1..n)
    BY FS_Interval
  <2> DEFINE f == [k \in 1..n |-> items[k]]
             I == {items[k] : k \in 1..n}
  <2>3. f \in [1..n -> I] /\ \A x \in I : \E k \in 1..n : f[k] = x
    OBVIOUS
  <2> HIDE DEF f, I
  <2>4. f \in Surjection(1..n, I)
    BY <2>3 DEF Surjection
  <2>5. IsFiniteSet(I)
    BY <2>2, <2>4, FS_Surjection
  <2> QED
    BY <1>3, <2>1, <2>5 DEF I
<1> QED
  BY <1>1, <1>4, <1>5

ChainsOf(g) == {Svg!Chain(g, e) : e \in g.edges}

LEMMA ItemsAre ==
  ASSUME NEW g, IsDrawing(g)
  PROVE  /\ IsFiniteSet(ChainsOf(g))
         /\ IsFiniteSet(Svg!Items(g, ChainsOf(g)))
         /\ Svg!Items(g, ChainsOf(g)) # {}
         /\ \A i \in Svg!Items(g, ChainsOf(g)) : IsItem(i)
<1> DEFINE Boxes == {Svg!Box(g, n) : n \in g.nodes}
           OfChain(c) == {c.items[k] : k \in 1..Len(c.items)}
           Parts == {OfChain(c) : c \in ChainsOf(g)}
<1>1. IsFiniteSet(Boxes)
  <2> DEFINE f == [n \in g.nodes |-> Svg!Box(g, n)]
  <2>1. f \in [g.nodes -> Boxes] /\ \A x \in Boxes : \E n \in g.nodes : f[n] = x
    OBVIOUS
  <2> HIDE DEF f, Boxes
  <2>2. f \in Surjection(g.nodes, Boxes)
    BY <2>1 DEF Surjection
  <2> QED
    BY <2>2, FS_Surjection DEF IsDrawing
<1>2. IsFiniteSet(ChainsOf(g))
  <2> DEFINE f == [e \in g.edges |-> Svg!Chain(g, e)]
  <2>1. f \in [g.edges -> ChainsOf(g)] /\ \A x \in ChainsOf(g) : \E e \in g.edges : f[e] = x
    BY DEF ChainsOf
  <2> HIDE DEF f
  <2>2. f \in Surjection(g.edges, ChainsOf(g))
    BY <2>1 DEF Surjection
  <2> QED
    BY <2>2, FS_Surjection DEF IsDrawing
<1>3. IsFiniteSet(Parts)
  <2> DEFINE f == [c \in ChainsOf(g) |-> OfChain(c)]
  <2>1. f \in [ChainsOf(g) -> Parts] /\ \A x \in Parts : \E c \in ChainsOf(g) : f[c] = x
    OBVIOUS
  <2> HIDE DEF f, Parts
  <2>2. f \in Surjection(ChainsOf(g), Parts)
    BY <2>1 DEF Surjection
  <2> QED
    BY <1>2, <2>2, FS_Surjection
<1>4. ASSUME NEW X \in Parts PROVE IsFiniteSet(X) /\ \A i \in X : IsItem(i)
  <2>1. PICK e \in g.edges : X = OfChain(Svg!Chain(g, e))
    BY DEF ChainsOf
  <2>2. LET items == Svg!Chain(g, e).items
        IN  /\ IsFiniteSet({items[k] : k \in 1..Len(items)})
            /\ \A k \in 1..Len(items) : IsItem(items[k])
    BY ItemsOfChain
  <2> QED
    BY <2>1, <2>2
<1>5. \A i \in Boxes : IsItem(i)
  BY LayerIs DEF IsDrawing, Svg!Box, IsItem
<1>6. Boxes # {}
  BY DEF IsDrawing
<1>7. Svg!Items(g, ChainsOf(g)) = Boxes \cup UNION Parts
  BY DEF Svg!Items
<1> HIDE DEF Boxes, Parts, OfChain
<1>8. IsFiniteSet(UNION Parts)
  BY <1>3, <1>4, FS_UNION
<1>9. IsFiniteSet(Boxes \cup UNION Parts)
  BY <1>1, <1>8, FS_Union
<1> QED
  BY <1>2, <1>4, <1>5, <1>6, <1>7, <1>9

LEMMA RowWidthIsInteger ==
  ASSUME NEW row, IsFiniteSet(row)
  PROVE  Svg!RowWidth(row) \in Int
<1> DEFINE w == [i \in row |-> Svg!Width(i)]
           sum == CHOOSE f : f = [X \in SUBSET row |->
                    IF X = {} THEN 0 ELSE Svg!Width(Any(X)) + f[X \ {Any(X)}]]
<1>1. Svg!Sets!MapThenSumSet(Svg!Width, row) = sum[row]
  BY DEF Svg!Sets!MapThenSumSet, Svg!Sets!MapThenFoldSet, Any
<1>2. ASSUME NEW f, NEW X \in SUBSET row
      PROVE  (IF X = {} THEN 0 ELSE Svg!Width(Any(X)) + f[X \ {Any(X)}]) = SumStep(w, f, X)
  BY DEF SumStep, Any
<1>3. PICK g : AreSums(g, row, w)
  <2> HIDE DEF w, sum
  <2> QED
    BY SumsExist
<1>4. g = [X \in SUBSET row |->
             IF X = {} THEN 0 ELSE Svg!Width(Any(X)) + g[X \ {Any(X)}]]
  <2> HIDE DEF w
  <2> QED
    BY <1>2, <1>3 DEF AreSums
<1>5. sum = [X \in SUBSET row |->
               IF X = {} THEN 0 ELSE Svg!Width(Any(X)) + sum[X \ {Any(X)}]]
  <2> HIDE DEF w
  <2> QED
    BY <1>4
<1> HIDE DEF sum
<1>6. AreSums(sum, row, w)
  <2> HIDE DEF w
  <2> QED
    BY <1>2, <1>5 DEF AreSums
<1>7. \A i \in row : w[i] \in Int
  BY WidthIs
<1>8. sum[row] \in Int
  <2> HIDE DEF w
  <2> QED
    BY <1>6, <1>7, SumsOfIntegers
<1>9. Svg!Cardinality(row) \in Nat
  BY FS_CardinalityType, SvgCardinality
<1>10. PICK c \in Nat, t \in Int :
         c = Svg!Cardinality(row) /\ t = Svg!Sets!MapThenSumSet(Svg!Width, row)
  BY <1>1, <1>8, <1>9
<1> QED
  BY <1>10 DEF Svg!RowWidth, Svg!HGap

\* What is placed: items, each at an integer.
ArePlaced(above, items) ==
  /\ IsFiniteSet(above)
  /\ \A p \in above : p = [item |-> p.item, left |-> p.left] /\ p.item \in items /\ p.left \in Int

LEMMA DesiredIsInteger ==
  ASSUME NEW chains, IsFiniteSet(chains), NEW above, NEW items, ArePlaced(above, items),
         NEW canvas \in Int, NEW i
  PROVE  Svg!Desired(chains, above, canvas, i) \in Int
<1> DEFINE T == Svg!Predecessors(chains, above, i)
           w == [x \in T |-> Svg!Centre(x[2])]
           sum == CHOOSE f : f = [X \in SUBSET T |->
                    IF X = {} THEN 0 ELSE Svg!Centre(Any(X)[2]) + f[X \ {Any(X)}]]
<1>0. T \in SUBSET (chains \X above)
  BY DEF Svg!Predecessors
<1>01. IsFiniteSet(T)
  <2>1. IsFiniteSet(chains \X above)
    BY FS_Product DEF ArePlaced
  <2> HIDE DEF T
  <2> QED
    BY <1>0, <2>1, FS_Subset
<1>02. \A x \in T : x[2] \in above
  <2> HIDE DEF T
  <2> QED
    BY <1>0
<1>1. T # {} => Svg!Desired(chains, above, canvas, i) = sum[T] \div Svg!Cardinality(T)
  BY DEF Svg!Desired, Svg!Sets!MapThenSumSet, Svg!Sets!MapThenFoldSet, Any
<1>11. T = {} => Svg!Desired(chains, above, canvas, i) = canvas \div 2
  BY DEF Svg!Desired
<1> HIDE DEF T
<1>2. ASSUME NEW f, NEW X \in SUBSET T
      PROVE  (IF X = {} THEN 0 ELSE Svg!Centre(Any(X)[2]) + f[X \ {Any(X)}]) = SumStep(w, f, X)
  BY DEF SumStep, Any
<1>3. PICK g : AreSums(g, T, w)
  <2> HIDE DEF w, sum
  <2> QED
    BY <1>01, SumsExist
<1>4. g = [X \in SUBSET T |->
             IF X = {} THEN 0 ELSE Svg!Centre(Any(X)[2]) + g[X \ {Any(X)}]]
  <2> HIDE DEF w
  <2> QED
    BY <1>2, <1>3 DEF AreSums
<1>5. sum = [X \in SUBSET T |->
               IF X = {} THEN 0 ELSE Svg!Centre(Any(X)[2]) + sum[X \ {Any(X)}]]
  <2> HIDE DEF w
  <2> QED
    BY <1>4
<1> HIDE DEF sum
<1>6. AreSums(sum, T, w)
  <2> HIDE DEF w
  <2> QED
    BY <1>2, <1>5 DEF AreSums
<1>7. \A x \in T : w[x] \in Int
  <2> SUFFICES ASSUME NEW x \in T PROVE w[x] \in Int
    OBVIOUS
  <2>1. x[2].left \in Int
    BY <1>02 DEF ArePlaced
  <2>2. Svg!Width(x[2].item) \div 2 \in Nat
    BY WidthIs
  <2>3. Svg!Centre(x[2]) \in Int
    BY <2>1, <2>2 DEF Svg!Centre
  <2> QED
    BY <2>3
<1>8. sum[T] \in Int
  <2> HIDE DEF w
  <2> QED
    BY <1>01, <1>6, <1>7, SumsOfIntegers
<1>9. CASE T = {}
  BY <1>9, <1>11
<1>10. CASE T # {}
  <2>1. Svg!Cardinality(T) \in Nat /\ Svg!Cardinality(T) # 0
    BY <1>01, <1>10, FS_CardinalityType, FS_EmptySet, SvgCardinality
  <2>2. PICK a \in Int, c \in Nat : a = sum[T] /\ c = Svg!Cardinality(T) /\ c > 0
    BY <1>8, <2>1
  <2>3. a \div c \in Int
    BY <2>2
  <2> QED
    BY <1>1, <1>10, <2>2, <2>3
<1> QED
  BY <1>9, <1>10

\* p and q, of the same layer, stand beside each other.
Beside(p, q) ==
  \/ p.left + Svg!Width(p.item) + Svg!HGap <= q.left
  \/ q.left + Svg!Width(q.item) + Svg!HGap <= p.left

KeepApart(placed) ==
  \A p, q \in placed : p # q /\ p.item.layer = q.item.layer => Beside(p, q)

LEMMA ShiftIsInteger ==
  ASSUME NEW first \in Int, NEW right \in Int, NEW canvas \in Int
  PROVE  Svg!Shift(first, right, canvas) \in Int
<1>1. PICK a \in Int : a = right - (canvas - Svg!Margin)
  BY DEF Svg!Margin
<1>2. PICK overflow \in Int : overflow = Svg!Sets!Max({0, a})
  <2>1. 0 \in Int
    OBVIOUS
  <2>2. Svg!Sets!Max({0, a}) \in Int
    BY <2>1, MaxOfTwo
  <2> QED
    BY <2>2
<1>3. PICK b \in Int : b = Svg!Margin - (first - overflow)
  BY DEF Svg!Margin
<1>4. PICK c \in Int : c = Svg!Sets!Max({0, b})
  <2>1. 0 \in Int
    OBVIOUS
  <2>2. Svg!Sets!Max({0, b}) \in Int
    BY <2>1, MaxOfTwo
  <2> QED
    BY <2>2
<1> QED
  BY <1>1, <1>2, <1>3, <1>4 DEF Svg!Shift

LEMMA RowIsPlaced ==
  ASSUME NEW chains, IsFiniteSet(chains), NEW all, NEW above, ArePlaced(above, all),
         NEW canvas \in Int, NEW items \in SUBSET all, IsFiniteSet(items), NEW k,
         \A i \in items : IsItem(i) /\ i.layer = k
  PROVE  LET placed == Svg!PlaceRow(chains, above, canvas, items)
         IN  ArePlaced(placed, items) /\ KeepApart(placed)
<1> DEFINE wishes == {[item |-> i, at |-> Svg!Desired(chains, above, canvas, i)] : i \in items}
           row == Svg!Row(wishes)
           lefts == Svg!Lefts(row)
           shift == Svg!Shift(lefts[1], lefts[Len(row)] + Svg!Width(row[Len(row)].item), canvas)
           placed == {[item |-> row[j].item, left |-> lefts[j] + shift] : j \in 1..Len(row)}
<1>1. IsFiniteSet(wishes)
  <2> DEFINE f == [i \in items |-> [item |-> i, at |-> Svg!Desired(chains, above, canvas, i)]]
  <2>1. f \in [items -> wishes] /\ \A x \in wishes : \E i \in items : f[i] = x
    OBVIOUS
  <2> HIDE DEF f, wishes
  <2>2. f \in Surjection(items, wishes)
    BY <2>1 DEF Surjection
  <2> QED
    BY <2>2, FS_Surjection
<1>2. \A v \in wishes : /\ v = [item |-> v.item, at |-> v.at]
                        /\ v.item \in items /\ v.at \in Int
  BY DesiredIsInteger
<1>3. AreWishes(wishes)
  <2> HIDE DEF wishes
  <2> QED
    BY <1>1, <1>2 DEF AreWishes
<1>4. PICK n \in Nat : n = Cardinality(wishes)
  BY <1>1, FS_CardinalityType
<1> HIDE DEF wishes
<1>5. Len(row) = n /\ \A j \in 1..n : row[j] \in wishes
  BY <1>3, <1>4, RowIs
<1>6. \A j \in 1..n : row[j].at \in Int /\ row[j].item \in items
  BY <1>2, <1>5
<1>7. Svg!PlaceRow(chains, above, canvas, items) = placed
  BY DEF Svg!PlaceRow, wishes
<1> HIDE DEF row
<1>8. /\ \A j \in 1..n : lefts[j] \in Int
      /\ \A i, j \in 1..n : i < j => lefts[i] + Svg!Width(row[i].item) + Svg!HGap <= lefts[j]
  BY <1>5, <1>6, LeftsClear
<1> HIDE DEF lefts
<1>9. n # 0 => shift \in Int
  <2> SUFFICES ASSUME n # 0 PROVE shift \in Int
    OBVIOUS
  <2>1. 1 \in 1..n /\ n \in 1..n
    OBVIOUS
  <2>2. PICK a \in Int, b \in Int, x \in Nat :
          a = lefts[1] /\ b = lefts[n] /\ x = Svg!Width(row[n].item)
    BY <1>8, <2>1, WidthIs
  <2>3. PICK c \in Int : c = b + x
    OBVIOUS
  <2>4. shift = Svg!Shift(a, c, canvas)
    BY <1>5, <2>2, <2>3
  <2> HIDE DEF shift
  <2> QED
    BY <2>4, ShiftIsInteger
<1> HIDE DEF shift
<1>10. ASSUME NEW p \in placed
       PROVE  \E j \in 1..n : /\ p = [item |-> row[j].item, left |-> lefts[j] + shift]
                              /\ shift \in Int /\ lefts[j] \in Int /\ row[j].item \in items
  <2>1. PICK j \in 1..n : p = [item |-> row[j].item, left |-> lefts[j] + shift]
    BY <1>5
  <2>2. n # 0
    OBVIOUS
  <2> QED
    BY <1>6, <1>8, <1>9, <2>1, <2>2
<1>11. IsFiniteSet(placed)
  <2> DEFINE f == [j \in 1..n |-> [item |-> row[j].item, left |-> lefts[j] + shift]]
  <2>1. f \in [1..n -> placed] /\ \A x \in placed : \E j \in 1..n : f[j] = x
    BY <1>5
  <2>2. IsFiniteSet(1..n)
    BY FS_Interval
  <2> HIDE DEF f, placed
  <2>3. f \in Surjection(1..n, placed)
    BY <2>1 DEF Surjection
  <2> QED
    BY <2>2, <2>3, FS_Surjection
<1> HIDE DEF placed
<1>12. \A p \in placed : p = [item |-> p.item, left |-> p.left] /\ p.item \in items /\ p.left \in Int
  <2> SUFFICES ASSUME NEW p \in placed
               PROVE  p = [item |-> p.item, left |-> p.left] /\ p.item \in items /\ p.left \in Int
    OBVIOUS
  <2>1. PICK j \in 1..n : /\ p = [item |-> row[j].item, left |-> lefts[j] + shift]
                          /\ shift \in Int /\ lefts[j] \in Int /\ row[j].item \in items
    BY <1>10
  <2> QED
    BY <2>1
<1>13. \A p, q \in placed : p # q => Beside(p, q)
  <2> SUFFICES ASSUME NEW p \in placed, NEW q \in placed, p # q PROVE Beside(p, q)
    OBVIOUS
  <2>1. PICK i \in 1..n : /\ p = [item |-> row[i].item, left |-> lefts[i] + shift]
                          /\ shift \in Int /\ lefts[i] \in Int
    BY <1>10
  <2>2. PICK j \in 1..n : /\ q = [item |-> row[j].item, left |-> lefts[j] + shift]
                          /\ lefts[j] \in Int
    BY <1>10
  <2>3. PICK a \in Int, b \in Int, s \in Int, x \in Nat, y \in Nat :
          /\ a = lefts[i] /\ b = lefts[j] /\ s = shift
          /\ x = Svg!Width(row[i].item) /\ y = Svg!Width(row[j].item)
    BY <2>1, <2>2, WidthIs
  <2>4. /\ p.left = a + s /\ q.left = b + s
        /\ x = Svg!Width(p.item) /\ y = Svg!Width(q.item)
    BY <2>1, <2>2, <2>3
  <2>5. CASE i < j
    <3>1. a + x + Svg!HGap <= b
      BY <1>8, <2>3, <2>5
    <3> QED
      BY <2>3, <2>4, <3>1 DEF Beside, Svg!HGap
  <2>6. CASE j < i
    <3>1. b + y + Svg!HGap <= a
      BY <1>8, <2>3, <2>6
    <3> QED
      BY <2>3, <2>4, <3>1 DEF Beside, Svg!HGap
  <2>7. i # j
    BY <2>1, <2>2
  <2> QED
    BY <2>5, <2>6, <2>7
<1> QED
  BY <1>7, <1>11, <1>12, <1>13 DEF ArePlaced, KeepApart

\* The layers are placed one below the other.
LEMMA PlacedIs ==
  ASSUME NEW chains, IsFiniteSet(chains), NEW items, IsFiniteSet(items), items # {},
         \A i \in items : IsItem(i), NEW canvas \in Int
  PROVE  KeepApart(Svg!Placed(chains, items, canvas))
<1> DEFINE depth == Svg!Sets!Max({i.layer : i \in items}) + 1
           Layer(k) == {i \in items : i.layer = k - 1}
           Step(f, k) ==
             IF k = 0 THEN {}
             ELSE f[k - 1] \cup Svg!PlaceRow(chains, f[k - 1], canvas, Layer(k))
           Fits(k, U) ==
             /\ ArePlaced(U, items) /\ KeepApart(U)
             /\ \A p \in U : p.item.layer < k
           Sizes == {m \in Nat : \E f : f = [k \in 0..m |-> Step(f, k)]}
<1>1. PICK d \in Nat : d = depth
  <2> DEFINE L == {i.layer : i \in items}
             f == [i \in items |-> i.layer]
  <2>1. f \in [items -> L] /\ \A x \in L : \E i \in items : f[i] = x
    OBVIOUS
  <2>2. L \subseteq Nat /\ L \subseteq Int /\ L # {}
    BY DEF IsItem
  <2> HIDE DEF f, L
  <2>3. f \in Surjection(items, L)
    BY <2>1 DEF Surjection
  <2>4. IsFiniteSet(L)
    BY <2>3, FS_Surjection
  <2>5. Svg!Sets!Max(L) \in L
    BY <2>2, <2>4, MaxIs
  <2>6. PICK x \in Nat : x = Svg!Sets!Max(L)
    BY <2>2, <2>5
  <2>7. x + 1 \in Nat
    OBVIOUS
  <2> QED
    BY <2>6, <2>7 DEF L
<1> HIDE DEF depth
<1>2. 0 \in Sizes
  <2> DEFINE f == [k \in 0..0 |-> {}]
  <2>1. f = [k \in 0..0 |-> Step(f, k)]
    OBVIOUS
  <2> HIDE DEF Step, f
  <2> QED
    BY <2>1
<1>3. ASSUME NEW m \in Nat, m \in Sizes PROVE m + 1 \in Sizes
  <2>1. PICK f : f = [k \in 0..m |-> Step(f, k)]
    BY <1>3
  <2> DEFINE h == [k \in 0..m + 1 |-> IF k = m + 1 THEN Step(f, k) ELSE f[k]]
  <2>2. ASSUME NEW k \in 0..m + 1 PROVE h[k] = Step(h, k)
    <3>1. h[k] = Step(f, k)
      <4> HIDE DEF Step
      <4>1. CASE k = m + 1
        BY <4>1
      <4>2. CASE k # m + 1
        <5>1. k \in 0..m /\ h[k] = f[k]
          BY <4>2
        <5> QED
          BY <2>1, <5>1
      <4> QED
        BY <4>1, <4>2
    <3>2. k # 0 => h[k - 1] = f[k - 1]
      OBVIOUS
    <3> HIDE DEF h, Layer
    <3> QED
      BY <3>1, <3>2
  <2>3. h = [k \in 0..m + 1 |-> Step(h, k)]
    <3> HIDE DEF Step
    <3> QED
      BY <2>2
  <2>4. m + 1 \in Nat
    OBVIOUS
  <2> HIDE DEF h, Step
  <2> QED
    BY <2>3, <2>4
<1>4. d \in Sizes
  <2> HIDE DEF Sizes
  <2> QED
    BY <1>2, <1>3, NatSetInduction
<1>5. \E f : f = [k \in 0..depth |-> Step(f, k)]
  BY <1>1, <1>4
<1>6. PICK f : f = [k \in 0..depth |-> Step(f, k)] /\ Svg!Placed(chains, items, canvas) = f[depth]
  <2> DEFINE g == CHOOSE h : h = [k \in 0..depth |-> Step(h, k)]
  <2>1. g = [k \in 0..depth |-> Step(g, k)]
    <3> HIDE DEF Step
    <3> QED
      BY <1>5
  <2>2. Svg!Placed(chains, items, canvas) = g[depth]
    BY DEF Svg!Placed, depth
  <2> HIDE DEF g, Step
  <2> QED
    BY <2>1, <2>2
<1>7. \A k \in 0..d : f[k] = Step(f, k)
  <2> HIDE DEF Step
  <2> QED
    BY <1>1, <1>6
<1> DEFINE S == {m \in Nat : m <= d => Fits(m, f[m])}
<1>8. 0 \in S
  <2>1. f[0] = Step(f, 0)
    <3>1. 0 \in 0..d
      OBVIOUS
    <3> HIDE DEF Step
    <3> QED
      BY <1>7, <3>1
  <2>11. f[0] = {}
    BY <2>1
  <2>2. Fits(0, {})
    BY FS_EmptySet DEF ArePlaced, KeepApart
  <2> HIDE DEF Fits
  <2> QED
    BY <2>11, <2>2
<1>9. ASSUME NEW m \in Nat, m \in S PROVE m + 1 \in S
  <2> SUFFICES ASSUME m + 1 <= d PROVE Fits(m + 1, f[m + 1])
    <3> HIDE DEF Fits
    <3> QED
      OBVIOUS
  <2>1. Fits(m, f[m])
    <3> HIDE DEF Fits
    <3> QED
      BY <1>9
  <2>2. PICK new : new = Svg!PlaceRow(chains, f[m], canvas, Layer(m + 1))
    OBVIOUS
  <2>3. f[m + 1] = f[m] \cup new
    <3>1. m + 1 \in 0..d /\ m + 1 # 0 /\ (m + 1) - 1 = m
      OBVIOUS
    <3> HIDE DEF Layer
    <3> QED
      BY <1>7, <2>2, <3>1
  <2>4. /\ Layer(m + 1) \in SUBSET items
        /\ \A i \in Layer(m + 1) : IsItem(i) /\ i.layer = m
    OBVIOUS
  <2>5. IsFiniteSet(Layer(m + 1))
    <3> HIDE DEF Layer
    <3> QED
      BY <2>4, FS_Subset
  <2>6. ArePlaced(f[m], items)
    BY <2>1
  <2>7. ArePlaced(new, Layer(m + 1)) /\ KeepApart(new)
    <3> HIDE DEF Layer, Fits
    <3> QED
      BY <2>2, <2>4, <2>5, <2>6, RowIsPlaced
  <2>8. \A p \in new : p.item \in items /\ p.item.layer = m
    BY <2>4, <2>7 DEF ArePlaced
  <2>9. ArePlaced(f[m] \cup new, items)
    <3>1. IsFiniteSet(f[m] \cup new)
      BY <2>6, <2>7, FS_Union DEF ArePlaced
    <3> HIDE DEF Layer, Fits
    <3> QED
      BY <2>6, <2>7, <2>8, <3>1 DEF ArePlaced
  <2>10. \A p \in f[m] : p.item.layer < m /\ p.item.layer \in Nat
    BY <2>1 DEF ArePlaced, IsItem
  <2>11. KeepApart(f[m] \cup new)
    <3>1. KeepApart(f[m])
      BY <2>1
    <3>2. \A p \in f[m], q \in new : p.item.layer # q.item.layer
      <4> HIDE DEF Fits, Layer
      <4> QED
        BY <2>8, <2>10
    <3> HIDE DEF Fits, Layer
    <3> QED
      BY <2>7, <3>1, <3>2 DEF KeepApart
  <2>12. \A p \in f[m] \cup new : p.item.layer < m + 1
    <3> HIDE DEF Fits, Layer
    <3> QED
      BY <2>8, <2>10
  <2> QED
    BY <2>3, <2>9, <2>11, <2>12
<1>10. d \in S
  <2> HIDE DEF S
  <2> QED
    BY <1>8, <1>9, NatSetInduction
<1>11. Fits(d, f[d])
  <2> HIDE DEF Fits
  <2> QED
    BY <1>10
<1> QED
  BY <1>1, <1>6, <1>11

LEMMA DrawingKeepsApart ==
  ASSUME NEW g, IsDrawing(g)
  PROVE  KeepApart(Svg!Drawing(g).placed)
<1> DEFINE items == Svg!Items(g, ChainsOf(g))
<1>1. /\ IsFiniteSet(ChainsOf(g)) /\ IsFiniteSet(items) /\ items # {}
      /\ \A i \in items : IsItem(i)
  BY ItemsAre
<1> HIDE DEF items
<1>2. Svg!CanvasWidth(items) \in Int
  <2> DEFINE rows == Svg!RowsOf(items)
             W == {Svg!RowWidth(row) : row \in rows}
             Row(j) == {i \in items : i.layer = j.layer}
             f == [j \in items |-> Row(j)]
             h == [row \in rows |-> Svg!RowWidth(row)]
  <2>1. rows = {Row(j) : j \in items}
    BY DEF Svg!RowsOf
  <2>2. f \in [items -> rows] /\ \A x \in rows : \E j \in items : f[j] = x
    BY <2>1
  <2>3. \A row \in rows : IsFiniteSet(row)
    <3>1. \A row \in rows : row \in SUBSET items
      BY <2>1
    <3> HIDE DEF rows
    <3> QED
      BY <1>1, <3>1, FS_Subset
  <2>4. rows # {}
    <3>1. PICK j \in items : TRUE
      BY <1>1
    <3>2. Row(j) \in rows
      BY <2>1
    <3> QED
      BY <3>2
  <2> HIDE DEF f, rows
  <2>5. f \in Surjection(items, rows)
    BY <2>2 DEF Surjection
  <2>6. IsFiniteSet(rows)
    BY <1>1, <2>5, FS_Surjection
  <2>7. h \in [rows -> W] /\ \A x \in W : \E row \in rows : h[row] = x
    OBVIOUS
  <2>8. W \subseteq Int /\ W # {}
    BY <2>3, <2>4, RowWidthIsInteger
  <2>9. Svg!CanvasWidth(items) = Svg!Sets!Max(W) + 2 * Svg!Margin
    BY DEF Svg!CanvasWidth, rows
  <2> HIDE DEF h, W
  <2>10. h \in Surjection(rows, W)
    BY <2>7 DEF Surjection
  <2>11. IsFiniteSet(W)
    BY <2>6, <2>10, FS_Surjection
  <2>12. Svg!Sets!Max(W) \in W
    BY <2>8, <2>11, MaxIs
  <2>13. Svg!Sets!Max(W) \in Int
    BY <2>8, <2>12
  <2> QED
    BY <2>9, <2>13 DEF Svg!Margin
<1>3. KeepApart(Svg!Placed(ChainsOf(g), items, Svg!CanvasWidth(items)))
  BY <1>1, <1>2, PlacedIs
<1>4. Svg!Drawing(g).placed = Svg!Placed(ChainsOf(g), items, Svg!CanvasWidth(items))
  BY DEF Svg!Drawing, ChainsOf, items
<1> QED
  BY <1>3, <1>4

-----------------------------------------------------------------------------
(***************************************************************************)
(* The environment of the report.                                          *)
(***************************************************************************)
LEMMA EnvironmentIsDrawing == IInv => IsDrawing(Environment)
<1> SUFFICES ASSUME IInv PROVE IsDrawing(Environment)
  OBVIOUS
<1>1. IsStore(store) /\ store \in Graphs /\ call.query.source \in Node
  BY DEF IInv, CallInv, IsQuery
<1>2. store \subseteq Edge /\ IsFiniteSet(store)
  BY <1>1, StoresAreFinite
<1>3. \A e \in store : e.id \in Nat /\ e.source \in Node /\ e.target \in Node
  BY <1>2, OrderedIdentifiers DEF Edge
<1> QED
  BY <1>1, <1>2, <1>3, EnvironmentIsFinite, OrderedIdentifiers DEF Environment, IsDrawing

LEMMA RunDownFollows == IInv => RelationshipsRunDown
<1> SUFFICES ASSUME IInv, NEW e \in store,
                    Svg!Acyclic(Environment), Svg!Reached(Environment, e.source)
             PROVE  LET items == Svg!Chain(Environment, e).items
                    IN  \A k \in 1..Len(items) - 1 : items[k + 1].layer = items[k].layer + 1
  BY DEF RelationshipsRunDown
<1>1. PICK g : g = Environment
  OBVIOUS
<1>2. IsDrawing(g) /\ e \in g.edges
  BY <1>1, EnvironmentIsDrawing DEF Environment
<1> QED
  BY <1>1, <1>2, ChainsRunDown

LEMMA PublishApart == ASSUME IInv, Publish PROVE ItemsKeepApart'
<1>1. PICK d : d = Svg!Drawing(Environment)
  OBVIOUS
<1>2. report'.drawing = d
  BY <1>1 DEF Publish
<1>3. KeepApart(d.placed)
  BY <1>1, EnvironmentIsDrawing, DrawingKeepsApart
<1>4. KeepApart(report'.drawing.placed)
  BY <1>2, <1>3
<1>5. ItemsKeepApart' <=> (stage' = "reported" => KeepApart(report'.drawing.placed))
  BY DEF ItemsKeepApart, KeepApart, Beside
<1> QED
  BY <1>4, <1>5

\* A drawing is made once, at the end; until then there is nothing to keep apart.
LEMMA StaysApart ==
  ASSUME IInv, ItemsKeepApart, [ReportNext]_reportVars
  PROVE  ItemsKeepApart'
<1>1. CASE Engine
  BY <1>1 DEF Engine, ItemsKeepApart
<1>2. CASE Traverse
  BY <1>2 DEF Traverse, Inconsistent, ItemsKeepApart
<1>3. CASE Feature
  BY <1>3 DEF Feature, Inconsistent, ItemsKeepApart
<1>4. CASE Publish
  BY <1>4, PublishApart
<1>5. CASE UNCHANGED reportVars
  BY <1>5 DEF reportVars, ItemsKeepApart
<1> QED
  BY <1>1, <1>2, <1>3, <1>4, <1>5 DEF ReportNext

-----------------------------------------------------------------------------
\* counterfactual.py:199 and the validators of EnvironmentRiskRanking: removing
\* a relationship never saturates a search, and no ranking is refused.
THEOREM FailClosed ==
  /\ Spec => []FailClosedChecksNeverFire
  /\ ReportSpec => []FailClosedChecksNeverFire
<1>1. IInv => FailClosedChecksNeverFire
  BY DEF IInv
<1>2. ReportInv => IInv
  BY DEF ReportInv
<1> QED
  BY <1>1, <1>2, Invariance, ReportInvariance, PTL

\* With a complete baseline, each result tells exactly the paths that use its
\* relationship from those that do not, whatever was evaluated before it.
THEOREM Partition ==
  /\ Spec => []RemovalPartitionsBaseline
  /\ ReportSpec => []RemovalPartitionsBaseline
<1>1. ReportInv => IInv
  BY DEF ReportInv
<1> QED
  BY <1>1, PartitionFollows, Invariance, ReportInvariance, PTL

\* A ranking that may be persisted was made under a canonical context from
\* every valid path, and each of its candidates was measured completely.
THEOREM Authority ==
  /\ Spec => []AuthoritativeIsComplete
  /\ ReportSpec => []AuthoritativeIsComplete
<1>1. ReportInv => IInv
  BY DEF ReportInv
<1> QED
  BY <1>1, AuthorityFollows, Invariance, ReportInvariance, PTL

\* A candidate that may be ranked never raises the environment risk, and lowers
\* it exactly when it removes a path with risk and no certain path remains.
THEOREM RankableReduction ==
  /\ Spec => []RankableReductionIsSound
  /\ ReportSpec => []RankableReductionIsSound
<1>1. ReportInv => IInv
  BY DEF ReportInv
<1> QED
  BY <1>1, ReductionFollows, Invariance, ReportInvariance, PTL

\* Saturated or not, the environment risks that are reported never exceed those
\* of all the paths, and equal them when nothing was cut off.
THEOREM LowerBounds ==
  /\ Spec => []RisksAreLowerBounds
  /\ ReportSpec => []RisksAreLowerBounds
<1>1. ReportInv => IInv
  BY DEF ReportInv
<1> QED
  BY <1>1, BoundsFollow, Invariance, ReportInvariance, PTL

\* ShowcaseConsistencyError is raised only for want of a path, or because
\* max_paths was reached: analyze and the engine never contradict each other.
THEOREM Consistency == ReportSpec => []OnlySaturationIsInconsistent
<1>1. ReportInv => OnlySaturationIsInconsistent
  BY DEF ReportInv
<1> QED
  BY <1>1, ReportInvariance, PTL

\* No relationship of the store, candidate or not, is a better one to remove
\* than the featured one, and its equivalents are all that leave the same paths.
THEOREM BestRemediation == ReportSpec => []FeaturedIsTheBestCut
<1>1. ReportInv => FeaturedIsTheBestCut
  BY DEF ReportInv
<1> QED
  BY <1>1, ReportInvariance, PTL

\* The analysis under the tighter max_paths is that of the report, or says that
\* it is not; its baseline risk is never larger.
THEOREM HonestBounds == ReportSpec => []BoundSensitivityIsHonest
<1>1. ReportInv => BoundSensitivityIsHonest
  BY DEF ReportInv
<1> QED
  BY <1>1, ReportInvariance, PTL

\* What the overlap analysis says of a complete baseline is what removing does:
\* participations count removed paths, overlaps are listed and never complete,
\* and a choke point of every path is one without which there is none.
THEOREM OverlapPrediction ==
  /\ Spec => []OverlapPredictsRemediation
  /\ ReportSpec => []OverlapPredictsRemediation
<1>1. ReportInv => IInv
  BY DEF ReportInv
<1> QED
  BY <1>1, OverlapFollows, Invariance, ReportInvariance, PTL

\* svg.py, _layers and the waypoints: what the source reaches is drawn from
\* layer to layer downwards, whatever the graph, unless it has a cycle.
THEOREM RunningDown == ReportSpec => []RelationshipsRunDown
<1>1. ReportInv => IInv
  BY DEF ReportInv
<1> QED
  BY <1>1, RunDownFollows, ReportInvariance, PTL

\* svg.py, the rows: no two boxes or waypoints of a layer overlap, whatever
\* they wished for and however far the row was moved back.
THEOREM StandingApart == ReportSpec => []ItemsKeepApart
<1>1. ReportInit => ItemsKeepApart
  BY DEF ReportInit, ItemsKeepApart
<1>2. ReportInv /\ ItemsKeepApart /\ [ReportNext]_reportVars => ItemsKeepApart'
  BY StaysApart DEF ReportInv
<1> QED
  BY <1>1, <1>2, ReportInvariance, PTL DEF ReportSpec
===============================================================================
