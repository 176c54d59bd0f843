---------------------------- MODULE AnalysisPolicy ----------------------------
(***************************************************************************)
(* Two analyses from the values a caller supplies to a verdict whether     *)
(* their results may be compared (app/analytics/policy.py, context.py and  *)
(* comparability.py): construct a policy, construct a context around it,   *)
(* compare the policies by their fingerprints.                             *)
(*                                                                         *)
(* SHA-256 and the JSON text it is taken of are injective here: a          *)
(* fingerprint is the canonical form of a policy.  Objects have no order   *)
(* of their own, since keys are sorted; lists keep theirs.  Sealed         *)
(* selectors admit a single value and are left out.                        *)
(***************************************************************************)
EXTENDS PathSemantics, SequencesExt

CONSTANTS
  Inputs,    \* what a caller supplies for an analysis
  Stores     \* stores the analyses are run on

\* Edge costs are a table of integers, the legacy tables hold finite floats; a
\* time and a scope are records, whatever the checks say of them.  `resolved'
\* says whether the scope is an AnalyticalScope or a dict that looks like one.
ASSUME InputsAreTyped ==
  \A in \in Inputs :
    /\ in.costs \in [DOMAIN in.costs -> Int]
    /\ in.weight \in Int
    /\ in.time \in [aware : BOOLEAN, local : Int, offset : Int]
    /\ in.scope \in [id : Nat, version : Int, resolved : BOOLEAN]

VARIABLES
  input,     \* the values supplied for the two analyses
  policy,    \* the policies, or NoPolicy
  context,   \* the contexts, or NoContext
  stage,     \* where the construction of each analysis is
  verdict    \* of verify_comparability

vars == <<input, policy, context, stage, verdict>>

Side == {1, 2}

NoContext == [kind |-> "none"]

Absent == 0   \* a scope id or a definition version that is None

-----------------------------------------------------------------------------
(***************************************************************************)
(* AnalysisPolicyV2.  types.all stands for None.                           *)
(***************************************************************************)
Sorted(T) == SetToSortSeq(T, <)

TypeSet(types) == IF types.all THEN RelType ELSE ToSet(types.list)

\* Mutant: the list keeps its order and its duplicates.
TypesAsGiven(types) == IF types.all THEN Sorted(RelType) ELSE types.list

CanonicalTypes(types) == Sorted(TypeSet(types))

Accepted(in) ==
  /\ in.maxHops >= 0 /\ in.budget >= 0 /\ in.maxPaths >= 1
  /\ TypeSet(in.types) # {}
  /\ DOMAIN in.costs = TypeSet(in.types)
  /\ \A t \in DOMAIN in.costs : in.costs[t] >= 0

PolicyV2(in) ==
  [kind |-> "v2", maxHops |-> in.maxHops, budget |-> in.budget,
   maxPaths |-> in.maxPaths, types |-> CanonicalTypes(in.types), costs |-> in.costs]

\* The legacy policy validates types only; weight stands for its tables of
\* floats, in units of 1/100000.
PolicyV1(in) ==
  [kind |-> "v1", maxHops |-> in.maxHops, budget |-> in.budget,
   maxPaths |-> in.maxPaths, types |-> in.types, costs |-> in.costs,
   weight |-> in.weight]

-----------------------------------------------------------------------------
(***************************************************************************)
(* Fingerprints and comparability.                                         *)
(***************************************************************************)
\* ROUND_HALF_UP to four decimals goes away from zero; a negative value that
\* rounds to zero is written "-0".
Rounded(weight) ==
  [negative |-> weight < 0,
   size     |-> ((IF weight < 0 THEN -weight ELSE weight) + 5) \div 10]

Fingerprint(p) == IF p.kind = "v1" THEN [p EXCEPT !.weight = Rounded(@)] ELSE p

Verdict(p, q) ==
  IF ~({p.kind, q.kind} \subseteq {"v1", "v2"}) THEN "unsupported"
  ELSE IF p.kind # q.kind                       THEN "version_mismatch"
  ELSE IF Fingerprint(p) # Fingerprint(q)       THEN "fingerprint_mismatch"
                                                ELSE "comparable"

-----------------------------------------------------------------------------
(***************************************************************************)
(* Contexts.  A datetime is a local time and an offset from UTC; a naive   *)
(* one has no offset.                                                      *)
(***************************************************************************)
\* Mutant: an aware time is kept as it is.
TimeAsGiven(time) == time

NormalizeTime(time) == [time EXCEPT !.local = @ - time.offset, !.offset = 0]

ScopeAccepted(scope) ==
  /\ scope.resolved
  /\ scope.id = Absent <=> scope.version = Absent
  /\ scope.version # Absent => scope.version >= 1

\* A context admits a V2 policy only, and an aware time.
ContextAccepted(p, in) ==
  p.kind = "v2" /\ in.time.aware /\ ScopeAccepted(in.scope)

Context(p, in) ==
  [kind |-> "context", policy |-> p, time |-> NormalizeTime(in.time), scope |-> in.scope]

Provenance(c) ==
  [version |-> c.policy.kind, fingerprint |-> Fingerprint(c.policy), time |-> c.time,
   scopeId |-> c.scope.id, scopeVersion |-> c.scope.version]

\* traversal_bounds_for_policy: nothing is defaulted.
Bounds(p, source, target) ==
  [source |-> source, target |-> target,
   policy |-> [kind |-> "policy", maxHops |-> p.maxHops, budget |-> p.budget,
               costs |-> p.costs],
   maxHops |-> p.maxHops, maxPaths |-> p.maxPaths, types |-> ToSet(p.types)]

-----------------------------------------------------------------------------
Init ==
  /\ input \in [Side -> Inputs]
  /\ policy = [x \in Side |-> NoPolicy]
  /\ context = [x \in Side |-> NoContext]
  /\ stage = [x \in Side |-> "new"]
  /\ verdict = "none"

\* A caller may also hold something that is no policy at all.
ConstructPolicy(x) ==
  /\ stage[x] = "new"
  /\ LET in == input[x]
         built == CASE in.kind = "v2" -> IF Accepted(in) THEN PolicyV2(in) ELSE NoPolicy
                    [] in.kind = "v1" -> PolicyV1(in)
                    [] OTHER          -> [kind |-> in.kind]
     IN  /\ policy' = [policy EXCEPT ![x] = built]
         /\ stage' = [stage EXCEPT ![x] = IF built = NoPolicy THEN "rejected" ELSE "policy"]
  /\ UNCHANGED <<input, context, verdict>>

ConstructContext(x) ==
  /\ stage[x] = "policy"
  /\ LET accepted == ContextAccepted(policy[x], input[x])
     IN  /\ context' = [context EXCEPT ![x] = IF accepted
                                              THEN Context(policy[x], input[x])
                                              ELSE NoContext]
         /\ stage' = [stage EXCEPT ![x] = IF accepted THEN "context" ELSE "refused"]
  /\ UNCHANGED <<input, policy, verdict>>

VerifyComparability ==
  /\ verdict = "none"
  /\ \A x \in Side : policy[x] # NoPolicy
  /\ verdict' = Verdict(policy[1], policy[2])
  /\ UNCHANGED <<input, policy, context, stage>>

Next ==
  \/ \E x \in Side : ConstructPolicy(x) \/ ConstructContext(x)
  \/ VerifyComparability

Spec == Init /\ [][Next]_vars

-----------------------------------------------------------------------------
(***************************************************************************)
(* Properties.                                                             *)
(***************************************************************************)
\* What a V2 input asks for, however it is written.
Meaning(in) ==
  [maxHops |-> in.maxHops, budget |-> in.budget, maxPaths |-> in.maxPaths,
   costs |-> [t \in TypeSet(in.types) |-> in.costs[t]]]

SameAnswers(p, q) ==
  \A E \in Stores, s, t \in Node :
    /\ Enumeration(E, Bounds(p, s, t)) = Enumeration(E, Bounds(q, s, t))
    /\ Saturated(E, Bounds(p, s, t)) = Saturated(E, Bounds(q, s, t))

\* Two V2 policies are comparable exactly when they were meant to be the
\* same, however their types were written; results computed under comparable
\* policies are then the same paths, order and saturation of every store.
\* Comparable legacy policies differ by less than the precision of a
\* fingerprint, in a table; other pairs are never comparable.
ComparableMeansSameAnalysis ==
  verdict # "none" =>
    LET p == policy[1]
        q == policy[2]
    IN  CASE {p.kind, q.kind} = {"v2"} ->
               /\ verdict = "comparable" <=> Meaning(input[1]) = Meaning(input[2])
               /\ verdict = "comparable" => SameAnswers(p, q)
          [] {p.kind, q.kind} = {"v1"} ->
               verdict = "comparable" =>
                 /\ p = [q EXCEPT !.weight = p.weight]
                 /\ p.weight - q.weight \in -9..9
          [] OTHER -> verdict # "comparable"

\* Two contexts have the same provenance exactly when they mean the same
\* policy, the same instant and the same scope definition.  The source, the
\* target and the canonical state of an analysis are not part of it.
ProvenanceIdentifiesAnalysis ==
  (\A x \in Side : context[x] # NoContext) =>
    (Provenance(context[1]) = Provenance(context[2]) <=>
       /\ Meaning(input[1]) = Meaning(input[2])
       /\ input[1].time.local - input[1].time.offset =
            input[2].time.local - input[2].time.offset
       /\ input[1].scope = input[2].scope)
=============================================================================
