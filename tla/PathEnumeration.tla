--------------------------- MODULE PathEnumeration ---------------------------
(***************************************************************************)
(* What a path query promises its caller, as a state machine: valid paths  *)
(* appear one at a time in their order, each once, until max_paths are     *)
(* found or none is left; or the call fails.                               *)
(***************************************************************************)
EXTENDS PathSemantics

VARIABLES
  store,    \* the edges the query runs over
  query,    \* the arguments of the call
  found,    \* the paths found so far
  outcome   \* "pending", "exhausted", "max_paths" or "error"

vars == <<store, query, found, outcome>>

Unfound == AttackPaths(store, query) \ {found[i] : i \in 1..Len(found)}

Init ==
  /\ store \subseteq Edge
  /\ IsQuery(query)
  /\ found = <<>>
  /\ outcome = "pending"

Find ==
  /\ outcome = "pending"
  /\ Len(found) < query.maxPaths
  /\ \E p \in Unfound :
       /\ \A r \in Unfound \ {p} : PathBefore(p, r)
       /\ found' = Append(found, p)
  /\ UNCHANGED <<store, query, outcome>>

\* A call whose source is its target finds its zero-hop path and returns
\* in one step; it never reports max_paths.
ReturnZeroHop ==
  /\ outcome = "pending"
  /\ query.source = query.target
  /\ found' = <<(<<>>)>>
  /\ outcome' = "exhausted"
  /\ UNCHANGED <<store, query>>

ReturnExhausted ==
  /\ outcome = "pending"
  /\ Unfound = {}
  /\ Len(found) < query.maxPaths
  /\ outcome' = "exhausted"
  /\ UNCHANGED <<store, query, found>>

ReturnMaxPaths ==
  /\ outcome = "pending"
  /\ Len(found) = query.maxPaths
  /\ outcome' = "max_paths"
  /\ UNCHANGED <<store, query, found>>

\* A query fails only for a bound out of range or a negative edge cost.
CanFail ==
  \/ MaxHops(query) < 0
  \/ query.maxPaths < 1
  \/ \E e \in store : EdgeCost(query, e.type) < 0

Fail ==
  /\ outcome = "pending"
  /\ CanFail
  /\ outcome' = "error"
  /\ UNCHANGED <<store, query, found>>

Next == Find \/ ReturnZeroHop \/ ReturnExhausted \/ ReturnMaxPaths \/ Fail

Spec == Init /\ [][Next]_vars
=============================================================================
