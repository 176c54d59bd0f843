--------------------------- MODULE TraversalEngine ---------------------------
(***************************************************************************)
(* TraversalEngine.find_paths (app/graph/pathfinder.py): the bounded       *)
(* depth-first search with an explicit stack.  One behavior is one call:   *)
(* the store and the arguments are chosen initially and one step is one    *)
(* iteration of the while loop (or one of the exits around it).            *)
(***************************************************************************)
EXTENDS PathSemantics

CONSTANTS
  Stores,    \* the graphs the engine is called on
  Queries    \* the arguments it is called with

ASSUME CallsAreWellTyped ==
  /\ Stores \subseteq SUBSET Edge
  /\ \A E \in Stores : IsFiniteSet(E)
  /\ \A q \in Queries : IsQuery(q)

VARIABLES
  store,        \* self.store
  query,        \* the arguments of the call
  status,       \* where the call is, or how it ended
  stack,        \* the frames still to be popped, top last
  discovered,   \* discovered_paths
  isSaturated   \* PathfindingResult.is_saturated of a returned call

vars == <<store, query, status, stack, discovered, isSaturated>>

Status == {"called", "searching", "returned", "bounds_error", "cost_error"}

Ended == status \in {"returned", "bounds_error", "cost_error"}

\* The tuple the code pushes; node_path and edge_path are one sequence.
Frame == [node : Node, edges : Seq(Edge), visited : SUBSET Node, cost : Int]

\* PathfindingResult.termination_reason.
TerminationReason == IF isSaturated THEN "MAX_PATHS_REACHED" ELSE "EXHAUSTED"

-----------------------------------------------------------------------------
Init ==
  /\ store \in Stores
  /\ query \in Queries
  /\ status = "called"
  /\ stack = <<>>
  /\ discovered = <<>>
  /\ isSaturated = FALSE

BoundsInvalid(q) == MaxHops(q) < 0 \/ q.maxPaths < 1

RaiseBoundsError ==
  /\ status = "called"
  /\ BoundsInvalid(query)
  /\ status' = "bounds_error"
  /\ UNCHANGED <<store, query, stack, discovered, isSaturated>>

ReturnZeroHop ==
  /\ status = "called"
  /\ ~BoundsInvalid(query)
  /\ query.source = query.target
  /\ discovered' = <<(<<>>)>>
  /\ isSaturated' = FALSE
  /\ status' = "returned"
  /\ UNCHANGED <<store, query, stack>>

\* Mutant: the edge path starts with a dummy edge into the source.
RootFrameWithSourceEdge(q) ==
  [node |-> q.source, visited |-> {q.source}, cost |-> 0,
   edges |-> <<[id |-> 0, source |-> q.source, target |-> q.source, type |-> 0]>>]

RootFrame(q) ==
  [node |-> q.source, edges |-> <<>>, visited |-> {q.source}, cost |-> 0]

StartSearch ==
  /\ status = "called"
  /\ ~BoundsInvalid(query)
  /\ query.source # query.target
  /\ stack' = <<RootFrame(query)>>
  /\ status' = "searching"
  /\ UNCHANGED <<store, query, discovered, isSaturated>>

-----------------------------------------------------------------------------
(***************************************************************************)
(* The loop body.  Each iteration pops the top frame.                      *)
(***************************************************************************)
Looping ==
  /\ status = "searching"
  /\ stack # <<>>
  /\ Len(discovered) < query.maxPaths

Top == stack[Len(stack)]
Rest == SubSeq(stack, 1, Len(stack) - 1)

AtTarget(f) == f.node = query.target /\ f.edges # <<>>

\* Mutant: a frame over the budget is skipped before it is popped.
PruneOverBudgetUnpopped ==
  /\ Looping
  /\ ~WithinBudget(query, Top.cost)
  /\ UNCHANGED vars

PruneOverBudget ==
  /\ Looping
  /\ ~WithinBudget(query, Top.cost)
  /\ stack' = Rest
  /\ UNCHANGED <<store, query, status, discovered, isSaturated>>

RecordPath ==
  /\ Looping
  /\ WithinBudget(query, Top.cost)
  /\ AtTarget(Top)
  /\ discovered' = Append(discovered, Top.edges)
  /\ stack' = Rest
  /\ UNCHANGED <<store, query, status, isSaturated>>

PruneAtMaxHops ==
  /\ Looping
  /\ WithinBudget(query, Top.cost)
  /\ ~AtTarget(Top)
  /\ Len(Top.edges) >= MaxHops(query)
  /\ stack' = Rest
  /\ UNCHANGED <<store, query, status, discovered, isSaturated>>

\* Mutant: the type filter is forgotten.
SuccessorsOfAnyType(f) ==
  {e \in store : e.source = f.node /\ e.target \notin f.visited}

\* get_outgoing_edges, the type filter and the path-local visited check.
Successors(f) ==
  {e \in store : /\ e.source = f.node
                 /\ e.type \in query.types
                 /\ e.target \notin f.visited}

\* Sorted in reverse: the least edge is pushed last and popped first.
PushOrders(S) ==
  {s \in [1..Cardinality(S) -> S] :
     /\ \A e \in S : \E i \in 1..Cardinality(S) : s[i] = e
     /\ \A i, j \in 1..Cardinality(S) : i < j => EdgeBefore(s[j], s[i])}

Child(f, e) ==
  [node    |-> e.target,
   edges   |-> Append(f.edges, e),
   visited |-> f.visited \cup {e.target},
   cost    |-> f.cost + EdgeCost(query, e.type)]

Expanding ==
  /\ Looping
  /\ WithinBudget(query, Top.cost)
  /\ ~AtTarget(Top)
  /\ Len(Top.edges) < MaxHops(query)

Expand ==
  /\ Expanding
  /\ \A e \in Successors(Top) : EdgeCost(query, e.type) >= 0
  /\ \E s \in PushOrders(Successors(Top)) :
       stack' = Rest \o [i \in 1..Len(s) |-> Child(Top, s[i])]
  /\ UNCHANGED <<store, query, status, discovered, isSaturated>>

\* The exception leaves the call whatever had already been pushed or found.
RaiseCostError ==
  /\ Expanding
  /\ \E e \in Successors(Top) : EdgeCost(query, e.type) < 0
  /\ status' = "cost_error"
  /\ UNCHANGED <<store, query, stack, discovered, isSaturated>>

\* Mutant: saturated only beyond max_paths.
ReturnSaturatedBeyond ==
  /\ status = "searching"
  /\ stack = <<>> \/ Len(discovered) >= query.maxPaths
  /\ isSaturated' = (Len(discovered) > query.maxPaths)
  /\ status' = "returned"
  /\ UNCHANGED <<store, query, stack, discovered>>

\* Mutant: saturated when frames are left.
ReturnSaturatedByStack ==
  /\ status = "searching"
  /\ stack = <<>> \/ Len(discovered) >= query.maxPaths
  /\ isSaturated' = (stack # <<>>)
  /\ status' = "returned"
  /\ UNCHANGED <<store, query, stack, discovered>>

Return ==
  /\ status = "searching"
  /\ stack = <<>> \/ Len(discovered) >= query.maxPaths
  /\ isSaturated' = (Len(discovered) >= query.maxPaths)
  /\ status' = "returned"
  /\ UNCHANGED <<store, query, stack, discovered>>

-----------------------------------------------------------------------------
Next ==
  \/ RaiseBoundsError
  \/ ReturnZeroHop
  \/ StartSearch
  \/ PruneOverBudget
  \/ RecordPath
  \/ PruneAtMaxHops
  \/ Expand
  \/ RaiseCostError
  \/ Return

Spec == Init /\ [][Next]_vars

\* The call runs on one thread that nothing blocks: while it has a step to
\* take it takes one.
FairSpec == Spec /\ WF_vars(Next)

-----------------------------------------------------------------------------
(***************************************************************************)
(* Properties.                                                             *)
(***************************************************************************)

\* Every variable has its type, and only an ended call is reported saturated.
TypeOK ==
  /\ store \in Stores
  /\ query \in Queries
  /\ status \in Status
  /\ stack \in Seq(Frame)
  /\ discovered \in Seq(Seq(store))
  /\ isSaturated \in BOOLEAN
  /\ isSaturated => status = "returned"

\* The four parts of a frame, copied and extended separately by the loop,
\* agree: it stands at the end of its edges, has visited their nodes and
\* has accumulated their cost, and the search was allowed to get there.
FrameConsistent(f) ==
  /\ Reachable(store, query, f.edges)
  /\ f.node = LastNode(query, f.edges)
  /\ f.visited = NodesOf(query, f.edges)
  /\ f.cost = PathCost(query, f.edges)

FramesConsistent == \A k \in 1..Len(stack) : FrameConsistent(stack[k])

\* Every path reported is a simple, permitted path from source to target
\* within max_hops and the traversal budget.
Sound ==
  \A i \in 1..Len(discovered) : IsAttackPath(store, query, discovered[i])

\* While the search runs, a valid path not yet discovered still has the
\* frame of one of its prefixes on the stack: no prune, budget check or
\* visited filter drops it.
Pending(p) ==
  \E k \in 1..Len(stack) :
    /\ Len(stack[k].edges) <= Len(p)
    /\ stack[k].edges = Prefix(p, Len(stack[k].edges))

Found(p) == \E i \in 1..Len(discovered) : discovered[i] = p

NoPathLost ==
  status = "searching" =>
    \A p \in AttackPaths(store, query) : Found(p) \/ Pending(p)

\* A result that says EXHAUSTED holds every valid path; that is what makes a
\* candidate's risk reduction a fact instead of a sample.
ExhaustedMeansAll ==
  status = "returned" /\ TerminationReason = "EXHAUSTED" =>
    \A p \in AttackPaths(store, query) : Found(p)

\* find_paths implements its promise step by step: a path is only appended
\* when it is the least one missing, and prunes and expansions do not show.
Outcome ==
  CASE status = "returned"   -> IF isSaturated THEN "max_paths" ELSE "exhausted"
    [] status = "bounds_error" \/ status = "cost_error" -> "error"
    [] OTHER                 -> "pending"

Promise == INSTANCE PathEnumeration WITH found <- discovered, outcome <- Outcome

ImplementsPromise == Promise!Spec

\* Every call ends, on a cyclic store too.
Termination == <>Ended
=============================================================================
