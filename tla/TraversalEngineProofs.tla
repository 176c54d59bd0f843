------------------------ MODULE TraversalEngineProofs ------------------------
(***************************************************************************)
(* Proofs about find_paths for every store, every query and every bound:   *)
(* the result is sound, complete whenever it is reported EXHAUSTED, found  *)
(* in order as PathEnumeration promises, and so what Enumeration says.     *)
(***************************************************************************)
EXTENDS TraversalEngine, PathTheorems

\* What the phases of a call guarantee about its variables.
Phases ==
  /\ status = "called" => stack = <<>> /\ discovered = <<>>
  /\ status = "searching" => /\ ~BoundsInvalid(query)
                             /\ query.source # query.target

\* The inductive invariant: Sound needs the frames to be consistent, and
\* ExhaustedMeansAll needs that no path is lost while the search runs.
IInv ==
  /\ TypeOK
  /\ Phases
  /\ FramesConsistent
  /\ Sound
  /\ NoPathLost
  /\ ExhaustedMeansAll

-----------------------------------------------------------------------------
\* stack.pop() takes the last frame and leaves the others where they are.
LEMMA PopProperties ==
  ASSUME NEW S, NEW s \in Seq(S), s # <<>>
  PROVE  /\ Len(s) \in Nat \ {0}
         /\ s[Len(s)] \in S
         /\ SubSeq(s, 1, Len(s) - 1) \in Seq(S)
         /\ Len(SubSeq(s, 1, Len(s) - 1)) = Len(s) - 1
         /\ \A k \in 1..Len(s) - 1 : SubSeq(s, 1, Len(s) - 1)[k] = s[k]
<1>1. Len(s) \in Nat \ {0}
  BY EmptySeq
<1>2. s[Len(s)] \in S
  BY <1>1, ElementOfSeq
<1>3. Len(s) - 1 \in 0..Len(s)
  BY <1>1
<1>4. /\ Prefix(s, Len(s) - 1) \in Seq(S)
      /\ Len(Prefix(s, Len(s) - 1)) = Len(s) - 1
      /\ \A k \in 1..Len(s) - 1 : Prefix(s, Len(s) - 1)[k] = s[k]
  BY <1>3, PrefixElements
<1> QED
  BY <1>1, <1>2, <1>4 DEF Prefix

\* Facts about the parameters of a call.
LEMMA CallFacts ==
  ASSUME TypeOK
  PROVE  /\ store \subseteq Edge
         /\ IsFiniteSet(store)
         /\ IsQuery(query)
         /\ MaxHops(query) \in Int
         /\ query.maxPaths \in Int
         /\ \A t : EdgeCost(query, t) \in Int
<1>1. /\ store \subseteq Edge /\ IsFiniteSet(store) /\ IsQuery(query)
  BY CallsAreWellTyped DEF TypeOK
<1>2. MaxHops(query) \in Int /\ query.maxPaths \in Int
  BY <1>1 DEF IsQuery, IsPolicy, MaxHops
<1> QED
  BY <1>1, <1>2, EdgeCostType

\* A consistent frame at a prefix of a valid path: it is the whole path
\* exactly when the frame stands at the target.
LEMMA FrameOnPath ==
  ASSUME NEW f, FrameConsistent(f), NEW p, IsAttackPath(store, query, p),
         query.source # query.target,
         Len(f.edges) <= Len(p), f.edges = Prefix(p, Len(f.edges))
  PROVE  /\ f.edges \in Seq(store) /\ p \in Seq(store)
         /\ Len(f.edges) \in 0..Len(p)
         /\ Len(p) \in Nat
         /\ Len(p) <= MaxHops(query)
         /\ WithinBudget(query, f.cost)
         /\ Len(f.edges) < Len(p) => ~AtTarget(f)
         /\ Len(f.edges) = Len(p) => AtTarget(f) /\ f.edges = p
<1> DEFINE n == Len(f.edges)
<1>1. /\ f.edges \in Seq(store) /\ p \in Seq(store)
      /\ Len(p) \in Nat /\ n \in 0..Len(p) /\ Len(p) <= MaxHops(query)
  BY LenProperties DEF FrameConsistent, IsAttackPath, Reachable
<1>2. f.node = LastNode(query, f.edges) /\ f.cost = PathCost(query, f.edges)
  BY DEF FrameConsistent
<1>3. CASE n < Len(p)
  <2>1. n \in 0..Len(p) - 1
    BY <1>1, <1>3
  <2>2. /\ WithinBudget(query, PathCost(query, f.edges))
        /\ LastNode(query, f.edges) # query.target
    BY <2>1, AttackPathStep
  <2> QED
    BY <1>1, <1>2, <1>3, <2>2 DEF AtTarget
<1>4. CASE n = Len(p)
  <2>1. f.edges = p
    BY <1>1, <1>4, SubSeqFull DEF Prefix
  <2>2. p # <<>>
    <3>1. LastNode(query, <<>>) = query.source
      BY EmptySeq DEF LastNode, NodeAt
    <3> QED
      BY <3>1 DEF IsAttackPath
  <2> QED
    BY <1>1, <1>2, <1>4, <2>1, <2>2 DEF AtTarget, IsAttackPath
<1> QED
  BY <1>1, <1>3, <1>4

-----------------------------------------------------------------------------
(***************************************************************************)
(* Popping and pushing keep the frames consistent and lose no path.        *)
(***************************************************************************)

\* The stack below the top frame.
LEMMA RestFrames ==
  ASSUME TypeOK, stack # <<>>
  PROVE  /\ Len(stack) \in Nat \ {0}
         /\ Top \in Frame
         /\ Rest \in Seq(Frame)
         /\ Len(Rest) = Len(stack) - 1
         /\ \A k \in 1..Len(Rest) : Rest[k] = stack[k]
<1>1. stack \in Seq(Frame)
  BY DEF TypeOK
<1> QED
  BY <1>1, PopProperties DEF Top, Rest

\* Dropping the top frame loses no path, unless the frame is on the way to one.
LEMMA PopKeepsPending ==
  ASSUME TypeOK, stack # <<>>, NEW p, Pending(p),
         ~(/\ Len(Top.edges) <= Len(p)
           /\ Top.edges = Prefix(p, Len(Top.edges)))
  PROVE  \E k \in 1..Len(Rest) :
           /\ Len(Rest[k].edges) <= Len(p)
           /\ Rest[k].edges = Prefix(p, Len(Rest[k].edges))
<1>1. PICK k \in 1..Len(stack) : /\ Len(stack[k].edges) <= Len(p)
                                 /\ stack[k].edges = Prefix(p, Len(stack[k].edges))
  BY DEF Pending
<1>2. k # Len(stack)
  BY <1>1 DEF Top
<1>3. k \in 1..Len(Rest) /\ Rest[k] = stack[k]
  BY <1>2, RestFrames
<1> QED
  BY <1>1, <1>3

\* Every frame pushed by Expand is consistent.
LEMMA ChildConsistent ==
  ASSUME TypeOK, NEW f \in Frame, FrameConsistent(f), ~BoundsInvalid(query),
         query.source # query.target,
         WithinBudget(query, f.cost), ~AtTarget(f), Len(f.edges) < MaxHops(query),
         NEW e \in Successors(f)
  PROVE  Child(f, e) \in Frame /\ FrameConsistent(Child(f, e))
<1>1. /\ Reachable(store, query, f.edges) /\ f.edges \in Seq(store)
      /\ f.node = LastNode(query, f.edges)
      /\ f.visited = NodesOf(query, f.edges)
      /\ f.cost = PathCost(query, f.edges)
  BY DEF FrameConsistent, Reachable
<1>2. /\ e \in store /\ e.source = f.node
      /\ e.type \in query.types /\ e.target \notin f.visited
  BY DEF Successors
<1>3. LastNode(query, f.edges) # query.target
  <2>1. CASE f.edges # <<>>
    BY <2>1, <1>1 DEF AtTarget
  <2>2. CASE f.edges = <<>>
    BY <2>2, EmptySeq DEF LastNode, NodeAt
  <2> QED
    BY <2>1, <2>2
<1>4. Reachable(store, query, Append(f.edges, e))
  BY <1>1, <1>2, <1>3, CallFacts, ReachableChild
<1>5. /\ LastNode(query, Append(f.edges, e)) = e.target
      /\ NodesOf(query, Append(f.edges, e)) = NodesOf(query, f.edges) \cup {e.target}
      /\ PathCost(query, Append(f.edges, e))
           = PathCost(query, f.edges) + EdgeCost(query, e.type)
  BY <1>1, <1>2, AppendNodes, PathCostAppend
<1>6. FrameConsistent(Child(f, e))
  BY <1>1, <1>4, <1>5 DEF FrameConsistent, Child
<1>7. Child(f, e) \in Frame
  <2>1. e \in Edge /\ e.target \in Node
    BY <1>2, CallFacts DEF Edge
  <2>2. Append(f.edges, e) \in Seq(Edge)
    BY <2>1, AppendProperties DEF Frame
  <2>3. f.cost + EdgeCost(query, e.type) \in Int
    BY CallFacts DEF Frame
  <2> QED
    BY <2>1, <2>2, <2>3 DEF Child, Frame
<1> QED
  BY <1>6, <1>7

\* The stack after Expand has pushed the children along s.
NextStack(s) == Rest \o [i \in 1..Len(s) |-> Child(Top, s[i])]

\* The stack after Expand, position by position.
LEMMA ExpandPositions ==
  ASSUME TypeOK, stack # <<>>,
         NEW s \in PushOrders(Successors(Top)),
         \A e \in Successors(Top) : Child(Top, e) \in Frame,
         NEW t, t = NextStack(s)
  PROVE  /\ t \in Seq(Frame)
         /\ \A k \in 1..Len(Rest) : k \in 1..Len(t) /\ t[k] = stack[k]
         /\ \A k \in 1..Len(t) : \/ k \in 1..Len(Rest) /\ t[k] = stack[k]
                                 \/ \E e \in Successors(Top) : t[k] = Child(Top, e)
         /\ \A e \in Successors(Top) : \E k \in 1..Len(t) : t[k] = Child(Top, e)
         /\ \A k \in 1..Len(t) : k \notin 1..Len(Rest) =>
              /\ k - Len(Rest) \in 1..Len(s)
              /\ t[k] = Child(Top, s[k - Len(Rest)])
<1> DEFINE S == Successors(Top)
           c == [i \in 1..Len(s) |-> Child(Top, s[i])]
<1>1. IsFiniteSet(S) /\ Cardinality(S) \in Nat
  <2>1. S \subseteq store
    BY DEF Successors
  <2> QED
    BY <2>1, CallFacts, FS_Subset, FS_CardinalityType
<1>2. /\ s \in [1..Cardinality(S) -> S]
      /\ \A e \in S : \E i \in 1..Cardinality(S) : s[i] = e
  BY DEF PushOrders
<1>3. s \in Seq(S) /\ Len(s) = Cardinality(S)
  BY <1>1, <1>2
<1>4. c \in Seq(Frame) /\ Len(c) = Len(s) /\ \A i \in 1..Len(s) : c[i] = Child(Top, s[i])
  <2>1. \A i \in 1..Len(s) : Child(Top, s[i]) \in Frame
    BY <1>2, <1>3
  <2>2. c \in [1..Len(s) -> Frame] /\ Len(s) \in Nat
    BY <2>1, <1>1, <1>3
  <2> QED
    BY <2>2
<1>5. Rest \in Seq(Frame) /\ Len(Rest) \in Nat /\ \A k \in 1..Len(Rest) : Rest[k] = stack[k]
  BY RestFrames
<1>5a. t = Rest \o c
  BY DEF NextStack
<1> HIDE DEF c, S
<1>6. /\ t \in Seq(Frame)
      /\ Len(t) = Len(Rest) + Len(s)
      /\ \A k \in 1..Len(Rest) + Len(s) :
           t[k] = IF k <= Len(Rest) THEN Rest[k] ELSE c[k - Len(Rest)]
  <2>1. c \in Seq(Frame) /\ Rest \in Seq(Frame) /\ Len(c) = Len(s)
    BY <1>4, <1>5
  <2>2. /\ Rest \o c \in Seq(Frame)
        /\ Len(Rest \o c) = Len(Rest) + Len(c)
        /\ \A k \in 1..Len(Rest) + Len(c) :
             (Rest \o c)[k] = IF k <= Len(Rest) THEN Rest[k] ELSE c[k - Len(Rest)]
    BY <2>1, ConcatProperties
  <2> QED
    BY <1>5a, <2>1, <2>2
<1>7. \A k \in 1..Len(Rest) : k \in 1..Len(t) /\ t[k] = stack[k]
  BY <1>1, <1>3, <1>5, <1>6
<1>8. ASSUME NEW k \in 1..Len(t)
      PROVE  /\ \/ k \in 1..Len(Rest) /\ t[k] = stack[k]
                \/ \E e \in S : t[k] = Child(Top, e)
             /\ k \notin 1..Len(Rest) =>
                  /\ k - Len(Rest) \in 1..Len(s)
                  /\ t[k] = Child(Top, s[k - Len(Rest)])
  <2>1. CASE k <= Len(Rest)
    <3>1. k \in 1..Len(Rest)
      BY <2>1, <1>1, <1>3, <1>5, <1>6
    <3> QED
      BY <3>1, <1>7
  <2>2. CASE k > Len(Rest)
    <3>1. k - Len(Rest) \in 1..Len(s)
      BY <2>2, <1>1, <1>3, <1>5, <1>6
    <3>2. t[k] = Child(Top, s[k - Len(Rest)])
      BY <2>2, <3>1, <1>1, <1>3, <1>4, <1>5, <1>6
    <3>3. s[k - Len(Rest)] \in S
      BY <3>1, <1>2, <1>3
    <3> QED
      BY <3>1, <3>2, <3>3
  <2> QED
    BY <2>1, <2>2, <1>1, <1>3, <1>5, <1>6
<1>9. ASSUME NEW e \in S PROVE \E k \in 1..Len(t) : t[k] = Child(Top, e)
  <2>1. PICK i \in 1..Len(s) : s[i] = e
    BY <1>2, <1>3
  <2> DEFINE k == Len(Rest) + i
  <2>2. /\ k \in 1..Len(t)
        /\ k \in 1..Len(Rest) + Len(s)
        /\ ~(k <= Len(Rest)) /\ k - Len(Rest) = i
    BY <1>1, <1>3, <1>5, <1>6
  <2> HIDE DEF k
  <2>3. t[k] = c[i]
    BY <2>2, <1>6
  <2> QED
    BY <2>1, <2>2, <2>3, <1>4
<1>10. \A k \in 1..Len(t) : \/ k \in 1..Len(Rest) /\ t[k] = stack[k]
                            \/ \E e \in S : t[k] = Child(Top, e)
  BY <1>8
<1>11. \A k \in 1..Len(t) : k \notin 1..Len(Rest) =>
         /\ k - Len(Rest) \in 1..Len(s)
         /\ t[k] = Child(Top, s[k - Len(Rest)])
  BY <1>8
<1> QED
  BY <1>6, <1>7, <1>9, <1>10, <1>11, Zenon DEF S

\* The frames on the stack after Expand.
LEMMA ExpandFrames ==
  ASSUME TypeOK, stack # <<>>,
         NEW s \in PushOrders(Successors(Top)),
         \A e \in Successors(Top) : Child(Top, e) \in Frame,
         NEW t, t = NextStack(s)
  PROVE  /\ t \in Seq(Frame)
         /\ \A k \in 1..Len(Rest) : k \in 1..Len(t) /\ t[k] = stack[k]
         /\ \A k \in 1..Len(t) : \/ k \in 1..Len(Rest) /\ t[k] = stack[k]
                                 \/ \E e \in Successors(Top) : t[k] = Child(Top, e)
         /\ \A e \in Successors(Top) : \E k \in 1..Len(t) : t[k] = Child(Top, e)
BY ExpandPositions

-----------------------------------------------------------------------------
(***************************************************************************)
(* Type correctness.                                                       *)
(***************************************************************************)
\* A call starts well typed.
LEMMA TypeInit == Init => TypeOK
BY EmptySeq DEF Init, TypeOK, Status

\* The root frame is a frame.
LEMMA RootFrameType ==
  ASSUME TypeOK
  PROVE  RootFrame(query) \in Frame
BY CallFacts, EmptySeq DEF RootFrame, Frame, IsQuery

\* No step of a call leaves the types.
LEMMA TypeStep ==
  ASSUME TypeOK, Phases, FramesConsistent, [Next]_vars
  PROVE  TypeOK'
<1> USE DEF TypeOK, Status
<1>1. CASE RaiseBoundsError
  BY <1>1 DEF RaiseBoundsError
<1>2. CASE ReturnZeroHop
  <2>1. <<>> \in Seq(store) /\ <<(<<>>)>> \in Seq(Seq(store))
    BY EmptySeq
  <2> QED
    BY <1>2, <2>1 DEF ReturnZeroHop
<1>3. CASE StartSearch
  BY <1>3, RootFrameType DEF StartSearch
<1>4. CASE PruneOverBudget
  BY <1>4, RestFrames DEF PruneOverBudget, Looping
<1>5. CASE RecordPath
  <2>1. FrameConsistent(Top)
    BY <1>5, RestFrames DEF RecordPath, Looping, FramesConsistent, Top
  <2>2. Top.edges \in Seq(store)
    BY <2>1 DEF FrameConsistent, Reachable
  <2>3. discovered' \in Seq(Seq(store))
    BY <1>5, <2>2, AppendProperties DEF RecordPath
  <2> QED
    BY <1>5, <2>3, RestFrames DEF RecordPath, Looping
<1>6. CASE PruneAtMaxHops
  BY <1>6, RestFrames DEF PruneAtMaxHops, Looping
<1>7. CASE Expand
  <2>1. FrameConsistent(Top) /\ Top \in Frame
    BY <1>7, RestFrames DEF Expand, Expanding, Looping, FramesConsistent, Top
  <2>2. \A e \in Successors(Top) : Child(Top, e) \in Frame
    BY <1>7, <2>1, ChildConsistent DEF Expand, Expanding, Looping, Phases
  <2>3. stack' \in Seq(Frame)
    BY <1>7, <2>2, ExpandFrames DEF Expand, Expanding, Looping, NextStack
  <2> QED
    BY <1>7, <2>3 DEF Expand
<1>8. CASE RaiseCostError
  BY <1>8 DEF RaiseCostError, Expanding, Looping
<1>9. CASE Return
  BY <1>9 DEF Return
<1>10. CASE UNCHANGED vars
  BY <1>10 DEF vars
<1> QED
  BY <1>1, <1>2, <1>3, <1>4, <1>5, <1>6, <1>7, <1>8, <1>9, <1>10 DEF Next

\* The stack is used, and paths are recorded, only while the search runs or
\* after it.
LEMMA PhasesStep ==
  ASSUME TypeOK, Phases, [Next]_vars
  PROVE  Phases'
BY DEF TypeOK, Phases, Next, vars, RaiseBoundsError, ReturnZeroHop, StartSearch,
       PruneOverBudget, RecordPath, PruneAtMaxHops, Expand, Expanding,
       RaiseCostError, Return, Looping, BoundsInvalid

-----------------------------------------------------------------------------
(***************************************************************************)
(* The frames stay consistent and the discovered paths stay valid.         *)
(***************************************************************************)
\* Every step keeps each frame on the stack in step with its own path.
LEMMA FramesConsistentStep ==
  ASSUME TypeOK, Phases, FramesConsistent, [Next]_vars
  PROVE  FramesConsistent'
<1> USE DEF FramesConsistent, FrameConsistent
<1>1. CASE /\ stack' = stack \/ stack' = <<>>
           /\ store' = store /\ query' = query
  BY <1>1, EmptySeq
<1>2. CASE StartSearch
  <2>1. MaxHops(query) \in Nat
    BY <1>2, CallFacts DEF StartSearch, BoundsInvalid
  <2>2. /\ Reachable(store, query, <<>>)
        /\ LastNode(query, <<>>) = query.source
        /\ NodesOf(query, <<>>) = {query.source}
    BY <2>1, ReachableRoot, EmptySeq DEF LastNode, NodesOf, NodeAt
  <2>3. FrameConsistent(RootFrame(query))
    BY <2>2, PathCostEmpty DEF RootFrame
  <2> QED
    BY <1>2, <2>3 DEF StartSearch
<1>3. CASE /\ stack # <<>> /\ stack' = Rest
           /\ store' = store /\ query' = query
  BY <1>3, RestFrames
<1>4. CASE Expand
  <2>1. FrameConsistent(Top) /\ Top \in Frame
    BY <1>4, RestFrames DEF Expand, Expanding, Looping, Top
  <2>2. \A e \in Successors(Top) : /\ Child(Top, e) \in Frame
                                   /\ FrameConsistent(Child(Top, e))
    BY <1>4, <2>1, ChildConsistent DEF Expand, Expanding, Looping, Phases
  <2>3. \A k \in 1..Len(stack') :
          \/ k \in 1..Len(Rest) /\ stack'[k] = stack[k]
          \/ \E e \in Successors(Top) : stack'[k] = Child(Top, e)
    BY <1>4, <2>2, ExpandFrames DEF Expand, Expanding, Looping, NextStack
  <2>4. \A k \in 1..Len(Rest) : k \in 1..Len(stack)
    BY <1>4, RestFrames DEF Expand, Expanding, Looping
  <2>5. \A k \in 1..Len(stack') : FrameConsistent(stack'[k])
    BY <2>2, <2>3, <2>4
  <2>6. store' = store /\ query' = query
    BY <1>4 DEF Expand
  <2> QED
    BY <2>5, <2>6
<1> QED
  BY <1>1, <1>2, <1>3, <1>4
     DEF Next, vars, RaiseBoundsError, ReturnZeroHop, PruneOverBudget, RecordPath,
         PruneAtMaxHops, RaiseCostError, Return, Looping

\* Only RecordPath and ReturnZeroHop add a path, and both add a valid one.
LEMMA SoundStep ==
  ASSUME TypeOK, Phases, FramesConsistent, Sound, [Next]_vars
  PROVE  Sound'
<1>1. CASE store' = store /\ query' = query /\ discovered' = discovered
  BY <1>1 DEF Sound
<1>2. CASE ReturnZeroHop
  <2>1. MaxHops(query) \in Nat
    BY <1>2, CallFacts DEF ReturnZeroHop, BoundsInvalid
  <2>2. IsAttackPath(store, query, <<>>)
    BY <1>2, <2>1, ReachableRoot, EmptySeq DEF IsAttackPath, LastNode, NodeAt, ReturnZeroHop
  <2> QED
    BY <1>2, <2>2 DEF Sound, ReturnZeroHop
<1>3. CASE RecordPath
  <2>1. FrameConsistent(Top)
    BY <1>3, RestFrames DEF RecordPath, Looping, FramesConsistent, Top
  <2>2. IsAttackPath(store, query, Top.edges)
    BY <1>3, <2>1 DEF RecordPath, FrameConsistent, IsAttackPath, AtTarget
  <2>3. Top.edges \in Seq(store) /\ discovered \in Seq(Seq(store))
    BY <2>1 DEF FrameConsistent, Reachable, TypeOK
  <2>4. /\ discovered' = Append(discovered, Top.edges)
        /\ Len(discovered) \in Nat
        /\ Len(discovered') = Len(discovered) + 1
        /\ \A i \in 1..Len(discovered) : discovered'[i] = discovered[i]
        /\ discovered'[Len(discovered) + 1] = Top.edges
    BY <1>3, <2>3, AppendProperties, LenProperties DEF RecordPath
  <2>5. \A i \in 1..Len(discovered') : IsAttackPath(store, query, discovered'[i])
    BY <2>2, <2>4 DEF Sound
  <2> QED
    BY <1>3, <2>5 DEF Sound, RecordPath
<1> QED
  BY <1>1, <1>2, <1>3
     DEF Next, vars, RaiseBoundsError, StartSearch, PruneOverBudget, PruneAtMaxHops,
         Expand, RaiseCostError, Return

-----------------------------------------------------------------------------
(***************************************************************************)
(* No path is lost.                                                        *)
(***************************************************************************)
\* Every step keeps each valid path either discovered, or an extension of the
\* path of a frame on the stack.
LEMMA NoPathLostStep ==
  ASSUME TypeOK, Phases, FramesConsistent, NoPathLost, [Next]_vars
  PROVE  NoPathLost'
<1>1. CASE status' # "searching"
  BY <1>1 DEF NoPathLost
<1>2. CASE /\ status' = status /\ stack' = stack /\ discovered' = discovered
           /\ store' = store /\ query' = query
  BY <1>2 DEF NoPathLost, Found, Pending
<1>3. CASE StartSearch
  <2>1. SUFFICES ASSUME NEW p \in AttackPaths(store, query) PROVE Pending(p)'
    BY <1>3 DEF NoPathLost, StartSearch
  <2>2. p \in Seq(store) /\ Len(p) \in Nat
    BY CallFacts, AttackPathsMember, LenProperties DEF IsAttackPath, Reachable
  <2>3. Prefix(p, 0) = <<>>
    BY <2>2, PrefixElements, EmptySeq
  <2> QED
    BY <1>3, <2>2, <2>3, EmptySeq DEF StartSearch, RootFrame, Pending
<1>4. ASSUME Looping, NEW p, IsAttackPath(store, query, p), ~Found(p)
      PROVE  Pending(p)
  BY <1>4, CallFacts, AttackPathsMember DEF Looping, NoPathLost
<1>5. ASSUME Looping, NEW p, IsAttackPath(store, query, p),
             Len(Top.edges) <= Len(p), Top.edges = Prefix(p, Len(Top.edges))
      PROVE  /\ FrameConsistent(Top)
             /\ p \in Seq(store)
             /\ Len(Top.edges) \in 0..Len(p)
             /\ Len(p) \in Nat
             /\ Len(p) <= MaxHops(query)
             /\ WithinBudget(query, Top.cost)
             /\ Len(Top.edges) < Len(p) => ~AtTarget(Top)
             /\ Len(Top.edges) = Len(p) => AtTarget(Top) /\ Top.edges = p
  <2>1. FrameConsistent(Top)
    BY <1>5, RestFrames DEF Looping, FramesConsistent, Top
  <2> QED
    BY <1>5, <2>1, FrameOnPath DEF Looping, Phases
<1>6. CASE PruneOverBudget \/ PruneAtMaxHops
  <2>1. /\ Looping /\ stack' = Rest /\ store' = store /\ query' = query
        /\ discovered' = discovered
    BY <1>6 DEF PruneOverBudget, PruneAtMaxHops
  <2>2. ASSUME NEW p, IsAttackPath(store, query, p), ~Found(p)
        PROVE  Pending(p)'
    <3>1. ~(/\ Len(Top.edges) <= Len(p)
            /\ Top.edges = Prefix(p, Len(Top.edges)))
      <4>1. CASE PruneOverBudget
        BY <4>1, <2>1, <2>2, <1>5 DEF PruneOverBudget
      <4>2. CASE PruneAtMaxHops
        BY <4>2, <2>1, <2>2, <1>5, CallFacts DEF PruneAtMaxHops
      <4> QED
        BY <1>6, <4>1, <4>2
    <3> QED
      BY <2>1, <2>2, <3>1, <1>4, PopKeepsPending DEF Looping, Pending
  <2> QED
    BY <2>1, <2>2, CallFacts, AttackPathsMember DEF NoPathLost, Found
<1>7. CASE RecordPath
  <2>1. /\ Looping /\ stack' = Rest /\ store' = store /\ query' = query
        /\ discovered' = Append(discovered, Top.edges)
    BY <1>7 DEF RecordPath
  <2>2. /\ Len(discovered) \in Nat
        /\ Len(discovered') = Len(discovered) + 1
        /\ \A i \in 1..Len(discovered) : discovered'[i] = discovered[i]
        /\ discovered'[Len(discovered) + 1] = Top.edges
    <3>1. FrameConsistent(Top)
      BY <2>1, RestFrames DEF Looping, FramesConsistent, Top
    <3>2. Top.edges \in Seq(store) /\ discovered \in Seq(Seq(store))
      BY <3>1 DEF FrameConsistent, Reachable, TypeOK
    <3> QED
      BY <2>1, <3>2, AppendProperties, LenProperties
  <2>3. ASSUME NEW p, IsAttackPath(store, query, p), ~Found(p), p # Top.edges
        PROVE  Pending(p)'
    <3>1. ~(/\ Len(Top.edges) <= Len(p)
            /\ Top.edges = Prefix(p, Len(Top.edges)))
      BY <1>7, <2>1, <2>3, <1>5 DEF RecordPath
    <3> QED
      BY <2>1, <2>3, <3>1, <1>4, PopKeepsPending DEF Looping, Pending
  <2>4. ASSUME NEW p, Found(p) \/ p = Top.edges PROVE Found(p)'
    BY <2>2, <2>4 DEF Found
  <2> QED
    BY <2>1, <2>3, <2>4, CallFacts, AttackPathsMember DEF NoPathLost
<1>8. CASE Expand
  <2>1. /\ Looping /\ store' = store /\ query' = query
        /\ discovered' = discovered
        /\ WithinBudget(query, Top.cost) /\ ~AtTarget(Top)
        /\ Len(Top.edges) < MaxHops(query)
    BY <1>8 DEF Expand, Expanding
  <2>2. FrameConsistent(Top) /\ Top \in Frame
    BY <2>1, RestFrames DEF Looping, FramesConsistent, Top
  <2>3. \A e \in Successors(Top) : Child(Top, e) \in Frame
    BY <2>1, <2>2, ChildConsistent DEF Looping, Phases
  <2>4. /\ \A k \in 1..Len(Rest) : k \in 1..Len(stack') /\ stack'[k] = stack[k]
        /\ \A e \in Successors(Top) :
             \E k \in 1..Len(stack') : stack'[k] = Child(Top, e)
    BY <1>8, <2>1, <2>3, ExpandFrames, ZenonT(40) DEF Expand, Looping, NextStack
  <2>5. ASSUME NEW p, IsAttackPath(store, query, p), ~Found(p)
        PROVE  Pending(p)'
    <3>1. CASE /\ Len(Top.edges) <= Len(p)
               /\ Top.edges = Prefix(p, Len(Top.edges))
      <4> DEFINE n == Len(Top.edges)
                 e == p[n + 1]
      <4>1. /\ n \in 0..Len(p) - 1 /\ n + 1 \in 0..Len(p)
            /\ p \in Seq(store) /\ Len(p) \in Nat
        BY <2>1, <2>5, <3>1, <1>5
      <4>2. /\ e \in store
            /\ e.source = LastNode(query, Top.edges)
            /\ e.type \in query.types
            /\ e.target \notin NodesOf(query, Top.edges)
        BY <2>5, <3>1, <4>1, AttackPathStep
      <4>3. e \in Successors(Top)
        BY <2>2, <4>2 DEF Successors, FrameConsistent
      <4>4. PICK k \in 1..Len(stack') : stack'[k] = Child(Top, e)
        BY <2>4, <4>3
      <4>5. Child(Top, e).edges = Prefix(p, n + 1)
        BY <3>1, <4>1, PrefixSucc DEF Child
      <4>6. Len(Prefix(p, n + 1)) = n + 1
        BY <4>1, PrefixElements
      <4>7. stack'[k].edges = Prefix(p, n + 1) /\ n + 1 <= Len(p)
        BY <4>1, <4>4, <4>5
      <4> QED
        BY <4>6, <4>7 DEF Pending
    <3>2. CASE ~(/\ Len(Top.edges) <= Len(p)
                 /\ Top.edges = Prefix(p, Len(Top.edges)))
      <4>1. PICK k \in 1..Len(Rest) :
              /\ Len(Rest[k].edges) <= Len(p)
              /\ Rest[k].edges = Prefix(p, Len(Rest[k].edges))
        BY <2>1, <2>5, <3>2, <1>4, PopKeepsPending DEF Looping
      <4>2. k \in 1..Len(stack') /\ stack'[k] = Rest[k]
        BY <2>1, <2>4, RestFrames DEF Looping
      <4> QED
        BY <4>1, <4>2 DEF Pending
    <3> QED
      BY <3>1, <3>2
  <2> QED
    BY <2>1, <2>5, CallFacts, AttackPathsMember DEF NoPathLost, Found
<1> QED
  BY <1>1, <1>2, <1>3, <1>6, <1>7, <1>8
     DEF Next, vars, RaiseBoundsError, ReturnZeroHop, RaiseCostError, Return

\* An EXHAUSTED result leaves an empty stack, so every valid path was found.
LEMMA ExhaustedStep ==
  ASSUME TypeOK, Phases, NoPathLost, ExhaustedMeansAll, [Next]_vars
  PROVE  ExhaustedMeansAll'
<1>1. CASE Return
  <2>1. CASE Len(discovered) >= query.maxPaths
    BY <1>1, <2>1 DEF Return, ExhaustedMeansAll, TerminationReason
  <2>2. CASE stack = <<>>
    <3>1. \A p \in AttackPaths(store, query) : Found(p)
      BY <1>1, <2>2, EmptySeq DEF Return, NoPathLost, Pending
    <3> QED
      BY <1>1, <3>1 DEF Return, ExhaustedMeansAll, Found
  <2> QED
    BY <1>1, <2>1, <2>2 DEF Return
<1>2. CASE ReturnZeroHop
  <2>1. \A p \in AttackPaths(store, query) : p = <<>>
    BY <1>2, CallFacts, AttackPathsMember, ZeroHopOnly DEF ReturnZeroHop
  <2>2. Found(<<>>)'
    BY <1>2 DEF ReturnZeroHop, Found
  <2> QED
    BY <1>2, <2>1, <2>2 DEF ReturnZeroHop, ExhaustedMeansAll
<1>3. CASE status' # "returned"
  BY <1>3 DEF ExhaustedMeansAll
<1>4. CASE UNCHANGED vars
  BY <1>4 DEF vars, ExhaustedMeansAll, TerminationReason, Found
<1> QED
  BY <1>1, <1>2, <1>3, <1>4
     DEF Next, RaiseBoundsError, StartSearch, PruneOverBudget, RecordPath,
         PruneAtMaxHops, Expand, Expanding, Looping, RaiseCostError

-----------------------------------------------------------------------------
(***************************************************************************)
(* The order of the search.                                                *)
(***************************************************************************)
\* A frame comes before the frames below it, and what has been found before
\* every frame, so that whatever extends a frame is found in its turn.
InOrder ==
  /\ \A j, k \in 1..Len(stack) : j < k => PathBefore(stack[k].edges, stack[j].edges)
  /\ \A i \in 1..Len(discovered) : \A k \in 1..Len(stack) :
       PathBefore(discovered[i], stack[k].edges)

\* The loop ends as soon as max_paths paths have been found.
NotTooMany == status = "searching" => Len(discovered) <= query.maxPaths

Ordering == InOrder /\ NotTooMany

\* The paths that InOrder compares are sequences of edges of the store.
LEMMA ComparedPaths ==
  ASSUME TypeOK, FramesConsistent
  PROVE  /\ Len(stack) \in Nat /\ Len(discovered) \in Nat
         /\ \A k \in 1..Len(stack) : stack[k].edges \in Seq(store)
         /\ \A i \in 1..Len(discovered) : discovered[i] \in Seq(store)
<1>1. Len(stack) \in Nat /\ Len(discovered) \in Nat
  BY LenProperties DEF TypeOK
<1>2. \A k \in 1..Len(stack) : stack[k].edges \in Seq(store)
  BY DEF FramesConsistent, FrameConsistent, Reachable
<1>3. \A i \in 1..Len(discovered) : discovered[i] \in Seq(store)
  BY ElementOfSeq DEF TypeOK
<1> QED
  BY <1>1, <1>2, <1>3

\* A child of the top frame is where the top frame was.
LEMMA ChildInOrder ==
  ASSUME TypeOK, FramesConsistent, stack # <<>>, NEW e \in store, NEW p \in Seq(store)
  PROVE  /\ Child(Top, e).edges = Append(Top.edges, e)
         /\ Append(Top.edges, e) \in Seq(store)
         /\ PathBefore(Top.edges, p) => PathBefore(Append(Top.edges, e), p)
         /\ PathBefore(p, Top.edges) => PathBefore(p, Append(Top.edges, e))
<1> DEFINE t == Top.edges
           c == Append(t, e)
<1>1. Child(Top, e).edges = c
  BY DEF Child
<1>2. t \in Seq(store)
  BY RestFrames, ComparedPaths DEF Top
<1> HIDE DEF t
<1>3. c \in Seq(store) /\ Len(t) <= Len(c) /\ t = Prefix(c, Len(t))
  BY <1>2, AppendProperties, AppendPrefixes, LenProperties
<1>4. Len(p) <= Len(p) /\ p = Prefix(p, Len(p))
  BY SubSeqFull, LenProperties DEF Prefix
<1> HIDE DEF c
<1>5. PathBefore(t, p) => PathBefore(c, p)
  BY <1>2, <1>3, <1>4, BeforeWhateverExtends
<1>6. PathBefore(p, t) => PathBefore(p, c)
  BY <1>2, <1>3, <1>4, BeforeWhateverExtends
<1> QED
  BY <1>1, <1>3, <1>5, <1>6 DEF t, c

\* Of the frames that Expand pushes, a later one leads to earlier paths.
LEMMA ExpandInOrder ==
  ASSUME TypeOK, Phases, FramesConsistent, InOrder, Expand
  PROVE  InOrder'
<1>1. /\ Looping /\ stack # <<>> /\ store' = store /\ discovered' = discovered
      /\ WithinBudget(query, Top.cost) /\ ~AtTarget(Top)
      /\ Len(Top.edges) < MaxHops(query)
  BY DEF Expand, Expanding, Looping
<1>2. FrameConsistent(Top) /\ Top \in Frame
  BY <1>1, RestFrames DEF FramesConsistent, Top
<1>3. \A e \in Successors(Top) : Child(Top, e) \in Frame
  BY <1>1, <1>2, ChildConsistent DEF Looping, Phases
<1>4. PICK s \in PushOrders(Successors(Top)) : stack' = NextStack(s)
  BY DEF Expand, NextStack
<1> DEFINE S == Successors(Top)
           n == Len(Rest)
           t == stack'
<1>5. /\ \A k \in 1..Len(t) : \/ k \in 1..n /\ t[k] = stack[k]
                              \/ \E e \in S : t[k] = Child(Top, e)
      /\ \A k \in 1..Len(t) : k \notin 1..n =>
           /\ k - n \in 1..Len(s)
           /\ t[k] = Child(Top, s[k - n])
      /\ Len(t) \in Nat
  <2>1. t \in Seq(Frame)
    BY <1>1, <1>3, <1>4, ExpandPositions
  <2> QED
    BY <1>1, <1>3, <1>4, <2>1, ExpandPositions, LenProperties
<1>6. /\ s \in [1..Len(s) -> S] /\ Len(s) \in Nat
      /\ \A i, j \in 1..Len(s) : i < j => EdgeBefore(s[j], s[i])
  <2>1. IsFiniteSet(S) /\ Cardinality(S) \in Nat
    <3>1. S \subseteq store
      BY DEF Successors
    <3> QED
      BY <3>1, CallFacts, FS_Subset, FS_CardinalityType
  <2>2. /\ s \in [1..Cardinality(S) -> S]
        /\ \A i, j \in 1..Cardinality(S) : i < j => EdgeBefore(s[j], s[i])
    BY DEF PushOrders
  <2>3. Len(s) = Cardinality(S)
    BY <2>1, <2>2
  <2> QED
    BY <2>1, <2>2, <2>3
<1>7. /\ n \in Nat /\ n + 1 = Len(stack) /\ Top = stack[n + 1]
      /\ \A k \in 1..n : k \in 1..Len(stack) /\ n + 1 \in 1..Len(stack) /\ k < n + 1
      /\ n + 1 \in 1..Len(stack)
  BY <1>1, RestFrames DEF Top
<1>8. /\ S \subseteq store
      /\ \A k \in 1..Len(stack) : stack[k].edges \in Seq(store)
      /\ \A i \in 1..Len(discovered) : discovered[i] \in Seq(store)
  BY ComparedPaths DEF Successors
<1>9. \A e \in store : \A p \in Seq(store) :
        /\ Child(Top, e).edges = Append(Top.edges, e)
        /\ PathBefore(Top.edges, p) => PathBefore(Append(Top.edges, e), p)
        /\ PathBefore(p, Top.edges) => PathBefore(p, Append(Top.edges, e))
  BY <1>1, ChildInOrder
<1>10. Top.edges \in Seq(store)
  BY <1>7, <1>8
<1> HIDE DEF S, n, t
<1>11. ASSUME NEW j \in 1..Len(t), NEW k \in 1..Len(t), j < k
       PROVE  PathBefore(t[k].edges, t[j].edges)
  <2>1. CASE k \in 1..n
    <3>1. j \in 1..n /\ t[j] = stack[j] /\ t[k] = stack[k]
      <4>1. j \in 1..n
        BY <1>5, <1>7, <1>11, <2>1
      <4> QED
        BY <1>4, <1>1, <1>3, <2>1, <4>1, ExpandPositions DEF n, t
    <3> QED
      BY <1>7, <1>11, <2>1, <3>1 DEF InOrder
  <2>2. CASE k \notin 1..n /\ j \in 1..n
    <3>1. PICK e \in S : t[k] = Child(Top, e)
      BY <1>5, <2>2
    <3>2. t[j] = stack[j]
      BY <1>1, <1>3, <1>4, <2>2, ExpandPositions DEF n, t
    <3>3. PathBefore(Top.edges, stack[j].edges)
      BY <1>7, <2>2 DEF InOrder
    <3>4. e \in store /\ stack[j].edges \in Seq(store)
      BY <1>7, <1>8, <2>2, <3>1
    <3> QED
      BY <1>9, <3>1, <3>2, <3>3, <3>4
  <2>3. CASE k \notin 1..n /\ j \notin 1..n
    <3>1. /\ k - n \in 1..Len(s) /\ t[k] = Child(Top, s[k - n])
          /\ j - n \in 1..Len(s) /\ t[j] = Child(Top, s[j - n])
      BY <1>5, <2>3
    <3>2. j - n < k - n
      BY <1>5, <1>7, <1>11
    <3> DEFINE e == s[k - n]
               f == s[j - n]
    <3>3. EdgeBefore(e, f) /\ e \in S /\ f \in S
      BY <1>6, <3>1, <3>2
    <3>4. t[k].edges = Append(Top.edges, e) /\ t[j].edges = Append(Top.edges, f)
      BY <1>8, <1>9, <1>10, <3>1, <3>3
    <3> HIDE DEF e, f
    <3>5. PathBefore(Append(Top.edges, e), Append(Top.edges, f))
      BY <1>8, <1>10, <3>3, BeforeSibling
    <3> QED
      BY <3>4, <3>5
  <2> QED
    BY <2>1, <2>2, <2>3
<1>12. ASSUME NEW i \in 1..Len(discovered), NEW k \in 1..Len(t)
       PROVE  PathBefore(discovered[i], t[k].edges)
  <2>1. CASE k \in 1..n /\ t[k] = stack[k]
    BY <1>7, <2>1 DEF InOrder
  <2>2. CASE \E e \in S : t[k] = Child(Top, e)
    <3>1. PICK e \in S : t[k] = Child(Top, e)
      BY <2>2
    <3>2. PathBefore(discovered[i], Top.edges)
      BY <1>7 DEF InOrder
    <3> QED
      BY <1>8, <1>9, <3>1, <3>2
  <2> QED
    BY <1>5, <2>1, <2>2
<1> QED
  BY <1>1, <1>11, <1>12 DEF InOrder, t

\* The search takes its frames in order and stops at max_paths.
LEMMA OrderingStep ==
  ASSUME TypeOK, Phases, FramesConsistent, Ordering, [Next]_vars
  PROVE  Ordering'
<1> USE DEF Ordering
<1>1. CASE /\ stack' = stack /\ discovered' = discovered /\ query' = query
           /\ status' = "searching" => status = "searching"
  BY <1>1 DEF InOrder, NotTooMany
<1>2. CASE ReturnZeroHop
  BY <1>2, EmptySeq DEF ReturnZeroHop, Phases, InOrder, NotTooMany
<1>3. CASE StartSearch
  <2>1. Len(stack') = 1 /\ Len(discovered') = 0
    BY <1>3, EmptySeq DEF StartSearch, Phases
  <2>2. query' = query /\ query.maxPaths >= 1
    BY <1>3, CallFacts DEF StartSearch, BoundsInvalid
  <2>3. NotTooMany'
    BY <2>1, <2>2, CallFacts DEF NotTooMany
  <2> QED
    BY <2>1, <2>3 DEF InOrder
<1>4. ASSUME Looping
      PROVE  /\ Len(Rest) \in Nat /\ Len(Rest) + 1 = Len(stack) /\ Top = stack[Len(Rest) + 1]
             /\ \A k \in 1..Len(Rest) :
                  /\ k \in 1..Len(stack) /\ Rest[k] = stack[k]
                  /\ PathBefore(Top.edges, stack[k].edges)
  <2>1. /\ Len(Rest) \in Nat /\ Len(Rest) + 1 = Len(stack) /\ Top = stack[Len(Rest) + 1]
        /\ \A k \in 1..Len(Rest) : Rest[k] = stack[k]
    BY <1>4, RestFrames DEF Looping, Top
  <2>2. \A k \in 1..Len(Rest) : k \in 1..Len(stack) /\ Len(Rest) + 1 \in 1..Len(stack)
                                /\ k < Len(Rest) + 1
    BY <2>1
  <2> QED
    BY <2>1, <2>2 DEF InOrder
<1>5. CASE PruneOverBudget \/ PruneAtMaxHops
  <2>1. /\ Looping /\ stack' = Rest /\ discovered' = discovered /\ query' = query
        /\ status' = status
    BY <1>5 DEF PruneOverBudget, PruneAtMaxHops
  <2>2. InOrder'
    BY <1>4, <2>1 DEF InOrder
  <2> QED
    BY <2>1, <2>2 DEF NotTooMany
<1>6. CASE RecordPath
  <2>1. /\ Looping /\ stack' = Rest /\ discovered' = Append(discovered, Top.edges)
        /\ query' = query
    BY <1>6 DEF RecordPath
  <2>2. /\ Len(discovered) \in Nat
        /\ Len(discovered') = Len(discovered) + 1
        /\ \A i \in 1..Len(discovered) : discovered'[i] = discovered[i]
        /\ discovered'[Len(discovered) + 1] = Top.edges
    <3>1. Top.edges \in Seq(store) /\ discovered \in Seq(Seq(store))
      BY <2>1, RestFrames, ComparedPaths DEF Looping, Top, TypeOK
    <3> QED
      BY <2>1, <3>1, AppendProperties, LenProperties
  <2>3. NotTooMany'
    BY <2>1, <2>2, CallFacts DEF Looping, NotTooMany
  <2>4. \A j, k \in 1..Len(stack') : j < k => PathBefore(stack'[k].edges, stack'[j].edges)
    BY <1>4, <2>1 DEF InOrder
  <2>5. \A i \in 1..Len(discovered') : \/ i \in 1..Len(discovered)
                                       \/ discovered'[i] = Top.edges
    BY <2>2
  <2>6. \A i \in 1..Len(discovered') : \A k \in 1..Len(stack') :
          PathBefore(discovered'[i], stack'[k].edges)
    BY <1>4, <2>1, <2>2, <2>5 DEF InOrder
  <2> QED
    BY <2>3, <2>4, <2>6 DEF InOrder
<1>7. CASE Expand
  <2>1. NotTooMany'
    BY <1>7 DEF Expand, NotTooMany
  <2> QED
    BY <1>7, <2>1, ExpandInOrder
<1> QED
  BY <1>1, <1>2, <1>3, <1>5, <1>6, <1>7
     DEF Next, vars, RaiseBoundsError, RaiseCostError, Return

-----------------------------------------------------------------------------
(***************************************************************************)
(* Refinement.  The promise speaks of the same paths and the same order.   *)
(***************************************************************************)
\* PathEnumeration brings its own names for what PathSemantics defines.
LEMMA SamePaths ==
  /\ Promise!Edge = Edge
  /\ \A q : Promise!IsQuery(q) <=> IsQuery(q)
  /\ \A E, q : Promise!AttackPaths(E, q) = AttackPaths(E, q)
  /\ \A p, r : Promise!PathBefore(p, r) <=> PathBefore(p, r)
  /\ \A q : Promise!MaxHops(q) = MaxHops(q)
  /\ \A q, t : Promise!EdgeCost(q, t) = EdgeCost(q, t)
<1>1. Promise!Edge = Edge
  BY DEF Promise!Edge, Edge
<1>2. Promise!NoPolicy = NoPolicy
  BY DEF Promise!NoPolicy, NoPolicy
<1>3. \A p : Promise!IsPolicy(p) <=> IsPolicy(p)
  BY DEF Promise!IsPolicy, IsPolicy
<1>4. \A q : Promise!IsQuery(q) <=> IsQuery(q)
  BY <1>2, <1>3 DEF Promise!IsQuery, IsQuery
<1>5. \A q : Promise!MaxHops(q) = MaxHops(q)
  BY <1>2 DEF Promise!MaxHops, MaxHops
<1>6. \A q, t : Promise!EdgeCost(q, t) = EdgeCost(q, t)
  BY <1>2 DEF Promise!EdgeCost, EdgeCost
<1>7. \A q, c : Promise!WithinBudget(q, c) <=> WithinBudget(q, c)
  BY <1>2 DEF Promise!WithinBudget, WithinBudget
<1>8. \A q, p, i : Promise!NodeAt(q, p, i) = NodeAt(q, p, i)
  BY DEF Promise!NodeAt, NodeAt
<1>9. \A q, p : Promise!LastNode(q, p) = LastNode(q, p)
  BY <1>8 DEF Promise!LastNode, LastNode
<1>10. \A p, i : Promise!Prefix(p, i) = Prefix(p, i)
  BY DEF Promise!Prefix, Prefix
<1>11. \A q, p : Promise!CostAlong(q, p) = CostAlong(q, p)
  BY <1>6 DEF Promise!CostAlong, CostAlong
<1>12. \A q, p : Promise!PathCost(q, p) = PathCost(q, p)
  BY <1>11 DEF Promise!PathCost, PathCost
<1>13. \A q, p : Promise!Chained(q, p) <=> Chained(q, p)
  BY <1>8 DEF Promise!Chained, Chained
<1>14. \A q, p : Promise!Simple(q, p) <=> Simple(q, p)
  BY <1>8 DEF Promise!Simple, Simple
<1>15. \A q, p : Promise!Permitted(q, p) <=> Permitted(q, p)
  BY DEF Promise!Permitted, Permitted
<1>16. \A E, q, p : Promise!Reachable(E, q, p) <=> Reachable(E, q, p)
  BY <1>5, <1>7, <1>8, <1>10, <1>12, <1>13, <1>14, <1>15
     DEF Promise!Reachable, Reachable
<1>17. \A E, q, p : Promise!IsAttackPath(E, q, p) <=> IsAttackPath(E, q, p)
  BY <1>7, <1>9, <1>12, <1>16 DEF Promise!IsAttackPath, IsAttackPath
<1>18. \A E, q : Promise!AttackPaths(E, q) = AttackPaths(E, q)
  BY <1>5, <1>17 DEF Promise!AttackPaths, AttackPaths
<1>19. \A e, f : Promise!EdgeBefore(e, f) <=> EdgeBefore(e, f)
  BY DEF Promise!EdgeBefore, EdgeBefore
<1>20. \A p, r : Promise!PathBefore(p, r) <=> PathBefore(p, r)
  BY <1>10, <1>19 DEF Promise!PathBefore, PathBefore
<1> QED
  BY <1>1, <1>4, <1>5, <1>6, <1>18, <1>20

\* A call begins with no path found.
LEMMA InitRefines == Init => Promise!Init
<1> SUFFICES ASSUME Init
             PROVE  Promise!Init
  OBVIOUS
<1>1. store \subseteq Edge /\ IsQuery(query)
  BY CallsAreWellTyped DEF Init
<1>2. Outcome = "pending" /\ discovered = <<>>
  BY DEF Init, Outcome
<1> QED
  BY <1>1, <1>2, SamePaths DEF Promise!Init

\* The path of a frame at the target is missing, and the least one missing:
\* any other path that is missing extends a frame below.
LEMMA RecordedIsLeast ==
  ASSUME IInv, Ordering, RecordPath
  PROVE  /\ Top.edges \in AttackPaths(store, query)
         /\ \A i \in 1..Len(discovered) : discovered[i] # Top.edges
         /\ \A r \in AttackPaths(store, query) :
              ~Found(r) /\ r # Top.edges => PathBefore(Top.edges, r)
<1> DEFINE p == Top.edges
<1>1. /\ Looping /\ stack # <<>> /\ AtTarget(Top) /\ WithinBudget(query, Top.cost)
      /\ TypeOK /\ Phases /\ FramesConsistent /\ NoPathLost
  BY DEF RecordPath, Looping, IInv
<1>2. FrameConsistent(Top)
  BY <1>1, RestFrames DEF FramesConsistent, Top
<1>3. IsAttackPath(store, query, p) /\ p \in Seq(store)
  BY <1>1, <1>2 DEF FrameConsistent, Reachable, IsAttackPath, AtTarget
<1>4. p \in AttackPaths(store, query)
  BY <1>1, <1>3, CallFacts, AttackPathsMember
<1>5. Len(stack) \in 1..Len(stack) /\ Top = stack[Len(stack)]
  BY <1>1, RestFrames DEF Top
<1> HIDE DEF p
<1>6. ASSUME NEW i \in 1..Len(discovered) PROVE discovered[i] # p
  <2>1. PathBefore(discovered[i], p)
    BY <1>5 DEF Ordering, InOrder, p
  <2>2. p \in Seq(Edge)
    <3>1. \A S, T : S \subseteq T => Seq(S) \subseteq Seq(T)
      OBVIOUS
    <3> QED
      BY <1>1, <1>3, <3>1, CallFacts
  <2> QED
    BY <2>1, <2>2, NeverBeforeItself
<1>7. ASSUME NEW r \in AttackPaths(store, query), ~Found(r), r # p
      PROVE  PathBefore(p, r)
  <2>1. IsAttackPath(store, query, r)
    BY <1>1, CallFacts, AttackPathsMember
  <2>2. PICK k \in 1..Len(stack) : /\ Len(stack[k].edges) <= Len(r)
                                   /\ stack[k].edges = Prefix(r, Len(stack[k].edges))
    BY <1>1, <1>7 DEF NoPathLost, Looping, Pending
  <2>3. k # Len(stack)
    <3> SUFFICES ASSUME k = Len(stack) PROVE FALSE
      OBVIOUS
    <3>1. Len(p) <= Len(r) /\ p = Prefix(r, Len(p))
      BY <1>5, <2>2 DEF p
    <3>2. /\ Len(p) \in 0..Len(r) /\ Len(r) \in Nat
          /\ Len(p) < Len(r) => ~AtTarget(Top)
          /\ Len(p) = Len(r) => p = r
      BY <1>1, <1>2, <2>1, <3>1, FrameOnPath DEF Phases, Looping, p
    <3> QED
      BY <1>1, <1>7, <3>2
  <2>4. Len(stack) \in Nat /\ k < Len(stack)
    BY <1>5, <2>3
  <2>5. PathBefore(p, stack[k].edges)
    BY <1>5, <2>4 DEF Ordering, InOrder, p
  <2>6. stack[k].edges \in Seq(store) /\ r \in Seq(store)
    BY <1>1, <2>1, ComparedPaths DEF IsAttackPath, Reachable
  <2>7. Len(p) <= Len(p) /\ p = Prefix(p, Len(p))
    BY <1>3, SubSeqFull, LenProperties DEF Prefix
  <2> QED
    BY <1>3, <2>2, <2>5, <2>6, <2>7, BeforeWhateverExtends
<1> QED
  BY <1>4, <1>6, <1>7 DEF p

\* Each step finds the least missing path, ends the call as its promise does,
\* or does not show.
LEMMA StepRefines ==
  ASSUME IInv, Ordering, [Next]_vars
  PROVE  [Promise!Next]_(Promise!vars)
<1> USE DEF Promise!Next
<1>1. TypeOK /\ Phases /\ NoPathLost
  BY DEF IInv
<1>2. CASE UNCHANGED <<store, query, discovered, Outcome>>
  BY <1>2 DEF Promise!vars
<1>3. CASE RaiseBoundsError \/ RaiseCostError
  <2>1. /\ Outcome = "pending" /\ Outcome' = "error"
        /\ store' = store /\ query' = query /\ discovered' = discovered
    BY <1>3 DEF RaiseBoundsError, RaiseCostError, Expanding, Looping, Outcome
  <2>2. \/ MaxHops(query) < 0
        \/ query.maxPaths < 1
        \/ \E e \in store : EdgeCost(query, e.type) < 0
    BY <1>3 DEF RaiseBoundsError, RaiseCostError, BoundsInvalid, Successors
  <2>3. Promise!CanFail
    BY <2>2, SamePaths DEF Promise!CanFail
  <2> QED
    BY <2>1, <2>3 DEF Promise!Fail
<1>4. CASE ReturnZeroHop
  <2>1. Outcome = "pending" /\ Outcome' = "exhausted"
    BY <1>4 DEF ReturnZeroHop, Outcome
  <2> QED
    BY <1>4, <2>1 DEF ReturnZeroHop, Promise!ReturnZeroHop
<1>5. CASE RecordPath
  <2>1. /\ Outcome = "pending" /\ Outcome' = "pending" /\ Len(discovered) < query.maxPaths
        /\ store' = store /\ query' = query /\ discovered' = Append(discovered, Top.edges)
    BY <1>5 DEF RecordPath, Looping, Outcome
  <2>2. Top.edges \in Promise!Unfound
    BY <1>5, RecordedIsLeast, SamePaths DEF Promise!Unfound
  <2>3. ASSUME NEW r \in Promise!Unfound \ {Top.edges}
        PROVE  Promise!PathBefore(Top.edges, r)
    <3>1. r \in AttackPaths(store, query) /\ ~Found(r) /\ r # Top.edges
      BY <2>3, SamePaths DEF Promise!Unfound, Found
    <3> QED
      BY <1>5, <3>1, RecordedIsLeast, SamePaths
  <2> QED
    BY <2>1, <2>2, <2>3 DEF Promise!Find
<1>6. CASE Return
  <2>1. /\ status = "searching" /\ status' = "returned" /\ Outcome = "pending"
        /\ store' = store /\ query' = query /\ discovered' = discovered
        /\ Len(discovered) <= query.maxPaths
        /\ Len(discovered) \in Nat /\ query.maxPaths \in Int
    BY <1>1, <1>6, CallFacts, LenProperties DEF Return, Outcome, Ordering, NotTooMany, TypeOK
  <2>2. CASE Len(discovered) >= query.maxPaths
    <3>1. isSaturated'
      BY <1>6, <2>2, Zenon DEF Return
    <3>2. Outcome' = "max_paths" /\ Len(discovered) = query.maxPaths
      BY <2>1, <2>2, <3>1 DEF Outcome
    <3> QED
      BY <2>1, <3>2 DEF Promise!ReturnMaxPaths
  <2>3. CASE ~(Len(discovered) >= query.maxPaths)
    <3>0. ~isSaturated'
      BY <1>6, <2>3, Zenon DEF Return
    <3>1. Outcome' = "exhausted" /\ Len(discovered) < query.maxPaths
      BY <2>1, <2>3, <3>0 DEF Outcome
    <3>2. stack = <<>>
      BY <1>6, <2>3 DEF Return
    <3>3. \A p \in AttackPaths(store, query) : Found(p)
      BY <1>1, <2>1, <3>2, EmptySeq DEF NoPathLost, Pending
    <3>4. Promise!Unfound = {}
      BY <3>3, SamePaths DEF Promise!Unfound, Found
    <3> QED
      BY <2>1, <3>1, <3>4 DEF Promise!ReturnExhausted
  <2> QED
    BY <2>2, <2>3
<1>7. CASE StartSearch \/ PruneOverBudget \/ PruneAtMaxHops \/ Expand
  <2>1. Outcome' = Outcome /\ store' = store /\ query' = query /\ discovered' = discovered
    BY <1>7 DEF StartSearch, PruneOverBudget, PruneAtMaxHops, Expand, Expanding, Looping, Outcome
  <2> QED
    BY <1>2, <2>1
<1>8. CASE UNCHANGED vars
  <2>1. Outcome' = Outcome /\ store' = store /\ query' = query /\ discovered' = discovered
    BY <1>8 DEF vars, Outcome
  <2> QED
    BY <1>2, <2>1
<1> QED
  BY <1>3, <1>4, <1>5, <1>6, <1>7, <1>8 DEF Next

-----------------------------------------------------------------------------
(***************************************************************************)
(* The result of a call is what PathSemantics enumerates.                  *)
(***************************************************************************)
\* The n-th path found is the n-th of all valid paths.
FoundInOrder ==
  /\ \A i, j \in 1..Len(discovered) : i < j => PathBefore(discovered[i], discovered[j])
  /\ \A i \in 1..Len(discovered) : \A r \in AttackPaths(store, query) :
       PathBefore(r, discovered[i]) => \E j \in 1..i - 1 : discovered[j] = r

\* A call returns within its bounds, and is saturated when it has reached the
\* bound on the number of paths in a search.
EndsAsBounded ==
  status = "returned" =>
    /\ ~BoundsInvalid(query)
    /\ Len(discovered) <= query.maxPaths
    /\ isSaturated <=> query.source # query.target /\ Len(discovered) >= query.maxPaths

\* What find_paths answers, to whoever calls it.
ReturnsEnumeration ==
  status = "returned" =>
    /\ discovered = Enumeration(store, query)
    /\ isSaturated <=> Saturated(store, query)

LEMMA FoundInOrderStep ==
  ASSUME IInv, Ordering, FoundInOrder, [Next]_vars
  PROVE  FoundInOrder'
<1>1. CASE store' = store /\ query' = query /\ discovered' = discovered
  BY <1>1 DEF FoundInOrder
<1>2. CASE ReturnZeroHop
  <2>1. discovered' = <<(<<>>)>> /\ Len(discovered') = 1 /\ discovered'[1] = <<>>
    BY <1>2 DEF ReturnZeroHop
  <2>2. \A i \in 1..Len(discovered') : i = 1
    BY <2>1
  <2>3. \A r \in AttackPaths(store, query) : r = <<>>
    BY <1>2, CallFacts, AttackPathsMember, ZeroHopOnly DEF ReturnZeroHop, IInv
  <2>4. ~PathBefore(<<>>, <<>>)
    BY NeverBeforeItself, EmptySeq
  <2>5. store' = store /\ query' = query
    BY <1>2 DEF ReturnZeroHop
  <2>6. \A i \in 1..Len(discovered') : \A r \in AttackPaths(store', query') :
          ~PathBefore(r, discovered'[i])
    BY <2>1, <2>2, <2>3, <2>4, <2>5
  <2> QED
    BY <2>2, <2>6 DEF FoundInOrder
<1>3. CASE RecordPath
  <2> DEFINE p == Top.edges
             n == Len(discovered)
             P == AttackPaths(store, query)
  <2>1. /\ store' = store /\ query' = query /\ discovered' = Append(discovered, p)
        /\ TypeOK /\ FramesConsistent /\ stack # <<>>
    BY <1>3 DEF RecordPath, Looping, IInv
  <2>2. /\ n \in Nat /\ Len(discovered') = n + 1 /\ discovered'[n + 1] = p
        /\ \A i \in 1..n : discovered'[i] = discovered[i]
    <3>1. p \in Seq(store) /\ discovered \in Seq(Seq(store))
      BY <2>1, RestFrames, ComparedPaths DEF Top, TypeOK
    <3> QED
      BY <2>1, <3>1, AppendProperties, LenProperties
  <2>3. /\ p \in P
        /\ \A r \in P : ~Found(r) /\ r # p => PathBefore(p, r)
    BY <1>3, RecordedIsLeast
  <2>4. StrictlyOrdered(P)
    BY <2>1, CallFacts, AttackPathsOrdered
  <2>5. \A i \in 1..n : PathBefore(discovered[i], p)
    <3>1. Len(stack) \in 1..Len(stack) /\ Top = stack[Len(stack)]
      BY <2>1, RestFrames DEF Top
    <3> QED
      BY <3>1 DEF Ordering, InOrder
  <2> HIDE DEF p, n, P
  <2>6. ASSUME NEW r \in P, PathBefore(r, p)
        PROVE  \E j \in 1..n : discovered[j] = r
    <3>1. r # p /\ ~PathBefore(p, r)
      BY <2>3, <2>4, <2>6 DEF StrictlyOrdered
    <3> QED
      BY <2>3, <3>1 DEF Found, n
  <2>7. \A i \in 1..Len(discovered') : i \in 1..n \/ i = n + 1
    BY <2>2
  <2>8. ASSUME NEW i \in 1..Len(discovered'), NEW j \in 1..Len(discovered'), i < j
        PROVE  PathBefore(discovered'[i], discovered'[j])
    <3>1. i \in 1..n
      BY <2>2, <2>8
    <3>2. CASE j \in 1..n
      BY <2>2, <2>8, <3>1, <3>2 DEF FoundInOrder, n
    <3>3. CASE j = n + 1
      BY <2>2, <2>5, <3>1, <3>3
    <3> QED
      BY <2>7, <3>2, <3>3
  <2>9. ASSUME NEW i \in 1..Len(discovered'), NEW r \in P, PathBefore(r, discovered'[i])
        PROVE  \E j \in 1..i - 1 : discovered'[j] = r
    <3>1. CASE i \in 1..n
      <4>1. PICK j \in 1..i - 1 : discovered[j] = r
        BY <2>2, <2>9, <3>1 DEF FoundInOrder, n, P
      <4>2. j \in 1..n
        BY <2>2, <3>1
      <4> QED
        BY <2>2, <4>1, <4>2
    <3>2. CASE i = n + 1
      <4>1. PICK j \in 1..n : discovered[j] = r
        BY <2>2, <2>6, <2>9, <3>2
      <4> QED
        BY <2>2, <3>2, <4>1
    <3> QED
      BY <2>7, <3>1, <3>2
  <2> QED
    BY <2>1, <2>8, <2>9 DEF FoundInOrder, P
<1> QED
  BY <1>1, <1>2, <1>3
     DEF Next, vars, RaiseBoundsError, StartSearch, PruneOverBudget, PruneAtMaxHops,
         Expand, RaiseCostError, Return

LEMMA EndsAsBoundedStep ==
  ASSUME IInv, Ordering, EndsAsBounded, [Next]_vars
  PROVE  EndsAsBounded'
<1>1. CASE Return
  <2>1. /\ status = "searching" /\ store' = store /\ query' = query
        /\ discovered' = discovered
    BY <1>1 DEF Return
  <2>2. isSaturated' <=> Len(discovered) >= query.maxPaths
    BY <1>1, Zenon DEF Return
  <2>3. ~BoundsInvalid(query) /\ query.source # query.target
    BY <2>1 DEF IInv, Phases
  <2>4. Len(discovered) <= query.maxPaths
    BY <2>1 DEF Ordering, NotTooMany
  <2> QED
    BY <2>1, <2>2, <2>3, <2>4 DEF EndsAsBounded, BoundsInvalid, MaxHops
<1>2. CASE ReturnZeroHop
  <2>1. Len(discovered') = 1 /\ query' = query
    BY <1>2 DEF ReturnZeroHop
  <2>2. query.maxPaths >= 1
    BY <1>2, CallFacts DEF ReturnZeroHop, BoundsInvalid, IInv
  <2>3. ~isSaturated' /\ query.source = query.target /\ ~BoundsInvalid(query)
    BY <1>2 DEF ReturnZeroHop
  <2> QED
    BY <2>1, <2>2, <2>3 DEF EndsAsBounded, BoundsInvalid, MaxHops
<1>3. CASE status' # "returned"
  BY <1>3 DEF EndsAsBounded
<1>4. CASE UNCHANGED vars
  BY <1>4 DEF vars, EndsAsBounded, BoundsInvalid, MaxHops
<1> QED
  BY <1>1, <1>2, <1>3, <1>4
     DEF Next, RaiseBoundsError, StartSearch, PruneOverBudget, RecordPath,
         PruneAtMaxHops, Expand, Expanding, Looping, RaiseCostError

LEMMA ReturnedIsEnumeration ==
  ASSUME IInv, FoundInOrder, EndsAsBounded
  PROVE  ReturnsEnumeration
<1> SUFFICES ASSUME status = "returned"
             PROVE  /\ discovered = Enumeration(store, query)
                    /\ isSaturated <=> Saturated(store, query)
  BY DEF ReturnsEnumeration
<1> DEFINE P == AttackPaths(store, query)
           n == Len(discovered)
           m == query.maxPaths
           c == Cardinality(P)
<1>1. /\ store \subseteq Edge /\ IsFiniteSet(store) /\ MaxHops(query) \in Int
      /\ m \in Int /\ m >= 1 /\ n \in Nat /\ n <= m
      /\ discovered \in [1..n -> Seq(store)]
  BY CallFacts, LenProperties DEF IInv, TypeOK, EndsAsBounded, BoundsInvalid
<1>2. IsFiniteSet(P) /\ StrictlyOrdered(P)
  BY <1>1, AttackPathsAreFinite, AttackPathsOrdered
<1>3. \A i \in 1..n : discovered[i] \in P
  BY <1>1, AttackPathsMember DEF IInv, Sound
<1>4. /\ \A i, j \in 1..n : i < j => PathBefore(discovered[i], discovered[j])
      /\ \A i \in 1..n : \A r \in P :
           PathBefore(r, discovered[i]) => \E j \in 1..i - 1 : discovered[j] = r
  BY DEF FoundInOrder
<1>5. ~isSaturated => \A r \in P : \E i \in 1..n : discovered[i] = r
  BY DEF IInv, ExhaustedMeansAll, TerminationReason, Found
<1>6. isSaturated <=> query.source # query.target /\ n >= m
  BY DEF EndsAsBounded
<1> HIDE DEF P, n
<1>7. ASSUME NEW i \in 1..n PROVE RankIn(P, discovered[i]) = i
  <2> DEFINE D == {discovered[j] : j \in 1..i - 1}
             f == [j \in 1..i - 1 |-> discovered[j]]
  <2>0. i \in Nat /\ \A j \in 1..i - 1 : j \in 1..n /\ j < i /\ j \in Nat
    BY <1>1
  <2>1. Earlier(P, discovered[i]) = D
    <3>1. ASSUME NEW r \in Earlier(P, discovered[i]) PROVE r \in D
      BY <1>4, <3>1 DEF Earlier
    <3>2. ASSUME NEW j \in 1..i - 1 PROVE discovered[j] \in Earlier(P, discovered[i])
      BY <1>3, <1>4, <2>0 DEF Earlier
    <3> QED
      BY <3>1, <3>2
  <2>2. ASSUME NEW j \in 1..i - 1, NEW k \in 1..i - 1, discovered[j] = discovered[k]
        PROVE  j = k
    <3>1. ~PathBefore(discovered[j], discovered[k]) /\ ~PathBefore(discovered[k], discovered[j])
      BY <1>2, <1>3, <2>0, <2>2 DEF StrictlyOrdered
    <3>2. ~(j < k) /\ ~(k < j)
      BY <1>4, <2>0, <3>1
    <3> QED
      BY <2>0, <3>2
  <2>3. f \in Bijection(1..i - 1, D)
    BY <2>2 DEF Bijection, Injection, Surjection, IsInjective
  <2>4. IsFiniteSet(1..i - 1) /\ Cardinality(1..i - 1) = i - 1
    BY <2>0, FS_Interval
  <2> HIDE DEF f, D
  <2>5. Cardinality(D) = i - 1
    <3>1. ExistsBijection(1..i - 1, D)
      BY <2>3 DEF ExistsBijection
    <3> QED
      BY <2>4, <3>1, FS_Bijection
  <2> QED
    BY <2>0, <2>1, <2>5 DEF RankIn
<1>8. /\ c \in Nat
      /\ \A r \in P : RankIn(P, r) \in 1..c
      /\ \A r, s \in P : RankIn(P, r) = RankIn(P, s) => r = s
      /\ \A k \in 1..c : \E r \in P : RankIn(P, r) = k
  BY <1>2, Ranks
<1> HIDE DEF c
<1>9. n <= c
  <2>1. n \in 1..n => n \in 1..c
    BY <1>3, <1>7, <1>8
  <2> QED
    BY <1>1, <1>8, <2>1
<1>10. ~isSaturated => c <= n
  <2> SUFFICES ASSUME ~isSaturated, c \in 1..c PROVE c <= n
    BY <1>1, <1>8
  <2>1. PICK r \in P : RankIn(P, r) = c
    BY <1>8
  <2>2. PICK i \in 1..n : discovered[i] = r
    BY <1>5
  <2> QED
    BY <1>1, <1>7, <2>1, <2>2
<1>11. n = IF c <= m THEN c ELSE m
  <2>1. CASE isSaturated
    BY <1>1, <1>6, <1>8, <1>9, <2>1
  <2>2. CASE ~isSaturated
    BY <1>1, <1>8, <1>9, <1>10, <2>2
  <2> QED
    BY <2>1, <2>2
<1>12. PICK f : f = FirstPaths(P, m)
  OBVIOUS
<1>13. f \in [1..n -> P] /\ \A k \in 1..n : RankIn(P, f[k]) = k
  <2>1. PICK count \in Nat : count = m
    BY <1>1
  <2>2. n = IF Cardinality(P) <= count THEN Cardinality(P) ELSE count
    BY <1>11, <2>1 DEF c
  <2>3. /\ FirstPaths(P, count) \in [1..n -> P]
        /\ \A k \in 1..n : RankIn(P, FirstPaths(P, count)[k]) = k
    BY <1>2, <2>2, FirstPathsProperties
  <2> QED
    BY <1>12, <2>1, <2>3
<1>14. \A k \in 1..n : f[k] = discovered[k]
  BY <1>3, <1>7, <1>8, <1>13
<1>15. discovered = f
  BY <1>1, <1>13, <1>14
<1>16. isSaturated <=> query.source # query.target /\ c >= m
  BY <1>1, <1>6, <1>8, <1>9, <1>11
<1> QED
  BY <1>12, <1>15, <1>16 DEF Enumeration, Saturated, P, c

-----------------------------------------------------------------------------
(***************************************************************************)
(* The theorems.                                                           *)
(***************************************************************************)

\* The inductive invariant holds throughout every call of find_paths.
THEOREM Invariance == Spec => []IInv
<1>1. Init => IInv
  <2>1. Init => Phases /\ FramesConsistent /\ Sound /\ NoPathLost /\ ExhaustedMeansAll
    BY EmptySeq DEF Init, Phases, FramesConsistent, Sound, NoPathLost, ExhaustedMeansAll
  <2> QED
    BY <2>1, TypeInit DEF IInv
<1>2. IInv /\ [Next]_vars => IInv'
  BY TypeStep, PhasesStep, FramesConsistentStep, SoundStep, NoPathLostStep,
     ExhaustedStep DEF IInv
<1> QED
  BY <1>1, <1>2, PTL DEF Spec

\* find_paths keeps its variables well typed.
THEOREM TypeCorrect == Spec => []TypeOK
BY Invariance, PTL DEF IInv

\* Every path find_paths reports is a simple permitted path within its bounds.
THEOREM Soundness == Spec => []Sound
BY Invariance, PTL DEF IInv

\* A result reported EXHAUSTED holds every valid path, whatever the store, the
\* bounds, the costs and the type filter.
THEOREM Completeness == Spec => []ExhaustedMeansAll
BY Invariance, PTL DEF IInv

\* The frames of the stack and the paths found are in the order of the paths
\* that they lead to, and no more than max_paths are found.
THEOREM SearchInOrder == Spec => []Ordering
<1>1. Init => Ordering
  BY EmptySeq DEF Init, Ordering, InOrder, NotTooMany
<1>2. IInv /\ Ordering /\ [Next]_vars => Ordering'
  BY OrderingStep DEF IInv
<1> QED
  BY <1>1, <1>2, Invariance, PTL DEF Spec

\* find_paths keeps its promise for every store and every call: the paths
\* appear one at a time, each is the least one missing, and the call says
\* EXHAUSTED exactly when none is missing below max_paths.
THEOREM Refinement == Spec => ImplementsPromise
<1>1. Init => Promise!Init
  BY InitRefines
<1>2. IInv /\ Ordering /\ [Next]_vars => [Promise!Next]_(Promise!vars)
  BY StepRefines
<1> QED
  BY <1>1, <1>2, Invariance, SearchInOrder, PTL DEF Spec, ImplementsPromise, Promise!Spec

\* find_paths returns the first max_paths valid paths in their order, and says
\* that it is saturated exactly when there are that many: this is the function
\* by which the counterfactual engine and the showcase are modelled.
THEOREM Result == Spec => []ReturnsEnumeration
<1>1. Init => FoundInOrder /\ EndsAsBounded
  BY EmptySeq DEF Init, FoundInOrder, EndsAsBounded
<1>2. IInv /\ Ordering /\ FoundInOrder /\ EndsAsBounded /\ [Next]_vars
        => FoundInOrder' /\ EndsAsBounded'
  BY FoundInOrderStep, EndsAsBoundedStep
<1>3. IInv /\ FoundInOrder /\ EndsAsBounded => ReturnsEnumeration
  BY ReturnedIsEnumeration
<1> QED
  BY <1>1, <1>2, <1>3, Invariance, SearchInOrder, PTL DEF Spec
===============================================================================
