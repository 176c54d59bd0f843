--------------------------- MODULE MCAnalysisPolicy ---------------------------
(***************************************************************************)
(* Two relationship types.  One group of inputs varies types and costs,    *)
(* one the bounds, one the time and scope of a fixed policy; legacy        *)
(* policies differ by less and by more than the precision of fingerprints. *)
(***************************************************************************)
EXTENDS AnalysisPolicy

MCNode == 1..3
MCRelId == 1..5
MCRelType == 1..2

Arc(i, s, t, ty) == [id |-> i, source |-> s, target |-> t, type |-> ty]

MCStores ==
  { {Arc(1, 1, 2, 1), Arc(2, 2, 3, 1), Arc(3, 1, 3, 2)},
    {Arc(1, 1, 2, 2), Arc(2, 2, 3, 1), Arc(4, 2, 3, 2), Arc(5, 3, 1, 1)} }

All == [all |-> TRUE, list |-> <<>>]
List(types) == [all |-> FALSE, list |-> types]

UTC(local) == [aware |-> TRUE, local |-> local, offset |-> 0]
Scope(id, version) == [id |-> id, version |-> version, resolved |-> TRUE]
ScopeDict(id, version) == [id |-> id, version |-> version, resolved |-> FALSE]

Input(kind, hops, budget, paths, types, costs, weight, time, scope) ==
  [kind |-> kind, maxHops |-> hops, budget |-> budget, maxPaths |-> paths,
   types |-> types, costs |-> costs, weight |-> weight, time |-> time, scope |-> scope]

Costs(c1, c2) == [t \in 1..2 |-> IF t = 1 THEN c1 ELSE c2]
Only(t, c) == [u \in {t} |-> c]

TypeLists == {All} \cup {List(l) : l \in {<<>>, <<1>>, <<1, 1>>, <<1, 2>>, <<2, 1>>}}

MCInputs ==
  {Input("v2", 2, 2, 4, types, costs, 0, UTC(12), Scope(1, 1)) :
     types \in TypeLists,
     costs \in {Costs(1, 1), Costs(1, 2), Costs(2, 0), Costs(1, -1), Only(1, 2), Only(2, 1)}}
  \cup {Input("v2", b[1], b[2], b[3], All, Costs(1, 1), 0, UTC(12), Scope(1, 1)) :
          b \in {<<1, 2, 4>>, <<2, 1, 4>>, <<2, 2, 1>>, <<-1, 2, 4>>, <<2, 2, 0>>}}
  \cup {Input("v2", 2, 2, 4, All, Costs(1, 1), 0, time, scope) :
          time \in {UTC(12), [aware |-> TRUE, local |-> 14, offset |-> 2],
                    [aware |-> TRUE, local |-> 12, offset |-> 2],
                    [aware |-> FALSE, local |-> 12, offset |-> 0]},
          scope \in {Scope(1, 1), Scope(1, 2), Scope(2, 1), Scope(0, 0), Scope(1, 0),
                    ScopeDict(1, 1)}}
  \cup {Input("v1", 2, 2, 4, types, Costs(1, 1), weight, UTC(12), Scope(1, 1)) :
          types \in {All, List(<<1, 2>>)}, weight \in {80000, 80004, 80005, -4, 4}}
  \cup {Input("other", 2, 2, 4, All, Costs(1, 1), 0, UTC(12), Scope(1, 1))}
=============================================================================
