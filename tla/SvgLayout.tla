------------------------------- MODULE SvgLayout -------------------------------
(***************************************************************************)
(* The layered drawing of app/showcase/svg.py: which layer an entity is    *)
(* in, by which waypoints a relationship passes the layers between its     *)
(* ends, and where boxes and waypoints stand in their rows.                *)
(*                                                                         *)
(* A graph is a record of nodes, edges and the source of the analysis.     *)
(* Names order entities as their ids do; the sort name of a waypoint       *)
(* begins with "~" and comes after them.  Colours, curves within a gap and *)
(* labels are left out.                                                    *)
(***************************************************************************)
EXTENDS Integers, Sequences, FiniteSets

Sets == INSTANCE FiniteSetsExt

NodeWidth == 208
WaypointWidth == 14
HGap == 30
Margin == 24

-----------------------------------------------------------------------------
(***************************************************************************)
(* Layers.                                                                 *)
(***************************************************************************)
Successors(g, last) == {e.target : e \in {f \in g.edges : f.source \in last}}

\* The nodes that a walk of k relationships from the source leads to.
Walked(g) ==
  LET after[k \in 0..Cardinality(g.nodes)] ==
        IF k = 0 THEN {g.source} ELSE Successors(g, after[k - 1])
  IN  after

WalkLengths(g, n) == {k \in 0..Cardinality(g.nodes) : n \in Walked(g)[k]}

Reached(g, n) == WalkLengths(g, n) # {}

\* No cycle can be reached: visit never meets a node it is visiting.
Acyclic(g) == Walked(g)[Cardinality(g.nodes)] = {}

\* Mutant: the distance is the shortest one.
LayerByDepth(g) ==
  LET of(n) == Sets!Min(WalkLengths(g, n))
      unreachable == Sets!Max({of(n) : n \in {m \in g.nodes : Reached(g, m)}}) + 1
  IN  [n \in g.nodes |-> IF Reached(g, n) THEN of(n) ELSE unreachable]

\* The longest distance from the source, the shortest one if there is a
\* cycle; what the source does not reach is below everything else.
Layer(g) ==
  LET of(n) == IF Acyclic(g) THEN Sets!Max(WalkLengths(g, n)) ELSE Sets!Min(WalkLengths(g, n))
      unreachable == Sets!Max({of(n) : n \in {m \in g.nodes : Reached(g, m)}}) + 1
  IN  [n \in g.nodes |-> IF Reached(g, n) THEN of(n) ELSE unreachable]

(***************************************************************************)
(* Items: a box for each entity, and the waypoints of the relationships.   *)
(***************************************************************************)
Box(g, n) == [kind |-> "box", id |-> n, layer |-> Layer(g)[n]]

Chain(g, e) ==
  LET from == Layer(g)[e.source]
      upto == Layer(g)[e.target]
  IN  [id    |-> e.id,
       items |-> <<Box(g, e.source)>>
                 \o [i \in 1..Sets!Max({0, upto - from - 1}) |->
                       [kind |-> "waypoint", id |-> e.id, layer |-> from + i]]
                 \o <<Box(g, e.target)>>]

Items(g, chains) ==
  {Box(g, n) : n \in g.nodes} \cup UNION {{c.items[k] : k \in 1..Len(c.items)} : c \in chains}

-----------------------------------------------------------------------------
(***************************************************************************)
(* Rows.  What stands in a row is a set of records: an item and the x      *)
(* coordinate of its left edge.                                            *)
(***************************************************************************)
Width(i) == IF i.kind = "box" THEN NodeWidth ELSE WaypointWidth

RowWidth(row) == Sets!MapThenSumSet(Width, row) + (Cardinality(row) - 1) * HGap

RowsOf(items) == {{i \in items : i.layer = j.layer} : j \in items}

CanvasWidth(items) == Sets!Max({RowWidth(row) : row \in RowsOf(items)}) + 2 * Margin

Centre(p) == p.left + Width(p.item) \div 2

\* The predecessors of an item that are placed, one for each relationship.
Predecessors(chains, above, i) ==
  LET leading == {c \in chains : \E k \in 1..Len(c.items) - 1 : c.items[k + 1] = i}
      Before(c) == c.items[(CHOOSE k \in 1..Len(c.items) - 1 : c.items[k + 1] = i)]
  IN  {x \in leading \X above : x[2].item = Before(x[1])}

\* The average centre of the predecessors above.
Desired(chains, above, canvas, i) ==
  LET placed == Predecessors(chains, above, i)
  IN  IF placed = {} THEN canvas \div 2
      ELSE Sets!MapThenSumSet(LAMBDA x : Centre(x[2]), placed) \div Cardinality(placed)

StandsBefore(v, w) ==
  \/ v.at < w.at
  \/ v.at = w.at /\ v.item.kind = "box" /\ w.item.kind = "waypoint"
  \/ v.at = w.at /\ v.item.kind = w.item.kind /\ v.item.id < w.item.id

\* sorted of the items of a layer: the k-th has k - 1 before it.
Row(wishes) ==
  [k \in 1..Cardinality(wishes) |->
     CHOOSE v \in wishes : Cardinality({w \in wishes : StandsBefore(w, v)}) = k - 1]

Wish(row, k) == row[k].at - Width(row[k].item) \div 2

\* Mutant: the next item clears its own width, not the previous one's.
LeftsByOwnWidth(row) ==
  LET left[k \in 1..Len(row)] ==
        IF k = 1 THEN Wish(row, k)
        ELSE Sets!Max({Wish(row, k), left[k - 1] + Width(row[k].item) + HGap})
  IN  left

\* From left to right, each item under its wish or right of the previous one.
Lefts(row) ==
  LET left[k \in 1..Len(row)] ==
        IF k = 1 THEN Wish(row, k)
        ELSE Sets!Max({Wish(row, k), left[k - 1] + Width(row[k - 1].item) + HGap})
  IN  left

\* Back from the right margin, then back from the left one.
Shift(first, right, canvas) ==
  LET overflow == Sets!Max({0, right - (canvas - Margin)})
  IN  Sets!Max({0, Margin - (first - overflow)}) - overflow

PlaceRow(chains, above, canvas, items) ==
  LET row   == Row({[item |-> i, at |-> Desired(chains, above, canvas, i)] : i \in items})
      lefts == Lefts(row)
      last  == Len(row)
      shift == Shift(lefts[1], lefts[last] + Width(row[last].item), canvas)
  IN  {[item |-> row[k].item, left |-> lefts[k] + shift] : k \in 1..last}

\* What stands on the canvas, after each layer.
Placed(chains, items, canvas) ==
  LET depth == Sets!Max({i.layer : i \in items}) + 1
      upto[k \in 0..depth] ==
        IF k = 0 THEN {}
        ELSE LET above == upto[k - 1]
             IN  above \cup PlaceRow(chains, above, canvas, {i \in items : i.layer = k - 1})
  IN  upto[depth]

Drawing(g) ==
  LET chains == {Chain(g, e) : e \in g.edges}
      items  == Items(g, chains)
      canvas == CanvasWidth(items)
  IN  [width |-> canvas, placed |-> Placed(chains, items, canvas)]
=============================================================================
