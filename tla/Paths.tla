-------------------------------- MODULE Paths --------------------------------
(***************************************************************************)
(* The search of a path (Map::getPathMatching with AStarNodes) for a       *)
(* creature on one floor, one iteration of its loop a step: the cheapest   *)
(* open node is tested, its neighbours that lead on are opened, and it is  *)
(* closed.  Tiles are free, hold a creature or a field, which costs more,  *)
(* or are walls, which stop projectiles too.                               *)
(***************************************************************************)
EXTENDS Integers, FiniteSets, FiniteSetsExt, Sequences, SequencesExt

CONSTANTS
  Tiles,      \* positions <<x, y>> on the map
  Terrain,    \* of "free", "creature", "field", "wall"
  Start, Target,
  Searches,   \* FindPathParams: [full, keep, search, min, max]
  MaxClosed,  \* 100
  MaxNodes    \* MAX_NODES, 512

PathsAssumption ==
  /\ Tiles \subseteq Int \X Int /\ {Start, Target} \subseteq Tiles /\ Start # Target
  /\ Terrain \subseteq {"free", "creature", "field", "wall"}
  /\ \A f \in Searches : f.search \in Nat /\ f.min \in Nat /\ f.max \in Nat \ {0} /\ {f.full, f.keep} \subseteq BOOLEAN
  /\ MaxClosed \in Nat \ {0} /\ MaxNodes \in Nat \ {0}

VARIABLE search

Init ==
  \E t \in [Tiles \ {Start} -> Terrain], fpp \in Searches :
    search = [terrain |-> [p \in Tiles |-> IF p = Start THEN "free" ELSE t[p]], fpp |-> fpp,
              nodes |-> <<[pos |-> Start, f |-> 0, parent |-> 0]>>, open |-> {1}, closed |-> 0,
              found |-> 0, bestMatch |-> 0, state |-> "searching"]

-----------------------------------------------------------------------------
(* Lines of sight on one floor (Map::checkSightLine, Map::isSightClear);   *)
(* opaque holds the tiles that stop projectiles.                           *)
Abs(n) == IF n < 0 THEN -n ELSE n
Sign(n) == IF n > 0 THEN 1 ELSE IF n < 0 THEN -1 ELSE 0
Distance(p, q) == IF Abs(p[1] - q[1]) > Abs(p[2] - q[2]) THEN Abs(p[1] - q[1]) ELSE Abs(p[2] - q[2])

(* The ray goes by the step that strays least from the line, both ways at  *)
(* once if the corner is nearer than one of the sides.                     *)
NextOnRay(from, to, p) ==
  LET mx == Sign(to[1] - p[1])
      my == Sign(to[2] - p[2])
      Stray(x, y) == Abs((to[2] - from[2]) * (x - to[1]) + (from[1] - to[1]) * (y - to[2]))
      hor == Stray(p[1] + Sign(to[1] - from[1]), p[2])
      ver == Stray(p[1], p[2] + Sign(to[2] - from[2]))
      cross == Stray(p[1] + Sign(to[1] - from[1]), p[2] + Sign(to[2] - from[2]))
      y == IF mx = 0 \/ hor > ver \/ hor > cross THEN p[2] + my ELSE p[2]
      x == IF y = to[2] \/ ver > hor \/ ver > cross THEN p[1] + mx ELSE p[1]
  IN  <<x, y>>

(* The last tile counts, the first does not.                               *)
RECURSIVE ClearFrom(_, _, _, _)
ClearFrom(opaque, from, to, p) ==
  p = to \/ LET q == NextOnRay(from, to, p) IN q \notin opaque /\ ClearFrom(opaque, from, to, q)

CheckSightLine(opaque, from, to) == ClearFrom(opaque, from, to, from)
IsSightClear(opaque, from, to) == CheckSightLine(opaque, from, to) \/ CheckSightLine(opaque, to, from)

-----------------------------------------------------------------------------
(* Where the search may end (FrozenPathingConditionCall).                  *)
Opaque(s) == {p \in Tiles : s.terrain[p] = "wall"}

(* Either all around the target, or on the side where the search began.    *)
IsInRange(s, p) ==
  LET Within(k) ==
        LET offset == Start[k] - Target[k]
            high == IF s.fpp.full \/ offset >= 0 THEN s.fpp.max ELSE 0
            low == IF s.fpp.full \/ offset <= 0 THEN s.fpp.max ELSE 0
        IN  p[k] \in Target[k] - low .. Target[k] + high
  IN  Within(1) /\ Within(2)

(* With a greatest distance beyond 1 the farthest that is allowed is best, *)
(* and anything farther than the best so far is better.                    *)
Suits(s, p, best) ==
  LET d == Distance(p, Target)
  IN  /\ IsInRange(s, p) /\ IsSightClear(Opaque(s), p, Target)
      /\ d \in s.fpp.min .. s.fpp.max
      /\ s.fpp.max = 1 \/ d = s.fpp.max \/ d > best
BestMatch(s, p, best) ==
  LET d == Distance(p, Target) IN IF s.fpp.max = 1 THEN best ELSE IF d = s.fpp.max THEN 0 ELSE d

-----------------------------------------------------------------------------
(* Neighbours.                                                             *)
AllNeighbors == <<<<-1, 0>>, <<0, 1>>, <<1, 0>>, <<0, -1>>, <<-1, -1>>, <<1, -1>>, <<1, 1>>, <<-1, 1>>>>

(* What lies on the side of the parent is not looked at again.             *)
Neighbors(s, n) ==
  LET parent == s.nodes[n].parent
      Ahead(d) == LET o == <<s.nodes[parent].pos[1] - s.nodes[n].pos[1], s.nodes[parent].pos[2] - s.nodes[n].pos[2]>>
                  IN  d[1] * o[1] + d[2] * o[2] <= 0
  IN  IF parent = 0 THEN AllNeighbors ELSE SelectSeq(AllNeighbors, Ahead)

CanWalkTo(s, p) == p \in Tiles /\ (p = Start \/ s.terrain[p] # "wall")
MapWalkCost(p, q) == IF p[1] # q[1] /\ p[2] # q[2] THEN 25 ELSE 10
TileWalkCost(s, p) == CASE s.terrain[p] = "creature" -> 30 [] s.terrain[p] = "field" -> 180 [] OTHER -> 0

NodeAt(s, p) == {k \in DOMAIN s.nodes : s.nodes[k].pos = p}

(* A neighbour is opened, or opened again if it is cheaper this way.  When *)
(* there are no nodes left, the search ends unless something was found.    *)
Opened(n, s, d) ==
  LET p == <<s.nodes[n].pos[1] + d[1], s.nodes[n].pos[2] + d[2]>>
      f == s.nodes[n].f + MapWalkCost(s.nodes[n].pos, p) + TileWalkCost(s, p)
      far == s.fpp.search # 0 /\ Distance(Start, p) > s.fpp.search
      node == [pos |-> p, f |-> f, parent |-> n]
  IN  IF s.state # "searching" \/ far \/ (s.fpp.keep /\ ~IsInRange(s, p)) \/ ~CanWalkTo(s, p) THEN s
      ELSE IF NodeAt(s, p) # {} THEN
             LET k == CHOOSE k \in NodeAt(s, p) : TRUE
             IN  IF s.nodes[k].f <= f THEN s
                 ELSE [s EXCEPT !.nodes[k] = node, !.open = @ \union {k}, !.closed = IF k \in s.open THEN @ ELSE @ - 1]
      ELSE IF Len(s.nodes) >= MaxNodes THEN [s EXCEPT !.state = IF s.found # 0 THEN "full" ELSE "failed"]
      ELSE [s EXCEPT !.nodes = Append(@, node), !.open = @ \union {Len(s.nodes) + 1}]

RECURSIVE AllOpened(_, _, _)
AllOpened(s, n, ds) == IF ds = << >> THEN s ELSE AllOpened(Opened(n, s, Head(ds)), n, Tail(ds))

Expanded(s, n) ==
  LET t == AllOpened(s, n, Neighbors(s, n))
  IN  IF t.state = "failed" THEN t
      ELSE [t EXCEPT !.state = "searching", !.open = @ \ {n}, !.closed = @ + 1]

GetBestNode(s) ==
  {k \in s.open : \A j \in s.open : s.nodes[j].f > s.nodes[k].f \/ (s.nodes[j].f = s.nodes[k].f /\ j >= k)}

Ended(s) == [s EXCEPT !.state = IF s.found # 0 THEN "found" ELSE "failed"]

GetPathMatching ==
  /\ search.state = "searching"
  /\ search' =
       IF search.open = {} \/ (search.fpp.search = 0 /\ search.closed >= MaxClosed) THEN Ended(search)
       ELSE LET n == CHOOSE k \in GetBestNode(search) : TRUE
                p == search.nodes[n].pos
                s == IF Suits(search, p, search.bestMatch)
                     THEN [search EXCEPT !.found = n, !.bestMatch = BestMatch(search, p, @)] ELSE search
            IN  IF s.found = n /\ s.bestMatch = 0 THEN Ended(s) ELSE Expanded(s, n)

Next == GetPathMatching

-----------------------------------------------------------------------------
(* A path may lead over what is allowed; its cost is the sum of its steps. *)
Allowed(s, p) ==
  /\ CanWalkTo(s, p) /\ (s.fpp.search # 0 => Distance(Start, p) <= s.fpp.search)
  /\ s.fpp.keep => IsInRange(s, p)
StepCost(s, p, q) == MapWalkCost(p, q) + TileWalkCost(s, q)
Beside(p) == {q \in Tiles : Distance(p, q) = 1}

(* Every path that is found can be walked, from the start to where the     *)
(* search may end, and costs what the nodes say.                           *)
PathWalkable ==
  search.state = "found" =>
    /\ Suits(search, search.nodes[search.found].pos, 0)
    /\ \A k \in DOMAIN search.nodes \ {1} :
         LET node == search.nodes[k]
             parent == search.nodes[node.parent]
         IN  /\ node.pos \in Beside(parent.pos) /\ Allowed(search, node.pos)
             /\ node.f = parent.f + StepCost(search, parent.pos, node.pos)

(* No step by any of the eight leads from these nodes to a tile for less   *)
(* than what its own node says: so there is no cheaper way at all.         *)
NoShortcut(s, K) ==
  \A k \in K : \A q \in {r \in Beside(s.nodes[k].pos) : Allowed(s, r)} :
    \E j \in NodeAt(s, q) : s.nodes[j].f <= s.nodes[k].f + StepCost(s, s.nodes[k].pos, q)

(* The search ends at the farthest place that is allowed, and goes there   *)
(* in the cheapest way; it fails only where there is none; unless it ran   *)
(* out of nodes or of patience.                                            *)
PathCheapest ==
  LET nodes == search.nodes
      Ends == {k \in DOMAIN nodes : Suits(search, nodes[k].pos, 0)}
      cut == Len(nodes) >= MaxNodes \/ (search.fpp.search = 0 /\ search.closed >= MaxClosed)
      Reach(k) == IF search.fpp.max = 1 THEN 1 ELSE Distance(nodes[k].pos, Target)
  IN  ~cut =>
        /\ search.state = "failed" => Ends = {} /\ NoShortcut(search, DOMAIN nodes)
        /\ search.state = "found" =>
             LET n == search.found
                 K == IF Reach(n) = search.fpp.max THEN {k \in DOMAIN nodes : nodes[k].f < nodes[n].f} ELSE DOMAIN nodes
             IN  /\ NoShortcut(search, K)
                 /\ \A k \in Ends : Reach(k) <= Reach(n) \/ k \notin K
                 /\ \A k \in Ends : Reach(k) = Reach(n) => nodes[k].f >= nodes[n].f
=============================================================================
