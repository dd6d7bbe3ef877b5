------------------------------ MODULE Spectators ------------------------------
(***************************************************************************)
(* Who is near a position (map.cpp): creatures are listed at the leaves of *)
(* a quadtree, a search walks from leaf to leaf along their links to the   *)
(* south and to the east, and what it finds is kept in two caches until    *)
(* somebody moves or the task of the dispatcher is over.                   *)
(* A leaf is the square of FloorSize by FloorSize positions on all floors. *)
(* Left out: what is on the tiles besides creatures, ranges that scripts   *)
(* choose themselves.                                                      *)
(***************************************************************************)
EXTENDS Integers, FiniteSets, FiniteSetsExt, Functions

CONSTANTS
  Creatures, Players,
  Places,             \* positions <<x, y, z>> that may have a tile
  Centers,            \* positions that are asked for
  FloorSize,          \* FLOOR_SIZE, 8
  View,               \* maxViewportX and maxViewportY, 11
  Nowhere, NoLeaf

MaxCoordinate == 65535  \* of a uint16_t
Everywhere == (0 .. MaxCoordinate) \X (0 .. MaxCoordinate) \X (0 .. 15)

SpectatorsAssumption ==
  /\ Players \subseteq Creatures /\ Places \union Centers \subseteq Everywhere
  /\ FloorSize \in Nat \ {0} /\ View \in Nat \ {0}
  /\ Nowhere \notin Places /\ NoLeaf \notin Nat \X Nat

Leaf(p) == <<p[1] \div FloorSize, p[2] \div FloorSize>>
Leaves == {Leaf(p) : p \in Places}

VARIABLE map

(* asked, players and answer are of the search just made, if any.          *)
Init ==
  map = [tiles |-> {}, leaves |-> {}, south |-> [l \in Leaves |-> NoLeaf], east |-> [l \in Leaves |-> NoLeaf],
         list |-> [l \in Leaves |-> {}], at |-> [c \in Creatures |-> Nowhere],
         spectatorCache |-> << >>, playersSpectatorCache |-> << >>,
         asked |-> {}, players |-> FALSE, answer |-> {}]

Silent(m) == [m EXCEPT !.asked = {}, !.answer = {}, !.players = FALSE]

-----------------------------------------------------------------------------
(* The quadtree and its links.                                             *)
GetLeaf(m, l) == IF l \in m.leaves THEN l ELSE NoLeaf

(* A new leaf is linked from the north and the west, and to the others.    *)
LinkedForward(m, l) ==
  [m EXCEPT !.leaves = @ \union {l},
            !.south[l] = GetLeaf(m, <<l[1], l[2] + 1>>), !.east[l] = GetLeaf(m, <<l[1] + 1, l[2]>>)]
Linked(m, l) ==
  LET t == LinkedForward(m, l)
  IN  [t EXCEPT !.south = [k \in Leaves |-> IF k \in m.leaves /\ k = <<l[1], l[2] - 1>> THEN l ELSE @[k]],
                !.east = [k \in Leaves |-> IF k \in m.leaves /\ k = <<l[1] - 1, l[2]>> THEN l ELSE @[k]]]

SetTile(p) ==
  /\ p \notin map.tiles
  /\ LET m == IF Leaf(p) \in map.leaves THEN map ELSE Linked(map, Leaf(p))
     IN  map' = [Silent(m) EXCEPT !.tiles = @ \union {p}]

(* The leaves between two corners: each row begins south of the one before,*)
(* and goes on to the east; where there is no leaf, it is looked up.       *)
Visited(m, first, last) ==
  LET row[j \in first[2] .. last[2]] ==
        IF j = first[2] THEN GetLeaf(m, first)
        ELSE IF row[j - 1] # NoLeaf THEN m.south[row[j - 1]] ELSE GetLeaf(m, <<first[1], j>>)
      column[i \in first[1] .. last[1]] ==
        [j \in first[2] .. last[2] |->
           IF i = first[1] THEN row[j]
           ELSE IF column[i - 1][j] # NoLeaf THEN m.east[column[i - 1][j]] ELSE GetLeaf(m, <<i, j>>)]
  IN  {column[i][j] : i \in first[1] .. last[1], j \in first[2] .. last[2]} \ {NoLeaf}

(* Floors that are seen from floor z; each is drawn one position off.      *)
FloorsSeen(z, multifloor) ==
  CASE ~multifloor -> z .. z
    [] multifloor /\ z > 7 -> Max({z - 2, 0}) .. Min({z + 2, 15})
    [] multifloor /\ z = 6 -> 0 .. 8
    [] multifloor /\ z = 7 -> 0 .. 9
    [] OTHER -> 0 .. 7

InRange(center, p, floors) ==
  /\ p[3] \in floors
  /\ \A k \in {1, 2} : p[k] - (center[3] - p[3]) \in center[k] - View .. center[k] + View

Corner(center, d) ==
  LET At(k) == Min({MaxCoordinate, Max({0, center[k] + d})}) \div FloorSize IN <<At(1), At(2)>>

GetSpectatorsInternal(m, center, floors, onlyPlayers) ==
  LET leaves == Visited(m, Corner(center, center[3] - Max(floors) - View), Corner(center, center[3] - Min(floors) + View))
      found == UNION {m.list[l] : l \in leaves}
  IN  {c \in found : InRange(center, m.at[c], floors) /\ (onlyPlayers => c \in Players)}

-----------------------------------------------------------------------------
(* The caches.                                                             *)
Cleared(m) == [m EXCEPT !.spectatorCache = << >>, !.playersSpectatorCache = << >>]

Entered(cache, center, s) == [p \in DOMAIN cache \union {center} |-> IF p = center THEN s ELSE cache[p]]

(* What is found is added to what the caller has already, and the cache    *)
(* gets all of it.                                                         *)
GetSpectators(m, had, center, multifloor, onlyPlayers) ==
  LET hitP == multifloor /\ onlyPlayers /\ center \in DOMAIN m.playersSpectatorCache
      hit == multifloor /\ ~hitP /\ center \in DOMAIN m.spectatorCache
      new == had \union
             (IF hitP THEN m.playersSpectatorCache[center]
              ELSE IF hit THEN {c \in m.spectatorCache[center] : onlyPlayers => c \in Players}
              ELSE GetSpectatorsInternal(m, center, FloorsSeen(center[3], multifloor), onlyPlayers))
      t == [m EXCEPT !.answer = new, !.asked = {<<center, multifloor>>}, !.players = onlyPlayers]
  IN  IF ~multifloor \/ hitP \/ hit THEN t
      ELSE IF onlyPlayers THEN [t EXCEPT !.playersSpectatorCache = Entered(@, center, new)]
      ELSE [t EXCEPT !.spectatorCache = Entered(@, center, new)]

GetSpectatorsOf(center) ==
  \E multifloor, onlyPlayers \in BOOLEAN : map' = GetSpectators(map, {}, center, multifloor, onlyPlayers)

-----------------------------------------------------------------------------
(* Creatures come, move and go.                                            *)
AddedToLeaf(m, c, l) == [m EXCEPT !.list[l] = @ \union {c}]
RemovedFromLeaf(m, c, l) == [m EXCEPT !.list[l] = @ \ {c}]

AddThing(m, c, p) == [Cleared(m) EXCEPT !.at[c] = p]

PlaceCreature(c, p) ==
  /\ map.at[c] = Nowhere /\ p \in map.tiles
  /\ map' = AddedToLeaf(AddThing(Silent(map), c, p), c, Leaf(p))

(* Who is told of a move: those who see where it starts or where it ends.  *)
MoveCreature(c, p) ==
  LET from == map.at[c]
      t == GetSpectators(map, {}, from, TRUE, FALSE)
      u == GetSpectators(t, t.answer, p, TRUE, FALSE)
      v == Cleared(u)
      w == IF Leaf(from) = Leaf(p) THEN v ELSE AddedToLeaf(RemovedFromLeaf(v, c, Leaf(from)), c, Leaf(p))
  IN  /\ from # Nowhere /\ p \in map.tiles \ {from}
      /\ map' = [AddThing(w, c, p) EXCEPT !.asked = {<<from, TRUE>>, <<p, TRUE>>}]

RemoveCreature(c) ==
  LET from == map.at[c]
      t == GetSpectators(map, {}, from, TRUE, FALSE)
  IN  /\ from # Nowhere
      /\ map' = [Cleared(RemovedFromLeaf(t, c, Leaf(from))) EXCEPT !.at[c] = Nowhere]

(* The dispatcher clears the caches before the next task.                  *)
NextTask == map' = Cleared(Silent(map))

Next ==
  \/ \E p \in Places : SetTile(p)
  \/ \E p \in Centers : GetSpectatorsOf(p)
  \/ \E c \in Creatures, p \in Places : PlaceCreature(c, p) \/ MoveCreature(c, p)
  \/ \E c \in Creatures : RemoveCreature(c)
  \/ NextTask

-----------------------------------------------------------------------------
(* Whoever is asked for is found, and nobody else: all who see one of the  *)
(* positions, at the moment of the search, whatever was cached before and  *)
(* in whatever order the leaves came into being.                           *)
SpectatorsExact ==
  map'.asked # {} =>
    map'.answer = {c \in Creatures :
                     /\ map.at[c] # Nowhere /\ (map'.players => c \in Players)
                     /\ \E q \in map'.asked : InRange(q[1], map.at[c], FloorsSeen(q[1][3], q[2]))}
=============================================================================
