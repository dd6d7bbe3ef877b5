------------------------------ MODULE WorldMap -------------------------------
(* Parts of MCWorld that are about the map: who is near, paths, and steps. *)
EXTENDS Integers

MapScenes == {"links", "caches", "paths", "limits", "steps"}

-----------------------------------------------------------------------------
(* Spectators, in two scenes: "links" has five squares of the map that come*)
(* into being in any order and one player, "caches" a player and a monster.*)
VARIABLE map

QL == INSTANCE Spectators WITH
        Creatures <- {"ann"}, Players <- {"ann"}, FloorSize <- 2, View <- 1,
        Places <- {<<0, 0, 7>>, <<2, 1, 7>>, <<5, 0, 6>>, <<1, 2, 7>>, <<4, 3, 7>>},
        Centers <- {<<2, 1, 7>>, <<4, 1, 6>>}, Nowhere <- <<>>, NoLeaf <- <<>>

QC == INSTANCE Spectators WITH
        Creatures <- {"ann", "wolf"}, Players <- {"ann"}, FloorSize <- 2, View <- 1,
        Places <- {<<1, 0, 7>>, <<2, 1, 7>>, <<4, 2, 7>>},
        Centers <- {<<1, 0, 7>>, <<2, 1, 7>>}, Nowhere <- <<>>, NoLeaf <- <<>>

ASSUME SpectatorsAssumption == QL!SpectatorsAssumption /\ QC!SpectatorsAssumption

-----------------------------------------------------------------------------
(* Paths, in two scenes: "paths" asks for the nearest place on all maps of *)
(* nine tiles, "limits" for others on maps of eight, with few nodes.       *)
VARIABLE search

Nearest == [full |-> TRUE, keep |-> FALSE, search |-> 12, min |-> 1, max |-> 1]

AP == INSTANCE Paths WITH
        Tiles <- (0 .. 2) \X (0 .. 2), Terrain <- {"free", "creature", "wall"}, Start <- <<0, 1>>,
        Target <- <<2, 2>>, Searches <- {Nearest}, MaxClosed <- 100, MaxNodes <- 512

AL == INSTANCE Paths WITH
        Tiles <- (0 .. 3) \X (0 .. 1), Terrain <- {"free", "field", "wall"}, Start <- <<1, 1>>,
        Target <- <<0, 0>>, MaxClosed <- 4, MaxNodes <- 6,
        Searches <- {[Nearest EXCEPT !.max = 3, !.full = FALSE], [Nearest EXCEPT !.max = 2, !.keep = TRUE],
                     [Nearest EXCEPT !.search = 0]}

ASSUME PathsAssumption == AP!PathsAssumption /\ AL!PathsAssumption

-----------------------------------------------------------------------------
(* Steps: a map of nine tiles, on two of which things come and go.         *)
VARIABLE monster

ST == INSTANCE Steps WITH
        Tiles <- (0 .. 2) \X (0 .. 2), Changing <- {<<1, 1>>, <<0, 2>>}, Width <- 1, Height <- 1,
        TargetDistance <- 2, AttackRange <- 1

ASSUME StepsAssumption == ST!StepsAssumption

-----------------------------------------------------------------------------
mapVars == <<map, search, monster>>

MapInit(scene) ==
  /\ CASE scene = "links" -> QL!Init [] scene = "caches" -> QC!Init [] OTHER -> map = {}
  /\ CASE scene = "paths" -> AP!Init [] scene = "limits" -> AL!Init [] OTHER -> search = {}
  /\ IF scene = "steps" THEN ST!Init ELSE monster = {}
MapRest == map = {} /\ search = {} /\ monster = {}

MapStep(scene) ==
  \/ /\ \/ scene = "links" /\ QL!Next
        \/ scene = "caches" /\ QC!Next
     /\ UNCHANGED <<search, monster>>
  \/ /\ \/ scene = "paths" /\ AP!Next
        \/ scene = "limits" /\ AL!Next
     /\ UNCHANGED <<map, monster>>
  \/ /\ scene = "steps" /\ ST!Next
     /\ UNCHANGED <<map, search>>

MapInvariant(scene) ==
  /\ scene = "paths" => AP!PathWalkable /\ AP!PathCheapest
  /\ scene = "limits" => AL!PathWalkable /\ AL!PathCheapest
  /\ scene = "steps" => ST!CacheExact /\ ST!StepsSound

MapAction(scene) ==
  /\ scene = "links" => QL!SpectatorsExact
  /\ scene = "caches" => QC!SpectatorsExact
=============================================================================
