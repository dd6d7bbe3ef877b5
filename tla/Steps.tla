-------------------------------- MODULE Steps --------------------------------
(***************************************************************************)
(* Where a monster puts its next step: which of its neighbours it may enter*)
(* (Creature::localMapCache and Monster::canWalkTo), how it keeps its      *)
(* distance or flees, dances around what it attacks, or strolls.           *)
(* One monster and one target on one floor; the other tiles are free, or   *)
(* hold a wall, or a teleport, which monsters do not enter either.         *)
(* The four cases of Monster::getDistanceStep for the sides and the four   *)
(* for the corners are one case each, turned: <<x, y>> is a step, y grows  *)
(* to the south.                                                           *)
(***************************************************************************)
EXTENDS Integers, FiniteSets

CONSTANTS
  Tiles,            \* positions <<x, y>> on the map
  Changing,         \* tiles on which things come and go
  Width, Height,    \* maxWalkCacheWidth, maxWalkCacheHeight
  TargetDistance,   \* what the monster likes to keep
  AttackRange       \* of its attacks

StepsAssumption ==
  /\ Tiles \subseteq Int \X Int /\ Changing \subseteq Tiles
  /\ {Width, Height, TargetDistance, AttackRange} \subseteq Nat \ {0}

VARIABLE monster

Away(n) == IF n < 0 THEN -n ELSE n
Side(n) == IF n > 0 THEN 1 ELSE IF n < 0 THEN -1 ELSE 0
Plus(p, d) == <<p[1] + d[1], p[2] + d[2]>>
Minus(p, q) == <<p[1] - q[1], p[2] - q[2]>>
Far(d) == IF Away(d[1]) > Away(d[2]) THEN Away(d[1]) ELSE Away(d[2])

Here == <<0, 0>>
Window == (-Width .. Width) \X (-Height .. Height)
North == <<0, -1>>
South == <<0, 1>>
West == <<-1, 0>>
East == <<1, 0>>
Straight == {North, South, West, East}
Directions == ((-1 .. 1) \X (-1 .. 1)) \ {Here}

(* queryAdd with FLAG_PATHFINDING; its own tile is taken, by itself.       *)
QueryAdd(m, p) == p \in Tiles /\ m.thing[p] = "none" /\ p \notin {m.pos, m.target}

-----------------------------------------------------------------------------
(* The cache of the tiles around: those that may be entered, by offset.    *)
UpdateMapCache(m) == [m EXCEPT !.cache = {d \in Window : QueryAdd(m, Plus(m.pos, d))}, !.slid = FALSE, !.missed = {}]

UpdateTileCache(m, p) ==
  LET d == Minus(p, m.pos)
  IN  IF d \notin Window THEN m
      ELSE [m EXCEPT !.cache = IF QueryAdd(m, p) THEN @ \union {d} ELSE @ \ {d}]

(* The own move shifts the cache by rows, then by columns, and looks up    *)
(* what is new; a step to the south and aside moves the row that is new,   *)
(* and not the first one.                                                  *)
ShiftRows(m, y) ==
  IF y = 0 THEN m.cache
  ELSE {d \in Window : IF d[2] = y * Height THEN QueryAdd(m, Plus(m.pos, d)) ELSE <<d[1], d[2] + y>> \in m.cache}
ShiftColumns(m, cache, x, y) ==
  IF x = 0 THEN cache
  ELSE {d \in Window :
          IF d[1] = x * Width THEN QueryAdd(m, Plus(m.pos, d))
          ELSE IF d[2] < Away(y) - Height THEN d \in cache ELSE <<d[1] + x, d[2]>> \in cache}

MovedWithoutOld(m, d) ==
  LET t == [m EXCEPT !.pos = Plus(@, d), !.slid = @ \/ (d[2] = 1 /\ d[1] # 0)]
  IN  [t EXCEPT !.cache = ShiftColumns(t, ShiftRows(t, d[2]), d[1], d[2])]
Moved(m, d) ==
  LET t == [m EXCEPT !.pos = Plus(@, d), !.slid = @ \/ (d[2] = 1 /\ d[1] # 0)]
  IN  UpdateTileCache([t EXCEPT !.cache = ShiftColumns(t, ShiftRows(t, d[2]), d[1], d[2])], m.pos)

(* What the cache forbids is not looked at.                                *)
CanWalkTo(m, d) == d \in m.cache /\ QueryAdd(m, Plus(m.pos, d))
Free(m, ds) == {d \in ds : CanWalkTo(m, d)}

(* Player corner: straight away, then aside, and if it flees past him.     *)
StepFromCorner(m, s, flee) ==
  LET back == Free(m, {<<s[1], 0>>, <<0, s[2]>>})
      past == Free(m, {<<-s[1], 0>>, <<0, -s[2]>>})
      slipX == <<-s[1], 0>> \in past /\ CanWalkTo(m, <<-s[1], s[2]>>)
      slipY == <<0, -s[2]>> \in past /\ CanWalkTo(m, <<s[1], -s[2]>>)
  IN  CASE back # {} -> back
        [] back = {} /\ CanWalkTo(m, s) -> {s}
        [] back = {} /\ ~CanWalkTo(m, s) /\ flee /\ past # {} -> past
        [] OTHER -> IF slipX /\ ~(s = <<-1, -1>> /\ slipY) THEN {<<-s[1], 0>>}
                    ELSE IF slipY THEN {<<0, -s[2]>>} ELSE {}

(* Away is the step from the target, low and high the sides, off the offset*)
(* along them.                                                             *)
StepFromSide(m, away, low, high, off, flee) ==
  LET sides == Free(m, {low, high})
      ahead == sides \ ((IF off > 0 THEN {low} ELSE {}) \union (IF off < 0 THEN {high} ELSE {}))
      corners == Free(m, {Plus(away, low), Plus(away, high)})
      First(d) == IF d \in sides THEN {d} ELSE corners \intersect {Plus(away, d)}
      first == IF away = East THEN high ELSE low
      second == IF away = East THEN low ELSE high
      toward == Minus(Here, away)
  IN  CASE CanWalkTo(m, away) -> {away}
        [] ~CanWalkTo(m, away) /\ ahead # {} -> ahead
        [] ~CanWalkTo(m, away) /\ ahead = {} /\ flee /\ sides # {} -> sides
        [] OTHER -> IF Cardinality(corners) = 2 THEN corners
                    ELSE IF corners # {} THEN (IF First(first) # {} THEN First(first) ELSE First(second))
                    ELSE IF flee THEN Free(m, {toward}) ELSE {}

(* The steps among which it chooses.                                       *)
GetRandomStep(m) == Free(m, Straight)

DistanceStep(m, flee) ==
  LET o == Minus(m.pos, m.target)
  IN  CASE o = Here -> GetRandomStep(m)
        [] o # Here /\ Away(o[1]) = Away(o[2]) -> StepFromCorner(m, <<Side(o[1]), Side(o[2])>>, flee)
        [] Away(o[2]) > Away(o[1]) -> StepFromSide(m, <<0, Side(o[2])>>, West, East, o[1], flee)
        [] OTHER -> StepFromSide(m, <<Side(o[1]), 0>>, North, South, o[2], flee)

(* Not when it is as far as it likes; when it is farther, or does not see  *)
(* the target, it looks for a path instead.                                *)
GetDistanceStep(m, sight, flee) ==
  IF flee \/ (sight /\ Far(Minus(m.pos, m.target)) < TargetDistance) THEN DistanceStep(m, flee) ELSE {}

CanUseAttack(m, p, sight) == Far(Minus(p, m.target)) <= AttackRange /\ sight

GetDanceStep(m, sight, keepAttack, keepDistance) ==
  LET o == Minus(m.pos, m.target)
  IN  {d \in Free(m, Straight) :
         /\ keepDistance => d[1] * o[1] + d[2] * o[2] >= 0
         /\ Far(Plus(o, d)) = Far(o)
         /\ keepAttack /\ CanUseAttack(m, m.pos, sight) => CanUseAttack(m, Plus(m.pos, d), sight)}

-----------------------------------------------------------------------------
Init ==
  \E p, q \in Tiles :
    /\ p # q
    /\ monster = UpdateMapCache([pos |-> p, target |-> q, thing |-> [t \in Tiles |-> "none"], cache |-> {},
                                 step |-> Here, slid |-> FALSE, missed |-> {}])

(* The step is chosen now and made with the next event of the walk.        *)
GetNextStep ==
  /\ monster.step = Here
  /\ \E sight, flag, keep \in BOOLEAN :
       \E d \in GetDistanceStep(monster, sight, flag) \union GetDanceStep(monster, sight, flag, keep)
                  \union GetRandomStep(monster) :
         monster' = [monster EXCEPT !.step = d]

Step ==
  /\ monster.step # Here
  /\ monster' = [(IF QueryAdd(monster, Plus(monster.pos, monster.step)) THEN Moved(monster, monster.step) ELSE monster)
                   EXCEPT !.step = Here]

Teleported ==
  \E p \in Tiles \ {monster.pos, monster.target} :
    monster' = [UpdateMapCache([monster EXCEPT !.pos = p]) EXCEPT !.step = Here]

(* The target comes and goes; whoever sees either end is told.             *)
TargetMoves ==
  \E p \in Tiles \ {monster.pos, monster.target} :
    /\ monster.thing[p] = "none"
    /\ monster' = UpdateTileCache(UpdateTileCache([monster EXCEPT !.target = p], p), monster.target)

AddTileItem ==
  \E p \in Changing \ {monster.pos, monster.target}, k \in {"wall", "teleport"} :
    /\ monster.thing[p] = "none"
    /\ monster' = UpdateTileCache([monster EXCEPT !.thing[p] = k], p)

(* Only what blocks, or the ground, is missed when it goes.                *)
RemoveTileItem ==
  \E p \in Changing :
    /\ monster.thing[p] # "none"
    /\ LET m == [monster EXCEPT !.thing[p] = "none"]
       IN  monster' = IF monster.thing[p] = "wall" THEN UpdateTileCache(m, p) ELSE [m EXCEPT !.missed = @ \union {p}]

Next == GetNextStep \/ Step \/ Teleported \/ TargetMoves \/ AddTileItem \/ RemoveTileItem

-----------------------------------------------------------------------------
(* What the monster thinks it may enter is so: except beside, when it has  *)
(* stepped to the south and aside since it last looked at everything, and  *)
(* where a teleport was taken away.                                        *)
CacheExact ==
  \A d \in Window \ {Here} :
    \/ monster.slid \/ Plus(monster.pos, d) \in monster.missed
    \/ (d \in monster.cache) = QueryAdd(monster, Plus(monster.pos, d))

(* Keeping its distance it never comes nearer; fleeing it does only when   *)
(* it can go neither back nor aside.                                       *)
StepsSound ==
  LET o == Minus(monster.pos, monster.target)
      Nearer(d) == Far(Plus(o, d)) < Far(o)
      Back == {d \in Directions : d[1] * o[1] + d[2] * o[2] >= 0 /\ ~Nearer(d)}
  IN  \A flee \in BOOLEAN : \A d \in GetDistanceStep(monster, TRUE, flee) :
        /\ QueryAdd(monster, Plus(monster.pos, d))
        /\ Nearer(d) => flee /\ Free(monster, Back) = {}
=============================================================================
