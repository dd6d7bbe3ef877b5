-------------------------------- MODULE Spawns --------------------------------
(***************************************************************************)
(* One Spawn (spawn.cpp): places where a monster is to live, the monsters  *)
(* it has set there, and the event that looks for vacant places.  A monster*)
(* that has left the zone is kept under the number 0 and its place is given*)
(* to another.  Time goes in steps of which the places' intervals and the  *)
(* interval of the check are multiples.  Left out: NPCs, which never come  *)
(* back, what monsters do meanwhile, and scripts.                          *)
(***************************************************************************)
EXTENDS Integers, FiniteSets, SequencesExt

CONSTANTS
  Size,          \* of spawnMap, whose places are numbered from 1
  IntervalOf,    \* of a place
  CheckInterval, \* the smallest of them, and of a minute
  RateSpawn,
  Monsters       \* objects at most

Blocks == 1 .. Size

SpawnsAssumption ==
  /\ Size \in Nat /\ IntervalOf \in [Blocks -> Nat \ {0}]
  /\ CheckInterval \in Nat \ {0} /\ RateSpawn \in Nat \ {0}
  /\ \A b \in Blocks : CheckInterval <= IntervalOf[b]

VARIABLE den

(* Not one of the numbers, for an object that no spawn holds.              *)
Unheld == -1

(* age is the time since lastSpawn; quiet, for the properties, that since  *)
(* the place lost a monster.                                               *)
Empty == [under |-> [m \in Monsters |-> Unheld], alive |-> {}, away |-> {},
          check |-> Unheld, failed |-> FALSE,
          age |-> [b \in Blocks |-> IntervalOf[b]], quiet |-> [b \in Blocks |-> IntervalOf[b]]]

Spawned(s) == {m \in Monsters : s.under[m] # Unheld}
Vacant(s) == {b \in Blocks : \A m \in Monsters : s.under[m] # b}

SpawnMonster(s, b, m) ==
  [s EXCEPT !.under[m] = b, !.alive = @ \union {m}, !.age[b] = 0]

(* Nobody looks for what could not be placed.                              *)
Startup(s, B) ==
  LET free(t) == CHOOSE m \in Monsters : t.under[m] = Unheld
  IN  [FoldSet(LAMBDA b, t : SpawnMonster(t, b, free(t)), s, B) EXCEPT !.failed = B # Blocks]
Init == \E B \in SUBSET Blocks : den = Startup(Empty, B)

StartSpawnCheck(s) == IF s.check = Unheld THEN [s EXCEPT !.check = CheckInterval, !.failed = FALSE] ELSE s

(* A monster dies or is removed; the spawn still holds it.                 *)
OnRemove(m) ==
  /\ m \in den.alive
  /\ den' = StartSpawnCheck([den EXCEPT !.alive = @ \ {m}, !.away = @ \ {m},
                                        !.quiet = [b \in Blocks |-> IF b = den.under[m] THEN 0 ELSE @[b]]])

Wander(m) ==
  /\ m \in den.alive
  /\ den' = [den EXCEPT !.away = (@ \ {m}) \union ({m} \ @)]

OnlyRemoved(s) ==
  LET gone == Spawned(s) \ s.alive
  IN  [s EXCEPT !.under = [m \in Monsters |-> IF m \in gone THEN Unheld ELSE @[m]],
                !.age = [b \in Blocks |-> IF \E m \in gone : s.under[m] = b THEN 0 ELSE @[b]]]
Cleanup(s) ==
  LET u == OnlyRemoved(s)
  IN  [u EXCEPT !.under = [m \in Monsters |-> IF @[m] # Unheld /\ m \in s.away THEN 0 ELSE @[m]]]

(* One place after the other; where a player sees it the interval begins   *)
(* again; not more than the rate allows.                                   *)
Visit(t, b, near, fails) ==
  LET s == t.spawn
      free == {m \in Monsters : s.under[m] = Unheld}
  IN  IF b \notin Vacant(s) \/ s.age[b] < IntervalOf[b] \/ t.count >= RateSpawn THEN t
      ELSE IF b \in near THEN [t EXCEPT !.spawn.age[b] = 0]
      ELSE [spawn |-> IF b \in fails THEN s ELSE SpawnMonster(s, b, CHOOSE m \in free : TRUE), count |-> t.count + 1]

CheckSpawn(near, fails) ==
  /\ den.check = 0
  /\ LET s == FoldLeft(LAMBDA t, b : Visit(t, b, near, fails),
                       [spawn |-> Cleanup([den EXCEPT !.check = Unheld]), count |-> 0],
                       [b \in Blocks |-> b]).spawn
     IN  den' = [s EXCEPT !.check = IF Cardinality(Spawned(s)) < Cardinality(Blocks) THEN CheckInterval ELSE Unheld]

(* The objects suffice for the next check.                                 *)
Enough == Cardinality({m \in Monsters : den.under[m] = Unheld \/ m \notin den.alive}) >= RateSpawn

Tick ==
  den' = [den EXCEPT
    !.check = IF @ > 0 THEN @ - 1 ELSE @,
    !.age = [b \in Blocks |-> IF @[b] < IntervalOf[b] THEN @[b] + 1 ELSE @[b]],
    !.quiet = [b \in Blocks |-> IF @[b] < IntervalOf[b] THEN @[b] + 1 ELSE @[b]]]

Next ==
  \/ \E m \in Monsters : OnRemove(m) \/ Wander(m)
  \/ Enough /\ \E near, fails \in SUBSET Blocks : CheckSpawn(near, fails)
  \/ Tick

-----------------------------------------------------------------------------
(* A place has one monster at most, and no object is held twice.           *)
OnePerPlace == \A m, n \in Monsters : den.under[m] = den.under[n] /\ den.under[m] \in Blocks => m = n

(* A place that is vacant, or whose monster is gone, is looked after by a  *)
(* check, except that checks end while others are kept under 0, for whom   *)
(* the sizes agree, and that none is begun for what failed at the startup  *)
(* (spawn.cpp: checkSpawn compares the sizes of two maps; startup).        *)
VacantIsWatched ==
  (\E b \in Blocks : \A m \in den.alive : den.under[m] # b) =>
    den.check # Unheld \/ den.failed \/ \E m \in Monsters : den.under[m] = 0

(* A place gets its next monster no sooner than its interval after one died*)
(* that was still its own, whenever the checks come.                       *)
NotTooSoon ==
  \A b \in Blocks, m \in Monsters :
    den'.under[m] = b /\ (den.under[m] # b \/ m \notin den.alive) /\ m \in den'.alive => den.quiet[b] >= IntervalOf[b]
=============================================================================
