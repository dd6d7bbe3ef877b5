------------------------------- MODULE WorldWild -------------------------------
(* Spawns, raids and fights as parts of MCRealm.                           *)
EXTENDS Integers

VARIABLES den, raids, fight

-----------------------------------------------------------------------------
(* What happens in the wild by itself: a spawn of two places, and raids,   *)
(* one of which may not be repeated and one of which is empty.             *)
SP == INSTANCE Spawns WITH Size <- 2, IntervalOf <- <<2, 3>>, CheckInterval <- 2, RateSpawn <- 1, Monsters <- 1 .. 5
RD == INSTANCE Raids WITH Names <- {"often", "once", "empty"}, Repeats <- {"often", "empty"},
        Events <- [n \in {"often", "once", "empty"} |-> IF n = "empty" THEN 0 ELSE 2], MaxReloads <- 2, NoRaid <- <<"none", 0>>

ASSUME WildAssumption == SP!SpawnsAssumption /\ RD!RaidsAssumption

WildScenes == {"spawn", "raid"}

WildInit(scene) == (IF scene = "spawn" THEN SP!Init ELSE den = {}) /\ (IF scene = "raid" THEN RD!Init ELSE raids = {})
WildRest == den = {} /\ raids = {}
WildStep(scene) ==
  \/ scene = "spawn" /\ SP!Next /\ UNCHANGED raids
  \/ scene = "raid" /\ RD!Next /\ UNCHANGED den

WildInvariant(scene) ==
  /\ scene = "spawn" => SP!OnePerPlace /\ SP!VacantIsWatched
  /\ scene = "raid" => RD!PendingExists
WildAction(scene) ==
  /\ scene = "spawn" => SP!NotTooSoon
  /\ scene = "raid" => RD!AloneUnlessForgotten

-----------------------------------------------------------------------------
(* Fights: a duel with a mana shield against poison, where a single murder *)
(* gives a red skull and a second a black one; an arena with a beast in it;*)
(* and a victim of two, who strikes one back.                              *)
DU == INSTANCE Combat WITH
        Players <- {"ann", "bob"}, Beasts <- {}, Nobody <- "nobody", Gone <- "gone", Zones <- {"open", "temple"},
        MaxHealth <- 1, MaxMana <- 1, Shielded <- {"ann"}, Strikes <- {<<"ann", "bob">>, <<"bob", "ann">>},
        Leavers <- {"bob"}, Poisoners <- {"bob"}, Levels <- {"ann"}, MaxBlow <- 2,
        KillsToRed <- 1, KillsToBlack <- 2, MaxFrags <- 3, Countable <- 1, MaxPoints <- 2
AR == INSTANCE Combat WITH
        Players <- {"ann", "bob"}, Beasts <- {"wolf"}, Nobody <- "nobody", Gone <- "gone",
        Zones <- {"open", "arena", "temple"}, MaxHealth <- 1, MaxMana <- 0, Shielded <- {},
        Strikes <- {<<"ann", "bob">>, <<"bob", "ann">>, <<"wolf", "ann">>},
        Leavers <- {"ann", "bob"}, Poisoners <- {}, Levels <- {}, MaxBlow <- 1,
        KillsToRed <- 2, KillsToBlack <- 2, MaxFrags <- 1, Countable <- 24, MaxPoints <- 1
MU == INSTANCE Combat WITH
        Players <- {"ann", "bob", "cid"}, Beasts <- {}, Nobody <- "nobody", Gone <- "gone", Zones <- {"open"},
        MaxHealth <- 1, MaxMana <- 0, Shielded <- {},
        Strikes <- {<<"ann", "bob">>, <<"bob", "ann">>, <<"cid", "bob">>},
        Leavers <- {}, Poisoners <- {}, Levels <- {}, MaxBlow <- 1,
        KillsToRed <- 2, KillsToBlack <- 2, MaxFrags <- 1, Countable <- 24, MaxPoints <- 1

ASSUME CombatAssumption == DU!CombatAssumption /\ AR!CombatAssumption /\ MU!CombatAssumption

CombatScenes == {"duel", "arena", "murder"}

CombatInit(scene) == CASE scene = "duel" -> DU!Init [] scene = "arena" -> AR!Init [] scene = "murder" -> MU!Init
CombatRest == fight = {}
CombatStep(scene) ==
  \/ scene = "duel" /\ DU!Next
  \/ scene = "arena" /\ AR!Next
  \/ scene = "murder" /\ MU!Next

CombatInvariant(scene) ==
  /\ scene = "duel" => DU!MarksInFight
  /\ scene = "arena" => AR!MarksInFight
  /\ scene = "murder" => MU!MarksInFight
CombatAction(scene) ==
  /\ scene = "duel" => DU!CreditedForLosses /\ DU!BlamedOnlyIfBegan /\ DU!SkullServed
  /\ scene = "arena" => AR!BlamedOnlyIfBegan /\ AR!ArenaIsFree
  /\ scene = "murder" => MU!CreditedForLosses /\ MU!BlamedOnlyIfBegan
=============================================================================
