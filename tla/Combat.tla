-------------------------------- MODULE Combat --------------------------------
(***************************************************************************)
(* Players who fight each other in an open world: blows and what blocks or *)
(* absorbs them (Game::combatBlockHit, combatChangeHealth), death, which   *)
(* comes with the next check of the creatures and not with the blow        *)
(* (Game::checkCreatures, Creature::onDeath, Player::death), and the marks *)
(* of who attacked whom, locks, skulls and unjustified kills (player.cpp), *)
(* over logouts, kicks and logins.                                         *)
(* Durations are left open: a fight, a poison and a frag may end whenever  *)
(* the code looks.  A frag is the time of one unjustified kill, skullTicks *)
(* are counted in whole ones, rounded up.  checkSkullTicks computes in     *)
(* int32_t, which has room for Countable frags only.  Left out: parties,   *)
(* guild wars, flags of groups, leech, criticals, scripts, the weapons'    *)
(* formulas.                                                               *)
(***************************************************************************)
EXTENDS Integers, FiniteSets, FiniteSetsExt, Functions

CONSTANTS
  Players, Beasts, \* beasts are attackers without marks
  Nobody, Gone,    \* no attacker, and one who is not in the game any more
  Zones,           \* of "open", "arena" (ZONE_PVP) and "temple" (protection zone)
  MaxHealth, MaxMana,
  Shielded,        \* who has a mana shield
  Strikes,         \* who ever strikes whom, <<attacker, target>>
  Leavers,         \* who ever leaves alive
  Poisoners,       \* whose blows may poison
  Levels,          \* who may advance
  MaxBlow,
  KillsToRed, KillsToBlack, MaxFrags,
  Countable,       \* frags whose time an int32_t has room for: 24 with 24 hours each
  MaxPoints        \* bound on what somebody takes before he dies or has rest

Attackers == Players \union Beasts

CombatAssumption ==
  /\ IsFiniteSet(Attackers)
  /\ Nobody \notin Attackers /\ Gone \notin Attackers \union {Nobody} /\ Players \intersect Beasts = {}
  /\ Zones \subseteq {"open", "arena", "temple"} /\ "open" \in Zones
  /\ MaxHealth \in Nat \ {0} /\ MaxMana \in Nat /\ Shielded \subseteq Players
  /\ Strikes \subseteq Attackers \X Players /\ \A e \in Strikes : e[1] # e[2]
  /\ Poisoners \subseteq Players /\ Levels \subseteq Players /\ Leavers \subseteq Players
  /\ {MaxBlow, KillsToRed, KillsToBlack, MaxFrags, MaxPoints} \subseteq Nat
  /\ Countable \in Nat \ {0}

VARIABLE fight

(* began and slayer are history: whom somebody struck who had not struck   *)
(* him, until the fight is over; and who struck the last blow.             *)
NoPoints == [a \in Attackers |-> 0]
Home == IF "temple" \in Zones THEN "temple" ELSE "open"

Init ==
  \E z \in Zones :
    fight = [online |-> Players, zone |-> [p \in Players |-> z],
             health |-> [p \in Players |-> MaxHealth], mana |-> [p \in Players |-> MaxMana],
             skull |-> [p \in Players |-> "none"], frags |-> [p \in Players |-> 0],
             attacked |-> [p \in Players |-> {}], inFight |-> {}, locked |-> {},
             points |-> [p \in Players |-> NoPoints], lastHit |-> [p \in Players |-> Nobody],
             skillLoss |-> Players, poison |-> [p \in Players |-> Nobody],
             losses |-> {}, began |-> [p \in Players |-> {}], slayer |-> [p \in Players |-> Nobody]]

-----------------------------------------------------------------------------
(* Marks.                                                                  *)
SkullClient(s, p, q) ==
  IF s.skull[q] # "none" THEN s.skull[q] ELSE IF p \in s.attacked[q] THEN "yellow" ELSE "none"
Protected(s, p, q) == s.skull[p] = "black" /\ SkullClient(s, p, q) = "none"

LockedInFight(s, p) == [s EXCEPT !.inFight = @ \union {p}]

(* Who struck first is marked, and locked; who strikes back is only marked,*)
(* and not even that if he sees another skull than yellow.                 *)
Marked(s, p, q) ==
  IF s.skull[p] = "none" /\ SkullClient(s, p, q) = "yellow" THEN [s EXCEPT !.attacked[p] = @ \union {q}]
  ELSE IF p \in s.attacked[q] THEN s
  ELSE [s EXCEPT !.locked = @ \union {p}, !.attacked[p] = @ \union {q},
                 !.skull[p] = IF @ = "none" /\ s.skull[q] = "none" THEN "white" ELSE @]

OnAttackedCreature(s, p, q) ==
  LET t == IF p \in s.began[q] THEN s ELSE [s EXCEPT !.began[p] = @ \union {q}]
  IN  IF s.zone[q] = "arena" THEN s ELSE LockedInFight(Marked(t, p, q), p)

AddUnjustifiedDead(s, k) ==
  LET n == IF s.frags[k] < MaxFrags THEN s.frags[k] + 1 ELSE s.frags[k]
  IN  [s EXCEPT !.frags[k] = n,
                !.skull[k] = IF @ # "black" /\ n >= KillsToBlack THEN "black"
                             ELSE IF @ \notin {"black", "red"} /\ n >= KillsToRed THEN "red" ELSE @]

IdleStatus(s, p) ==
  IF s.health[p] = 0 THEN s ELSE [s EXCEPT !.points[p] = NoPoints, !.lastHit[p] = Nobody, !.slayer[p] = Nobody]

EndCondition(s, p) ==
  IF p \notin s.inFight THEN s
  ELSE LET t == IdleStatus(s, p)
       IN  [t EXCEPT !.inFight = @ \ {p}, !.locked = @ \ {p}, !.attacked[p] = {}, !.began[p] = {},
                     !.skull[p] = IF @ = "white" THEN "none" ELSE @]

-----------------------------------------------------------------------------
(* Blows.                                                                  *)
BlockHit(s, a, q) ==
  LockedInFight(IF a \in Players THEN OnAttackedCreature(s, a, q) ELSE s, q)

AddDamagePoints(s, a, q, n) ==
  IF n = 0 \/ a \notin Attackers THEN s ELSE [s EXCEPT !.points[q][a] = @ + n, !.lastHit[q] = a]

(* The shield is used up first; no more is taken than there is.            *)
ChangeHealth(s, a, q, d) ==
  LET m == IF q \in Shielded THEN Min({s.mana[q], d}) ELSE 0
      r == Min({s.health[q], d - m})
      t == AddDamagePoints(s, a, q, m + r)
  IN  [t EXCEPT !.mana[q] = @ - m, !.health[q] = @ - r,
                !.slayer[q] = IF s.health[q] > 0 /\ s.health[q] = r THEN a ELSE @]

Here(s, p) == p \in s.online
Alive(s, p) == Here(s, p) /\ s.health[p] > 0
Untired(s, q) == \A a \in Attackers : s.points[q][a] < MaxPoints

MayHit(s, a, q) ==
  /\ <<a, q>> \in Strikes /\ Here(s, q) /\ s.zone[q] # "temple" /\ Untired(s, q)
  /\ a \in Players => Here(s, a) /\ s.zone[a] # "temple" /\ ~Protected(s, a, q)

Hit(a, q) ==
  /\ MayHit(fight, a, q)
  /\ \E d \in 0 .. MaxBlow, poisons \in BOOLEAN :
       LET t == ChangeHealth(BlockHit(fight, a, q), a, q, d)
       IN  /\ poisons => a \in Poisoners
           /\ fight' = IF poisons THEN [t EXCEPT !.poison[q] = a] ELSE t

(* A poison strikes for whom it comes from, wherever both are.             *)
Burn(q) ==
  LET a == fight.poison[q]
  IN  /\ Alive(fight, q) /\ a # Nobody /\ Untired(fight, q)
      /\ a \in Players => ~Protected(fight, a, q)
      /\ fight' = ChangeHealth(BlockHit(fight, a, q), a, q, 1)

Cure(q) == Alive(fight, q) /\ fight.poison[q] # Nobody /\ fight' = [fight EXCEPT !.poison[q] = Nobody]

-----------------------------------------------------------------------------
(* Leaving and coming.                                                     *)
Saved(s, P) == [s EXCEPT !.health = [p \in Players |-> IF p \in P /\ @[p] = 0 THEN 1 ELSE @[p]]]

(* What is not stored is lost, and the id, by which others know him.       *)
Removed(s, p) ==
  LET t == Saved(s, {p})
  IN  [t EXCEPT !.online = @ \ {p}, !.locked = @ \ {p}, !.attacked[p] = {}, !.began[p] = {},
                !.skull[p] = IF @ = "white" THEN "none" ELSE @, !.skillLoss = @ \union {p},
                !.lastHit = [q \in Players |-> IF q = p \/ @[q] = p THEN Nobody ELSE @[q]],
                !.slayer = [q \in Players |-> IF q = p \/ @[q] = p THEN Nobody ELSE @[q]],
                !.points = [q \in Players |-> IF q = p THEN NoPoints
                                              ELSE [@[q] EXCEPT ![p] = 0]],
                !.poison = [q \in Players |-> IF @[q] # Nobody /\ (q = p \/ @[q] = p) THEN Gone ELSE @[q]]]

MayLogout(s, p) == s.zone[p] = "temple" \/ p \notin s.inFight

Logout(p) ==
  /\ Here(fight, p) /\ p \in Leavers
  /\ \E forced \in BOOLEAN : (forced \/ MayLogout(fight, p)) /\ fight' = Removed(fight, p)

(* The time of the frags goes on outside; skulls need it.                  *)
Login(p) ==
  /\ ~Here(fight, p)
  /\ \E n \in 0 .. fight.frags[p] :
       fight' = [fight EXCEPT !.online = @ \union {p}, !.losses = @ \ {p}, !.frags[p] = n,
                              !.skull[p] = IF n > 0 THEN @ ELSE "none"]

(* Who is locked may neither come to an arena or a temple nor leave one.   *)
Walk(p, z) ==
  /\ Alive(fight, p) /\ z # fight.zone[p]
  /\ p \in fight.locked => fight.zone[p] = "temple" /\ z = "open"
  /\ fight' = [fight EXCEPT !.zone[p] = z]

-----------------------------------------------------------------------------
(* Death, with the next check of who has no health left.                   *)
WhoeverBegan(s, k, q) ==
  k # q /\ ~(s.zone[k] = "arena" /\ s.zone[q] = "arena") /\ q \in s.attacked[k]
Unjustified(s, k, q) ==
  /\ k # q /\ ~(s.zone[k] = "arena" /\ s.zone[q] = "arena")
  /\ q \in s.attacked[k] /\ k \notin s.attacked[q]

OnKilledCreature(s, k, q, last) ==
  IF k \notin Players THEN s
  ELSE IF s.zone[q] = "arena" THEN [s EXCEPT !.skillLoss = @ \ {q}]
  ELSE IF ~Unjustified(s, k, q) THEN s
  ELSE LET t == IF s.skull[q] = "none" THEN AddUnjustifiedDead(s, k) ELSE s
       IN  IF last /\ k \in s.inFight THEN [t EXCEPT !.locked = @ \union {k}] ELSE t

Forgiven(s, q) ==
  [s EXCEPT !.attacked = [a \in Players |-> IF s.points[q][a] > 0 THEN @[a] \ {q} ELSE @[a]],
            !.began = [a \in Players |-> @[a] \ {q}]]

(* Who dealt most of what is recent: as old as the others are, anybody.    *)
MostDamage(s, q) == {a \in Attackers : s.points[q][a] > 0} \union {Nobody}

Killed(s, q, most) ==
  LET t == Forgiven(OnKilledCreature(s, s.lastHit[q], q, TRUE), q)
  IN  IF most \in {Nobody, s.lastHit[q]} THEN t ELSE OnKilledCreature(t, most, q, FALSE)

Penalty(s, q) ==
  LET black == s.skull[q] = "black"
  IN  [s EXCEPT !.losses = @ \union {q}, !.health[q] = IF black THEN 1 ELSE MaxHealth,
                !.mana[q] = IF black THEN 0 ELSE MaxMana]

Death(s, q) ==
  LET t == IF q \in s.skillLoss THEN Penalty(s, q)
           ELSE [s EXCEPT !.skillLoss = @ \union {q}, !.health[q] = MaxHealth]
      u == EndCondition([t EXCEPT !.poison[q] = Nobody], q)
  IN  IdleStatus([u EXCEPT !.zone[q] = Home], q)

OnDeath(q) ==
  /\ Here(fight, q) /\ fight.health[q] = 0
  /\ \E most \in MostDamage(fight, q) :
       LET stays == fight.zone[q] = "arena" /\ fight.lastHit[q] \in Players
           t == Death(Killed(fight, q, most), q)
       IN  fight' = IF stays THEN t ELSE Removed(t, q)

-----------------------------------------------------------------------------
(* What time brings.                                                       *)
EndFight(p) == Alive(fight, p) /\ p \in fight.inFight /\ fight' = EndCondition(fight, p)

(* newTicks of n frags: what has no room is negative, and so 0, or the     *)
(* remainder of the division by 2^32, whatever it is.                      *)
NewTicks(n) ==
  IF n <= Countable THEN {n, Max({0, n - 1})}
  ELSE IF n = Countable + 1 THEN {0, n - 1, n} ELSE 0 .. Countable + 1

CheckSkullTicks(p) ==
  /\ Alive(fight, p) /\ (fight.skull[p] \in {"red", "black"} \/ fight.frags[p] > 0)
  /\ \E n \in NewTicks(fight.frags[p]) :
       fight' = [fight EXCEPT !.frags[p] = n,
                              !.skull[p] = IF @ \in {"red", "black"} /\ n = 0 /\ p \notin fight.inFight
                                           THEN "none" ELSE @]

AddExperience(p) ==
  p \in Levels /\ Here(fight, p) /\ fight' = [fight EXCEPT !.health[p] = MaxHealth, !.mana[p] = MaxMana]

SaveGameState == fight' = Saved(fight, fight.online)

Next ==
  \/ \E a \in Attackers, q \in Players : Hit(a, q)
  \/ \E p \in Players, z \in Zones : Walk(p, z)
  \/ \E p \in Players :
       \/ Burn(p) \/ Cure(p) \/ OnDeath(p) \/ Logout(p) \/ Login(p)
       \/ EndFight(p) \/ CheckSkullTicks(p) \/ AddExperience(p)
  \/ SaveGameState

-----------------------------------------------------------------------------
(* Marks, locks and white skulls end with the fight they come from.        *)
MarksInFight ==
  \A p \in fight.online :
    fight.attacked[p] # {} \/ p \in fight.locked \/ fight.skull[p] = "white" => p \in fight.inFight

(* What attackers are credited with is what their victim has lost.         *)
Whole(s, q) == s.health[q] + s.mana[q]
Credit(s, q) == SumFunction(s.points[q])
CreditedForLosses ==
  \A q \in fight.online \intersect fight'.online :
    Credit(fight', q) > Credit(fight, q) =>
      Credit(fight', q) - Credit(fight, q) = Whole(fight, q) - Whole(fight', q)

(* Nobody is blamed for killing who began the fight, unless he had a skull *)
(* and still bears the mark of an earlier fight with him.                  *)
Dies(q) == Here(fight, q) /\ fight.health[q] = 0 /\ q \notin fight'.inFight
BlamedOnlyIfBegan ==
  \A k \in Players : Here(fight, k) /\ Here(fight', k) /\ fight'.frags[k] > fight.frags[k] =>
    \E q \in Players : Dies(q) /\ (k \in fight.began[q] => fight.skull[k] # "none")

(* Red and black skulls are borne until the frags are over and the fight   *)
(* too, or the player is elsewhere; and black does not become red.  Frags  *)
(* end one by one, but for what Player::checkSkullTicks loses: a player who*)
(* has more than Countable may have none after its next call, and be rid of*)
(* the skull with the end of the fight.                                    *)
Served(p) == fight'.frags[p] = 0 /\ (Here(fight, p) => p \notin fight.inFight)
SkullServed ==
  \A p \in Players :
    /\ fight.skull[p] = "black" => fight'.skull[p] = "black" \/ Served(p)
    /\ fight.skull[p] = "red" => fight'.skull[p] \in {"red", "black"} \/ Served(p)
    /\ Here(fight, p) /\ fight'.frags[p] + 1 < fight.frags[p] => fight.frags[p] > Countable

(* Whom a player kills in an arena loses nothing, unless that player has   *)
(* left between the blow and the death.                                    *)
ArenaIsFree ==
  \A q \in fight'.losses \ fight.losses : ~(fight.zone[q] = "arena" /\ fight.slayer[q] \in Players)
=============================================================================
