------------------------------ MODULE Modifiers ------------------------------
(***************************************************************************)
(* What changes a player's speed and maximum health, and has to be undone: *)
(* conditions (condition.cpp, creature.cpp), what he wears (movement.cpp), *)
(* his mount and his level (player.cpp, game.cpp).                         *)
(*                                                                         *)
(* Speed is varSpeed, health is varStats[STAT_MAXHITPOINTS].  How long a   *)
(* condition lasts is left open: unless it is forever its endTime passes at*)
(* any time and the next check takes it off, and a new one of its kind     *)
(* outlasts it or not.  A condition is known while its endTime is not past:*)
(* hasCondition asks for that, getCondition and removeCondition do not, and*)
(* what is forever without having been constructed so is never known.      *)
(* Left out: skills, which go like health, conditions that modify nothing, *)
(* subIds, suppression, damage over time (of which Effects speaks).        *)
(***************************************************************************)
EXTENDS Integers, Sequences, SequencesExt, FiniteSets, FiniteSetsExt

CONSTANTS
  Catalogue,               \* the conditions that somebody may add
  Levels, BaseHealth, HealthGain,
  Percent,                 \* what conditions and the item add to health
  ItemSpeed,               \* abilities of the item
  Mounts, NoMount, MountSpeed,
  MaxEvents                \* bound: events the scheduler has for the player

(* What the constants have to be.                                          *)
ModifiersAssumption ==
  /\ Levels \subseteq Nat \ {0} /\ {BaseHealth, HealthGain, Percent, ItemSpeed} \subseteq Nat
  /\ MountSpeed \in [Mounts -> Nat] /\ NoMount \notin Mounts

VARIABLE body

Fresh(level, mount, worn) ==
  [level |-> level, mount |-> mount, mounted |-> FALSE, remount |-> FALSE, safe |-> FALSE,
   worn |-> worn, wornAt |-> level, conds |-> <<>>, events |-> {},
   speed |-> IF worn THEN ItemSpeed ELSE 0, health |-> 0, defends |-> TRUE]

Init == \E l \in Levels, m \in Mounts : body = Fresh(l, m, FALSE)

Share(n) == (n * Percent) \div 100
HealthMax(s) == BaseHealth + HealthGain * (s.level - 1)
MaxHealth(s) == Max({1, HealthMax(s) + s.health})
Listed(s, type) == \E i \in DOMAIN s.conds : s.conds[i].type = type
Has(s, type) == \E i \in DOMAIN s.conds : s.conds[i].type = type /\ s.conds[i].known
IsSpeed(c) == c.type \in {"haste", "paralyze"}
Opposite(type) == CASE type = "haste" -> "paralyze" [] type = "paralyze" -> "haste" [] OTHER -> "none"

-----------------------------------------------------------------------------
(* The effects of a condition, and the end of them.                        *)
WithHealth(s, c) == [c EXCEPT !.health = IF c.percent THEN Share(MaxHealth(s)) ELSE @]

Apply(s, c) ==
  IF IsSpeed(c) THEN [s EXCEPT !.speed = @ + c.delta]
  ELSE IF c.type = "attributes" THEN [s EXCEPT !.health = @ + c.health] ELSE s

EndCondition(s, c) ==
  IF IsSpeed(c) THEN [s EXCEPT !.speed = @ - c.delta]
  ELSE IF c.type = "attributes" THEN [s EXCEPT !.health = @ - c.health, !.defends = @ \/ c.disables]
  ELSE s

EndAll(s, Which(_)) ==
  LET Keeps(c) == ~Which(c)
      kept == [s EXCEPT !.conds = SelectSeq(@, Keeps)]
  IN  FoldSeq(LAMBDA c, u : EndCondition(u, c), kept, SelectSeq(s.conds, Which))

(* removeCondition of a type: who walks keeps his paralysis for this step. *)
RemoveCondition(s, type, walks) ==
  LET Is(c) == c.type = type
  IN  IF type = "paralyze" /\ walks /\ Listed(s, type)
      THEN [s EXCEPT !.events = @ \union {[what |-> "remove"]}]
      ELSE EndAll(s, Is)

GetOff(s) == [s EXCEPT !.mounted = FALSE]
Dismount(s) ==
  [s EXCEPT !.speed = IF s.mount # NoMount THEN @ - MountSpeed[s.mount] ELSE @, !.mounted = FALSE]

OnAddCondition(s, type, walks) ==
  CASE Has(s, Opposite(type)) -> RemoveCondition(s, Opposite(type), walks)
    [] type = "outfit" /\ s.mounted -> Dismount(s)
    [] OTHER -> s

(* startCondition.  beside is history: the opposite was there, unknown.    *)
Start(s, c, walks) ==
  LET opposite == Opposite(c.type)
      d == [WithHealth(s, c) EXCEPT !.beside = Listed(s, opposite) /\ ~Has(s, opposite)]
      u == [Apply(s, d) EXCEPT !.defends = IF c.type = "attributes" THEN ~c.disables ELSE @]
  IN  OnAddCondition([u EXCEPT !.conds = Append(@, d)], c.type, walks)

(* addCondition of the condition that is there already: setTicks(-1) has it*)
(* end a millisecond ago.                                                  *)
Merge(s, i, c, outlasts) ==
  LET old == s.conds[i]
      bare == EndCondition(s, old)
      d == [WithHealth(bare, c) EXCEPT !.known = ~c.forever, !.beside = old.beside]
  IN  IF \/ old.forever /\ ~c.forever
         \/ ~(IsSpeed(c) \/ c.forever \/ outlasts) /\ old.known
      THEN s
      ELSE [Apply(bare, d) EXCEPT !.conds[i] = d]

AddCondition(s, c, force, walks, outlasts) ==
  LET same == {i \in DOMAIN s.conds : s.conds[i].type = c.type /\ s.conds[i].id = c.id}
  IN  IF ~force /\ c.type = "haste" /\ Has(s, "paralyze") /\ walks
      THEN [s EXCEPT !.events = @ \union {[what |-> "add", c |-> c]}]
      ELSE IF same = {} THEN Start(s, c, walks)
      ELSE Merge(s, CHOOSE i \in same : TRUE, c, outlasts)

-----------------------------------------------------------------------------
Bounded(s) == Cardinality(s.events) <= MaxEvents /\ body' = s

Add(c) == \E walks, outlasts \in BOOLEAN : Bounded(AddCondition(body, c, FALSE, walks, outlasts))

(* The endTime of one has passed.                                          *)
Lapse(i) ==
  /\ ~body.conds[i].forever /\ body.conds[i].known
  /\ body' = [body EXCEPT !.conds[i].known = FALSE]

(* executeConditions: one has run out.                                     *)
Expire(i) ==
  /\ ~body.conds[i].forever /\ ~body.conds[i].known
  /\ body' = EndCondition([body EXCEPT !.conds = RemoveAt(@, i)], body.conds[i])

(* removeCondition by a spell, an item or a script.                        *)
Dispel(type) == Listed(body, type) /\ \E walks \in BOOLEAN : Bounded(RemoveCondition(body, type, walks))

(* Game::forceAddCondition and Game::forceRemoveCondition.                 *)
Force(e) ==
  LET s == [body EXCEPT !.events = @ \ {e}]
  IN  IF e.what = "remove" THEN body' = RemoveCondition(s, "paralyze", FALSE)
      ELSE \E walks, outlasts \in BOOLEAN : Bounded(AddCondition(s, e.c, TRUE, walks, outlasts))

(* addExperience and removeExperience.                                     *)
ChangeLevel(n) == n # body.level /\ body' = [body EXCEPT !.level = n]

EquipItem ==
  /\ ~body.worn
  /\ body' = [body EXCEPT !.worn = TRUE, !.wornAt = body.level, !.speed = @ + ItemSpeed,
                          !.health = @ + Share(HealthMax(body))]

DeEquipItem ==
  /\ body.worn
  /\ body' = [body EXCEPT !.worn = FALSE, !.speed = @ - ItemSpeed,
                          !.health = @ - Share(HealthMax(body))]

Mounted(s) == [s EXCEPT !.mounted = TRUE, !.speed = @ + MountSpeed[s.mount]]
MayMount(s) == ~s.mounted /\ s.mount # NoMount /\ ~Has(s, "outfit") /\ ~s.safe

ToggleMount ==
  \/ body.mounted /\ body' = Dismount(body)
  \/ MayMount(body) /\ body' = Mounted(body)

PlayerChangeOutfit(m) ==
  body' = IF m = NoMount THEN IF body.mounted THEN Dismount(body) ELSE body
          ELSE IF body.mounted /\ body.mount # NoMount
          THEN [body EXCEPT !.mount = m, !.speed = @ + MountSpeed[m] - MountSpeed[body.mount]]
          ELSE [body EXCEPT !.mount = m]

UntameMount ==
  /\ body.mount # NoMount
  /\ body' = [(IF body.mounted THEN Dismount(body) ELSE body) EXCEPT !.mount = NoMount]

ChangeZone(s, safe) ==
  LET u == [s EXCEPT !.safe = safe]
  IN  IF safe THEN IF u.mounted THEN [Dismount(u) EXCEPT !.remount = TRUE] ELSE u
      ELSE [(IF u.remount /\ MayMount(u) THEN Mounted(u) ELSE u) EXCEPT !.remount = FALSE]

OnChangeZone == body' = ChangeZone(body, ~body.safe)

(* A logout with what is saved, and the login: what is worn is put on and  *)
(* the conditions are added, the last one first; of an attribute condition *)
(* only its values are saved.  The ticks of the spent are counted down to  *)
(* 0: they start without an endTime.  Events of the old find nobody.       *)
Persistent(c) == ~c.forever
Saved(c, known) == [c EXCEPT !.percent = FALSE, !.disables = FALSE, !.known = known]

LoggedIn(s, spent) ==
  LET new == Fresh(s.level, s.mount, s.worn)
      dressed == [new EXCEPT !.health = IF s.worn THEN Share(HealthMax(s)) ELSE 0]
      saved == [i \in DOMAIN s.conds |-> Saved(s.conds[i], i \notin spent)]
  IN  FoldRight(LAMBDA c, u : AddCondition(u, c, FALSE, FALSE, TRUE),
                SelectSeq(saved, Persistent), dressed)

Relogin == \E spent \in SUBSET DOMAIN body.conds : body' = LoggedIn(body, spent)

(* Player::death: persistent conditions end; who dies in an arena wakes up *)
(* in the temple, others lose levels and are gone until they log in.       *)
Die(n) ==
  LET s == EndAll(body, Persistent)
  IN  \/ \E safe \in BOOLEAN : n = body.level /\ body' = ChangeZone(s, safe)
      \/ body' = LoggedIn([s EXCEPT !.level = n], {})

Next ==
  \/ \E c \in Catalogue : Add(c)
  \/ \E i \in DOMAIN body.conds : Lapse(i) \/ Expire(i)
  \/ \E type \in {"haste", "paralyze", "outfit"} : Dispel(type)
  \/ \E e \in body.events : Force(e)
  \/ \E n \in Levels : ChangeLevel(n)
  \/ \E n \in {k \in Levels : k <= body.level} : Die(n)
  \/ EquipItem \/ DeEquipItem
  \/ ToggleMount \/ UntameMount \/ OnChangeZone
  \/ \E m \in Mounts \union {NoMount} : PlayerChangeOutfit(m)
  \/ Relogin

-----------------------------------------------------------------------------
Total(s, Value(_)) == FoldSeq(LAMBDA c, n : n + Value(c), 0, s.conds)

(* varSpeed is what conditions, the item and the mount add: no way to get  *)
(* or to lose one of them, in whatever order, leaves a difference behind.  *)
SpeedAdds ==
  LET Delta(c) == c.delta
  IN  body.speed = Total(body, Delta) + (IF body.worn THEN ItemSpeed ELSE 0)
                   + IF body.mounted THEN MountSpeed[body.mount] ELSE 0

(* What varStats has beyond what conditions and the item added to it.      *)
Drift(s) ==
  LET Health(c) == c.health
      atWearing == BaseHealth + HealthGain * (s.wornAt - 1)
  IN  s.health - Total(s, Health) - IF s.worn THEN Share(atWearing) ELSE 0

(* The maximum health changes for good only when an item that adds a share *)
(* of it is taken off at another level than it was put on (DeEquipItem     *)
(* takes off the share of the present level); a login mends that.          *)
DriftsOnlyByLevel ==
  Drift(body') # Drift(body) =>
    \/ body.worn /\ ~body'.worn /\ body.level # body.wornAt
    \/ Drift(body') = 0 /\ body'.events = {}

(* Haste and paralysis meet only while the removal of the paralysis is     *)
(* scheduled, or if the one was no longer or never known to hasCondition   *)
(* when the other began: it lapsed and was not checked since, or was made  *)
(* forever by a renewal or a script; a renewal never brings them together. *)
(* And who cannot defend himself has a condition that says so.             *)
EffectsExplained ==
  /\ \A j \in DOMAIN body.conds : \A i \in 1 .. j - 1 :
       body.conds[i].type = Opposite(body.conds[j].type) =>
         body.conds[j].beside \/ [what |-> "remove"] \in body.events
  /\ ~body.defends => \E i \in DOMAIN body.conds : body.conds[i].disables
=============================================================================
