------------------------------ MODULE Creatures ------------------------------
(***************************************************************************)
(* Creatures and what points to them: placeCreature, removeCreature, the   *)
(* lists of checkCreatures and the release list (game.cpp), masters,       *)
(* targets and deaths (creature.cpp), the lists of friends and targets and *)
(* the sleep of monsters (monster.cpp).                                    *)
(*                                                                         *)
(* Places lie on a line.  A monster sees as far as View, the spectators of *)
(* an event are those within Viewport.  cr is one record per creature; an  *)
(* operator takes the creatures before a call to those after it.  Those who *)
(* hear of an event do so in an order that a hash set of the code decides; *)
(* here whether a creature hears of its own removal before the others or   *)
(* after them is left open, and the order among the others is fixed.       *)
(* Left out: paths (a summon may lose its target instead), the choice of a *)
(* creature that stands in the way, players' flags and deaths, invisibility.*)
(***************************************************************************)
EXTENDS Integers, FiniteSets, FiniteSetsExt

CONSTANTS
  Monsters, Players, Nobody,
  Cells,               \* numbers: the distance is their difference
  View, Viewport,      \* Monster::canSee, Map::maxViewportX
  SummonRange,         \* where a master loses his summon
  Home, HomeRange      \* where spawned monsters belong, despawnRadius

Creatures == Monsters \union Players

(* What the constants have to be.                                          *)
CreaturesAssumption ==
  /\ Cells \subseteq Nat /\ {View, Viewport, SummonRange} \subseteq Nat
  /\ View <= Viewport /\ Viewport < SummonRange
  /\ IsFiniteSet(Creatures) /\ Monsters \cap Players = {} /\ Nobody \notin Creatures
  /\ Home \in [Monsters -> Cells \union {-1}]     \* -1: no spawn

VARIABLE cr

Init ==
  cr = [c \in Creatures |->
         [life |-> "unborn", slain |-> FALSE, pos |-> 0, master |-> Nobody, attacked |-> Nobody,
          follow |-> Nobody, targets |-> {}, friends |-> {}, condition |-> FALSE,
          check |-> FALSE, listed |-> FALSE, released |-> 0, refs |-> 0]]

Placed(v, c) == v[c].life = "placed"
Alive(v, c) == Placed(v, c) /\ ~v[c].slain
Near(v, c, x, d) == v[c].pos - x \in -d .. d
Spectators(v, x) == {c \in Creatures : Placed(v, c) /\ Near(v, c, x, Viewport)}
Sees(v, c, d) == Near(v, c, v[d].pos, IF c \in Monsters THEN View ELSE Viewport)
Summons(v, c) == {s \in Creatures : v[s].master = c}

AddRefs(v, S, n) ==
  [c \in Creatures |-> IF c \in S THEN [v[c] EXCEPT !.refs = @ + n] ELSE v[c]]
Over(S, Op(_, _), v) == FoldSet(LAMBDA c, u : Op(u, c), v, S)

-----------------------------------------------------------------------------
(* The list of checkCreatures, and the sleep of monsters.                  *)
AddCreatureCheck(v, c) ==
  IF v[c].listed THEN [v EXCEPT ![c].check = TRUE]
  ELSE [v EXCEPT ![c].check = TRUE, ![c].listed = TRUE, ![c].refs = @ + 1]

RemoveCreatureCheck(v, c) == [v EXCEPT ![c].check = @ /\ ~v[c].listed]

Dropped(v, m, t, f) ==
  AddRefs(AddRefs([v EXCEPT ![m].targets = @ \ t, ![m].friends = @ \ f], t, -1), f, -1)
ClearOnlyTargets(v, m) ==
  AddRefs([v EXCEPT ![m].targets = {}, ![m].friends = {}], v[m].targets, -1)
ClearLists(v, m) == Dropped(v, m, v[m].targets, v[m].friends)

SetIdle(v, m, idle) ==
  IF ~Alive(v, m) THEN v
  ELSE IF idle THEN RemoveCreatureCheck(ClearLists(v, m), m) ELSE AddCreatureCheck(v, m)

Quiet(v, m) == ~v[m].condition /\ v[m].master = Nobody /\ v[m].targets = {}
UpdateIdleStatus(v, m) == SetIdle(v, m, Quiet(v, m))

(* The lists of a monster.                                                 *)
IsFriend(v, m, c) ==
  IF v[m].master \in Players
  THEN v[m].master \in {c, v[c].master}
  ELSE c \in Monsters /\ v[c].master = Nobody

IsOpponent(v, m, c) ==
  IF v[m].master \in Players THEN c # v[m].master
  ELSE c \in Players \/ v[c].master \in Players

AddFriend(v, m, c) ==
  IF c \in v[m].friends THEN v
  ELSE AddRefs([v EXCEPT ![m].friends = @ \union {c}], {c}, 1)
RemoveFriend(v, m, c) ==
  IF c \notin v[m].friends THEN v ELSE AddRefs([v EXCEPT ![m].friends = @ \ {c}], {c}, -1)
AddTarget(v, m, c) ==
  IF c \in v[m].targets THEN v
  ELSE AddRefs([v EXCEPT ![m].targets = @ \union {c}], {c}, 1)
RemoveTarget(v, m, c) ==
  IF c \notin v[m].targets THEN v ELSE AddRefs([v EXCEPT ![m].targets = @ \ {c}], {c}, -1)

IfFriend(v, m, c, Op(_, _, _)) == IF IsFriend(v, m, c) THEN Op(v, m, c) ELSE v
IfOpponent(v, m, c, Op(_, _, _)) == IF IsOpponent(v, m, c) THEN Op(v, m, c) ELSE v
IdleWithoutTargets(v, m) == IF v[m].targets = {} THEN UpdateIdleStatus(v, m) ELSE v

OnCreatureFound(v, m, c) ==
  UpdateIdleStatus(IfOpponent(IfFriend(v, m, c, AddFriend), m, c, AddTarget), m)

OnCreatureLeave(v, m, c) ==
  LET Forget(u, d, e) == IdleWithoutTargets(RemoveTarget(u, d, e), d)
  IN  IfOpponent(IfFriend(v, m, c, RemoveFriend), m, c, Forget)

UpdateTargetList(v, m) ==
  LET Lost(S) == {c \in S : v[c].slain \/ ~Sees(v, m, c)}
      Find(u, c) == OnCreatureFound(u, m, c)
  IN  Over({c \in Spectators(v, v[m].pos) \ {m} : Sees(v, m, c)}, Find,
           Dropped(v, m, Lost(v[m].targets), Lost(v[m].friends)))

-----------------------------------------------------------------------------
(* Whom a creature attacks and follows; its summons attack the same.       *)
Aim(v, c, t) ==
  [v EXCEPT ![c].attacked = IF t = Nobody \/ Sees(v, c, t) THEN t ELSE Nobody]

SetAttackedCreature(v, c, t) ==
  IF t # Nobody /\ ~Sees(v, c, t) THEN [v EXCEPT ![c].attacked = Nobody]
  ELSE Over(Summons(v, c), LAMBDA u, s : Aim(u, s, t), Aim(v, c, t))

SetFollowCreature(v, c, t) ==
  [v EXCEPT ![c].follow = IF t = Nobody \/ Sees(v, c, t) THEN t ELSE Nobody]

SelectTarget(v, m, t) ==
  IF ~Placed(v, t) \/ t \notin v[m].targets THEN v
  ELSE SetFollowCreature(SetAttackedCreature(v, m, t), m, t)

StopAttack(v, c, t) == IF v[c].attacked = t THEN SetAttackedCreature(v, c, Nobody) ELSE v
StopFollow(v, c, t) == IF v[c].follow = t THEN SetFollowCreature(v, c, Nobody) ELSE v
OnCreatureDisappear(v, c, t) == StopFollow(StopAttack(v, c, t), c, t)

(* d has moved, or c itself: whom c follows and attacks may be out of sight.*)
LoseIf(v, c, d, t) ==
  IF t # Nobody /\ d \in {c, t} /\ ~Sees(v, c, t) THEN OnCreatureDisappear(v, c, t) ELSE v
LoseAttacked(v, c, d) == LoseIf(v, c, d, v[c].attacked)
LoseSight(v, c, d) == LoseAttacked(LoseIf(v, c, d, v[c].follow), c, d)

(* setMaster: a summon has a reference of its master.                      *)
SetMaster(v, s, c) ==
  LET d == (IF c # Nobody THEN 1 ELSE 0) - (IF v[s].master # Nobody THEN 1 ELSE 0)
  IN  AddRefs([v EXCEPT ![s].master = c], {s}, d)

-----------------------------------------------------------------------------
(* Game::removeCreature.                                                   *)
LeaveMaster(v, c) ==
  IF v[c].master # Nobody /\ v[v[c].master].life # "removed" THEN SetMaster(v, c, Nobody) ELSE v

OnOwnRemoval(v, c) ==
  LET u == LeaveMaster(OnCreatureDisappear(v, c, c), c)
  IN  IF c \in Players THEN u ELSE SetIdle(u, c, TRUE)

OnOtherRemoved(v, d, c) ==
  LET u == OnCreatureDisappear(v, d, c)
  IN  IF d \in Players THEN u ELSE OnCreatureLeave(u, d, c)

Told(v, c, selfFirst) ==
  LET Hear(u, d) == IF d = c THEN OnOwnRemoval(u, c) ELSE OnOtherRemoved(u, d, c)
      Tell(u, hearers) == Over(hearers, Hear, u)
      others == Spectators(v, v[c].pos) \ {c}
  IN  IF selfFirst THEN Tell(Tell(v, {c}), others) ELSE Tell(Tell(v, others), {c})

Removed(v, c, selfFirst) ==
  RemoveCreatureCheck([Told(v, c, selfFirst) EXCEPT ![c].life = "removed", ![c].released = @ + 1], c)

WithSummons(v, c, selfFirst) ==
  LET Also(x, s) == IF Placed(x, s) THEN Removed(x, s, selfFirst) ELSE x
  IN  Over(Summons(v, c), Also, v)

RemoveCreature(v, c, selfFirst) == WithSummons(Removed(v, c, selfFirst), c, selfFirst)

(* Who loses his last reference is destroyed: a master lets his summons    *)
(* go, a monster empties its lists, and others may be destroyed by that.   *)
Destroyed(v, c) ==
  LET s == Summons(v, c)
      free == [d \in Creatures |-> IF d \in s THEN [v[d] EXCEPT !.master = Nobody, !.attacked = Nobody]
                                   ELSE v[d]]
  IN  [ClearLists(AddRefs(free, s, -1), c) EXCEPT ![c].life = "deleted"]

Unreferenced(v) == {c \in Creatures : v[c].refs = 0 /\ v[c].life \notin {"unborn", "deleted"}}

Round(v) == Over(Unreferenced(v), Destroyed, v)

(* After as many rounds as there are creatures nobody is left to destroy.  *)
Becomes(v) ==
  LET Again(u, c) == Round(u)
  IN  cr' = Over(Creatures, Again, v)

Cleanup(v) ==
  Becomes([c \in Creatures |-> [v[c] EXCEPT !.refs = @ - v[c].released, !.released = 0]])

-----------------------------------------------------------------------------
(* Placing a creature, and onCreatureAppear of those who see it.           *)
OnCreatureAppear(v, d, c) ==
  IF d \in Players THEN v
  ELSE IF d = c THEN UpdateIdleStatus(UpdateTargetList(v, d), d) ELSE OnCreatureFound(v, d, c)

PlaceCreature(v, c, x) ==
  LET u == [v EXCEPT ![c].life = "placed", ![c].pos = x, ![c].refs = 1]
      Hear(y, d) == OnCreatureAppear(y, d, c)
  IN  AddCreatureCheck(Over(Spectators(u, x), Hear, u), c)

(* Moving one, and onCreatureMove of those who see it leave or come.       *)
FoundOrLost(v, m, c, old) ==
  LET isNew == Near(v, m, v[c].pos, View)
      wasOld == Near(v, m, old, View)
  IN  IF isNew /\ ~wasOld THEN OnCreatureFound(v, m, c)
      ELSE IF ~isNew /\ wasOld THEN OnCreatureLeave(v, m, c) ELSE v

TargetWhoMoves(v, m, c) ==
  IF v[m].master = Nobody /\ v[m].follow = Nobody /\ IsOpponent(v, m, c)
  THEN SelectTarget(v, m, c) ELSE v

OnCreatureMove(v, d, c, old) ==
  LET u == LoseSight(v, d, c)
  IN  IF d \in Players THEN u
      ELSE IF d = c THEN UpdateIdleStatus(UpdateTargetList(u, d), d)
      ELSE TargetWhoMoves(UpdateIdleStatus(FoundOrLost(u, d, c, old), d), d, c)

(* Summons that are too far behind are removed first.                      *)
LeaveBehind(v, c) ==
  LET far == {s \in Summons(v, c) : Placed(v, s) /\ ~Near(v, s, v[c].pos, SummonRange)}
  IN  Over(far, LAMBDA u, s : RemoveCreature(u, s, TRUE), v)

MoveCreature(v, c, x) ==
  LET old == v[c].pos
      u == [v EXCEPT ![c].pos = x]
      Hear(y, d) == OnCreatureMove(y, d, c, old)
  IN  Over(Spectators(v, old) \union Spectators(u, x), Hear, LeaveBehind(u, c))

-----------------------------------------------------------------------------
(* Monster::onThink.                                                       *)
ThinkAsSummon(v, m) ==
  LET a == v[m].attacked
      o == v[m].master
  IN  IF a = Nobody /\ v[o].attacked # Nobody THEN SelectTarget(v, m, v[o].attacked)
      ELSE SetFollowCreature(v, m, IF a = Nobody THEN o ELSE IF a = m THEN Nobody ELSE a)

OnThink(v, m, t) ==
  IF Home[m] # -1 /\ ~Near(v, m, Home[m], HomeRange)
  THEN SetIdle(MoveCreature(v, m, Home[m]), m, TRUE)
  ELSE LET u == UpdateIdleStatus(v, m)
       IN  IF Quiet(v, m) THEN u
           ELSE IF v[m].master # Nobody THEN ThinkAsSummon(u, m)
           ELSE IF t # Nobody THEN SelectTarget(u, m, t) ELSE u

(* Creature::onDeath and Monster::death.                                   *)
Killed(v, m) == [SetIdle(v, m, FALSE) EXCEPT ![m].slain = TRUE]

OnDeath(v, m, selfFirst) ==
  LET calm == SetAttackedCreature(v, m, Nobody)
      Let(u, s) == SetMaster(Killed(u, s), s, Nobody)
      freed == Over({s \in Summons(v, m) : Placed(v, s)}, Let, calm)
  IN  RemoveCreature(SetMaster(ClearLists(freed, m), m, Nobody), m, selfFirst)

(* One creature of checkCreatures, with the cleanup at the end of the task.*)
Check(c) ==
  /\ cr[c].listed
  /\ IF ~cr[c].check
     THEN Cleanup([cr EXCEPT ![c].listed = FALSE, ![c].released = @ + 1])
     ELSE IF cr[c].slain
     THEN \E first \in BOOLEAN : Cleanup(OnDeath(cr, c, first))
     ELSE IF c \in Players THEN Cleanup(cr)
     ELSE \E t \in cr[c].targets \union {Nobody} : Cleanup(OnThink(cr, c, t))

-----------------------------------------------------------------------------
Place(c, x) == cr[c].life = "unborn" /\ Becomes(PlaceCreature(cr, c, x))

(* A summon spell of a monster or a player: placed first, bound then.      *)
Summon(c, s) ==
  /\ s \in Monsters /\ c # s /\ Home[s] = -1
  /\ Alive(cr, c) /\ cr[c].master = Nobody /\ cr[s].life = "unborn"
  /\ Becomes(SetMaster(PlaceCreature(cr, s, cr[c].pos), s, c))

Move(c, x) ==
  /\ Alive(cr, c) /\ cr[c].pos # x
  /\ Becomes(MoveCreature(cr, c, x))

(* A logout, or a removal by a script.                                     *)
Leave(c) ==
  /\ Placed(cr, c)
  /\ \E first \in BOOLEAN : Becomes(RemoveCreature(cr, c, first))

Kill(m) == Alive(cr, m) /\ Becomes(Killed(cr, m))

SetCondition(m) ==
  /\ Alive(cr, m)
  /\ Becomes(UpdateIdleStatus([cr EXCEPT ![m].condition = ~@], m))

(* playerSetAttackedCreature, with or without chasing, playerFollowCreature.*)
SetTarget(v, p, t, chase) ==
  LET a == SetAttackedCreature(v, p, t)
  IN  IF t # Nobody /\ a[p].attacked = Nobody THEN a
      ELSE SetFollowCreature(a, p, IF chase THEN t ELSE Nobody)

Attack(p, t) ==
  /\ Alive(cr, p) /\ p # t /\ (t # Nobody => Placed(cr, t))
  /\ \E chase \in BOOLEAN : Becomes(SetTarget(cr, p, t, chase))

Follow(p, t) ==
  /\ Alive(cr, p) /\ p # t /\ (t # Nobody => Placed(cr, t))
  /\ Becomes(SetFollowCreature(SetTarget(cr, p, Nobody, FALSE), p, t))

(* A summon that finds no way drops its target (onFollowCreatureComplete). *)
LoseWay(m) ==
  /\ Alive(cr, m) /\ cr[m].master # Nobody /\ cr[m].follow \in cr[m].targets
  /\ Becomes(RemoveTarget(cr, m, cr[m].follow))

Next ==
  \/ \E c \in Creatures : Check(c) \/ Leave(c)
  \/ \E c \in Creatures, x \in Cells : Place(c, x) \/ Move(c, x)
  \/ \E c \in Creatures, s \in Monsters : Summon(c, s)
  \/ \E m \in Monsters : Kill(m) \/ SetCondition(m) \/ LoseWay(m)
  \/ \E p \in Players, t \in Creatures \union {Nobody} : Attack(p, t) \/ Follow(p, t)

Spec == Init /\ [][Next]_cr

-----------------------------------------------------------------------------
Times(P(_)) == Cardinality({c \in Creatures : P(c)})

(* A creature has as many references as there are pointers that must keep  *)
(* it alive, and is deleted exactly when there are none.                   *)
RefsExact ==
  \A c \in Creatures :
    LET InTargets(m) == c \in cr[m].targets
        InFriends(m) == c \in cr[m].friends
    IN  /\ cr[c].refs = (IF Placed(cr, c) THEN 1 ELSE 0) + (IF cr[c].listed THEN 1 ELSE 0)
                        + (IF cr[c].master # Nobody THEN 1 ELSE 0) + cr[c].released
                        + Times(InTargets) + Times(InFriends)
        /\ (cr[c].life \in {"unborn", "deleted"}) <=> cr[c].refs = 0

(* The pointers without a reference: whom a creature in the game attacks,  *)
(* follows or serves is in the game too (or at least not yet deleted), and *)
(* is within its sight.                                                    *)
PursuitInSight ==
  \A c \in Creatures : Placed(cr, c) =>
    /\ \A t \in {cr[c].attacked, cr[c].follow} \ {Nobody} : Placed(cr, t) /\ Sees(cr, c, t)
    /\ cr[c].master # Nobody => Placed(cr, cr[c].master)

(* checkCreatures comes to who is dead, and to a monster that has something*)
(* to do; only one that was sent home sleeps on its conditions.            *)
AwakeWhenNeeded ==
  \A m \in Monsters :
    /\ cr[m].check => cr[m].listed
    /\ Placed(cr, m) /\ cr[m].slain => cr[m].check
    /\ Alive(cr, m) /\ ~cr[m].check =>
         /\ cr[m].master = Nobody /\ cr[m].targets = {}
         /\ cr[m].condition => cr[m].pos = Home[m]

(* What the checks ask of creatures: nobody lives on without a reference or*)
(* dies with one, pursues who is gone or out of sight, or sleeps in vain.  *)
CreaturesSound == RefsExact /\ PursuitInSight /\ AwakeWhenNeeded
=============================================================================
