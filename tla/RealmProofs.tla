----------------------------- MODULE RealmProofs -----------------------------
(* Five parts of MCRealm: how a player walks, for any set of creatures that*)
(* he may follow, paths of any length and any number of tasks in the       *)
(* dispatcher; how scripts are called, for any number of environments,     *)
(* hooks and items; the registers of scripts, for any events, intervals and*)
(* timers; raids, for any names, numbers of events and reloads; and        *)
(* parties, for any number of players.  Two of MCWorld: the steps of a     *)
(* monster, on any tiles, and who is near a position, for any tiles,       *)
(* creatures and order in which they come.                                 *)
EXTENDS Party, Walk, Scripts, ScriptEvents, SequenceTheorems, FiniteSetTheorems,
        WellFoundedInduction, TLAPS

-----------------------------------------------------------------------------
(* Walk.                                                                   *)

(* The types.  The tasks that wait for him in the dispatcher, and him.     *)
Jobs == [op : {"updateCreatureWalk", "playerAutoWalk"}, steps : 0 .. MaxSteps]

Walkers ==
  [list : Nat, eventWalk : Ids \union {0}, walks : SUBSET Ids, cancelNextWalk : BOOLEAN,
   tired : BOOLEAN, slow : BOOLEAN, walkTask : BOOLEAN, walkTaskEvent : Ids \union {0},
   uses : SUBSET Ids, follow : Targets \union {Nobody}, attack : Targets \union {Nobody},
   seen : SUBSET Targets, chaseMode : BOOLEAN, hasFollowPath : BOOLEAN,
   isUpdatingPath : BOOLEAN, queue : Seq(Jobs), stopped : Nat, adrift : BOOLEAN]

(* A walk is among the tasks; at most one use waits, and a task or an event *)
(* stands for it, not both.                                                *)
Awaited(q) == \E i \in DOMAIN q : q[i].op = "playerAutoWalk"

Uses(w) == w.uses \subseteq {w.walkTaskEvent} /\ (w.walkTask => w.uses = {})

(* What u may change of w where the player's own steps are not concerned:  *)
(* it may end the walk, tell him to stop, drop the action that waits.      *)
Mild(w, u) ==
  /\ u \in Walkers
  /\ u.walks = w.walks /\ u.eventWalk = w.eventWalk /\ u.adrift = w.adrift
  /\ u.list \in {w.list, 0}
  /\ Uses(w) => Uses(u)
  /\ u.walkTask => w.walkTask
  /\ Awaited(w.queue) => Awaited(u.queue)
  /\ \/ u.stopped = w.stopped /\ u.cancelNextWalk = w.cancelNextWalk
     \/ u.cancelNextWalk /\ u.stopped = IF w.stopped = 0 THEN 1 ELSE w.stopped

(* Neither whom he follows and attacks nor how.                            *)
SameAims(w, u) ==
  u.follow = w.follow /\ u.attack = w.attack /\ u.chaseMode = w.chaseMode /\ u.seen = w.seen

Chases(w) == w.attack # Nobody => w.follow = IF w.chaseMode THEN w.attack ELSE Nobody

(* Two mild changes are one.                                               *)
LEMMA MildTwice ==
  ASSUME NEW w \in Walkers, NEW u, NEW v, Mild(w, u), Mild(u, v)
  PROVE  Mild(w, v)
BY DEF Mild, Walkers

(* Telling the player to stop is mild,                                     *)
LEMMA StopWalkMild ==
  ASSUME NEW w \in Walkers
  PROVE  Mild(w, StopWalk(w)) /\ SameAims(w, StopWalk(w))
BY ZenonT(60) DEF StopWalk, Mild, Walkers, Uses, SameAims

(* so is a task for the dispatcher, which is a walk if its operation is;   *)
LEMMA QueuedMild ==
  ASSUME NEW w \in Walkers, NEW t \in Jobs
  PROVE  /\ Mild(w, Queued(w, t)) /\ SameAims(w, Queued(w, t))
         /\ t.op = "playerAutoWalk" => Awaited(Queued(w, t).queue)
<1>1. w.queue \in Seq(Jobs)
  BY DEF Walkers
<1> DEFINE q == Append(w.queue, t)
<1>2. /\ q \in Seq(Jobs) /\ DOMAIN q = 1 .. Len(w.queue) + 1
      /\ q[Len(w.queue) + 1] = t /\ \A i \in 1 .. Len(w.queue) : q[i] = w.queue[i]
      /\ Len(w.queue) \in Nat /\ DOMAIN w.queue = 1 .. Len(w.queue)
  BY <1>1, AppendProperties, LenProperties
<1> HIDE DEF q
<1>3. /\ Awaited(w.queue) => Awaited(q)
      /\ t.op = "playerAutoWalk" => Awaited(q)
  BY <1>2 DEF Awaited
<1>4. Queued(w, t) = [w EXCEPT !.queue = q]
  BY DEF Queued, q
<1> QED
  BY <1>2, <1>3, <1>4 DEF Mild, Walkers, Uses, SameAims

(* following nobody any more, which tells him to stop,                     *)
LEMMA FollowNobodyMild ==
  ASSUME NEW w \in Walkers
  PROVE  /\ Mild(w, FollowNobody(w))
         /\ FollowNobody(w).follow = Nobody /\ FollowNobody(w).attack = w.attack
         /\ FollowNobody(w).chaseMode = w.chaseMode /\ FollowNobody(w).seen = w.seen
<1> DEFINE u == [w EXCEPT !.isUpdatingPath = FALSE, !.follow = Nobody]
<1>1. Mild(w, u) /\ u.follow = Nobody /\ u.attack = w.attack /\ u.chaseMode = w.chaseMode
      /\ u.seen = w.seen
  BY DEF Mild, Walkers, Uses
<1>2. FollowNobody(w) = StopWalk(u)
  BY DEF FollowNobody
<1> HIDE DEF u
<1> QED
  BY <1>1, <1>2, StopWalkMild, MildTwice DEF SameAims, Mild

(* and attacking nobody any more, which ends the following too.            *)
LEMMA AttackNobodyMild ==
  ASSUME NEW w \in Walkers
  PROVE  /\ Mild(w, AttackNobody(w))
         /\ AttackNobody(w).follow = Nobody /\ AttackNobody(w).attack = Nobody
         /\ AttackNobody(w).chaseMode = w.chaseMode /\ AttackNobody(w).seen = w.seen
<1> DEFINE u == [w EXCEPT !.attack = Nobody]
<1>1. /\ Mild(w, u) /\ u.follow = w.follow /\ u.attack = Nobody /\ u.chaseMode = w.chaseMode
      /\ u.seen = w.seen
  BY DEF Mild, Walkers, Uses
<1>2. AttackNobody(w) = IF w.follow = Nobody THEN u ELSE FollowNobody(u)
  BY DEF AttackNobody
<1> HIDE DEF u
<1> QED
  BY <1>1, <1>2, FollowNobodyMild, MildTwice DEF Mild

(* Dropping the action that waits is mild.                                 *)
LEMMA AbortedMild ==
  ASSUME NEW w \in Walkers
  PROVE  /\ Mild(w, OnWalkAborted(w)) /\ SameAims(w, OnWalkAborted(w))
         /\ ~OnWalkAborted(w).walkTask /\ OnWalkAborted(w).list = w.list
         /\ OnWalkAborted(w).cancelNextWalk = w.cancelNextWalk
         /\ OnWalkAborted(w).stopped = w.stopped
BY ZenonT(60) DEF OnWalkAborted, SetNextWalkActionTask, Mild, Walkers, Uses, SameAims

(* setFollowCreature follows whom it is given, or gives up the attack as   *)
(* well.                                                                   *)
LEMMA SetFollowMild ==
  ASSUME NEW w \in Walkers, NEW c \in Targets \union {Nobody}
  PROVE  /\ Mild(w, SetFollowCreature(w, c))
         /\ SetFollowCreature(w, c).chaseMode = w.chaseMode
         /\ SetFollowCreature(w, c).seen = w.seen
         /\ c = Nobody => /\ SetFollowCreature(w, c).follow = Nobody
                          /\ SetFollowCreature(w, c).attack = w.attack
         /\ c # Nobody => \/ /\ SetFollowCreature(w, c).follow = c
                             /\ SetFollowCreature(w, c).attack = w.attack
                          \/ SetFollowCreature(w, c).attack = Nobody
<1>1. CASE c = Nobody
  BY <1>1, FollowNobodyMild DEF SetFollowCreature
<1>2. CASE c # Nobody /\ w.follow = c
  BY <1>2 DEF SetFollowCreature, Mild, Walkers
<1>3. CASE c # Nobody /\ w.follow # c /\ c \notin w.seen
  <2> DEFINE v == [w EXCEPT !.attack = Nobody]
  <2>1. Mild(w, v) /\ v.attack = Nobody /\ v.chaseMode = w.chaseMode /\ v.seen = w.seen
    BY DEF Mild, Walkers, Uses
  <2>2. SetFollowCreature(w, c) = FollowNobody(v)
    BY <1>3 DEF SetFollowCreature
  <2> HIDE DEF v
  <2> QED
    BY <1>3, <2>1, <2>2, FollowNobodyMild, MildTwice DEF Mild
<1>4. CASE c # Nobody /\ w.follow # c /\ c \in w.seen
  <2> DEFINE e == [w EXCEPT !.list = 0]
             v == IF w.list = 0 THEN w ELSE OnWalkAborted(e)
             u == [v EXCEPT !.hasFollowPath = FALSE, !.follow = c, !.isUpdatingPath = TRUE]
  <2>1. Mild(w, w) /\ Mild(w, e) /\ SameAims(w, e)
    BY DEF Mild, Walkers, Uses, SameAims
  <2>2. SetFollowCreature(w, c) = u
    BY <1>4 DEF SetFollowCreature
  <2>3. Mild(w, v) /\ SameAims(w, v)
    <3> HIDE DEF e
    <3> QED
      BY <2>1, AbortedMild, MildTwice DEF SameAims, Mild
  <2> HIDE DEF v
  <2>4. /\ Mild(v, u) /\ u.follow = c /\ u.attack = v.attack /\ u.chaseMode = v.chaseMode
        /\ u.seen = v.seen
    <3>1. v \in Walkers
      BY <2>3 DEF Mild
    <3>2. u \in Walkers
      BY <3>1, ZenonT(60) DEF Walkers
    <3>3. /\ u.walks = v.walks /\ u.eventWalk = v.eventWalk /\ u.adrift = v.adrift
          /\ u.list = v.list /\ u.uses = v.uses /\ u.walkTask = v.walkTask
          /\ u.walkTaskEvent = v.walkTaskEvent /\ u.queue = v.queue
          /\ u.stopped = v.stopped /\ u.cancelNextWalk = v.cancelNextWalk
          /\ u.follow = c /\ u.attack = v.attack /\ u.chaseMode = v.chaseMode
          /\ u.seen = v.seen
      BY <3>1 DEF Walkers
    <3> HIDE DEF u
    <3> QED
      BY <3>2, <3>3 DEF Mild, Uses
  <2> QED
    BY <1>4, <2>2, <2>3, <2>4, MildTwice DEF SameAims, Mild
<1> QED
  BY <1>1, <1>2, <1>3, <1>4

(* setAttackedCreature leaves an attacked creature followed exactly in     *)
(* chase mode.                                                             *)
LEMMA SetAttackedMild ==
  ASSUME NEW w \in Walkers, NEW c \in Targets \union {Nobody}, Chases(w)
  PROVE  Mild(w, SetAttackedCreature(w, c)) /\ Chases(SetAttackedCreature(w, c))
<1>1. CASE c = Nobody
  BY <1>1, AttackNobodyMild DEF SetAttackedCreature, Chases
<1>2. CASE c # Nobody /\ c \notin w.seen
  BY <1>2 DEF SetAttackedCreature, Chases, Mild, Walkers, Uses
<1>3. CASE c # Nobody /\ c \in w.seen
  <2> DEFINE v == [w EXCEPT !.attack = c]
  <2>1. /\ Mild(w, v) /\ v.attack = c /\ v.chaseMode = w.chaseMode /\ v.seen = w.seen
        /\ v.follow = w.follow
    BY DEF Mild, Walkers, Uses
  <2>2. SetAttackedCreature(w, c) = IF w.chaseMode THEN SetFollowCreature(v, c)
                                    ELSE IF w.follow # Nobody THEN FollowNobody(v) ELSE v
    BY <1>3 DEF SetAttackedCreature, AttackSeen
  <2> HIDE DEF v
  <2>3. v \in Walkers
    BY <2>1 DEF Mild
  <2>4. CASE w.chaseMode
    <3>1. /\ Mild(v, SetFollowCreature(v, c))
          /\ SetFollowCreature(v, c).chaseMode = v.chaseMode
          /\ \/ SetFollowCreature(v, c).follow = c /\ SetFollowCreature(v, c).attack = c
             \/ SetFollowCreature(v, c).attack = Nobody
      BY <1>3, <2>1, <2>3, SetFollowMild
    <3>2. SetAttackedCreature(w, c) = SetFollowCreature(v, c)
      BY <2>2, <2>4
    <3>3. Chases(SetFollowCreature(v, c))
      BY <2>1, <2>4, <3>1 DEF Chases
    <3> QED
      BY <2>1, <3>1, <3>2, <3>3, MildTwice
  <2>5. CASE ~w.chaseMode
    BY <2>1, <2>2, <2>3, <2>5, FollowNobodyMild, MildTwice DEF Chases
  <2> QED
    BY <2>4, <2>5
<1> QED
  BY <1>1, <1>2, <1>3

(* Who follows or attacks a creature that disappears does so no more.      *)
LEMMA DisappearMild ==
  ASSUME WalkAssumption, NEW w \in Walkers, NEW c \in Targets, Chases(w)
  PROVE  /\ Mild(w, OnCreatureDisappear(w, c)) /\ Chases(OnCreatureDisappear(w, c))
         /\ OnCreatureDisappear(w, c).seen = w.seen
<1> DEFINE v == IF w.attack = c THEN AttackNobody(w) ELSE w
<1>1. Mild(w, w) /\ c # Nobody
  BY DEF Mild, WalkAssumption
<1>2. Mild(w, v) /\ v.seen = w.seen /\ Chases(v) /\ v.attack # c
  BY <1>1, AttackNobodyMild DEF Chases
<1>3. OnCreatureDisappear(w, c) = IF v.follow = c THEN FollowNobody(v) ELSE v
  BY DEF OnCreatureDisappear
<1> HIDE DEF v
<1>4. v \in Walkers
  BY <1>2 DEF Mild
<1>5. CASE v.follow # c
  BY <1>2, <1>3, <1>5
<1>6. CASE v.follow = c
  <2>1. v.attack = Nobody
    BY <1>1, <1>2, <1>6 DEF Chases
  <2> QED
    BY <1>2, <1>3, <1>4, <1>6, <2>1, FollowNobodyMild, MildTwice DEF Chases
<1> QED
  BY <1>5, <1>6

(* Losing sight of them is mild,                                           *)
LEMMA LoseSightMild ==
  ASSUME WalkAssumption, NEW w \in Walkers, Chases(w)
  PROVE  Mild(w, LoseSight(w)) /\ Chases(LoseSight(w))
<1> DEFINE v == IF w.follow \notin w.seen \union {Nobody}
                THEN OnCreatureDisappear(w, w.follow) ELSE w
<1>1. w.follow \in Targets \union {Nobody}
  BY DEF Walkers
<1>2. Mild(w, v) /\ Chases(v)
  <2>1. Mild(w, w)
    BY DEF Mild
  <2> QED
    BY <1>1, <2>1, DisappearMild
<1>3. LoseSight(w) = IF v.attack \notin v.seen \union {Nobody}
                     THEN OnCreatureDisappear(v, v.attack) ELSE v
  BY DEF LoseSight
<1> HIDE DEF v
<1>4. v \in Walkers /\ v.attack \in Targets \union {Nobody}
  BY <1>2 DEF Mild, Walkers
<1> QED
  BY <1>2, <1>3, <1>4, DisappearMild, MildTwice

(* and so is asking for another path.                                      *)
LEMMA PathAgainMild ==
  ASSUME WalkAssumption, NEW w \in Walkers, Chases(w)
  PROVE  Mild(w, PathAgain(w)) /\ Chases(PathAgain(w))
<1>1. Update \in Jobs
  BY DEF Update, Jobs, WalkAssumption
<1> DEFINE v == [w EXCEPT !.isUpdatingPath = FALSE]
<1>2. Mild(w, w) /\ Mild(w, v) /\ SameAims(w, v)
  BY ZenonT(60) DEF Mild, Walkers, Uses, SameAims
<1>3. PathAgain(w) = Queued(v, Update) \/ PathAgain(w) = w
  BY DEF PathAgain
<1> HIDE DEF v
<1>4. v \in Walkers
  BY <1>2 DEF Mild
<1>5. Mild(v, Queued(v, Update)) /\ SameAims(v, Queued(v, Update))
  BY <1>1, <1>4, QueuedMild
<1> QED
  BY <1>2, <1>3, <1>5, MildTwice DEF Chases, SameAims

-----------------------------------------------------------------------------
(* The invariant: there is the event that eventWalk names and no other, a  *)
(* walk goes on, and who is told to stop will.                             *)
WalkEvents(w) == w.walks = {w.eventWalk} \ {0}

GoesOn(w) ==
  w.list > 0 \/ w.walkTask => w.eventWalk # 0 \/ w.adrift \/ Awaited(w.queue)

Halting(w) == w.stopped <= 2 /\ (w.stopped # 0 => w.list = 0 \/ w.cancelNextWalk)

Halts(w) == Halting(w) /\ (w.stopped = 2 => w.list = 0)

(* What holds at any time, and what does between two tasks.                *)
Within(w) == w \in Walkers /\ Uses(w) /\ Halting(w) /\ Chases(w)

Sound(w) == Within(w) /\ Halts(w) /\ GoesOn(w) /\ WalkEvents(w)

(* u keeps of w what there was to keep, and schedules nothing.             *)
Kept(w, u) ==
  /\ Within(u) /\ u.walks \subseteq w.walks /\ (w.eventWalk = 0 => u.eventWalk = 0)
  /\ GoesOn(w) => GoesOn(u)
  /\ Sound(w) => Sound(u)

(* A mild change keeps the invariant, if the aims still agree.             *)
LEMMA MildKept ==
  ASSUME NEW w, NEW u, Mild(w, u), Within(w), Chases(u)
  PROVE  Kept(w, u)
<1>1. Within(u) /\ u.walks \subseteq w.walks /\ u.eventWalk = w.eventWalk
  BY DEF Mild, Within, Halting, Walkers
<1>2. GoesOn(w) => GoesOn(u)
  BY DEF Mild, Within, GoesOn, Walkers
<1>3. WalkEvents(w) => WalkEvents(u)
  BY DEF Mild, WalkEvents
<1>4. Halts(w) => Halts(u)
  BY DEF Mild, Within, Walkers, Halts, Halting
<1> QED
  BY <1>1, <1>2, <1>3, <1>4 DEF Kept, Sound

(* Stopping the event of the next step leaves the walk adrift.             *)
LEMMA StopEventKeeps ==
  ASSUME NEW w, Within(w)
  PROVE  Kept(w, StopEventWalk(w))
<1>1. CASE w.eventWalk = 0
  BY <1>1 DEF StopEventWalk, Kept
<1>2. CASE w.eventWalk # 0
  <2> DEFINE u == StopEventWalk(w)
  <2>1. u = [w EXCEPT !.walks = @ \ {w.eventWalk}, !.eventWalk = 0, !.adrift = TRUE]
    BY <1>2 DEF StopEventWalk
  <2>2. w \in Walkers
    BY DEF Within
  <2> HIDE DEF u
  <2>3. u \in Walkers
    BY <2>1, <2>2 DEF Walkers
  <2>4. /\ u.list = w.list /\ u.walkTask = w.walkTask /\ u.uses = w.uses
        /\ u.walkTaskEvent = w.walkTaskEvent /\ u.stopped = w.stopped
        /\ u.cancelNextWalk = w.cancelNextWalk /\ u.chaseMode = w.chaseMode
        /\ u.follow = w.follow /\ u.attack = w.attack
    BY <2>1, <2>2 DEF Walkers
  <2>5. /\ u.walks = w.walks \ {w.eventWalk} /\ u.eventWalk = 0 /\ u.adrift
    BY <2>1, <2>2 DEF Walkers
  <2>6. Within(u)
    BY <2>3, <2>4 DEF Within, Uses, Halting, Chases
  <2>7. GoesOn(u) /\ (Halts(w) => Halts(u)) /\ (WalkEvents(w) => WalkEvents(u))
    BY <2>4, <2>5 DEF GoesOn, Halts, Halting, WalkEvents
  <2> QED
    BY <2>5, <2>6, <2>7 DEF Kept, Sound, u
<1> QED
  BY <1>1, <1>2

(* What two changes keep, both keep together.                              *)
LEMMA KeptTwice ==
  ASSUME NEW w, NEW u, NEW v, Kept(w, u), Kept(u, v)
  PROVE  Kept(w, v)
BY DEF Kept

(* Being moved keeps the invariant and, but for a teleport, the event.     *)
LEMMA MoveKeeps ==
  ASSUME WalkAssumption, NEW w, Within(w), NEW teleport \in BOOLEAN, NEW away \in BOOLEAN
  PROVE  /\ Kept(w, OnCreatureMove(w, teleport, away))
         /\ ~teleport => OnCreatureMove(w, teleport, away).eventWalk = w.eventWalk
<1> DEFINE a == [w EXCEPT !.tired = TRUE, !.seen = IF away THEN @ \ {w.follow, w.attack} ELSE @]
           b == IF teleport THEN StopEventWalk(a) ELSE a
           c == LoseSight(b)
           d == PathAgain(c)
<1>1. Mild(w, a) /\ Chases(a)
  BY ZenonT(60) DEF Within, Mild, Walkers, Uses, Chases
<1>2. d = OnCreatureMove(w, teleport, away)
  BY DEF OnCreatureMove
<1> HIDE DEF a
<1>3. Kept(w, a) /\ Within(a) /\ a.eventWalk = w.eventWalk
  BY <1>1, MildKept DEF Kept, Mild
<1>4. Kept(a, a)
  BY <1>3 DEF Kept
<1>5. Kept(a, b) /\ Within(b) /\ (~teleport => b.eventWalk = a.eventWalk)
  BY <1>3, <1>4, StopEventKeeps DEF Kept
<1> HIDE DEF b
<1>6. b \in Walkers /\ Chases(b)
  BY <1>5 DEF Within
<1>7. Mild(b, c) /\ Chases(c)
  BY <1>6, LoseSightMild
<1> HIDE DEF c
<1>8. c \in Walkers
  BY <1>7 DEF Mild
<1>9. Mild(c, d) /\ Chases(d)
  BY <1>7, <1>8, PathAgainMild
<1> HIDE DEF d
<1>10. Kept(b, d) /\ d.eventWalk = b.eventWalk
  BY <1>5, <1>6, <1>7, <1>9, MildTwice, MildKept DEF Mild
<1> QED
  BY <1>2, <1>3, <1>5, <1>10, KeptTwice

(* Where no event is pending the scheduler gives an id.                    *)
LEMMA FreshIsAnId ==
  ASSUME WalkAssumption
  PROVE  Fresh({}) \in Ids /\ Fresh({}) # 0
BY DEF Fresh, WalkAssumption

(* Scheduling what no event is pending for.                                *)
LEMMA ScheduledSound ==
  ASSUME WalkAssumption, NEW w, Within(w), Halts(w), w.walks = {}
  PROVE  Sound(Scheduled(w))
<1> DEFINE id == Fresh({})
           u == Scheduled(w)
<1>1. id \in Ids /\ id # 0
  BY FreshIsAnId
<1>2. w \in Walkers
  BY DEF Within
<1>3. u = [w EXCEPT !.eventWalk = id, !.walks = @ \union {id}, !.adrift = FALSE]
  BY DEF Scheduled
<1> HIDE DEF id, u
<1>4. u \in Walkers
  BY <1>1, <1>2, <1>3 DEF Walkers
<1>5. /\ u.list = w.list /\ u.walkTask = w.walkTask /\ u.uses = w.uses
      /\ u.walkTaskEvent = w.walkTaskEvent /\ u.stopped = w.stopped
      /\ u.cancelNextWalk = w.cancelNextWalk /\ u.chaseMode = w.chaseMode
      /\ u.follow = w.follow /\ u.attack = w.attack
  BY <1>2, <1>3 DEF Walkers
<1>6. u.walks = {id} /\ u.eventWalk = id
  BY <1>2, <1>3 DEF Walkers
<1>7. Within(u)
  BY <1>4, <1>5 DEF Within, Uses, Halting, Chases
<1>8. Halts(u) /\ GoesOn(u) /\ WalkEvents(u)
  BY <1>1, <1>5, <1>6 DEF GoesOn, Halts, Halting, WalkEvents
<1> QED
  BY <1>7, <1>8 DEF Sound, u

(* Adding the event clears the order to stop, so there is none.            *)
LEMMA AddEventSound ==
  ASSUME WalkAssumption, NEW w, Within(w), w.stopped # 0 => w.list = 0, WalkEvents(w)
  PROVE  Sound(AddEventWalk(w))
<1> DEFINE u == [w EXCEPT !.cancelNextWalk = FALSE]
<1>1. w \in Walkers
  BY DEF Within
<1>2. /\ u \in Walkers
      /\ u.list = w.list /\ u.walkTask = w.walkTask /\ u.uses = w.uses
      /\ u.walkTaskEvent = w.walkTaskEvent /\ u.stopped = w.stopped
      /\ u.chaseMode = w.chaseMode /\ u.follow = w.follow /\ u.attack = w.attack
      /\ u.walks = w.walks /\ u.eventWalk = w.eventWalk
  BY <1>1, ZenonT(60) DEF Walkers
<1>3. AddEventWalk(w) = IF w.eventWalk # 0 THEN u ELSE Scheduled(u)
  BY DEF AddEventWalk
<1> HIDE DEF u
<1>4. Within(u) /\ Halts(u) /\ WalkEvents(u)
  BY <1>2 DEF Within, Uses, Halting, Halts, Chases, WalkEvents
<1>5. CASE w.eventWalk # 0
  BY <1>2, <1>3, <1>4, <1>5 DEF Sound, GoesOn
<1>6. CASE w.eventWalk = 0
  <2>1. u.walks = {}
    BY <1>2, <1>6 DEF WalkEvents
  <2> QED
    BY <1>3, <1>4, <1>6, <2>1, ScheduledSound
<1> QED
  BY <1>5, <1>6

-----------------------------------------------------------------------------
(* The event of the next step, which is not pending any more.              *)
(* onWalkComplete schedules the use that waited for the end of the walk,   *)
(* and there is no other.                                                  *)
LEMMA CompleteWithin ==
  ASSUME WalkAssumption, NEW w, Within(w)
  PROVE  /\ Within(OnWalkComplete(w)) /\ ~OnWalkComplete(w).walkTask
         /\ OnWalkComplete(w).list = w.list /\ OnWalkComplete(w).walks = w.walks
         /\ Halts(w) => Halts(OnWalkComplete(w))
<1>1. w \in Walkers
  BY DEF Within
<1>2. CASE ~w.walkTask
  BY <1>2 DEF OnWalkComplete
<1>3. CASE w.walkTask
  <2> DEFINE id == Fresh({})
             u == OnWalkComplete(w)
  <2>1. w.uses = {}
    BY <1>3 DEF Within, Uses
  <2>2. id \in Ids
    BY FreshIsAnId
  <2>3. u = [w EXCEPT !.walkTask = FALSE, !.walkTaskEvent = id, !.uses = @ \union {id}]
    BY <1>3, <2>1 DEF OnWalkComplete
  <2> HIDE DEF id, u
  <2>4. u \in Walkers
    BY <1>1, <2>2, <2>3 DEF Walkers
  <2>5. /\ u.list = w.list /\ u.stopped = w.stopped /\ u.cancelNextWalk = w.cancelNextWalk
        /\ u.chaseMode = w.chaseMode /\ u.follow = w.follow /\ u.attack = w.attack
        /\ u.walks = w.walks
    BY <1>1, <2>3 DEF Walkers
  <2>6. ~u.walkTask /\ u.walkTaskEvent = id /\ u.uses = {id}
    BY <1>1, <2>1, <2>3 DEF Walkers
  <2>7. Within(u) /\ (Halts(w) => Halts(u))
    BY <2>4, <2>5, <2>6 DEF Within, Uses, Halting, Chases, Halts
  <2> QED
    BY <2>5, <2>6, <2>7 DEF u
<1> QED
  BY <1>2, <1>3

(* A step shortens the walk; the one taken after the order to stop is the  *)
(* last.                                                                   *)
LEMMA StepWithin ==
  ASSUME WalkAssumption, NEW w, Within(w), Halts(w), w.list # 0, NEW o \in Outcomes
  PROVE  /\ Within(Step(w, o)) /\ Step(w, o).walks \subseteq w.walks
         /\ w.eventWalk = 0 => Step(w, o).eventWalk = 0
         /\ GoesOn(w) /\ w.eventWalk # 0 => GoesOn(Step(w, o))
<1>1. w \in Walkers /\ w.list \in Nat \ {0} /\ w.stopped \in {0, 1}
  BY DEF Within, Walkers, Halts, Halting
<1>2. CASE o.step = "blocked"
  <2> DEFINE u == [w EXCEPT !.list = @ - 1]
  <2>1. Step(w, o) = u
    BY <1>2 DEF Step
  <2>2. /\ u \in Walkers /\ u.list = w.list - 1 /\ u.stopped = w.stopped
        /\ u.cancelNextWalk = w.cancelNextWalk /\ u.chaseMode = w.chaseMode
        /\ u.follow = w.follow /\ u.attack = w.attack /\ u.walks = w.walks
        /\ u.walkTask = w.walkTask /\ u.uses = w.uses /\ u.walkTaskEvent = w.walkTaskEvent
        /\ u.eventWalk = w.eventWalk
    BY <1>1 DEF Walkers
  <2> HIDE DEF u
  <2>3. Within(u) /\ (w.eventWalk # 0 => GoesOn(u))
    BY <1>1, <2>2 DEF Within, Uses, Halting, Chases, GoesOn
  <2> QED
    BY <2>1, <2>2, <2>3
<1>3. CASE o.step # "blocked"
  <2> DEFINE u == [w EXCEPT !.list = @ - 1, !.stopped = IF @ = 0 THEN 0 ELSE @ + 1]
             k == IF w.stopped = 0 THEN 0 ELSE w.stopped + 1
             v == OnCreatureMove(u, FALSE, FALSE)
  <2>1. /\ u \in Walkers /\ u.list = w.list - 1 /\ u.stopped \in {0, 2}
        /\ u.stopped # 0 => w.stopped = 1
        /\ u.cancelNextWalk = w.cancelNextWalk /\ u.chaseMode = w.chaseMode
        /\ u.follow = w.follow /\ u.attack = w.attack /\ u.walks = w.walks
        /\ u.walkTask = w.walkTask /\ u.uses = w.uses /\ u.walkTaskEvent = w.walkTaskEvent
        /\ u.eventWalk = w.eventWalk
    <3>1. k \in {0, 2} /\ (k # 0 => w.stopped = 1)
      BY <1>1
    <3>2. u = [w EXCEPT !.list = w.list - 1, !.stopped = k]
      OBVIOUS
    <3> HIDE DEF u, k
    <3>3. u.list = w.list - 1 /\ u.stopped = k
      BY <1>1, <3>2 DEF Walkers
    <3>4. /\ u.cancelNextWalk = w.cancelNextWalk /\ u.chaseMode = w.chaseMode
          /\ u.follow = w.follow /\ u.attack = w.attack /\ u.walks = w.walks
          /\ u.walkTask = w.walkTask /\ u.uses = w.uses
          /\ u.walkTaskEvent = w.walkTaskEvent /\ u.eventWalk = w.eventWalk
      BY <1>1, <3>2 DEF Walkers
    <3>5. u \in Walkers
      <4> DEFINE x == [w EXCEPT !.list = w.list - 1]
      <4>1. x \in Walkers
        BY <1>1 DEF Walkers
      <4>2. k \in Nat /\ u = [x EXCEPT !.stopped = k]
        BY <3>1, <3>2
      <4> HIDE DEF x
      <4> QED
        BY <4>1, <4>2 DEF Walkers
    <3> QED
      BY <3>1, <3>3, <3>4, <3>5
  <2>2. o.away \in BOOLEAN /\ o.step \in {"ok", "teleported"}
    BY <1>3 DEF Outcomes, Blocked
  <2>3. Step(w, o) = IF o.step = "ok" THEN OnCreatureMove(u, FALSE, o.away)
                     ELSE OnCreatureMove(v, TRUE, o.away)
    BY <1>3, <2>2 DEF Step
  <2> HIDE DEF u, k
  <2>4. Within(u) /\ (w.eventWalk # 0 => GoesOn(u))
    BY <1>1, <2>1 DEF Within, Uses, Halting, Chases, GoesOn
  <2>5. Kept(u, v)
    BY <2>4, MoveKeeps
  <2> HIDE DEF v
  <2>6. CASE o.step = "ok"
    <3>1. Kept(u, OnCreatureMove(u, FALSE, o.away))
      BY <2>2, <2>4, MoveKeeps
    <3> QED
      BY <2>1, <2>3, <2>4, <2>6, <3>1 DEF Kept
  <2>7. CASE o.step = "teleported"
    <3>1. Kept(v, OnCreatureMove(v, TRUE, o.away))
      BY <2>2, <2>5, MoveKeeps DEF Kept
    <3> QED
      BY <2>1, <2>3, <2>4, <2>5, <2>7, <3>1 DEF Kept
  <2> QED
    BY <2>2, <2>6, <2>7
<1> QED
  BY <1>2, <1>3

(* onWalk before it looks at the order to stop: nothing, the end of the    *)
(* walk, or a step.                                                        *)
LEMMA OnwardWithin ==
  ASSUME WalkAssumption, NEW w, Within(w), Halts(w), w.walks = {}, NEW o \in Outcomes
  PROVE  /\ Within(Onward(w, o)) /\ Onward(w, o).walks = {}
         /\ w.eventWalk = 0 => Onward(w, o).eventWalk = 0
         /\ GoesOn(w) /\ w.eventWalk # 0 => GoesOn(Onward(w, o))
<1>1. CASE w.tired
  BY <1>1 DEF Onward
<1>2. CASE ~w.tired /\ w.list = 0
  <2> DEFINE v == OnWalkComplete(w)
             u == [v EXCEPT !.eventWalk = 0, !.walks = @ \ {w.eventWalk}]
  <2>1. Within(v) /\ ~v.walkTask /\ v.list = 0 /\ v.walks = {}
    BY <1>2, CompleteWithin
  <2>2. Onward(w, o) = u
    BY <1>2 DEF Onward
  <2> HIDE DEF v
  <2>3. v \in Walkers
    BY <2>1 DEF Within
  <2>4. /\ u \in Walkers /\ u.walks = {} /\ u.eventWalk = 0
        /\ u.list = v.list /\ u.stopped = v.stopped
        /\ u.cancelNextWalk = v.cancelNextWalk /\ u.chaseMode = v.chaseMode
        /\ u.follow = v.follow /\ u.attack = v.attack
        /\ u.walkTask = v.walkTask /\ u.uses = v.uses /\ u.walkTaskEvent = v.walkTaskEvent
    BY <2>1, <2>3 DEF Walkers
  <2> HIDE DEF u
  <2>5. Within(u) /\ GoesOn(u)
    BY <2>1, <2>4 DEF Within, Uses, Halting, Chases, GoesOn
  <2> QED
    BY <2>2, <2>4, <2>5
<1>3. CASE ~w.tired /\ w.list # 0
  <2>1. Onward(w, o) = Step(w, o)
    BY <1>3 DEF Onward
  <2> QED
    BY <1>3, <2>1, StepWithin
<1> QED
  BY <1>1, <1>2, <1>3

(* Who was told to stop has nowhere to go any more.                        *)
LEMMA HaltedWithin ==
  ASSUME NEW w, Within(w)
  PROVE  /\ Within(Halted(w)) /\ Halted(w).walks = w.walks /\ Halted(w).eventWalk = w.eventWalk
         /\ Halted(w).stopped # 0 => Halted(w).list = 0
         /\ GoesOn(w) => GoesOn(Halted(w))
<1>1. w \in Walkers
  BY DEF Within
<1>2. CASE ~w.cancelNextWalk
  BY <1>2 DEF Halted, Within, Halting
<1>3. CASE w.cancelNextWalk
  <2> DEFINE v == OnWalkAborted(w)
             u == [v EXCEPT !.list = 0, !.cancelNextWalk = FALSE]
  <2>1. Mild(w, v) /\ SameAims(w, v) /\ ~v.walkTask /\ v.list = w.list
    BY <1>1, AbortedMild
  <2>2. Halted(w) = u
    BY <1>3 DEF Halted
  <2>3. Within(v) /\ v.walks = w.walks /\ v.eventWalk = w.eventWalk
    BY <2>1, MildKept DEF Mild, SameAims, Kept, Within, Chases
  <2> HIDE DEF v
  <2>4. v \in Walkers
    BY <2>1 DEF Mild
  <2>5. /\ u \in Walkers /\ u.walks = v.walks /\ u.eventWalk = v.eventWalk
        /\ u.list = 0 /\ u.stopped = v.stopped
        /\ u.chaseMode = v.chaseMode /\ u.follow = v.follow /\ u.attack = v.attack
        /\ u.walkTask = v.walkTask /\ u.uses = v.uses /\ u.walkTaskEvent = v.walkTaskEvent
    BY <2>4 DEF Walkers
  <2> HIDE DEF u
  <2>6. Within(u) /\ GoesOn(u)
    BY <2>1, <2>3, <2>5 DEF Within, Uses, Halting, Chases, GoesOn
  <2> QED
    BY <2>2, <2>3, <2>5, <2>6
<1> QED
  BY <1>2, <1>3

(* onWalk as a whole. It schedules the next step; entered without an       *)
(* event, it schedules none.                                               *)
LEMMA OnWalkSound ==
  ASSUME WalkAssumption, NEW w, Within(w), Halts(w), w.walks = {}, NEW o \in Outcomes
  PROVE  /\ Within(OnWalk(w, o)) /\ Halts(OnWalk(w, o))
         /\ w.eventWalk = 0 => OnWalk(w, o).walks = {}
         /\ GoesOn(w) /\ w.eventWalk # 0 => Sound(OnWalk(w, o))
<1> DEFINE u == Halted(Onward(w, o))
           v == [u EXCEPT !.eventWalk = 0]
<1>1. /\ Within(u) /\ u.walks = {} /\ (u.stopped # 0 => u.list = 0)
      /\ w.eventWalk = 0 => u.eventWalk = 0
      /\ GoesOn(w) /\ w.eventWalk # 0 => GoesOn(u)
  BY OnwardWithin, HaltedWithin
<1>2. OnWalk(w, o) = IF u.eventWalk = 0 THEN u ELSE AddEventWalk(v)
  BY DEF OnWalk, NextStep
<1> HIDE DEF u
<1>3. u \in Walkers
  BY <1>1 DEF Within
<1>4. CASE u.eventWalk = 0
  <2>1. Halts(u) /\ WalkEvents(u)
    BY <1>1, <1>3, <1>4 DEF Within, Halting, Halts, WalkEvents
  <2> QED
    BY <1>1, <1>2, <1>4, <2>1 DEF Sound
<1>5. CASE u.eventWalk # 0
  <2>1. /\ v \in Walkers /\ v.walks = {} /\ v.eventWalk = 0 /\ v.list = u.list
        /\ v.stopped = u.stopped /\ v.cancelNextWalk = u.cancelNextWalk
        /\ v.chaseMode = u.chaseMode /\ v.follow = u.follow /\ v.attack = u.attack
        /\ v.walkTask = u.walkTask /\ v.uses = u.uses /\ v.walkTaskEvent = u.walkTaskEvent
    BY <1>1, <1>3 DEF Walkers
  <2> HIDE DEF v
  <2>2. Within(v) /\ WalkEvents(v) /\ (v.stopped # 0 => v.list = 0)
    BY <1>1, <2>1 DEF Within, Uses, Halting, Chases, WalkEvents
  <2>3. Sound(AddEventWalk(v))
    BY <2>2, AddEventSound
  <2> QED
    BY <1>1, <1>2, <1>5, <2>3 DEF Sound
<1> QED
  BY <1>4, <1>5

(* A walk, which starts with a step where it has one step alone.           *)
LEMMA StartSound ==
  ASSUME WalkAssumption, NEW w, Within(w), WalkEvents(w), NEW n \in Nat, NEW o \in Outcomes
  PROVE  Sound(StartAutoWalk(w, n, o))
<1> DEFINE u == [w EXCEPT !.list = n, !.stopped = 0, !.cancelNextWalk = FALSE]
<1>1. w \in Walkers
  BY DEF Within
<1>2. u \in Walkers
  <2> DEFINE x == [w EXCEPT !.list = n]
             y == [x EXCEPT !.stopped = 0]
  <2>1. x \in Walkers
    BY <1>1 DEF Walkers
  <2> HIDE DEF x
  <2>2. y \in Walkers
    BY <2>1 DEF Walkers
  <2>3. u = [y EXCEPT !.cancelNextWalk = FALSE]
    BY DEF x
  <2> HIDE DEF u, y
  <2> QED
    BY <2>2, <2>3 DEF Walkers
<1>3. /\ u.stopped = 0 /\ u.chaseMode = w.chaseMode /\ u.follow = w.follow
      /\ u.attack = w.attack /\ u.walkTask = w.walkTask /\ u.uses = w.uses
      /\ u.walkTaskEvent = w.walkTaskEvent /\ u.walks = w.walks /\ u.eventWalk = w.eventWalk
  BY <1>1 DEF Walkers
<1>4. StartAutoWalk(w, n, o) = IF n = 1 /\ ~w.tired /\ w.eventWalk = 0
                               THEN Scheduled(OnWalk(u, o)) ELSE AddEventWalk(u)
  BY DEF StartAutoWalk
<1> HIDE DEF u
<1>5. Within(u) /\ Halts(u) /\ WalkEvents(u)
  BY <1>2, <1>3 DEF Within, Uses, Halting, Halts, Chases, WalkEvents
<1>6. Sound(AddEventWalk(u))
  BY <1>3, <1>5, AddEventSound
<1>7. w.eventWalk = 0 => Sound(Scheduled(OnWalk(u, o)))
  <2> SUFFICES ASSUME w.eventWalk = 0
               PROVE  Sound(Scheduled(OnWalk(u, o)))
    OBVIOUS
  <2>1. u.walks = {}
    BY <1>3, <1>5 DEF WalkEvents
  <2>2. Within(OnWalk(u, o)) /\ Halts(OnWalk(u, o)) /\ OnWalk(u, o).walks = {}
    BY <1>3, <1>5, <2>1, OnWalkSound
  <2> QED
    BY <2>2, ScheduledSound
<1> QED
  BY <1>4, <1>6, <1>7

(* goToFollowCreature starts the walk that was found, or empties the list. *)
LEMMA GoToFollowSound ==
  ASSUME WalkAssumption, NEW w, Sound(w), NEW r \in Routes
  PROVE  Sound(GoToFollowCreature(w, r))
<1>1. w \in Walkers
  BY DEF Sound, Within
<1>2. CASE r.n \in {NotTried, NoPath}
  <2> DEFINE u == [w EXCEPT !.list = 0, !.hasFollowPath = FALSE]
  <2>1. Mild(w, u) /\ SameAims(w, u)
    BY <1>1, ZenonT(60) DEF Mild, SameAims, Walkers, Uses
  <2>2. GoToFollowCreature(w, r) \in {w, u}
    BY <1>2 DEF GoToFollowCreature
  <2> HIDE DEF u
  <2>3. Sound(u)
    BY <2>1, MildKept DEF Sound, Within, Chases, SameAims, Kept
  <2> QED
    BY <2>2, <2>3
<1>3. CASE r.n \notin {NotTried, NoPath}
  <2> DEFINE u == [w EXCEPT !.hasFollowPath = TRUE]
  <2>1. r.n \in Nat /\ r.o \in Outcomes
    BY <1>3 DEF Routes, Paths, NotTried, NoPath, WalkAssumption, Outcomes
  <2>2. Mild(w, u) /\ SameAims(w, u)
    BY <1>1 DEF Mild, SameAims, Walkers, Uses
  <2>3. GoToFollowCreature(w, r) \in {w, StartAutoWalk(u, r.n, r.o)}
    BY <1>3 DEF GoToFollowCreature
  <2> HIDE DEF u
  <2>4. Sound(u)
    BY <2>2, MildKept DEF Sound, Within, Chases, SameAims, Kept
  <2> QED
    BY <2>1, <2>3, <2>4, StartSound DEF Sound
<1> QED
  BY <1>2, <1>3

(* Using something far away replaces the use that waits and queues the     *)
(* walk to it.                                                             *)
LEMMA UseItemSound ==
  ASSUME WalkAssumption, NEW w, Sound(w), NEW n \in Paths
  PROVE  Sound(UseItem(w, n))
<1>1. w \in Walkers
  BY DEF Sound, Within
<1>2. CASE n = NotTried
  <2>1. Mild(w, StopWalk(w)) /\ SameAims(w, StopWalk(w))
    BY <1>1, StopWalkMild
  <2> QED
    BY <1>2, <2>1, MildKept DEF UseItem, Sound, Within, Chases, SameAims, Kept
<1>3. CASE n = NoPath
  BY <1>3 DEF UseItem, NoPath, NotTried
<1>4. CASE n \notin {NotTried, NoPath}
  <2> DEFINE q == Queued(w, Walk(n))
             u == [q EXCEPT !.uses = @ \ {q.walkTaskEvent}, !.walkTaskEvent = 0,
                           !.walkTask = TRUE]
  <2>1. Walk(n) \in Jobs /\ Walk(n).op = "playerAutoWalk"
    BY <1>4 DEF Walk, Jobs, Paths, NotTried, NoPath, WalkAssumption
  <2>2. Mild(w, q) /\ SameAims(w, q) /\ Awaited(q.queue)
    BY <1>1, <2>1, QueuedMild
  <2>3. UseItem(w, n) = u
    BY <1>4 DEF UseItem, SetNextWalkActionTask
  <2> HIDE DEF q
  <2>4. Sound(q) /\ q \in Walkers
    BY <2>2, MildKept DEF Sound, Within, Chases, SameAims, Kept
  <2>5. /\ u.uses = q.uses \ {q.walkTaskEvent} /\ u.list = q.list /\ u.stopped = q.stopped
        /\ u.cancelNextWalk = q.cancelNextWalk /\ u.chaseMode = q.chaseMode
        /\ u.follow = q.follow /\ u.attack = q.attack
        /\ u.walks = q.walks /\ u.eventWalk = q.eventWalk /\ u.queue = q.queue
    BY <2>4 DEF Walkers
  <2>6. u \in Walkers
    BY <2>4 DEF Walkers
  <2> HIDE DEF u
  <2>7. u.uses = {}
    BY <2>4, <2>5 DEF Sound, Within, Uses
  <2> QED
    BY <2>2, <2>3, <2>4, <2>5, <2>6, <2>7
       DEF Sound, Within, Uses, Halting, Halts, Chases, WalkEvents, GoesOn
<1> QED
  BY <1>2, <1>3, <1>4

(* Between two tasks, a mild change keeps the invariant if the aims still  *)
(* agree,                                                                  *)
LEMMA MildSound ==
  ASSUME NEW w, NEW u, Mild(w, u), Sound(w), Chases(u)
  PROVE  Sound(u) /\ u \in Walkers
BY MildKept DEF Sound, Kept, Within

(* and if they are the same.                                               *)
LEMMA SameAimsSound ==
  ASSUME NEW w, NEW u, Mild(w, u), SameAims(w, u), Sound(w)
  PROVE  Sound(u) /\ u \in Walkers
BY MildSound DEF SameAims, Chases, Sound, Within

-----------------------------------------------------------------------------
(* What the scheduler and the dispatcher run.                              *)
(* The event runs: it is the one that eventWalk names, and nothing is      *)
(* pending after it.                                                       *)
LEMMA CheckCreatureWalkSound ==
  ASSUME WalkAssumption, Sound(walker), NEW e \in Ids, NEW o \in Outcomes,
         CheckCreatureWalk(e, o)
  PROVE  Sound(walker')
<1> DEFINE u == [walker EXCEPT !.walks = @ \ {e}]
<1>1. walker \in Walkers
  BY DEF Sound, Within
<1>2. e \in walker.walks /\ walker' = OnWalk(u, o)
  BY DEF CheckCreatureWalk
<1>3. e = walker.eventWalk /\ e # 0 /\ walker.walks = {e}
  BY <1>2 DEF Sound, WalkEvents
<1>4. /\ u \in Walkers /\ u.walks = {} /\ u.eventWalk = e /\ u.list = walker.list
      /\ u.stopped = walker.stopped /\ u.cancelNextWalk = walker.cancelNextWalk
      /\ u.chaseMode = walker.chaseMode /\ u.follow = walker.follow
      /\ u.attack = walker.attack /\ u.walkTask = walker.walkTask /\ u.uses = walker.uses
      /\ u.walkTaskEvent = walker.walkTaskEvent
  BY <1>1, <1>3 DEF Walkers
<1> HIDE DEF u
<1>5. Within(u) /\ Halts(u) /\ GoesOn(u)
  BY <1>3, <1>4 DEF Sound, Within, Uses, Halting, Halts, Chases, GoesOn
<1> QED
  BY <1>2, <1>3, <1>4, <1>5, OnWalkSound

(* A task of the dispatcher leaves the list, and a walk takes its place.   *)
LEMMA RunTaskSound ==
  ASSUME WalkAssumption, Sound(walker), NEW r \in Routes, RunTask(r)
  PROVE  Sound(walker')
<1> DEFINE task == Head(walker.queue)
           rest == Tail(walker.queue)
           u == [walker EXCEPT !.queue = rest]
<1>1. walker \in Walkers /\ walker.queue \in Seq(Jobs) /\ walker.queue # <<>>
  BY DEF Sound, Within, Walkers, RunTask
<1>2. task \in Jobs /\ rest \in Seq(Jobs)
  BY <1>1, HeadTailProperties
<1>3. task.op # "playerAutoWalk" /\ Awaited(walker.queue) => Awaited(rest)
  <2> SUFFICES ASSUME task.op # "playerAutoWalk", Awaited(walker.queue)
               PROVE  Awaited(rest)
    OBVIOUS
  <2>1. PICK i \in DOMAIN walker.queue : walker.queue[i].op = "playerAutoWalk"
    BY DEF Awaited
  <2>2. i # 1
    BY <1>1, <2>1
  <2>3. i - 1 \in DOMAIN rest /\ rest[i - 1] = walker.queue[i]
    BY <1>1, <2>2, HeadTailProperties, LenProperties
  <2> QED
    BY <2>1, <2>3 DEF Awaited
<1>4. walker' = IF task.op = "updateCreatureWalk" THEN GoToFollowCreature(u, r)
                ELSE StartAutoWalk(u, task.steps, r.o)
  BY DEF RunTask
<1> HIDE DEF task, rest
<1>5. /\ u \in Walkers /\ u.queue = rest /\ u.list = walker.list
      /\ u.stopped = walker.stopped /\ u.cancelNextWalk = walker.cancelNextWalk
      /\ u.chaseMode = walker.chaseMode /\ u.follow = walker.follow
      /\ u.attack = walker.attack /\ u.walkTask = walker.walkTask /\ u.uses = walker.uses
      /\ u.walkTaskEvent = walker.walkTaskEvent
      /\ u.walks = walker.walks /\ u.eventWalk = walker.eventWalk /\ u.adrift = walker.adrift
  BY <1>1, <1>2 DEF Walkers
<1> HIDE DEF u
<1>6. Within(u) /\ Halts(u) /\ WalkEvents(u)
  BY <1>5 DEF Sound, Within, Uses, Halting, Halts, Chases, WalkEvents
<1>7. CASE task.op = "updateCreatureWalk"
  <2>1. Sound(u)
    BY <1>3, <1>5, <1>6, <1>7 DEF Sound, GoesOn
  <2> QED
    BY <1>4, <1>7, <2>1, GoToFollowSound
<1>8. CASE task.op # "updateCreatureWalk"
  <2>1. task.steps \in Nat /\ r.o \in Outcomes
    BY <1>2 DEF Jobs, Routes, Outcomes, WalkAssumption
  <2> QED
    BY <1>4, <1>6, <1>8, <2>1, StartSound
<1> QED
  BY <1>7, <1>8

(* onThink looks for the path again,                                       *)
LEMMA OnThinkSound ==
  ASSUME WalkAssumption, Sound(walker), NEW due \in BOOLEAN, NEW r \in Routes, OnThink(due, r)
  PROVE  Sound(walker')
<1> DEFINE u == [walker EXCEPT !.isUpdatingPath = FALSE]
<1>1. walker \in Walkers
  BY DEF Sound, Within
<1>2. Mild(walker, u) /\ SameAims(walker, u)
  BY <1>1, ZenonT(60) DEF Mild, SameAims, Walkers, Uses
<1>3. walker' \in {walker, GoToFollowCreature(u, r)}
  BY DEF OnThink
<1> HIDE DEF u
<1> QED
  BY <1>2, <1>3, SameAimsSound, GoToFollowSound

(* and the delayed use uses what it was for.                               *)
LEMMA WalkTaskSound ==
  ASSUME WalkAssumption, Sound(walker), NEW e \in Ids, NEW n \in Paths, WalkTask(e, n)
  PROVE  Sound(walker')
<1> DEFINE u == [walker EXCEPT !.uses = @ \ {e}]
<1>1. walker \in Walkers
  BY DEF Sound, Within
<1>2. Mild(walker, u) /\ SameAims(walker, u)
  BY <1>1 DEF Mild, SameAims, Walkers, Uses
<1>3. walker' = UseItem(u, n)
  BY DEF WalkTask
<1> HIDE DEF u
<1> QED
  BY <1>2, <1>3, SameAimsSound, UseItemSound

-----------------------------------------------------------------------------
(* What the client asks for.                                               *)
(* Walking, stepping, using and stopping keep the invariant,               *)
LEMMA MovesSound ==
  ASSUME WalkAssumption, Sound(walker),
         \/ \E r \in Routes : PlayerAutoWalk(r)
         \/ \E o \in Outcomes : PlayerMove(o)
         \/ \E n \in Paths : PlayerUseItem(n)
         \/ PlayerStopAutoWalk
  PROVE  Sound(walker')
<1>1. walker \in Walkers
  BY DEF Sound, Within
<1>2. ASSUME NEW r \in Routes, PlayerAutoWalk(r)
      PROVE  Sound(walker')
  <2>1. r.n \in Nat /\ r.o \in Outcomes
    BY <1>2 DEF PlayerAutoWalk, Routes, Outcomes, Paths, NotTried, WalkAssumption
  <2> QED
    BY <1>2, <2>1, StartSound DEF PlayerAutoWalk, Sound
<1>3. ASSUME NEW o \in Outcomes, PlayerMove(o)
      PROVE  Sound(walker')
  <2>1. Sound(OnWalkAborted(walker))
    BY <1>1, AbortedMild, SameAimsSound
  <2>2. walker' = StartAutoWalk(OnWalkAborted(walker), 1, o)
    BY <1>3 DEF PlayerMove, OnWalkAborted
  <2> QED
    BY <2>1, <2>2, StartSound DEF Sound
<1>4. ASSUME NEW n \in Paths, PlayerUseItem(n)
      PROVE  Sound(walker')
  BY <1>4, UseItemSound DEF PlayerUseItem
<1>5. CASE PlayerStopAutoWalk
  BY <1>1, <1>5, StopWalkMild, SameAimsSound DEF PlayerStopAutoWalk
<1> QED
  BY <1>2, <1>3, <1>4, <1>5

(* so do choosing and dropping whom to follow and attack,                  *)
LEMMA AimsSound ==
  ASSUME WalkAssumption, Sound(walker), NEW c \in Targets \union {Nobody},
         PlayerSetAttackedCreature(c) \/ PlayerFollowCreature(c) \/ PlayerCancelAttackAndFollow
  PROVE  Sound(walker')
<1>1. walker \in Walkers /\ Chases(walker)
  BY DEF Sound, Within
<1>2. Update \in Jobs
  BY DEF Update, Jobs, WalkAssumption
<1>3. CASE PlayerSetAttackedCreature(c)
  <2> DEFINE u == SetAttackedCreature(walker, c)
  <2>1. Sound(u) /\ u \in Walkers
    BY <1>1, SetAttackedMild, MildSound
  <2>2. walker' \in {u, Queued(u, Update)}
    BY <1>3 DEF PlayerSetAttackedCreature
  <2> HIDE DEF u
  <2> QED
    BY <1>2, <2>1, <2>2, QueuedMild, SameAimsSound
<1> DEFINE v == AttackNobody(walker)
           q == Queued(v, Update)
<1>4. Mild(walker, v) /\ v.attack = Nobody
  BY <1>1, AttackNobodyMild
<1> HIDE DEF v
<1>5. Mild(v, q) /\ SameAims(v, q)
  BY <1>2, <1>4, QueuedMild DEF Mild
<1> HIDE DEF q
<1>6. q \in Walkers /\ Mild(walker, q) /\ q.attack = Nobody
  BY <1>1, <1>4, <1>5, MildTwice DEF SameAims, Mild
<1>7. CASE PlayerFollowCreature(c)
  <2>1. walker' = SetFollowCreature(q, c)
    BY <1>7 DEF PlayerFollowCreature, q, v
  <2>2. Mild(q, walker') /\ walker'.attack = Nobody
    BY <1>6, <2>1, SetFollowMild
  <2>3. Mild(walker, walker')
    BY <1>1, <1>6, <2>2, MildTwice
  <2> QED
    BY <2>2, <2>3, MildSound DEF Chases
<1>8. CASE PlayerCancelAttackAndFollow
  <2> DEFINE f == FollowNobody(q)
  <2>1. walker' = StopWalk(f)
    BY <1>8 DEF PlayerCancelAttackAndFollow, q, v
  <2>2. Mild(q, f) /\ f.attack = Nobody /\ f \in Walkers
    BY <1>6, FollowNobodyMild DEF Mild
  <2> HIDE DEF f
  <2>3. Mild(f, walker') /\ walker'.attack = Nobody
    BY <2>1, <2>2, StopWalkMild DEF SameAims
  <2>4. Mild(walker, walker')
    BY <1>1, <1>6, <2>2, <2>3, MildTwice
  <2> QED
    BY <2>3, <2>4, MildSound DEF Chases
<1> QED
  BY <1>3, <1>7, <1>8

(* and chase mode, which ends the following or begins it.                  *)
LEMMA SetChaseModeSound ==
  ASSUME WalkAssumption, Sound(walker), NEW mode \in BOOLEAN, SetChaseMode(mode)
  PROVE  Sound(walker')
<1> DEFINE u == [walker EXCEPT !.chaseMode = mode]
<1>1. walker \in Walkers /\ Chases(walker)
  BY DEF Sound, Within
<1>2. /\ Mild(walker, u) /\ u.attack = walker.attack /\ u.follow = walker.follow
      /\ u.chaseMode = mode
  BY <1>1 DEF Mild, Walkers, Uses
<1>3. walker' = IF mode = walker.chaseMode \/ u.attack = Nobody THEN u
                ELSE IF ~mode THEN FollowNobody(u)
                ELSE IF u.follow = Nobody THEN SetFollowCreature(u, u.attack) ELSE u
  BY DEF SetChaseMode
<1> HIDE DEF u
<1>4. u \in Walkers /\ u.attack \in Targets \union {Nobody}
  BY <1>2 DEF Mild, Walkers
<1>5. CASE mode = walker.chaseMode \/ u.attack = Nobody
  BY <1>1, <1>2, <1>3, <1>5, MildSound DEF Chases
<1>6. CASE mode # walker.chaseMode /\ u.attack # Nobody /\ ~mode
  <2>1. walker' = FollowNobody(u)
    BY <1>3, <1>6
  <2>2. Mild(u, walker') /\ walker'.follow = Nobody /\ walker'.chaseMode = u.chaseMode
    BY <1>4, <2>1, FollowNobodyMild
  <2>3. Mild(walker, walker')
    BY <1>1, <1>2, <2>2, MildTwice
  <2> QED
    BY <1>2, <1>6, <2>2, <2>3, MildSound DEF Chases
<1>7. CASE mode # walker.chaseMode /\ u.attack # Nobody /\ mode
  <2>1. walker.chaseMode = FALSE
    BY <1>1, <1>7 DEF Walkers
  <2>2. walker' = SetFollowCreature(u, u.attack)
    BY <1>1, <1>2, <1>3, <1>7, <2>1 DEF Chases
  <2>3. /\ Mild(u, walker') /\ walker'.chaseMode = u.chaseMode
        /\ \/ walker'.follow = u.attack /\ walker'.attack = u.attack
           \/ walker'.attack = Nobody
    BY <1>4, <1>7, <2>2, SetFollowMild
  <2>4. Mild(walker, walker')
    BY <1>1, <1>2, <2>3, MildTwice
  <2> QED
    BY <1>2, <1>7, <2>3, <2>4, MildSound DEF Chases
<1> QED
  BY <1>5, <1>6, <1>7

-----------------------------------------------------------------------------
(* What others do to him.                                                  *)
(* A creature that goes where he does not see it,                          *)
LEMMA TargetMovesSound ==
  ASSUME WalkAssumption, Sound(walker), NEW c \in Targets, NEW inSight \in BOOLEAN,
         TargetMoves(c, inSight)
  PROVE  Sound(walker')
<1> DEFINE u == [walker EXCEPT !.seen = IF inSight THEN @ \union {c} ELSE @ \ {c}]
           v == LoseSight(u)
<1>1. walker \in Walkers /\ Chases(walker)
  BY DEF Sound, Within
<1>2. Mild(walker, u) /\ Chases(u)
  BY <1>1 DEF Mild, Walkers, Uses, Chases
<1>3. walker' \in {v, PathAgain(v)}
  BY DEF TargetMoves
<1> HIDE DEF u
<1>4. u \in Walkers
  BY <1>2 DEF Mild
<1>5. Mild(u, v) /\ Chases(v)
  BY <1>2, <1>4, LoseSightMild
<1> HIDE DEF v
<1>6. Sound(v) /\ v \in Walkers /\ Chases(v)
  BY <1>1, <1>2, <1>5, MildTwice, MildSound
<1> QED
  BY <1>3, <1>6, PathAgainMild, MildSound

(* a change of his speed, which stops his event or adds it again,          *)
LEMMA SetSpeedSound ==
  ASSUME WalkAssumption, Sound(walker), NEW slow \in BOOLEAN, NEW byLevel \in BOOLEAN,
         SetSpeed(slow, byLevel)
  PROVE  Sound(walker')
<1>1. walker \in Walkers
  BY DEF Sound, Within
<1>2. CASE slow
  <2> DEFINE u == [walker EXCEPT !.slow = TRUE]
             v == StopEventWalk(u)
  <2>1. Mild(walker, u) /\ SameAims(walker, u)
    BY <1>1 DEF Mild, SameAims, Walkers, Uses
  <2>2. walker' = [v EXCEPT !.cancelNextWalk = TRUE]
    BY <1>2 DEF SetSpeed
  <2> HIDE DEF u
  <2>3. Sound(v)
    BY <2>1, SameAimsSound, StopEventKeeps DEF Sound, Kept
  <2> HIDE DEF v
  <2>4. v \in Walkers
    BY <2>3 DEF Sound, Within
  <2> DEFINE x == [v EXCEPT !.cancelNextWalk = TRUE]
  <2>5. /\ x \in Walkers /\ x.cancelNextWalk /\ x.list = v.list /\ x.stopped = v.stopped
        /\ x.chaseMode = v.chaseMode /\ x.follow = v.follow /\ x.attack = v.attack
        /\ x.walkTask = v.walkTask /\ x.uses = v.uses /\ x.walkTaskEvent = v.walkTaskEvent
        /\ x.walks = v.walks /\ x.eventWalk = v.eventWalk /\ x.adrift = v.adrift
        /\ x.queue = v.queue
    BY <2>4 DEF Walkers
  <2> HIDE DEF x
  <2>6. Sound(x)
    BY <2>3, <2>5 DEF Sound, Within, Uses, Halting, Halts, Chases, GoesOn, WalkEvents
  <2> QED
    BY <2>2, <2>6 DEF x
<1>3. CASE ~slow /\ (~walker.slow \/ byLevel \/ walker.list = 0)
  <2>1. walker' = [walker EXCEPT !.slow = FALSE]
    BY <1>3 DEF SetSpeed
  <2>2. Mild(walker, walker') /\ SameAims(walker, walker')
    BY <1>1, <2>1 DEF Mild, SameAims, Walkers, Uses
  <2> QED
    BY <2>2, SameAimsSound
<1>4. CASE ~slow /\ ~(~walker.slow \/ byLevel \/ walker.list = 0)
  <2> DEFINE u == [walker EXCEPT !.slow = FALSE, !.stopped = 0]
  <2>1. walker' = AddEventWalk(u)
    BY <1>4 DEF SetSpeed
  <2>2. u \in Walkers
    <3> DEFINE x == [walker EXCEPT !.slow = FALSE]
    <3>1. x \in Walkers
      BY <1>1 DEF Walkers
    <3>2. u = [x EXCEPT !.stopped = 0]
      OBVIOUS
    <3> HIDE DEF u, x
    <3> QED
      BY <3>1, <3>2 DEF Walkers
  <2>3. /\ u.stopped = 0 /\ u.chaseMode = walker.chaseMode /\ u.follow = walker.follow
        /\ u.attack = walker.attack /\ u.walkTask = walker.walkTask /\ u.uses = walker.uses
        /\ u.walkTaskEvent = walker.walkTaskEvent
        /\ u.walks = walker.walks /\ u.eventWalk = walker.eventWalk
    BY <1>1 DEF Walkers
  <2> HIDE DEF u
  <2>4. Within(u) /\ WalkEvents(u)
    BY <2>2, <2>3 DEF Sound, Within, Uses, Halting, Chases, WalkEvents
  <2> QED
    BY <2>1, <2>3, <2>4, AddEventSound
<1> QED
  BY <1>2, <1>3, <1>4

(* and time, which makes him ready for the next step, keep the invariant.  *)
LEMMA RestsSound ==
  ASSUME Sound(walker), Rests
  PROVE  Sound(walker')
<1>1. walker \in Walkers
  BY DEF Sound, Within
<1>2. Mild(walker, walker') /\ SameAims(walker, walker')
  BY <1>1 DEF Rests, Mild, SameAims, Walkers, Uses
<1> QED
  BY <1>2, SameAimsSound

-----------------------------------------------------------------------------
(* A player who has just come in satisfies the invariant,                  *)
LEMMA InitSound ==
  ASSUME WalkAssumption, WalkInit
  PROVE  Sound(walker)
<1>1. walker \in Walkers
  BY EmptySeq DEF WalkInit, Walkers
<1>2. /\ walker.list = 0 /\ walker.eventWalk = 0 /\ walker.walks = {} /\ ~walker.walkTask
      /\ walker.uses = {} /\ walker.attack = Nobody /\ walker.stopped = 0
  BY DEF WalkInit
<1> QED
  BY <1>1, <1>2 DEF Sound, Within, Uses, Halting, Halts, Chases, GoesOn, WalkEvents

(* and every step keeps it.                                                *)
LEMMA NextSound ==
  ASSUME WalkAssumption, Sound(walker), [WalkNext]_walker
  PROVE  Sound(walker')
<1>1. CASE UNCHANGED walker
  BY <1>1
<1>2. ASSUME NEW e \in Ids, NEW n \in Paths, WalkTask(e, n)
      PROVE  Sound(walker')
  BY <1>2, WalkTaskSound
<1>3. ASSUME NEW e \in Ids, NEW o \in Outcomes, CheckCreatureWalk(e, o)
      PROVE  Sound(walker')
  BY <1>3, CheckCreatureWalkSound
<1>4. ASSUME NEW r \in Routes, RunTask(r)
      PROVE  Sound(walker')
  BY <1>4, RunTaskSound
<1>5. ASSUME NEW r \in Routes, NEW due \in BOOLEAN, OnThink(due, r)
      PROVE  Sound(walker')
  BY <1>5, OnThinkSound
<1>6. CASE \/ \E r \in Routes : PlayerAutoWalk(r)
           \/ \E o \in Outcomes : PlayerMove(o)
           \/ \E n \in Paths : PlayerUseItem(n)
           \/ PlayerStopAutoWalk
  BY <1>6, MovesSound
<1>7. ASSUME NEW c \in Targets \union {Nobody},
             \/ PlayerSetAttackedCreature(c) \/ PlayerFollowCreature(c)
             \/ PlayerCancelAttackAndFollow
      PROVE  Sound(walker')
  BY <1>7, AimsSound
<1>8. ASSUME NEW b \in BOOLEAN, SetChaseMode(b) \/ \E byLevel \in BOOLEAN : SetSpeed(b, byLevel)
      PROVE  Sound(walker')
  BY <1>8, SetChaseModeSound, SetSpeedSound
<1>9. ASSUME NEW b \in BOOLEAN, NEW c \in Targets, TargetMoves(c, b)
      PROVE  Sound(walker')
  BY <1>9, TargetMovesSound
<1>10. ASSUME NEW teleport \in BOOLEAN, NEW away \in BOOLEAN, Displaced(teleport, away)
       PROVE  Sound(walker')
  BY <1>10, MoveKeeps DEF Displaced, Sound, Kept
<1>11. CASE Rests
  BY <1>11, RestsSound
<1> QED
  BY <1>1, <1>2, <1>3, <1>4, <1>5, <1>6, <1>7, <1>8, <1>9, <1>10, <1>11 DEF WalkNext

(* The checked property is read off.                                       *)
LEMMA SoundIsWalkSound ==
  ASSUME Sound(walker)
  PROVE  WalkSound
<1>1. OneEvent
  BY DEF Sound, Within, WalkEvents, Uses, OneEvent
<1>2. WalkGoesOn
  BY DEF Sound, GoesOn, Awaited, WalkGoesOn
<1>3. StopsWithinAStep
  BY DEF Sound, Within, Halting, StopsWithinAStep
<1>4. ChasesWhomHeAttacks
  BY DEF Sound, Within, Chases, ChasesWhomHeAttacks
<1> QED
  BY <1>1, <1>2, <1>3, <1>4 DEF WalkSound

(* Walk: the scheduler never holds two events of a kind for a player; a    *)
(* walk that is not finished, or that an action waits for, has its event   *)
(* or its task unless the player was teleported or could not move; who is  *)
(* told to stop takes at most one step more, until his speed comes back    *)
(* from nothing; and who attacks follows exactly that creature in chase    *)
(* mode, or nobody.                                                        *)
THEOREM WalkAlwaysSound ==
  ASSUME WalkAssumption
  PROVE  WalkSpec => []WalkSound
<1>1. WalkInit => Sound(walker)
  BY InitSound
<1>2. Sound(walker) /\ [WalkNext]_walker => Sound(walker)'
  BY NextSound
<1>3. Sound(walker) => WalkSound
  BY SoundIsWalkSound
<1> QED
  BY <1>1, <1>2, <1>3, PTL DEF WalkSpec

-----------------------------------------------------------------------------
(* Scripts.                                                                *)

(* The types.                                                              *)
Environments ==
  [script : Called \union {None}, callback : Called \union {None}, timer : BOOLEAN,
   npc : Called \union {None}]

Calls ==
  [hook : Called, adding : Products \union {None}, owes : SUBSET Products, has : SUBSET Nat]

ScriptsTypes ==
  /\ env \in [0 .. Slots + MaxRefused - 1 -> Environments]
  /\ index \in Int /\ calls \in Seq(Calls) /\ refused \in 0 .. MaxRefused
  /\ index = Len(calls) - 1 + refused /\ index < Slots + refused
  /\ temps \in SUBSET (Nat \X Products) /\ \A t \in temps : t[1] <= index
  /\ item \in [Products -> {"unmade", "nowhere", "placed", "released", "lost"}]
  /\ lastId \in Nat

(* An environment no call is in is empty, but for its npc.                 *)
Blank(e) == e = [Unused EXCEPT !.npc = e.npc]

FreeAreBlank == refused = 0 => \A s \in DOMAIN env : s > index => Blank(env[s])

(* An item is temporary once, while it exists; what a script has begun to  *)
(* add is no longer nowhere.                                               *)
TemporaryOnce ==
  /\ \A s \in temps, t \in temps : s[2] = t[2] => s = t
  /\ \A t \in temps : item[t[2]] \notin {"unmade", "released"}

AddedSomewhere ==
  \A k \in DOMAIN calls :
    calls[k].adding # None => item[calls[k].adding] \notin {"unmade", "nowhere"}

ScriptsInv ==
  /\ ScriptsTypes /\ OwnEnvironment /\ FreeAreBlank
  /\ TemporaryOnce /\ AddedSomewhere /\ TemporaryItems

(* Every hook is of a kind that permits nothing if its script fails.       *)
Strict(hooks) ==
  \A h \in DOMAIN hooks : hooks[h].kind \in {Permission, Amount, Notice, Takeover, Deed}

(* A table of hooks of one kind is, and so are tables together.            *)
LEMMA HookStrict ==
  ASSUME NEW names, NEW way, NEW kind \in {Permission, Amount, Notice, Takeover, Deed}
  PROVE  Strict(Hook(names, way, kind))
BY DEF Hook, Strict

LEMMA MergeStrict ==
  ASSUME NEW tables, \A t \in tables : Strict(t)
  PROVE  Strict(Merged(tables))
BY DEF Strict, Merged

(* All hooks of the game are.                                              *)
LEMMA HooksStrict == Strict(Hooks)
<1>1. /\ Strict(CombatHooks) /\ Strict(PartyHooks) /\ Strict(LookHooks) /\ Strict(MoveHooks) /\ Strict(ReportHooks)
      /\ Strict(TradeHooks) /\ Strict(GainHooks) /\ Strict(LifeHooks)
  BY HookStrict, MergeStrict
     DEF CombatHooks, PartyHooks, LookHooks, MoveHooks, ReportHooks, TradeHooks, GainHooks, LifeHooks
<1>2. /\ Strict(DeathHooks) /\ Strict(ChangeHooks) /\ Strict(TextHooks) /\ Strict(ChannelHooks)
      /\ Strict(MonsterHooks) /\ Strict(ThinkHook) /\ Strict(HearHook)
  BY HookStrict, MergeStrict
     DEF DeathHooks, ChangeHooks, TextHooks, ChannelHooks, MonsterHooks, ThinkHook, HearHook
<1>3. /\ Strict(NpcHooks) /\ Strict(DealHooks) /\ Strict(StepHooks) /\ Strict(SayHook)
      /\ Strict(UseHook) /\ Strict(CastHooks) /\ Strict(RuneHook)
  BY HookStrict, MergeStrict
     DEF NpcHooks, DealHooks, StepHooks, SayHook, UseHook, CastHooks, RuneHook
<1>4. /\ Strict(WeaponHook) /\ Strict(GlobalHooks) /\ Strict(RaidHook) /\ Strict(ValueHook)
      /\ Strict(TargetHooks) /\ Strict(TimerHook) /\ Strict(QueryHooks)
  BY HookStrict, MergeStrict
     DEF WeaponHook, GlobalHooks, RaidHook, ValueHook, TargetHooks, TimerHook, QueryHooks
<1>5. QED
  BY <1>1, <1>2, <1>3, <1>4, MergeStrict DEF Hooks

(* What a caller is told when there is no environment or an error.         *)
LEMMA FailuresClosed ==
  ASSUME ScriptsAssumption, NEW h \in Called
  PROVE  /\ Hooks[h].kind.full \notin {"yes", "changed"}
         /\ Hooks[h].kind.error \notin {"yes", "changed", "taken"}
<1>1. Hooks[h].kind \in {Permission, Amount, Notice, Takeover, Deed}
  BY HooksStrict DEF Strict, ScriptsAssumption
<1>2. /\ Permission.full = "no" /\ Permission.error = "no"
      /\ Amount.full = "kept" /\ Amount.error = "kept"
      /\ Notice.full = "nothing" /\ Notice.error = "nothing"
      /\ Takeover.full = "taken" /\ Takeover.error = "goes on"
      /\ Deed.full = "no" /\ Deed.error = "no"
  BY DEF Permission, Amount, Notice, Takeover, Deed
<1>3. QED
  BY <1>1, <1>2

(* The innermost call is one of the calls, and may be changed.             *)
LEMMA TopIsACall ==
  ASSUME ScriptsInv, calls # <<>>
  PROVE  /\ Len(calls) \in Nat \ {0} /\ DOMAIN calls = 1 .. Len(calls)
         /\ Len(calls) \in DOMAIN calls
         /\ Top = calls[Len(calls)] /\ Top \in Calls /\ index \in Nat
<1>1. calls \in Seq(Calls) /\ index = Len(calls) - 1 + refused /\ refused \in 0 .. MaxRefused
  BY DEF ScriptsInv, ScriptsTypes
<1>2. Len(calls) \in Nat \ {0} /\ DOMAIN calls = 1 .. Len(calls)
  BY <1>1
<1>3. QED
  BY <1>1, <1>2, ElementOfSeq DEF Top, Last

(* What lies where.                                                        *)
LEMMA ItemsKnown ==
  ASSUME ScriptsInv
  PROVE  /\ temps \in SUBSET (Nat \X Products) /\ \A t \in temps : t[1] <= index
         /\ item \in [Products -> {"unmade", "nowhere", "placed", "released", "lost"}]
         /\ Len(calls) \in Nat
         /\ refused = 0 => index = Len(calls) - 1
<1>1. Len(calls) \in Nat /\ index = Len(calls) - 1 + refused
  BY LenProperties DEF ScriptsInv, ScriptsTypes
<1>2. refused = 0 => index = Len(calls) - 1
  BY <1>1
<1>3. /\ temps \in SUBSET (Nat \X Products) /\ \A t \in temps : t[1] <= index
      /\ item \in [Products -> {"unmade", "nowhere", "placed", "released", "lost"}]
  BY DEF ScriptsInv, ScriptsTypes
<1>4. QED
  BY <1>1, <1>2, <1>3

(* What a call changes of itself leaves the environments of all as they    *)
(* are.                                                                    *)
LEMMA TopChanged ==
  ASSUME ScriptsInv, calls # <<>>, NEW c \in Calls, c.hook = Top.hook, InTop(c),
         UNCHANGED <<env, index, refused>>
  PROVE  /\ calls' \in Seq(Calls) /\ calls' # <<>> /\ Len(calls') = Len(calls)
         /\ DOMAIN calls' = DOMAIN calls
         /\ \A k \in DOMAIN calls : k # Len(calls) => calls'[k] = calls[k]
         /\ calls'[Len(calls)] = c /\ Top' = c
         /\ OwnEnvironment' /\ FreeAreBlank'
<1>1. calls \in Seq(Calls)
  BY DEF ScriptsInv, ScriptsTypes
<1>2. /\ Len(calls) \in Nat \ {0} /\ DOMAIN calls = 1 .. Len(calls)
      /\ Len(calls) \in DOMAIN calls /\ Top = calls[Len(calls)]
  BY TopIsACall
<1>3. calls' \in Seq(Calls) /\ Len(calls') = Len(calls)
  BY <1>1, <1>2, ExceptSeq DEF InTop
<1>4. /\ calls' # <<>> /\ DOMAIN calls' = DOMAIN calls
      /\ \A k \in DOMAIN calls : k # Len(calls) => calls'[k] = calls[k]
      /\ calls'[Len(calls)] = c
  BY <1>1, <1>2, <1>3 DEF InTop
<1>5. Top' = c
  BY <1>3, <1>4 DEF Top, Last
<1>6. \A k \in DOMAIN calls : calls'[k].hook = calls[k].hook
  BY <1>2, <1>4
<1>7. OwnEnvironment'
  BY <1>3, <1>4, <1>6 DEF ScriptsInv, OwnEnvironment
<1>8. FreeAreBlank'
  BY DEF ScriptsInv, FreeAreBlank, Blank
<1>9. QED
  BY <1>3, <1>4, <1>5, <1>7, <1>8

(* An item that is made is nowhere, and owed by the innermost call.        *)
LEMMA MakeItemKeeps ==
  ASSUME ScriptsInv, NEW i \in Products, MakeItem(i)
  PROVE  ScriptsInv'
<1> DEFINE c == [Top EXCEPT !.owes = @ \union {i}]
<1>1. calls # <<>> /\ InTop(c) /\ item[i] = "unmade" /\ UNCHANGED <<env, index, refused, lastId>>
  BY DEF MakeItem, Running
<1>2. /\ Len(calls) \in Nat \ {0} /\ DOMAIN calls = 1 .. Len(calls)
      /\ Len(calls) \in DOMAIN calls
      /\ Top = calls[Len(calls)] /\ Top \in Calls /\ index \in Nat
  BY <1>1, TopIsACall
<1>3. /\ c \in Calls /\ c.hook = Top.hook /\ c.adding = Top.adding
      /\ c.owes = Top.owes \union {i} /\ c.has = Top.has
  BY <1>2 DEF Calls
<1> HIDE DEF c
<1>4. /\ calls' \in Seq(Calls) /\ calls' # <<>> /\ Len(calls') = Len(calls)
      /\ DOMAIN calls' = DOMAIN calls
      /\ \A k \in DOMAIN calls : k # Len(calls) => calls'[k] = calls[k]
      /\ calls'[Len(calls)] = c
      /\ OwnEnvironment' /\ FreeAreBlank'
  BY <1>1, <1>3, TopChanged
<1>5. /\ temps \in SUBSET (Nat \X Products) /\ \A t \in temps : t[1] <= index
      /\ item \in [Products -> {"unmade", "nowhere", "placed", "released", "lost"}]
      /\ refused = 0 => index = Len(calls) - 1
  BY ItemsKnown
<1>6. /\ temps' = temps \union {<<index, i>>}
      /\ item' = [item EXCEPT ![i] = "nowhere"]
  BY DEF MakeItem
<1>7. /\ item' \in [Products -> {"unmade", "nowhere", "placed", "released", "lost"}]
      /\ item'[i] = "nowhere" /\ \A j \in Products : j # i => item'[j] = item[j]
  BY <1>5, <1>6
<1>8. temps' \in SUBSET (Nat \X Products) /\ \A t \in temps' : t[1] <= index'
  <2>1. <<index, i>> \in Nat \X Products /\ <<index, i>>[1] = index
    BY <1>2
  <2>2. temps' \subseteq Nat \X Products
    BY <1>5, <1>6, <2>1
  <2>3. ASSUME NEW t \in temps'
        PROVE  t[1] <= index
    <3>1. CASE t \in temps
      BY <1>5, <3>1
    <3>2. CASE t = <<index, i>>
      BY <1>2, <2>1, <3>2
    <3>3. QED
      BY <1>6, <3>1, <3>2
  <2>4. QED
    BY <1>1, <2>2, <2>3
<1>9. ScriptsTypes'
  <2>1. /\ env \in [0 .. Slots + MaxRefused - 1 -> Environments]
        /\ index \in Int /\ refused \in 0 .. MaxRefused /\ lastId \in Nat
        /\ index = Len(calls) - 1 + refused /\ index < Slots + refused
    BY DEF ScriptsInv, ScriptsTypes
  <2>2. QED
    BY <1>1, <1>4, <1>7, <1>8, <2>1 DEF ScriptsTypes
<1>10. \A t \in temps : t[2] # i
  BY <1>1 DEF ScriptsInv, TemporaryOnce
<1>11. TemporaryOnce'
  BY <1>5, <1>6, <1>7, <1>10 DEF ScriptsInv, TemporaryOnce
<1>12. \A k \in DOMAIN calls : calls'[k].adding = calls[k].adding
  BY <1>2, <1>3, <1>4
<1>13. \A k \in DOMAIN calls : calls[k] \in Calls
  BY <1>4, <1>2, ElementOfSeq DEF ScriptsInv, ScriptsTypes
<1>14. AddedSomewhere'
  <2> SUFFICES ASSUME NEW k \in DOMAIN calls, calls[k].adding # None
               PROVE  item'[calls[k].adding] \notin {"unmade", "nowhere"}
    BY <1>4, <1>12 DEF AddedSomewhere
  <2>1. calls[k].adding \in Products
    BY <1>13 DEF Calls
  <2>2. item[calls[k].adding] \notin {"unmade", "nowhere"}
    BY DEF ScriptsInv, AddedSomewhere
  <2>3. QED
    BY <1>1, <1>7, <2>1, <2>2
<1>15. TemporaryItems'
  <2>1. \A k \in DOMAIN calls : k # Len(calls) => calls'[k].owes = calls[k].owes
    BY <1>4
  <2>2. calls'[Len(calls)].owes = calls[Len(calls)].owes \union {i}
    BY <1>2, <1>3, <1>4
  <2>3. ASSUME refused = 0, NEW j \in Products
        PROVE  item'[j] = "nowhere" <=> \E k \in DOMAIN calls : j \in calls'[k].owes
    <3>1. CASE j = i
      BY <1>2, <1>7, <2>2, <3>1
    <3>2. CASE j # i
      <4>1. item[j] = "nowhere" <=> \E k \in DOMAIN calls : j \in calls[k].owes
        BY <2>3 DEF ScriptsInv, TemporaryItems
      <4>2. \A k \in DOMAIN calls : j \in calls'[k].owes <=> j \in calls[k].owes
        BY <2>1, <2>2, <3>2
      <4>3. QED
        BY <1>7, <3>2, <4>1, <4>2
    <3>3. QED
      BY <3>1, <3>2
  <2>4. ASSUME refused = 0, NEW k \in DOMAIN calls, NEW j \in calls'[k].owes
        PROVE  <<k - 1, j>> \in temps'
    <3>1. CASE j \in calls[k].owes
      BY <1>6, <2>4, <3>1 DEF ScriptsInv, TemporaryItems
    <3>2. CASE j \notin calls[k].owes
      <4>1. k = Len(calls) /\ j = i
        BY <2>1, <2>2, <2>4, <3>2
      <4>2. QED
        BY <1>5, <1>6, <2>4, <4>1
    <3>3. QED
      BY <3>1, <3>2
  <2>5. \A t \in temps' : item'[t[2]] # "released"
    BY <1>11 DEF TemporaryOnce
  <2>6. QED
    BY <1>1, <1>4, <2>3, <2>4, <2>5 DEF TemporaryItems
<1>16. QED
  BY <1>4, <1>9, <1>11, <1>14, <1>15 DEF ScriptsInv

(* An item that is put down, merged or lost is nowhere no more, and its    *)
(* script has it off its hands.                                            *)
LEMMA AddItemKeeps ==
  ASSUME ScriptsInv, NEW i \in Products, AddItem(i)
  PROVE  ScriptsInv'
<1> DEFINE c == [Top EXCEPT !.adding = i, !.owes = @ \ {i}]
<1>1. /\ calls # <<>> /\ InTop(c) /\ item[i] = "nowhere" /\ <<index, i>> \in temps
      /\ UNCHANGED <<env, index, refused, lastId>>
  BY DEF AddItem, Running
<1>2. /\ Len(calls) \in Nat \ {0} /\ DOMAIN calls = 1 .. Len(calls)
      /\ Len(calls) \in DOMAIN calls
      /\ Top = calls[Len(calls)] /\ Top \in Calls /\ index \in Nat
  BY <1>1, TopIsACall
<1>3. /\ c \in Calls /\ c.hook = Top.hook /\ c.adding = i
      /\ c.owes = Top.owes \ {i} /\ c.has = Top.has
  BY <1>2 DEF Calls
<1> HIDE DEF c
<1>4. /\ calls' \in Seq(Calls) /\ calls' # <<>> /\ Len(calls') = Len(calls)
      /\ DOMAIN calls' = DOMAIN calls
      /\ \A k \in DOMAIN calls : k # Len(calls) => calls'[k] = calls[k]
      /\ calls'[Len(calls)] = c
      /\ OwnEnvironment' /\ FreeAreBlank'
  BY <1>1, <1>3, TopChanged
<1>5. /\ temps \in SUBSET (Nat \X Products) /\ \A t \in temps : t[1] <= index
      /\ item \in [Products -> {"unmade", "nowhere", "placed", "released", "lost"}]
      /\ refused = 0 => index = Len(calls) - 1
  BY ItemsKnown
<1>6. PICK place \in {"placed", "released", "lost"} :
        /\ item' = [item EXCEPT ![i] = place]
        /\ \/ place # "released" /\ temps' = temps
           \/ temps' = {t \in temps : t[2] # i}
  BY DEF AddItem
<1>7. /\ item' \in [Products -> {"unmade", "nowhere", "placed", "released", "lost"}]
      /\ item'[i] = place /\ \A j \in Products : j # i => item'[j] = item[j]
  BY <1>5, <1>6
<1>8. /\ temps' \subseteq temps
      /\ place = "released" => \A t \in temps' : t[2] # i
      /\ \A t \in temps : t[2] # i => t \in temps'
  BY <1>6
<1>9. ScriptsTypes'
  <2>1. /\ env \in [0 .. Slots + MaxRefused - 1 -> Environments]
        /\ index \in Int /\ refused \in 0 .. MaxRefused /\ lastId \in Nat
        /\ index = Len(calls) - 1 + refused /\ index < Slots + refused
    BY DEF ScriptsInv, ScriptsTypes
  <2>2. temps' \in SUBSET (Nat \X Products) /\ \A t \in temps' : t[1] <= index
    BY <1>5, <1>8
  <2>3. QED
    BY <1>1, <1>4, <1>7, <2>1, <2>2 DEF ScriptsTypes
<1>10. TemporaryOnce'
  <2>1. \A t \in temps : t[2] \in Products
    BY <1>5
  <2>2. \A t \in temps' : item'[t[2]] \notin {"unmade", "released"}
    BY <1>7, <1>8, <2>1 DEF ScriptsInv, TemporaryOnce
  <2>3. QED
    BY <1>8, <2>2 DEF ScriptsInv, TemporaryOnce
<1>11. \A k \in DOMAIN calls : calls[k] \in Calls
  BY <1>2, ElementOfSeq DEF ScriptsInv, ScriptsTypes
<1>12. AddedSomewhere'
  <2> SUFFICES ASSUME NEW k \in DOMAIN calls, calls'[k].adding # None
               PROVE  item'[calls'[k].adding] \notin {"unmade", "nowhere"}
    BY <1>4 DEF AddedSomewhere
  <2>1. CASE k = Len(calls)
    BY <1>3, <1>4, <1>7, <2>1
  <2>2. CASE k # Len(calls)
    <3>1. calls'[k] = calls[k] /\ calls[k].adding \in Products
      BY <1>4, <1>11, <2>2 DEF Calls
    <3>2. item[calls[k].adding] \notin {"unmade", "nowhere"}
      BY <3>1 DEF ScriptsInv, AddedSomewhere
    <3>3. QED
      BY <1>7, <3>1, <3>2
  <2>3. QED
    BY <2>1, <2>2
<1>13. TemporaryItems'
  <2>1. \A k \in DOMAIN calls : k # Len(calls) => calls'[k].owes = calls[k].owes
    BY <1>4
  <2>2. calls'[Len(calls)].owes = calls[Len(calls)].owes \ {i}
    BY <1>2, <1>3, <1>4
  <2>3. ASSUME refused = 0
        PROVE  \A k \in DOMAIN calls : i \notin calls'[k].owes
    <3> SUFFICES ASSUME NEW k \in DOMAIN calls, k # Len(calls), i \in calls[k].owes
                 PROVE  FALSE
      BY <1>4, <2>1, <2>2
    <3>1. <<k - 1, i>> \in temps
      BY <2>3 DEF ScriptsInv, TemporaryItems
    <3>2. <<k - 1, i>> = <<index, i>>
      BY <1>1, <3>1 DEF ScriptsInv, TemporaryOnce
    <3>3. QED
      BY <1>2, <1>5, <2>3, <3>2
  <2>4. \A k \in DOMAIN calls : calls'[k].owes = calls[k].owes \ {i} \/ calls'[k].owes = calls[k].owes
    BY <2>1, <2>2
  <2>5. ASSUME refused = 0, NEW j \in Products
        PROVE  item'[j] = "nowhere" <=> \E k \in DOMAIN calls : j \in calls'[k].owes
    <3>1. CASE j = i
      BY <1>6, <1>7, <2>3, <2>5, <3>1
    <3>2. CASE j # i
      <4>1. item[j] = "nowhere" <=> \E k \in DOMAIN calls : j \in calls[k].owes
        BY <2>5 DEF ScriptsInv, TemporaryItems
      <4>2. \A k \in DOMAIN calls : j \in calls'[k].owes <=> j \in calls[k].owes
        BY <2>4, <3>2
      <4>3. QED
        BY <1>7, <3>2, <4>1, <4>2
    <3>3. QED
      BY <3>1, <3>2
  <2>6. ASSUME refused = 0, NEW k \in DOMAIN calls, NEW j \in calls'[k].owes
        PROVE  <<k - 1, j>> \in temps'
    <3>1. j # i /\ j \in calls[k].owes
      BY <2>3, <2>4, <2>6
    <3>2. <<k - 1, j>> \in temps
      BY <2>6, <3>1 DEF ScriptsInv, TemporaryItems
    <3>3. QED
      BY <1>8, <3>1, <3>2
  <2>7. \A t \in temps' : item'[t[2]] # "released"
    BY <1>10 DEF TemporaryOnce
  <2>8. QED
    BY <1>1, <1>4, <2>5, <2>6, <2>7 DEF TemporaryItems
<1>14. QED
  BY <1>4, <1>9, <1>10, <1>12, <1>13 DEF ScriptsInv

(* What is removed was put down before, and nobody owes it.                *)
LEMMA RemoveItemKeeps ==
  ASSUME ScriptsInv, NEW i \in Products, RemoveItem(i)
  PROVE  ScriptsInv'
<1>1. /\ item[i] = "placed" /\ item' = [item EXCEPT ![i] = "released"]
      /\ temps' = {t \in temps : t[2] # i}
      /\ UNCHANGED <<env, index, calls, lastId, refused>>
  BY DEF RemoveItem
<1>2. /\ temps \in SUBSET (Nat \X Products) /\ \A t \in temps : t[1] <= index
      /\ item \in [Products -> {"unmade", "nowhere", "placed", "released", "lost"}]
  BY ItemsKnown
<1>3. /\ item' \in [Products -> {"unmade", "nowhere", "placed", "released", "lost"}]
      /\ item'[i] = "released" /\ \A j \in Products : j # i => item'[j] = item[j]
  BY <1>1, <1>2
<1>4. ScriptsTypes'
  <2>1. temps' \in SUBSET (Nat \X Products) /\ \A t \in temps' : t[1] <= index'
    BY <1>1, <1>2
  <2>2. QED
    BY <1>1, <1>3, <2>1 DEF ScriptsInv, ScriptsTypes
<1>5. OwnEnvironment' /\ FreeAreBlank'
  BY <1>1 DEF ScriptsInv, OwnEnvironment, FreeAreBlank, Blank
<1>6. TemporaryOnce'
  BY <1>1, <1>2, <1>3 DEF ScriptsInv, TemporaryOnce
<1>7. \A k \in DOMAIN calls : calls[k] \in Calls
  BY ElementOfSeq, LenProperties DEF ScriptsInv, ScriptsTypes
<1>8. AddedSomewhere'
  BY <1>1, <1>3, <1>7 DEF ScriptsInv, AddedSomewhere, Calls
<1>9. TemporaryItems'
  <2>1. ASSUME refused = 0, NEW j \in Products
        PROVE  item'[j] = "nowhere" <=> \E k \in DOMAIN calls : j \in calls[k].owes
    <3>1. item[j] = "nowhere" <=> \E k \in DOMAIN calls : j \in calls[k].owes
      BY <2>1 DEF ScriptsInv, TemporaryItems
    <3>2. QED
      BY <1>1, <1>3, <3>1
  <2>2. ASSUME refused = 0, NEW k \in DOMAIN calls, NEW j \in calls[k].owes
        PROVE  <<k - 1, j>> \in temps'
    <3>1. <<k - 1, j>> \in temps /\ j \in Products
      BY <1>7, <2>2 DEF ScriptsInv, TemporaryItems, Calls
    <3>2. item[j] = "nowhere"
      BY <2>2, <3>1 DEF ScriptsInv, TemporaryItems
    <3>3. QED
      BY <1>1, <3>1, <3>2
  <2>3. refused = 0 /\ calls = <<>> => temps' = {}
    BY <1>1 DEF ScriptsInv, TemporaryItems
  <2>4. \A t \in temps' : item'[t[2]] # "released"
    BY <1>6 DEF TemporaryOnce
  <2>5. QED
    BY <1>1, <2>1, <2>2, <2>3, <2>4 DEF TemporaryItems
<1>10. QED
  BY <1>4, <1>5, <1>6, <1>8, <1>9 DEF ScriptsInv

(* What has been added is no longer temporary.                             *)
LEMMA AddedKeeps ==
  ASSUME ScriptsAssumption, ScriptsInv, Added
  PROVE  ScriptsInv'
<1> DEFINE c == [Top EXCEPT !.adding = None]
           i == Top.adding
<1>1. /\ calls # <<>> /\ i # None /\ InTop(c) /\ temps' = {t \in temps : t[2] # i}
      /\ UNCHANGED <<env, index, item, lastId, refused>>
  BY DEF Added
<1>2. /\ Len(calls) \in Nat \ {0} /\ DOMAIN calls = 1 .. Len(calls)
      /\ Len(calls) \in DOMAIN calls
      /\ Top = calls[Len(calls)] /\ Top \in Calls /\ index \in Nat
  BY <1>1, TopIsACall
<1>3. /\ c \in Calls /\ c.hook = Top.hook /\ c.adding = None
      /\ c.owes = Top.owes /\ c.has = Top.has
  BY <1>2 DEF Calls
<1> HIDE DEF c
<1>4. /\ calls' \in Seq(Calls) /\ calls' # <<>> /\ Len(calls') = Len(calls)
      /\ DOMAIN calls' = DOMAIN calls
      /\ \A k \in DOMAIN calls : k # Len(calls) => calls'[k] = calls[k]
      /\ calls'[Len(calls)] = c
      /\ OwnEnvironment' /\ FreeAreBlank'
  BY <1>1, <1>3, TopChanged
<1>5. i \in Products /\ item[i] # "nowhere"
  <2>1. i \in Products
    BY <1>1, <1>2 DEF Calls
  <2>2. calls[Len(calls)].adding # None
    BY <1>1, <1>2
  <2>3. item[calls[Len(calls)].adding] \notin {"unmade", "nowhere"}
    BY <1>2, <2>2 DEF ScriptsInv, AddedSomewhere
  <2>4. QED
    BY <1>2, <2>1, <2>3
<1> HIDE DEF i
<1>6. ScriptsTypes'
  <2>1. /\ env \in [0 .. Slots + MaxRefused - 1 -> Environments]
        /\ index \in Int /\ refused \in 0 .. MaxRefused /\ lastId \in Nat
        /\ index = Len(calls) - 1 + refused /\ index < Slots + refused
        /\ item \in [Products -> {"unmade", "nowhere", "placed", "released", "lost"}]
    BY DEF ScriptsInv, ScriptsTypes
  <2>2. temps' \in SUBSET (Nat \X Products) /\ \A t \in temps' : t[1] <= index
    BY <1>1, ItemsKnown
  <2>3. QED
    BY <1>1, <1>4, <2>1, <2>2 DEF ScriptsTypes
<1>7. TemporaryOnce'
  BY <1>1 DEF ScriptsInv, TemporaryOnce
<1>8. AddedSomewhere'
  <2> SUFFICES ASSUME NEW k \in DOMAIN calls, calls'[k].adding # None
               PROVE  item[calls'[k].adding] \notin {"unmade", "nowhere"}
    BY <1>1, <1>4 DEF AddedSomewhere
  <2>1. calls'[k] = calls[k]
    BY <1>3, <1>4
  <2>2. QED
    BY <2>1 DEF ScriptsInv, AddedSomewhere
<1>9. TemporaryItems'
  <2>1. \A k \in DOMAIN calls : calls'[k].owes = calls[k].owes
    BY <1>2, <1>3, <1>4
  <2>2. ASSUME refused = 0, NEW j \in Products
        PROVE  item[j] = "nowhere" <=> \E k \in DOMAIN calls : j \in calls'[k].owes
    BY <2>1, <2>2 DEF ScriptsInv, TemporaryItems
  <2>3. ASSUME refused = 0, NEW k \in DOMAIN calls, NEW j \in calls'[k].owes
        PROVE  <<k - 1, j>> \in temps'
    <3>1. <<k - 1, j>> \in temps
      BY <2>1, <2>3 DEF ScriptsInv, TemporaryItems
    <3>2. j \in Products
      BY <3>1, ItemsKnown
    <3>3. item[j] = "nowhere"
      BY <2>2, <2>3, <3>2
    <3>4. QED
      BY <1>1, <1>5, <3>1, <3>3
  <2>4. \A t \in temps' : item[t[2]] # "released"
    BY <1>1, <1>7 DEF TemporaryOnce
  <2>5. QED
    BY <1>1, <1>4, <2>2, <2>3, <2>4 DEF TemporaryItems
<1>10. QED
  BY <1>4, <1>6, <1>7, <1>8, <1>9 DEF ScriptsInv

(* Results are no items.                                                   *)
LEMMA ItemsUntouched ==
  ASSUME ScriptsInv, UNCHANGED <<env, index, temps, item, refused>>, lastId' \in Nat,
         calls' \in Seq(Calls), Len(calls') = Len(calls), DOMAIN calls' = DOMAIN calls,
         calls' = <<>> => calls = <<>>,
         \A k \in DOMAIN calls : calls'[k].owes = calls[k].owes /\ calls'[k].adding = calls[k].adding
  PROVE  ScriptsTypes' /\ TemporaryOnce' /\ AddedSomewhere' /\ TemporaryItems'
<1>1. ScriptsTypes'
  BY DEF ScriptsInv, ScriptsTypes
<1>2. TemporaryOnce'
  BY DEF ScriptsInv, TemporaryOnce
<1>3. AddedSomewhere'
  BY DEF ScriptsInv, AddedSomewhere
<1>4. TemporaryItems'
  BY DEF ScriptsInv, TemporaryItems
<1>5. QED
  BY <1>1, <1>2, <1>3, <1>4

(* A result more,                                                          *)
LEMMA StoreQueryKeeps ==
  ASSUME ScriptsInv, StoreQuery
  PROVE  ScriptsInv'
<1> DEFINE c == [Top EXCEPT !.has = @ \union {lastId'}]
<1>1. calls # <<>> /\ InTop(c) /\ lastId' = lastId + 1 /\ UNCHANGED <<env, index, temps, item, refused>>
  BY DEF StoreQuery, Running
<1>2. lastId' \in Nat
  BY <1>1 DEF ScriptsInv, ScriptsTypes
<1>3. /\ Len(calls) \in Nat \ {0} /\ Len(calls) \in DOMAIN calls
      /\ Top = calls[Len(calls)] /\ Top \in Calls
  BY <1>1, TopIsACall
<1>4. c \in Calls /\ c.hook = Top.hook /\ c.adding = Top.adding /\ c.owes = Top.owes
  BY <1>2, <1>3 DEF Calls
<1> HIDE DEF c
<1>5. /\ calls' \in Seq(Calls) /\ calls' # <<>> /\ Len(calls') = Len(calls)
      /\ DOMAIN calls' = DOMAIN calls
      /\ \A k \in DOMAIN calls : k # Len(calls) => calls'[k] = calls[k]
      /\ calls'[Len(calls)] = c
      /\ OwnEnvironment' /\ FreeAreBlank'
  BY <1>1, <1>4, TopChanged
<1>6. \A k \in DOMAIN calls : calls'[k].owes = calls[k].owes /\ calls'[k].adding = calls[k].adding
  BY <1>3, <1>4, <1>5
<1>7. ScriptsTypes' /\ TemporaryOnce' /\ AddedSomewhere' /\ TemporaryItems'
  BY <1>1, <1>2, <1>5, <1>6, ItemsUntouched
<1>8. QED
  BY <1>5, <1>7 DEF ScriptsInv

(* or one less.                                                            *)
LEMMA FreeResultKeeps ==
  ASSUME ScriptsInv, NEW r, FreeResult(r)
  PROVE  ScriptsInv'
<1> DEFINE c == [Top EXCEPT !.has = @ \ {r}]
<1>1. calls # <<>> /\ InTop(c) /\ UNCHANGED <<env, index, temps, item, lastId, refused>>
  BY DEF FreeResult, Running
<1>2. lastId' \in Nat
  BY <1>1 DEF ScriptsInv, ScriptsTypes
<1>3. /\ Len(calls) \in Nat \ {0} /\ Len(calls) \in DOMAIN calls
      /\ Top = calls[Len(calls)] /\ Top \in Calls
  BY <1>1, TopIsACall
<1>4. c \in Calls /\ c.hook = Top.hook /\ c.adding = Top.adding /\ c.owes = Top.owes
  BY <1>3 DEF Calls
<1> HIDE DEF c
<1>5. /\ calls' \in Seq(Calls) /\ calls' # <<>> /\ Len(calls') = Len(calls)
      /\ DOMAIN calls' = DOMAIN calls
      /\ \A k \in DOMAIN calls : k # Len(calls) => calls'[k] = calls[k]
      /\ calls'[Len(calls)] = c
      /\ OwnEnvironment' /\ FreeAreBlank'
  BY <1>1, <1>4, TopChanged
<1>6. \A k \in DOMAIN calls : calls'[k].owes = calls[k].owes /\ calls'[k].adding = calls[k].adding
  BY <1>3, <1>4, <1>5
<1>7. ScriptsTypes' /\ TemporaryOnce' /\ AddedSomewhere' /\ TemporaryItems'
  BY <1>1, <1>2, <1>5, <1>6, ItemsUntouched
<1>8. QED
  BY <1>5, <1>7 DEF ScriptsInv

(* An environment that is prepared anew.                                   *)
LEMMA PreparedAnew ==
  ASSUME NEW e \in Environments, Blank(e), NEW h \in Called, NEW p, p = Prepared(e, h)
  PROVE  /\ p \in Environments
         /\ p = Prepared([Unused EXCEPT !.npc = p.npc], h)
         /\ Hooks[h].way = "npc" => p.npc = h
<1> DEFINE n == e.npc
<1>1. e = [script |-> None, callback |-> None, timer |-> FALSE, npc |-> n]
  BY DEF Blank, Unused
<1>2. n \in Called \union {None}
  BY DEF Environments
<1>3. p.npc = n => p = Prepared([Unused EXCEPT !.npc = p.npc], h)
  BY DEF Blank
<1> HIDE DEF n
<1>4. CASE Hooks[h].way = "callback"
  <2>1. p = [script |-> None, callback |-> h, timer |-> FALSE, npc |-> n]
    BY <1>1, <1>4 DEF Prepared
  <2>2. p.npc = n /\ p \in Environments
    BY <1>2, <2>1 DEF Environments
  <2>3. QED
    BY <1>3, <1>4, <2>2
<1>5. CASE Hooks[h].way = "npc"
  <2>1. p = [script |-> h, callback |-> None, timer |-> FALSE, npc |-> h]
    BY <1>1, <1>5 DEF Prepared
  <2>2. Prepared([Unused EXCEPT !.npc = p.npc], h) = p
    BY <1>5, <2>1 DEF Prepared, Unused
  <2>3. QED
    BY <1>5, <2>1, <2>2 DEF Environments
<1>6. CASE Hooks[h].way = "timer"
  <2>1. p = [script |-> h, callback |-> None, timer |-> TRUE, npc |-> n]
    BY <1>1, <1>6 DEF Prepared
  <2>2. p.npc = n /\ p \in Environments
    BY <1>2, <2>1 DEF Environments
  <2>3. QED
    BY <1>3, <1>6, <2>2
<1>7. CASE Hooks[h].way \notin {"callback", "npc", "timer"}
  <2>1. p = [script |-> h, callback |-> None, timer |-> FALSE, npc |-> n]
    BY <1>1, <1>7 DEF Prepared
  <2>2. p.npc = n /\ p \in Environments
    BY <1>2, <2>1 DEF Environments
  <2>3. QED
    BY <1>3, <1>7, <2>2
<1>8. QED
  BY <1>4, <1>5, <1>6, <1>7

(* An environment is one whatever it is prepared for.                      *)
LEMMA PreparedType ==
  ASSUME NEW e \in Environments, NEW h \in Called
  PROVE  Prepared(e, h) \in Environments
<1>1. CASE Hooks[h].way = "callback"
  BY <1>1 DEF Prepared, Environments
<1>2. CASE Hooks[h].way = "npc"
  BY <1>2 DEF Prepared, Environments
<1>3. CASE Hooks[h].way = "timer"
  BY <1>3 DEF Prepared, Environments
<1>4. CASE Hooks[h].way \notin {"callback", "npc", "timer"}
  BY <1>4 DEF Prepared, Environments
<1>5. QED
  BY <1>1, <1>2, <1>3, <1>4

(* A call is prepared in the next environment, which is free.              *)
LEMMA EnterKeeps ==
  ASSUME ScriptsAssumption, ScriptsInv, NEW h \in Called, Enter(h)
  PROVE  ScriptsInv'
<1> DEFINE has == IF h = "onStored" THEN {lastId + 1} ELSE {}
           c == [hook |-> h, adding |-> None, owes |-> {}, has |-> has]
           n == Len(calls) + 1
<1>1. /\ index + 1 < Slots /\ index' = index + 1 /\ calls' = Append(calls, c)
      /\ env' = [env EXCEPT ![index + 1] = Prepared(env[index + 1], h)]
      /\ lastId' = IF h = "onStored" THEN lastId + 1 ELSE lastId
      /\ UNCHANGED <<temps, item, refused>>
  BY DEF Enter
<1>2. /\ env \in [0 .. Slots + MaxRefused - 1 -> Environments]
      /\ index \in Int /\ refused \in 0 .. MaxRefused /\ lastId \in Nat
      /\ index = Len(calls) - 1 + refused /\ calls \in Seq(Calls)
  BY DEF ScriptsInv, ScriptsTypes
<1>3. Slots \in Nat /\ MaxRefused \in Nat
  BY DEF ScriptsAssumption
<1>4. /\ c \in Calls /\ c.hook = h /\ c.adding = None /\ c.owes = {}
  BY <1>2 DEF Calls
<1> HIDE DEF c
<1>5. /\ calls' \in Seq(Calls) /\ Len(calls') = n /\ calls' # <<>>
      /\ DOMAIN calls' = 1 .. n /\ DOMAIN calls = 1 .. Len(calls) /\ Len(calls) \in Nat
      /\ \A k \in DOMAIN calls : calls'[k] = calls[k]
      /\ calls'[n] = c
  BY <1>1, <1>2, <1>4, AppendProperties
<1>6. index + 1 \in 0 .. Slots + MaxRefused - 1 /\ index + 1 = n - 1 + refused
  BY <1>1, <1>2, <1>3, <1>5
<1>7. /\ env' \in [0 .. Slots + MaxRefused - 1 -> Environments]
      /\ env'[index + 1] = Prepared(env[index + 1], h)
      /\ \A s \in DOMAIN env : s # index + 1 => env'[s] = env[s]
  <2>1. PICK e : e = Prepared(env[index + 1], h)
    OBVIOUS
  <2>2. e \in Environments
    BY <1>2, <1>6, <2>1, PreparedType
  <2>3. env' = [env EXCEPT ![index + 1] = e]
    BY <1>1, <2>1, SMTT(60)
  <2> QED
    BY <1>2, <1>6, <2>1, <2>2, <2>3
<1>8. ScriptsTypes'
  <2>1. lastId' \in Nat
    BY <1>1, <1>2
  <2>2. index' \in Int /\ index' = Len(calls') - 1 + refused' /\ index' < Slots + refused'
    BY <1>1, <1>2, <1>3, <1>5, <1>6
  <2>3. temps' \in SUBSET (Nat \X Products) /\ \A t \in temps' : t[1] <= index'
    <3>1. \A t \in temps : t[1] \in Nat /\ t[1] <= index
      BY ItemsKnown
    <3>2. \A t \in temps : t[1] <= index + 1
      BY <1>2, <3>1
    <3>3. QED
      BY <1>1, <3>2, ItemsKnown
  <2>4. QED
    BY <1>1, <1>2, <1>5, <1>7, <2>1, <2>2, <2>3, ItemsKnown DEF ScriptsTypes
<1>9. OwnEnvironment'
  <2>1. index' = Len(calls') - 1 + refused'
    BY <1>8 DEF ScriptsTypes
  <2>2. ASSUME refused = 0, NEW k \in 1 .. n
        PROVE  /\ env'[k - 1] = Prepared([Unused EXCEPT !.npc = env'[k - 1].npc], calls'[k].hook)
               /\ Hooks[calls'[k].hook].way = "npc" => env'[k - 1].npc = calls'[k].hook
    <3>1. CASE k = n
      <4>1. k - 1 = index + 1 /\ index + 1 \in DOMAIN env /\ index + 1 > index
        BY <1>2, <1>6, <2>2, <3>1
      <4>2. Blank(env[index + 1]) /\ env[index + 1] \in Environments
        BY <1>2, <2>2, <4>1 DEF ScriptsInv, FreeAreBlank
      <4>3. QED
        BY <1>4, <1>5, <1>7, <3>1, <4>1, <4>2, PreparedAnew
    <3>2. CASE k # n
      <4>1. k \in DOMAIN calls /\ k - 1 \in DOMAIN env /\ k - 1 # index + 1
        <5>1. k \in 1 .. Len(calls) /\ index = Len(calls) - 1
          BY <1>2, <1>5, <2>2, <3>2
        <5>2. DOMAIN env = 0 .. Slots + MaxRefused - 1
          BY <1>2
        <5>3. QED
          BY <1>3, <1>5, <1>6, <5>1, <5>2
      <4>2. env'[k - 1] = env[k - 1] /\ calls'[k] = calls[k]
        BY <1>5, <1>7, <4>1
      <4>3. QED
        BY <2>2, <4>1, <4>2 DEF ScriptsInv, OwnEnvironment
    <3>3. QED
      BY <3>1, <3>2
  <2>3. QED
    BY <1>1, <1>5, <2>1, <2>2 DEF OwnEnvironment
<1>10. FreeAreBlank'
  <2> SUFFICES ASSUME refused = 0, NEW s \in DOMAIN env, s > index + 1
               PROVE  Blank(env'[s])
    BY <1>1, <1>2, <1>7 DEF FreeAreBlank, Blank
  <2>1. env'[s] = env[s] /\ s > index
    BY <1>2, <1>7
  <2>2. QED
    BY <2>1 DEF ScriptsInv, FreeAreBlank
<1>11. TemporaryOnce'
  BY <1>1 DEF ScriptsInv, TemporaryOnce
<1>12. AddedSomewhere'
  <2> SUFFICES ASSUME NEW k \in 1 .. n, calls'[k].adding # None
               PROVE  item[calls'[k].adding] \notin {"unmade", "nowhere"}
    BY <1>1, <1>5 DEF AddedSomewhere
  <2>1. k \in DOMAIN calls /\ calls'[k] = calls[k]
    BY <1>4, <1>5
  <2>2. QED
    BY <2>1 DEF ScriptsInv, AddedSomewhere
<1>13. TemporaryItems'
  <2>1. \A j : (\E k \in 1 .. n : j \in calls'[k].owes) <=> \E k \in DOMAIN calls : j \in calls[k].owes
    BY <1>4, <1>5
  <2>2. \A k \in 1 .. n : \A j \in calls'[k].owes : k \in DOMAIN calls /\ j \in calls[k].owes
    BY <1>4, <1>5
  <2>3. QED
    BY <1>1, <1>5, <2>1, <2>2 DEF ScriptsInv, TemporaryItems
<1>14. QED
  BY <1>8, <1>9, <1>10, <1>11, <1>12, <1>13 DEF ScriptsInv

(* A call that is refused leaves everything below it as it was.            *)
LEMMA RefuseKeeps ==
  ASSUME ScriptsAssumption, ScriptsInv, NEW h \in Called, Refuse(h)
  PROVE  ScriptsInv'
<1>1. /\ index + 1 >= Slots /\ refused < MaxRefused /\ index' = index + 1
      /\ refused' = refused + 1 /\ UNCHANGED <<env, calls, temps, item, lastId>>
  BY DEF Refuse
<1>2. /\ index \in Int /\ refused \in 0 .. MaxRefused /\ Len(calls) \in Nat
      /\ index = Len(calls) - 1 + refused /\ index < Slots + refused
      /\ Slots \in Nat /\ MaxRefused \in Nat
  BY LenProperties DEF ScriptsInv, ScriptsTypes, ScriptsAssumption
<1>3. /\ index' \in Int /\ refused' \in 0 .. MaxRefused /\ refused' # 0
      /\ index' = Len(calls) - 1 + refused' /\ index' < Slots + refused'
  BY <1>1, <1>2
<1>4. ScriptsTypes'
  <2>1. \A t \in temps : t[1] \in Nat /\ t[1] <= index
    BY ItemsKnown
  <2>2. \A t \in temps : t[1] <= index'
    BY <1>1, <1>2, <2>1
  <2>3. QED
    BY <1>1, <1>3, <2>2 DEF ScriptsInv, ScriptsTypes
<1>5. QED
  BY <1>1, <1>3, <1>4
     DEF ScriptsInv, OwnEnvironment, FreeAreBlank, TemporaryOnce, AddedSomewhere, TemporaryItems

(* The innermost call is over: the one below it has all it had.            *)
LEMMA EndCallKeeps ==
  ASSUME ScriptsAssumption, ScriptsInv, NEW how, NEW answer, EndCall(how, answer)
  PROVE  ScriptsInv'
<1> DEFINE rest == Front(calls)
           n == Len(calls) - 1
           own == Temporary(index)
           blank == [Unused EXCEPT !.npc = env[index].npc]
<1>1. /\ calls # <<>> /\ env' = [env EXCEPT ![index] = blank]
      /\ temps' = temps \ own
      /\ item' = [i \in Products |-> IF item[i] = "nowhere" /\ \E t \in own : t[2] = i
                                  THEN "released" ELSE item[i]]
      /\ index' = index - 1 /\ UNCHANGED <<lastId, refused>>
      /\ calls' = IF rest = <<>> THEN rest
                  ELSE [rest EXCEPT ![Len(rest)] = [rest[Len(rest)] EXCEPT !.has = {}]]
  BY DEF EndCall
<1>2. /\ env \in [0 .. Slots + MaxRefused - 1 -> Environments]
      /\ index \in Int /\ refused \in 0 .. MaxRefused /\ lastId \in Nat
      /\ index = Len(calls) - 1 + refused /\ index < Slots + refused /\ calls \in Seq(Calls)
      /\ Slots \in Nat /\ MaxRefused \in Nat
  BY DEF ScriptsInv, ScriptsTypes, ScriptsAssumption
<1>3. /\ Len(calls) \in Nat \ {0} /\ DOMAIN calls = 1 .. Len(calls)
      /\ Top = calls[Len(calls)] /\ index \in Nat /\ n \in Nat
  BY <1>1, TopIsACall
<1>4. \A k \in DOMAIN calls : calls[k] \in Calls
  BY <1>2, <1>3, ElementOfSeq
<1>5. /\ rest \in Seq(Calls) /\ Len(rest) = n /\ DOMAIN rest = 1 .. n
      /\ \A k \in 1 .. n : rest[k] = calls[k]
  <2>1. rest = SubSeq(calls, 1, n)
    BY DEF Front
  <2>2. rest \in Seq(Calls) /\ Len(rest) = n /\ \A k \in 1 .. n : rest[k] = calls[k]
    BY <1>2, <1>3, <2>1, SubSeqProperties
  <2>3. QED
    BY <2>2
<1> HIDE DEF rest
<1>6. /\ calls' \in Seq(Calls) /\ Len(calls') = n /\ DOMAIN calls' = 1 .. n
      /\ \A k \in 1 .. n : /\ calls'[k].hook = calls[k].hook
                           /\ calls'[k].adding = calls[k].adding
                           /\ calls'[k].owes = calls[k].owes
  <2>1. CASE rest = <<>>
    BY <1>1, <1>5, <2>1
  <2>2. CASE rest # <<>>
    <3> DEFINE c == [rest[n] EXCEPT !.has = {}]
    <3>1. n \in 1 .. n
      BY <1>3, <1>5, <2>2
    <3>2. rest[n] \in Calls
      BY <1>4, <1>3, <1>5, <3>1
    <3>3. /\ c \in Calls /\ c.hook = rest[n].hook /\ c.adding = rest[n].adding
          /\ c.owes = rest[n].owes
      BY <3>2 DEF Calls
    <3> HIDE DEF c
    <3>4. calls' = [rest EXCEPT ![n] = c]
      BY <1>1, <1>5, <2>2 DEF c
    <3>5. calls' \in Seq(Calls) /\ Len(calls') = n
      BY <1>5, <3>1, <3>3, <3>4, ExceptSeq
    <3>6. \A k \in 1 .. n : calls'[k] = IF k = n THEN c ELSE rest[k]
      BY <1>5, <3>4
    <3>7. DOMAIN calls' = 1 .. n
      BY <3>5
    <3>8. ASSUME NEW k \in 1 .. n
          PROVE  /\ calls'[k].hook = calls[k].hook
                 /\ calls'[k].adding = calls[k].adding
                 /\ calls'[k].owes = calls[k].owes
      <4>1. CASE k = n
        BY <1>5, <3>3, <3>6, <4>1
      <4>2. CASE k # n
        BY <1>5, <3>6, <4>2
      <4>3. QED
        BY <4>1, <4>2
    <3>9. QED
      BY <3>5, <3>7, <3>8
  <2>3. QED
    BY <2>1, <2>2
<1>7. blank \in Environments /\ Blank(blank)
  <2>1. index \in 0 .. Slots + MaxRefused - 1
    BY <1>2, <1>3
  <2>2. env[index].npc \in Called \union {None}
    BY <1>2, <2>1 DEF Environments
  <2>3. blank.npc = env[index].npc
    BY DEF Unused
  <2>4. QED
    BY <2>2, <2>3 DEF Environments, Blank, Unused
<1> HIDE DEF blank
<1>8. /\ index \in DOMAIN env /\ env' \in [0 .. Slots + MaxRefused - 1 -> Environments]
      /\ env'[index] = blank /\ \A s \in DOMAIN env : s # index => env'[s] = env[s]
  BY <1>1, <1>2, <1>3, <1>7
<1>9. /\ temps \in SUBSET (Nat \X Products) /\ \A t \in temps : t[1] <= index
      /\ item \in [Products -> {"unmade", "nowhere", "placed", "released", "lost"}]
  BY ItemsKnown
<1>10. /\ temps' \subseteq temps
       /\ \A t \in temps : t \in temps' <=> t[1] # index
       /\ \A t \in temps : t \in own <=> t[1] = index
       /\ own \subseteq temps
  BY <1>1 DEF Temporary
<1> HIDE DEF own
<1>11. /\ item' \in [Products -> {"unmade", "nowhere", "placed", "released", "lost"}]
       /\ \A i \in Products : item'[i] = item[i] \/ item'[i] = "released"
       /\ \A i \in Products : item'[i] # item[i] => item[i] = "nowhere" /\ \E t \in own : t[2] = i
       /\ \A i \in Products : (\E t \in own : t[2] = i) => item'[i] # "nowhere"
  BY <1>1, <1>9
<1>12. ScriptsTypes'
  <2>1. temps' \in SUBSET (Nat \X Products) /\ \A t \in temps' : t[1] <= index'
    <3>1. \A t \in temps' : t \in temps /\ t[1] # index
      BY <1>10
    <3>2. \A t \in temps : t[1] \in Nat
      BY <1>9
    <3>3. \A t \in temps' : t[1] <= index - 1
      BY <1>3, <1>9, <3>1, <3>2
    <3>4. QED
      BY <1>1, <1>9, <1>10, <3>3
  <2>2. index' \in Int /\ index' = Len(calls') - 1 + refused' /\ index' < Slots + refused'
    BY <1>1, <1>2, <1>3, <1>6, SMTT(60)
  <2>3. QED
    BY <1>1, <1>2, <1>6, <1>8, <1>11, <2>1, <2>2 DEF ScriptsTypes
<1>13. OwnEnvironment'
  <2>1. index' = Len(calls') - 1 + refused'
    BY <1>12 DEF ScriptsTypes
  <2>2. ASSUME refused = 0, NEW k \in 1 .. n
        PROVE  /\ env'[k - 1] = Prepared([Unused EXCEPT !.npc = env'[k - 1].npc], calls'[k].hook)
               /\ Hooks[calls'[k].hook].way = "npc" => env'[k - 1].npc = calls'[k].hook
    <3>1. k \in DOMAIN calls /\ k - 1 # index /\ k - 1 \in 0 .. Slots + MaxRefused - 1
      BY <1>2, <1>3, <2>2
    <3>2. env'[k - 1] = env[k - 1] /\ calls'[k].hook = calls[k].hook
      BY <1>2, <1>6, <1>8, <3>1
    <3>3. QED
      BY <2>2, <3>1, <3>2 DEF ScriptsInv, OwnEnvironment
  <2>3. QED
    BY <1>1, <1>6, <2>1, <2>2 DEF OwnEnvironment
<1>14. FreeAreBlank'
  <2> SUFFICES ASSUME refused = 0, NEW s \in DOMAIN env, s > index - 1
               PROVE  Blank(env'[s])
    BY <1>1, <1>2, <1>8 DEF FreeAreBlank, Blank
  <2>1. CASE s = index
    BY <1>7, <1>8, <2>1
  <2>2. CASE s # index
    <3>1. s > index
      BY <1>2, <2>2
    <3>2. QED
      BY <1>8, <2>2, <3>1 DEF ScriptsInv, FreeAreBlank
  <2>3. QED
    BY <2>1, <2>2
<1>15. \A s \in temps, t \in temps : s[2] = t[2] => s = t
  BY DEF ScriptsInv, TemporaryOnce
<1>16. \A t \in temps' : item'[t[2]] = item[t[2]]
  <2> SUFFICES ASSUME NEW t \in temps', item'[t[2]] # item[t[2]]
               PROVE  FALSE
    OBVIOUS
  <2>1. t \in temps /\ t[1] # index /\ t[2] \in Products
    BY <1>9, <1>10
  <2>2. PICK s \in own : s[2] = t[2]
    BY <1>11, <2>1
  <2>3. s \in temps /\ s[1] = index
    BY <1>10
  <2>4. s = t
    BY <1>15, <2>1, <2>2, <2>3
  <2>5. QED
    BY <2>1, <2>3, <2>4
<1>17. TemporaryOnce'
  <2>1. \A t \in temps' : item'[t[2]] \notin {"unmade", "released"}
    BY <1>10, <1>16 DEF ScriptsInv, TemporaryOnce
  <2>2. QED
    BY <1>10, <1>15, <2>1 DEF TemporaryOnce
<1>18. AddedSomewhere'
  <2> SUFFICES ASSUME NEW k \in 1 .. n, calls'[k].adding # None
               PROVE  item'[calls'[k].adding] \notin {"unmade", "nowhere"}
    BY <1>6 DEF AddedSomewhere
  <2>1. k \in DOMAIN calls /\ calls'[k].adding = calls[k].adding
    BY <1>3, <1>6
  <2>2. calls[k].adding \in Products
    BY <1>4, <2>1 DEF Calls
  <2>3. item[calls[k].adding] \notin {"unmade", "nowhere"}
    BY <2>1 DEF ScriptsInv, AddedSomewhere
  <2>4. QED
    BY <1>11, <2>1, <2>2, <2>3
<1>19. TemporaryItems'
  <2>1. \A t \in temps' : item'[t[2]] # "released"
    BY <1>17 DEF TemporaryOnce
  <2>2. ASSUME refused = 0, NEW k \in 1 .. n, NEW i \in calls'[k].owes
        PROVE  <<k - 1, i>> \in temps'
    <3>1. k \in DOMAIN calls /\ i \in calls[k].owes
      BY <1>3, <1>6
    <3>2. <<k - 1, i>> \in temps
      BY <2>2, <3>1 DEF ScriptsInv, TemporaryItems
    <3>3. <<k - 1, i>>[1] # index
      BY <1>2, <1>3, <2>2
    <3>4. QED
      BY <1>10, <3>2, <3>3
  <2>3. ASSUME refused = 0, NEW i \in Products
        PROVE  item'[i] = "nowhere" <=> \E k \in 1 .. n : i \in calls'[k].owes
    <3>1. item[i] = "nowhere" <=> \E k \in DOMAIN calls : i \in calls[k].owes
      BY <2>3 DEF ScriptsInv, TemporaryItems
    <3>2. ASSUME item'[i] = "nowhere"
          PROVE  \E k \in 1 .. n : i \in calls'[k].owes
      <4>1. item[i] = "nowhere" /\ \A t \in own : t[2] # i
        BY <1>11, <3>2
      <4>2. PICK k \in DOMAIN calls : i \in calls[k].owes
        BY <3>1, <4>1
      <4>3. <<k - 1, i>> \in temps
        BY <2>3, <4>2 DEF ScriptsInv, TemporaryItems
      <4>4. k - 1 # index
        BY <1>10, <4>1, <4>3
      <4>5. k \in 1 .. n
        BY <1>2, <1>3, <2>3, <4>4
      <4>6. QED
        BY <1>6, <4>2, <4>5
    <3>3. ASSUME NEW k \in 1 .. n, i \in calls'[k].owes
          PROVE  item'[i] = "nowhere"
      <4>1. k \in DOMAIN calls /\ i \in calls[k].owes
        BY <1>3, <1>6, <3>3
      <4>2. <<k - 1, i>> \in temps' /\ <<k - 1, i>>[2] = i
        BY <2>2, <2>3, <3>3
      <4>3. QED
        BY <1>16, <3>1, <4>1, <4>2
    <3>4. QED
      BY <3>2, <3>3
  <2>4. ASSUME refused = 0, calls' = <<>>
        PROVE  temps' = {}
    <3>1. n = 0 /\ index = 0
      <4>1. Len(calls') = 0
        BY <2>4
      <4>2. n = 0
        BY <1>6, <4>1
      <4>3. index = n
        BY <2>4, ItemsKnown
      <4>4. QED
        BY <4>2, <4>3
    <3>2. \A t \in temps : t[1] = index
      BY <1>9, <3>1
    <3>3. QED
      BY <1>10, <3>2
  <2>5. QED
    BY <1>1, <1>6, <2>1, <2>2, <2>3, <2>4 DEF TemporaryItems
<1>20. QED
  BY <1>12, <1>13, <1>14, <1>17, <1>18, <1>19 DEF ScriptsInv

(* At first there are no calls.                                            *)
LEMMA ScriptsInitInv ==
  ASSUME ScriptsAssumption, ScriptsInit
  PROVE  ScriptsInv /\ FailsClosed /\ ResultsKept
<1>1. Unused \in Environments /\ Blank(Unused)
  BY DEF Unused, Environments, Blank
<1>2. ScriptsTypes
  <2>1. calls \in Seq(Calls) /\ Len(calls) = 0
    BY DEF ScriptsInit
  <2>2. QED
    BY <1>1, <2>1 DEF ScriptsInit, ScriptsTypes, ScriptsAssumption
<1>3. OwnEnvironment /\ DOMAIN calls = {}
  BY DEF ScriptsInit, OwnEnvironment
<1>4. FreeAreBlank
  BY <1>1 DEF ScriptsInit, FreeAreBlank
<1>5. TemporaryOnce /\ AddedSomewhere /\ TemporaryItems
  BY <1>3 DEF ScriptsInit, TemporaryOnce, AddedSomewhere, TemporaryItems
<1>6. FailsClosed /\ ResultsKept
  BY DEF ScriptsInit, FailsClosed, ResultsKept, Quiet, None
<1>7. QED
  BY <1>2, <1>3, <1>4, <1>5, <1>6 DEF ScriptsInv

(* Every step keeps the invariant.                                         *)
LEMMA ScriptsStep ==
  ASSUME ScriptsAssumption, ScriptsInv, [ScriptsNext]_callVars
  PROVE  ScriptsInv'
<1>1. ASSUME UNCHANGED <<env, index, calls, temps, item, lastId, refused>>
      PROVE  ScriptsInv'
  BY <1>1 DEF ScriptsInv, ScriptsTypes, OwnEnvironment, FreeAreBlank, Blank, TemporaryOnce,
              AddedSomewhere, TemporaryItems
<1>2. ASSUME NEW h \in Silent, NotInstalled(h)
      PROVE  ScriptsInv'
  BY <1>1, <1>2 DEF NotInstalled
<1>3. ASSUME NEW h \in Called, Refuse(h) \/ Enter(h)
      PROVE  ScriptsInv'
  BY <1>3, RefuseKeeps, EnterKeeps
<1>4. ASSUME Return \/ Fail
      PROVE  ScriptsInv'
  BY <1>4, EndCallKeeps DEF Return, Fail
<1>5. ASSUME Added \/ StoreQuery
      PROVE  ScriptsInv'
  BY <1>5, AddedKeeps, StoreQueryKeeps
<1>6. ASSUME NEW i \in Products, MakeItem(i) \/ AddItem(i) \/ RemoveItem(i)
      PROVE  ScriptsInv'
  BY <1>6, MakeItemKeeps, AddItemKeeps, RemoveItemKeeps
<1>7. ASSUME NEW r \in results, FreeResult(r)
      PROVE  ScriptsInv'
  BY <1>7, FreeResultKeeps
<1>8. CASE UNCHANGED callVars
  BY <1>1, <1>8 DEF callVars
<1>9. QED
  BY <1>2, <1>3, <1>4, <1>5, <1>6, <1>7, <1>8 DEF ScriptsNext

(* Only a refused call and a failed one tell their callers something that  *)
(* no script answered.                                                     *)
LEMMA FailsClosedStep ==
  ASSUME ScriptsAssumption, ScriptsInv, FailsClosed, [ScriptsNext]_callVars
  PROVE  FailsClosed'
<1>1. CASE told' = Quiet
  BY <1>1 DEF FailsClosed, Quiet, None
<1>2. CASE UNCHANGED callVars
  BY <1>2 DEF callVars, FailsClosed
<1>3. ASSUME NEW h \in Silent, NotInstalled(h)
      PROVE  FailsClosed'
  BY <1>3 DEF NotInstalled, Tell, FailsClosed
<1>4. ASSUME NEW h \in Called, Refuse(h)
      PROVE  FailsClosed'
  <2>1. told'.how = "full" /\ told'.answer = Hooks[h].kind.full
    BY <1>4 DEF Refuse, Tell
  <2>2. QED
    BY <1>4, <2>1, FailuresClosed DEF FailsClosed
<1>5. CASE Return
  BY <1>5 DEF Return, EndCall, FailsClosed
<1>6. CASE Fail
  <2>1. /\ calls # <<>> /\ told'.how = "error"
        /\ told'.answer = Hooks[Top.hook].kind.error
    BY <1>6 DEF Fail, EndCall
  <2>2. Top.hook \in Called
    BY <2>1, TopIsACall DEF Calls
  <2>3. QED
    BY <2>1, <2>2, FailuresClosed DEF FailsClosed
<1>7. CASE \/ \E h \in Called : Enter(h)
           \/ Added \/ StoreQuery
           \/ \E i \in Products : MakeItem(i) \/ AddItem(i) \/ RemoveItem(i)
           \/ \E r \in results : FreeResult(r)
  BY <1>1, <1>7 DEF Enter, Added, StoreQuery, MakeItem, AddItem, RemoveItem, FreeResult
<1>8. QED
  BY <1>2, <1>3, <1>4, <1>5, <1>6, <1>7 DEF ScriptsNext

(* Who may ask for a result is the innermost script: it loses them all     *)
(* when it has called another.                                             *)
LEMMA ResultsStep ==
  ASSUME ScriptsAssumption, ScriptsInv, ScriptsInv', ResultsKept, [ScriptsNext]_callVars
  PROVE  ResultsKept'
<1>1. CASE UNCHANGED <<calls, results>>
  BY <1>1 DEF ResultsKept, Top, Last
<1>2. ASSUME calls # <<>>, NEW c \in Calls, c.hook = Top.hook, InTop(c),
             UNCHANGED <<env, index, refused>>, c.has \subseteq results'
      PROVE  ResultsKept'
  BY <1>2, TopChanged DEF ResultsKept
<1>3. calls # <<>> => Top \in Calls /\ Top.has \subseteq results
  BY TopIsACall DEF ResultsKept
<1>4. ASSUME NEW h \in Called, Enter(h)
      PROVE  ResultsKept'
  <2> DEFINE has == IF h = "onStored" THEN {lastId + 1} ELSE {}
             c == [hook |-> h, adding |-> None, owes |-> {}, has |-> has]
  <2>1. calls' = Append(calls, c) /\ has \subseteq results'
    BY <1>4 DEF Enter
  <2>2. c.has = has /\ c \in Calls
    BY <1>4 DEF Calls, ScriptsInv, ScriptsTypes
  <2> HIDE DEF c
  <2>3. calls \in Seq(Calls)
    BY DEF ScriptsInv, ScriptsTypes
  <2>4. Len(calls') = Len(calls) + 1 /\ calls'[Len(calls) + 1] = c /\ calls' # <<>>
    BY <2>1, <2>2, <2>3, AppendProperties
  <2>5. QED
    BY <2>1, <2>2, <2>4 DEF ResultsKept, Top, Last
<1>5. ASSUME NEW how, NEW answer, EndCall(how, answer)
      PROVE  ResultsKept'
  <2> DEFINE rest == Front(calls)
             m == Len(rest)
             c == [rest[m] EXCEPT !.has = {}]
  <2>1. /\ results' = {} /\ calls # <<>>
        /\ calls' = IF rest = <<>> THEN rest ELSE [rest EXCEPT ![m] = c]
    BY <1>5 DEF EndCall
  <2>2. CASE rest = <<>>
    BY <2>1, <2>2 DEF ResultsKept
  <2>3. CASE rest # <<>>
    <3>1. calls \in Seq(Calls) /\ Len(calls) \in Nat \ {0}
      BY <2>1, TopIsACall DEF ScriptsInv, ScriptsTypes
    <3>2. rest = SubSeq(calls, 1, Len(calls) - 1)
      BY DEF Front
    <3>3. rest \in Seq(Calls)
      BY <3>1, <3>2, SubSeqProperties
    <3>4. m \in 1 .. m /\ rest[m] \in Calls
      BY <2>3, <3>3, ElementOfSeq, EmptySeq, LenProperties
    <3>5. c \in Calls /\ c.has = {}
      BY <3>4 DEF Calls
    <3> HIDE DEF c, rest
    <3>6. Len(calls') = m /\ calls'[m] = c
      BY <2>1, <2>3, <3>3, <3>4, <3>5, ExceptSeq
    <3>7. calls' # <<>>
      BY <3>4, <3>6
    <3>8. QED
      BY <2>1, <3>5, <3>6, <3>7 DEF ResultsKept, Top, Last
  <2>4. QED
    BY <2>2, <2>3
<1>6. ASSUME NEW i \in Products, MakeItem(i)
      PROVE  ResultsKept'
  <2> DEFINE c == [Top EXCEPT !.owes = @ \union {i}]
  <2>1. calls # <<>> /\ InTop(c) /\ UNCHANGED <<env, index, refused, results>>
    BY <1>6 DEF MakeItem, Running
  <2>2. c \in Calls /\ c.hook = Top.hook /\ c.has = Top.has
    BY <1>3, <2>1 DEF Calls
  <2>3. QED
    BY <1>2, <1>3, <2>1, <2>2
<1>7. ASSUME NEW i \in Products, AddItem(i)
      PROVE  ResultsKept'
  <2> DEFINE c == [Top EXCEPT !.adding = i, !.owes = @ \ {i}]
  <2>1. calls # <<>> /\ InTop(c) /\ UNCHANGED <<env, index, refused, results>>
    BY <1>7 DEF AddItem, Running
  <2>2. c \in Calls /\ c.hook = Top.hook /\ c.has = Top.has
    BY <1>3, <2>1 DEF Calls
  <2>3. QED
    BY <1>2, <1>3, <2>1, <2>2
<1>8. ASSUME Added
      PROVE  ResultsKept'
  <2> DEFINE c == [Top EXCEPT !.adding = None]
  <2>1. calls # <<>> /\ InTop(c) /\ UNCHANGED <<env, index, refused, results>>
    BY <1>8 DEF Added
  <2>2. c \in Calls /\ c.hook = Top.hook /\ c.has = Top.has
    BY <1>3, <2>1 DEF Calls
  <2>3. QED
    BY <1>2, <1>3, <2>1, <2>2
<1>9. ASSUME StoreQuery
      PROVE  ResultsKept'
  <2> DEFINE c == [Top EXCEPT !.has = @ \union {lastId'}]
  <2>1. /\ calls # <<>> /\ InTop(c) /\ UNCHANGED <<env, index, refused>>
        /\ results' = results \union {lastId'} /\ lastId' \in Nat
    BY <1>9 DEF StoreQuery, Running, ScriptsInv, ScriptsTypes
  <2>2. c \in Calls /\ c.hook = Top.hook /\ c.has = Top.has \union {lastId'}
    BY <1>3, <2>1 DEF Calls
  <2>3. c.has \subseteq results'
    BY <1>3, <2>1, <2>2
  <2>4. QED
    BY <1>2, <2>1, <2>2, <2>3
<1>10. ASSUME NEW r, FreeResult(r)
       PROVE  ResultsKept'
  <2> DEFINE c == [Top EXCEPT !.has = @ \ {r}]
  <2>1. /\ calls # <<>> /\ InTop(c) /\ UNCHANGED <<env, index, refused>>
        /\ results' = results \ {r}
    BY <1>10 DEF FreeResult, Running
  <2>2. c \in Calls /\ c.hook = Top.hook /\ c.has = Top.has \ {r}
    BY <1>3, <2>1 DEF Calls
  <2>3. c.has \subseteq results'
    BY <1>3, <2>1, <2>2
  <2>4. QED
    BY <1>2, <2>1, <2>2, <2>3
<1>11. CASE \/ UNCHANGED callVars
            \/ \E h \in Silent : NotInstalled(h)
            \/ \E h \in Called : Refuse(h)
            \/ \E i \in Products : RemoveItem(i)
  BY <1>1, <1>11 DEF callVars, NotInstalled, Refuse, RemoveItem
<1>12. QED
  BY <1>4, <1>5, <1>6, <1>7, <1>8, <1>9, <1>10, <1>11 DEF ScriptsNext, Return, Fail

(* For any number of environments, hooks with and without scripts, and     *)
(* items, scripts are called soundly: each in the environment prepared for *)
(* it, no failed one permits anything, what they make is put somewhere or  *)
(* released, and results outlive only what calls nothing.                  *)
THEOREM ScriptsAlwaysSound ==
  ASSUME ScriptsAssumption
  PROVE  ScriptsSpec => []ScriptsSound
<1> DEFINE Inv == ScriptsInv /\ FailsClosed /\ ResultsKept
<1>1. ScriptsInit => Inv
  BY ScriptsInitInv
<1>2. Inv /\ [ScriptsNext]_callVars => Inv'
  BY ScriptsStep, FailsClosedStep, ResultsStep
<1>3. Inv => ScriptsSound
  BY DEF ScriptsInv, ScriptsSound
<1>4. QED
  BY <1>1, <1>2, <1>3, PTL DEF ScriptsSpec

-----------------------------------------------------------------------------
(* The registers of scripts.  A set of numbers has a least one.            *)
LEMMA Least ==
  ASSUME NEW S \in SUBSET Nat, S # {}
  PROVE  \E x \in S : \A y \in S : x <= y
<1>1. IsWellFoundedOn(OpToRel(<,Nat), Nat)
  BY NatLessThanWellFounded
<1>2. PICK x \in S : \A y \in S : ~(<<y, x>> \in OpToRel(<,Nat))
  BY <1>1, WFMin
<1>3. \A y \in S : ~(y < x)
  BY <1>2 DEF OpToRel
<1> QED
  BY <1>3

(* Timers: one that is not over has not run, one that waits is no task.    *)
TimersInv ==
  /\ timer \in [Timers -> {"unmade", "set", "stopped", "over"}]
  /\ refs \in [Timers -> [ran : BOOLEAN, released : Nat]]
  /\ waiting \subseteq Timers /\ handed \subseteq Timers
  /\ \A e \in Timers :
       /\ timer[e] # "over" => ~refs[e].ran
       /\ refs[e].released = IF timer[e] \in {"stopped", "over"} THEN 1 ELSE 0
       /\ e \in waiting => timer[e] = "set" /\ e \notin handed
       /\ e \in handed => timer[e] \in {"set", "stopped"}

(* Holds at the start, and is kept by every step of the registers.         *)
LEMMA TimersStart == EventsInit => TimersInv
  BY DEF EventsInit, TimersInv

LEMMA TimersKept ==
  ASSUME TimersInv, [EventsNext]_(eventVars)
  PROVE TimersInv'
<1>1. CASE UNCHANGED timerVars
  BY <1>1 DEF TimersInv, timerVars
<1>2. ASSUME NEW e \in Timers, addEvent(e)
      PROVE  TimersInv'
  BY <1>2 DEF TimersInv, addEvent
<1>3. ASSUME NEW e \in Timers, TimerDue(e)
      PROVE  TimersInv'
  BY <1>3 DEF TimersInv, TimerDue
<1>4. ASSUME NEW e \in Timers, stopEvent(e)
      PROVE  TimersInv'
  BY <1>4 DEF TimersInv, stopEvent
<1>5. ASSUME NEW e \in Timers, NEW free \in BOOLEAN, executeTimerEvent(e, free)
      PROVE  TimersInv'
  BY <1>5 DEF TimersInv, executeTimerEvent
<1> QED
  BY <1>1, <1>2, <1>3, <1>4, <1>5
  DEF EventsNext, TimerNext, RegisterNext, GlobalNext, eventVars, Reload, registerCreatureEvent,
      unregisterCreatureEvent, ReloadGlobal, HandOver, Check, Tick
-----------------------------------------------------------------------------
(* Dates of global events, with the types that arithmetic needs.           *)
GlobalEvents == Thinkers \union Daily
When == Nat \union {Never}

DatesInv ==
  /\ clock \in Nat
  /\ nextExecution \in [GlobalEvents -> When]
  /\ runs \in [GlobalEvents -> [count : Nat, from : Nat]]
  /\ DatesMetOnce

(* Holds at the start,                                                     *)
LEMMA DatesStart == ScriptEventsAssumption /\ EventsInit => DatesInv
  BY DEF EventsInit, DatesInv, GlobalEvents, When, Never, DatesMetOnce

(* and is kept: a check adds one execution and one interval to the date.   *)
LEMMA DatesKept ==
  ASSUME ScriptEventsAssumption, DatesInv, [EventsNext]_(eventVars)
  PROVE DatesInv'
<1>0. Interval \in [GlobalEvents -> Nat \ {0}] /\ Never = -1
  BY DEF ScriptEventsAssumption, GlobalEvents, Never
<1>1. CASE UNCHANGED globalVars
  BY <1>1 DEF DatesInv, globalVars, DatesMetOnce
<1>2. ASSUME NEW c \in Checks, NEW found \in SUBSET EventsOf(c), NEW when \in [EventsOf(c) -> clock .. MaxTime],
             ReloadGlobal(c, found, when)
      PROVE  DatesInv'
  <2>1. \A g \in EventsOf(c) : when[g] \in Nat
    BY DEF DatesInv, ScriptEventsAssumption
  <2>2. EventsOf(c) \subseteq GlobalEvents
    BY DEF EventsOf, GlobalEvents
  <2>3. nextExecution' = [g \in GlobalEvents |-> IF g \notin EventsOf(c) THEN nextExecution[g]
                                            ELSE IF g \in found THEN when[g] ELSE Never]
    BY <1>2 DEF ReloadGlobal, DatesInv
  <2>4. runs' = [g \in GlobalEvents |-> IF g \in EventsOf(c) THEN [count |-> 0, from |-> when[g]] ELSE runs[g]]
    BY <1>2 DEF ReloadGlobal, DatesInv
  <2>5. clock' = clock
    BY <1>2 DEF ReloadGlobal
  <2>6. nextExecution' \in [GlobalEvents -> When] /\ runs' \in [GlobalEvents -> [count : Nat, from : Nat]]
    BY <2>1, <2>2, <2>3, <2>4 DEF DatesInv, When
  <2>7. ASSUME NEW g \in GlobalEvents
        PROVE  /\ runs'[g].count > 0 => runs'[g].from + (runs'[g].count - 1) * Interval[g] <= clock'
               /\ nextExecution'[g] # Never => nextExecution'[g] = runs'[g].from + runs'[g].count * Interval[g]
    <3>1. CASE g \in EventsOf(c)
      <4>1. runs'[g].count = 0 /\ runs'[g].from = when[g] /\ when[g] \in Nat /\ nextExecution'[g] \in {when[g], Never}
        BY <2>1, <2>3, <2>4, <3>1
      <4> QED
        BY <1>0, <4>1
    <3>2. CASE g \notin EventsOf(c)
      <4>1. runs'[g] = runs[g] /\ nextExecution'[g] = nextExecution[g]
        BY <2>3, <2>4, <3>2
      <4> QED
        BY <2>5, <4>1 DEF DatesInv, DatesMetOnce, GlobalEvents
    <3> QED
      BY <3>1, <3>2
  <2> QED
    BY <2>5, <2>6, <2>7 DEF DatesInv, DatesMetOnce, GlobalEvents
<1>3. ASSUME NEW s \in sched, HandOver(s)
      PROVE  DatesInv'
  BY <1>3 DEF DatesInv, HandOver, DatesMetOnce
<1>4. ASSUME NEW t \in tasks, NEW failing \in SUBSET EventsOf(t.check), Check(t, failing)
      PROVE  DatesInv'
  <2> DEFINE c == t.check
  <2> DEFINE due == {g \in Loaded(c) : nextExecution[g] <= clock}
  <2> DEFINE out == IF c = "timer" THEN failing ELSE {}
  <2>1. clock' = clock
    BY <1>4 DEF Check
  <2>3. due \subseteq GlobalEvents /\ \A g \in due : nextExecution[g] # Never /\ nextExecution[g] <= clock
    BY DEF Loaded, EventsOf, GlobalEvents
  <2>4. nextExecution' = [g \in GlobalEvents |-> IF g \in out THEN Never
                                            ELSE IF g \in due THEN nextExecution[g] + Interval[g] ELSE nextExecution[g]]
    BY <1>4 DEF Check, DatesInv
  <2>5. runs' = [g \in GlobalEvents |-> IF g \in due THEN [runs[g] EXCEPT !.count = @ + 1] ELSE runs[g]]
    BY <1>4 DEF Check, DatesInv
  <2>6. out \subseteq due
    BY <1>4 DEF Check
  <2> HIDE DEF due, out
  <2>7. ASSUME NEW g \in GlobalEvents
        PROVE  /\ nextExecution'[g] \in When
               /\ runs'[g] \in [count : Nat, from : Nat]
               /\ runs'[g].count > 0 => runs'[g].from + (runs'[g].count - 1) * Interval[g] <= clock
               /\ nextExecution'[g] # Never => nextExecution'[g] = runs'[g].from + runs'[g].count * Interval[g]
    <3> DEFINE n == runs[g].count  f == runs[g].from  i == Interval[g]  x == nextExecution[g]
    <3>1. n \in Nat /\ f \in Nat /\ i \in Nat /\ x \in When /\ clock \in Nat
      BY <1>0 DEF DatesInv
    <3>2. (n > 0 => f + (n - 1) * i <= clock) /\ (x # Never => x = f + n * i)
      BY DEF DatesInv, DatesMetOnce, GlobalEvents
    <3>3. CASE g \in due
      <4>1. runs'[g].count = n + 1 /\ runs'[g].from = f /\ runs'[g] \in [count : Nat, from : Nat]
        BY <2>5, <3>3, <3>1 DEF DatesInv
      <4>2. x # Never /\ x <= clock
        BY <2>3, <3>3
      <4>3. nextExecution'[g] \in {x + i, Never}
        BY <2>4, <3>3
      <4>4. x \in Nat
        BY <3>1, <4>2 DEF When
      <4> HIDE DEF n, f, i, x
      <4>5. f + ((n + 1) - 1) * i <= clock
        <5>1. (n + 1) - 1 = n
          BY <3>1
        <5> QED
          BY <3>2, <4>2, <5>1
      <4>6. x + i = f + (n + 1) * i
        <5>1. (n + 1) * i = n * i + i /\ n * i \in Int
          BY <3>1
        <5> QED
          BY <3>1, <3>2, <4>2, <5>1
      <4>7. x + i \in Nat
        BY <3>1, <4>4
      <4> QED
        BY <4>1, <4>3, <4>5, <4>6, <4>7 DEF When, i
    <3>4. CASE g \notin due
      <4>1. runs'[g] = runs[g] /\ nextExecution'[g] = x
        BY <2>4, <2>5, <2>6, <3>4
      <4> QED
        BY <3>1, <3>2, <4>1 DEF DatesInv
    <3> QED
      BY <3>3, <3>4
  <2>8. nextExecution' \in [GlobalEvents -> When] /\ runs' \in [GlobalEvents -> [count : Nat, from : Nat]]
    <3>1. nextExecution' = [g \in GlobalEvents |-> nextExecution'[g]] /\ runs' = [g \in GlobalEvents |-> runs'[g]]
      BY <2>4, <2>5
    <3> QED
      BY <2>7, <3>1
  <2>9. DatesMetOnce'
    BY <2>1, <2>7 DEF DatesMetOnce, GlobalEvents
  <2> QED
    BY <2>1, <2>8, <2>9 DEF DatesInv
<1>5. CASE Tick
  <2>1. ASSUME NEW g \in GlobalEvents
        PROVE  runs[g].from + (runs[g].count - 1) * Interval[g] \in Int
    <3> DEFINE n == runs[g].count  f == runs[g].from  i == Interval[g]
    <3>1. n \in Int /\ f \in Int /\ i \in Int
      BY <1>0 DEF DatesInv
    <3> HIDE DEF n, f, i
    <3>2. (n - 1) * i \in Int
      BY <3>1
    <3> QED
      BY <3>1, <3>2 DEF n, f, i
  <2>2. clock' = clock + 1 /\ clock \in Nat /\ UNCHANGED <<nextExecution, runs>>
    BY <1>5 DEF Tick, DatesInv
  <2>3. DatesMetOnce'
    <3> SUFFICES ASSUME NEW g \in GlobalEvents
                 PROVE  /\ runs[g].count > 0 => runs[g].from + (runs[g].count - 1) * Interval[g] <= clock + 1
                        /\ nextExecution[g] # Never => nextExecution[g] = runs[g].from + runs[g].count * Interval[g]
      BY <2>2 DEF DatesMetOnce, GlobalEvents
    <3> DEFINE v == runs[g].from + (runs[g].count - 1) * Interval[g]
    <3>1. v \in Int /\ (runs[g].count > 0 => v <= clock)
          /\ (nextExecution[g] # Never => nextExecution[g] = runs[g].from + runs[g].count * Interval[g])
      BY <2>1 DEF DatesInv, DatesMetOnce, GlobalEvents
    <3> HIDE DEF v
    <3>2. runs[g].count > 0 => v <= clock + 1
      BY <2>2, <3>1
    <3> QED
      BY <3>1, <3>2 DEF v
  <2> QED
    BY <2>2, <2>3 DEF DatesInv
<1> QED
  BY <1>1, <1>2, <1>3, <1>4, <1>5
  DEF EventsNext, TimerNext, RegisterNext, GlobalNext, eventVars, Reload, registerCreatureEvent,
      unregisterCreatureEvent, addEvent, TimerDue, stopEvent, executeTimerEvent

-----------------------------------------------------------------------------
(* Checks that are on their way.  A stray one is not that of the chain;    *)
(* there are not more than reloads that came late.  An id names one check, *)
(* and the id of a chain one of its kind.                                  *)
CheckRecords == [id : 1 .. MaxIds, check : Checks, due : Nat]
Outstanding == sched \union tasks
Stray(c) == {x \in Outstanding : x.check = c /\ x.id # chain[c]}
Soon(x, g) == x.due <= clock + First \/ x.due <= nextExecution[g] \/ x.due <= clock + Interval[g]

ChecksTypes ==
  /\ clock \in Nat /\ nextExecution \in [GlobalEvents -> When]
  /\ chain \in [Checks -> 0 .. MaxIds] /\ late \in [Checks -> Nat]
  /\ sched \subseteq CheckRecords /\ tasks \subseteq CheckRecords
  /\ IsFiniteSet(sched) /\ IsFiniteSet(tasks) /\ sched \intersect tasks = {}

IdsDiffer ==
  /\ \A x, y \in Outstanding : x.id = y.id => x = y
  /\ \A c \in Checks, x \in Outstanding : x.id = chain[c] => x.check = c

FewStray == \A c \in Checks : Cardinality(Stray(c)) <= late[c]

SomeoneSoon ==
  \A c \in Checks : \A g \in Loaded(c) :
    \E x \in Outstanding : x.check = c /\ (x \in sched => Soon(x, g))

ChecksInv == ChecksTypes /\ IdsDiffer /\ FewStray /\ SomeoneSoon

(* A set with one element at most outside another has one more at most.    *)
LEMMA OneMore ==
  ASSUME NEW S, NEW T, IsFiniteSet(S), \A x, y \in T \ S : x = y
  PROVE  IsFiniteSet(T) /\ Cardinality(T) <= Cardinality(S) + 1
<1>1. CASE T \subseteq S
  <2>1. IsFiniteSet(T) /\ Cardinality(T) <= Cardinality(S)
    BY <1>1, FS_Subset
  <2>2. Cardinality(T) \in Nat /\ Cardinality(S) \in Nat
    BY <2>1, FS_CardinalityType
  <2> QED
    BY <2>1, <2>2
<1>2. CASE ~(T \subseteq S)
  <2>1. PICK x : x \in T \ S
    BY <1>2
  <2>2. T \subseteq S \union {x}
    BY <2>1
  <2>3. IsFiniteSet(S \union {x}) /\ Cardinality(S \union {x}) = Cardinality(S) + 1
    BY <2>1, FS_AddElement
  <2> QED
    BY <2>2, <2>3, FS_Subset
<1> QED
  BY <1>1, <1>2

(* As long as there are fewer ids in use than there are, one is free.      *)
LEMMA IdIsFresh ==
  ASSUME ScriptEventsAssumption, ChecksTypes, Cardinality(Used) < MaxIds
  PROVE  FreshId \in 1 .. MaxIds /\ FreshId \notin Used
<1>2. Used \subseteq 0 .. MaxIds
  BY DEF Used, ChecksTypes, CheckRecords, ScriptEventsAssumption
<1>3. IsFiniteSet(Used)
  <2>1. IsFiniteSet(0 .. MaxIds)
    BY FS_Interval DEF ScriptEventsAssumption
  <2> QED
    BY <1>2, <2>1, FS_Subset
<1>4. Cardinality(1 .. MaxIds) = MaxIds
  BY FS_Interval DEF ScriptEventsAssumption
<1>5. ~(1 .. MaxIds \subseteq Used)
  <2> SUFFICES ASSUME 1 .. MaxIds \subseteq Used PROVE FALSE
    OBVIOUS
  <2>1. Cardinality(1 .. MaxIds) <= Cardinality(Used)
    BY <1>3, FS_Subset
  <2>2. Cardinality(Used) \in Nat
    BY <1>3, FS_CardinalityType
  <2> QED
    BY <1>4, <2>1, <2>2 DEF ScriptEventsAssumption
<1>6. \E i \in 1 .. MaxIds : i \notin Used
  BY <1>5
<1> QED
  BY <1>6 DEF FreshId

(* Holds at the start.                                                     *)
LEMMA ChecksStart == ScriptEventsAssumption /\ EventsInit => ChecksInv
<1> SUFFICES ASSUME ScriptEventsAssumption, EventsInit PROVE ChecksInv
  OBVIOUS
<1>1. Outstanding = {} /\ sched = {} /\ tasks = {}
  BY DEF EventsInit, Outstanding
<1>2. ChecksTypes
  BY <1>1, FS_EmptySet DEF EventsInit, ChecksTypes, GlobalEvents, When, ScriptEventsAssumption
<1>3. \A c \in Checks : Stray(c) = {} /\ Loaded(c) = {} /\ late[c] = 0
  BY <1>1 DEF EventsInit, Stray, Loaded, EventsOf, Checks
<1> QED
  BY <1>1, <1>2, <1>3, FS_EmptySet DEF ChecksInv, IdsDiffer, FewStray, SomeoneSoon

(* There are finitely many checks, so strays can be counted.               *)
LEMMA StrayFinite ==
  ASSUME ChecksTypes, NEW c
  PROVE  IsFiniteSet(Outstanding) /\ IsFiniteSet(Stray(c)) /\ Cardinality(Stray(c)) \in Nat
<1>1. IsFiniteSet(Outstanding)
  BY FS_Union DEF ChecksTypes, Outstanding
<1>2. IsFiniteSet(Stray(c))
  BY <1>1, FS_Subset DEF Stray
<1> QED
  BY <1>1, <1>2, FS_CardinalityType

(* Handing a check over moves it; nobody looks at its time any more.       *)
LEMMA HandOverKeeps ==
  ASSUME ScriptEventsAssumption, ChecksInv, NEW s \in sched, HandOver(s)
  PROVE  ChecksInv'
<1>1. /\ sched' = sched \ {s} /\ tasks' = tasks \union {s}
      /\ UNCHANGED <<clock, nextExecution, chain, late>>
  BY DEF HandOver
<1>2. Outstanding' = Outstanding /\ s \in Outstanding
  BY <1>1 DEF Outstanding
<1>3. IsFiniteSet(sched') /\ IsFiniteSet(tasks')
  BY <1>1, FS_AddElement, FS_RemoveElement DEF ChecksInv, ChecksTypes
<1>4. ChecksTypes'
  BY <1>1, <1>3 DEF ChecksInv, ChecksTypes
<1>5. \A c \in Checks : Stray(c)' = Stray(c) /\ Loaded(c)' = Loaded(c)
  BY <1>1, <1>2 DEF Stray, Loaded
<1>6. SomeoneSoon'
  BY <1>1, <1>2, <1>5 DEF ChecksInv, SomeoneSoon, Soon
<1>7. FewStray'
  BY <1>1, <1>5 DEF ChecksInv, FewStray
<1>8. IdsDiffer'
  BY <1>1, <1>2 DEF ChecksInv, IdsDiffer
<1> QED
  BY <1>4, <1>6, <1>7, <1>8 DEF ChecksInv

(* Time makes nothing late: what is soon is measured from now.             *)
LEMMA TickKeeps ==
  ASSUME ScriptEventsAssumption, ChecksInv, Tick
  PROVE  ChecksInv'
<1>1. clock' = clock + 1 /\ UNCHANGED <<nextExecution, chain, sched, tasks, late>>
  BY DEF Tick
<1>2. Outstanding' = Outstanding /\ \A c \in Checks : Stray(c)' = Stray(c) /\ Loaded(c)' = Loaded(c)
  BY <1>1 DEF Outstanding, Stray, Loaded
<1>3. ASSUME NEW c \in Checks, NEW g \in Loaded(c), NEW x \in Outstanding, Soon(x, g)
      PROVE  Soon(x, g)'
  <2>1. x.due \in Nat /\ clock \in Nat /\ First \in Nat /\ Interval[g] \in Nat
    BY DEF ChecksInv, ChecksTypes, CheckRecords, Outstanding, ScriptEventsAssumption,
           Loaded, EventsOf
  <2> QED
    BY <1>1, <1>3, <2>1 DEF Soon
<1>4. ChecksTypes'
  BY <1>1 DEF ChecksInv, ChecksTypes
<1>5. SomeoneSoon'
  BY <1>1, <1>2, <1>3 DEF ChecksInv, SomeoneSoon
<1> QED
  BY <1>1, <1>2, <1>4, <1>5 DEF ChecksInv, IdsDiffer, FewStray

(* A reload stops the check of the chain if it still waits; each that is a *)
(* task already becomes a stray one, and is counted.                       *)
LEMMA ReloadKeeps ==
  ASSUME ScriptEventsAssumption, ChecksInv, NEW c \in Checks, NEW found \in SUBSET EventsOf(c),
         NEW when \in [EventsOf(c) -> clock .. MaxTime], ReloadGlobal(c, found, when)
  PROVE  ChecksInv'
<1> DEFINE id == FreshId
<1> DEFINE kept == {s \in sched : s.id # chain[c]}
<1> DEFINE new == [id |-> id, check |-> c, due |-> clock + First]
<1> DEFINE more == IF found = {} THEN {} ELSE {new}
<1> DEFINE mine == {t \in tasks : t.check = c}
<1>1. id \in 1 .. MaxIds /\ id \notin Used
  BY IdIsFresh DEF ChecksInv, ReloadGlobal
<1>2. /\ clock' = clock /\ tasks' = tasks
      /\ chain' = [chain EXCEPT ![c] = IF found = {} THEN 0 ELSE id]
      /\ sched' = kept \union more
      /\ nextExecution' = [g \in DOMAIN nextExecution |-> IF g \notin EventsOf(c) THEN nextExecution[g]
                                                ELSE IF g \in found THEN when[g] ELSE Never]
      /\ late' = [late EXCEPT ![c] = @ + Cardinality(mine)]
  BY DEF ReloadGlobal
<1>3. new \in CheckRecords
  BY <1>1 DEF CheckRecords, ChecksInv, ChecksTypes, ScriptEventsAssumption
<1>4. \A x \in Outstanding : x.id # id
  BY <1>1 DEF Used, Outstanding
<1>5. \A d \in Checks : chain[d] # id
  BY <1>1 DEF Used
<1>6. new.id = id /\ new.check = c /\ new.due = clock + First
  OBVIOUS
<1>8. IsFiniteSet(mine) /\ Cardinality(mine) \in Nat
  BY FS_Subset, FS_CardinalityType DEF ChecksInv, ChecksTypes
<1>9. EventsOf(c) \subseteq GlobalEvents /\ \A g \in EventsOf(c) : when[g] \in Nat
  BY DEF EventsOf, GlobalEvents, ChecksInv, ChecksTypes, ScriptEventsAssumption
<1> HIDE DEF new, id, mine
<1>10. Outstanding' = (kept \union tasks) \union more /\ kept \union tasks \subseteq Outstanding
  BY <1>2 DEF Outstanding
<1>11. IsFiniteSet(sched')
  <2>1. IsFiniteSet(kept)
    BY FS_Subset DEF ChecksInv, ChecksTypes
  <2>2. IsFiniteSet(kept \union {new})
    BY <2>1, FS_AddElement
  <2> QED
    BY <1>2, <2>1, <2>2
<1>12. ChecksTypes'
  <2>1. nextExecution' \in [GlobalEvents -> When]
    BY <1>2, <1>9 DEF ChecksInv, ChecksTypes, When
  <2>2. chain' \in [Checks -> 0 .. MaxIds]
    BY <1>1, <1>2 DEF ChecksInv, ChecksTypes, ScriptEventsAssumption
  <2>3. late' \in [Checks -> Nat]
    BY <1>2, <1>8 DEF ChecksInv, ChecksTypes
  <2>4. sched' \subseteq CheckRecords /\ sched' \intersect tasks = {}
    BY <1>2, <1>3, <1>4, <1>6 DEF ChecksInv, ChecksTypes, Outstanding
  <2> QED
    BY <1>2, <1>11, <2>1, <2>2, <2>3, <2>4 DEF ChecksInv, ChecksTypes
<1>13. IdsDiffer'
  <2>1. \A x, y \in Outstanding' : x.id = y.id => x = y
    BY <1>4, <1>6, <1>10 DEF ChecksInv, IdsDiffer
  <2>2. ASSUME NEW d \in Checks, NEW x \in Outstanding', x.id = chain'[d]
        PROVE  x.check = d
    <3>1. chain'[d] = IF d = c THEN IF found = {} THEN 0 ELSE id ELSE chain[d]
      BY <1>2 DEF ChecksInv, ChecksTypes
    <3>2. x \in more => x = new /\ found # {}
      OBVIOUS
    <3>3. x \in Outstanding => x.id # 0
      BY DEF Outstanding, ChecksInv, ChecksTypes, CheckRecords
    <3> QED
      BY <1>4, <1>5, <1>6, <1>10, <2>2, <3>1, <3>2, <3>3 DEF ChecksInv, IdsDiffer
  <2> QED
    BY <2>1, <2>2 DEF IdsDiffer
<1>14. FewStray'
  <2> SUFFICES ASSUME NEW d \in Checks
               PROVE  Cardinality(Stray(d)') <= late'[d]
    BY DEF FewStray
  <2>1. chain'[d] = IF d = c THEN IF found = {} THEN 0 ELSE id ELSE chain[d]
    BY <1>2 DEF ChecksInv, ChecksTypes
  <2>2. IsFiniteSet(Stray(d)) /\ Cardinality(Stray(d)) \in Nat /\ late[d] \in Nat /\ Cardinality(Stray(d)) <= late[d]
    BY StrayFinite DEF ChecksInv, ChecksTypes, FewStray
  <2>3. CASE d = c
    <3>1. Stray(d)' \subseteq Stray(d) \union mine
      BY <1>2, <1>6, <1>10, <2>1, <2>3 DEF Stray, mine, Outstanding
    <3>2. IsFiniteSet(Stray(d) \union mine)
      BY <1>8, <2>2, FS_Union
    <3>3. Cardinality(Stray(d) \union mine) = Cardinality(Stray(d)) + Cardinality(mine) - Cardinality(Stray(d) \intersect mine)
      BY <1>8, <2>2, FS_Union
    <3>4. Cardinality(Stray(d) \intersect mine) \in Nat
      BY <2>2, FS_Intersection, FS_CardinalityType
    <3>5. IsFiniteSet(Stray(d)') /\ Cardinality(Stray(d)') <= Cardinality(Stray(d) \union mine)
      BY <3>1, <3>2, FS_Subset
    <3>6. Cardinality(Stray(d)') \in Nat
      BY <3>5, FS_CardinalityType
    <3>7. late'[d] = late[d] + Cardinality(mine)
      BY <1>2, <2>3 DEF ChecksInv, ChecksTypes
    <3> QED
      BY <1>8, <2>2, <3>3, <3>4, <3>5, <3>6, <3>7
  <2>4. CASE d # c
    <3>1. Stray(d)' \subseteq Stray(d)
      BY <1>6, <1>10, <2>1, <2>4 DEF Stray
    <3>2. late'[d] = late[d]
      BY <1>2, <2>4 DEF ChecksInv, ChecksTypes
    <3>3. IsFiniteSet(Stray(d)') /\ Cardinality(Stray(d)') <= Cardinality(Stray(d))
      BY <2>2, <3>1, FS_Subset
    <3>4. Cardinality(Stray(d)') \in Nat
      BY <3>3, FS_CardinalityType
    <3> QED
      BY <2>2, <3>2, <3>3, <3>4
  <2> QED
    BY <2>3, <2>4
<1>15. SomeoneSoon'
  <2> SUFFICES ASSUME NEW d \in Checks, NEW g \in Loaded(d)'
               PROVE  \E x \in Outstanding' : x.check = d /\ (x \in sched' => Soon(x, g)')
    BY DEF SomeoneSoon
  <2>1. CASE d = c
    <3>1. g \in EventsOf(c) /\ nextExecution'[g] # Never
      BY <2>1 DEF Loaded, EventsOf
    <3>2. g \in GlobalEvents
      BY <1>9, <3>1
    <3>3. g \in found
      BY <1>2, <3>1, <3>2 DEF ChecksInv, ChecksTypes
    <3>4. new \in Outstanding'
      BY <1>10, <3>3
    <3>5. clock + First \in Nat
      BY DEF ChecksInv, ChecksTypes, ScriptEventsAssumption
    <3>6. PICK x : x = new
      OBVIOUS
    <3>7. Soon(x, g)'
      BY <1>2, <1>6, <3>5, <3>6 DEF Soon
    <3> QED
      BY <1>6, <2>1, <3>4, <3>6, <3>7
  <2>2. CASE d # c
    <3>1. g \in EventsOf(d) /\ nextExecution'[g] # Never
      BY DEF Loaded, EventsOf
    <3>2. g \notin EventsOf(c) /\ g \in GlobalEvents
      BY <2>2, <3>1 DEF EventsOf, Checks, GlobalEvents, ScriptEventsAssumption
    <3>3. nextExecution'[g] = nextExecution[g]
      BY <1>2, <3>2 DEF ChecksInv, ChecksTypes
    <3>4. PICK x \in Outstanding : x.check = d /\ (x \in sched => Soon(x, g))
      BY <3>1, <3>3 DEF ChecksInv, SomeoneSoon, Loaded
    <3>5. x \in Outstanding' /\ (x \in sched' => x \in sched)
      BY <1>2, <1>4, <1>6, <1>10, <2>2, <3>4 DEF ChecksInv, IdsDiffer, Outstanding
    <3> QED
      BY <1>2, <3>3, <3>4, <3>5 DEF Soon
  <2> QED
    BY <2>1, <2>2
<1> QED
  BY <1>12, <1>13, <1>14, <1>15 DEF ChecksInv

(* A check goes on with a new one, which takes the place of the chain: if  *)
(* it was a stray one itself, the chain's becomes the stray one.  It comes *)
(* after the shortest of the delays, so in time for every event.           *)
LEMMA CheckKeeps ==
  ASSUME ScriptEventsAssumption, ChecksInv, NEW t \in tasks, NEW failing \in SUBSET EventsOf(t.check), Check(t, failing)
  PROVE  ChecksInv'
<1> DEFINE c == t.check
<1> DEFINE due == {g \in Loaded(c) : nextExecution[g] <= clock}
<1> DEFINE out == IF c = "timer" THEN failing ELSE {}
<1> DEFINE delays == {nextExecution[g] - clock : g \in Loaded(c) \ due} \union {Interval[g] : g \in due \ out}
<1> DEFINE id == FreshId
<1> DEFINE next == clock + Min(delays)
<1> DEFINE new == [id |-> id, check |-> c, due |-> next]
<1> DEFINE more == IF delays = {} THEN {} ELSE {new}
<1>1. c \in Checks /\ t \in Outstanding /\ t.id \in 1 .. MaxIds /\ t \notin sched
  BY DEF ChecksInv, ChecksTypes, CheckRecords, Outstanding
<1>2. /\ clock' = clock /\ late' = late /\ tasks' = tasks \ {t} /\ out \subseteq due
      /\ nextExecution' = [g \in DOMAIN nextExecution |-> IF g \in out THEN Never
                                                ELSE IF g \in due THEN nextExecution[g] + Interval[g] ELSE nextExecution[g]]
      /\ sched' = sched \union more
      /\ chain' = IF delays = {} THEN chain ELSE [chain EXCEPT ![c] = id]
  BY DEF Check
<1>3. delays # {} => id \in 1 .. MaxIds /\ id \notin Used
  BY IdIsFresh DEF ChecksInv, Check
<1>4. Loaded(c) \subseteq GlobalEvents /\ \A g \in Loaded(c) : nextExecution[g] \in Nat
  BY DEF Loaded, EventsOf, GlobalEvents, ChecksInv, ChecksTypes, When
<1>5. Interval \in [GlobalEvents -> Nat \ {0}] /\ clock \in Nat
  BY DEF ScriptEventsAssumption, GlobalEvents, ChecksInv, ChecksTypes
<1>6. delays \subseteq Nat
  BY <1>4, <1>5
<1>7. delays # {} => next \in Nat /\ \A n \in delays : next <= clock + n
  <2> SUFFICES ASSUME delays # {}
               PROVE  next \in Nat /\ \A n \in delays : next <= clock + n
    OBVIOUS
  <2> HIDE DEF delays
  <2>1. Min(delays) \in delays /\ \A n \in delays : Min(delays) <= n
    BY <1>6, Least DEF Min
  <2> DEFINE m == Min(delays)
  <2>2. m \in Nat
    BY <1>6, <2>1
  <2>3. next = clock + m /\ \A n \in delays : n \in Nat /\ m <= n
    BY <1>6, <2>1
  <2> HIDE DEF next, m
  <2> QED
    BY <1>5, <2>2, <2>3
<1>8. new.id = id /\ new.check = c /\ new.due = next
  OBVIOUS
<1>9. \A g \in Loaded(c) \ due : nextExecution[g] - clock \in delays
  OBVIOUS
<1>10. \A g \in due \ out : Interval[g] \in delays
  OBVIOUS
<1>11. delays = {} => due \subseteq out /\ Loaded(c) \subseteq due
  BY <1>9, <1>10
<1>12. due \subseteq Loaded(c)
  OBVIOUS
<1>13. delays # {} => \A x \in Outstanding : x.id # id
  BY <1>3 DEF Used, Outstanding
<1>14. delays # {} => \A d \in Checks : chain[d] # id
  BY <1>3 DEF Used
<1> HIDE DEF due, out, delays, id, next, new
<1>15. Outstanding' = (Outstanding \ {t}) \union more
  BY <1>1, <1>2 DEF Outstanding
<1>16. ChecksTypes'
  <2>1. nextExecution' \in [GlobalEvents -> When]
    <3>1. DOMAIN nextExecution = GlobalEvents
      BY DEF ChecksInv, ChecksTypes
    <3>2. \A g \in due : nextExecution[g] + Interval[g] \in Nat
      BY <1>4, <1>5, <1>12
    <3> QED
      BY <1>2, <3>1, <3>2 DEF ChecksInv, ChecksTypes, When
  <2>2. chain' \in [Checks -> 0 .. MaxIds]
    BY <1>1, <1>2, <1>3 DEF ChecksInv, ChecksTypes
  <2>3. delays # {} => new \in CheckRecords
    BY <1>1, <1>3, <1>7 DEF CheckRecords, new
  <2>4. sched' \subseteq CheckRecords /\ tasks' \subseteq CheckRecords
    BY <1>2, <2>3 DEF ChecksInv, ChecksTypes
  <2>5. sched' \intersect tasks' = {}
    BY <1>2, <1>8, <1>13 DEF ChecksInv, ChecksTypes, Outstanding
  <2>6. IsFiniteSet(sched \union {new}) /\ IsFiniteSet(tasks \ {t})
    BY FS_AddElement, FS_RemoveElement DEF ChecksInv, ChecksTypes
  <2>7. IsFiniteSet(sched') /\ IsFiniteSet(tasks')
    BY <1>2, <2>6 DEF ChecksInv, ChecksTypes
  <2> QED
    BY <1>2, <2>1, <2>2, <2>4, <2>5, <2>7 DEF ChecksInv, ChecksTypes
<1>17. \A d \in Checks : chain'[d] = IF delays # {} /\ d = c THEN id ELSE chain[d]
  BY <1>2 DEF ChecksInv, ChecksTypes
<1>18. IdsDiffer'
  <2>1. \A x, y \in Outstanding' : x.id = y.id => x = y
    BY <1>8, <1>13, <1>15 DEF ChecksInv, IdsDiffer
  <2>2. ASSUME NEW d \in Checks, NEW x \in Outstanding', x.id = chain'[d]
        PROVE  x.check = d
    BY <1>8, <1>13, <1>14, <1>15, <1>17, <2>2 DEF ChecksInv, IdsDiffer
  <2> QED
    BY <2>1, <2>2 DEF IdsDiffer
<1>19. FewStray'
  <2> SUFFICES ASSUME NEW d \in Checks
               PROVE  Cardinality(Stray(d)') <= late[d]
    BY <1>2 DEF FewStray
  <2>1. IsFiniteSet(Stray(d)) /\ Cardinality(Stray(d)) \in Nat /\ late[d] \in Nat /\ Cardinality(Stray(d)) <= late[d]
    BY StrayFinite DEF ChecksInv, ChecksTypes, FewStray
  <2>2. CASE Stray(d)' \subseteq Stray(d)
    <3>1. IsFiniteSet(Stray(d)') /\ Cardinality(Stray(d)') <= Cardinality(Stray(d))
      BY <2>1, <2>2, FS_Subset
    <3>2. Cardinality(Stray(d)') \in Nat
      BY <3>1, FS_CardinalityType
    <3> QED
      BY <2>1, <3>1, <3>2
  <2>3. CASE ~(Stray(d)' \subseteq Stray(d))
    <3>1. d = c /\ delays # {}
      BY <1>8, <1>15, <1>17, <2>3 DEF Stray
    <3>2. t.id # chain[c]
      BY <1>1, <1>8, <1>15, <1>17, <2>3, <3>1 DEF Stray, ChecksInv, IdsDiffer
    <3>3. t \in Stray(d)
      BY <1>1, <3>1, <3>2 DEF Stray
    <3>4. IsFiniteSet(Stray(d) \ {t}) /\ Cardinality(Stray(d) \ {t}) = Cardinality(Stray(d)) - 1
      BY <2>1, <3>3, FS_RemoveElement
    <3>5. \A x \in Stray(d)' \ (Stray(d) \ {t}) : x \in Outstanding /\ x.id = chain[d]
      BY <1>8, <1>15, <1>17, <3>1 DEF Stray
    <3>6. \A x, y \in Stray(d)' \ (Stray(d) \ {t}) : x = y
      BY <3>5 DEF ChecksInv, IdsDiffer
    <3>7. IsFiniteSet(Stray(d)') /\ Cardinality(Stray(d)') <= Cardinality(Stray(d) \ {t}) + 1
      BY <3>4, <3>6, OneMore
    <3>8. Cardinality(Stray(d)') \in Nat
      BY <3>7, FS_CardinalityType
    <3> QED
      BY <2>1, <3>4, <3>7, <3>8
  <2> QED
    BY <2>2, <2>3
<1>20. SomeoneSoon'
  <2> SUFFICES ASSUME NEW d \in Checks, NEW g \in Loaded(d)'
               PROVE  \E x \in Outstanding' : x.check = d /\ (x \in sched' => Soon(x, g)')
    BY DEF SomeoneSoon
  <2>1. g \in EventsOf(d) /\ nextExecution'[g] # Never /\ g \in GlobalEvents
    BY DEF Loaded, EventsOf, GlobalEvents
  <2>2. nextExecution'[g] = IF g \in out THEN Never
                       ELSE IF g \in due THEN nextExecution[g] + Interval[g] ELSE nextExecution[g]
    BY <1>2, <2>1 DEF ChecksInv, ChecksTypes
  <2>3. g \notin out
    BY <2>1, <2>2
  <2>4. CASE d = c
    <3>1. g \in Loaded(c)
      BY <1>12, <2>1, <2>2, <2>3, <2>4 DEF Loaded
    <3>2. delays # {}
      BY <1>11, <2>3, <3>1
    <3>3. next <= nextExecution'[g] \/ next <= clock + Interval[g]
      <4>1. CASE g \in due
        BY <1>7, <1>10, <2>3, <3>2, <4>1
      <4>2. CASE g \notin due
        <5>1. next <= clock + (nextExecution[g] - clock)
          BY <1>7, <1>9, <3>1, <3>2, <4>2
        <5>2. next \in Nat /\ nextExecution[g] \in Nat
          BY <1>4, <1>7, <3>1, <3>2
        <5> QED
          BY <1>5, <2>2, <2>3, <4>2, <5>1, <5>2
      <4> QED
        BY <4>1, <4>2
    <3>4. PICK x : x = new
      OBVIOUS
    <3>5. x \in Outstanding'
      BY <1>15, <3>2, <3>4
    <3>6. Soon(x, g)'
      BY <1>2, <1>8, <3>3, <3>4 DEF Soon
    <3> QED
      BY <1>8, <2>4, <3>4, <3>5, <3>6
  <2>5. CASE d # c
    <3>1. g \notin due
      BY <1>12, <2>1, <2>5, <1>1 DEF Loaded, EventsOf, Checks, ScriptEventsAssumption
    <3>2. nextExecution'[g] = nextExecution[g]
      BY <2>2, <2>3, <3>1
    <3>3. PICK x \in Outstanding : x.check = d /\ (x \in sched => Soon(x, g))
      BY <2>1, <3>2 DEF ChecksInv, SomeoneSoon, Loaded
    <3>4. x \in Outstanding' /\ (x \in sched' => x \in sched)
      BY <1>2, <1>8, <1>15, <2>5, <3>3
    <3> QED
      BY <1>2, <3>2, <3>3, <3>4 DEF Soon
  <2> QED
    BY <2>4, <2>5
<1> QED
  BY <1>16, <1>18, <1>19, <1>20 DEF ChecksInv

(* Kept by every step.                                                     *)
LEMMA ChecksKept ==
  ASSUME ScriptEventsAssumption, ChecksInv, [EventsNext]_(eventVars)
  PROVE  ChecksInv'
<1>1. CASE UNCHANGED globalVars
  <2>1. UNCHANGED <<clock, nextExecution, chain, sched, tasks, late>>
    BY <1>1 DEF globalVars
  <2>2. Outstanding' = Outstanding /\ \A c \in Checks : Stray(c)' = Stray(c) /\ Loaded(c)' = Loaded(c)
    BY <2>1 DEF Outstanding, Stray, Loaded
  <2> QED
    BY <2>1, <2>2 DEF ChecksInv, ChecksTypes, IdsDiffer, FewStray, SomeoneSoon, Soon
<1> QED
  BY <1>1, ReloadKeeps, HandOverKeeps, CheckKeeps, TickKeeps
  DEF EventsNext, TimerNext, RegisterNext, GlobalNext, eventVars, Reload, registerCreatureEvent,
      unregisterCreatureEvent, addEvent, TimerDue, stopEvent, executeTimerEvent

(* And it is what is promised of the checks.                               *)
LEMMA ChecksSafe ==
  ASSUME ScriptEventsAssumption, ChecksInv
  PROVE  ChecksGoOn
<1> SUFFICES ASSUME NEW c \in Checks
             PROVE  LET pending == {x \in Outstanding : x.check = c} IN
                    /\ Loaded(c) # {} => pending # {}
                    /\ Cardinality(pending) <= 1 + late[c]
                    /\ \A g \in Loaded(c) :
                         \E x \in pending : x \in sched =>
                           x.due <= Max({clock + First, nextExecution[g], clock + Interval[g]})
  BY DEF ChecksGoOn, Outstanding
<1> DEFINE pending == {x \in Outstanding : x.check = c}
<1>1. Loaded(c) # {} => pending # {}
  BY DEF ChecksInv, SomeoneSoon
<1>2. Cardinality(pending) <= 1 + late[c]
  <2>2. IsFiniteSet(Stray(c)) /\ Cardinality(Stray(c)) \in Nat /\ late[c] \in Nat /\ Cardinality(Stray(c)) <= late[c]
    BY StrayFinite DEF ChecksInv, ChecksTypes, FewStray
  <2>3. \A x, y \in pending \ Stray(c) : x = y
    BY DEF ChecksInv, IdsDiffer, Stray
  <2>4. IsFiniteSet(pending) /\ Cardinality(pending) <= Cardinality(Stray(c)) + 1
    BY <2>2, <2>3, OneMore
  <2>5. Cardinality(pending) \in Nat
    BY <2>4, FS_CardinalityType
  <2> QED
    BY <2>2, <2>4, <2>5
<1>3. ASSUME NEW g \in Loaded(c)
      PROVE  \E x \in pending : x \in sched => x.due <= Max({clock + First, nextExecution[g], clock + Interval[g]})
  <2>1. PICK x \in Outstanding : x.check = c /\ (x \in sched => Soon(x, g))
    BY DEF ChecksInv, SomeoneSoon
  <2>2. clock + First \in Nat /\ nextExecution[g] \in Nat /\ clock + Interval[g] \in Nat /\ x.due \in Nat
    BY DEF ScriptEventsAssumption, ChecksInv, ChecksTypes, CheckRecords, Outstanding, When,
           Loaded, EventsOf, GlobalEvents
  <2> DEFINE S == {clock + First, nextExecution[g], clock + Interval[g]}
  <2>3. \E m \in S : \A y \in S : m >= y
    BY <2>2
  <2>4. Max(S) \in S /\ \A y \in S : Max(S) >= y
    BY <2>3 DEF Max
  <2>5. Soon(x, g) => x.due <= Max(S)
    BY <2>2, <2>4 DEF Soon
  <2> QED
    BY <2>1, <2>5
<1> QED
  BY <1>1, <1>2, <1>3

-----------------------------------------------------------------------------
(* Registrations: once for each event, and an event that is on the list has*)
(* a type, which it never changes.                                         *)
RegistrationsInv ==
  /\ known \in [EventNames -> [type : EventTypes \union {"none"}, loaded : BOOLEAN]]
  /\ \A n \in EventNames : known[n].type = "none" => known[n] = Absent /\ eventsList[n] = 0
  /\ eventsList \in [EventNames -> {0, 1}]
  /\ RegistrationsFound

(* Holds at the start, and is kept by every step of the registers.         *)
LEMMA RegistrationsStart == EventsInit => RegistrationsInv
  BY DEF EventsInit, RegistrationsInv, Absent, RegistrationsFound, getCreatureEvents

LEMMA RegistrationsKept ==
  ASSUME ScriptEventsAssumption, RegistrationsInv, [EventsNext]_eventVars
  PROVE  RegistrationsInv'
<1>1. CASE UNCHANGED registerVars
  BY <1>1 DEF RegistrationsInv, registerVars, RegistrationsFound, getCreatureEvents
<1>2. ASSUME NEW file \in [EventNames -> EventTypes \union {"none"}], Reload(file)
      PROVE  RegistrationsInv'
  <2>1. ASSUME NEW n \in EventNames
        PROVE  /\ Unloaded(known)[n] \in [type : EventTypes \union {"none"}, loaded : BOOLEAN]
               /\ Unloaded(known)[n].type = known[n].type
               /\ known[n].type = "none" => Unloaded(known)[n] = Absent
    BY DEF Unloaded, RegistrationsInv, Absent
  <2>2. ASSUME NEW n \in EventNames
        PROVE  /\ known'[n] \in [type : EventTypes \union {"none"}, loaded : BOOLEAN]
               /\ known[n].type # "none" => known'[n].type = known[n].type
               /\ known'[n].type = "none" => known'[n] = Absent
    <3> DEFINE k == Unloaded(known)[n]
    <3>1. k \in [type : EventTypes \union {"none"}, loaded : BOOLEAN] /\ k.type = known[n].type
          /\ (known[n].type = "none" => k = Absent)
      BY <2>1
    <3>2. known'[n] = IF file[n] = "none" THEN k
                      ELSE CASE k = Absent -> [type |-> file[n], loaded |-> TRUE]
                             [] k.type = file[n] -> [k EXCEPT !.loaded = TRUE]
                             [] OTHER -> k
      BY <1>2 DEF Reload, Registered
    <3> HIDE DEF k
    <3>3. file[n] \in EventTypes \union {"none"}
      OBVIOUS
    <3>4. CASE file[n] = "none"
      BY <3>1, <3>2, <3>4
    <3>5. CASE file[n] # "none" /\ k = Absent
      BY <3>1, <3>2, <3>3, <3>5 DEF Absent
    <3>6. CASE file[n] # "none" /\ k # Absent /\ k.type = file[n]
      BY <3>1, <3>2, <3>3, <3>6
    <3>7. CASE file[n] # "none" /\ k # Absent /\ k.type # file[n]
      BY <3>1, <3>2, <3>7
    <3> QED
      BY <3>4, <3>5, <3>6, <3>7
  <2>3. UNCHANGED <<eventsList, bits>> /\ known' = [n \in EventNames |-> known'[n]]
    BY <1>2 DEF Reload
  <2>4. \A n \in EventNames : known'[n].type = "none" => known[n].type = "none"
    BY <2>2 DEF RegistrationsInv
  <2>5. \A n \in EventNames : eventsList[n] > 0 => known'[n].type = known[n].type
    BY <2>2 DEF RegistrationsInv
  <2>6. RegistrationsFound'
    BY <2>3, <2>5 DEF RegistrationsInv, RegistrationsFound, getCreatureEvents
  <2>7. known' \in [EventNames -> [type : EventTypes \union {"none"}, loaded : BOOLEAN]]
    BY <2>2, <2>3
  <2> QED
    BY <2>2, <2>3, <2>4, <2>6, <2>7 DEF RegistrationsInv
<1>3. ASSUME NEW n \in EventNames, registerCreatureEvent(n)
      PROVE  RegistrationsInv'
  <2>1. known[n].type # "none"
    BY <1>3 DEF registerCreatureEvent, RegistrationsInv, Absent
  <2>2. eventsList[n] = 0
    BY <1>3 DEF registerCreatureEvent, RegistrationsInv, RegistrationsFound
  <2>3. /\ known' = known /\ bits' = bits \union {known[n].type}
        /\ eventsList' = [eventsList EXCEPT ![n] = 1]
    BY <1>3, <2>2 DEF registerCreatureEvent
  <2>4. bits' = {known'[m].type : m \in {l \in EventNames : eventsList'[l] > 0}}
    BY <2>2, <2>3 DEF RegistrationsInv, RegistrationsFound
  <2>5. \A m \in EventNames : eventsList'[m] > 0 => getCreatureEvents(known[m].type)'[m] = 1
    BY <2>3, <2>4 DEF RegistrationsInv, getCreatureEvents
  <2> QED
    BY <2>1, <2>3, <2>4, <2>5 DEF RegistrationsInv, RegistrationsFound
<1>4. ASSUME NEW n \in EventNames, unregisterCreatureEvent(n)
      PROVE  RegistrationsInv'
  <2>1. /\ known' = known
        /\ eventsList' = [eventsList EXCEPT ![n] = 0]
        /\ bits' = IF \E m \in EventNames : eventsList'[m] > 0 /\ known[m].type = known[n].type
                   THEN bits ELSE bits \ {known[n].type}
    BY <1>4 DEF unregisterCreatureEvent
  <2>2. bits' = {known'[m].type : m \in {l \in EventNames : eventsList'[l] > 0}}
    BY <2>1 DEF RegistrationsInv, RegistrationsFound
  <2>3. \A m \in EventNames : eventsList'[m] > 0 => getCreatureEvents(known[m].type)'[m] = 1
    BY <2>1, <2>2 DEF RegistrationsInv, getCreatureEvents
  <2> QED
    BY <2>1, <2>2, <2>3 DEF RegistrationsInv, RegistrationsFound
<1> QED
  BY <1>1, <1>2, <1>3, <1>4
  DEF EventsNext, TimerNext, RegisterNext, GlobalNext, eventVars, ReloadGlobal, HandOver, Check, Tick,
      addEvent, TimerDue, stopEvent, executeTimerEvent

(* Whatever is loaded, registered, reloaded and stopped in whatever order, *)
(* registrations are found, dates met once, checks go on and timers run or *)
(* are released once (creatureevent.cpp, globalevent.cpp, luascript.cpp).  *)
THEOREM EventsAlwaysSound ==
  ASSUME ScriptEventsAssumption
  PROVE  EventsSpec => []EventsSound
<1> DEFINE Inv == TimersInv /\ DatesInv /\ ChecksInv /\ RegistrationsInv
<1>1. EventsInit => Inv
  BY TimersStart, DatesStart, ChecksStart, RegistrationsStart
<1>2. Inv /\ [EventsNext]_eventVars => Inv'
  BY TimersKept, DatesKept, ChecksKept, RegistrationsKept
<1>3. TimersInv => TimersSettled
  BY DEF TimersInv, TimersSettled
<1>4. Inv => EventsSound
  BY <1>3, ChecksSafe DEF EventsSound, DatesInv, RegistrationsInv
<1> QED
  BY <1>1, <1>2, <1>4, PTL DEF EventsSpec

-----------------------------------------------------------------------------
(* Raids.                                                                  *)
CONSTANTS RaidNames, Repeats, RaidEvents, MaxReloads, NoRaid
VARIABLE raids

R == INSTANCE Raids WITH Names <- RaidNames, Events <- RaidEvents

(* What was deleted is of an earlier loading and awaits nothing; a raid    *)
(* that is neither awaited nor deleted begins with its first event; and    *)
(* until one is forgotten, nothing but the running raid is awaited, once.  *)
Raiding ==
  [list : SUBSET R!Objects, generation : 0 .. MaxReloads, running : R!Objects \union {NoRaid},
   deleted : SUBSET R!Objects, next : [R!Objects -> Nat], pending : SUBSET R!Objects,
   strays : [R!Objects -> Nat], forgotten : BOOLEAN]

RaidsWaiting(r) ==
  /\ r.list \intersect r.deleted = {}
  /\ r.pending \intersect r.deleted = {}
  /\ \A o \in R!Objects : r.next[o] # 0 => o \in r.pending \union r.deleted \/ r.strays[o] > 0
  /\ ~r.forgotten => r.pending \subseteq {r.running} /\ \A o \in R!Objects : r.strays[o] = 0

RaidsInv ==
  /\ raids \in Raiding
  /\ raids.list \subseteq R!Loading(raids.generation)
  /\ \A o \in raids.deleted : o[2] <= raids.generation
  /\ RaidsWaiting(raids)

(* t differs from s in what runs, what is awaited, and which event is next.*)
SameList(s, t) ==
  /\ t.list = s.list /\ t.generation = s.generation /\ t.deleted = s.deleted
  /\ t.forgotten = s.forgotten

(* Holds at the start.                                                     *)
LEMMA RaidsStart == R!RaidsAssumption /\ R!Init => RaidsInv
  BY DEF R!Init, RaidsInv, RaidsWaiting, Raiding, R!Objects, R!Loading, R!RaidsAssumption

(* An event that is added is the one that is named, and what was named     *)
(* before is a stray.                                                      *)
LEMMA RaidAdds ==
  ASSUME NEW s \in Raiding, NEW o \in R!Objects
  PROVE  /\ R!AddEvent(s, o) \in Raiding /\ SameList(s, R!AddEvent(s, o))
         /\ R!AddEvent(s, o).running = s.running /\ R!AddEvent(s, o).next = s.next
         /\ R!AddEvent(s, o).pending = s.pending \union {o}
         /\ \A x \in R!Objects \ {o} : R!AddEvent(s, o).strays[x] = s.strays[x]
         /\ R!AddEvent(s, o).strays[o] = IF o \in s.pending THEN s.strays[o] + 1 ELSE s.strays[o]
<1> DEFINE n == IF o \in s.pending THEN s.strays[o] + 1 ELSE s.strays[o]
           p == s.pending \union {o}
           f == [s.strays EXCEPT ![o] = n]
<1>1. p \in SUBSET R!Objects /\ f \in [R!Objects -> Nat] /\ f[o] = n
      /\ \A x \in R!Objects \ {o} : f[x] = s.strays[x]
  BY DEF Raiding
<1>2. R!AddEvent(s, o) = [[s EXCEPT !.pending = p] EXCEPT !.strays = f]
  BY DEF R!AddEvent, Raiding
<1> HIDE DEF p, f, n
<1>3. /\ R!AddEvent(s, o) \in Raiding /\ SameList(s, R!AddEvent(s, o))
      /\ R!AddEvent(s, o).running = s.running /\ R!AddEvent(s, o).next = s.next
      /\ R!AddEvent(s, o).pending = p /\ R!AddEvent(s, o).strays = f
  BY <1>1, <1>2 DEF Raiding, SameList
<1> QED
  BY <1>1, <1>3 DEF p, n

(* An event that fires is not pending any more; nextEvent counts it.       *)
AfterEvent(s, o, kind, n) == [R!Fired(s, o, kind) EXCEPT !.next[o] = n]

OneFewer(s, u, o, kind, n) ==
  /\ u \in Raiding /\ SameList(s, u) /\ u.running = s.running
  /\ u.pending = IF kind = "named" THEN s.pending \ {o} ELSE s.pending
  /\ u.next[o] = n /\ \A x \in R!Objects \ {o} : u.next[x] = s.next[x]
  /\ u.strays[o] = IF kind = "named" THEN s.strays[o] ELSE s.strays[o] - 1
  /\ \A x \in R!Objects \ {o} : u.strays[x] = s.strays[x]

LEMMA RaidFires ==
  ASSUME NEW s \in Raiding, NEW o \in R!Objects, NEW kind \in {"named", "stray"}, NEW n \in Nat,
         kind = "named" \/ s.strays[o] > 0
  PROVE  OneFewer(s, AfterEvent(s, o, kind, n), o, kind, n)
<1> DEFINE u == AfterEvent(s, o, kind, n)
           v == R!Fired(s, o, kind)
           f == [v.next EXCEPT ![o] = n]
<1>1. /\ v \in Raiding /\ SameList(s, v) /\ v.running = s.running /\ v.next = s.next
      /\ v.pending = IF kind = "named" THEN s.pending \ {o} ELSE s.pending
      /\ v.strays[o] = IF kind = "named" THEN s.strays[o] ELSE s.strays[o] - 1
      /\ \A x \in R!Objects \ {o} : v.strays[x] = s.strays[x]
  <2>1. CASE kind = "named"
    <3> DEFINE p == s.pending \ {o}
    <3>1. p \in SUBSET R!Objects /\ v = [s EXCEPT !.pending = p]
      BY <2>1 DEF Raiding, R!Fired
    <3> HIDE DEF p, v
    <3>2. v \in Raiding /\ SameList(s, v) /\ v.running = s.running /\ v.next = s.next
          /\ v.pending = p /\ v.strays = s.strays
      BY <3>1 DEF Raiding, SameList
    <3> QED
      BY <2>1, <3>2 DEF p
  <2>2. CASE kind # "named"
    <3> DEFINE g == [s.strays EXCEPT ![o] = s.strays[o] - 1]
    <3>1. /\ g \in [R!Objects -> Nat] /\ g[o] = s.strays[o] - 1
          /\ \A x \in R!Objects \ {o} : g[x] = s.strays[x]
          /\ v = [s EXCEPT !.strays = g]
      BY <2>2 DEF Raiding, R!Fired
    <3> HIDE DEF g, v
    <3>2. v \in Raiding /\ SameList(s, v) /\ v.running = s.running /\ v.next = s.next
          /\ v.pending = s.pending /\ v.strays = g
      BY <3>1 DEF Raiding, SameList
    <3> QED
      BY <2>2, <3>1, <3>2
  <2> QED
    BY <2>1, <2>2
<1> HIDE DEF v
<1>2. f \in [R!Objects -> Nat] /\ f[o] = n /\ \A x \in R!Objects \ {o} : f[x] = s.next[x]
  BY <1>1 DEF Raiding
<1>3. u = [v EXCEPT !.next = f]
  BY DEF AfterEvent, v
<1> HIDE DEF f, u
<1>4. /\ u \in Raiding /\ SameList(v, u) /\ u.running = v.running /\ u.next = f
      /\ u.pending = v.pending /\ u.strays = v.strays
  BY <1>1, <1>2, <1>3 DEF Raiding, SameList
<1> QED
  BY <1>1, <1>2, <1>4 DEF SameList, OneFewer, u

(* The end of a raid.                                                      *)
LEMMA RaidEnds ==
  ASSUME NEW s \in Raiding, NEW o \in R!Objects
  PROVE  LET u == R!ResetRaid(s, o)
         IN  /\ u \in Raiding /\ SameList(s, u) /\ u.running = NoRaid
             /\ u.pending = s.pending /\ u.strays = s.strays
             /\ u.next[o] = 0 /\ \A x \in R!Objects \ {o} : u.next[x] = s.next[x]
<1> DEFINE f == [s.next EXCEPT ![o] = 0]
           u == R!ResetRaid(s, o)
<1>1. f \in [R!Objects -> Nat] /\ f[o] = 0 /\ \A x \in R!Objects \ {o} : f[x] = s.next[x]
  BY DEF Raiding
<1>2. u = [[s EXCEPT !.next = f] EXCEPT !.running = NoRaid]
  BY DEF R!ResetRaid
<1> HIDE DEF f, u
<1>3. /\ u \in Raiding /\ SameList(s, u) /\ u.running = NoRaid
      /\ u.pending = s.pending /\ u.strays = s.strays /\ u.next = f
  BY <1>1, <1>2 DEF Raiding, SameList
<1> QED
  BY <1>1, <1>3 DEF u

(* The event of a raid is followed by its next one, or the raid ends.      *)
LEMMA RaidGoesOn ==
  ASSUME R!RaidsAssumption, RaidsInv, NEW o \in R!Objects, NEW kind \in {"named", "stray"},
         NEW succeeds \in BOOLEAN, R!ExecuteRaidEvent(o, kind, succeeds)
  PROVE  RaidsInv' /\ R!AloneUnlessForgotten
<1> DEFINE r == raids
           n == IF succeeds THEN r.next[o] + 1 ELSE r.next[o]
           u == AfterEvent(r, o, kind, n)
<1>1. /\ r \in Raiding /\ o \notin r.deleted /\ (kind = "named" \/ r.strays[o] > 0)
      /\ (kind = "named" => o \in r.pending)
  BY DEF RaidsInv, R!ExecuteRaidEvent
<1>2. n \in Nat
  BY <1>1 DEF Raiding
<1>3. /\ r' = R!AddEvent(u, o) \/ r' = R!ResetRaid(u, o)
  <2>1. [R!Fired(r, o, kind) EXCEPT !.next[o] = IF succeeds THEN @ + 1 ELSE @] = u
    BY <1>1 DEF R!Fired, Raiding, AfterEvent
  <2> QED
    BY <2>1 DEF R!ExecuteRaidEvent
<1>4. OneFewer(r, u, o, kind, n)
  <2> HIDE DEF r, n
  <2> QED
    BY <1>1, <1>2, RaidFires
<1> HIDE DEF n, u
<1>5. RaidsWaiting(r)
  BY DEF RaidsInv
<1>6. CASE r' = R!AddEvent(u, o)
  <2>1. /\ r' \in Raiding /\ SameList(r, r') /\ r'.running = r.running
        /\ r'.pending = r.pending \union {o}
        /\ \A x \in R!Objects \ {o} : r'.strays[x] = r.strays[x] /\ r'.next[x] = r.next[x]
        /\ r'.strays[o] = IF kind = "named" \/ o \in r.pending THEN r.strays[o] ELSE r.strays[o] - 1
    BY <1>1, <1>4, <1>6, RaidAdds DEF SameList, Raiding, OneFewer
  <2>2. RaidsWaiting(r')
    BY <1>1, <1>5, <2>1 DEF RaidsWaiting, SameList, Raiding
  <2>3. R!Alone(r) => R!Alone(r')
    BY <1>1, <2>1 DEF R!Alone, Raiding
  <2> QED
    BY <2>1, <2>2, <2>3 DEF RaidsInv, SameList, R!AloneUnlessForgotten
<1>7. CASE r' = R!ResetRaid(u, o)
  <2>1. /\ r' \in Raiding /\ SameList(r, r') /\ r'.running = NoRaid /\ r'.next[o] = 0
        /\ r'.pending = IF kind = "named" THEN r.pending \ {o} ELSE r.pending
        /\ \A x \in R!Objects \ {o} : r'.strays[x] = r.strays[x] /\ r'.next[x] = r.next[x]
        /\ r'.strays[o] = IF kind = "named" THEN r.strays[o] ELSE r.strays[o] - 1
    BY <1>4, <1>7, RaidEnds DEF SameList, OneFewer
  <2>2. RaidsWaiting(r')
    BY <1>1, <1>5, <2>1 DEF RaidsWaiting, SameList, Raiding
  <2>3. R!Alone(r) => R!Alone(r')
    BY <1>1, <2>1 DEF R!Alone, Raiding
  <2> QED
    BY <2>1, <2>2, <2>3 DEF RaidsInv, SameList, R!AloneUnlessForgotten
<1> QED
  BY <1>3, <1>6, <1>7

(* A raid starts where none is running, from its first event unless it is  *)
(* under way.                                                              *)
LEMMA RaidStarts ==
  ASSUME R!RaidsAssumption, RaidsInv, NEW o \in R!Objects, R!CheckRaids(o) \/ R!StartByScript(o)
  PROVE  RaidsInv' /\ R!AloneUnlessForgotten
<1> DEFINE r == raids
           v == [r EXCEPT !.running = o]
           w == R!StartRaid(r, o)
<1>1. r \in Raiding /\ r.running = NoRaid /\ o \in r.list /\ RaidsWaiting(r)
  BY DEF RaidsInv, R!CheckRaids, R!StartByScript
<1>2. /\ v \in Raiding /\ SameList(r, v) /\ v.running = o /\ v.next = r.next
      /\ v.pending = r.pending /\ v.strays = r.strays
  BY <1>1 DEF Raiding, SameList
<1>3. w = IF r.next[o] < RaidEvents[o[1]] THEN R!AddEvent(v, o) ELSE v
  BY DEF R!StartRaid, R!NameOf
<1>4. r' = w \/ r' = [w EXCEPT !.list = @ \ {o}]
  BY DEF R!CheckRaids, R!StartByScript
<1> HIDE DEF v, w
<1>5. /\ w \in Raiding /\ SameList(r, w) /\ w.running = o /\ w.next = r.next
      /\ \A x \in R!Objects \ {o} : w.strays[x] = r.strays[x]
      /\ \/ /\ w.pending = r.pending \union {o}
            /\ w.strays[o] = IF o \in r.pending THEN r.strays[o] + 1 ELSE r.strays[o]
         \/ /\ ~(r.next[o] < RaidEvents[o[1]])
            /\ w.pending = r.pending /\ w.strays[o] = r.strays[o]
  BY <1>2, <1>3, RaidAdds DEF SameList
<1>6. PICK L \in SUBSET r.list :
        /\ r' \in Raiding /\ r'.list = L /\ r'.generation = r.generation /\ r'.deleted = r.deleted
        /\ r'.forgotten = r.forgotten /\ r'.running = o /\ r'.next = r.next
        /\ r'.pending = w.pending /\ r'.strays = w.strays
  <2> DEFINE q == r.list \ {o}
  <2>1. q \in SUBSET R!Objects /\ q \in SUBSET r.list /\ (r' = w \/ r' = [w EXCEPT !.list = q])
    BY <1>1, <1>4, <1>5 DEF SameList, Raiding
  <2> HIDE DEF q
  <2> QED
    BY <1>5, <2>1 DEF SameList, Raiding
<1>7. o # NoRaid /\ r.next[o] \in Nat /\ RaidEvents[o[1]] \in Nat
  BY <1>1 DEF Raiding, R!RaidsAssumption, R!Objects
<1>8. NoRaid \notin r.pending
  BY <1>1 DEF Raiding, R!RaidsAssumption, R!Objects
<1>9. RaidsWaiting(r')
  BY <1>1, <1>5, <1>6, <1>8 DEF RaidsWaiting, Raiding
<1>10. RaidsInv'
  BY <1>6, <1>9 DEF RaidsInv
<1>11. R!AloneUnlessForgotten
  <2> SUFFICES ASSUME R!Alone(r), RaidEvents[o[1]] # 0
               PROVE  R!Alone(r')
    BY <1>6, <1>7 DEF R!AloneUnlessForgotten, R!NameOf
  <2>1. r.pending = {} /\ \A x \in R!Objects : r.strays[x] = 0
    BY <1>1 DEF R!Alone
  <2>2. r.next[o] = 0 /\ r.next[o] < RaidEvents[o[1]]
    <3>1. r.next[o] = 0
      BY <1>1, <2>1 DEF RaidsWaiting
    <3> QED
      BY <1>7, <3>1
  <2>3. r'.pending = {o} /\ r'.running = o
    BY <1>5, <1>6, <2>1, <2>2
  <2>4. \A x \in R!Objects : r'.strays[x] = 0
    BY <1>5, <1>6, <2>1, <2>2
  <2> QED
    BY <1>7, <2>3, <2>4 DEF R!Alone
<1> QED
  BY <1>10, <1>11

(* A reload deletes the raids of the list, and stops what they name.       *)
LEMMA RaidsReload ==
  ASSUME R!RaidsAssumption, RaidsInv, R!Reload
  PROVE  RaidsInv' /\ R!AloneUnlessForgotten
<1> DEFINE r == raids
           D == r.deleted \union r.list
           P == r.pending \ r.list
           left == R!Objects \ (r.list \union r.deleted)
           F == r.forgotten \/ \E o \in left : R!UnderWay(r, o)
<1>1. r \in Raiding /\ r.generation < MaxReloads /\ RaidsWaiting(r)
  BY DEF RaidsInv, R!Reload
<1>2. D \in SUBSET R!Objects /\ P \in SUBSET R!Objects /\ F \in BOOLEAN
  BY <1>1 DEF Raiding
<1>3. /\ R!Clear(r) \in Raiding /\ R!Clear(r).list = {} /\ R!Clear(r).generation = r.generation
      /\ R!Clear(r).running = NoRaid /\ R!Clear(r).deleted = D /\ R!Clear(r).next = r.next
      /\ R!Clear(r).pending = P /\ R!Clear(r).strays = r.strays
  <2> DEFINE p == [r EXCEPT !.pending = P]
             a == [p EXCEPT !.deleted = D]
  <2> HIDE DEF P, D
  <2>1. p \in Raiding /\ p.list = r.list /\ p.deleted = r.deleted /\ p.pending = P
        /\ p.generation = r.generation /\ p.next = r.next /\ p.strays = r.strays
    BY <1>1, <1>2 DEF Raiding
  <2>2. R!Clear(r) = R!DeletedOnly(p)
    BY DEF R!Clear, P
  <2>3. R!DeletedOnly(p) = [[a EXCEPT !.list = {}] EXCEPT !.running = NoRaid]
    BY <2>1 DEF R!DeletedOnly, D
  <2> HIDE DEF p
  <2>4. a \in Raiding /\ a.deleted = D /\ a.pending = P
        /\ a.generation = r.generation /\ a.next = r.next /\ a.strays = r.strays
    BY <1>2, <2>1 DEF Raiding
  <2> HIDE DEF a
  <2> QED
    BY <2>2, <2>3, <2>4, ZenonT(60) DEF Raiding
<1>4. r.generation \in Nat /\ r.generation + 1 \in 0 .. MaxReloads
  BY <1>1 DEF Raiding, R!RaidsAssumption
<1>5. R!Loading(r.generation + 1) \in SUBSET R!Objects
  BY <1>4 DEF R!Loading, R!Objects
<1>6. /\ r' \in Raiding /\ r'.list = R!Loading(r.generation + 1) /\ r'.generation = r.generation + 1
      /\ r'.running = NoRaid /\ r'.deleted = D /\ r'.next = r.next /\ r'.pending = P
      /\ r'.strays = r.strays /\ r'.forgotten = F
  <2> DEFINE c == R!Clear(r)
             L == R!Loading(r.generation + 1)
             g == r.generation + 1
  <2>1. r' = [[[c EXCEPT !.generation = g] EXCEPT !.list = L] EXCEPT !.forgotten = F]
    <3>1. c.forgotten = r.forgotten
      BY <1>1 DEF R!Clear, R!DeletedOnly, Raiding
    <3> QED
      BY <1>3, <3>1 DEF R!Reload
  <2>2. c \in Raiding /\ L \in SUBSET R!Objects /\ g \in 0 .. MaxReloads
    BY <1>3, <1>4, <1>5
  <2> HIDE DEF c, L, g, F, D, P
  <2>3. /\ r' \in Raiding /\ r'.list = L /\ r'.generation = g /\ r'.forgotten = F
        /\ r'.running = c.running /\ r'.deleted = c.deleted /\ r'.next = c.next
        /\ r'.pending = c.pending /\ r'.strays = c.strays
    BY <1>2, <2>1, <2>2 DEF Raiding
  <2> QED
    BY <1>3, <2>3 DEF c, L, g
<1>7. \A o \in R!Objects : o[2] \in Nat
  BY DEF R!Objects, R!RaidsAssumption
<1>8. \A o \in R!Loading(r.generation + 1) : o[2] = r.generation + 1
  BY DEF R!Loading
<1>9. \A o \in D : o[2] <= r.generation
  BY <1>4 DEF RaidsInv, R!Loading
<1>10. R!Loading(r.generation + 1) \intersect D = {}
  BY <1>4, <1>8, <1>9
<1>11. ~F => P = {} /\ \A o \in R!Objects : r.strays[o] = 0
  BY <1>1 DEF RaidsWaiting, R!UnderWay, Raiding
<1>12. RaidsWaiting(r')
  BY <1>1, <1>6, <1>10, <1>11 DEF RaidsWaiting, Raiding
<1>13. \A o \in D : o[2] <= r.generation + 1
  BY <1>2, <1>4, <1>7, <1>9
<1>14. RaidsInv'
  BY <1>6, <1>12, <1>13 DEF RaidsInv
<1>15. R!AloneUnlessForgotten
  BY <1>1, <1>4, <1>6 DEF R!AloneUnlessForgotten, R!Alone
<1> QED
  BY <1>14, <1>15

(* The event that a deleted raid names is not with the scheduler, others of*)
(* its events only after a reload forgot a raid that was under way off the *)
(* list; and there is one raid at a time, and one event of it, until such a*)
(* reload or until a raid without events starts (raids.cpp: startRaid,     *)
(* checkRaids, clear, resetRaid).                                          *)
THEOREM RaidsAlwaysSound ==
  ASSUME R!RaidsAssumption
  PROVE  R!Init /\ [][R!Next]_raids => []R!PendingExists /\ [][R!AloneUnlessForgotten]_raids
<1>1. R!Init => RaidsInv
  BY RaidsStart
<1>2. RaidsInv /\ [R!Next]_raids => RaidsInv' /\ [R!AloneUnlessForgotten]_raids
  BY RaidGoesOn, RaidStarts, RaidsReload DEF R!Next, RaidsInv
<1>3. RaidsInv => R!PendingExists
  BY DEF RaidsInv, RaidsWaiting, Raiding, R!PendingExists
<1> QED
  BY <1>1, <1>2, <1>3, PTL

-----------------------------------------------------------------------------
(* The steps of one monster.                                              *)
CONSTANTS Tiles, Changing, Width, Height, TargetDistance, AttackRange
VARIABLE monster

M == INSTANCE Steps

Near == (-1 .. 1) \X (-1 .. 1)

Monsters ==
  [pos : Tiles, target : Tiles, thing : [Tiles -> {"none", "wall", "teleport"}], cache : SUBSET M!Window,
   step : Near, slid : BOOLEAN, missed : SUBSET Tiles]

(* The cache of m tells the truth about the tile at offset d.              *)
Told(m, d) == d \in m.cache <=> M!QueryAdd(m, M!Plus(m.pos, d))

(* As the property has it, the tiles in S excepted.                        *)
ExactBut(m, S) ==
  \A d \in M!Window \ {M!Here} : m.slid \/ M!Plus(m.pos, d) \in m.missed \union S \/ Told(m, d)

Apart(m) == m \in Monsters /\ m.pos # m.target

MonsterInv == Apart(monster) /\ ExactBut(monster, {})

(* Offsets.                                                                *)
LEMMA Offsets ==
  ASSUME NEW p \in Int \X Int, NEW q \in Int \X Int, NEW d \in Int \X Int
  PROVE  /\ M!Plus(p, d) \in Int \X Int /\ M!Minus(p, q) \in Int \X Int
         /\ M!Plus(p, d) = q <=> d = M!Minus(q, p)
         /\ M!Plus(p, d) = p <=> d = M!Here
BY DEF M!Plus, M!Minus, M!Here

(* To look at everything leaves no doubt.                                  *)
LEMMA MapCacheExact ==
  ASSUME M!StepsAssumption, NEW m, Apart(m)
  PROVE  Apart(M!UpdateMapCache(m)) /\ ExactBut(M!UpdateMapCache(m), {})
<1> DEFINE C == {d \in M!Window : M!QueryAdd(m, M!Plus(m.pos, d))}
<1> HIDE DEF C
<1>1. M!UpdateMapCache(m) = [pos |-> m.pos, target |-> m.target, thing |-> m.thing, cache |-> C,
                              step |-> m.step, slid |-> FALSE, missed |-> {}]
  <2>1. M!UpdateMapCache(m) = [m EXCEPT !.cache = C, !.slid = FALSE, !.missed = {}]
    BY DEF M!UpdateMapCache, C
  <2> QED
    BY <2>1 DEF Apart, Monsters
<1>2. C \subseteq M!Window
  BY DEF C
<1>3. Apart(M!UpdateMapCache(m))
  BY <1>1, <1>2 DEF Apart, Monsters
<1>4. ASSUME NEW d \in M!Window
      PROVE  Told(M!UpdateMapCache(m), d)
  BY <1>1 DEF Told, C, M!QueryAdd
<1> QED
  BY <1>3, <1>4 DEF ExactBut

(* To look at a tile settles that tile, and no other.                      *)
LEMMA TileCacheExact ==
  ASSUME M!StepsAssumption, NEW m, Apart(m), NEW p \in Tiles
  PROVE  LET u == M!UpdateTileCache(m, p)
         IN  /\ Apart(u)
             /\ u.pos = m.pos /\ u.target = m.target /\ u.thing = m.thing
             /\ u.step = m.step /\ u.slid = m.slid /\ u.missed = m.missed
             /\ \A d \in M!Window :
                  IF M!Plus(m.pos, d) = p THEN Told(u, d) ELSE d \in u.cache <=> (d \in m.cache)
<1> DEFINE u == M!UpdateTileCache(m, p)
           e == M!Minus(p, m.pos)
<1>0. p \in Int \X Int /\ m.pos \in Int \X Int /\ M!Window \subseteq Int \X Int
  BY DEF M!StepsAssumption, Apart, Monsters, M!Window
<1>1. ASSUME NEW d \in M!Window
      PROVE  (M!Plus(m.pos, d) = p) = (d = e)
  BY <1>0, Offsets
<1> HIDE DEF e
<1>2. CASE e \notin M!Window
  <2>1. u = m
    BY <1>2 DEF M!UpdateTileCache, e
  <2> QED
    BY <2>1, <1>1, <1>2
<1>3. CASE e \in M!Window
  <2> DEFINE C == IF M!QueryAdd(m, p) THEN m.cache \union {e} ELSE m.cache \ {e}
  <2>1. u = [m EXCEPT !.cache = C]
    BY <1>3 DEF M!UpdateTileCache, e
  <2>2. C \subseteq M!Window
    BY <1>3 DEF Apart, Monsters
  <2>3. ASSUME NEW d \in M!Window
        PROVE  IF d = e THEN d \in C <=> M!QueryAdd(m, p) ELSE d \in C <=> (d \in m.cache)
    BY DEF M!QueryAdd
  <2> HIDE DEF C
  <2>4. u = [pos |-> m.pos, target |-> m.target, thing |-> m.thing, cache |-> C,
             step |-> m.step, slid |-> m.slid, missed |-> m.missed]
    BY <2>1 DEF Apart, Monsters
  <2> HIDE DEF u
  <2>5. Apart(u)
    BY <2>4, <2>2 DEF Apart, Monsters
  <2>6. M!QueryAdd(u, p) = M!QueryAdd(m, p)
    BY <2>4 DEF M!QueryAdd
  <2>7. ASSUME NEW d \in M!Window
        PROVE  IF M!Plus(m.pos, d) = p THEN Told(u, d) ELSE d \in u.cache <=> (d \in m.cache)
    BY <2>4, <2>6, <2>3, <1>1 DEF Told
  <2> QED
    BY <2>4, <2>5, <2>7 DEF u
<1> QED
  BY <1>2, <1>3

(* So a doubt about it is settled.                                         *)
LEMMA TileSettled ==
  ASSUME M!StepsAssumption, NEW m, Apart(m), NEW p \in Tiles, NEW S, ExactBut(m, S \union {p})
  PROVE  Apart(M!UpdateTileCache(m, p)) /\ ExactBut(M!UpdateTileCache(m, p), S)
<1> DEFINE u == M!UpdateTileCache(m, p)
<1>1. /\ Apart(u)
      /\ u.pos = m.pos /\ u.target = m.target /\ u.thing = m.thing
      /\ u.step = m.step /\ u.slid = m.slid /\ u.missed = m.missed
      /\ \A d \in M!Window :
           IF M!Plus(m.pos, d) = p THEN Told(u, d) ELSE d \in u.cache <=> (d \in m.cache)
  BY TileCacheExact
<1> HIDE DEF u
<1>2. ASSUME NEW d \in M!Window \ {M!Here}, ~u.slid, M!Plus(u.pos, d) \notin u.missed \union S, M!Plus(m.pos, d) # p
      PROVE  Told(u, d)
  <2>1. Told(m, d)
    BY <1>1, <1>2 DEF ExactBut
  <2> QED
    BY <2>1, <1>1, <1>2 DEF Told, M!QueryAdd
<1>3. ExactBut(u, S)
  BY <1>1, <1>2 DEF ExactBut
<1> QED
  BY <1>1, <1>3 DEF u

(* The cache moved along by d, which the tile at e is left alone by,       *)
(* copies what was known of it, or looks it up.                            *)
Carried(m, t, C, d, e) ==
  \/ (e \in C <=> M!QueryAdd(t, M!Plus(t.pos, e)))
  \/ M!Plus(e, d) \in M!Window /\ (e \in C <=> M!Plus(e, d) \in m.cache)

LEMMA CacheShifts ==
  ASSUME M!StepsAssumption, NEW m, NEW t, m.cache \subseteq M!Window, t.cache = m.cache,
         NEW d \in Near, d[2] # 1 \/ d[1] = 0, NEW e \in M!Window
  PROVE  Carried(m, t, M!ShiftColumns(t, M!ShiftRows(t, d[2]), d[1], d[2]), d, e)
<1> DEFINE x == d[1]
           y == d[2]
           B == M!ShiftRows(t, y)
           C == M!ShiftColumns(t, B, x, y)
           Q(f) == M!QueryAdd(t, M!Plus(t.pos, f))
<1> SUFFICES Carried(m, t, C, d, e)
  OBVIOUS
<1>1. x \in -1 .. 1 /\ y \in -1 .. 1 /\ e[1] \in -Width .. Width /\ e[2] \in -Height .. Height
      /\ e = <<e[1], e[2]>> /\ Width \in Nat \ {0} /\ Height \in Nat \ {0} /\ M!Plus(e, d) = <<e[1] + x, e[2] + y>>
  BY DEF Near, M!Window, M!StepsAssumption, M!Plus
<1>2. ASSUME NEW f \in M!Window, y # 0
      PROVE  IF f[2] = y * Height THEN f \in B <=> Q(f) ELSE f \in B <=> (<<f[1], f[2] + y>> \in m.cache)
  BY <1>2 DEF M!ShiftRows
<1>3. y = 0 => B = m.cache
  BY DEF M!ShiftRows
<1>4. x = 0 => C = B
  BY DEF M!ShiftColumns
<1>5. ASSUME x # 0
      PROVE  IF e[1] = x * Width THEN e \in C <=> Q(e)
             ELSE IF e[2] < M!Away(y) - Height THEN e \in C <=> (e \in B) ELSE e \in C <=> (<<e[1] + x, e[2]>> \in B)
  BY <1>5 DEF M!ShiftColumns
<1>6. M!Away(y) = IF y = 0 THEN 0 ELSE 1
  BY <1>1 DEF M!Away
<1>7. ASSUME NEW n \in -Width .. Width, NEW k \in -Height .. Height
      PROVE  <<n, k>> \in M!Window /\ <<n, k>>[1] = n /\ <<n, k>>[2] = k
  BY DEF M!Window
<1>8. /\ x = -1 => x * Width = -Width
      /\ x = 1 => x * Width = Width
      /\ y = -1 => y * Height = -Height
      /\ y = 1 => y * Height = Height
  BY <1>1
<1> HIDE DEF B, C, Q
<1>9. CASE x = 0
  <2>1. CASE y = 0
    BY <1>9, <2>1, <1>1, <1>3, <1>4 DEF Carried
  <2>2. CASE y # 0 /\ e[2] = y * Height
    BY <1>9, <2>2, <1>1, <1>2, <1>4 DEF Carried, Q
  <2>3. CASE y # 0 /\ e[2] # y * Height
    <3>1. e[2] + y \in -Height .. Height
      BY <2>3, <1>1, <1>8
    <3> QED
      BY <1>9, <2>3, <3>1, <1>1, <1>2, <1>4, <1>7 DEF Carried
  <2> QED
    BY <2>1, <2>2, <2>3
<1>10. CASE x # 0
  <2>1. y # 1
    BY <1>10
  <2>2. CASE e[1] = x * Width
    BY <1>10, <2>2, <1>5 DEF Carried, Q
  <2>3. CASE e[1] # x * Width
    <3>1. e[1] + x \in -Width .. Width
      BY <1>10, <2>3, <1>1, <1>8
    <3>2. CASE y = 0
      <4>1. e \in C <=> (<<e[1] + x, e[2]>> \in B)
        BY <1>10, <2>3, <1>1, <1>5, <1>6, <3>2
      <4> QED
        BY <4>1, <3>1, <3>2, <1>1, <1>3, <1>7 DEF Carried
    <3>3. CASE y = -1 /\ e[2] = -Height
      <4>1. e \in C <=> (e \in B)
        BY <1>10, <2>3, <1>1, <1>5, <1>6, <3>3
      <4>2. e \in B <=> Q(e)
        <5>1. y # 0 /\ e[2] = y * Height
          BY <1>8, <3>3
        <5> QED
          BY <1>2, <5>1
      <4> QED
        BY <4>1, <4>2 DEF Carried, Q
    <3>4. CASE y = -1 /\ e[2] # -Height
      <4> DEFINE f == <<e[1] + x, e[2]>>
      <4>0. f \in M!Window /\ f[1] = e[1] + x /\ f[2] = e[2] /\ e[2] - 1 \in -Height .. Height
        BY <1>1, <3>1, <3>4, <1>7
      <4> HIDE DEF f
      <4>1. e \in C <=> (f \in B)
        BY <1>10, <2>3, <1>1, <1>5, <1>6, <3>4 DEF f
      <4>2. f \in B <=> (<<e[1] + x, e[2] + y>> \in m.cache)
        BY <1>2, <1>8, <3>4, <4>0
      <4> QED
        BY <4>0, <4>1, <4>2, <3>1, <3>4, <1>1, <1>7 DEF Carried
    <3> QED
      BY <3>2, <3>3, <3>4, <2>1, <1>1
  <2> QED
    BY <2>2, <2>3
<1> QED
  BY <1>9, <1>10

(* The own move: all but the row it comes to when it goes south and aside. *)
LEMMA MoveExact ==
  ASSUME M!StepsAssumption, NEW m, Apart(m), ExactBut(m, {}), NEW d \in Near, d # M!Here,
         M!QueryAdd(m, M!Plus(m.pos, d))
  PROVE  Apart(M!Moved(m, d)) /\ ExactBut(M!Moved(m, d), {})
<1> DEFINE p == M!Plus(m.pos, d)
           s == m.slid \/ (d[2] = 1 /\ d[1] # 0)
           t == [m EXCEPT !.pos = M!Plus(@, d), !.slid = @ \/ (d[2] = 1 /\ d[1] # 0)]
           C == M!ShiftColumns(t, M!ShiftRows(t, d[2]), d[1], d[2])
           w == [t EXCEPT !.cache = C]
<1>0. m \in Monsters /\ m.pos # m.target
  BY DEF Apart
<1>1. p \in Tiles /\ p # m.target /\ s \in BOOLEAN
  <2>1. p \in Tiles /\ p # m.target
    BY DEF M!QueryAdd
  <2> QED
    BY <2>1, <1>0 DEF Monsters
<1>a. t = [m EXCEPT !.pos = p, !.slid = s]
  OBVIOUS
<1> HIDE DEF p, s, t
<1>2. t = [pos |-> p, target |-> m.target, thing |-> m.thing, cache |-> m.cache,
           step |-> m.step, slid |-> s, missed |-> m.missed]
  BY <1>0, <1>a DEF Monsters
<1>3. C \subseteq M!Window
  <2>1. m.cache \subseteq M!Window
    BY <1>0 DEF Monsters
  <2>2. M!ShiftRows(t, d[2]) \subseteq M!Window
    BY <2>1, <1>2 DEF M!ShiftRows
  <2> QED
    BY <2>2 DEF M!ShiftColumns
<1> HIDE DEF C
<1>4. w = [pos |-> p, target |-> m.target, thing |-> m.thing, cache |-> C,
           step |-> m.step, slid |-> s, missed |-> m.missed]
  BY <1>2
<1>5. Apart(w) /\ m.pos \in Tiles
  BY <1>0, <1>1, <1>3, <1>4 DEF Apart, Monsters
<1> HIDE DEF w
<1>6. ASSUME NEW e \in M!Window \ {M!Here}, ~s, M!Plus(p, e) \notin m.missed, M!Plus(p, e) # m.pos
      PROVE  Told(w, e)
  <2>0. /\ e \in Int \X Int /\ p \in Int \X Int /\ m.pos \in Int \X Int /\ M!Plus(e, d) \in Int \X Int
        /\ M!Plus(p, e) = M!Plus(m.pos, M!Plus(e, d))
    <3>1. e \in Int \X Int /\ d \in Int \X Int /\ m.pos \in Int \X Int /\ p \in Int \X Int
      BY <1>1, <1>5 DEF M!Window, Near, M!StepsAssumption
    <3> QED
      BY <3>1 DEF p, M!Plus
  <2>1. Carried(m, t, C, d, e)
    BY <1>0, <1>2, <1>6, CacheShifts DEF C, s, Monsters
  <2>2. M!Plus(p, e) # p /\ M!Plus(e, d) # M!Here
    BY <2>0, <1>6, Offsets
  <2>3. /\ M!QueryAdd(w, M!Plus(p, e)) <=> M!QueryAdd(t, M!Plus(p, e))
        /\ M!QueryAdd(w, M!Plus(p, e)) <=> M!QueryAdd(m, M!Plus(p, e))
    BY <1>2, <1>4, <1>6, <2>2 DEF M!QueryAdd
  <2>4. CASE e \in C <=> M!QueryAdd(t, M!Plus(t.pos, e))
    BY <2>3, <2>4, <1>2, <1>4 DEF Told
  <2>5. CASE M!Plus(e, d) \in M!Window /\ (e \in C <=> M!Plus(e, d) \in m.cache)
    <3>1. Told(m, M!Plus(e, d))
      BY <2>5, <2>2, <2>0, <1>6 DEF ExactBut, s
    <3> QED
      BY <3>1, <2>0, <2>3, <2>5, <1>4 DEF Told
  <2> QED
    BY <2>1, <2>4, <2>5 DEF Carried
<1>7. ExactBut(w, {} \union {m.pos})
  BY <1>4, <1>6 DEF ExactBut
<1>8. M!Moved(m, d) = M!UpdateTileCache(w, m.pos)
  BY DEF M!Moved, w, C, t
<1> QED
  BY <1>5, <1>7, <1>8, TileSettled

(* A step that the cache allows and that comes no nearer, unless there is  *)
(* no other for one who flees.                                             *)
Nearer(o, d) == M!Far(M!Plus(o, d)) < M!Far(o)
Back(o) == {d \in M!Directions : d[1] * o[1] + d[2] * o[2] >= 0 /\ ~Nearer(o, d)}
Wise(m, o, flee, d) ==
  /\ d \in Near /\ M!CanWalkTo(m, d)
  /\ Nearer(o, d) => flee /\ M!Free(m, Back(o)) = {}

LEMMA CornerWise ==
  ASSUME NEW m, NEW o \in Int \X Int, o # M!Here, M!Away(o[1]) = M!Away(o[2]), NEW flee \in BOOLEAN,
         NEW d \in M!StepFromCorner(m, <<M!Side(o[1]), M!Side(o[2])>>, flee)
  PROVE  Wise(m, o, flee, d)
<1> DEFINE a == M!Side(o[1])
           b == M!Side(o[2])
<1>1. a \in {-1, 1} /\ b \in {-1, 1} /\ o = <<o[1], o[2]>> /\ o[1] \in Int /\ o[2] \in Int
  BY DEF M!Side, M!Away, M!Here
<1> HIDE DEF a, b
<1>2. d \in {<<a, 0>>, <<0, b>>, <<a, b>>, <<-a, 0>>, <<0, -b>>} /\ M!CanWalkTo(m, d)
  BY DEF M!StepFromCorner, M!Free, a, b
<1>3. ~Nearer(o, d)
  BY <1>1, <1>2 DEF Nearer, M!Far, M!Plus, M!Away, M!Side, a, b
<1> QED
  BY <1>1, <1>2, <1>3 DEF Wise, Near

(* Of the sides and corners, or, fleeing, none of them.                    *)
LEMMA SideSteps ==
  ASSUME NEW m, NEW away, NEW low, NEW high, NEW off, NEW flee \in BOOLEAN,
         NEW d \in M!StepFromSide(m, away, low, high, off, flee)
  PROVE  LET five == {away, low, high, M!Plus(away, low), M!Plus(away, high)}
         IN  /\ M!CanWalkTo(m, d)
             /\ d \in five \/ (flee /\ d = M!Minus(M!Here, away) /\ \A e \in five : ~M!CanWalkTo(m, e))
BY DEF M!StepFromSide, M!Free

LEMMA SideWise ==
  ASSUME NEW m, NEW o \in Int \X Int, NEW flee \in BOOLEAN, NEW d,
         \/ /\ M!Away(o[2]) > M!Away(o[1])
            /\ d \in M!StepFromSide(m, <<0, M!Side(o[2])>>, M!West, M!East, o[1], flee)
         \/ /\ M!Away(o[1]) > M!Away(o[2])
            /\ d \in M!StepFromSide(m, <<M!Side(o[1]), 0>>, M!North, M!South, o[2], flee)
  PROVE  Wise(m, o, flee, d)
<1> DEFINE a == M!Side(o[1])
           b == M!Side(o[2])
<1>1. o = <<o[1], o[2]>> /\ o[1] \in Int /\ o[2] \in Int /\ a \in -1 .. 1 /\ b \in -1 .. 1
  BY DEF M!Side
<1> HIDE DEF a, b
<1>2. CASE M!Away(o[2]) > M!Away(o[1]) /\ d \in M!StepFromSide(m, <<0, b>>, M!West, M!East, o[1], flee)
  <2> DEFINE five == {<<0, b>>, <<-1, 0>>, <<1, 0>>, <<-1, b>>, <<1, b>>}
  <2>1. five = {<<0, b>>, M!West, M!East, M!Plus(<<0, b>>, M!West), M!Plus(<<0, b>>, M!East)}
        /\ M!Minus(M!Here, <<0, b>>) = <<0, -b>>
    BY <1>1 DEF M!West, M!East, M!Plus, M!Minus, M!Here
  <2>2. M!CanWalkTo(m, d) /\ (d \in five \/ (flee /\ d = <<0, -b>> /\ \A e \in five : ~M!CanWalkTo(m, e)))
    BY <1>2, <2>1, SideSteps
  <2>3. ASSUME NEW e \in five
        PROVE  e \in Near /\ ~Nearer(o, e)
    BY <1>1, <1>2 DEF Near, Nearer, M!Far, M!Plus, M!Away, M!Side, b
  <2>4. Back(o) \subseteq five
    <3> SUFFICES ASSUME NEW e \in M!Directions, e[1] * o[1] + e[2] * o[2] >= 0, e \notin five
                 PROVE  FALSE
      BY DEF Back
    <3>1. e = <<e[1], e[2]>> /\ e[1] \in {-1, 0, 1} /\ e[2] \in {-1, 0, 1} /\ e # <<0, 0>> /\ b \in {-1, 1}
      BY <1>1, <1>2 DEF M!Directions, M!Here, M!Away, M!Side, b
    <3>2. e[2] = -b
      BY <3>1
    <3>3. e[1] * o[1] \in {-o[1], 0, o[1]} /\ e[2] * o[2] = -M!Away(o[2])
      BY <1>1, <3>1, <3>2 DEF M!Away, M!Side, b
    <3> QED
      BY <1>1, <1>2, <3>3 DEF M!Away
  <2> QED
    BY <2>2, <2>3, <2>4, <1>1 DEF Wise, M!Free, Near
<1>3. CASE M!Away(o[1]) > M!Away(o[2]) /\ d \in M!StepFromSide(m, <<a, 0>>, M!North, M!South, o[2], flee)
  <2> DEFINE five == {<<a, 0>>, <<0, -1>>, <<0, 1>>, <<a, -1>>, <<a, 1>>}
  <2>1. five = {<<a, 0>>, M!North, M!South, M!Plus(<<a, 0>>, M!North), M!Plus(<<a, 0>>, M!South)}
        /\ M!Minus(M!Here, <<a, 0>>) = <<-a, 0>>
    BY <1>1 DEF M!North, M!South, M!Plus, M!Minus, M!Here
  <2>2. M!CanWalkTo(m, d) /\ (d \in five \/ (flee /\ d = <<-a, 0>> /\ \A e \in five : ~M!CanWalkTo(m, e)))
    BY <1>3, <2>1, SideSteps
  <2>3. ASSUME NEW e \in five
        PROVE  e \in Near /\ ~Nearer(o, e)
    BY <1>1, <1>3 DEF Near, Nearer, M!Far, M!Plus, M!Away, M!Side, a
  <2>4. Back(o) \subseteq five
    <3> SUFFICES ASSUME NEW e \in M!Directions, e[1] * o[1] + e[2] * o[2] >= 0, e \notin five
                 PROVE  FALSE
      BY DEF Back
    <3>1. e = <<e[1], e[2]>> /\ e[1] \in {-1, 0, 1} /\ e[2] \in {-1, 0, 1} /\ e # <<0, 0>> /\ a \in {-1, 1}
      BY <1>1, <1>3 DEF M!Directions, M!Here, M!Away, M!Side, a
    <3>2. e[1] = -a
      BY <3>1
    <3>3. e[2] * o[2] \in {-o[2], 0, o[2]} /\ e[1] * o[1] = -M!Away(o[1])
      BY <1>1, <3>1, <3>2 DEF M!Away, M!Side, a
    <3> QED
      BY <1>1, <1>3, <3>3 DEF M!Away
  <2> QED
    BY <2>2, <2>3, <2>4, <1>1 DEF Wise, M!Free, Near
<1> QED
  BY <1>2, <1>3 DEF a, b

LEMMA DistanceWise ==
  ASSUME M!StepsAssumption, NEW m, Apart(m), NEW sight \in BOOLEAN, NEW flee \in BOOLEAN,
         NEW d \in M!GetDistanceStep(m, sight, flee)
  PROVE  Wise(m, M!Minus(m.pos, m.target), flee, d)
<1> DEFINE o == M!Minus(m.pos, m.target)
<1>1. o \in Int \X Int /\ o # M!Here
  <2>1. m.pos \in Int \X Int /\ m.target \in Int \X Int /\ m.pos # m.target
    BY DEF Apart, Monsters, M!StepsAssumption
  <2> QED
    BY <2>1 DEF M!Minus, M!Here
<1> HIDE DEF o
<1>2. d \in M!DistanceStep(m, flee)
  BY DEF M!GetDistanceStep
<1>3. o[1] \in Int /\ o[2] \in Int /\ M!Away(o[1]) \in Int /\ M!Away(o[2]) \in Int
  BY <1>1 DEF M!Away
<1>4. CASE M!Away(o[1]) = M!Away(o[2])
  <2>1. d \in M!StepFromCorner(m, <<M!Side(o[1]), M!Side(o[2])>>, flee)
    BY <1>1, <1>2, <1>3, <1>4 DEF M!DistanceStep, o
  <2> QED
    BY <2>1, <1>1, <1>4, CornerWise DEF o
<1>5. CASE M!Away(o[2]) > M!Away(o[1])
  <2>1. d \in M!StepFromSide(m, <<0, M!Side(o[2])>>, M!West, M!East, o[1], flee)
    BY <1>1, <1>2, <1>3, <1>5 DEF M!DistanceStep, o
  <2> QED
    BY <2>1, <1>1, <1>5, SideWise DEF o
<1>6. CASE M!Away(o[1]) > M!Away(o[2])
  <2>1. d \in M!StepFromSide(m, <<M!Side(o[1]), 0>>, M!North, M!South, o[2], flee)
    BY <1>1, <1>2, <1>3, <1>6 DEF M!DistanceStep, o
  <2> QED
    BY <2>1, <1>1, <1>6, SideWise DEF o
<1> QED
  BY <1>3, <1>4, <1>5, <1>6

(* Holds at the start.                                                     *)
LEMMA MonsterStart == M!StepsAssumption /\ M!Init => MonsterInv
<1> SUFFICES ASSUME M!StepsAssumption, NEW p \in Tiles, NEW q \in Tiles, p # q,
                    monster = M!UpdateMapCache([pos |-> p, target |-> q, thing |-> [t \in Tiles |-> "none"],
                                                cache |-> {}, step |-> M!Here, slid |-> FALSE, missed |-> {}])
             PROVE  MonsterInv
  BY DEF M!Init
<1> DEFINE m == [pos |-> p, target |-> q, thing |-> [t \in Tiles |-> "none"],
                 cache |-> {}, step |-> M!Here, slid |-> FALSE, missed |-> {}]
<1>1. Apart(m)
  BY DEF Apart, Monsters, Near, M!Here
<1> HIDE DEF m
<1>2. monster = M!UpdateMapCache(m)
  BY DEF m
<1> QED
  BY <1>1, <1>2, MapCacheExact DEF MonsterInv

(* What is planned does not matter to what is known.                       *)
LEMMA StepPlanned ==
  ASSUME NEW m, Apart(m), ExactBut(m, {}), NEW d \in Near
  PROVE  Apart([m EXCEPT !.step = d]) /\ ExactBut([m EXCEPT !.step = d], {})
<1>1. [m EXCEPT !.step = d] = [pos |-> m.pos, target |-> m.target, thing |-> m.thing, cache |-> m.cache,
                               step |-> d, slid |-> m.slid, missed |-> m.missed]
  BY DEF Apart, Monsters
<1> HIDE DEF Apart
<1>2. Apart([m EXCEPT !.step = d])
  BY <1>1 DEF Apart, Monsters
<1> QED
  BY <1>1, <1>2 DEF ExactBut, Told, M!QueryAdd

(* One lemma for each action.                                              *)
LEMMA MonsterPlans == M!StepsAssumption /\ MonsterInv /\ M!GetNextStep => MonsterInv'
<1> SUFFICES ASSUME M!StepsAssumption, MonsterInv, NEW sight \in BOOLEAN, NEW flag \in BOOLEAN, NEW keep \in BOOLEAN,
                    NEW d \in M!GetDistanceStep(monster, sight, flag) \union M!GetDanceStep(monster, sight, flag, keep)
                                \union M!GetRandomStep(monster),
                    monster' = [monster EXCEPT !.step = d]
             PROVE  MonsterInv'
  BY DEF M!GetNextStep
<1>1. M!Straight \subseteq Near
  BY DEF M!Straight, M!North, M!South, M!West, M!East, Near
<1>2. d \in Near
  <2>1. CASE d \in M!GetDistanceStep(monster, sight, flag)
    BY <2>1, DistanceWise DEF MonsterInv, Wise
  <2>2. CASE d \in M!GetDanceStep(monster, sight, flag, keep) \union M!GetRandomStep(monster)
    BY <2>2, <1>1 DEF M!GetDanceStep, M!GetRandomStep, M!Free
  <2> QED
    BY <2>1, <2>2
<1> QED
  BY <1>2, StepPlanned DEF MonsterInv

LEMMA MonsterSteps == M!StepsAssumption /\ MonsterInv /\ M!Step => MonsterInv'
<1> SUFFICES ASSUME M!StepsAssumption, MonsterInv, M!Step
             PROVE  MonsterInv'
  OBVIOUS
<1> DEFINE blocked == ~M!QueryAdd(monster, M!Plus(monster.pos, monster.step))
           m == IF blocked THEN monster ELSE M!Moved(monster, monster.step)
<1>1. Apart(m) /\ ExactBut(m, {})
  <2>1. CASE blocked
    BY <2>1 DEF MonsterInv
  <2>2. CASE ~blocked
    <3>1. monster.step \in Near /\ monster.step # M!Here
      BY DEF MonsterInv, Apart, Monsters, M!Step
    <3> QED
      BY <2>2, <3>1, MoveExact DEF MonsterInv
  <2> QED
    BY <2>1, <2>2
<1>2. monster' = [m EXCEPT !.step = M!Here]
  BY DEF M!Step
<1> HIDE DEF m
<1>3. M!Here \in Near
  BY DEF M!Here, Near
<1> QED
  BY <1>1, <1>2, <1>3, StepPlanned DEF MonsterInv

LEMMA MonsterTeleported == M!StepsAssumption /\ MonsterInv /\ M!Teleported => MonsterInv'
<1> SUFFICES ASSUME M!StepsAssumption, MonsterInv, NEW p \in Tiles \ {monster.pos, monster.target},
                    monster' = [M!UpdateMapCache([monster EXCEPT !.pos = p]) EXCEPT !.step = M!Here]
             PROVE  MonsterInv'
  BY DEF M!Teleported
<1> DEFINE m == [monster EXCEPT !.pos = p]
<1>1. Apart(m)
  BY DEF MonsterInv, Apart, Monsters
<1> HIDE DEF m
<1>2. monster' = [M!UpdateMapCache(m) EXCEPT !.step = M!Here]
  BY DEF m
<1>3. M!Here \in Near
  BY DEF M!Here, Near
<1> QED
  BY <1>1, <1>2, <1>3, MapCacheExact, StepPlanned, ZenonT(60) DEF MonsterInv

LEMMA MonsterLosesSight == M!StepsAssumption /\ MonsterInv /\ M!TargetMoves => MonsterInv'
<1> SUFFICES ASSUME M!StepsAssumption, MonsterInv, NEW p \in Tiles \ {monster.pos, monster.target},
                    monster' = M!UpdateTileCache(M!UpdateTileCache([monster EXCEPT !.target = p], p), monster.target)
             PROVE  MonsterInv'
  BY DEF M!TargetMoves
<1> DEFINE q == monster.target
           m == [monster EXCEPT !.target = p]
<1>1. Apart(m) /\ q \in Tiles
  BY DEF MonsterInv, Apart, Monsters
<1>2. m.pos = monster.pos /\ m.target = p /\ m.thing = monster.thing /\ m.cache = monster.cache
      /\ m.slid = monster.slid /\ m.missed = monster.missed
  BY DEF MonsterInv, Apart, Monsters
<1> HIDE DEF m, q
<1>3. ExactBut(m, ({} \union {q}) \union {p})
  BY <1>2 DEF MonsterInv, ExactBut, Told, M!QueryAdd, q
<1> DEFINE u == M!UpdateTileCache(m, p)
<1>4. Apart(u) /\ ExactBut(u, {} \union {q})
  BY <1>1, <1>3, TileSettled
<1>5. monster' = M!UpdateTileCache(u, q)
  BY DEF m, q
<1> HIDE DEF u
<1> QED
  BY <1>1, <1>4, <1>5, TileSettled DEF MonsterInv

LEMMA MonsterSeesItem == M!StepsAssumption /\ MonsterInv /\ M!AddTileItem => MonsterInv'
<1> SUFFICES ASSUME M!StepsAssumption, MonsterInv, NEW p \in Changing \ {monster.pos, monster.target},
                    NEW k \in {"wall", "teleport"}, monster' = M!UpdateTileCache([monster EXCEPT !.thing[p] = k], p)
             PROVE  MonsterInv'
  BY DEF M!AddTileItem
<1> DEFINE m == [monster EXCEPT !.thing[p] = k]
<1>0. p \in Tiles
  BY DEF M!StepsAssumption
<1>1. m = [pos |-> monster.pos, target |-> monster.target, thing |-> [monster.thing EXCEPT ![p] = k],
           cache |-> monster.cache, step |-> monster.step, slid |-> monster.slid, missed |-> monster.missed]
  BY DEF MonsterInv, Apart, Monsters
<1> HIDE DEF m
<1>2. Apart(m)
  BY <1>0, <1>1 DEF MonsterInv, Apart, Monsters
<1>3. ExactBut(m, {} \union {p})
  <2>1. monster.thing \in [Tiles -> {"none", "wall", "teleport"}]
    BY DEF MonsterInv, Apart, Monsters
  <2> QED
    BY <1>1, <2>1 DEF MonsterInv, ExactBut, Told, M!QueryAdd
<1> QED
  BY <1>0, <1>2, <1>3, TileSettled DEF MonsterInv, m

LEMMA MonsterMissesItem == M!StepsAssumption /\ MonsterInv /\ M!RemoveTileItem => MonsterInv'
<1> SUFFICES ASSUME M!StepsAssumption, MonsterInv, NEW p \in Changing,
                    LET m == [monster EXCEPT !.thing[p] = "none"]
                    IN  monster' = IF monster.thing[p] = "wall" THEN M!UpdateTileCache(m, p)
                                   ELSE [m EXCEPT !.missed = @ \union {p}]
             PROVE  MonsterInv'
  BY DEF M!RemoveTileItem
<1> DEFINE m == [monster EXCEPT !.thing[p] = "none"]
<1>0. p \in Tiles
  BY DEF M!StepsAssumption
<1>1. m = [pos |-> monster.pos, target |-> monster.target, thing |-> [monster.thing EXCEPT ![p] = "none"],
           cache |-> monster.cache, step |-> monster.step, slid |-> monster.slid, missed |-> monster.missed]
  BY DEF MonsterInv, Apart, Monsters
<1>2. monster' = IF monster.thing[p] = "wall" THEN M!UpdateTileCache(m, p) ELSE [m EXCEPT !.missed = @ \union {p}]
  OBVIOUS
<1> HIDE DEF m
<1>3. Apart(m)
  BY <1>0, <1>1 DEF MonsterInv, Apart, Monsters
<1>4. ExactBut(m, {} \union {p})
  <2>1. monster.thing \in [Tiles -> {"none", "wall", "teleport"}]
    BY DEF MonsterInv, Apart, Monsters
  <2> QED
    BY <1>1, <2>1 DEF MonsterInv, ExactBut, Told, M!QueryAdd
<1>5. CASE monster.thing[p] = "wall"
  BY <1>0, <1>2, <1>3, <1>4, <1>5, TileSettled DEF MonsterInv
<1>6. CASE monster.thing[p] # "wall"
  <2> DEFINE S == m.missed \union {p}
           u == [m EXCEPT !.missed = S]
  <2> HIDE DEF S
  <2>1. u = [pos |-> m.pos, target |-> m.target, thing |-> m.thing, cache |-> m.cache,
             step |-> m.step, slid |-> m.slid, missed |-> S]
    BY <1>3 DEF Apart, Monsters
  <2> HIDE DEF u
  <2>2. Apart(u)
    BY <1>0, <1>3, <2>1 DEF Apart, Monsters, S
  <2>3. ExactBut(u, {})
    BY <1>4, <2>1 DEF ExactBut, Told, M!QueryAdd, S
  <2>4. monster' = u
    BY <1>2, <1>6 DEF u, S
  <2> QED
    BY <2>2, <2>3, <2>4 DEF MonsterInv
<1> QED
  BY <1>5, <1>6

(* What a monster thinks it may enter is so, but for what it is never told *)
(* of; it comes no nearer to what it keeps away from, unless it flees and  *)
(* can go neither back nor aside.                                          *)
THEOREM MonstersAlwaysSound ==
  ASSUME M!StepsAssumption
  PROVE  M!Init /\ [][M!Next]_monster => [](M!CacheExact /\ M!StepsSound)
<1>1. M!Init => MonsterInv
  BY MonsterStart
<1>2. MonsterInv /\ [M!Next]_monster => MonsterInv'
  <2>1. MonsterInv /\ UNCHANGED monster => MonsterInv'
    BY DEF MonsterInv
  <2> QED
    BY <2>1, MonsterPlans, MonsterSteps, MonsterTeleported, MonsterLosesSight, MonsterSeesItem, MonsterMissesItem DEF M!Next
<1>3. MonsterInv => M!CacheExact
  BY DEF MonsterInv, ExactBut, Told, M!CacheExact, M!QueryAdd
<1>4. MonsterInv => M!StepsSound
  <2> SUFFICES ASSUME MonsterInv, NEW flee \in BOOLEAN, NEW d \in M!GetDistanceStep(monster, TRUE, flee)
               PROVE  LET o == M!Minus(monster.pos, monster.target)
                      IN  /\ M!QueryAdd(monster, M!Plus(monster.pos, d))
                          /\ Nearer(o, d) => flee /\ M!Free(monster, Back(o)) = {}
    BY DEF M!StepsSound, Nearer, Back
  <2> QED
    BY DistanceWise DEF MonsterInv, Wise, M!CanWalkTo
<1> QED
  BY <1>1, <1>2, <1>3, <1>4, PTL

-----------------------------------------------------------------------------
(* Spectators: the quadtree and the caches.                                *)
CONSTANTS Seen, SeenPlayers, Places, Centers, FloorSize, View, NoPlace, NoLeaf
VARIABLE map

V == INSTANCE Spectators WITH Creatures <- Seen, Players <- SeenPlayers, Nowhere <- NoPlace

(* The links of m lead to the leaves that they should.                     *)
Linked(m) ==
  /\ m.leaves \subseteq Nat \X Nat /\ NoLeaf \notin Nat \X Nat
  /\ \A l \in m.leaves :
       m.south[l] = V!GetLeaf(m, <<l[1], l[2] + 1>>) /\ m.east[l] = V!GetLeaf(m, <<l[1] + 1, l[2]>>)

LedTo(m, i, j) ==
  V!GetLeaf(m, <<i, j>>) # NoLeaf =>
    /\ m.south[V!GetLeaf(m, <<i, j>>)] = V!GetLeaf(m, <<i, j + 1>>)
    /\ m.east[V!GetLeaf(m, <<i, j>>)] = V!GetLeaf(m, <<i + 1, j>>)

LEMMA LeafLinked ==
  ASSUME NEW m, Linked(m), NEW i \in Nat, NEW j \in Nat
  PROVE  LedTo(m, i, j)
<1> SUFFICES ASSUME V!GetLeaf(m, <<i, j>>) # NoLeaf
             PROVE  /\ m.south[V!GetLeaf(m, <<i, j>>)] = V!GetLeaf(m, <<i, j + 1>>)
                    /\ m.east[V!GetLeaf(m, <<i, j>>)] = V!GetLeaf(m, <<i + 1, j>>)
  BY DEF LedTo
<1>1. V!GetLeaf(m, <<i, j>>) = <<i, j>> /\ <<i, j>> \in m.leaves
  BY DEF V!GetLeaf
<1>2. <<i, j>>[1] = i /\ <<i, j>>[2] = j
  OBVIOUS
<1> QED
  BY <1>1, <1>2 DEF Linked

(* Two walks that begin alike and go on alike are alike.                   *)
Alike(r, w, lo, hi) ==
  /\ lo <= hi => r[lo] = w[lo]
  /\ \A j \in lo .. hi : j # lo /\ r[j - 1] = w[j - 1] => r[j] = w[j]

LEMMA AlikeAllAlong ==
  ASSUME NEW lo \in Nat, NEW hi \in Nat, NEW r, NEW w, Alike(r, w, lo, hi)
  PROVE  \A j \in lo .. hi : r[j] = w[j]
<1> DEFINE T == {j \in lo .. hi : r[j] # w[j]}
<1> SUFFICES ASSUME T # {} PROVE FALSE
  OBVIOUS
<1>1. T \in SUBSET Nat
  OBVIOUS
<1> HIDE DEF T
<1>2. PICK k \in T : \A j \in T : k <= j
  BY <1>1, Least
<1>3. k \in lo .. hi /\ r[k] # w[k] /\ k # lo
  BY DEF T, Alike
<1>4. k - 1 \in lo .. hi /\ ~(k <= k - 1)
  BY <1>3
<1>5. r[k - 1] = w[k - 1]
  BY <1>2, <1>4 DEF T
<1> QED
  BY <1>3, <1>5 DEF Alike

(* The walk that finds at (x, y), where it comes from (x - 1, y) or from   *)
(* (x, y - 1), is one that sees all.                                       *)
RowOf(m, a, b) ==
  CHOOSE row : row = [j \in a[2] .. b[2] |-> IF j = a[2] THEN V!GetLeaf(m, a)
                        ELSE IF row[j - 1] # NoLeaf THEN m.south[row[j - 1]] ELSE V!GetLeaf(m, <<a[1], j>>)]

Begun(m, a, b, row) == \A j \in a[2] .. b[2] : row[j] = V!GetLeaf(m, <<a[1], j>>)

LEMMA RowsFound ==
  ASSUME NEW m, Linked(m), NEW a \in Nat \X Nat, NEW b \in Nat \X Nat
  PROVE  Begun(m, a, b, RowOf(m, a, b))
<1> DEFINE lo == a[2]
           hi == b[2]
           w == [j \in lo .. hi |-> V!GetLeaf(m, <<a[1], j>>)]
           F(f) == [j \in lo .. hi |-> IF j = lo THEN V!GetLeaf(m, a)
                      ELSE IF f[j - 1] # NoLeaf THEN m.south[f[j - 1]] ELSE V!GetLeaf(m, <<a[1], j>>)]
           r == RowOf(m, a, b)
<1>0. lo \in Nat /\ hi \in Nat /\ a[1] \in Nat /\ a = <<a[1], a[2]>>
  OBVIOUS
<1>1. ASSUME NEW j \in lo .. hi, j # lo
      PROVE  IF w[j - 1] # NoLeaf THEN m.south[w[j - 1]] = w[j] ELSE V!GetLeaf(m, <<a[1], j>>) = w[j]
  <2>1. j - 1 \in Nat /\ j - 1 \in lo .. hi /\ (j - 1) + 1 = j
    BY <1>0, <1>1
  <2>2. w[j - 1] = V!GetLeaf(m, <<a[1], j - 1>>) /\ w[j] = V!GetLeaf(m, <<a[1], j>>)
    BY <2>1
  <2> DEFINE k == j - 1
  <2>3. k \in Nat /\ k + 1 = j /\ w[k] = V!GetLeaf(m, <<a[1], k>>)
    BY <2>1, <2>2
  <2> HIDE DEF w, k
  <2>4. LedTo(m, a[1], k)
    BY <1>0, <2>3, LeafLinked
  <2> QED
    BY <2>2, <2>3, <2>4 DEF k, LedTo
<1>2. w = F(w)
  BY <1>0, <1>1
<1>3. \E f : f = F(f)
  BY <1>2
<1>4. r = F(r)
  BY <1>3, Zenon DEF RowOf
<1> HIDE DEF r
<1>5. ASSUME NEW j \in lo .. hi
      PROVE  /\ r[j] = IF j = lo THEN V!GetLeaf(m, a)
                       ELSE IF r[j - 1] # NoLeaf THEN m.south[r[j - 1]] ELSE V!GetLeaf(m, <<a[1], j>>)
             /\ w[j] = V!GetLeaf(m, <<a[1], j>>)
  BY <1>4
<1> HIDE DEF w
<1>6. Alike(r, w, lo, hi)
  <2>1. lo <= hi => r[lo] = w[lo]
    <3> HAVE lo <= hi
    <3>1. lo \in lo .. hi
      BY <1>0
    <3>2. r[lo] = V!GetLeaf(m, a) /\ w[lo] = V!GetLeaf(m, <<a[1], lo>>)
      BY <3>1, <1>5
    <3> QED
      BY <1>0, <3>2
  <2>2. ASSUME NEW j \in lo .. hi, j # lo, r[j - 1] = w[j - 1]
        PROVE  r[j] = w[j]
    <3>1. r[j] = IF w[j - 1] # NoLeaf THEN m.south[w[j - 1]] ELSE V!GetLeaf(m, <<a[1], j>>)
      BY <1>5, <2>2
    <3> QED
      BY <3>1, <1>1, <2>2
  <2> QED
    BY <2>1, <2>2 DEF Alike
<1>7. \A j \in lo .. hi : r[j] = w[j]
  BY <1>0, <1>6, AlikeAllAlong
<1> QED
  BY <1>5, <1>7 DEF r, Begun

ColumnOf(m, a, b, row) ==
  CHOOSE column : column = [i \in a[1] .. b[1] |-> [j \in a[2] .. b[2] |->
    IF i = a[1] THEN row[j]
    ELSE IF column[i - 1][j] # NoLeaf THEN m.east[column[i - 1][j]] ELSE V!GetLeaf(m, <<i, j>>)]]

Found(m, a, b, column) == \A i \in a[1] .. b[1], j \in a[2] .. b[2] : column[i][j] = V!GetLeaf(m, <<i, j>>)

LEMMA ColumnsFound ==
  ASSUME NEW m, Linked(m), NEW a \in Nat \X Nat, NEW b \in Nat \X Nat, NEW row, Begun(m, a, b, row)
  PROVE  Found(m, a, b, ColumnOf(m, a, b, row))
<1> DEFINE lo == a[1]
           hi == b[1]
           Js == a[2] .. b[2]
           w == [i \in lo .. hi |-> [j \in Js |-> V!GetLeaf(m, <<i, j>>)]]
           F(f) == [i \in lo .. hi |-> [j \in Js |-> IF i = lo THEN row[j]
                      ELSE IF f[i - 1][j] # NoLeaf THEN m.east[f[i - 1][j]] ELSE V!GetLeaf(m, <<i, j>>)]]
           r == ColumnOf(m, a, b, row)
<1>0. lo \in Nat /\ hi \in Nat /\ Js \subseteq Nat
  OBVIOUS
<1>1. ASSUME NEW i \in lo .. hi, i # lo, NEW j \in Js
      PROVE  (IF w[i - 1][j] # NoLeaf THEN m.east[w[i - 1][j]] ELSE V!GetLeaf(m, <<i, j>>)) = V!GetLeaf(m, <<i, j>>)
  <2>1. i - 1 \in Nat /\ i - 1 \in lo .. hi /\ (i - 1) + 1 = i /\ j \in Nat
    BY <1>0, <1>1
  <2>2. w[i - 1][j] = V!GetLeaf(m, <<i - 1, j>>)
    BY <2>1
  <2> DEFINE k == i - 1
  <2>3. k \in Nat /\ k + 1 = i /\ w[k][j] = V!GetLeaf(m, <<k, j>>)
    BY <2>1, <2>2
  <2> HIDE DEF w, k
  <2>4. LedTo(m, k, j)
    BY <2>1, <2>3, LeafLinked
  <2> QED
    BY <2>3, <2>4 DEF k, LedTo
<1>2. w = F(w)
  <2>1. ASSUME NEW i \in lo .. hi
        PROVE  w[i] = F(w)[i]
    <3>1. w[i] = [j \in Js |-> V!GetLeaf(m, <<i, j>>)]
      OBVIOUS
    <3>2. ASSUME NEW j \in Js
          PROVE  V!GetLeaf(m, <<i, j>>) = IF i = lo THEN row[j]
                   ELSE IF w[i - 1][j] # NoLeaf THEN m.east[w[i - 1][j]] ELSE V!GetLeaf(m, <<i, j>>)
      BY <1>1 DEF Begun
    <3> HIDE DEF w
    <3>3. F(w)[i] = [j \in Js |-> IF i = lo THEN row[j]
            ELSE IF w[i - 1][j] # NoLeaf THEN m.east[w[i - 1][j]] ELSE V!GetLeaf(m, <<i, j>>)]
      OBVIOUS
    <3> HIDE DEF F, Js
    <3> QED
      BY <3>1, <3>2, <3>3
  <2>2. w = [i \in lo .. hi |-> w[i]] /\ F(w) = [i \in lo .. hi |-> F(w)[i]]
    OBVIOUS
  <2> HIDE DEF w, F
  <2> QED
    BY <2>1, <2>2
<1>3. \E f : f = F(f)
  BY <1>2
<1>4. r = F(r)
  BY <1>3, Zenon DEF ColumnOf
<1> HIDE DEF r
<1>5. ASSUME NEW i \in lo .. hi
      PROVE  r[i] = [j \in Js |-> IF i = lo THEN row[j]
                      ELSE IF r[i - 1][j] # NoLeaf THEN m.east[r[i - 1][j]] ELSE V!GetLeaf(m, <<i, j>>)]
  BY <1>4
<1>6. ASSUME NEW i \in lo .. hi
      PROVE  w[i] = [j \in Js |-> V!GetLeaf(m, <<i, j>>)]
  OBVIOUS
<1> HIDE DEF w
<1>7. lo <= hi => r[lo] = w[lo]
  <2> HAVE lo <= hi
  <2>1. lo \in lo .. hi
    BY <1>0
  <2>2. r[lo] = [j \in Js |-> row[j]]
    BY <2>1, <1>5
  <2>3. \A j \in Js : row[j] = V!GetLeaf(m, <<lo, j>>)
    BY DEF Begun
  <2>4. w[lo] = [j \in Js |-> V!GetLeaf(m, <<lo, j>>)]
    BY <2>1, <1>6
  <2> HIDE DEF Js, lo
  <2> QED
    BY <2>2, <2>3, <2>4
<1>8. ASSUME NEW i \in lo .. hi, i # lo, r[i - 1] = w[i - 1]
      PROVE  r[i] = w[i]
  <2>1. r[i] = [j \in Js |-> IF w[i - 1][j] # NoLeaf THEN m.east[w[i - 1][j]] ELSE V!GetLeaf(m, <<i, j>>)]
    BY <1>5, <1>8
  <2> HIDE DEF Js
  <2> QED
    BY <1>1, <1>6, <1>8, <2>1
<1>9. \A i \in lo .. hi : r[i] = w[i]
  <2>1. Alike(r, w, lo, hi)
    BY <1>7, <1>8 DEF Alike
  <2> HIDE DEF lo, hi
  <2> QED
    BY <1>0, <2>1, AlikeAllAlong
<1>10. ASSUME NEW i \in lo .. hi, NEW j \in Js
       PROVE  r[i][j] = V!GetLeaf(m, <<i, j>>)
  <2>1. r[i] = [k \in Js |-> V!GetLeaf(m, <<i, k>>)]
    BY <1>6, <1>9
  <2> HIDE DEF Js
  <2> QED
    BY <2>1
<1> QED
  BY <1>10 DEF r, Found

(* So a search visits the leaves between the corners that there are.       *)
LEMMA VisitedAll ==
  ASSUME NEW m, Linked(m), NEW a \in Nat \X Nat, NEW b \in Nat \X Nat
  PROVE  V!Visited(m, a, b) = m.leaves \intersect ((a[1] .. b[1]) \X (a[2] .. b[2]))
<1> DEFINE row == RowOf(m, a, b)
           c == ColumnOf(m, a, b, row)
<1>1. V!Visited(m, a, b) = {c[i][j] : i \in a[1] .. b[1], j \in a[2] .. b[2]} \ {NoLeaf}
  BY DEF V!Visited, RowOf, ColumnOf
<1>2. Found(m, a, b, c)
  <2>1. Begun(m, a, b, row)
    BY RowsFound
  <2> HIDE DEF row
  <2> QED
    BY <2>1, ColumnsFound
<1> HIDE DEF c
<1>3. \A l \in m.leaves : l = <<l[1], l[2]>> /\ l # NoLeaf
  BY DEF Linked
<1>4. \A i \in a[1] .. b[1], j \in a[2] .. b[2] : c[i][j] = IF <<i, j>> \in m.leaves THEN <<i, j>> ELSE NoLeaf
  BY <1>2 DEF Found, V!GetLeaf
<1>5. ASSUME NEW i \in a[1] .. b[1], NEW j \in a[2] .. b[2], c[i][j] # NoLeaf
      PROVE  c[i][j] \in m.leaves \intersect ((a[1] .. b[1]) \X (a[2] .. b[2]))
  <2>1. c[i][j] = <<i, j>> /\ <<i, j>> \in m.leaves
    BY <1>4, <1>5, <1>3
  <2>2. <<i, j>> \in (a[1] .. b[1]) \X (a[2] .. b[2])
    OBVIOUS
  <2> QED
    BY <2>1, <2>2
<1>6. ASSUME NEW l \in m.leaves \intersect ((a[1] .. b[1]) \X (a[2] .. b[2]))
      PROVE  l # NoLeaf /\ \E i \in a[1] .. b[1], j \in a[2] .. b[2] : l = c[i][j]
  <2>1. l[1] \in a[1] .. b[1] /\ l[2] \in a[2] .. b[2] /\ l = <<l[1], l[2]>> /\ l # NoLeaf
    BY <1>3
  <2>2. c[l[1]][l[2]] = l
    BY <1>4, <2>1
  <2> QED
    BY <2>1, <2>2
<1> QED
  BY <1>1, <1>5, <1>6

(* Numbers.                                                                *)
LEMMA DivMonotone ==
  ASSUME NEW x \in Nat, NEW y \in Nat, x <= y, NEW n \in Nat \ {0}
  PROVE  x \div n \in Nat /\ y \div n \in Nat /\ x \div n <= y \div n
OBVIOUS

LEMMA Largest == ASSUME NEW S \in SUBSET Int, NEW x \in S, \A y \in S : x >= y PROVE V!Max(S) = x
<1>1. \E z \in S : \A y \in S : z >= y
  OBVIOUS
<1> DEFINE k == V!Max(S)
<1>2. k \in S /\ \A y \in S : k >= y
  BY <1>1, Zenon DEF V!Max
<1> HIDE DEF k
<1>3. k = x
  BY <1>2
<1> QED
  BY <1>3 DEF k

LEMMA Smallest == ASSUME NEW S \in SUBSET Int, NEW x \in S, \A y \in S : x <= y PROVE V!Min(S) = x
<1>1. \E z \in S : \A y \in S : z <= y
  OBVIOUS
<1> DEFINE k == V!Min(S)
<1>2. k \in S /\ \A y \in S : k <= y
  BY <1>1, Zenon DEF V!Min
<1> HIDE DEF k
<1>3. k = x
  BY <1>2
<1> QED
  BY <1>3 DEF k

LEMMA MaxCoordinateType == V!MaxCoordinate \in Nat
  BY DEF V!MaxCoordinate

LEMMA Floors ==
  ASSUME NEW z \in 0 .. 15, NEW multifloor \in BOOLEAN
  PROVE  \E lo, hi \in 0 .. 15 : lo <= hi /\ V!FloorsSeen(z, multifloor) = lo .. hi
<1>1. CASE ~multifloor
  BY <1>1 DEF V!FloorsSeen
<1>2. CASE multifloor /\ z > 7
  <2>1. V!Max({z - 2, 0}) = z - 2
    <3>1. {z - 2, 0} \in SUBSET Int /\ z - 2 \in {z - 2, 0} /\ \A y \in {z - 2, 0} : z - 2 >= y
      BY <1>2
    <3> QED
      BY <3>1, Largest
  <2>2. V!Min({z + 2, 15}) = IF z > 13 THEN 15 ELSE z + 2
    <3> DEFINE x == IF z > 13 THEN 15 ELSE z + 2
    <3>1. {z + 2, 15} \in SUBSET Int /\ x \in {z + 2, 15} /\ \A y \in {z + 2, 15} : x <= y
      OBVIOUS
    <3> HIDE DEF x
    <3>2. V!Min({z + 2, 15}) = x
      BY <3>1, Smallest
    <3> QED
      BY <3>2 DEF x
  <2>3. V!FloorsSeen(z, multifloor) = V!Max({z - 2, 0}) .. V!Min({z + 2, 15})
    BY <1>2 DEF V!FloorsSeen
  <2> DEFINE hi == IF z > 13 THEN 15 ELSE z + 2
             lo == z - 2
  <2>4. lo \in 0 .. 15 /\ hi \in 0 .. 15 /\ lo <= hi
    BY <1>2
  <2>5. V!Max({z - 2, 0}) = lo /\ V!Min({z + 2, 15}) = hi
    BY <2>1, <2>2
  <2> HIDE DEF lo, hi
  <2> QED
    BY <2>3, <2>4, <2>5
<1>3. CASE multifloor /\ z <= 7
  BY <1>3 DEF V!FloorsSeen
<1> QED
  BY <1>1, <1>2, <1>3

LEMMA Clamped ==
  ASSUME NEW n \in Int
  PROVE  V!Min({V!MaxCoordinate, V!Max({0, n})}) = IF n < 0 THEN 0 ELSE IF n > V!MaxCoordinate THEN V!MaxCoordinate ELSE n
<1> USE MaxCoordinateType
<1> DEFINE x == IF n < 0 THEN 0 ELSE n
           y == IF x > V!MaxCoordinate THEN V!MaxCoordinate ELSE x
<1>1. V!Max({0, n}) = x
  <2>1. {0, n} \in SUBSET Int /\ x \in {0, n} /\ \A z \in {0, n} : x >= z
    OBVIOUS
  <2> HIDE DEF x
  <2> QED
    BY <2>1, Largest
<1>2. V!Min({V!MaxCoordinate, x}) = y
  <2>1. {V!MaxCoordinate, x} \in SUBSET Int /\ y \in {V!MaxCoordinate, x} /\ \A z \in {V!MaxCoordinate, x} : y <= z
    OBVIOUS
  <2> HIDE DEF x, y
  <2> QED
    BY <2>1, Smallest
<1> QED
  BY <1>1, <1>2

Clamp(n) == IF n < 0 THEN 0 ELSE IF n > V!MaxCoordinate THEN V!MaxCoordinate ELSE n

CornerAt(q, n) ==
  /\ V!Corner(q, n) = <<Clamp(q[1] + n) \div FloorSize, Clamp(q[2] + n) \div FloorSize>>
  /\ Clamp(q[1] + n) \in Nat /\ Clamp(q[2] + n) \in Nat

LEMMA CornerClamped == ASSUME NEW q \in V!Everywhere, NEW n \in Int PROVE CornerAt(q, n)
<1>1. q[1] + n \in Int /\ q[2] + n \in Int
  BY MaxCoordinateType DEF V!Everywhere
<1>2. /\ V!Min({V!MaxCoordinate, V!Max({0, q[1] + n})}) = Clamp(q[1] + n)
      /\ V!Min({V!MaxCoordinate, V!Max({0, q[2] + n})}) = Clamp(q[2] + n)
  BY <1>1, Clamped DEF Clamp
<1>3. V!Corner(q, n) = <<Clamp(q[1] + n) \div FloorSize, Clamp(q[2] + n) \div FloorSize>>
  BY <1>2 DEF V!Corner
<1> QED
  BY <1>1, <1>3, MaxCoordinateType DEF Clamp, CornerAt

(* What is in range is on a leaf between the corners.                      *)
Encloses(q, lo, hi, a, b) ==
  /\ a \in Nat \X Nat /\ b \in Nat \X Nat
  /\ \A p \in V!Everywhere : V!InRange(q, p, lo .. hi) => V!Leaf(p) \in (a[1] .. b[1]) \X (a[2] .. b[2])

LEMMA CornersEnclose ==
  ASSUME V!SpectatorsAssumption, NEW q \in V!Everywhere, NEW lo \in 0 .. 15, NEW hi \in 0 .. 15
  PROVE  Encloses(q, lo, hi, V!Corner(q, q[3] - hi - View), V!Corner(q, q[3] - lo + View))
<1>0. q[1] \in 0 .. V!MaxCoordinate /\ q[2] \in 0 .. V!MaxCoordinate /\ q[3] \in 0 .. 15 /\ View \in Nat /\ FloorSize \in Nat \ {0}
  BY MaxCoordinateType DEF V!Everywhere, V!SpectatorsAssumption
<1>1. PICK d \in Int : d = q[3] - hi - View
  BY <1>0
<1>2. PICK e \in Int : e = q[3] - lo + View
  BY <1>0
<1>3. PICK a : a = V!Corner(q, d)
  OBVIOUS
<1>4. PICK b : b = V!Corner(q, e)
  OBVIOUS
<1>5. /\ a = <<Clamp(q[1] + d) \div FloorSize, Clamp(q[2] + d) \div FloorSize>>
      /\ Clamp(q[1] + d) \in Nat /\ Clamp(q[2] + d) \in Nat
  BY <1>3, CornerClamped DEF CornerAt
<1>6. /\ b = <<Clamp(q[1] + e) \div FloorSize, Clamp(q[2] + e) \div FloorSize>>
      /\ Clamp(q[1] + e) \in Nat /\ Clamp(q[2] + e) \in Nat
  BY <1>4, CornerClamped DEF CornerAt
<1>7. ASSUME NEW p \in V!Everywhere, V!InRange(q, p, lo .. hi), NEW k \in {1, 2}
      PROVE  p[k] \div FloorSize \in (Clamp(q[k] + d) \div FloorSize) .. (Clamp(q[k] + e) \div FloorSize)
  <2>1. /\ p[3] \in lo .. hi /\ p[3] \in 0 .. 15 /\ p[k] \in 0 .. V!MaxCoordinate /\ q[k] \in 0 .. V!MaxCoordinate
        /\ p[k] - (q[3] - p[3]) \in q[k] - View .. q[k] + View
    BY <1>0, <1>7, MaxCoordinateType DEF V!InRange, V!Everywhere
  <2>2. q[k] + d <= p[k] /\ p[k] <= q[k] + e /\ q[k] + d \in Int /\ q[k] + e \in Int
    BY <1>0, <1>1, <1>2, <2>1, SMTT(60)
  <2>3. PICK x \in Nat : x = Clamp(q[k] + d)
    BY <1>5
  <2>4. PICK y \in Nat : y = Clamp(q[k] + e)
    BY <1>6
  <2>5. p[k] \in Nat /\ x <= p[k] /\ p[k] <= y
    BY <2>1, <2>2, <2>3, <2>4, MaxCoordinateType DEF Clamp
  <2>6. x \div FloorSize <= p[k] \div FloorSize /\ x \div FloorSize \in Nat /\ p[k] \div FloorSize \in Nat
    BY <1>0, <2>5, DivMonotone
  <2>7. p[k] \div FloorSize <= y \div FloorSize /\ y \div FloorSize \in Nat
    BY <1>0, <2>5, DivMonotone
  <2>8. p[k] \div FloorSize \in (x \div FloorSize) .. (y \div FloorSize)
    BY <2>6, <2>7
  <2> QED
    BY <2>3, <2>4, <2>8
<1>8. ASSUME NEW p \in V!Everywhere, V!InRange(q, p, lo .. hi)
      PROVE  V!Leaf(p) \in (a[1] .. b[1]) \X (a[2] .. b[2])
  <2>1. /\ p[1] \div FloorSize \in a[1] .. b[1]
        /\ p[2] \div FloorSize \in a[2] .. b[2]
    BY <1>5, <1>6, <1>7, <1>8
  <2> QED
    BY <2>1 DEF V!Leaf
<1>9. a \in Nat \X Nat /\ b \in Nat \X Nat
  BY <1>0, <1>5, <1>6, DivMonotone
<1> QED
  BY <1>1, <1>2, <1>3, <1>4, <1>8, <1>9 DEF Encloses

(* Types.                                                                  *)
Cache == UNION {[D -> SUBSET Seen] : D \in SUBSET V!Everywhere}

Maps ==
  [tiles : SUBSET Places, leaves : SUBSET V!Leaves, south : [V!Leaves -> V!Leaves \union {NoLeaf}],
   east : [V!Leaves -> V!Leaves \union {NoLeaf}], list : [V!Leaves -> SUBSET Seen],
   at : [Seen -> Places \union {NoPlace}], spectatorCache : Cache, playersSpectatorCache : Cache,
   asked : SUBSET (V!Everywhere \X BOOLEAN), players : BOOLEAN, answer : SUBSET Seen]

(* Who sees q, and what the leaves and the caches should say.              *)
Watchers(m, q, multifloor, onlyPlayers) ==
  {c \in Seen : /\ m.at[c] # NoPlace /\ (onlyPlayers => c \in SeenPlayers)
                /\ V!InRange(q, m.at[c], V!FloorsSeen(q[3], multifloor))}

AllWatchers(m, q) == Watchers(m, q, TRUE, FALSE)
PlayersWatching(m, q) == Watchers(m, q, TRUE, TRUE)

Listed(m) ==
  /\ \A p \in m.tiles : V!Leaf(p) \in m.leaves
  /\ \A c \in Seen : m.at[c] # NoPlace => m.at[c] \in m.tiles
  /\ \A l \in V!Leaves : m.list[l] = {c \in Seen : m.at[c] # NoPlace /\ V!Leaf(m.at[c]) = l}

Cached(m) ==
  /\ \A q \in DOMAIN m.spectatorCache : m.spectatorCache[q] = AllWatchers(m, q)
  /\ \A q \in DOMAIN m.playersSpectatorCache : m.playersSpectatorCache[q] = PlayersWatching(m, q)

Mapped(m) == m \in Maps /\ Linked(m) /\ Listed(m)

MapInv == Mapped(map) /\ Cached(map)

(* A search in the quadtree finds whom it should.                          *)
LEMMA LeavesType == V!SpectatorsAssumption => V!Leaves \subseteq Nat \X Nat
<1> SUFFICES ASSUME V!SpectatorsAssumption, NEW p \in Places
             PROVE  V!Leaf(p) \in Nat \X Nat
  BY DEF V!Leaves
<1>1. p[1] \in Nat /\ p[2] \in Nat /\ FloorSize \in Nat \ {0}
  BY MaxCoordinateType DEF V!SpectatorsAssumption, V!Everywhere
<1>2. p[1] \div FloorSize \in Nat /\ p[2] \div FloorSize \in Nat
  BY <1>1, DivMonotone
<1> QED
  BY <1>2 DEF V!Leaf

LEMMA SearchExact ==
  ASSUME V!SpectatorsAssumption, NEW m, Mapped(m), NEW q \in V!Everywhere,
         NEW multifloor \in BOOLEAN, NEW onlyPlayers \in BOOLEAN
  PROVE  V!GetSpectatorsInternal(m, q, V!FloorsSeen(q[3], multifloor), onlyPlayers) = Watchers(m, q, multifloor, onlyPlayers)
<1> DEFINE floors == V!FloorsSeen(q[3], multifloor)
<1>0. q[3] \in 0 .. 15
  BY DEF V!Everywhere
<1>1. PICK lo, hi \in 0 .. 15 : lo <= hi /\ floors = lo .. hi
  BY <1>0, Floors
<1>2. V!Max(floors) = hi /\ V!Min(floors) = lo
  <2>1. lo .. hi \in SUBSET Int /\ lo \in lo .. hi /\ hi \in lo .. hi /\ \A y \in lo .. hi : hi >= y /\ lo <= y
    BY <1>1
  <2> QED
    BY <1>1, <2>1, Largest, Smallest
<1> HIDE DEF floors
<1>3. PICK a : a = V!Corner(q, q[3] - hi - View)
  OBVIOUS
<1>4. PICK b : b = V!Corner(q, q[3] - lo + View)
  OBVIOUS
<1>5. Encloses(q, lo, hi, a, b)
  BY <1>3, <1>4, CornersEnclose
<1>6. V!Visited(m, a, b) = m.leaves \intersect ((a[1] .. b[1]) \X (a[2] .. b[2]))
  BY <1>5, VisitedAll DEF Encloses, Mapped
<1>7. V!GetSpectatorsInternal(m, q, floors, onlyPlayers)
        = {c \in UNION {m.list[l] : l \in V!Visited(m, a, b)} :
             V!InRange(q, m.at[c], floors) /\ (onlyPlayers => c \in SeenPlayers)}
  BY <1>2, <1>3, <1>4 DEF V!GetSpectatorsInternal
<1>8. ASSUME NEW l \in V!Visited(m, a, b), NEW c \in m.list[l]
      PROVE  c \in Seen /\ m.at[c] # NoPlace
  BY <1>6 DEF Mapped, Maps, Listed
<1>9. ASSUME NEW c \in Seen, m.at[c] # NoPlace, V!InRange(q, m.at[c], floors)
      PROVE  \E l \in V!Visited(m, a, b) : c \in m.list[l]
  <2> DEFINE p == m.at[c]
             l == V!Leaf(p)
  <2>1. p \in Places /\ p \in V!Everywhere /\ p \in m.tiles
    BY <1>9 DEF Mapped, Maps, Listed, V!SpectatorsAssumption
  <2>2. l \in (a[1] .. b[1]) \X (a[2] .. b[2])
    BY <1>1, <1>5, <1>9, <2>1 DEF Encloses
  <2>3. l \in m.leaves /\ l \in V!Leaves
    BY <2>1 DEF Mapped, Maps, Listed, V!Leaves
  <2>4. c \in m.list[l]
    BY <1>9, <2>3 DEF Mapped, Listed
  <2> QED
    BY <1>6, <2>2, <2>3, <2>4
<1> QED
  BY <1>7, <1>8, <1>9 DEF Watchers, floors

(* What does not touch the tree, the tiles and the creatures.              *)
Same(m, u) ==
  /\ u.tiles = m.tiles /\ u.leaves = m.leaves /\ u.south = m.south /\ u.east = m.east
  /\ u.list = m.list /\ u.at = m.at

SameView(m, u) ==
  \A q : AllWatchers(u, q) = AllWatchers(m, q) /\ PlayersWatching(u, q) = PlayersWatching(m, q)

LEMMA SameMapped ==
  ASSUME NEW m, Mapped(m), NEW u \in Maps, Same(m, u)
  PROVE  Mapped(u) /\ SameView(m, u)
<1>1. Linked(u)
  BY DEF Mapped, Linked, Same, V!GetLeaf
<1>2. Listed(u)
  BY DEF Mapped, Listed, Same
<1>3. SameView(m, u)
  BY DEF SameView, AllWatchers, PlayersWatching, Watchers, Same
<1> QED
  BY <1>1, <1>2, <1>3 DEF Mapped

LEMMA CacheEntered ==
  ASSUME NEW cache \in Cache, NEW q \in V!Everywhere, NEW s \in SUBSET Seen
  PROVE  /\ V!Entered(cache, q, s) \in Cache
         /\ DOMAIN V!Entered(cache, q, s) = DOMAIN cache \union {q}
         /\ \A p \in DOMAIN cache \union {q} : V!Entered(cache, q, s)[p] = IF p = q THEN s ELSE cache[p]
<1>1. PICK D \in SUBSET V!Everywhere : cache \in [D -> SUBSET Seen]
  BY DEF Cache
<1>2. V!Entered(cache, q, s) = [p \in D \union {q} |-> IF p = q THEN s ELSE cache[p]]
  BY <1>1 DEF V!Entered
<1>3. [p \in D \union {q} |-> IF p = q THEN s ELSE cache[p]] \in [D \union {q} -> SUBSET Seen]
  BY <1>1
<1>4. D \union {q} \in SUBSET V!Everywhere
  OBVIOUS
<1>5. V!Entered(cache, q, s) \in Cache
  BY <1>2, <1>3, <1>4 DEF Cache
<1> QED
  BY <1>1, <1>2, <1>5

(* The answer, from a cache or not, and what the caches keep of it.        *)
Searched(m, had, q, multifloor, onlyPlayers, u) ==
  /\ u \in Maps /\ Same(m, u)
  /\ u.answer = had \union Watchers(m, q, multifloor, onlyPlayers)
  /\ u.asked = {<<q, multifloor>>} /\ u.players = onlyPlayers
  /\ had = {} => Cached(u)

LEMMA AnswerExact ==
  ASSUME V!SpectatorsAssumption, NEW m, Mapped(m), NEW had \in SUBSET Seen, NEW q \in V!Everywhere,
         NEW multifloor \in BOOLEAN, NEW onlyPlayers \in BOOLEAN, Cached(m)
  PROVE  Searched(m, had, q, multifloor, onlyPlayers, V!GetSpectators(m, had, q, multifloor, onlyPlayers))
<1> DEFINE hitP == multifloor /\ onlyPlayers /\ q \in DOMAIN m.playersSpectatorCache
           hit == multifloor /\ ~hitP /\ q \in DOMAIN m.spectatorCache
           got == IF hitP THEN m.playersSpectatorCache[q]
                  ELSE IF hit THEN {c \in m.spectatorCache[q] : onlyPlayers => c \in SeenPlayers}
                  ELSE V!GetSpectatorsInternal(m, q, V!FloorsSeen(q[3], multifloor), onlyPlayers)
           new == had \union got
           t == [m EXCEPT !.answer = new, !.asked = {<<q, multifloor>>}, !.players = onlyPlayers]
           u == IF ~multifloor \/ hitP \/ hit THEN t
                ELSE IF onlyPlayers THEN [t EXCEPT !.playersSpectatorCache = V!Entered(@, q, new)]
                ELSE [t EXCEPT !.spectatorCache = V!Entered(@, q, new)]
<1>1. V!GetSpectators(m, had, q, multifloor, onlyPlayers) = u
  BY DEF V!GetSpectators
<1>2. m \in Maps
  BY DEF Mapped
<1>3. got = Watchers(m, q, multifloor, onlyPlayers)
  <2>1. CASE hitP
    BY <2>1 DEF Cached, PlayersWatching
  <2>2. CASE hit
    BY <2>2 DEF Cached, AllWatchers, Watchers
  <2>3. CASE ~hitP /\ ~hit
    <3>1. got = V!GetSpectatorsInternal(m, q, V!FloorsSeen(q[3], multifloor), onlyPlayers)
      BY <2>3
    <3> HIDE DEF got
    <3> QED
      BY <3>1, SearchExact
  <2> QED
    BY <2>1, <2>2, <2>3
<1>4. hitP \in BOOLEAN /\ hit \in BOOLEAN
  OBVIOUS
<1> HIDE DEF got, hitP, hit
<1>5. new \in SUBSET Seen
  BY <1>3 DEF Watchers
<1> HIDE DEF new
<1> DEFINE asking == {<<q, multifloor>>}
<1>6. asking \in SUBSET (V!Everywhere \X BOOLEAN)
  OBVIOUS
<1>7. t = [m EXCEPT !.answer = new, !.asked = asking, !.players = onlyPlayers]
  OBVIOUS
<1> HIDE DEF asking, t
<1>8. t = [tiles |-> m.tiles, leaves |-> m.leaves, south |-> m.south, east |-> m.east, list |-> m.list, at |-> m.at,
           spectatorCache |-> m.spectatorCache, playersSpectatorCache |-> m.playersSpectatorCache,
           asked |-> asking, players |-> onlyPlayers, answer |-> new]
  BY <1>2, <1>7 DEF Maps
<1>9. t \in Maps /\ Same(m, t) /\ Cached(t)
  <2>1. t \in Maps /\ Same(m, t)
    BY <1>2, <1>5, <1>6, <1>8 DEF Maps, Same
  <2>2. SameView(m, t)
    BY <2>1, SameMapped
  <2>3. t.spectatorCache = m.spectatorCache /\ t.playersSpectatorCache = m.playersSpectatorCache
    BY <1>8
  <2>4. Cached(t)
    BY <2>2, <2>3 DEF Cached, SameView
  <2> QED
    BY <2>1, <2>4
<1>10. t.answer = new /\ t.asked = asking /\ t.players = onlyPlayers
  BY <1>8
<1>11. CASE ~multifloor \/ hitP \/ hit
  <2>1. u = t
    BY <1>11
  <2> HIDE DEF u
  <2> QED
    BY <2>1, <1>1, <1>3, <1>9, <1>10 DEF Searched, new, asking
<1>12. CASE multifloor /\ ~hitP /\ ~hit /\ onlyPlayers
  <2> DEFINE e == V!Entered(t.playersSpectatorCache, q, new)
  <2>1. u = [t EXCEPT !.playersSpectatorCache = e]
    BY <1>12
  <2> HIDE DEF u
  <2>2. /\ e \in Cache /\ DOMAIN e = DOMAIN t.playersSpectatorCache \union {q}
        /\ \A p \in DOMAIN t.playersSpectatorCache \union {q} :
             e[p] = IF p = q THEN new ELSE t.playersSpectatorCache[p]
    BY <1>5, <1>9, CacheEntered, SMTT(60) DEF Maps
  <2> HIDE DEF e
  <2>3. u = [tiles |-> t.tiles, leaves |-> t.leaves, south |-> t.south, east |-> t.east, list |-> t.list, at |-> t.at,
             spectatorCache |-> t.spectatorCache, playersSpectatorCache |-> e,
             asked |-> t.asked, players |-> t.players, answer |-> t.answer]
    BY <1>9, <2>1 DEF Maps
  <2>4. u \in Maps /\ Same(m, u) /\ Same(t, u)
    BY <1>9, <2>2, <2>3 DEF Maps, Same
  <2>5. SameView(m, u) /\ SameView(m, t)
    BY <1>9, <2>4, SameMapped
  <2>6. ASSUME had = {} PROVE Cached(u)
    <3>1. new = PlayersWatching(m, q)
      BY <1>3, <1>12, <2>6 DEF new, PlayersWatching
    <3>2. u.playersSpectatorCache = e /\ u.spectatorCache = t.spectatorCache
      BY <2>3
    <3>3. ASSUME NEW p \in DOMAIN e
          PROVE  e[p] = PlayersWatching(u, p)
      <4>1. CASE p = q
        BY <4>1, <2>2, <2>5, <3>1 DEF SameView
      <4>2. CASE p # q
        BY <4>2, <1>9, <2>2, <2>5 DEF SameView, Cached
      <4> QED
        BY <4>1, <4>2
    <3>4. ASSUME NEW p \in DOMAIN t.spectatorCache
          PROVE  t.spectatorCache[p] = AllWatchers(u, p)
      BY <1>9, <2>5 DEF SameView, Cached
    <3> QED
      BY <3>2, <3>3, <3>4 DEF Cached
  <2> QED
    BY <2>3, <2>4, <2>6, <1>1, <1>3, <1>10 DEF Searched, new, asking
<1>13. CASE multifloor /\ ~hitP /\ ~hit /\ ~onlyPlayers
  <2> DEFINE e == V!Entered(t.spectatorCache, q, new)
  <2>1. u = [t EXCEPT !.spectatorCache = e]
    BY <1>13
  <2> HIDE DEF u
  <2>2. /\ e \in Cache /\ DOMAIN e = DOMAIN t.spectatorCache \union {q}
        /\ \A p \in DOMAIN t.spectatorCache \union {q} :
             e[p] = IF p = q THEN new ELSE t.spectatorCache[p]
    BY <1>5, <1>9, CacheEntered DEF Maps
  <2> HIDE DEF e
  <2>3. u = [tiles |-> t.tiles, leaves |-> t.leaves, south |-> t.south, east |-> t.east, list |-> t.list, at |-> t.at,
             spectatorCache |-> e, playersSpectatorCache |-> t.playersSpectatorCache,
             asked |-> t.asked, players |-> t.players, answer |-> t.answer]
    BY <1>9, <2>1 DEF Maps
  <2>4. u \in Maps /\ Same(m, u) /\ Same(t, u)
    BY <1>9, <2>2, <2>3 DEF Maps, Same
  <2>5. SameView(m, u) /\ SameView(m, t)
    BY <1>9, <2>4, SameMapped
  <2>6. ASSUME had = {} PROVE Cached(u)
    <3>1. new = AllWatchers(m, q)
      BY <1>3, <1>13, <2>6 DEF new, AllWatchers
    <3>2. u.spectatorCache = e /\ u.playersSpectatorCache = t.playersSpectatorCache
      BY <2>3
    <3>3. ASSUME NEW p \in DOMAIN e
          PROVE  e[p] = AllWatchers(u, p)
      <4>1. CASE p = q
        BY <4>1, <2>2, <2>5, <3>1 DEF SameView
      <4>2. CASE p # q
        BY <4>2, <1>9, <2>2, <2>5 DEF SameView, Cached
      <4> QED
        BY <4>1, <4>2
    <3>4. ASSUME NEW p \in DOMAIN t.playersSpectatorCache
          PROVE  t.playersSpectatorCache[p] = PlayersWatching(u, p)
      BY <1>9, <2>5 DEF SameView, Cached
    <3> QED
      BY <3>2, <3>3, <3>4 DEF Cached
  <2> QED
    BY <2>3, <2>4, <2>6, <1>1, <1>3, <1>10 DEF Searched, new, asking
<1> QED
  BY <1>4, <1>11, <1>12, <1>13

(* A new leaf among its neighbours.                                        *)
WithLeaf(m, l, u) ==
  /\ u \in Maps /\ Linked(u) /\ u.leaves = m.leaves \union {l} /\ u.tiles = m.tiles /\ u.list = m.list /\ u.at = m.at
  /\ u.spectatorCache = m.spectatorCache /\ u.playersSpectatorCache = m.playersSpectatorCache

LEMMA NewLeafLinked ==
  ASSUME V!SpectatorsAssumption, NEW m, m \in Maps, Linked(m), NEW l \in V!Leaves, l \notin m.leaves
  PROVE  WithLeaf(m, l, V!Linked(m, l))
<1> DEFINE new == m.leaves \union {l}
           G(k) == V!GetLeaf(m, k)
           south == [k \in V!Leaves |-> IF k \in m.leaves /\ k = <<l[1], l[2] - 1>> THEN l
                                        ELSE IF k = l THEN G(<<l[1], l[2] + 1>>) ELSE m.south[k]]
           east == [k \in V!Leaves |-> IF k \in m.leaves /\ k = <<l[1] - 1, l[2]>> THEN l
                                       ELSE IF k = l THEN G(<<l[1] + 1, l[2]>>) ELSE m.east[k]]
           u == V!Linked(m, l)
<1>0. V!Leaves \subseteq Nat \X Nat /\ NoLeaf \notin Nat \X Nat /\ m.leaves \subseteq V!Leaves
  BY LeavesType DEF V!SpectatorsAssumption, Maps
<1>1. u = [tiles |-> m.tiles, leaves |-> new, south |-> south, east |-> east, list |-> m.list, at |-> m.at,
           spectatorCache |-> m.spectatorCache, playersSpectatorCache |-> m.playersSpectatorCache,
           asked |-> m.asked, players |-> m.players, answer |-> m.answer]
  <2> DEFINE s1 == [m.south EXCEPT ![l] = G(<<l[1], l[2] + 1>>)]
             e1 == [m.east EXCEPT ![l] = G(<<l[1] + 1, l[2]>>)]
             t == V!LinkedForward(m, l)
  <2>1. t = [m EXCEPT !.leaves = new, !.south = s1, !.east = e1]
    BY DEF V!LinkedForward
  <2>2. u = [t EXCEPT !.south = [k \in V!Leaves |-> IF k \in m.leaves /\ k = <<l[1], l[2] - 1>> THEN l ELSE @[k]],
                      !.east = [k \in V!Leaves |-> IF k \in m.leaves /\ k = <<l[1] - 1, l[2]>> THEN l ELSE @[k]]]
    BY DEF V!Linked
  <2>3. south = [k \in V!Leaves |-> IF k \in m.leaves /\ k = <<l[1], l[2] - 1>> THEN l ELSE s1[k]]
    BY DEF Maps
  <2>4. east = [k \in V!Leaves |-> IF k \in m.leaves /\ k = <<l[1] - 1, l[2]>> THEN l ELSE e1[k]]
    BY DEF Maps
  <2> HIDE DEF new, s1, e1, t, u, south, east
  <2>5. t = [tiles |-> m.tiles, leaves |-> new, south |-> s1, east |-> e1, list |-> m.list, at |-> m.at,
             spectatorCache |-> m.spectatorCache, playersSpectatorCache |-> m.playersSpectatorCache,
             asked |-> m.asked, players |-> m.players, answer |-> m.answer]
    BY <2>1 DEF Maps
  <2>6. u = [t EXCEPT !.south = south, !.east = east]
    BY <2>2, <2>3, <2>4, <2>5
  <2> QED
    BY <2>5, <2>6
<1> HIDE DEF u
<1>2. u \in Maps
  <2>1. \A k : G(k) \in V!Leaves \union {NoLeaf}
    BY <1>0 DEF V!GetLeaf
  <2> HIDE DEF G
  <2>2. south \in [V!Leaves -> V!Leaves \union {NoLeaf}] /\ east \in [V!Leaves -> V!Leaves \union {NoLeaf}]
    BY <2>1 DEF Maps
  <2>3. new \subseteq V!Leaves
    BY <1>0
  <2> HIDE DEF south, east, new
  <2> QED
    BY <1>1, <2>2, <2>3 DEF Maps
<1>3. ASSUME NEW k \in new
      PROVE  /\ south[k] = IF <<k[1], k[2] + 1>> \in new THEN <<k[1], k[2] + 1>> ELSE NoLeaf
             /\ east[k] = IF <<k[1] + 1, k[2]>> \in new THEN <<k[1] + 1, k[2]>> ELSE NoLeaf
  <2>0. k \in V!Leaves /\ k = <<k[1], k[2]>> /\ k[1] \in Nat /\ k[2] \in Nat
        /\ l = <<l[1], l[2]>> /\ l[1] \in Nat /\ l[2] \in Nat
    BY <1>0
  <2>1. CASE k = l
    BY <2>0, <2>1 DEF V!GetLeaf
  <2>2. CASE k # l
    <3>1. m.south[k] = V!GetLeaf(m, <<k[1], k[2] + 1>>) /\ m.east[k] = V!GetLeaf(m, <<k[1] + 1, k[2]>>)
      BY <2>2 DEF Linked
    <3>2. (k = <<l[1], l[2] - 1>>) <=> (<<k[1], k[2] + 1>> = l)
      BY <2>0
    <3>3. (k = <<l[1] - 1, l[2]>>) <=> (<<k[1] + 1, k[2]>> = l)
      BY <2>0
    <3> QED
      BY <2>0, <2>2, <3>1, <3>2, <3>3 DEF V!GetLeaf
  <2> QED
    BY <2>1, <2>2
<1> HIDE DEF new, south, east
<1>4. Linked(u)
  <2>1. u.leaves = new /\ u.south = south /\ u.east = east
    BY <1>1
  <2>2. new \subseteq Nat \X Nat
    BY <1>0 DEF new
  <2> QED
    BY <1>0, <1>3, <2>1, <2>2 DEF Linked, V!GetLeaf
<1> QED
  BY <1>1, <1>2, <1>4 DEF WithLeaf, u, new

(* Holds at the start.                                                     *)
LEMMA NothingCached == << >> \in Cache /\ DOMAIN << >> = {}
<1>1. << >> \in [{} -> SUBSET Seen] /\ DOMAIN << >> = {}
  OBVIOUS
<1>2. {} \in SUBSET V!Everywhere
  OBVIOUS
<1> QED
  BY <1>1, <1>2 DEF Cache

LEMMA MapStart == V!SpectatorsAssumption /\ V!Init => MapInv
<1> SUFFICES ASSUME V!SpectatorsAssumption, V!Init
             PROVE  MapInv
  OBVIOUS
<1>1. /\ map.tiles = {} /\ map.leaves = {} /\ map.list = [l \in V!Leaves |-> {}] /\ map.at = [c \in Seen |-> NoPlace]
      /\ map.spectatorCache = << >> /\ map.playersSpectatorCache = << >>
  BY DEF V!Init
<1>2. map \in Maps
  BY NothingCached DEF V!Init, Maps
<1>3. Linked(map)
  BY <1>1 DEF Linked, V!SpectatorsAssumption
<1>4. Listed(map)
  BY <1>1 DEF Listed
<1>5. Cached(map)
  BY <1>1, NothingCached DEF Cached
<1> QED
  BY <1>2, <1>3, <1>4, <1>5 DEF MapInv, Mapped

(* One lemma for each action.  Most make no search.                        *)
LEMMA Unasked ==
  ASSUME map'.asked = {}
  PROVE  V!SpectatorsExact
BY DEF V!SpectatorsExact

LEMMA TileSet ==
  ASSUME V!SpectatorsAssumption, MapInv, NEW p \in Places, V!SetTile(p)
  PROVE  MapInv' /\ V!SpectatorsExact
<1> DEFINE l == V!Leaf(p)
           m == IF l \in map.leaves THEN map ELSE V!Linked(map, l)
<1>0. l \in V!Leaves
  BY DEF V!Leaves
<1>1. /\ m \in Maps /\ Linked(m) /\ m.leaves = map.leaves \union {l} /\ m.tiles = map.tiles /\ m.list = map.list /\ m.at = map.at
      /\ m.spectatorCache = map.spectatorCache /\ m.playersSpectatorCache = map.playersSpectatorCache
  <2>1. CASE l \in map.leaves
    BY <2>1 DEF MapInv, Mapped
  <2>2. CASE l \notin map.leaves
    <3>1. WithLeaf(map, l, V!Linked(map, l))
      BY <1>0, <2>2, NewLeafLinked DEF MapInv, Mapped
    <3> QED
      BY <2>2, <3>1 DEF WithLeaf
  <2> QED
    BY <2>1, <2>2
<1>2. map' = [V!Silent(m) EXCEPT !.tiles = @ \union {p}]
  BY DEF V!SetTile
<1> HIDE DEF m, l
<1>3. map' = [tiles |-> m.tiles \union {p}, leaves |-> m.leaves, south |-> m.south, east |-> m.east, list |-> m.list,
              at |-> m.at, spectatorCache |-> m.spectatorCache, playersSpectatorCache |-> m.playersSpectatorCache,
              asked |-> {}, players |-> FALSE, answer |-> {}]
  BY <1>1, <1>2 DEF V!Silent, Maps
<1>4. map' \in Maps
  BY <1>1, <1>3 DEF Maps
<1>5. Linked(map')
  BY <1>1, <1>3 DEF Linked, V!GetLeaf
<1>6. Listed(map')
  BY <1>1, <1>3 DEF Listed, MapInv, Mapped, l
<1>7. SameView(map, map')
  BY <1>1, <1>3 DEF SameView, AllWatchers, PlayersWatching, Watchers
<1>8. map'.spectatorCache = map.spectatorCache /\ map'.playersSpectatorCache = map.playersSpectatorCache /\ map'.asked = {}
  BY <1>1, <1>3
<1>9. Cached(map')
  BY <1>7, <1>8 DEF Cached, SameView, MapInv
<1> QED
  BY <1>4, <1>5, <1>6, <1>8, <1>9, Unasked DEF MapInv, Mapped

LEMMA AnswerGiven ==
  ASSUME V!SpectatorsAssumption, MapInv, NEW q \in Centers, V!GetSpectatorsOf(q)
  PROVE  MapInv' /\ V!SpectatorsExact
<1>1. PICK multifloor, onlyPlayers \in BOOLEAN : map' = V!GetSpectators(map, {}, q, multifloor, onlyPlayers)
  BY DEF V!GetSpectatorsOf
<1>2. q \in V!Everywhere
  BY DEF V!SpectatorsAssumption
<1>3. Searched(map, {}, q, multifloor, onlyPlayers, map')
  BY <1>1, <1>2, AnswerExact DEF MapInv
<1>4. MapInv'
  BY <1>3, SameMapped DEF Searched, MapInv
<1>5. map'.answer = Watchers(map, q, multifloor, onlyPlayers) /\ map'.asked = {<<q, multifloor>>} /\ map'.players = onlyPlayers
  BY <1>3 DEF Searched
<1>6. V!SpectatorsExact
  BY <1>5 DEF V!SpectatorsExact, Watchers
<1> QED
  BY <1>4, <1>6

LEMMA TaskOver == V!SpectatorsAssumption /\ MapInv /\ V!NextTask => MapInv' /\ V!SpectatorsExact
<1> SUFFICES ASSUME V!SpectatorsAssumption, MapInv, V!NextTask
             PROVE  MapInv' /\ V!SpectatorsExact
  OBVIOUS
<1>1. map' = [tiles |-> map.tiles, leaves |-> map.leaves, south |-> map.south, east |-> map.east, list |-> map.list,
              at |-> map.at, spectatorCache |-> << >>, playersSpectatorCache |-> << >>,
              asked |-> {}, players |-> FALSE, answer |-> {}]
  BY DEF V!NextTask, V!Cleared, V!Silent, MapInv, Mapped, Maps
<1>2. map' \in Maps /\ Same(map, map')
  BY <1>1, NothingCached DEF MapInv, Mapped, Maps, Same
<1>3. Cached(map') /\ map'.asked = {}
  BY <1>1, NothingCached DEF Cached
<1> QED
  BY <1>2, <1>3, SameMapped, Unasked DEF MapInv

(* A creature is put down somewhere, or taken away.                        *)
PutDown(m, c, p, u) ==
  /\ u.tiles = m.tiles /\ u.leaves = m.leaves /\ u.south = m.south /\ u.east = m.east
  /\ u.spectatorCache = << >> /\ u.playersSpectatorCache = << >>
  /\ u.at = [m.at EXCEPT ![c] = p]
  /\ \A l \in V!Leaves :
       u.list[l] = IF p # NoPlace /\ l = V!Leaf(p) THEN m.list[l] \union {c} ELSE m.list[l] \ {c}

LEMMA PutDownMapped ==
  ASSUME V!SpectatorsAssumption, NEW m, Mapped(m), NEW c \in Seen, NEW p \in m.tiles \union {NoPlace},
         NEW u \in Maps, PutDown(m, c, p, u)
  PROVE  Mapped(u) /\ Cached(u)
<1>1. Linked(u)
  BY DEF Mapped, Linked, PutDown, V!GetLeaf
<1>2. Cached(u)
  BY NothingCached DEF Cached, PutDown
<1>3. \A d \in Seen : u.at[d] = IF d = c THEN p ELSE m.at[d]
  BY DEF PutDown, Mapped, Maps
<1>4. ASSUME NEW l \in V!Leaves
      PROVE  u.list[l] = {d \in Seen : u.at[d] # NoPlace /\ V!Leaf(u.at[d]) = l}
  <2>1. m.list[l] = {d \in Seen : m.at[d] # NoPlace /\ V!Leaf(m.at[d]) = l}
    BY DEF Mapped, Listed
  <2>2. u.list[l] = IF p # NoPlace /\ l = V!Leaf(p) THEN m.list[l] \union {c} ELSE m.list[l] \ {c}
    BY DEF PutDown
  <2> QED
    BY <1>3, <2>1, <2>2
<1>5. Listed(u)
  BY <1>3, <1>4 DEF Listed, Mapped, PutDown
<1> QED
  BY <1>1, <1>2, <1>5 DEF Mapped

LEMMA TwoAnswers ==
  ASSUME NEW x, NEW y, NEW multifloor \in BOOLEAN, NEW onlyPlayers \in BOOLEAN,
         map'.asked = {<<x, multifloor>>, <<y, multifloor>>}, map'.players = onlyPlayers,
         map'.answer = Watchers(map, x, multifloor, onlyPlayers) \union Watchers(map, y, multifloor, onlyPlayers)
  PROVE  V!SpectatorsExact
<1>1. ASSUME NEW c \in Seen
      PROVE  (\E q \in map'.asked : V!InRange(q[1], map.at[c], V!FloorsSeen(q[1][3], q[2])))
               <=> \/ V!InRange(x, map.at[c], V!FloorsSeen(x[3], multifloor))
                   \/ V!InRange(y, map.at[c], V!FloorsSeen(y[3], multifloor))
  OBVIOUS
<1> QED
  BY <1>1 DEF V!SpectatorsExact, Watchers

(* What the operations make of the map, field by field.                    *)
LEMMA ClearedMap ==
  ASSUME NEW m \in Maps
  PROVE  V!Cleared(m) = [tiles |-> m.tiles, leaves |-> m.leaves, south |-> m.south, east |-> m.east, list |-> m.list,
                         at |-> m.at, spectatorCache |-> << >>, playersSpectatorCache |-> << >>,
                         asked |-> m.asked, players |-> m.players, answer |-> m.answer]
<1> DEFINE nil == << >>
<1>1. V!Cleared(m) = [m EXCEPT !.spectatorCache = nil, !.playersSpectatorCache = nil]
  BY Zenon DEF V!Cleared
<1> HIDE DEF nil
<1>2. V!Cleared(m) = [tiles |-> m.tiles, leaves |-> m.leaves, south |-> m.south, east |-> m.east, list |-> m.list,
                      at |-> m.at, spectatorCache |-> nil, playersSpectatorCache |-> nil,
                      asked |-> m.asked, players |-> m.players, answer |-> m.answer]
  BY <1>1 DEF Maps
<1> QED
  BY <1>2, Zenon DEF nil

LEMMA SilentMap ==
  ASSUME NEW m \in Maps
  PROVE  /\ V!Silent(m) = [tiles |-> m.tiles, leaves |-> m.leaves, south |-> m.south, east |-> m.east, list |-> m.list,
                           at |-> m.at, spectatorCache |-> m.spectatorCache,
                           playersSpectatorCache |-> m.playersSpectatorCache,
                           asked |-> {}, players |-> FALSE, answer |-> {}]
         /\ V!Silent(m) \in Maps
<1>1. V!Silent(m) = [tiles |-> m.tiles, leaves |-> m.leaves, south |-> m.south, east |-> m.east, list |-> m.list,
                     at |-> m.at, spectatorCache |-> m.spectatorCache,
                     playersSpectatorCache |-> m.playersSpectatorCache,
                     asked |-> {}, players |-> FALSE, answer |-> {}]
  <2> DEFINE none == {}
             no == FALSE
  <2>1. V!Silent(m) = [m EXCEPT !.asked = none, !.answer = none, !.players = no]
    BY Zenon DEF V!Silent
  <2> HIDE DEF none, no
  <2>2. V!Silent(m) = [tiles |-> m.tiles, leaves |-> m.leaves, south |-> m.south, east |-> m.east, list |-> m.list,
                       at |-> m.at, spectatorCache |-> m.spectatorCache,
                       playersSpectatorCache |-> m.playersSpectatorCache,
                       asked |-> none, players |-> no, answer |-> none]
    BY <2>1 DEF Maps
  <2> QED
    BY <2>2, Zenon DEF none, no
<1> QED
  BY <1>1 DEF Maps

LEMMA CreaturePlaced ==
  ASSUME V!SpectatorsAssumption, MapInv, NEW c \in Seen, NEW p \in Places, V!PlaceCreature(c, p)
  PROVE  MapInv' /\ V!SpectatorsExact
<1> DEFINE l == V!Leaf(p)
           at == [map.at EXCEPT ![c] = p]
           list == [map.list EXCEPT ![l] = @ \union {c}]
<1>0. map \in Maps /\ l \in V!Leaves /\ p \in map.tiles /\ p # NoPlace /\ map.at[c] = NoPlace
  BY DEF MapInv, Mapped, V!Leaves, V!PlaceCreature, V!SpectatorsAssumption
<1>1. map' = V!AddedToLeaf(V!AddThing(V!Silent(map), c, p), c, l)
  BY DEF V!PlaceCreature
<1> HIDE DEF l
<1>2. V!AddThing(V!Silent(map), c, p)
        = [tiles |-> map.tiles, leaves |-> map.leaves, south |-> map.south, east |-> map.east, list |-> map.list,
           at |-> at, spectatorCache |-> << >>, playersSpectatorCache |-> << >>,
           asked |-> {}, players |-> FALSE, answer |-> {}]
  <2> DEFINE v == V!Cleared(V!Silent(map))
  <2>1. v = [tiles |-> map.tiles, leaves |-> map.leaves, south |-> map.south, east |-> map.east, list |-> map.list,
             at |-> map.at, spectatorCache |-> << >>, playersSpectatorCache |-> << >>,
             asked |-> {}, players |-> FALSE, answer |-> {}]
    BY <1>0, SilentMap, ClearedMap
  <2>2. V!AddThing(V!Silent(map), c, p) = [v EXCEPT !.at[c] = p]
    BY DEF V!AddThing
  <2> HIDE DEF v
  <2>3. V!AddThing(V!Silent(map), c, p) = [v EXCEPT !.at = at]
    BY <2>1, <2>2
  <2> HIDE DEF at
  <2> QED
    BY <2>1, <2>3
<1> HIDE DEF at
<1>3. map' = [tiles |-> map.tiles, leaves |-> map.leaves, south |-> map.south, east |-> map.east, list |-> list,
              at |-> at, spectatorCache |-> << >>, playersSpectatorCache |-> << >>,
              asked |-> {}, players |-> FALSE, answer |-> {}]
  <2> DEFINE v == V!AddThing(V!Silent(map), c, p)
  <2>1. map' = [v EXCEPT !.list[l] = @ \union {c}]
    BY <1>1 DEF V!AddedToLeaf
  <2> HIDE DEF v
  <2>2. map' = [v EXCEPT !.list = list]
    BY <1>2, <2>1 DEF v
  <2> HIDE DEF list
  <2> DEFINE nil == << >>
             none == {}
             no == FALSE
  <2>3. v = [tiles |-> map.tiles, leaves |-> map.leaves, south |-> map.south, east |-> map.east, list |-> map.list,
             at |-> at, spectatorCache |-> nil, playersSpectatorCache |-> nil,
             asked |-> none, players |-> no, answer |-> none]
    BY <1>2, Zenon DEF v, nil, none, no
  <2> HIDE DEF nil, none, no
  <2>4. map' = [tiles |-> map.tiles, leaves |-> map.leaves, south |-> map.south, east |-> map.east, list |-> list,
                at |-> at, spectatorCache |-> nil, playersSpectatorCache |-> nil,
                asked |-> none, players |-> no, answer |-> none]
    BY <2>2, <2>3
  <2> QED
    BY <2>4, Zenon DEF nil, none, no
<1>4. at \in [Seen -> Places \union {NoPlace}] /\ list \in [V!Leaves -> SUBSET Seen]
  BY <1>0 DEF Maps, at
<1>5. \A k \in V!Leaves : list[k] = IF k = l THEN map.list[k] \union {c} ELSE map.list[k] \ {c}
  BY <1>0 DEF MapInv, Mapped, Listed, Maps
<1> HIDE DEF list
<1>6. map' \in Maps
  BY <1>0, <1>3, <1>4, NothingCached DEF Maps
<1>7. PutDown(map, c, p, map')
  BY <1>0, <1>3, <1>5 DEF PutDown, at, l
<1>8. map'.asked = {}
  BY <1>3
<1> QED
  BY <1>0, <1>6, <1>7, <1>8, PutDownMapped, Unasked DEF MapInv

LEMMA CreatureRemoved ==
  ASSUME V!SpectatorsAssumption, MapInv, NEW c \in Seen, V!RemoveCreature(c)
  PROVE  MapInv' /\ V!SpectatorsExact
<1> DEFINE from == map.at[c]
           l == V!Leaf(from)
           t == V!GetSpectators(map, {}, from, TRUE, FALSE)
           list == [t.list EXCEPT ![l] = @ \ {c}]
           at == [t.at EXCEPT ![c] = NoPlace]
<1>0. map \in Maps /\ from \in map.tiles /\ from \in V!Everywhere /\ l \in V!Leaves
  BY DEF MapInv, Mapped, Maps, Listed, V!Leaves, V!RemoveCreature, V!SpectatorsAssumption
<1>1. Searched(map, {}, from, TRUE, FALSE, t)
  BY <1>0, AnswerExact DEF MapInv
<1>2. map' = [V!Cleared(V!RemovedFromLeaf(t, c, l)) EXCEPT !.at[c] = NoPlace]
  BY DEF V!RemoveCreature
<1> HIDE DEF t, l
<1>3. map' = [tiles |-> t.tiles, leaves |-> t.leaves, south |-> t.south, east |-> t.east, list |-> list,
              at |-> at, spectatorCache |-> << >>, playersSpectatorCache |-> << >>,
              asked |-> t.asked, players |-> t.players, answer |-> t.answer]
  <2> DEFINE r == V!RemovedFromLeaf(t, c, l)
             v == V!Cleared(r)
  <2>1. r = [t EXCEPT !.list = list]
    BY DEF V!RemovedFromLeaf
  <2>2. list \in [V!Leaves -> SUBSET Seen]
    BY <1>0, <1>1 DEF Searched, Maps
  <2> HIDE DEF list, r
  <2>3. r = [tiles |-> t.tiles, leaves |-> t.leaves, south |-> t.south, east |-> t.east, list |-> list,
             at |-> t.at, spectatorCache |-> t.spectatorCache, playersSpectatorCache |-> t.playersSpectatorCache,
             asked |-> t.asked, players |-> t.players, answer |-> t.answer]
    BY <1>1, <2>1 DEF Searched, Maps
  <2>4. r \in Maps
    BY <1>1, <2>2, <2>3 DEF Searched, Maps
  <2>5. v = [tiles |-> t.tiles, leaves |-> t.leaves, south |-> t.south, east |-> t.east, list |-> list,
             at |-> t.at, spectatorCache |-> << >>, playersSpectatorCache |-> << >>,
             asked |-> t.asked, players |-> t.players, answer |-> t.answer]
    BY <2>3, <2>4, ClearedMap
  <2>6. map' = [v EXCEPT !.at[c] = NoPlace]
    BY <1>2 DEF r
  <2> HIDE DEF v
  <2>7. map' = [v EXCEPT !.at = at]
    BY <2>5, <2>6
  <2> HIDE DEF at
  <2> QED
    BY <2>5, <2>7
<1>4. at \in [Seen -> Places \union {NoPlace}] /\ list \in [V!Leaves -> SUBSET Seen]
  BY <1>0, <1>1 DEF Searched, Maps
<1>5. \A k \in V!Leaves : list[k] = map.list[k] \ {c}
  BY <1>0, <1>1 DEF MapInv, Mapped, Listed, Maps, Searched, Same, l
<1>6. at = [map.at EXCEPT ![c] = NoPlace]
  BY <1>1 DEF Searched, Same
<1> HIDE DEF list, at
<1>7. map' \in Maps
  BY <1>1, <1>3, <1>4, NothingCached DEF Maps, Searched
<1>8. PutDown(map, c, NoPlace, map')
  BY <1>1, <1>3, <1>5, <1>6 DEF PutDown, Searched, Same
<1>9. MapInv'
  BY <1>7, <1>8, PutDownMapped DEF MapInv
<1>10. map'.answer = Watchers(map, from, TRUE, FALSE) /\ map'.asked = {<<from, TRUE>>} /\ map'.players = FALSE
  BY <1>1, <1>3 DEF Searched
<1>11. V!SpectatorsExact
  <2>1. map'.asked = {<<from, TRUE>>, <<from, TRUE>>} /\ TRUE \in BOOLEAN /\ FALSE \in BOOLEAN
        /\ map'.answer = Watchers(map, from, TRUE, FALSE) \union Watchers(map, from, TRUE, FALSE)
    BY <1>10
  <2> QED
    BY <1>10, <2>1, TwoAnswers
<1> QED
  BY <1>9, <1>11

LEMMA CreatureMoved ==
  ASSUME V!SpectatorsAssumption, MapInv, NEW c \in Seen, NEW p \in Places, V!MoveCreature(c, p)
  PROVE  MapInv' /\ V!SpectatorsExact
<1> DEFINE from == map.at[c]
           t == V!GetSpectators(map, {}, from, TRUE, FALSE)
           u == V!GetSpectators(t, t.answer, p, TRUE, FALSE)
           a == V!Leaf(from)
           b == V!Leaf(p)
           list == IF a = b THEN u.list ELSE [[u.list EXCEPT ![a] = @ \ {c}] EXCEPT ![b] = @ \union {c}]
           at == [u.at EXCEPT ![c] = p]
           both == {<<from, TRUE>>, <<p, TRUE>>}
<1>0. /\ map \in Maps /\ from # NoPlace /\ from \in map.tiles /\ from \in V!Everywhere /\ a \in V!Leaves
      /\ p \in map.tiles /\ p \in V!Everywhere /\ p # NoPlace /\ b \in V!Leaves
  BY DEF MapInv, Mapped, Maps, Listed, V!Leaves, V!MoveCreature, V!SpectatorsAssumption
<1>1. Searched(map, {}, from, TRUE, FALSE, t)
  BY <1>0, AnswerExact DEF MapInv
<1> HIDE DEF t
<1>2. Searched(t, t.answer, p, TRUE, FALSE, u)
  <2>1. Mapped(t) /\ Cached(t) /\ t.answer \in SUBSET Seen
    BY <1>1, SameMapped DEF Searched, MapInv, Maps
  <2> QED
    BY <1>0, <2>1, AnswerExact
<1>3. map' = [V!AddThing(IF a = b THEN V!Cleared(u)
                         ELSE V!AddedToLeaf(V!RemovedFromLeaf(V!Cleared(u), c, a), c, b), c, p) EXCEPT !.asked = both]
  BY DEF V!MoveCreature, t
<1> HIDE DEF u, a, b, both
<1>4. u \in Maps /\ Same(map, u)
  BY <1>1, <1>2 DEF Searched, Same
<1>5. map' = [tiles |-> u.tiles, leaves |-> u.leaves, south |-> u.south, east |-> u.east, list |-> list,
              at |-> at, spectatorCache |-> << >>, playersSpectatorCache |-> << >>,
              asked |-> both, players |-> u.players, answer |-> u.answer]
  <2> DEFINE v == V!Cleared(u)
             w == IF a = b THEN v ELSE V!AddedToLeaf(V!RemovedFromLeaf(v, c, a), c, b)
             x == V!Cleared(w)
  <2>1. v = [tiles |-> u.tiles, leaves |-> u.leaves, south |-> u.south, east |-> u.east, list |-> u.list,
             at |-> u.at, spectatorCache |-> << >>, playersSpectatorCache |-> << >>,
             asked |-> u.asked, players |-> u.players, answer |-> u.answer]
    BY <1>4, ClearedMap
  <2> HIDE DEF v
  <2>2. w = [v EXCEPT !.list = list]
    <3>1. CASE a = b
      BY <2>1, <3>1
    <3>2. CASE a # b
      <4> DEFINE shorter == [u.list EXCEPT ![a] = @ \ {c}]
                 y == V!RemovedFromLeaf(v, c, a)
      <4>1. y = [v EXCEPT !.list = shorter]
        BY <2>1 DEF V!RemovedFromLeaf
      <4>2. list = [shorter EXCEPT ![b] = @ \union {c}]
        BY <3>2
      <4>3. w = V!AddedToLeaf(y, c, b)
        BY <3>2
      <4> HIDE DEF shorter, y, w, list
      <4>4. y.list = shorter
        BY <2>1, <4>1
      <4>5. w = [y EXCEPT !.list = list]
        BY <4>2, <4>3, <4>4 DEF V!AddedToLeaf
      <4> QED
        BY <2>1, <4>1, <4>5
    <3> QED
      BY <3>1, <3>2
  <2>3. list \in [V!Leaves -> SUBSET Seen]
    BY <1>0, <1>4 DEF Maps
  <2> HIDE DEF w, list
  <2>4. w = [tiles |-> u.tiles, leaves |-> u.leaves, south |-> u.south, east |-> u.east, list |-> list,
             at |-> u.at, spectatorCache |-> << >>, playersSpectatorCache |-> << >>,
             asked |-> u.asked, players |-> u.players, answer |-> u.answer]
    BY <2>1, <2>2
  <2>5. w \in Maps
    BY <1>4, <2>3, <2>4, NothingCached DEF Maps
  <2>6. x = [tiles |-> u.tiles, leaves |-> u.leaves, south |-> u.south, east |-> u.east, list |-> list,
             at |-> u.at, spectatorCache |-> << >>, playersSpectatorCache |-> << >>,
             asked |-> u.asked, players |-> u.players, answer |-> u.answer]
    BY <2>4, <2>5, ClearedMap
  <2>7. map' = [[x EXCEPT !.at[c] = p] EXCEPT !.asked = both]
    BY <1>3 DEF V!AddThing, w, v
  <2> HIDE DEF x
  <2>8. map' = [[x EXCEPT !.at = at] EXCEPT !.asked = both]
    BY <2>6, <2>7
  <2> HIDE DEF at
  <2> QED
    BY <2>6, <2>8
<1>6. at \in [Seen -> Places \union {NoPlace}] /\ list \in [V!Leaves -> SUBSET Seen]
  BY <1>0, <1>4 DEF Maps
<1>7. ASSUME NEW k \in V!Leaves
      PROVE  list[k] = IF k = b THEN map.list[k] \union {c} ELSE map.list[k] \ {c}
  <2>1. map.list[k] = {d \in Seen : map.at[d] # NoPlace /\ V!Leaf(map.at[d]) = k} /\ map.list \in [V!Leaves -> SUBSET Seen]
    BY DEF MapInv, Mapped, Listed, Maps
  <2>2. c \in map.list[k] <=> k = a
    BY <1>0, <2>1 DEF a
  <2>3. u.list = map.list
    BY <1>4 DEF Same
  <2> QED
    BY <1>0, <2>1, <2>2, <2>3
<1>8. at = [map.at EXCEPT ![c] = p]
  BY <1>4 DEF Same
<1> HIDE DEF list, at
<1>9. map' \in Maps
  <2>1. <<from, TRUE>> \in V!Everywhere \X BOOLEAN /\ <<p, TRUE>> \in V!Everywhere \X BOOLEAN
    BY <1>0
  <2>2. both \in SUBSET (V!Everywhere \X BOOLEAN)
    BY <2>1 DEF both
  <2> QED
    BY <1>4, <1>5, <1>6, <2>2, NothingCached DEF Maps
<1>10. PutDown(map, c, p, map')
  BY <1>0, <1>4, <1>5, <1>7, <1>8 DEF PutDown, Same, b
<1>11. MapInv'
  BY <1>0, <1>9, <1>10, PutDownMapped DEF MapInv
<1>12. Watchers(t, p, TRUE, FALSE) = Watchers(map, p, TRUE, FALSE)
  BY <1>1 DEF Searched, Same, Watchers
<1>13. map'.answer = Watchers(map, from, TRUE, FALSE) \union Watchers(map, p, TRUE, FALSE)
       /\ map'.asked = {<<from, TRUE>>, <<p, TRUE>>} /\ map'.players = FALSE
  BY <1>1, <1>2, <1>5, <1>12 DEF Searched, both
<1>14. V!SpectatorsExact
  BY <1>13, TwoAnswers
<1> QED
  BY <1>11, <1>14

(* Whoever is asked for is found, and nobody else, at any number of places *)
(* of any coordinates and with whatever is cached.                         *)
THEOREM SpectatorsAlwaysExact ==
  ASSUME V!SpectatorsAssumption
  PROVE  V!Init /\ [][V!Next]_map => [][V!SpectatorsExact]_map
<1>1. V!Init => MapInv
  BY MapStart
<1>2. MapInv /\ [V!Next]_map => MapInv' /\ [V!SpectatorsExact]_map
  <2>1. MapInv /\ UNCHANGED map => MapInv'
    BY DEF MapInv
  <2> QED
    BY <2>1, TileSet, AnswerGiven, CreaturePlaced, CreatureMoved, CreatureRemoved, TaskOver DEF V!Next
<1> QED
  BY <1>1, <1>2, PTL

-----------------------------------------------------------------------------
(* What every operation on the membership preserves.  Empty parties are    *)
(* apart, because disband is called last.                                  *)
Led(g) == \A P \in Parties : P \in g.live <=> g.leader[P] # NoPlayer

Enrolled(g) ==
  \A p \in Players : g.party[p] # NoParty =>
    /\ g.party[p] \in g.live
    /\ p = g.leader[g.party[p]] \/ p \in g.memberList[g.party[p]]

CrewOf(g, P) ==
  /\ g.party[g.leader[P]] = P
  /\ \A m \in g.memberList[P] : g.party[m] = P /\ m # g.leader[P]

Crewed(g) == \A P \in g.live : CrewOf(g, P)

Mirrored(g) ==
  \A p \in Players, P \in Parties :
    p \in g.inviteList[P] <=> P \in g.invitePartyList[p]

Buried(g) ==
  \A P \in Parties \ g.live : g.memberList[P] = {} /\ g.inviteList[P] = {}

Consistent(g) ==
  g \in Groups /\ Led(g) /\ Enrolled(g) /\ Crewed(g) /\ Mirrored(g) /\ Buried(g)

Settled(g) == \A P \in g.live : ~Empty(g, P)

(* h differs from g by memberships and invitations that ended.             *)
Dwindles(g, h) ==
  \A q \in Players :
    /\ h.party[q] \in {g.party[q], NoParty}
    /\ h.invitePartyList[q] \subseteq g.invitePartyList[q]

(* The types of a consistent membership; a live party has a real leader.    *)
LEMMA Typed ==
  ASSUME NEW g, Consistent(g)
  PROVE  /\ g.party \in [Players -> Parties \union {NoParty}]
         /\ g.invitePartyList \in [Players -> SUBSET Parties]
         /\ g.live \subseteq Parties
         /\ g.leader \in [Parties -> Players \union {NoPlayer}]
         /\ g.memberList \in [Parties -> SUBSET Players]
         /\ g.inviteList \in [Parties -> SUBSET Players]
         /\ \A P \in g.live : g.leader[P] \in Players
BY DEF Consistent, Groups, Led

-----------------------------------------------------------------------------
(* The fields of the record that a new Party object makes.                 *)
LEMMA CreatedFields ==
  ASSUME NEW g \in Groups, NEW P \in Parties, NEW p \in Players
  PROVE  /\ Created(g, P, p) \in Groups
         /\ Created(g, P, p).live = g.live \union {P}
         /\ Created(g, P, p).leader = [g.leader EXCEPT ![P] = p]
         /\ Created(g, P, p).party = [g.party EXCEPT ![p] = P]
         /\ Created(g, P, p).memberList = g.memberList
         /\ Created(g, P, p).inviteList = g.inviteList
         /\ Created(g, P, p).invitePartyList = g.invitePartyList
BY DEF Created, Groups

(* An invitation adds to one list on each side.                            *)
LEMMA InvitedFields ==
  ASSUME NEW g, g \in Groups, NEW P \in Parties, NEW q \in Players
  PROVE  /\ Invited(g, P, q) \in Groups
         /\ Invited(g, P, q).live = g.live
         /\ Invited(g, P, q).leader = g.leader
         /\ Invited(g, P, q).party = g.party
         /\ Invited(g, P, q).memberList = g.memberList
         /\ Invited(g, P, q).inviteList = [g.inviteList EXCEPT ![P] = @ \union {q}]
         /\ Invited(g, P, q).invitePartyList =
              [g.invitePartyList EXCEPT ![q] = @ \union {P}]
BY DEF Invited, Groups

-----------------------------------------------------------------------------
(* new Party(p) followed by the first invitation: the two are never apart. *)
LEMMA FoundedConsistent ==
  ASSUME NEW g, Consistent(g), Settled(g),
         NEW P \in Parties \ g.live, NEW p \in Players, g.party[p] = NoParty,
         NEW q \in Players
  PROVE  LET h == Invited(Created(g, P, p), P, q)
         IN  /\ Consistent(h) /\ Settled(h)
             /\ h.live = g.live \union {P} /\ h.leader[P] = p
             /\ h.party = [g.party EXCEPT ![p] = P]
             /\ h.invitePartyList =
                  [g.invitePartyList EXCEPT ![q] = @ \union {P}]
<1> DEFINE c == Created(g, P, p)
           h == Invited(c, P, q)
<1>0. /\ g \in Groups
      /\ c \in Groups
      /\ c.live = g.live \union {P}
      /\ c.leader = [g.leader EXCEPT ![P] = p]
      /\ c.party = [g.party EXCEPT ![p] = P]
      /\ c.memberList = g.memberList
      /\ c.inviteList = g.inviteList
      /\ c.invitePartyList = g.invitePartyList
  BY CreatedFields DEF Consistent
<1> HIDE DEF c
<1>1. /\ h \in Groups
      /\ h.live = g.live \union {P}
      /\ h.leader = [g.leader EXCEPT ![P] = p]
      /\ h.party = [g.party EXCEPT ![p] = P]
      /\ h.memberList = g.memberList
      /\ h.inviteList = [g.inviteList EXCEPT ![P] = @ \union {q}]
      /\ h.invitePartyList = [g.invitePartyList EXCEPT ![q] = @ \union {P}]
  <2>1. ASSUME NEW x \in Groups
        PROVE  /\ Invited(x, P, q) \in Groups
               /\ Invited(x, P, q).live = x.live
               /\ Invited(x, P, q).leader = x.leader
               /\ Invited(x, P, q).party = x.party
               /\ Invited(x, P, q).memberList = x.memberList
               /\ Invited(x, P, q).inviteList = [x.inviteList EXCEPT ![P] = @ \union {q}]
               /\ Invited(x, P, q).invitePartyList =
                    [x.invitePartyList EXCEPT ![q] = @ \union {P}]
    BY ONLY <2>1, InvitedFields, P \in Parties, q \in Players
  <2>2. /\ h \in Groups
        /\ h.live = c.live
        /\ h.leader = c.leader
        /\ h.party = c.party
        /\ h.memberList = c.memberList
        /\ h.inviteList = [c.inviteList EXCEPT ![P] = @ \union {q}]
        /\ h.invitePartyList = [c.invitePartyList EXCEPT ![q] = @ \union {P}]
    BY <1>0, <2>1, InvitedFields
  <2> QED
    BY <1>0, <2>2
<1> HIDE DEF h
<1>2. Led(h) /\ Mirrored(h) /\ Buried(h)
  BY <1>1, Typed, PartyAssumption DEF Consistent, Led, Mirrored, Buried
<1>3. Enrolled(h)
  BY <1>1, Typed, PartyAssumption DEF Consistent, Led, Enrolled
<1>4. Crewed(h)
  BY <1>1, Typed, PartyAssumption DEF Consistent, Led, Crewed, CrewOf, Buried
<1>5. Settled(h)
  <2>1. q \in h.inviteList[P]
    BY <1>1, Typed
  <2>2. \A Q \in g.live : h.inviteList[Q] = g.inviteList[Q]
    BY <1>1, Typed
  <2> QED
    BY <1>1, <2>1, <2>2 DEF Settled, Empty
<1> QED
  BY <1>1, <1>2, <1>3, <1>4, <1>5, Typed DEF Consistent, h, c

(* invitePlayer on an existing party keeps the membership consistent.      *)
LEMMA InvitedConsistent ==
  ASSUME NEW g, Consistent(g), Settled(g), NEW P \in g.live, NEW q \in Players
  PROVE  LET h == Invited(g, P, q)
         IN  /\ Consistent(h) /\ Settled(h) /\ h.party = g.party
             /\ h.invitePartyList = [g.invitePartyList EXCEPT ![q] = @ \union {P}]
<1> DEFINE h == Invited(g, P, q)
<1>0. g \in Groups /\ P \in Parties
  BY Typed DEF Consistent
<1>1. /\ h \in Groups
      /\ h.live = g.live /\ h.leader = g.leader /\ h.party = g.party
      /\ h.memberList = g.memberList
      /\ h.inviteList = [g.inviteList EXCEPT ![P] = @ \union {q}]
      /\ h.invitePartyList = [g.invitePartyList EXCEPT ![q] = @ \union {P}]
  BY <1>0 DEF Invited, Groups
<1> HIDE DEF h
<1>2. Led(h) /\ Enrolled(h) /\ Crewed(h)
  BY <1>1 DEF Consistent, Led, Enrolled, Crewed, CrewOf
<1>3. Mirrored(h) /\ Buried(h)
  BY <1>0, <1>1, Typed DEF Consistent, Mirrored, Buried
<1>4. \A Q \in g.live : g.inviteList[Q] \subseteq h.inviteList[Q]
  BY <1>0, <1>1, Typed
<1>5. Settled(h)
  BY <1>1, <1>4 DEF Settled, Empty
<1> QED
  BY <1>1, <1>2, <1>3, <1>5 DEF Consistent, h

-----------------------------------------------------------------------------
(* What disband leaves behind, field by field.                             *)
LEMMA DisbandedFields ==
  ASSUME NEW g \in Groups, NEW P \in Parties
  PROVE  LET crew == {q \in Players : q = g.leader[P] \/ q \in g.memberList[P]}
         IN  /\ Disbanded(g, P) \in Groups
             /\ Disbanded(g, P).live = g.live \ {P}
             /\ Disbanded(g, P).party =
                  [q \in Players |-> IF q \in crew THEN NoParty ELSE g.party[q]]
             /\ Disbanded(g, P).invitePartyList =
                  [q \in Players |-> IF q \in g.inviteList[P]
                                       THEN g.invitePartyList[q] \ {P}
                                       ELSE g.invitePartyList[q]]
             /\ Disbanded(g, P).leader = [g.leader EXCEPT ![P] = NoPlayer]
             /\ Disbanded(g, P).memberList = [g.memberList EXCEPT ![P] = {}]
             /\ Disbanded(g, P).inviteList = [g.inviteList EXCEPT ![P] = {}]
BY ZenonT(60) DEF Disbanded, Groups

(* A party whose leader may already have left it, in an otherwise          *)
(* consistent membership.                                                  *)
Forsaken(g, P) ==
  /\ g \in Groups /\ Led(g) /\ Enrolled(g) /\ Mirrored(g) /\ Buried(g)
  /\ P \in g.live
  /\ \A Q \in g.live \ {P} : CrewOf(g, Q) /\ ~Empty(g, Q)
  /\ g.party[g.leader[P]] \in {P, NoParty}
  /\ \A m \in g.memberList[P] : g.party[m] = P

(* ... whoever still points at it is released, and the rest is consistent. *)
LEMMA DisbandedConsistent ==
  ASSUME NEW g, NEW P, Forsaken(g, P)
  PROVE  LET h == Disbanded(g, P)
         IN  Consistent(h) /\ Settled(h) /\ Dwindles(g, h) /\ h.live = g.live \ {P}
<1> DEFINE h == Disbanded(g, P)
           crew == {q \in Players : q = g.leader[P] \/ q \in g.memberList[P]}
<1>0. /\ g \in Groups /\ Led(g) /\ Enrolled(g) /\ Mirrored(g) /\ Buried(g)
      /\ P \in g.live /\ P \in Parties
      /\ g.party \in [Players -> Parties \union {NoParty}]
      /\ g.invitePartyList \in [Players -> SUBSET Parties]
      /\ g.live \subseteq Parties
      /\ g.leader \in [Parties -> Players \union {NoPlayer}]
      /\ g.memberList \in [Parties -> SUBSET Players]
      /\ g.inviteList \in [Parties -> SUBSET Players]
  BY DEF Forsaken, Groups
<1>1. /\ h \in Groups
      /\ h.live = g.live \ {P}
      /\ h.party = [q \in Players |-> IF q \in crew THEN NoParty ELSE g.party[q]]
      /\ h.invitePartyList =
           [q \in Players |-> IF q \in g.inviteList[P] THEN g.invitePartyList[q] \ {P}
                                                     ELSE g.invitePartyList[q]]
      /\ h.leader = [g.leader EXCEPT ![P] = NoPlayer]
      /\ h.memberList = [g.memberList EXCEPT ![P] = {}]
      /\ h.inviteList = [g.inviteList EXCEPT ![P] = {}]
  BY <1>0, DisbandedFields
<1> HIDE DEF h
<1>2. Led(h) /\ Buried(h)
  BY <1>0, <1>1 DEF Led, Buried
<1>3. Mirrored(h)
  BY <1>0, <1>1 DEF Mirrored
<1>4. Enrolled(h)
  BY <1>0, <1>1, PartyAssumption DEF Enrolled
<1>5. ASSUME NEW Q \in h.live
      PROVE  CrewOf(h, Q) /\ ~Empty(h, Q)
  <2>1. /\ Q \in g.live /\ Q # P /\ Q \in Parties
        /\ CrewOf(g, Q) /\ ~Empty(g, Q) /\ g.leader[Q] \in Players
    BY <1>0, <1>1, <1>5 DEF Forsaken, Led
  <2>2. \A q \in crew : g.party[q] \in {P, NoParty}
    BY DEF Forsaken
  <2>3. \A q \in Players : g.party[q] = Q => h.party[q] = Q
    BY <1>0, <1>1, <2>1, <2>2, PartyAssumption
  <2>4. /\ h.leader[Q] = g.leader[Q] /\ h.memberList[Q] = g.memberList[Q]
        /\ h.inviteList[Q] = g.inviteList[Q] /\ g.memberList[Q] \subseteq Players
    BY <1>0, <1>1, <2>1
  <2>5. h.party[h.leader[Q]] = Q
    BY <2>1, <2>3, <2>4 DEF CrewOf
  <2>6. \A m \in h.memberList[Q] : h.party[m] = Q /\ m # h.leader[Q]
    BY <2>1, <2>3, <2>4 DEF CrewOf
  <2>7. ~Empty(h, Q)
    BY <2>1, <2>4 DEF Empty
  <2> QED
    BY <2>5, <2>6, <2>7 DEF CrewOf
<1>6. Dwindles(g, h)
  <2> SUFFICES ASSUME NEW q \in Players
               PROVE  /\ h.party[q] \in {g.party[q], NoParty}
                      /\ h.invitePartyList[q] \subseteq g.invitePartyList[q]
    BY DEF Dwindles
  <2>1. h.party[q] = IF q \in crew THEN NoParty ELSE g.party[q]
    BY <1>1
  <2>2. h.invitePartyList[q] = IF q \in g.inviteList[P] THEN g.invitePartyList[q] \ {P}
                                                       ELSE g.invitePartyList[q]
    BY <1>1
  <2> QED
    BY <2>1, <2>2
<1> QED
  BY <1>1, <1>2, <1>3, <1>4, <1>5, <1>6 DEF Consistent, Crewed, Settled, h

(* A call that disbands at least the parties that have become empty.       *)
LEMMA DisbandedIfConsistent ==
  ASSUME NEW g, Consistent(g), NEW P \in g.live,
         \A Q \in g.live \ {P} : ~Empty(g, Q),
         NEW condition \in BOOLEAN, Empty(g, P) => condition
  PROVE  LET h == DisbandedIf(condition, g, P)
         IN  Consistent(h) /\ Settled(h) /\ Dwindles(g, h) /\ h.live \subseteq g.live
<1>1. CASE condition
  <2>1. Forsaken(g, P)
    BY Typed DEF Forsaken, Consistent, Crewed, CrewOf
  <2> QED
    BY <1>1, <2>1, DisbandedConsistent DEF DisbandedIf
<1>2. CASE ~condition
  <2>1. DisbandedIf(condition, g, P) = g
    BY <1>2 DEF DisbandedIf
  <2> QED
    BY <1>2, <2>1 DEF Settled, Dwindles
<1> QED
  BY <1>1, <1>2

-----------------------------------------------------------------------------
(* removeInvite before it looks whether the party is empty.                *)
LEMMA UninvitedFields ==
  ASSUME NEW g, g \in Groups, NEW P \in Parties, NEW q \in Players
  PROVE  /\ Uninvited(g, P, q) \in Groups
         /\ Uninvited(g, P, q).live = g.live
         /\ Uninvited(g, P, q).leader = g.leader
         /\ Uninvited(g, P, q).party = g.party
         /\ Uninvited(g, P, q).memberList = g.memberList
         /\ Uninvited(g, P, q).inviteList = [g.inviteList EXCEPT ![P] = @ \ {q}]
         /\ Uninvited(g, P, q).invitePartyList =
              [g.invitePartyList EXCEPT ![q] = @ \ {P}]
BY DEF Uninvited, Groups

(* passPartyLeadership swaps the leader with a member.                     *)
LEMMA PassedFields ==
  ASSUME NEW g, g \in Groups, NEW P \in Parties, NEW q \in Players,
         g.leader[P] \in Players
  PROVE  /\ Passed(g, P, q) \in Groups
         /\ Passed(g, P, q).live = g.live
         /\ Passed(g, P, q).leader = [g.leader EXCEPT ![P] = q]
         /\ Passed(g, P, q).party = g.party
         /\ Passed(g, P, q).memberList =
              [g.memberList EXCEPT ![P] = (@ \ {q}) \union {g.leader[P]}]
         /\ Passed(g, P, q).inviteList = g.inviteList
         /\ Passed(g, P, q).invitePartyList = g.invitePartyList
BY DEF Passed, Groups

-----------------------------------------------------------------------------
(* removeInvite keeps the membership consistent, and only takes away.      *)
LEMMA RemovedConsistent ==
  ASSUME NEW g, Consistent(g), Settled(g), NEW P \in g.live, NEW q \in Players
  PROVE  LET h == InviteRemoved(g, P, q)
         IN  Consistent(h) /\ Settled(h) /\ Dwindles(g, h) /\ h.live \subseteq g.live
<1> DEFINE u == Uninvited(g, P, q)
<1>1. /\ u \in Groups /\ P \in Parties
      /\ u.live = g.live /\ u.leader = g.leader /\ u.party = g.party
      /\ u.memberList = g.memberList
      /\ u.inviteList = [g.inviteList EXCEPT ![P] = @ \ {q}]
      /\ u.invitePartyList = [g.invitePartyList EXCEPT ![q] = @ \ {P}]
  BY Typed, UninvitedFields, SMTT(60) DEF Consistent
<1>2. InviteRemoved(g, P, q) = DisbandedIf(Empty(u, P), u, P)
  BY DEF InviteRemoved
<1>3. Empty(u, P) \in BOOLEAN
  BY DEF Empty
<1> HIDE DEF u
<1>4. Consistent(u)
  <2>1. Led(u) /\ Enrolled(u) /\ Crewed(u)
    BY <1>1 DEF Consistent, Led, Enrolled, Crewed, CrewOf
  <2>2. Mirrored(u)
    BY <1>1, Typed DEF Consistent, Mirrored
  <2>3. Buried(u)
    BY <1>1, Typed DEF Consistent, Buried
  <2> QED
    BY <1>1, <2>1, <2>2, <2>3 DEF Consistent
<1>5. \A Q \in u.live \ {P} : ~Empty(u, Q)
  <2>1. \A Q \in g.live \ {P} : u.inviteList[Q] = g.inviteList[Q]
    BY <1>1, Typed
  <2> QED
    BY <1>1, <2>1 DEF Settled, Empty
<1>6. Dwindles(g, u)
  BY <1>1, Typed DEF Dwindles
<1>7. /\ Consistent(DisbandedIf(Empty(u, P), u, P))
      /\ Settled(DisbandedIf(Empty(u, P), u, P))
      /\ Dwindles(u, DisbandedIf(Empty(u, P), u, P))
      /\ DisbandedIf(Empty(u, P), u, P).live \subseteq u.live
  <2>1. P \in u.live
    BY <1>1
  <2> QED
    BY <1>3, <1>4, <1>5, <2>1, DisbandedIfConsistent
<1>8. Dwindles(g, DisbandedIf(Empty(u, P), u, P))
  BY <1>6, <1>7 DEF Dwindles
<1> QED
  BY <1>1, <1>2, <1>7, <1>8

(* joinParty turns an invitation into a membership on both sides.          *)
LEMMA JoinedConsistent ==
  ASSUME NEW g, Consistent(g), Settled(g), NEW P \in g.live,
         NEW q \in Players, g.party[q] = NoParty
  PROVE  LET h == Joined(g, P, q)
         IN  /\ Consistent(h) /\ Settled(h)
             /\ h.live = g.live
             /\ h.party = [g.party EXCEPT ![q] = P]
             /\ h.invitePartyList = [g.invitePartyList EXCEPT ![q] = @ \ {P}]
<1> DEFINE h == Joined(g, P, q)
<1>0. g \in Groups /\ P \in Parties
  BY Typed DEF Consistent
<1>1. /\ h \in Groups /\ P \in Parties
      /\ h.live = g.live /\ h.leader = g.leader
      /\ h.party = [g.party EXCEPT ![q] = P]
      /\ h.memberList = [g.memberList EXCEPT ![P] = @ \union {q}]
      /\ h.inviteList = [g.inviteList EXCEPT ![P] = @ \ {q}]
      /\ h.invitePartyList = [g.invitePartyList EXCEPT ![q] = @ \ {P}]
  BY <1>0 DEF Joined, Groups
<1> HIDE DEF h
<1>2. Led(h) /\ Mirrored(h)
  BY <1>1, Typed DEF Consistent, Led, Mirrored
<1>3. Buried(h)
  BY <1>1, Typed DEF Consistent, Buried
<1>4. Enrolled(h)
  BY <1>1, Typed, PartyAssumption DEF Consistent, Enrolled
<1>5. Crewed(h)
  <2>1. \A Q \in g.live : g.party[g.leader[Q]] = Q /\ Q # NoParty
    BY Typed, PartyAssumption DEF Consistent, Crewed, CrewOf
  <2>2. \A Q \in g.live : q # g.leader[Q] /\ q \notin g.memberList[Q]
    BY <2>1, PartyAssumption DEF Consistent, Crewed, CrewOf
  <2> QED
    BY <1>1, <2>1, <2>2, Typed DEF Consistent, Crewed, CrewOf
<1>6. Settled(h)
  <2>1. q \in h.memberList[P]
    BY <1>1, Typed
  <2>2. \A Q \in g.live \ {P} : h.memberList[Q] = g.memberList[Q]
                               /\ h.inviteList[Q] = g.inviteList[Q]
    BY <1>1, Typed
  <2> QED
    BY <1>1, <2>1, <2>2 DEF Settled, Empty
<1> QED
  BY <1>1, <1>2, <1>3, <1>4, <1>5, <1>6 DEF Consistent, h

(* passPartyLeadership loses nobody: the former leader becomes a member.   *)
LEMMA PassedConsistent ==
  ASSUME NEW g, Consistent(g), NEW P \in g.live, NEW q \in g.memberList[P]
  PROVE  LET h == Passed(g, P, q)
         IN  /\ Consistent(h) /\ (Settled(g) => Settled(h))
             /\ h.live = g.live /\ h.party = g.party
             /\ h.invitePartyList = g.invitePartyList
             /\ h.inviteList = g.inviteList
             /\ h.leader[P] = q
             /\ h.memberList[P] = (g.memberList[P] \ {q}) \union {g.leader[P]}
<1> DEFINE h == Passed(g, P, q)
<1>0. P \in Parties /\ q \in Players /\ g.leader[P] \in Players /\ q # g.leader[P]
  BY Typed DEF Consistent, Crewed, CrewOf
<1>1. /\ h \in Groups
      /\ h.live = g.live /\ h.party = g.party
      /\ h.leader = [g.leader EXCEPT ![P] = q]
      /\ h.memberList = [g.memberList EXCEPT ![P] = (@ \ {q}) \union {g.leader[P]}]
      /\ h.inviteList = g.inviteList
      /\ h.invitePartyList = g.invitePartyList
  BY <1>0, PassedFields DEF Consistent
<1> HIDE DEF h
<1>2. Led(h) /\ Mirrored(h) /\ Buried(h)
  BY <1>0, <1>1, Typed, PartyAssumption DEF Consistent, Led, Mirrored, Buried
<1>3. Enrolled(h)
  BY <1>0, <1>1, Typed DEF Consistent, Enrolled
<1>4. ASSUME NEW Q \in g.live
      PROVE  CrewOf(h, Q)
  <2>1. CASE Q = P
    <3>1. /\ h.leader[P] = q
          /\ h.memberList[P] = (g.memberList[P] \ {q}) \union {g.leader[P]}
      BY <1>0, <1>1, Typed
    <3>2. CrewOf(g, P)
      BY DEF Consistent, Crewed
    <3> QED
      BY <1>0, <1>1, <2>1, <3>1, <3>2 DEF CrewOf
  <2>2. CASE Q # P
    <3>1. h.leader[Q] = g.leader[Q] /\ h.memberList[Q] = g.memberList[Q]
      BY <1>0, <1>1, <2>2, Typed
    <3>2. CrewOf(g, Q)
      BY DEF Consistent, Crewed
    <3> QED
      BY <1>1, <3>1, <3>2 DEF CrewOf
  <2> QED
    BY <2>1, <2>2
<1>5. /\ h.leader[P] = q
      /\ h.memberList[P] = (g.memberList[P] \ {q}) \union {g.leader[P]}
      /\ \A Q \in g.live \ {P} : h.memberList[Q] = g.memberList[Q]
  BY <1>0, <1>1, Typed
<1>6. Settled(g) => Settled(h)
  BY <1>1, <1>5 DEF Settled, Empty
<1> QED
  BY <1>1, <1>2, <1>3, <1>4, <1>5, <1>6 DEF Consistent, Crewed, h

-----------------------------------------------------------------------------
(* leaveParty.  The membership between the removal of the player and the   *)
(* decision to disband: sound when a member left, forsaken when it was the *)
(* leader.                                                                 *)
LEMMA MemberDeparted ==
  ASSUME NEW g, Consistent(g), NEW P \in g.live, NEW p \in g.memberList[P]
  PROVE  LET h == Departed(g, P, p)
         IN  /\ Consistent(h) /\ h.live = g.live
             /\ h.party = [g.party EXCEPT ![p] = NoParty]
             /\ h.invitePartyList = g.invitePartyList
             /\ \A Q \in g.live \ {P} :
                  h.memberList[Q] = g.memberList[Q] /\ h.inviteList[Q] = g.inviteList[Q]
<1> DEFINE h == Departed(g, P, p)
<1>0. /\ P \in Parties /\ p \in Players
      /\ g \in Groups /\ g.party[p] = P /\ p # g.leader[P]
  BY Typed DEF Consistent, Crewed, CrewOf
<1>1. /\ h \in Groups
      /\ h.live = g.live /\ h.leader = g.leader
      /\ h.party = [g.party EXCEPT ![p] = NoParty]
      /\ h.memberList = [g.memberList EXCEPT ![P] = @ \ {p}]
      /\ h.inviteList = g.inviteList
      /\ h.invitePartyList = g.invitePartyList
  BY <1>0 DEF Departed, Groups
<1> HIDE DEF h
<1>2. Led(h) /\ Mirrored(h)
  BY <1>1 DEF Consistent, Led, Mirrored
<1>3. Buried(h)
  BY <1>0, <1>1, Typed DEF Consistent, Buried
<1>4. Enrolled(h)
  BY <1>0, <1>1, Typed, PartyAssumption DEF Consistent, Enrolled
<1>5. Crewed(h)
  <2> SUFFICES ASSUME NEW Q \in g.live
               PROVE  CrewOf(h, Q)
    BY <1>1 DEF Crewed
  <2>1. /\ CrewOf(g, Q) /\ g.leader[Q] \in Players /\ g.memberList[Q] \subseteq Players
        /\ Q \in Parties
    BY Typed DEF Consistent, Crewed
  <2>2. h.memberList[Q] = IF Q = P THEN g.memberList[Q] \ {p} ELSE g.memberList[Q]
    BY <1>0, <1>1, <2>1, Typed, ZenonT(60)
  <2>3. \A q \in Players \ {p} : h.party[q] = g.party[q]
    BY <1>1, Typed
  <2> QED
    BY <1>0, <1>1, <2>1, <2>2, <2>3 DEF CrewOf
<1>6. \A Q \in g.live \ {P} :
        h.memberList[Q] = g.memberList[Q] /\ h.inviteList[Q] = g.inviteList[Q]
  BY <1>0, <1>1, Typed
<1> QED
  BY <1>1, <1>2, <1>3, <1>4, <1>5, <1>6 DEF Consistent, h

(* Without its leader the party is forsaken: disband has to follow.        *)
LEMMA LeaderDeparted ==
  ASSUME NEW g, Consistent(g), Settled(g), NEW P \in g.live
  PROVE  LET h == Departed(g, P, g.leader[P])
         IN  /\ Forsaken(h, P) /\ h.live = g.live
             /\ h.party = [g.party EXCEPT ![g.leader[P]] = NoParty]
             /\ h.invitePartyList = g.invitePartyList
<1> DEFINE p == g.leader[P]
           h == Departed(g, P, p)
<1>0. /\ P \in Parties /\ p \in Players /\ g \in Groups /\ CrewOf(g, P)
  BY Typed DEF Consistent, Crewed
<1>1. /\ h \in Groups
      /\ h.live = g.live /\ h.leader = g.leader
      /\ h.party = [g.party EXCEPT ![p] = NoParty]
      /\ h.memberList = [g.memberList EXCEPT ![P] = @ \ {p}]
      /\ h.inviteList = g.inviteList
      /\ h.invitePartyList = g.invitePartyList
  BY <1>0 DEF Departed, Groups
<1>2. h.memberList = g.memberList
  <2>1. g.memberList[P] \ {p} = g.memberList[P]
    BY <1>0 DEF CrewOf
  <2>2. g.memberList \in [Parties -> SUBSET Players]
    BY Typed
  <2>3. \A Q \in Parties : [g.memberList EXCEPT ![P] = @ \ {p}][Q] = g.memberList[Q]
    BY <2>1, <2>2
  <2> QED
    BY <1>1, <2>2, <2>3
<1> HIDE DEF h, p
<1>3. Led(h) /\ Mirrored(h) /\ Buried(h)
  BY <1>1, <1>2 DEF Consistent, Led, Mirrored, Buried
<1>4. Enrolled(h)
  BY <1>0, <1>1, <1>2, Typed, PartyAssumption DEF Consistent, Enrolled
<1>5. \A q \in Players : q # p => h.party[q] = g.party[q]
  BY <1>1, Typed
<1>6. /\ h.party[h.leader[P]] \in {P, NoParty}
      /\ \A m \in h.memberList[P] : h.party[m] = P
  <2>1. g.leader[P] = p
    BY DEF p
  <2>2. \A m \in g.memberList[P] : m \in Players /\ m # p /\ g.party[m] = P
    BY <1>0, <2>1, Typed DEF CrewOf
  <2>3. h.party[p] = NoParty
    BY <1>0, <1>1, Typed
  <2> QED
    BY <1>1, <1>2, <1>5, <2>1, <2>2, <2>3
<1>7. ASSUME NEW Q \in g.live \ {P}
      PROVE  CrewOf(h, Q) /\ ~Empty(h, Q)
  <2>1. /\ CrewOf(g, Q) /\ g.leader[Q] \in Players /\ g.memberList[Q] \subseteq Players
        /\ ~Empty(g, Q)
    BY Typed DEF Consistent, Crewed, Settled
  <2>2. g.party[p] = P
    BY <1>0 DEF p, CrewOf
  <2> QED
    BY <1>1, <1>2, <1>5, <2>1, <2>2 DEF CrewOf, Empty
<1> QED
  BY <1>1, <1>3, <1>4, <1>6, <1>7 DEF Forsaken, h, p

(* A member leaves, and disband follows if that empties the party.         *)
LEMMA MemberLeft ==
  ASSUME NEW g, Consistent(g), NEW P \in g.live, NEW p \in g.memberList[P],
         \A Q \in g.live \ {P} : ~Empty(g, Q)
  PROVE  LET d == Departed(g, P, p)
             h == DisbandedIf(Empty(d, P), d, P)
         IN  /\ Consistent(h) /\ Settled(h) /\ Dwindles(g, h)
             /\ h.party[p] = NoParty /\ h.live \subseteq g.live
<1> DEFINE d == Departed(g, P, p)
           h == DisbandedIf(Empty(d, P), d, P)
<1>1. /\ Consistent(d) /\ d.live = g.live /\ p \in Players
      /\ d.party = [g.party EXCEPT ![p] = NoParty]
      /\ d.invitePartyList = g.invitePartyList
      /\ \A Q \in g.live \ {P} :
           d.memberList[Q] = g.memberList[Q] /\ d.inviteList[Q] = g.inviteList[Q]
  BY MemberDeparted, Typed
<1> HIDE DEF d
<1>2. P \in d.live /\ Empty(d, P) \in BOOLEAN
  BY <1>1 DEF Empty
<1>3. \A Q \in d.live \ {P} : ~Empty(d, Q)
  BY <1>1 DEF Empty
<1>4. Consistent(h) /\ Settled(h) /\ Dwindles(d, h) /\ h.live \subseteq d.live
  BY <1>1, <1>2, <1>3, DisbandedIfConsistent
<1> HIDE DEF h
<1>5. Dwindles(g, d) /\ d.party[p] = NoParty
  BY <1>1, Typed DEF Dwindles
<1>6. Dwindles(g, h) /\ h.party[p] = NoParty
  BY <1>1, <1>4, <1>5 DEF Dwindles
<1> QED
  BY <1>1, <1>4, <1>6 DEF h, d

(* Whoever leaves is out, and the party he left has a leader or is gone.   *)
LEMMA LeftConsistent ==
  ASSUME NEW g, Consistent(g), Settled(g), NEW p \in Players, g.party[p] # NoParty,
         NEW heir, heir \in Heirs(g, g.party[p], p) \/ Heirs(g, g.party[p], p) = {}
  PROVE  LET h == Left(g, g.party[p], p, heir)
         IN  /\ Consistent(h) /\ Settled(h) /\ Dwindles(g, h)
             /\ h.party[p] = NoParty /\ h.live \subseteq g.live
<1> DEFINE P == g.party[p]
           missing == MissingLeader(g, P, p)
           h == Left(g, P, p, heir)
<1>0. /\ P \in g.live /\ (p = g.leader[P] \/ p \in g.memberList[P]) /\ CrewOf(g, P)
      /\ missing \in BOOLEAN
      /\ \A Q \in g.live \ {P} : ~Empty(g, Q)
  BY DEF Consistent, Enrolled, Crewed, Settled, MissingLeader
<1> HIDE DEF P
<1>1. CASE g.leader[P] # p
  <2>1. p \in g.memberList[P]
    BY <1>0, <1>1
  <2>2. h = DisbandedIf(Empty(Departed(g, P, p), P), Departed(g, P, p), P)
    BY <1>1 DEF Left, MissingLeader, DisbandedIf
  <2> HIDE DEF h
  <2> QED
    BY <1>0, <2>1, <2>2, MemberLeft DEF h, P
<1>2. CASE g.leader[P] = p /\ missing
  <2>1. h = Disbanded(Departed(g, P, p), P)
    BY <1>2 DEF Left, DisbandedIf
  <2> DEFINE d == Departed(g, P, p)
  <2>2. /\ Forsaken(d, P) /\ d.live = g.live
        /\ d.party = [g.party EXCEPT ![p] = NoParty]
        /\ d.invitePartyList = g.invitePartyList
    BY <1>0, <1>2, LeaderDeparted
  <2> HIDE DEF d, h
  <2>3. h = Disbanded(d, P)
    BY <2>1 DEF d
  <2>4. Consistent(h) /\ Settled(h) /\ Dwindles(d, h) /\ h.live \subseteq g.live
    BY <2>2, <2>3, DisbandedConsistent
  <2>5. Dwindles(g, d) /\ d.party[p] = NoParty
    BY <2>2, Typed DEF Dwindles
  <2>6. Dwindles(g, h) /\ h.party[p] = NoParty
    BY <2>2, <2>4, <2>5 DEF Dwindles
  <2> QED
    BY <2>4, <2>6 DEF h, P
<1>3. CASE g.leader[P] = p /\ ~missing
  <2> DEFINE s == Passed(g, P, heir)
  <2>1. heir \in g.memberList[P]
    BY <1>0, <1>3 DEF Heirs, MissingLeader, P
  <2>2. /\ Consistent(s) /\ Settled(s) /\ s.live = g.live /\ s.party = g.party
        /\ s.invitePartyList = g.invitePartyList
        /\ s.memberList[P] = (g.memberList[P] \ {heir}) \union {g.leader[P]}
    BY <1>0, <2>1, PassedConsistent
  <2>3. h = DisbandedIf(Empty(Departed(s, P, p), P), Departed(s, P, p), P)
    BY <1>3 DEF Left, DisbandedIf
  <2> HIDE DEF s, h
  <2>4. P \in s.live /\ p \in s.memberList[P] /\ \A Q \in s.live \ {P} : ~Empty(s, Q)
    BY <1>0, <1>3, <2>2 DEF Settled
  <2>5. /\ Consistent(h) /\ Settled(h) /\ Dwindles(s, h)
        /\ h.party[p] = NoParty /\ h.live \subseteq s.live
    BY <2>2, <2>3, <2>4, MemberLeft
  <2>6. Dwindles(g, h)
    BY <2>2, <2>5 DEF Dwindles
  <2> QED
    BY <2>2, <2>5, <2>6 DEF h, P
<1> QED
  BY <1>0, <1>1, <1>2, <1>3 DEF P

-----------------------------------------------------------------------------
(* clearPartyInvitations disbands every party it empties.                  *)
LEMMA ClearedConsistent ==
  ASSUME NEW g, Consistent(g), Settled(g), NEW p \in Players
  PROVE  LET h == Cleared(g, p)
         IN  /\ Consistent(h) /\ Settled(h) /\ Dwindles(g, h)
             /\ h.invitePartyList[p] = {} /\ h.live \subseteq g.live
<1> DEFINE invites == [P \in Parties |->
                         IF P \in g.invitePartyList[p] THEN g.inviteList[P] \ {p}
                                                       ELSE g.inviteList[P]]
           gone == {P \in g.invitePartyList[p] :
                      g.memberList[P] = {} /\ invites[P] = {}}
           h == Cleared(g, p)
<1>0. g \in Groups
  BY DEF Consistent
<1>1. /\ g \in Groups /\ h \in Groups
      /\ h.live = g.live \ gone
      /\ h.leader = [P \in Parties |-> IF P \in gone THEN NoPlayer ELSE g.leader[P]]
      /\ h.party = [q \in Players |-> IF \E P \in gone : g.leader[P] = q
                                     THEN NoParty ELSE g.party[q]]
      /\ h.memberList = g.memberList
      /\ h.inviteList = invites
      /\ h.invitePartyList = [g.invitePartyList EXCEPT ![p] = {}]
  BY <1>0, Zenon DEF Cleared, Groups
<1>2. /\ g.party \in [Players -> Parties \union {NoParty}]
      /\ g.invitePartyList \in [Players -> SUBSET Parties]
      /\ g.live \subseteq Parties
      /\ g.leader \in [Parties -> Players \union {NoPlayer}]
      /\ g.memberList \in [Parties -> SUBSET Players]
      /\ g.inviteList \in [Parties -> SUBSET Players]
  BY Typed
<1>3. \A P \in Parties : invites[P] = g.inviteList[P] \ {p}
  BY <1>2 DEF Consistent, Mirrored
<1>4. \A P \in gone : /\ P \in g.live /\ P \in Parties
                     /\ g.memberList[P] = {} /\ g.inviteList[P] \subseteq {p}
                     /\ CrewOf(g, P)
  <2> SUFFICES ASSUME NEW P \in gone
               PROVE  /\ P \in g.live /\ P \in Parties
                      /\ g.memberList[P] = {} /\ g.inviteList[P] \subseteq {p}
                      /\ CrewOf(g, P)
    OBVIOUS
  <2>1. P \in Parties /\ p \in g.inviteList[P]
    BY <1>2 DEF Consistent, Mirrored
  <2>2. P \in g.live
    BY <2>1 DEF Consistent, Buried
  <2> QED
    BY <1>3, <2>1, <2>2 DEF Consistent, Crewed
<1>5. \A P \in g.live \ gone : g.memberList[P] # {} \/ invites[P] # {}
  BY <1>2 DEF Settled, Empty
<1> HIDE DEF invites, gone, h
<1>6. Led(h)
  BY <1>1, <1>2, PartyAssumption DEF Consistent, Led
<1>7. Mirrored(h)
  <2> SUFFICES ASSUME NEW q \in Players, NEW P \in Parties
               PROVE  q \in h.inviteList[P] <=> P \in h.invitePartyList[q]
    BY DEF Mirrored
  <2>1. h.invitePartyList[q] = IF q = p THEN {} ELSE g.invitePartyList[q]
    BY <1>1, <1>2
  <2>2. h.inviteList[P] = g.inviteList[P] \ {p}
    BY <1>1, <1>3
  <2>3. q \in g.inviteList[P] <=> P \in g.invitePartyList[q]
    BY DEF Consistent, Mirrored
  <2> QED
    BY <2>1, <2>2, <2>3
<1>8. Buried(h)
  <2> SUFFICES ASSUME NEW P \in Parties \ h.live
               PROVE  h.memberList[P] = {} /\ h.inviteList[P] = {}
    BY DEF Buried
  <2>1. P \notin g.live \/ P \in gone
    BY <1>1
  <2>2. g.memberList[P] = {} /\ g.inviteList[P] \subseteq {p}
    BY <1>4, <2>1 DEF Consistent, Buried
  <2> QED
    BY <1>1, <1>3, <2>2
<1>9. ASSUME NEW q \in Players, h.party[q] # NoParty
      PROVE  /\ h.party[q] = g.party[q] /\ g.party[q] \in h.live
             /\ q = h.leader[g.party[q]] \/ q \in h.memberList[g.party[q]]
  <2>1. h.party[q] = g.party[q] /\ ~(\E P \in gone : g.leader[P] = q)
    BY <1>1, <1>9
  <2> DEFINE P == g.party[q]
  <2>2. P \in g.live /\ P \in Parties /\ (q = g.leader[P] \/ q \in g.memberList[P])
    BY <1>2, <1>9, <2>1 DEF Consistent, Enrolled
  <2> HIDE DEF P
  <2>3. P \notin gone
    BY <1>4, <2>1, <2>2
  <2>4. h.leader[P] = g.leader[P]
    BY <1>1, <2>2, <2>3
  <2> QED
    BY <1>1, <2>1, <2>2, <2>3, <2>4 DEF P
<1>10. Enrolled(h)
  BY <1>9 DEF Enrolled
<1>11. ASSUME NEW Q \in h.live
       PROVE  CrewOf(h, Q) /\ ~Empty(h, Q)
  <2>1. /\ Q \in g.live /\ Q \notin gone /\ Q \in Parties /\ CrewOf(g, Q)
        /\ g.leader[Q] \in Players /\ g.memberList[Q] \subseteq Players
    BY <1>1, <1>2 DEF Consistent, Crewed, Led
  <2>2. \A q \in Players : g.party[q] = Q => h.party[q] = Q
    <3> SUFFICES ASSUME NEW q \in Players, g.party[q] = Q
                 PROVE  ~(\E P \in gone : g.leader[P] = q)
      BY <1>1
    <3> QED
      BY <1>4, <2>1 DEF CrewOf
  <2>3. h.leader[Q] = g.leader[Q]
    BY <1>1, <2>1
  <2>4. h.party[h.leader[Q]] = Q
    BY <2>1, <2>2, <2>3 DEF CrewOf
  <2>5. \A m \in h.memberList[Q] : h.party[m] = Q /\ m # h.leader[Q]
    BY <1>1, <2>1, <2>2, <2>3 DEF CrewOf
  <2>6. ~Empty(h, Q)
    BY <1>1, <1>5, <2>1 DEF Empty
  <2> QED
    BY <2>4, <2>5, <2>6 DEF CrewOf
<1>12. Dwindles(g, h)
  <2> SUFFICES ASSUME NEW q \in Players
               PROVE  /\ h.party[q] \in {g.party[q], NoParty}
                      /\ h.invitePartyList[q] \subseteq g.invitePartyList[q]
    BY DEF Dwindles
  <2>1. h.party[q] \in {g.party[q], NoParty}
    BY <1>1
  <2>2. h.invitePartyList[q] \in {g.invitePartyList[q], {}}
    BY <1>1, <1>2
  <2> QED
    BY <2>1, <2>2
<1>13. h.invitePartyList[p] = {}
  BY <1>1, <1>2
<1> QED
  BY <1>1, <1>6, <1>7, <1>8, <1>10, <1>11, <1>12, <1>13
     DEF Consistent, Crewed, Settled, h

-----------------------------------------------------------------------------
(* The shared experience keeps its shape.                                  *)
LEMMA SharedKept ==
  ASSUME NEW s \in Shareds, NEW g, NEW P \in Parties, NEW p \in Players
  PROVE  /\ Updated(s, g, P) \in Shareds
         /\ BonusUpdated(s, P) \in Shareds
         /\ FreshShared(s, P) \in Shareds
         /\ PointsCleared(s, g, P, p) \in Shareds
<1>1. \A x \in Shareds : Updated(x, g, P) \in Shareds
  <2>1. CanEnable(s, g, P) \in BOOLEAN
    BY DEF CanEnable, CanUse
  <2> QED
    BY <2>1 DEF Updated, Shareds, CanEnable, CanUse
<1>2. BonusUpdated(s, P) \in Shareds
  BY DEF BonusUpdated, Shareds
<1>3. FreshShared(s, P) \in Shareds
  BY DEF FreshShared, Shareds
<1>4. [s EXCEPT !.ticks[P][p] = "none"] \in Shareds
  BY DEF Shareds
<1>5. PointsCleared(s, g, P, p) \in Shareds
  BY <1>1, <1>4 DEF PointsCleared
<1> QED
  BY <1>1, <1>2, <1>3, <1>5

(* ... and so do the assignments the actions make themselves.              *)
LEMMA SharedSet ==
  ASSUME NEW s \in Shareds, NEW P \in Parties, NEW p \in Players
  PROVE  /\ \A t \in {"none", "fresh", "stale"} : [s EXCEPT !.ticks[P][p] = t] \in Shareds
         /\ \A b \in BOOLEAN : [s EXCEPT !.active[P] = b] \in Shareds
         /\ \A f \in SUBSET Players : [s EXCEPT !.fit = f] \in Shareds
<1>1. \A t \in {"none", "fresh", "stale"} : [s EXCEPT !.ticks[P][p] = t] \in Shareds
  BY DEF Shareds
<1>2. \A b \in BOOLEAN : [s EXCEPT !.active[P] = b] \in Shareds
  BY DEF Shareds
<1>3. \A f \in SUBSET Players : [s EXCEPT !.fit = f] \in Shareds
  BY DEF Shareds
<1> QED
  BY <1>1, <1>2, <1>3

-----------------------------------------------------------------------------
(* The inductive invariant: the membership is consistent between any two   *)
(* operations, and nothing points at a player who is not there.            *)
Forgotten ==
  \A p \in Players \ online :
    group.party[p] = NoParty /\ group.invitePartyList[p] = {}

IInv ==
  /\ online \subseteq Players /\ shared \in Shareds
  /\ Consistent(group) /\ Settled(group) /\ Forgotten

(* What JoinedByInvitation says of one step from g to h.                   *)
Admitted(g, h) ==
  \A p \in Players :
    h.party[p] \notin {g.party[p], NoParty} =>
      /\ g.party[p] = NoParty
      /\ \/ h.party[p] \in g.invitePartyList[p]
         \/ h.party[p] \notin g.live /\ h.leader[h.party[p]] = p

(* An operation that only takes away admits nobody and forgets nothing it  *)
(* should keep in mind.                                                    *)
LEMMA DwindlingStep ==
  ASSUME NEW g, NEW h, Dwindles(g, h)
  PROVE  /\ Admitted(g, h)
         /\ \A p \in Players : g.party[p] = NoParty /\ g.invitePartyList[p] = {} =>
              h.party[p] = NoParty /\ h.invitePartyList[p] = {}
<1>1. ASSUME NEW p \in Players, g.party[p] = NoParty, g.invitePartyList[p] = {}
      PROVE  h.party[p] = NoParty /\ h.invitePartyList[p] = {}
  BY <1>1 DEF Dwindles
<1> QED
  BY <1>1 DEF Admitted, Dwindles

(* leaveParty, for the player who asked for it or is logging out.          *)
LEMMA Leaving ==
  ASSUME NEW g, Consistent(g), Settled(g), NEW p \in Players, g.party[p] # NoParty,
         shared \in Shareds, Leaves(g, p)
  PROVE  /\ Consistent(group') /\ Settled(group') /\ Dwindles(g, group')
         /\ group'.party[p] = NoParty /\ shared' \in Shareds
<1> DEFINE P == g.party[p]
<1>1. P \in Parties
  BY Typed
<1>2. PICK heir : /\ heir \in Heirs(g, P, p) \/ Heirs(g, P, p) = {}
                  /\ group' = Left(g, P, p, heir)
  BY DEF Leaves
<1>3. /\ Consistent(group') /\ Settled(group') /\ Dwindles(g, group')
      /\ group'.party[p] = NoParty
  BY <1>2, LeftConsistent
<1>4. shared' = SharedAfterLeaving(shared, group', P, p)
  BY DEF Leaves
<1> HIDE DEF P
<1>5. shared' \in Shareds
  <2>1. \A s \in Shareds : /\ Updated(s, group', P) \in Shareds
                           /\ BonusUpdated(s, P) \in Shareds
                           /\ PointsCleared(s, group', P, p) \in Shareds
    BY <1>1, SharedKept
  <2> QED
    BY <1>4, <2>1 DEF SharedAfterLeaving
<1> QED
  BY <1>3, <1>5

(* Nobody is online and no party exists.                                   *)
LEMMA InitIInv ==
  Init => IInv
<1> SUFFICES ASSUME Init
             PROVE  IInv
  OBVIOUS
<1>1. /\ group \in Groups
      /\ group.party = [p \in Players |-> NoParty]
      /\ group.invitePartyList = [p \in Players |-> {}]
      /\ group.live = {}
      /\ group.leader = [P \in Parties |-> NoPlayer]
      /\ group.memberList = [P \in Parties |-> {}]
      /\ group.inviteList = [P \in Parties |-> {}]
  BY DEF Init, Groups
<1>2. shared \in Shareds /\ online = {}
  BY DEF Init, Shareds
<1>3. Led(group) /\ Enrolled(group) /\ Crewed(group)
  BY <1>1 DEF Led, Enrolled, Crewed
<1>4. Mirrored(group) /\ Buried(group) /\ Settled(group) /\ Forgotten
  BY <1>1 DEF Mirrored, Buried, Settled, Forgotten
<1> QED
  BY <1>1, <1>2, <1>3, <1>4 DEF IInv, Consistent

-----------------------------------------------------------------------------
(* One step per operation.                                                 *)
LEMMA MembershipStep ==
  ASSUME IInv, NEW p \in Players, Membership(p)
  PROVE  IInv' /\ Admitted(group, group')
<1> USE DEF IInv
<1>0. \A q \in Players : group.party[q] # NoParty =>
        /\ group.party[q] \in group.live /\ group.party[q] \in Parties
        /\ q = group.leader[group.party[q]] \/ q \in group.memberList[group.party[q]]
  BY Typed DEF Consistent, Enrolled
<1>1. CASE Login(p)
  BY <1>1 DEF Login, Forgotten, Admitted
<1>2. CASE Logout(p)
  <2> DEFINE g == Cleared(group, p)
  <2>1. /\ Consistent(g) /\ Settled(g) /\ Dwindles(group, g)
        /\ g.invitePartyList[p] = {}
    BY ClearedConsistent
  <2>2. online' = online \ {p}
    BY <1>2 DEF Logout
  <2>3. \/ g.party[p] = NoParty /\ group' = g /\ UNCHANGED shared
        \/ g.party[p] # NoParty /\ Leaves(g, p)
    BY <1>2 DEF Logout
  <2> HIDE DEF g
  <2>4. /\ Consistent(group') /\ Settled(group') /\ shared' \in Shareds
        /\ Dwindles(g, group') /\ group'.party[p] = NoParty
    <3>1. CASE g.party[p] = NoParty /\ group' = g /\ UNCHANGED shared
      BY <2>1, <3>1 DEF Dwindles
    <3>2. CASE g.party[p] # NoParty /\ Leaves(g, p)
      BY <2>1, <3>2, Leaving
    <3> QED
      BY <2>3, <3>1, <3>2
  <2>5. Dwindles(group, group') /\ group'.invitePartyList[p] = {}
    BY <2>1, <2>4 DEF Dwindles
  <2>6. Forgotten'
    BY <2>2, <2>4, <2>5, DwindlingStep DEF Forgotten
  <2> QED
    BY <2>2, <2>4, <2>5, <2>6, DwindlingStep
<1>3. CASE Leave(p)
  <2>1. /\ Consistent(group') /\ Settled(group') /\ Dwindles(group, group')
        /\ shared' \in Shareds /\ UNCHANGED online
    BY <1>3, Leaving DEF Leave
  <2> QED
    BY <2>1, DwindlingStep DEF Forgotten
<1>4. ASSUME NEW q \in Players, Invite(p, q)
      PROVE  IInv' /\ Admitted(group, group')
  <2>0. UNCHANGED online /\ {p, q} \subseteq online
    BY <1>4 DEF Invite
  <2>1. CASE group.party[p] = NoParty
    <3>1. PICK P \in Parties \ group.live :
            /\ group' = Invited(Created(group, P, p), P, q)
            /\ shared' = FreshShared(shared, P)
      BY <1>4, <2>1 DEF Invite
    <3>2. /\ Consistent(group') /\ Settled(group') /\ group'.leader[P] = p
          /\ group'.party = [group.party EXCEPT ![p] = P]
          /\ group'.invitePartyList =
               [group.invitePartyList EXCEPT ![q] = @ \union {P}]
      BY <2>1, <3>1, FoundedConsistent
    <3>3. shared' \in Shareds
      BY <3>1, SharedKept
    <3>4. Forgotten'
      BY <2>0, <3>2, Typed DEF Forgotten
    <3>5. Admitted(group, group')
      BY <2>1, <3>1, <3>2, Typed DEF Admitted
    <3> QED
      BY <2>0, <3>2, <3>3, <3>4, <3>5
  <2>2. CASE group.party[p] # NoParty
    <3> DEFINE P == group.party[p]
    <3>1. group' = Invited(group, P, q) /\ UNCHANGED shared /\ P \in group.live
      BY <1>0, <1>4, <2>2 DEF Invite
    <3>2. /\ Consistent(group') /\ Settled(group') /\ group'.party = group.party
          /\ group'.invitePartyList =
               [group.invitePartyList EXCEPT ![q] = @ \union {P}]
      BY <3>1, InvitedConsistent, SMTT(60)
    <3>3. Forgotten' /\ Admitted(group, group')
      BY <2>0, <3>2, Typed DEF Forgotten, Admitted
    <3> QED
      BY <2>0, <3>1, <3>2, <3>3
  <2> QED
    BY <2>1, <2>2
<1>5. ASSUME NEW l \in Players, Join(p, l)
      PROVE  IInv' /\ Admitted(group, group')
  <2> DEFINE P == group.party[l]
  <2>1. /\ UNCHANGED online /\ p \in online
        /\ P \in group.live /\ P \in Parties /\ p \in group.inviteList[P]
        /\ group.party[p] = NoParty
        /\ group' = Joined(group, P, p)
        /\ shared' = BonusUpdated(Updated(shared, group', P), P)
    BY <1>0, <1>5 DEF Join, IsInviting, InNoParty
  <2> HIDE DEF P
  <2>2. /\ Consistent(group') /\ Settled(group')
        /\ group'.party = [group.party EXCEPT ![p] = P]
        /\ group'.invitePartyList = [group.invitePartyList EXCEPT ![p] = @ \ {P}]
    BY <2>1, JoinedConsistent
  <2>3. shared' \in Shareds
    BY <2>1, SharedKept
  <2>4. P \in group.invitePartyList[p]
    BY <2>1 DEF Consistent, Mirrored
  <2>5. Forgotten'
    BY <2>1, <2>2, Typed DEF Forgotten
  <2>6. Admitted(group, group')
    BY <2>1, <2>2, <2>4, Typed DEF Admitted
  <2> QED
    BY <2>1, <2>2, <2>3, <2>5, <2>6
<1>6. ASSUME NEW q \in Players, Revoke(p, q)
      PROVE  IInv' /\ Admitted(group, group')
  <2>1. /\ UNCHANGED <<online, shared>> /\ group.party[p] \in group.live
        /\ group' = InviteRemoved(group, group.party[p], q)
    BY <1>0, <1>6 DEF Revoke, IsInviting
  <2>2. Consistent(group') /\ Settled(group') /\ Dwindles(group, group')
    BY <2>1, RemovedConsistent
  <2> QED
    BY <2>1, <2>2, DwindlingStep DEF Forgotten
<1>7. ASSUME NEW q \in Players, PassLeadership(p, q)
      PROVE  IInv' /\ Admitted(group, group')
  <2> DEFINE P == group.party[p]
  <2>1. /\ UNCHANGED online /\ P \in group.live /\ P \in Parties
        /\ q \in group.memberList[P]
        /\ group' = Passed(group, P, q)
        /\ shared' = Updated(shared, group', P)
    BY <1>0, <1>7 DEF PassLeadership
  <2> HIDE DEF P
  <2>2. /\ Consistent(group') /\ Settled(group') /\ group'.party = group.party
        /\ group'.invitePartyList = group.invitePartyList
    BY <2>1, PassedConsistent
  <2>3. shared' \in Shareds
    BY <2>1, SharedKept
  <2> QED
    BY <2>1, <2>2, <2>3 DEF Forgotten, Admitted
<1> QED
  BY <1>1, <1>2, <1>3, <1>4, <1>5, <1>6, <1>7 DEF Membership

(* Shared experience never touches the membership.                         *)
LEMMA SharingStep ==
  ASSUME IInv, NEW p \in Players, Sharing(p)
  PROVE  IInv' /\ UNCHANGED group
<1> DEFINE P == group.party[p]
<1>0. /\ shared \in Shareds /\ P \in Parties \union {NoParty}
      /\ \A Q \in Parties, s \in Shareds : Updated(s, group, Q) \in Shareds
  BY Typed, SharedKept DEF IInv
<1>1. UNCHANGED <<online, group>>
  BY DEF Sharing, Fight, Idle, Expire, Move, EnableShared
<1>2. ASSUME Fight(p)
      PROVE  shared' \in Shareds
  <2>1. P \in Parties /\ shared' = Updated([shared EXCEPT !.ticks[P][p] = "fresh"], group, P)
    BY <1>0, <1>2 DEF Fight
  <2> HIDE DEF P
  <2>2. [shared EXCEPT !.ticks[P][p] = "fresh"] \in Shareds
    BY <1>0, <2>1, SharedSet
  <2> QED
    BY <1>0, <2>1, <2>2
<1>3. ASSUME Idle(p)
      PROVE  shared' \in Shareds
  <2>1. P \in Parties /\ shared' = PointsCleared(shared, group, P, p)
    BY <1>0, <1>3 DEF Idle
  <2> QED
    BY <1>0, <2>1, SharedKept
<1>4. ASSUME Expire(p)
      PROVE  shared' \in Shareds
  <2>1. P \in Parties /\ shared' = [shared EXCEPT !.ticks[P][p] = "stale"]
    BY <1>0, <1>4 DEF Expire
  <2> HIDE DEF P
  <2> QED
    BY <1>0, <2>1, SharedSet
<1>5. ASSUME Move(p)
      PROVE  shared' \in Shareds
  <2>1. shared.fit \subseteq Players
    BY <1>0 DEF Shareds
  <2>2. \A f \in SUBSET Players : [shared EXCEPT !.fit = f] \in Shareds
    BY <1>0 DEF Shareds
  <2>3. CASE P = NoParty
    <3>1. PICK f \in {shared.fit \union {p}, shared.fit \ {p}} :
            shared' = [shared EXCEPT !.fit = f]
      BY <1>5, <2>3 DEF Move
    <3>2. f \in SUBSET Players
      BY <2>1
    <3> QED
      BY <2>2, <3>1, <3>2
  <2>4. CASE P # NoParty
    <3>1. PICK f \in Refits(P) : shared' = Updated([shared EXCEPT !.fit = f], group, P)
      BY <1>5, <2>4 DEF Move, UpdateAfterMove
    <3>2. f \in SUBSET Players
      BY <2>1 DEF Refits
    <3> QED
      BY <1>0, <2>2, <2>4, <3>1, <3>2
  <2> QED
    BY <2>3, <2>4
<1>6. ASSUME NEW b \in BOOLEAN, EnableShared(p, b)
      PROVE  shared' \in Shareds
  <2>1. P \in Parties /\ shared' = Updated([shared EXCEPT !.active[P] = b], group, P)
    BY <1>0, <1>6 DEF EnableShared
  <2> HIDE DEF P
  <2>2. [shared EXCEPT !.active[P] = b] \in Shareds
    BY <1>0, <2>1, SharedSet
  <2> QED
    BY <1>0, <2>1, <2>2
<1>7. shared' \in Shareds
  BY <1>2, <1>3, <1>4, <1>5, <1>6 DEF Sharing
<1> QED
  BY <1>1, <1>7 DEF IInv, Forgotten

(* Every step keeps the invariant and admits nobody uninvited.             *)
LEMMA StepIInv ==
  IInv /\ [Next]_vars => IInv' /\ Admitted(group, group')
<1> SUFFICES ASSUME IInv, [Next]_vars
             PROVE  IInv' /\ Admitted(group, group')
  OBVIOUS
<1>1. CASE UNCHANGED vars
  BY <1>1 DEF vars, IInv, Forgotten, Admitted
<1>2. ASSUME NEW p \in Players, Membership(p)
      PROVE  IInv' /\ Admitted(group, group')
  BY <1>2, MembershipStep
<1>3. ASSUME NEW p \in Players, Sharing(p)
      PROVE  IInv' /\ Admitted(group, group')
  BY <1>3, SharingStep DEF Admitted
<1> QED
  BY <1>1, <1>2, <1>3 DEF Next

(* The invariant holds in every reachable state.                           *)
THEOREM Invariance ==
  Spec => []IInv
<1>1. Init => IInv
  BY InitIInv
<1>2. IInv /\ [Next]_vars => IInv'
  BY StepIInv
<1> QED
  BY <1>1, <1>2, PTL DEF Spec

-----------------------------------------------------------------------------
(* The membership and the shared experience keep their types, and exactly  *)
(* the parties that are not deleted have a leader.                         *)
THEOREM TypeCorrect ==
  Spec => []TypeOK
<1>1. IInv => TypeOK
  BY DEF IInv, Consistent, Led, TypeOK
<1> QED
  BY <1>1, Invariance, PTL

(* Player::party and memberList agree after any sequence of operations of  *)
(* game.cpp and any log-outs, for any number of players and parties.       *)
THEOREM RosterAlwaysAgrees ==
  Spec => []RosterAgrees
<1>1. IInv => RosterAgrees
  BY DEF IInv, Consistent, Enrolled, Crewed, CrewOf, RosterAgrees
<1> QED
  BY <1>1, Invariance, PTL

(* inviteList and invitePartyList mirror each other, and a deleted party   *)
(* is on nobody's list.                                                    *)
THEOREM InvitationsAlwaysMirrored ==
  Spec => []InvitationsMirrored
<1>1. IInv => InvitationsMirrored
  BY DEF IInv, Consistent, Mirrored, Buried, InvitationsMirrored
<1> QED
  BY <1>1, Invariance, PTL

(* An operation that empties a party disbands it before it returns.        *)
THEOREM NeverAnEmptyParty ==
  Spec => []NoEmptyParty
<1>1. IInv => NoEmptyParty
  BY DEF IInv, Settled, NoEmptyParty
<1> QED
  BY <1>1, Invariance, PTL

(* Player::onRemoveCreature leaves no pointer to the player behind.        *)
THEOREM OfflineAlwaysForgotten ==
  Spec => []OfflineForgotten
<1>1. ASSUME IInv, NEW p \in Players \ online, NEW P \in Parties
      PROVE  /\ p \notin group.inviteList[P] /\ p # group.leader[P]
             /\ p \notin group.memberList[P]
  <2>1. group.party[p] = NoParty /\ group.invitePartyList[p] = {}
    BY <1>1 DEF IInv, Forgotten
  <2>2. p \notin group.inviteList[P]
    BY <1>1, <2>1 DEF IInv, Consistent, Mirrored
  <2>3. p # group.leader[P] /\ p \notin group.memberList[P]
    BY <1>1, <2>1, PartyAssumption DEF IInv, Consistent, Led, Crewed, CrewOf, Buried
  <2> QED
    BY <2>2, <2>3
<1>2. IInv => OfflineForgotten
  BY <1>1 DEF IInv, Forgotten, OfflineForgotten
<1> QED
  BY <1>2, Invariance, PTL

(* Whatever sequence of operations, log-ins and log-outs came before, the  *)
(* two sides of membership and invitation agree, for any number of players *)
(* and parties.                                                            *)
THEOREM MembershipAlwaysOK ==
  Spec => []MembershipOK
<1>1. RosterAgrees /\ InvitationsMirrored /\ NoEmptyParty /\ OfflineForgotten
        => MembershipOK
  BY DEF MembershipOK
<1> QED
  BY <1>1, RosterAlwaysAgrees, InvitationsAlwaysMirrored, NeverAnEmptyParty,
     OfflineAlwaysForgotten, PTL

(* No operation brings a player into a party he did not found and was not  *)
(* invited to, or moves him straight from one party to another.            *)
THEOREM OnlyJoinedByInvitation ==
  Spec => JoinedByInvitation
<1>1. IInv /\ [Next]_vars =>
        [\A p \in Players :
           group'.party[p] \notin {group.party[p], NoParty} =>
             /\ group.party[p] = NoParty
             /\ \/ group'.party[p] \in group.invitePartyList[p]
                \/ group'.party[p] \notin group.live
                   /\ group'.leader[group'.party[p]] = p]_vars
  BY StepIInv DEF Admitted
<1> QED
  BY <1>1, Invariance, PTL DEF Spec, JoinedByInvitation

-----------------------------------------------------------------------------
(* The shared experience, party by party.                                  *)
Crew(g, P) == {g.leader[P]} \union g.memberList[P]

(* Enabled when it should be, and otherwise only for a stale tick.         *)
Timely(s, g, P) ==
  /\ s.active[P] /\ CanEnable(s, g, P) => s.enabled[P]
  /\ s.active[P] /\ s.enabled[P] /\ ~CanEnable(s, g, P) =>
       \E p \in Crew(g, P) : s.ticks[P][p] = "stale"

(* The bonus is known from the first member on, who comes with an update.  *)
BonusInTime(s, g, P) == s.enabled[P] \/ g.memberList[P] # {} => s.bonusKnown[P]

FairFor(s, g, P) == Timely(s, g, P) /\ BonusInTime(s, g, P)

Fair(s, g) == \A P \in g.live : FairFor(s, g, P)

SameShare(s, t, P) ==
  /\ t.active[P] = s.active[P] /\ t.enabled[P] = s.enabled[P]
  /\ t.bonusKnown[P] = s.bonusKnown[P] /\ t.ticks[P] = s.ticks[P]

(* From s and g to t and h nothing changes for party Q.                    *)
Untouched(s, g, t, h, Q) ==
  /\ Q \in g.live /\ SameShare(s, t, Q)
  /\ h.leader[Q] = g.leader[Q] /\ h.memberList[Q] = g.memberList[Q]
  /\ \A m \in Crew(g, Q) : m \in t.fit <=> m \in s.fit

(* What an operation on party P leaves alone stays fair.                   *)
LEMMA FairKept ==
  ASSUME NEW s, NEW g, NEW t, NEW h, NEW P, Fair(s, g),
         \A Q \in h.live \ {P} : Untouched(s, g, t, h, Q),
         P \in h.live => FairFor(t, h, P)
  PROVE  Fair(t, h)
<1> SUFFICES ASSUME NEW Q \in h.live \ {P}
             PROVE  FairFor(t, h, Q)
  BY DEF Fair
<1>1. Untouched(s, g, t, h, Q) /\ FairFor(s, g, Q)
  BY DEF Fair, Untouched
<1>2. \A m \in Crew(g, Q) : CanUse(t, h, Q, m) <=> CanUse(s, g, Q, m)
  BY <1>1 DEF Untouched, SameShare, CanUse
<1>3. CanEnable(t, h, Q) <=> CanEnable(s, g, Q)
  BY <1>1, <1>2 DEF Untouched, CanEnable, Crew
<1>4. Crew(h, Q) = Crew(g, Q)
  BY <1>1 DEF Untouched, Crew
<1> QED
  BY <1>1, <1>3, <1>4 DEF Untouched, SameShare, FairFor, Timely, BonusInTime

(* updateSharedExperience makes it timely, and leaves other parties alone. *)
LEMMA UpdatedFields ==
  ASSUME NEW s \in Shareds, NEW g, NEW P \in Parties
  PROVE  LET u == Updated(s, g, P)
         IN  /\ u \in Shareds
             /\ u.active = s.active /\ u.bonusKnown = s.bonusKnown
             /\ u.ticks = s.ticks /\ u.fit = s.fit
             /\ u.enabled = IF s.active[P]
                              THEN [s.enabled EXCEPT ![P] = CanEnable(s, g, P)]
                              ELSE s.enabled
<1>1. PICK b \in BOOLEAN : b = CanEnable(s, g, P)
  BY DEF CanEnable, CanUse
<1>2. Updated(s, g, P) = IF s.active[P] THEN [s EXCEPT !.enabled[P] = b] ELSE s
  BY <1>1 DEF Updated
<1>3. CASE s.active[P]
  <2> DEFINE u == [s EXCEPT !.enabled[P] = b]
  <2>1. /\ u \in Shareds /\ u.active = s.active /\ u.bonusKnown = s.bonusKnown
        /\ u.ticks = s.ticks /\ u.fit = s.fit /\ u.enabled = [s.enabled EXCEPT ![P] = b]
    BY DEF Shareds
  <2>2. Updated(s, g, P) = u
    BY <1>2, <1>3
  <2> HIDE DEF u
  <2> QED
    BY <1>1, <1>3, <2>1, <2>2
<1>4. CASE ~s.active[P]
  BY <1>2, <1>4
<1> QED
  BY <1>3, <1>4

(* updateSharedExperience makes the eligibility of its party what it is    *)
(* at that moment, and touches no other party.                             *)
LEMMA UpdatedTimely ==
  ASSUME NEW s \in Shareds, NEW g, NEW P \in Parties
  PROVE  LET u == Updated(s, g, P)
         IN  /\ u \in Shareds /\ u.fit = s.fit /\ Timely(u, g, P)
             /\ u.bonusKnown = s.bonusKnown
             /\ BonusInTime(s, g, P) => BonusInTime(u, g, P)
             /\ \A Q \in Parties \ {P} : SameShare(s, u, Q)
<1> DEFINE u == Updated(s, g, P)
<1>1. /\ u \in Shareds
      /\ u.active = s.active /\ u.bonusKnown = s.bonusKnown
      /\ u.ticks = s.ticks /\ u.fit = s.fit
      /\ u.enabled = IF s.active[P]
                       THEN [s.enabled EXCEPT ![P] = CanEnable(s, g, P)]
                       ELSE s.enabled
  BY UpdatedFields
<1> HIDE DEF u
<1>2. CanEnable(u, g, P) <=> CanEnable(s, g, P)
  BY <1>1 DEF CanEnable, CanUse
<1>3. CanEnable(s, g, P) => g.memberList[P] # {}
  BY DEF CanEnable, CanUse
<1>4. s.enabled \in [Parties -> BOOLEAN] /\ CanEnable(s, g, P) \in BOOLEAN
  BY DEF Shareds, CanEnable, CanUse
<1>5. u.enabled[P] = IF s.active[P] THEN CanEnable(s, g, P) ELSE s.enabled[P]
  BY <1>1, <1>4
<1>6. Timely(u, g, P)
  BY <1>1, <1>2, <1>5 DEF Timely
<1>7. BonusInTime(s, g, P) => BonusInTime(u, g, P)
  BY <1>1, <1>3, <1>5 DEF BonusInTime
<1>8. \A Q \in Parties \ {P} : SameShare(s, u, Q)
  BY <1>1, <1>4 DEF SameShare
<1> QED
  BY <1>1, <1>6, <1>7, <1>8 DEF u

(* The bonus is set beside that.                                           *)
LEMMA BonusFair ==
  ASSUME NEW s \in Shareds, NEW g, NEW P \in Parties, Timely(s, g, P)
  PROVE  LET u == BonusUpdated(s, P)
         IN  /\ u \in Shareds /\ u.fit = s.fit /\ u.ticks = s.ticks
             /\ FairFor(u, g, P)
             /\ \A Q \in Parties \ {P} : SameShare(s, u, Q)
<1> DEFINE u == BonusUpdated(s, P)
<1>1. /\ u \in Shareds
      /\ u.active = s.active /\ u.enabled = s.enabled
      /\ u.ticks = s.ticks /\ u.fit = s.fit
      /\ u.bonusKnown = [s.bonusKnown EXCEPT ![P] = TRUE]
  BY DEF BonusUpdated, Shareds
<1>2. s.bonusKnown \in [Parties -> BOOLEAN]
  BY DEF Shareds
<1> HIDE DEF u
<1>3. CanEnable(u, g, P) <=> CanEnable(s, g, P)
  BY <1>1 DEF CanEnable, CanUse
<1>4. FairFor(u, g, P)
  BY <1>1, <1>2, <1>3 DEF FairFor, Timely, BonusInTime
<1>5. \A Q \in Parties \ {P} : SameShare(s, u, Q)
  BY <1>1, <1>2 DEF SameShare
<1> QED
  BY <1>1, <1>4, <1>5 DEF u

(* Assignments to one tick, to the activation and to the fitness.          *)
LEMMA TickSet ==
  ASSUME NEW s \in Shareds, NEW P \in Parties, NEW p \in Players,
         NEW x \in {"none", "fresh", "stale"},
         NEW u, u = [s EXCEPT !.ticks[P][p] = x]
  PROVE  /\ u \in Shareds
         /\ u.active = s.active /\ u.enabled = s.enabled
         /\ u.bonusKnown = s.bonusKnown /\ u.fit = s.fit
         /\ u.ticks[P][p] = x
         /\ \A Q \in Parties \ {P} : SameShare(s, u, Q)
  BY DEF Shareds, SameShare

(* Switching shared experience on or off concerns one party.               *)
LEMMA ActiveSet ==
  ASSUME NEW s \in Shareds, NEW P \in Parties, NEW b \in BOOLEAN,
         NEW u, u = [s EXCEPT !.active[P] = b]
  PROVE  /\ u \in Shareds
         /\ u.enabled = s.enabled /\ u.bonusKnown = s.bonusKnown /\ u.fit = s.fit
         /\ \A Q \in Parties \ {P} : SameShare(s, u, Q)
  BY DEF Shareds, SameShare

(* A change of level or position changes only who qualifies.               *)
LEMMA FitSet ==
  ASSUME NEW s \in Shareds, NEW f \in SUBSET Players, NEW u, u = [s EXCEPT !.fit = f]
  PROVE  u \in Shareds /\ u.fit = f /\ \A Q \in Parties : SameShare(s, u, Q)
  BY DEF Shareds, SameShare

-----------------------------------------------------------------------------
(* What an operation on the membership leaves alone: h against g, but for  *)
(* party P.                                                                *)
Others(g, h, P) ==
  \A Q \in h.live \ {P} :
    Q \in g.live /\ h.leader[Q] = g.leader[Q] /\ h.memberList[Q] = g.memberList[Q]

(* A party founded with its first invitation leaves every other party's    *)
(* leader and members alone.                                               *)
LEMMA FoundedOthers ==
  ASSUME NEW g, g \in Groups, NEW P \in Parties \ g.live, NEW p \in Players, NEW q \in Players
  PROVE  Others(g, Invited(Created(g, P, p), P, q), P)
<1> DEFINE c == Created(g, P, p)
           h == Invited(c, P, q)
<1>1. /\ c \in Groups /\ c.live = g.live \union {P} /\ c.leader = [g.leader EXCEPT ![P] = p]
      /\ c.memberList = g.memberList
  BY DEF Created, Groups
<1> HIDE DEF c
<1>2. h.live = c.live /\ h.leader = c.leader /\ h.memberList = c.memberList
  BY <1>1 DEF Invited, Groups
<1> HIDE DEF h
<1>3. g.leader \in [Parties -> Players \union {NoPlayer}] /\ g.live \subseteq Parties
  BY DEF Groups
<1>4. Others(g, h, P)
  BY <1>1, <1>2, <1>3 DEF Others
<1> QED
  BY <1>4 DEF h, c

(* disband, whether it follows or not.                                     *)
LEMMA DisbandedOthers ==
  ASSUME NEW g, g \in Groups, NEW P \in Parties, NEW b \in BOOLEAN
  PROVE  LET h == DisbandedIf(b, g, P)
         IN  /\ Others(g, h, P) /\ h.live \subseteq g.live
             /\ P \in h.live => h = g
<1>1. /\ Disbanded(g, P).live = g.live \ {P}
      /\ Disbanded(g, P).leader = [g.leader EXCEPT ![P] = NoPlayer]
      /\ Disbanded(g, P).memberList = [g.memberList EXCEPT ![P] = {}]
  BY DisbandedFields
<1>2. /\ g.leader \in [Parties -> Players \union {NoPlayer}] /\ g.live \subseteq Parties
      /\ g.memberList \in [Parties -> SUBSET Players]
  BY DEF Groups
<1> QED
  BY <1>1, <1>2 DEF DisbandedIf, Others

(* So does an invitation that is withdrawn, and of its own party it        *)
(* leaves both alone if the party survives.                                *)
LEMMA RemovedOthers ==
  ASSUME NEW g, g \in Groups, NEW P \in Parties, NEW q \in Players
  PROVE  LET h == InviteRemoved(g, P, q)
         IN  /\ Others(g, h, P)
             /\ P \in h.live => /\ P \in g.live /\ h.leader[P] = g.leader[P]
                                /\ h.memberList[P] = g.memberList[P]
<1> DEFINE u == Uninvited(g, P, q)
           b == Empty(u, P)
           h == DisbandedIf(b, u, P)
<1>1. /\ u \in Groups /\ u.live = g.live /\ u.leader = g.leader
      /\ u.memberList = g.memberList
  BY DEF Uninvited, Groups
<1>2. InviteRemoved(g, P, q) = h
  BY DEF InviteRemoved
<1>3. b \in BOOLEAN
  BY DEF Empty
<1> HIDE DEF u, b
<1>4. Others(u, h, P) /\ h.live \subseteq u.live /\ (P \in h.live => h = u)
  BY <1>1, <1>3, DisbandedOthers
<1> HIDE DEF h
<1> QED
  BY <1>1, <1>2, <1>4 DEF Others

(* So does a leadership that is passed on,                                 *)
LEMMA PassedOthers ==
  ASSUME NEW g, g \in Groups, NEW P \in Parties, NEW q \in Players, g.leader[P] \in Players
  PROVE  Others(g, Passed(g, P, q), P) /\ Passed(g, P, q) \in Groups
<1>1. /\ g.leader \in [Parties -> Players \union {NoPlayer}] /\ g.live \subseteq Parties
      /\ g.memberList \in [Parties -> SUBSET Players]
  BY DEF Groups
<1>2. /\ Passed(g, P, q) \in Groups
      /\ Passed(g, P, q).live = g.live
      /\ Passed(g, P, q).leader = [g.leader EXCEPT ![P] = q]
      /\ Passed(g, P, q).memberList =
           [g.memberList EXCEPT ![P] = (@ \ {q}) \union {g.leader[P]}]
  BY PassedFields
<1> QED
  BY <1>1, <1>2 DEF Others

(* somebody who joins,                                                     *)
LEMMA JoinedOthers ==
  ASSUME NEW g, g \in Groups, NEW P \in Parties, NEW q \in Players
  PROVE  Others(g, Joined(g, P, q), P)
<1>1. /\ Joined(g, P, q).live = g.live /\ Joined(g, P, q).leader = g.leader
      /\ Joined(g, P, q).memberList = [g.memberList EXCEPT ![P] = @ \union {q}]
  BY DEF Joined, Groups
<1>2. g.memberList \in [Parties -> SUBSET Players] /\ g.live \subseteq Parties
  BY DEF Groups
<1> QED
  BY <1>1, <1>2 DEF Others

(* and somebody who leaves, whoever inherits the leadership.               *)
LEMMA LeftOthers ==
  ASSUME NEW g, g \in Groups, NEW P \in Parties, NEW p \in Players, NEW heir \in Players,
         g.leader[P] \in Players
  PROVE  Others(g, Left(g, P, p, heir), P)
<1>1. PICK missing \in BOOLEAN : missing = MissingLeader(g, P, p)
  BY DEF MissingLeader
<1> DEFINE led == IF g.leader[P] = p /\ ~missing THEN Passed(g, P, heir) ELSE g
           d == Departed(led, P, p)
           b == missing \/ Empty(d, P)
           h == DisbandedIf(b, d, P)
<1>2. Left(g, P, p, heir) = h
  BY <1>1 DEF Left
<1>3. led \in Groups /\ Others(g, led, P)
  BY PassedOthers DEF Others
<1> HIDE DEF led
<1>4. /\ d \in Groups /\ d.live = led.live /\ d.leader = led.leader
      /\ d.memberList = [led.memberList EXCEPT ![P] = @ \ {p}]
  BY <1>3 DEF Departed, Groups
<1>5. b \in BOOLEAN
  BY DEF Empty
<1> HIDE DEF d, b
<1>6. Others(d, h, P) /\ h.live \subseteq d.live
  BY <1>4, <1>5, DisbandedOthers
<1> HIDE DEF h
<1>7. led.memberList \in [Parties -> SUBSET Players] /\ led.live \subseteq Parties
  BY <1>3 DEF Groups
<1>8. Others(led, d, P)
  BY <1>4, <1>7 DEF Others
<1>9. Others(g, h, P)
  BY <1>3, <1>4, <1>6, <1>8 DEF Others
<1> QED
  BY <1>2, <1>9

(* clearPartyInvitations may disband any number of parties.                *)
LEMMA ClearedOthers ==
  ASSUME NEW g, g \in Groups, NEW p \in Players
  PROVE  Others(g, Cleared(g, p), NoParty)
<1> DEFINE invites == [P \in Parties |->
                         IF P \in g.invitePartyList[p] THEN g.inviteList[P] \ {p}
                                                       ELSE g.inviteList[P]]
           gone == {P \in g.invitePartyList[p] :
                      g.memberList[P] = {} /\ invites[P] = {}}
           h == Cleared(g, p)
<1>1. /\ h.live = g.live \ gone
      /\ h.leader = [P \in Parties |-> IF P \in gone THEN NoPlayer ELSE g.leader[P]]
      /\ h.memberList = g.memberList
  BY Zenon DEF Cleared, Groups
<1>2. g.live \subseteq Parties
  BY DEF Groups
<1> HIDE DEF gone, h, invites
<1>3. Others(g, h, NoParty)
  BY <1>1, <1>2 DEF Others
<1> QED
  BY <1>3 DEF h

-----------------------------------------------------------------------------
(* An operation on the membership of P that the shared experience follows. *)
LEMMA FairAfter ==
  ASSUME NEW s, NEW g, NEW t, NEW h, NEW P, Fair(s, g), Others(g, h, P), t.fit = s.fit,
         h.live \subseteq Parties,
         \A Q \in Parties \ {P} : SameShare(s, t, Q),
         P \in h.live => FairFor(t, h, P)
  PROVE  Fair(t, h)
<1>1. \A Q \in h.live \ {P} : Untouched(s, g, t, h, Q)
  BY DEF Others, Untouched
<1> QED
  BY <1>1, FairKept

(* ... and one it does not take notice of.                                 *)
LEMMA FairUnshared ==
  ASSUME NEW s, NEW g, NEW h, NEW P, Fair(s, g), Others(g, h, P), h.live \subseteq Parties,
         P \in h.live => /\ P \in g.live /\ h.leader[P] = g.leader[P]
                         /\ h.memberList[P] = g.memberList[P]
  PROVE  Fair(s, h)
<1>1. \A Q \in h.live : Untouched(s, g, s, h, Q)
  BY DEF Others, Untouched, SameShare
<1> PICK none : none \notin h.live
  <2>1. NoParty \notin h.live
    BY PartyAssumption
  <2> QED
    BY <2>1
<1> QED
  BY <1>1, FairKept

(* leaveParty.                                                             *)
LEMMA LeavingFair ==
  ASSUME NEW g, Consistent(g), NEW p \in Players, g.party[p] # NoParty,
         shared \in Shareds, Fair(shared, g), Leaves(g, p), group' \in Groups
  PROVE  Fair(shared', group')
<1> DEFINE P == g.party[p]
<1>1. /\ P \in Parties /\ g \in Groups /\ g.leader[P] \in Players
      /\ g.memberList[P] \subseteq Players
  BY Typed DEF Consistent, Enrolled
<1>2. PICK heir \in Players : group' = Left(g, P, p, heir)
  BY <1>1 DEF Leaves, Heirs
<1>3. shared' = SharedAfterLeaving(shared, group', P, p)
  BY DEF Leaves
<1> HIDE DEF P
<1>4. Others(g, group', P) /\ group'.live \subseteq Parties
  BY <1>1, <1>2, LeftOthers DEF Groups
<1>5. CASE P \notin group'.live
  <2>1. shared' = shared
    BY <1>3, <1>5 DEF SharedAfterLeaving
  <2> QED
    BY <1>4, <1>5, <2>1, FairUnshared
<1>6. CASE P \in group'.live
  <2> DEFINE u == Updated(shared, group', P)
             v == BonusUpdated(u, P)
             w == [v EXCEPT !.ticks[P][p] = "none"]
             x == Updated(w, group', P)
  <2>1. shared' = IF v.ticks[P][p] = "none" THEN v ELSE x
    BY <1>3, <1>6 DEF SharedAfterLeaving, PointsCleared
  <2>2. /\ u \in Shareds /\ u.fit = shared.fit /\ Timely(u, group', P)
        /\ \A Q \in Parties \ {P} : SameShare(shared, u, Q)
    BY <1>1, UpdatedTimely
  <2> HIDE DEF u
  <2>3. /\ v \in Shareds /\ v.fit = u.fit /\ FairFor(v, group', P)
        /\ \A Q \in Parties \ {P} : SameShare(u, v, Q)
    BY <1>1, <2>2, BonusFair
  <2> HIDE DEF v
  <2>4. /\ w \in Shareds /\ w.fit = v.fit /\ w.enabled = v.enabled
        /\ w.bonusKnown = v.bonusKnown
        /\ \A Q \in Parties \ {P} : SameShare(v, w, Q)
    <3> HIDE DEF w
    <3>1. w = [v EXCEPT !.ticks[P][p] = "none"]
      BY DEF w
    <3> QED
      BY <1>1, <2>3, <3>1, TickSet, SMTT(60)
  <2> HIDE DEF w
  <2>5. BonusInTime(w, group', P)
    BY <2>3, <2>4 DEF FairFor, BonusInTime
  <2>6. /\ x.fit = w.fit /\ FairFor(x, group', P)
        /\ \A Q \in Parties \ {P} : SameShare(w, x, Q)
    BY <1>1, <2>4, <2>5, UpdatedTimely DEF FairFor
  <2> HIDE DEF x
  <2>7. /\ shared'.fit = shared.fit /\ FairFor(shared', group', P)
        /\ \A Q \in Parties \ {P} : SameShare(shared, shared', Q)
    BY <2>1, <2>2, <2>3, <2>4, <2>6 DEF SameShare
  <2> QED
    BY <1>4, <2>7, FairAfter
<1> QED
  BY <1>5, <1>6

-----------------------------------------------------------------------------
(* One step per operation.                                                 *)
LEMMA MembershipFair ==
  ASSUME IInv, Fair(shared, group), NEW p \in Players, Membership(p)
  PROVE  Fair(shared', group')
<1>1. /\ group \in Groups /\ Consistent(group) /\ Settled(group) /\ shared \in Shareds
      /\ group' \in Groups /\ Consistent(group') /\ group'.live \subseteq Parties
  BY MembershipStep DEF IInv, Consistent, Groups
<1>2. \A q \in Players : group.party[q] # NoParty =>
        /\ group.party[q] \in group.live /\ group.party[q] \in Parties
        /\ group.leader[group.party[q]] \in Players
  BY <1>1, Typed DEF Consistent, Enrolled
<1>3. CASE Login(p)
  BY <1>3 DEF Login
<1>4. CASE Logout(p)
  <2> DEFINE g == Cleared(group, p)
  <2>1. Others(group, g, NoParty) /\ Consistent(g)
    BY <1>1, ClearedOthers, ClearedConsistent
  <2>2. \/ g.party[p] = NoParty /\ group' = g /\ UNCHANGED shared
        \/ g.party[p] # NoParty /\ Leaves(g, p)
    BY <1>4 DEF Logout
  <2> HIDE DEF g
  <2>3. g.live \subseteq Parties /\ NoParty \notin g.live
    BY <2>1, PartyAssumption DEF Consistent, Groups
  <2>4. Fair(shared, g)
    BY <2>1, <2>3, FairUnshared
  <2> QED
    BY <1>1, <2>1, <2>2, <2>4, LeavingFair
<1>5. CASE Leave(p)
  BY <1>1, <1>5, LeavingFair DEF Leave
<1>6. ASSUME NEW q \in Players, Invite(p, q)
      PROVE  Fair(shared', group')
  <2>1. CASE group.party[p] = NoParty
    <3>1. PICK P \in Parties \ group.live :
            /\ group' = Invited(Created(group, P, p), P, q)
            /\ shared' = FreshShared(shared, P)
      BY <1>6, <2>1 DEF Invite
    <3>2. Others(group, group', P)
      BY <1>1, <3>1, FoundedOthers
    <3>3. /\ shared'.fit = shared.fit
          /\ ~shared'.active[P] /\ ~shared'.enabled[P]
          /\ \A Q \in Parties \ {P} : SameShare(shared, shared', Q)
      BY <1>1, <3>1 DEF FreshShared, Shareds, SameShare
    <3>4. group'.memberList[P] = {}
      <4>1. group'.memberList = group.memberList
        <5> DEFINE c == Created(group, P, p)
        <5>1. c \in Groups /\ c.memberList = group.memberList
          BY <1>1 DEF Created, Groups
        <5>2. group' = Invited(c, P, q)
          BY <3>1
        <5> HIDE DEF c
        <5> QED
          BY <5>1, <5>2 DEF Invited, Groups
      <4> QED
        BY <1>1, <4>1 DEF Consistent, Buried
    <3>5. FairFor(shared', group', P)
      BY <3>3, <3>4 DEF FairFor, Timely, BonusInTime
    <3> QED
      BY <1>1, <3>2, <3>3, <3>5, FairAfter
  <2>2. CASE group.party[p] # NoParty
    <3> DEFINE P == group.party[p]
    <3>1. group' = Invited(group, P, q) /\ UNCHANGED shared /\ P \in group.live
      BY <1>2, <1>6, <2>2 DEF Invite
    <3> HIDE DEF P
    <3>2. group'.live = group.live /\ group'.leader = group.leader
          /\ group'.memberList = group.memberList
      BY <1>1, <3>1 DEF Invited, Groups
    <3>3. Others(group, group', P)
      BY <3>2 DEF Others
    <3> QED
      BY <1>1, <3>1, <3>2, <3>3, FairUnshared
  <2> QED
    BY <2>1, <2>2
<1>7. ASSUME NEW l \in Players, Join(p, l)
      PROVE  Fair(shared', group')
  <2> DEFINE P == group.party[l]
             u == Updated(shared, group', P)
  <2>1. P \in Parties /\ group' = Joined(group, P, p) /\ shared' = BonusUpdated(u, P)
    BY <1>2, <1>7 DEF Join, IsInviting
  <2> HIDE DEF P
  <2>2. Others(group, group', P)
    BY <1>1, <2>1, JoinedOthers
  <2>3. /\ u \in Shareds /\ u.fit = shared.fit /\ Timely(u, group', P)
        /\ \A Q \in Parties \ {P} : SameShare(shared, u, Q)
    BY <1>1, <2>1, UpdatedTimely
  <2> HIDE DEF u
  <2>4. /\ shared'.fit = u.fit /\ FairFor(shared', group', P)
        /\ \A Q \in Parties \ {P} : SameShare(u, shared', Q)
    BY <2>1, <2>3, BonusFair
  <2>5. \A Q \in Parties \ {P} : SameShare(shared, shared', Q)
    BY <2>3, <2>4 DEF SameShare
  <2> QED
    BY <1>1, <2>2, <2>3, <2>4, <2>5, FairAfter
<1>8. ASSUME NEW q \in Players, Revoke(p, q)
      PROVE  Fair(shared', group')
  <2>1. /\ UNCHANGED shared /\ group.party[p] \in Parties
        /\ group' = InviteRemoved(group, group.party[p], q)
    BY <1>2, <1>8 DEF Revoke, IsInviting
  <2> QED
    BY <1>1, <2>1, RemovedOthers, FairUnshared
<1>9. ASSUME NEW q \in Players, PassLeadership(p, q)
      PROVE  Fair(shared', group')
  <2> DEFINE P == group.party[p]
  <2>1. /\ P \in group.live /\ P \in Parties /\ group.leader[P] \in Players
        /\ group.party[q] = P /\ q # group.leader[P]
        /\ group' = Passed(group, P, q)
        /\ shared' = Updated(shared, group', P)
    BY <1>2, <1>9 DEF PassLeadership
  <2> HIDE DEF P
  <2>2. Others(group, group', P)
    BY <1>1, <2>1, PassedOthers
  <2>3. /\ shared'.fit = shared.fit /\ Timely(shared', group', P)
        /\ shared'.bonusKnown = shared.bonusKnown
        /\ BonusInTime(shared, group', P) => BonusInTime(shared', group', P)
        /\ \A Q \in Parties \ {P} : SameShare(shared, shared', Q)
    BY <1>1, <2>1, UpdatedTimely
  <2>4. q \in group.memberList[P]
    BY <1>1, <2>1, PartyAssumption DEF Consistent, Enrolled
  <2>5. BonusInTime(shared, group', P)
    BY <2>1, <2>4 DEF Fair, FairFor, BonusInTime
  <2>6. FairFor(shared', group', P)
    BY <2>3, <2>5 DEF FairFor
  <2> QED
    BY <1>1, <2>2, <2>3, <2>6, FairAfter
<1> QED
  BY <1>3, <1>4, <1>5, <1>6, <1>7, <1>8, <1>9 DEF Membership

(* Another party's crew points at that party.                              *)
LEMMA CrewsApart ==
  ASSUME IInv, NEW Q \in group.live, NEW m \in Crew(group, Q)
  PROVE  m \in Players /\ group.party[m] = Q
  BY Typed DEF IInv, Consistent, Crewed, CrewOf, Crew

(* What ends with an update of party P, and has touched nothing else.      *)
LEMMA UpdateFair ==
  ASSUME IInv, Fair(shared, group), NEW P \in Parties, NEW s \in Shareds,
         s.enabled = shared.enabled, s.bonusKnown = shared.bonusKnown,
         \A Q \in Parties \ {P} : SameShare(shared, s, Q),
         \A m \in Players : group.party[m] # P => (m \in s.fit <=> m \in shared.fit)
  PROVE  Fair(Updated(s, group, P), group)
<1> DEFINE u == Updated(s, group, P)
<1>1. /\ u.fit = s.fit /\ Timely(u, group, P)
      /\ BonusInTime(s, group, P) => BonusInTime(u, group, P)
      /\ \A Q \in Parties \ {P} : SameShare(s, u, Q)
  BY UpdatedTimely
<1> HIDE DEF u
<1>2. P \in group.live => FairFor(u, group, P)
  BY <1>1 DEF Fair, FairFor, BonusInTime
<1>3. \A Q \in group.live \ {P} : Untouched(shared, group, u, group, Q)
  <2> SUFFICES ASSUME NEW Q \in group.live \ {P}
               PROVE  Untouched(shared, group, u, group, Q)
    OBVIOUS
  <2>1. Q \in Parties
    BY DEF IInv, Consistent, Groups
  <2>2. \A m \in Crew(group, Q) : m \in u.fit <=> m \in shared.fit
    BY <1>1, CrewsApart
  <2> QED
    BY <1>1, <2>1, <2>2 DEF Untouched, SameShare
<1>4. Fair(u, group)
  BY <1>2, <1>3, FairKept
<1> QED
  BY <1>4 DEF u

(* The operations that do not change the membership keep shared            *)
(* experience fair.                                                        *)
LEMMA SharingStaysFair ==
  ASSUME IInv, Fair(shared, group), NEW p \in Players, Sharing(p)
  PROVE  Fair(shared', group')
<1> DEFINE P == group.party[p]
<1>1. /\ shared \in Shareds /\ P \in Parties \union {NoParty} /\ UNCHANGED group
      /\ P # NoParty => P \in group.live
  BY SharingStep, Typed DEF IInv, Consistent, Enrolled
<1>2. CASE Fight(p)
  <2> DEFINE s == [shared EXCEPT !.ticks[P][p] = "fresh"]
  <2>1. P \in Parties /\ shared' = Updated(s, group, P)
    BY <1>1, <1>2 DEF Fight
  <2>2. s = [shared EXCEPT !.ticks[P][p] = "fresh"]
    OBVIOUS
  <2> HIDE DEF s, P
  <2>3. /\ s \in Shareds /\ s.enabled = shared.enabled
        /\ s.bonusKnown = shared.bonusKnown /\ s.fit = shared.fit
        /\ \A Q \in Parties \ {P} : SameShare(shared, s, Q)
    BY <1>1, <2>1, <2>2, TickSet
  <2>4. Fair(Updated(s, group, P), group)
    BY <2>1, <2>3, UpdateFair
  <2> QED
    BY <1>1, <2>1, <2>4
<1>3. CASE Idle(p)
  <2> DEFINE s == [shared EXCEPT !.ticks[P][p] = "none"]
  <2>1. P \in Parties /\ (shared' = shared \/ shared' = Updated(s, group, P))
    BY <1>1, <1>3 DEF Idle, PointsCleared
  <2>2. s = [shared EXCEPT !.ticks[P][p] = "none"]
    OBVIOUS
  <2> HIDE DEF s, P
  <2>3. /\ s \in Shareds /\ s.enabled = shared.enabled
        /\ s.bonusKnown = shared.bonusKnown /\ s.fit = shared.fit
        /\ \A Q \in Parties \ {P} : SameShare(shared, s, Q)
    BY <1>1, <2>1, <2>2, TickSet
  <2>4. Fair(Updated(s, group, P), group)
    BY <2>1, <2>3, UpdateFair
  <2> QED
    BY <1>1, <2>1, <2>4
<1>4. CASE Expire(p)
  <2>1. P \in Parties /\ P \in group.live /\ shared' = [shared EXCEPT !.ticks[P][p] = "stale"]
    BY <1>1, <1>4 DEF Expire
  <2>2. p \in Crew(group, P)
    BY <2>1, PartyAssumption DEF IInv, Consistent, Enrolled, Crew
  <2> HIDE DEF P
  <2>3. /\ shared'.enabled = shared.enabled /\ shared'.bonusKnown = shared.bonusKnown
        /\ shared'.fit = shared.fit /\ shared'.ticks[P][p] = "stale"
        /\ \A Q \in Parties \ {P} : SameShare(shared, shared', Q)
    BY <1>1, <2>1, TickSet
  <2>4. ~CanEnable(shared', group, P)
    BY <2>2, <2>3 DEF CanEnable, CanUse, Crew
  <2>5. FairFor(shared', group, P)
    BY <2>1, <2>2, <2>3, <2>4 DEF Fair, FairFor, Timely, BonusInTime
  <2>6. Others(group, group, P) /\ group.live \subseteq Parties
    BY DEF Others, IInv, Consistent, Groups
  <2>7. Fair(shared', group)
    BY <2>3, <2>5, <2>6, FairAfter
  <2> QED
    BY <1>1, <2>7
<1>5. CASE Move(p)
  <2>1. shared.fit \subseteq Players
    BY <1>1 DEF Shareds
  <2>2. CASE P = NoParty
    <3>1. PICK f \in {shared.fit \union {p}, shared.fit \ {p}} :
            shared' = [shared EXCEPT !.fit = f]
      BY <1>5, <2>2 DEF Move
    <3>2. f \in SUBSET Players
      BY <2>1
    <3>3. shared'.fit = f /\ \A Q \in Parties : SameShare(shared, shared', Q)
      BY <1>1, <3>1, <3>2, FitSet
    <3>4. \A Q \in group.live : Untouched(shared, group, shared', group, Q)
      <4> SUFFICES ASSUME NEW Q \in group.live
                   PROVE  Untouched(shared, group, shared', group, Q)
        OBVIOUS
      <4>1. Q \in Parties /\ Q # NoParty
        BY PartyAssumption DEF IInv, Consistent, Groups
      <4>2. \A m \in Crew(group, Q) : m # p
        BY <2>2, <4>1, CrewsApart
      <4> QED
        BY <3>1, <3>3, <4>1, <4>2 DEF Untouched
    <3>5. NoParty \notin group.live
      BY PartyAssumption DEF IInv, Consistent, Groups
    <3>6. Fair(shared', group)
      BY <3>4, <3>5, FairKept
    <3> QED
      BY <1>1, <3>6
  <2>3. CASE P # NoParty
    <3>1. PICK f \in Refits(P) : shared' = Updated([shared EXCEPT !.fit = f], group, P)
      BY <1>5, <2>3 DEF Move, UpdateAfterMove
    <3> DEFINE s == [shared EXCEPT !.fit = f]
    <3> HIDE DEF P
    <3>2. /\ f \in SUBSET Players
          /\ \A m \in Players : group.party[m] # P => (m \in f <=> m \in shared.fit)
      BY <2>1 DEF Refits
    <3>3. s = [shared EXCEPT !.fit = f] /\ shared' = Updated(s, group, P)
      BY <3>1
    <3>4. s.enabled = shared.enabled /\ s.bonusKnown = shared.bonusKnown
      BY <1>1 DEF Shareds
    <3> HIDE DEF s
    <3>5. s \in Shareds /\ s.fit = f /\ \A Q \in Parties : SameShare(shared, s, Q)
      BY <1>1, <3>2, <3>3, FitSet
    <3>6. Fair(Updated(s, group, P), group)
      BY <1>1, <2>3, <3>2, <3>4, <3>5, UpdateFair
    <3> QED
      BY <1>1, <3>3, <3>6
  <2> QED
    BY <2>2, <2>3
<1>6. ASSUME NEW b \in BOOLEAN, EnableShared(p, b)
      PROVE  Fair(shared', group')
  <2> DEFINE s == [shared EXCEPT !.active[P] = b]
  <2>1. P \in Parties /\ shared' = Updated(s, group, P)
    BY <1>1, <1>6 DEF EnableShared
  <2>2. s = [shared EXCEPT !.active[P] = b]
    OBVIOUS
  <2> HIDE DEF s, P
  <2>3. /\ s \in Shareds /\ s.enabled = shared.enabled
        /\ s.bonusKnown = shared.bonusKnown /\ s.fit = shared.fit
        /\ \A Q \in Parties \ {P} : SameShare(shared, s, Q)
    BY <1>1, <2>1, <2>2, ActiveSet
  <2>4. Fair(Updated(s, group, P), group)
    BY <2>1, <2>3, UpdateFair
  <2> QED
    BY <1>1, <2>1, <2>4
<1> QED
  BY <1>2, <1>3, <1>4, <1>5, <1>6 DEF Sharing

(* Every party is fair after every operation.                              *)
THEOREM FairAlways == Spec => []Fair(shared, group)
<1>1. Init => Fair(shared, group)
  BY DEF Init, Fair
<1>2. IInv /\ Fair(shared, group) /\ [Next]_vars => Fair(shared, group)'
  <2> SUFFICES ASSUME IInv, Fair(shared, group), [Next]_vars
               PROVE  Fair(shared', group')
    OBVIOUS
  <2>1. CASE UNCHANGED vars
    BY <2>1 DEF vars
  <2>2. ASSUME NEW p \in Players, Membership(p)
        PROVE  Fair(shared', group')
    BY <2>2, MembershipFair
  <2>3. ASSUME NEW p \in Players, Sharing(p)
        PROVE  Fair(shared', group')
    BY <2>3, SharingStaysFair
  <2> QED
    BY <2>1, <2>2, <2>3 DEF Next
<1> QED
  BY <1>1, <1>2, Invariance, PTL DEF Spec

(* Whoever joins, leaves, inherits the lead, fights, moves or is idle: a   *)
(* party shares experience when it is entitled to, at a bonus that has been*)
(* computed, and otherwise only until the next update after a tick expired.*)
THEOREM SharingAlwaysFair == Spec => []SharingFair
<1>1. Fair(shared, group) => SharingFair
  BY DEF Fair, FairFor, Timely, BonusInTime, Crew, SharingFair, NeverWronglyDenied,
         GrantedInErrorOnlyByTime, BonusKnownWhenShared
<1> QED
  BY <1>1, FairAlways, PTL
=============================================================================
