--------------------------------- MODULE Walk ---------------------------------
(***************************************************************************)
(* How a player walks (creature.cpp, player.cpp, game.cpp): the list of    *)
(* steps, the event that takes the next one, the action that waits for the *)
(* end of a walk, and whom he follows and attacks.                         *)
(*                                                                         *)
(* Steps have no direction.  How long a step takes is left to chance: the  *)
(* player is tired after it until he is not.  So is whether a path is      *)
(* found and when a path is looked for again.  slow is a getSpeed() of 0 or*)
(* less, which only setSpeed asks for: getStepSpeed, which addEventWalk    *)
(* asks for, is never less than PLAYER_MIN_SPEED for a player, so that he  *)
(* walks on when he is told to.  Left out: actions postponed because       *)
(* another was just done, changes of speed within a step, drunkenness,     *)
(* death and logout.                                                       *)
(***************************************************************************)
EXTENDS Integers, Sequences

CONSTANTS
  Targets,      \* creatures that can be followed and attacked
  Nobody,       \* no creature
  MaxSteps,     \* bound on the length of a path
  MaxQueue,     \* bound on the tasks the player has in the dispatcher
  Ids           \* ids of events, more than are ever pending

WalkAssumption ==
  MaxSteps \in Nat /\ MaxQueue \in Nat /\ Ids \subseteq Nat \ {0} /\ Ids # {} /\ Nobody \notin Targets

VARIABLE walker

(* walkTask and list are what waits; eventWalk and walkTaskEvent name the  *)
(* events, of which walks and uses are pending.  stopped and adrift are    *)
(* history: the steps since the player was told to stop, plus one, while   *)
(* that holds, and whether a walk was left without an event.               *)
WalkInit ==
  walker = [list |-> 0, eventWalk |-> 0, walks |-> {}, cancelNextWalk |-> FALSE, tired |-> FALSE,
            slow |-> FALSE, walkTask |-> FALSE, walkTaskEvent |-> 0, uses |-> {},
            follow |-> Nobody, attack |-> Nobody, seen |-> Targets, chaseMode |-> FALSE,
            hasFollowPath |-> FALSE, isUpdatingPath |-> FALSE, queue |-> <<>>,
            stopped |-> 0, adrift |-> FALSE]

Fresh(pending) == CHOOSE id \in Ids : id \notin pending
Queued(w, task) == [w EXCEPT !.queue = Append(@, task)]
Update == [op |-> "updateCreatureWalk", steps |-> 0]
Walk(n) == [op |-> "playerAutoWalk", steps |-> n]

-----------------------------------------------------------------------------
(* The event of the next step.                                             *)
StopEventWalk(w) ==
  IF w.eventWalk = 0 THEN w
  ELSE [w EXCEPT !.walks = @ \ {w.eventWalk}, !.eventWalk = 0, !.adrift = TRUE]

Scheduled(w) ==
  [w EXCEPT !.eventWalk = Fresh(w.walks), !.walks = @ \union {Fresh(w.walks)}, !.adrift = FALSE]

AddEventWalk(w) ==
  IF w.eventWalk # 0 THEN [w EXCEPT !.cancelNextWalk = FALSE]
  ELSE Scheduled([w EXCEPT !.cancelNextWalk = FALSE])

StopWalk(w) == [w EXCEPT !.cancelNextWalk = TRUE, !.stopped = IF @ = 0 THEN 1 ELSE @]

(* The action that waits for the end of the walk.                          *)
SetNextWalkActionTask(w, task) ==
  [w EXCEPT !.uses = @ \ {w.walkTaskEvent}, !.walkTaskEvent = 0, !.walkTask = task]
OnWalkAborted(w) == SetNextWalkActionTask(w, FALSE)
OnWalkComplete(w) ==
  IF ~w.walkTask THEN w
  ELSE [w EXCEPT !.walkTask = FALSE, !.walkTaskEvent = Fresh(w.uses), !.uses = @ \union {Fresh(w.uses)}]

-----------------------------------------------------------------------------
(* Whom the player follows and attacks.                                    *)
FollowNobody(w) == StopWalk([w EXCEPT !.isUpdatingPath = FALSE, !.follow = Nobody])

AttackNobody(w) ==
  IF w.follow = Nobody THEN [w EXCEPT !.attack = Nobody] ELSE FollowNobody([w EXCEPT !.attack = Nobody])

SetFollowCreature(w, c) ==
  IF c = Nobody THEN FollowNobody(w)
  ELSE IF w.follow = c THEN w
  ELSE IF c \notin w.seen THEN FollowNobody([w EXCEPT !.attack = Nobody])
  ELSE LET u == IF w.list = 0 THEN w ELSE OnWalkAborted([w EXCEPT !.list = 0])
       IN  [u EXCEPT !.hasFollowPath = FALSE, !.follow = c, !.isUpdatingPath = TRUE]

(* Attacking somebody stops following another, and follows him in chase.   *)
AttackSeen(w, c) ==
  IF w.chaseMode THEN SetFollowCreature([w EXCEPT !.attack = c], c)
  ELSE IF w.follow # Nobody THEN FollowNobody([w EXCEPT !.attack = c])
  ELSE [w EXCEPT !.attack = c]

SetAttackedCreature(w, c) ==
  IF c = Nobody THEN AttackNobody(w)
  ELSE IF c \notin w.seen THEN [w EXCEPT !.attack = Nobody]
  ELSE AttackSeen(w, c)

OnCreatureDisappear(w, c) ==
  LET u == IF w.attack = c THEN AttackNobody(w) ELSE w
  IN  IF u.follow = c THEN FollowNobody(u) ELSE u

LoseSight(w) ==
  LET u == IF w.follow \notin w.seen \union {Nobody} THEN OnCreatureDisappear(w, w.follow) ELSE w
  IN  IF u.attack \notin u.seen \union {Nobody} THEN OnCreatureDisappear(u, u.attack) ELSE u

PathAgain(w) ==
  IF w.follow # Nobody /\ w.hasFollowPath THEN Queued([w EXCEPT !.isUpdatingPath = FALSE], Update) ELSE w

(* The player has moved, by himself or not, perhaps out of sight of whom   *)
(* he follows or attacks.                                                  *)
OnCreatureMove(w, teleport, away) ==
  LET u == [w EXCEPT !.tired = TRUE, !.seen = IF away THEN @ \ {w.follow, w.attack} ELSE @]
  IN  PathAgain(LoseSight(IF teleport THEN StopEventWalk(u) ELSE u))

-----------------------------------------------------------------------------
(* A step, which may be impossible or end on a teleport.                   *)
Blocked == [step |-> "blocked", away |-> FALSE]
Outcomes == {Blocked} \union [step : {"ok", "teleported"}, away : BOOLEAN]

Step(w, o) ==
  LET u == [w EXCEPT !.list = @ - 1, !.stopped = IF @ = 0 THEN 0 ELSE @ + 1]
  IN  CASE o.step = "blocked" -> [w EXCEPT !.list = @ - 1]
        [] o.step = "ok" -> OnCreatureMove(u, FALSE, o.away)
        [] OTHER -> OnCreatureMove(OnCreatureMove(u, FALSE, FALSE), TRUE, o.away)

Onward(w, o) ==
  IF w.tired THEN w
  ELSE IF w.list = 0 THEN [OnWalkComplete(w) EXCEPT !.eventWalk = 0, !.walks = @ \ {w.eventWalk}]
  ELSE Step(w, o)

HaltedWithSteps(w) == IF w.cancelNextWalk THEN [OnWalkAborted(w) EXCEPT !.cancelNextWalk = FALSE] ELSE w
Halted(w) ==
  IF w.cancelNextWalk THEN [OnWalkAborted(w) EXCEPT !.list = 0, !.cancelNextWalk = FALSE] ELSE w

NextStep(w) == IF w.eventWalk = 0 THEN w ELSE AddEventWalk([w EXCEPT !.eventWalk = 0])

OnWalk(w, o) == NextStep(Halted(Onward(w, o)))

(* A single step is taken at once by who is rested, and the event added.   *)
StartAutoWalk(w, n, o) ==
  LET u == [w EXCEPT !.list = n, !.stopped = 0, !.cancelNextWalk = FALSE]
  IN  IF n = 1 /\ ~w.tired /\ w.eventWalk = 0 THEN Scheduled(OnWalk(u, o)) ELSE AddEventWalk(u)

(* Paths to whom the player follows: not looked for again just after one   *)
(* was not found.                                                          *)
NoPath == -1
NotTried == -2
Paths == NotTried .. MaxSteps

(* The outcome of the first step matters where it is taken at once.        *)
Routes == [n : Paths \ {1}, o : {Blocked}] \union [n : {1}, o : Outcomes]

GoToFollowCreature(w, r) ==
  IF w.walkTask \/ w.follow = Nobody \/ r.n = NotTried THEN w
  ELSE IF r.n = NoPath THEN [w EXCEPT !.list = 0, !.hasFollowPath = FALSE]
  ELSE StartAutoWalk([w EXCEPT !.hasFollowPath = TRUE], r.n, r.o)

-----------------------------------------------------------------------------
(* What the scheduler and the dispatcher run.                              *)
CheckCreatureWalk(e, o) == e \in walker.walks /\ walker' = OnWalk([walker EXCEPT !.walks = @ \ {e}], o)

RunTask(r) ==
  /\ walker.queue # <<>>
  /\ LET task == Head(walker.queue)
         w == [walker EXCEPT !.queue = Tail(@)]
     IN  walker' = IF task.op = "updateCreatureWalk" THEN GoToFollowCreature(w, r)
                   ELSE StartAutoWalk(w, task.steps, r.o)

OnThink(due, r) ==
  IF walker.isUpdatingPath \/ (due /\ walker.follow # Nobody)
  THEN walker' = GoToFollowCreature([walker EXCEPT !.isUpdatingPath = FALSE], r)
  ELSE UNCHANGED walker

(* Using something: far away it is walked to first.                        *)
UseItem(w, n) ==
  IF n = NotTried THEN StopWalk(w) ELSE IF n = NoPath THEN w ELSE SetNextWalkActionTask(Queued(w, Walk(n)), TRUE)

WalkTask(e, n) == e \in walker.uses /\ walker' = UseItem([walker EXCEPT !.uses = @ \ {e}], n)

(* What the client asks for.                                               *)
PlayerUseItem(n) == walker' = UseItem(walker, n)
PlayerMove(o) == walker' = StartAutoWalk(SetNextWalkActionTask(walker, FALSE), 1, o)
PlayerAutoWalk(r) == r.n > 0 /\ walker' = StartAutoWalk(walker, r.n, r.o)
PlayerStopAutoWalk == walker' = StopWalk(walker)

PlayerSetAttackedCreature(c) ==
  LET w == SetAttackedCreature(walker, c)
  IN  walker' = IF c = Nobody THEN w ELSE Queued(w, Update)

PlayerFollowCreature(c) == walker' = SetFollowCreature(Queued(AttackNobody(walker), Update), c)
PlayerCancelAttackAndFollow == walker' = StopWalk(FollowNobody(Queued(AttackNobody(walker), Update)))

SetChaseMode(mode) ==
  LET w == [walker EXCEPT !.chaseMode = mode]
  IN  walker' = IF mode = walker.chaseMode \/ w.attack = Nobody THEN w
                ELSE IF ~mode THEN FollowNobody(w)
                ELSE IF w.follow = Nobody THEN SetFollowCreature(w, w.attack) ELSE w

(* What others do to him.                                                  *)
Displaced(teleport, away) == walker' = OnCreatureMove(walker, teleport, away)

TargetMoves(c, inSight) ==
  LET w == [walker EXCEPT !.seen = IF inSight THEN @ \union {c} ELSE @ \ {c}]
  IN  walker' = IF walker.follow = c THEN PathAgain(LoseSight(w)) ELSE LoseSight(w)

(* setSpeed: what takes his speed stops the event and leaves an order to   *)
(* stop behind, which his next walk takes back; and when his speed comes   *)
(* back, other than by a level, so does addEventWalk with any order there  *)
(* is, though the event of a walk begun meanwhile may be pending.          *)
SetSpeed(slow, byLevel) ==
  walker' = IF slow
            THEN [StopEventWalk([walker EXCEPT !.slow = TRUE]) EXCEPT !.cancelNextWalk = TRUE]
            ELSE IF ~walker.slow \/ byLevel \/ walker.list = 0 THEN [walker EXCEPT !.slow = FALSE]
            ELSE AddEventWalk([walker EXCEPT !.slow = FALSE, !.stopped = 0])

Rests == walker.tired /\ walker' = [walker EXCEPT !.tired = FALSE]

WalkNext ==
  /\ \/ \E e \in Ids, n \in Paths : WalkTask(e, n)
     \/ \E e \in Ids, o \in Outcomes : CheckCreatureWalk(e, o)
     \/ \E r \in Routes : RunTask(r) \/ PlayerAutoWalk(r) \/ \E due \in BOOLEAN : OnThink(due, r)
     \/ \E n \in Paths : PlayerUseItem(n)
     \/ \E o \in Outcomes : PlayerMove(o)
     \/ PlayerStopAutoWalk \/ PlayerCancelAttackAndFollow \/ Rests
     \/ \E c \in Targets \union {Nobody} : PlayerSetAttackedCreature(c) \/ PlayerFollowCreature(c)
     \/ \E b \in BOOLEAN : SetChaseMode(b) \/ \E byLevel \in BOOLEAN : SetSpeed(b, byLevel)
     \/ \E b \in BOOLEAN, c \in Targets : TargetMoves(c, b)
     \/ \E teleport, away \in BOOLEAN : Displaced(teleport, away)
  /\ Len(walker'.queue) <= MaxQueue

WalkSpec == WalkInit /\ [][WalkNext]_walker

-----------------------------------------------------------------------------
(* There is at most one event of each kind, and it is the one that can be  *)
(* stopped: nobody walks at double pace or uses a thing twice.             *)
OneEvent ==
  /\ walker.walks = {walker.eventWalk} \ {0}
  /\ walker.uses \subseteq {walker.walkTaskEvent} /\ (walker.walkTask => walker.uses = {})

(* A walk that is not finished, or that an action waits for, goes on, but  *)
(* for who was teleported or could not move: he and his action wait for    *)
(* the next walk.                                                          *)
WalkGoesOn ==
  walker.list > 0 \/ walker.walkTask =>
    \/ walker.eventWalk # 0 \/ walker.adrift
    \/ \E i \in DOMAIN walker.queue : walker.queue[i].op = "playerAutoWalk"

(* Who is told to stop takes one more step at most, until he walks anew,   *)
(* or his speed comes back from nothing: that has him forget the order and *)
(* walk on.  Nothing else does, whatever is scheduled, stopped or added in *)
(* between.                                                                *)
StopsWithinAStep == walker.stopped <= 2

(* Who attacks follows that same creature if he is to chase, or nobody.    *)
ChasesWhomHeAttacks ==
  walker.attack # Nobody => walker.follow = IF walker.chaseMode THEN walker.attack ELSE Nobody

WalkSound == OneEvent /\ WalkGoesOn /\ StopsWithinAStep /\ ChasesWhomHeAttacks
=============================================================================
