-------------------------------- MODULE Effects --------------------------------
(***************************************************************************)
(* How long a condition lasts and what it deals (condition.cpp): plain     *)
(* conditions, and damage over time, dealt by a list of rounds or          *)
(* periodically.  One condition of a type and id: what is added meets it.  *)
(*                                                                         *)
(* A condition ends by the clock, its rounds are dealt by counted checks.  *)
(* The unit of time is half the interval between two checks; left is the   *)
(* time up to endTime, below zero once it is over.                         *)
(***************************************************************************)
EXTENDS Integers, Sequences, SequencesExt, FiniteSetsExt

CONSTANTS
  Catalogue,     \* the conditions that somebody may add
  MaxLag         \* bound: how much later than due a check may come

Think == 2       \* EVENT_CREATURE_THINK_INTERVAL
DefaultInterval == 4

Over == -(2 * Think + MaxLag)     \* any time long past
Never == 100                      \* the endTime of what is permanent

(* A condition as it is made: ticks -1 is for ever, endless if it was      *)
(* constructed so, which damage never is; rounds, or min, max and start to *)
(* draw them from, or period.                                              *)
EffectsAssumption ==
  /\ MaxLag \in Nat
  /\ \A x \in Catalogue :
       /\ x.ticks \in Nat \union {-1} /\ x.period \in Nat /\ x.tick \in Nat \ {0}
       /\ x.list # <<>> /\ x.ticks # -1 => x.ticks = FoldLeft(LAMBDA n, r : n + r.span, 0, x.list)
       /\ x.endless => x.ticks = -1 /\ x.kind = "plain"
       /\ x.start <= x.max /\ x.min <= x.max

VARIABLES
  c,             \* the condition, or None
  sinceCheck,    \* time since the last executeConditions
  field,         \* the field the creature stands in: "none", "own", "other"
  hist           \* history

vars == <<c, sinceCheck, field, hist>>

None == [kind |-> "none"]
NoHistory == [drawn |-> 0, first |-> 0, owed |-> 0, dealt |-> 0, apart |-> FALSE, renewed |-> FALSE,
              forced |-> FALSE]

Init == c = None /\ sinceCheck = 0 /\ field = "none" /\ hist = NoHistory

-----------------------------------------------------------------------------
SetTicks(x, t) == [x EXCEPT !.ticks = t, !.left = t]

(* Condition::startCondition.                                              *)
Started(x) == IF x.ticks > 0 THEN [x EXCEPT !.left = x.ticks] ELSE x

(* The constructor: what it is told lasts for ever has an end that never   *)
(* comes; the rest has none yet, not even what setParam makes permanent.   *)
Made(x) == [x EXCEPT !.left = IF x.endless THEN Never ELSE Over]

Sum(list) == FoldLeft(LAMBDA n, r : n + r.value, 0, list)
Distance(a, b) == Max({a - b, b - a})

(* generateDamageList: i is dealt until the sum is closest to its share.   *)
RECURSIVE Generated(_, _, _, _, _)
Generated(amount, start, i, sum, list) ==
  IF i = 0 THEN list
  ELSE LET med == ((start + 1 - i) * amount) \div start
           more == med > 0 /\ Distance(sum + 2 * i, med) < Distance(sum + i, med)
       IN  Generated(amount, start, IF more THEN i ELSE i - 1, sum + i, Append(list, i))

(* addDamage: a round lasts at least from one check to the next.           *)
Round(span, value) == [left |-> Max({span, Think}), span |-> Max({span, Think}), value |-> value]

AddDamage(x, r) == SetTicks([x EXCEPT !.list = Append(@, r)], IF x.ticks # -1 THEN x.ticks + r.span ELSE -1)

(* init, when amount was drawn.                                            *)
StartDamage(x, amount) ==
  IF x.start > x.max THEN x.max ELSE IF x.start = 0 THEN Max({1, (amount + 19) \div 20}) ELSE x.start

Inited(x, amount) ==
  IF x.period # 0 \/ x.list # <<>> THEN x
  ELSE IF amount = 0 THEN SetTicks(x, 0)
  ELSE LET start == StartDamage(x, amount)
           Add(y, value) == AddDamage(y, Round(x.tick, value))
       IN  FoldLeft(Add, SetTicks([x EXCEPT !.start = start], 0), Generated(amount, start, start, 0, <<>>))

Ready(x) == x.period # 0 \/ x.list # <<>>

(* getNextDamage: the round that is dealt goes, unless it is for ever.     *)
Popped(x) == IF x.period = 0 /\ x.ticks # -1 THEN [x EXCEPT !.list = Tail(@)] ELSE x

GetTotalDamage(x) == IF x.list # <<>> THEN Sum(x.list) ELSE x.min + (x.max - x.min) \div 2

-----------------------------------------------------------------------------
(* addCondition of the creature when it has none of the kind.  A condition *)
(* whose first round is blocked is not kept.                               *)
StartPlain(x) ==
  /\ c' = Started(x)
  /\ hist' = NoHistory

StartDamaging(x, amount, blocked) ==
  LET y == Inited(Started(x), amount)
      z == IF y.delayed THEN y ELSE Popped(y)
  IN  IF ~Ready(y) \/ (~y.delayed /\ blocked) THEN c' = None /\ hist' = NoHistory
      ELSE /\ c' = z
           /\ hist' = [NoHistory EXCEPT !.drawn = IF x.list = <<>> THEN amount ELSE 0, !.first = y.start,
                                        !.owed = Sum(y.list), !.dealt = Sum(y.list) - Sum(z.list)]

Start(x, amount, blocked) ==
  IF x.kind = "plain" THEN StartPlain(x) ELSE StartDamaging(x, amount, blocked)

(* updateCondition of both kinds: whether x replaces what is there.        *)
Outlasts(x) ==
  /\ ~(c.ticks = -1 /\ x.ticks > 0)
  /\ ~(x.ticks >= 0 /\ c.left > x.ticks)

Surpasses(x) ==
  \/ x.force
  \/ ~(c.ticks = -1 /\ x.ticks > 0) /\ GetTotalDamage(x) > GetTotalDamage(c)

MergePlain(x) ==
  /\ c' = IF Outlasts(x) THEN SetTicks(c, x.ticks) ELSE c
  /\ hist' = [hist EXCEPT !.renewed = @ \/ (Outlasts(x) /\ x.ticks = -1)]

(* The rounds are those of x, the first of them with the time that was left*)
(* to the former first; delayed stays as it was.                           *)
Replaced(x, amount) ==
  LET next == IF c.list # <<>> THEN Head(c.list).left ELSE x.tick
      y == Inited([SetTicks(x, x.ticks) EXCEPT !.delayed = c.delayed, !.acc = c.acc], amount)
  IN  IF y.list # <<>> THEN [y EXCEPT !.list[1].left = next] ELSE y

MergeDamage(x, amount) ==
  IF ~Surpasses(x) THEN UNCHANGED <<c, hist>>
  ELSE LET y == Replaced(x, amount)
           z == IF Ready(y) /\ ~y.delayed THEN Popped(y) ELSE y
       IN  /\ c' = z
           /\ hist' = [hist EXCEPT !.drawn = IF x.list = <<>> THEN amount ELSE 0, !.first = y.start,
                                   !.owed = Sum(y.list), !.dealt = Sum(y.list) - Sum(z.list),
                                   !.forced = x.force, !.renewed = x.ticks = -1,
                                   !.apart = y.list # <<>> /\ y.list[1].left > y.list[1].span]

Amounts(x) == IF x.list = <<>> /\ x.period = 0 THEN x.min .. x.max ELSE {0}

AddCondition ==
  /\ \E x \in Catalogue : \E amount \in Amounts(x), blocked \in BOOLEAN :
       \/ c = None /\ Start(Made(x), amount, blocked)
       \/ c # None /\ c.kind = x.kind /\ x.kind = "plain" /\ MergePlain(x)
       \/ c # None /\ c.kind = x.kind /\ x.kind = "damage" /\ MergeDamage(x, amount)
  /\ UNCHANGED <<sinceCheck, field>>

-----------------------------------------------------------------------------
(* executeCondition at a check.  In a field of its type the first round    *)
(* stays and the end moves on; in another field even what is permanent     *)
(* goes by (onTickCondition).                                              *)
Stays(x) == field = "own" \/ (field = "none" /\ x.ticks = -1)

Struck(x) ==
  LET stays == Stays(x)
      due == x.list[1].left <= Think
      z == IF ~due THEN [x EXCEPT !.list[1].left = @ - Think]
           ELSE IF stays THEN [x EXCEPT !.list[1].left = x.list[1].span]
           ELSE [x EXCEPT !.list = Tail(@)]
  IN  [c |-> IF stays /\ x.ticks > 0 THEN [z EXCEPT !.left = @ + Think] ELSE z,
       dealt |-> IF due /\ ~stays THEN x.list[1].value ELSE 0,
       again |-> due /\ stays,
       interval |-> IF stays THEN 0 ELSE Think]

Periodic(x) ==
  [c |-> [x EXCEPT !.acc = IF @ + Think >= x.tick THEN 0 ELSE @ + Think], dealt |-> 0, again |-> FALSE, interval |-> Think]

Executed(x) ==
  CASE x.kind = "damage" /\ x.period # 0 -> Periodic(x)
    [] x.kind = "damage" /\ x.period = 0 /\ x.list # <<>> -> Struck(x)
    [] OTHER -> [c |-> x, dealt |-> 0, again |-> FALSE, interval |-> Think]

Lasts(x) == x.ticks = -1 \/ x.left >= 0
Counted(x, interval) == IF x.ticks = -1 THEN x ELSE [x EXCEPT !.ticks = Max({0, @ - interval})]

ExecuteConditions ==
  /\ sinceCheck >= Think
  /\ sinceCheck' = 0
  /\ IF c = None THEN UNCHANGED <<c, hist>>
     ELSE LET r == Executed(c)
          IN  /\ c' = IF Lasts(r.c) THEN Counted(r.c, r.interval) ELSE None
              /\ hist' = [hist EXCEPT !.dealt = @ + r.dealt,
                                      !.apart = @ \/ r.again \/ sinceCheck > Think]
  /\ UNCHANGED field

Tick ==
  /\ sinceCheck < Think + MaxLag
  /\ sinceCheck' = sinceCheck + 1
  /\ c' = IF c # None /\ c.left \in Over + 1 .. Never - 1 THEN [c EXCEPT !.left = @ - 1] ELSE c
  /\ UNCHANGED <<field, hist>>

EnterOrLeaveField ==
  /\ \E f \in {"none", "own", "other"} \ {field} : field' = f
  /\ UNCHANGED <<c, sinceCheck, hist>>

(* What is stored: not what is for ever; and of damage the rounds, the     *)
(* period and whether it is delayed, while its ticks are added up anew.    *)
IsPersistent(x) == x.ticks # -1

Created(x) ==
  IF x.kind = "plain" THEN Made(x)
  ELSE [x EXCEPT !.ticks = 0, !.left = Over, !.tick = DefaultInterval,
                 !.acc = 0, !.min = 0, !.max = 0, !.start = 0, !.force = FALSE]

Unserialized(x) ==
  FoldLeft(LAMBDA y, r : SetTicks(y, y.ticks + r.span), Created(x), x.list)

(* Logged out and in again: startCondition once more.                      *)
Relog(blocked) ==
  /\ c # None
  /\ IF ~IsPersistent(c) THEN c' = None /\ hist' = NoHistory
     ELSE LET x == Started(Unserialized(c))
              strikes == x.kind = "damage" /\ ~x.delayed
          IN  IF x.kind = "damage" /\ (~Ready(x) \/ (strikes /\ blocked)) THEN c' = None /\ hist' = NoHistory
              ELSE /\ c' = IF strikes THEN Popped(x) ELSE x
                   /\ hist' = [hist EXCEPT !.dealt = @ + Sum(x.list) - Sum(c'.list)]
  /\ UNCHANGED <<sinceCheck, field>>

Next == AddCondition \/ ExecuteConditions \/ Tick \/ EnterOrLeaveField \/ \E b \in BOOLEAN : Relog(b)

-----------------------------------------------------------------------------
(* What is drawn is dealt, or, if the first round is large for it, the sum *)
(* of the rounds that lead down to one.                                    *)
OwedAsDrawn ==
  hist.drawn > 0 => hist.owed = Max({hist.drawn, (hist.first * (hist.first + 1)) \div 2})

(* Nothing is dealt twice or forgotten while the condition lasts.          *)
DealtAndLeft ==
  c # None /\ c.kind = "damage" /\ c.period = 0 => hist.dealt + Sum(c.list) = hist.owed

(* hasCondition knows what is permanent just if it was constructed so and  *)
(* not renewed since, though it goes on in either case.                    *)
PermanentIsKnown ==
  c # None /\ c.ticks = -1 => (c.left >= 0 <=> c.endless /\ ~hist.renewed)

(* Damage ends by the clock only when all its rounds were dealt, unless    *)
(* the clock and the rounds have come apart: by a check that came late, a  *)
(* round of the field the creature stood in, a first round that has to wait*)
(* for longer than a round of its list, or rounds that no number of checks *)
(* makes.                                                                  *)
EndsExhausted ==
  c # None /\ c' = None /\ sinceCheck' # sinceCheck /\ ~hist'.apart =>
    hist'.dealt = hist'.owed \/ \E k \in DOMAIN c.list : c.list[k].span % Think # 0

(* Who is struck again is not better off, unless the stronger condition    *)
(* draws less than it might.                                               *)
NeverWeakened ==
  c # None /\ c' # None /\ hist'.owed # hist.owed =>
    \/ hist'.owed > Sum(c.list)
    \/ hist'.drawn # 0
    \/ hist'.forced

(* What is added to a plain condition never brings its end nearer, unless  *)
(* it takes the end away; a relog does by less than the time of a check,   *)
(* for what is stored was counted by checks.                               *)
NeverShortened ==
  c # None /\ c' # None /\ c.kind = "plain" /\ sinceCheck' = sinceCheck /\ c'.ticks # -1 =>
    Max({0, c'.left}) >= c.left - Think
=============================================================================
