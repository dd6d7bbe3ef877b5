--------------------------------- MODULE Decay ---------------------------------
(***************************************************************************)
(* Decaying items and the reference counters that keep them alive:         *)
(* startDecay, internalDecayItem, checkDecay and cleanup (game.cpp 4376-   *)
(* 4565), with what transformItem and internalRemoveItem do to an item     *)
(* that is waiting in a bucket.                                            *)
(*                                                                         *)
(* Times are milliseconds.  An item is with its parent or removed; what is *)
(* deleted has no references and may be created anew.                      *)
(***************************************************************************)
EXTENDS Integers, Sequences, SequencesExt, FiniteSets

CONSTANTS
  Items, Types,
  DecayTime,           \* ItemType::decayTime in milliseconds, 0 if none
  DecayTo,             \* the type it becomes, Vanish or Never
  StopTime,            \* the types with ItemType::stopTime
  Kind,                \* ItemType::type
  Durations,           \* what a script may set
  Vanish, Never,
  MaxTime, MaxEntries  \* bounds: the clock, and entries in the lists

EVENT_DECAYINTERVAL == 250
EVENT_DECAY_BUCKETS == 4
Period == EVENT_DECAYINTERVAL * EVENT_DECAY_BUCKETS

Absent == -1           \* no duration attribute, no known end

(* What the constants have to be.                                          *)
DecayAssumption ==
  /\ DecayTime \in [Types -> Nat] /\ DecayTo \in [Types -> Types \union {Vanish, Never}]
  /\ StopTime \subseteq Types /\ Durations \subseteq Nat
  /\ \A t \in Types : DecayTo[t] \in Types => DecayTime[DecayTo[t]] > 0 \/ DecayTo[DecayTo[t]] = Never

VARIABLES
  w,           \* the items, the decay lists, the release list and the clock
  lastBucket

vars == <<w, lastBucket>>

Deleted ==
  [type |-> CHOOSE t \in Types : TRUE, duration |-> Absent, decaying |-> FALSE,
   parent |-> FALSE, refs |-> 0, due |-> Absent, twice |-> FALSE]

Created(t) ==
  [Deleted EXCEPT !.type = t, !.parent = TRUE, !.refs = 1,
                  !.duration = IF DecayTime[t] # 0 THEN DecayTime[t] ELSE Absent]

Init ==
  /\ w = [item |-> [i \in Items |-> Deleted], now |-> 0,
          buckets |-> [b \in 0 .. EVENT_DECAY_BUCKETS - 1 |-> <<>>],
          toDecay |-> <<>>, toRelease |-> <<>>]
  /\ lastBucket = 0

-----------------------------------------------------------------------------
Alive(i) == w.item[i].refs > 0
Times(s, i) == Cardinality({k \in DOMAIN s : s[k] = i})
Entries(v, i) ==
  FoldFunction(LAMBDA s, n : n + Times(s, i), 0, v.buckets) + Times(v.toDecay, i)
Spare(v) == {i \in Items : v.item[i].refs = 0}

ReleaseItem(v, i) == [v EXCEPT !.toRelease = Append(@, i)]
RemoveItem(v, i) == ReleaseItem([v EXCEPT !.item[i].parent = FALSE], i)

(* Item::setID: a type that decays starts from the beginning and is not    *)
(* decaying, unless the time of the previous one stood still.              *)
SetID(x, t) ==
  LET y == IF DecayTime[t] = 0 /\ t \notin StopTime /\ DecayTo[t] = Never
           THEN [x EXCEPT !.type = t, !.duration = Absent, !.decaying = FALSE, !.due = Absent]
           ELSE [x EXCEPT !.type = t, !.due = Absent]
  IN  IF DecayTime[t] > 0 /\ (x.type \notin StopTime \/ x.duration = Absent)
      THEN [y EXCEPT !.decaying = FALSE, !.duration = DecayTime[t]] ELSE y

(* transformItem: the world after it and the item it returns.              *)
TransformItem(v, i, t) ==
  IF v.item[i].type = t THEN [v |-> v, item |-> i]
  ELSE IF Kind[v.item[i].type] = Kind[t]
  THEN [v |-> [v EXCEPT !.item[i] = SetID(@, t)], item |-> i]
  ELSE LET j == CHOOSE j \in Spare(v) : TRUE
       IN  [v |-> RemoveItem([v EXCEPT !.item[j] = Created(t)], i), item |-> j]

CanDecay(v, i) ==
  v.item[i].parent /\ DecayTo[v.item[i].type] # Never /\ DecayTime[v.item[i].type] # 0

Enlisted(v, i) ==
  LET x == v.item[i]
  IN  [v EXCEPT !.toDecay = <<i>> \o @,
                !.item[i] = [x EXCEPT !.refs = @ + 1, !.decaying = TRUE,
                                      !.twice = (@ \/ Entries(v, i) > 0),
                                      !.due = v.now + x.duration]]

(* What decays never becomes a type that is due at once (DecayAssumption): *)
(* internalDecayItem and startDecay call each other only once.             *)
StartNext(v, i) ==
  IF ~CanDecay(v, i) \/ v.item[i].decaying THEN v ELSE Enlisted(v, i)

InternalDecayItem(v, i) ==
  LET to == DecayTo[v.item[i].type]
  IN  IF to = Vanish THEN RemoveItem(v, i)
      ELSE LET r == TransformItem(v, i, to) IN StartNext(r.v, r.item)

Started(v, i) ==
  IF ~CanDecay(v, i) \/ v.item[i].decaying THEN v
  ELSE IF v.item[i].duration > 0 THEN Enlisted(v, i)
  ELSE InternalDecayItem(v, i)

-----------------------------------------------------------------------------
(* cleanup: one reference less for each entry of ToReleaseItems; what has  *)
(* begun to decay is sorted into the bucket its duration asks for.         *)
Placed(v, i) ==
  LET d == v.item[i].duration
      b == IF d >= Period THEN lastBucket'
           ELSE (lastBucket' + 1 + d \div 1000) % EVENT_DECAY_BUCKETS
  IN  [v EXCEPT !.buckets[b] = Append(@, i)]

Unreferenced(v, i) ==
  [v EXCEPT !.item[i] = IF @.refs = 1 THEN Deleted ELSE [@ EXCEPT !.refs = @ - 1]]

Cleanup(v) ==
  LET released == FoldLeft(Unreferenced, [v EXCEPT !.toRelease = <<>>], v.toRelease)
  IN  FoldLeft(Placed, [released EXCEPT !.toDecay = <<>>], v.toDecay)

(* checkDecay: what it does with each item of the bucket.                  *)
Ended(v, i) == ReleaseItem(InternalDecayItem(v, i), i)

Visited(v, i, bucket) ==
  LET d == v.item[i].duration
      left == d - IF d < Period THEN d ELSE Period
      u == [v EXCEPT !.item[i].duration = left]
      new == (bucket + ((left + EVENT_DECAYINTERVAL \div 2) \div 1000)) % EVENT_DECAY_BUCKETS
  IN  CASE ~CanDecay(v, i) -> ReleaseItem([v EXCEPT !.item[i].decaying = FALSE], i)
        [] CanDecay(v, i) /\ (left = 0 \/ (left < Period /\ new = bucket)) -> Ended(u, i)
        [] OTHER -> [u EXCEPT !.buckets[IF left < Period THEN new ELSE bucket] = Append(@, i)]

CheckDecay ==
  LET bucket == (lastBucket + 1) % EVENT_DECAY_BUCKETS
      start == [w EXCEPT !.now = @ + EVENT_DECAYINTERVAL, !.buckets[bucket] = <<>>]
      Visit(v, i) == Visited(v, i, bucket)
  IN  /\ w.now < MaxTime
      /\ Len(w.buckets[bucket]) <= Cardinality(Spare(w))
      /\ lastBucket' = bucket
      /\ w' = Cleanup(FoldLeft(Visit, start, w.buckets[bucket]))

(* checkCreatures and checkCreatureWalk clean up between two checks.       *)
CleanupBetween ==
  /\ UNCHANGED lastBucket
  /\ w' = Cleanup(w)

-----------------------------------------------------------------------------
(* What scripts and players do to items in between.                        *)
CreateItem(t) ==
  /\ Spare(w) # {}
  /\ w' = [w EXCEPT !.item[CHOOSE i \in Spare(w) : TRUE] = Created(t)]
  /\ UNCHANGED lastBucket

StartDecay(i) ==
  /\ Alive(i) /\ Spare(w) # {} /\ Entries(w, i) < MaxEntries
  /\ w' = Started(w, i)
  /\ UNCHANGED lastBucket

Transform(i, t) ==
  /\ Alive(i) /\ w.item[i].parent /\ Spare(w) # {}
  /\ w' = TransformItem(w, i, t).v
  /\ UNCHANGED lastBucket

SetDuration(i, d) ==
  /\ Alive(i) /\ w.item[i].parent
  /\ w' = [w EXCEPT !.item[i].duration = d, !.item[i].due = Absent]
  /\ UNCHANGED lastBucket

RemoveThing(i) ==
  /\ Alive(i) /\ w.item[i].parent
  /\ w' = RemoveItem(w, i)
  /\ UNCHANGED lastBucket

Next ==
  \/ CheckDecay \/ CleanupBetween
  \/ \E t \in Types : CreateItem(t)
  \/ \E i \in Items : StartDecay(i) \/ RemoveThing(i)
  \/ \E i \in Items, t \in Types : Transform(i, t)
  \/ \E i \in Items, d \in Durations : SetDuration(i, d)

Spec == Init /\ [][Next]_vars

-----------------------------------------------------------------------------
(* An item has one reference of its parent, or of the release list once it *)
(* is removed, and one for each entry in the decay lists: none is deleted  *)
(* while a list points to it, and none is kept for ever.                   *)
Counted ==
  \A i \in Items :
    w.item[i].refs = Entries(w, i) + Times(w.toRelease, i) + (IF w.item[i].parent THEN 1 ELSE 0)

(* An item is in the lists as often as it was put there: once, unless a    *)
(* transformation made it look as if it were not (item.cpp 263).           *)
OneEntry ==
  \A i \in Items :
    /\ ~w.item[i].twice => Entries(w, i) <= 1
    /\ w.item[i].decaying => Entries(w, i) >= 1

(* An item in the lists does not outstay its duration by more than one     *)
(* interval.                                                               *)
NotOverdue ==
  \A i \in Items :
    LET x == w.item[i]
    IN  CanDecay(w, i) /\ x.decaying /\ ~x.twice /\ x.due # Absent
          => w.now <= x.due + EVENT_DECAYINTERVAL

(* It decays when it is due, to the interval, if its duration is in whole  *)
(* seconds, and less than a second early if a script gave it another one.  *)
Ends(i) ==
  LET x == w.item[i]
  IN  /\ x.refs > 0 /\ CanDecay(w, i) /\ x.decaying /\ ~x.twice /\ x.due # Absent
      /\ w'.now # w.now /\ (w'.item[i].type # x.type \/ ~w'.item[i].parent)

DecaysOnTime ==
  \A i \in Items :
    Ends(i) => LET late == w'.now - w.item[i].due
               IN  late <= EVENT_DECAYINTERVAL
                   /\ late >= IF w.item[i].duration % 1000 = 0 THEN 0 ELSE -1000
=============================================================================
