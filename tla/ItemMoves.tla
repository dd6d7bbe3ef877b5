------------------------------ MODULE ItemMoves ------------------------------
(***************************************************************************)
(* Moving, adding and removing items: Game::internalMoveItem,              *)
(* internalAddItem, internalRemoveItem, internalPlayerAddItem (game.cpp)   *)
(* with the queries of their cylinders: a player's slots (player.cpp), his *)
(* containers (container.cpp) and one tile (tile.cpp).                     *)
(*                                                                         *)
(* classicEquipmentSlots is on, as in config.lua.  Every item may be       *)
(* carried and moved; a stack holds up to StackSize, 100 in the code.      *)
(***************************************************************************)
EXTENDS Integers, Sequences, SequencesExt, FiniteSets, FiniteSetsExt

CONSTANTS
  Items,
  Sword, Shield, Bow, Bag, Coin, Gem,   \* kinds of items
  Weight,                          \* of an item of a kind
  Player, Ground, None,
  StackSize, BagSize,
  Capacity                         \* what the player can carry

Kinds == {Sword, Shield, Bow, Bag, Coin, Gem}

(* slots_t, in the order of the search                                     *)
BACKPACK == 3
RIGHT == 5
LEFT == 6
AMMO == 10
Slots == <<BACKPACK, RIGHT, LEFT, AMMO>>
SlotNames == Range(Slots)
Wherever == -1
MoveUp == 254

(* What the constants have to be.                                          *)
ItemMovesAssumption ==
  /\ Weight \in [Kinds -> Nat]
  /\ StackSize \in Nat \ {0} /\ BagSize \in Nat \ {0} /\ Capacity \in Nat
  /\ {Player, Ground, None} \cap Items = {}

VARIABLES
  v,           \* the items and where they are
  offered,     \* Player::tradeItem
  total,       \* how much of each kind the world should hold
  lost         \* how much of what was given went nowhere

vars == <<v, offered, total, lost>>

Thing(k, n, p) == [kind |-> k, count |-> n, parent |-> p]
Unused(w) == {i \in Items : w.item[i].count = 0}
Holders == Items \union {Ground}

Is(w, i, k) == w.item[i].kind = k
Stackable(w, i) == w.item[i].kind \in {Coin, Gem}
Count(w, i) == w.item[i].count
Parent(w, i) == w.item[i].parent
Equals(w, i, j) == i # None /\ j # None /\ w.item[i].kind = w.item[j].kind
At(w, h, index) == IF index \in 0 .. Len(w.list[h]) - 1 THEN w.list[h][index + 1] ELSE None

-----------------------------------------------------------------------------
(* The chain of parents, weights and capacity.                             *)
Outer(w, h) == IF h \in Items THEN Parent(w, h) ELSE None
Around(w, h) == {h, Outer(w, h), Outer(w, Outer(w, h)), Outer(w, Outer(w, Outer(w, h)))} \ {None}
TopParent(w, i) ==
  IF Player \in Around(w, i) THEN Player
  ELSE CHOOSE h \in Around(w, i) \ {Ground} : Parent(w, h) \in {Ground, None}

Within(w, h) == {i \in Items : w.item[i].count > 0 /\ h \in Around(w, Parent(w, i))}

RECURSIVE Load(_, _)
Load(w, s) ==
  IF s = <<>> THEN 0
  ELSE Weight[w.item[Head(s)].kind] * Count(w, Head(s)) + Load(w, w.list[Head(s)]) + Load(w, Tail(s))

Carried(w) == Load(w, SelectSeq([k \in DOMAIN Slots |-> w.slot[Slots[k]]], LAMBDA i : i # None))

HasCapacity(w, i, count) ==
  \/ TopParent(w, i) = Player
  \/ LET own == Weight[w.item[i].kind] * (IF Stackable(w, i) THEN count ELSE 1)
     IN  own + Load(w, w.list[i]) + Carried(w) <= Capacity

(* Player::queryAdd for a hand, looking at what is in the other one.       *)
HandAllows(w, i, hand, count) ==
  LET o == w.slot[CHOOSE s \in {LEFT, RIGHT} : s # hand]
  IN  \/ o = None
      \/ Is(w, i, Bow) /\ o = i
      \/ /\ ~Is(w, i, Bow) /\ ~Is(w, o, Bow)
         /\ \/ i = o /\ count = Count(w, i)
            \/ /\ ~(Is(w, i, Shield) /\ Is(w, o, Shield))
               /\ {w.item[i].kind, w.item[o].kind} \cap {Coin, Gem, Bag, Shield} # {}

SlotAllows(w, i, index, count) ==
  CASE index = BACKPACK -> Is(w, i, Bag)
    [] index = AMMO     -> TRUE
    [] OTHER          -> HandAllows(w, i, index, count)

PlayerQueryAdd(w, index, i, count) ==
  IF index \notin SlotNames \/ ~SlotAllows(w, i, index, count) THEN "no"
  ELSE IF w.slot[index] # None /\ ~(Stackable(w, i) /\ Equals(w, i, w.slot[index])) THEN "exchange"
  ELSE IF HasCapacity(w, i, count) THEN "ok" ELSE "no"

ContainerQueryAdd(w, h, index, i, count) ==
  IF /\ i \notin Around(w, h)
     /\ index = Wherever => Len(w.list[h]) < BagSize
     /\ TopParent(w, h) = Player => HasCapacity(w, i, count)
  THEN "ok" ELSE "no"

QueryAdd(w, h, index, i, count) ==
  CASE h = Player -> PlayerQueryAdd(w, index, i, count)
    [] h = Ground -> "ok"
    [] OTHER      -> ContainerQueryAdd(w, h, index, i, count)

-----------------------------------------------------------------------------
(* How many of an item there is room for.                                  *)
Free(w, h) == Max({BagSize - Len(w.list[h]), 0})
OneTooMany(w, j) == StackSize + 1 - Count(w, j)
Missing(w, j) == StackSize - Count(w, j)

ContainerMaxCount(w, h, index, i) ==
  LET Stack(j) == IF j # i /\ Equals(w, i, j) THEN Missing(w, j) ELSE 0
      Ok(k) == ContainerQueryAdd(w, h, k, i, Missing(w, w.list[h][k + 1])) = "ok"
      Room(k) == IF Ok(k) THEN Stack(w.list[h][k + 1]) ELSE 0
      at == At(w, h, index)
  IN  IF ~Stackable(w, i) THEN Free(w, h)
      ELSE Free(w, h) * StackSize +
             IF index = Wherever THEN MapThenSumSet(Room, 0 .. Len(w.list[h]) - 1)
             ELSE IF Equals(w, i, at) /\ Ok(index) THEN Missing(w, at) ELSE 0

SlotMaxCount(w, s, i, count) ==
  LET j == w.slot[s]
  IN  IF j = None
      THEN IF PlayerQueryAdd(w, s, i, count) # "ok" THEN 0
           ELSE IF Stackable(w, i) THEN StackSize ELSE 1
      ELSE IF Stackable(w, i) /\ Equals(w, i, j) THEN Missing(w, j) ELSE 0

PlayerMaxCount(w, index, i, count) ==
  LET InSlot(s) ==
        LET j == w.slot[s]
        IN  IF j = None THEN SlotMaxCount(w, s, i, Count(w, i))
            ELSE IF Is(w, j, Bag)
            THEN LET Bags == {h \in {j} \union Within(w, j) : Is(w, h, Bag)}
                     Of(h) == ContainerMaxCount(w, h, Wherever, i)
                 IN  MapThenSumSet(Of, Bags)
            ELSE IF PlayerQueryAdd(w, s, i, Missing(w, j)) = "ok" THEN SlotMaxCount(w, s, i, count)
            ELSE 0
  IN  IF index = Wherever THEN MapThenSumSet(InSlot, SlotNames)
      ELSE SlotMaxCount(w, index, i, count)

MaxCount(w, h, index, i, count) ==
  CASE h = Player -> PlayerMaxCount(w, index, i, count)
    [] h = Ground -> Max({1, count})
    [] OTHER      -> ContainerMaxCount(w, h, index, i)

-----------------------------------------------------------------------------
(* Where an item goes to: the cylinder, the index, and the stack there.    *)
Dest(h, index, toItem) == [to |-> h, index |-> index, toItem |-> toItem]

RECURSIVE Breadth(_, _, _)
Breadth(w, i, queue) ==
  IF queue = <<>> THEN <<>>
  ELSE LET IsBag(j) == Is(w, j, Bag) /\ (Stackable(w, i) => j # offered)
       IN  <<Head(queue)>> \o Breadth(w, i, Tail(queue) \o SelectSeq(w.list[Head(queue)], IsBag))

StackIn(w, h, i, Skip) ==
  {k \in DOMAIN w.list[h] :
     LET j == w.list[h][k]
     IN  j \notin Skip \union {i} /\ Equals(w, i, j) /\ Missing(w, j) > 0}

First(S) == CHOOSE k \in S : \A j \in S : k <= j

(* Player::queryDestination without a slot: for a stack, what it can be    *)
(* put upon, in the slots and then in the containers; otherwise a free     *)
(* slot, or room in a container.  For a stack, what is offered and the     *)
(* stack itself do not count where the room is counted.                    *)
InInventory(w, i) ==
  LET count == Count(w, i)
      Fits(k) ==
        LET j == w.slot[Slots[k]]
        IN  /\ j # offered \/ j = None
            /\ PlayerQueryAdd(w, Slots[k], i, count) = "ok"
            /\ j # None => Stackable(w, i) /\ j # i /\ Equals(w, i, j) /\ Missing(w, j) > 0
      slots == {k \in DOMAIN Slots : Fits(k)}
      Held(s) == w.slot[s] \notin {None, offered, i} /\ Is(w, w.slot[s], Bag)
      used == SelectSeq(Slots, Held)
      bags == Breadth(w, i, [k \in DOMAIN used |-> w.slot[used[k]]])
      Stacks(k) == IF Stackable(w, i) THEN StackIn(w, bags[k], i, {offered}) ELSE {}
      Before(h, k) == Cardinality({j \in 1 .. k - 1 : w.list[h][j] \notin {offered, i}})
      Size(k) == LET n == Len(w.list[bags[k]])
                 IN  IF Stackable(w, i) THEN Before(bags[k], n + 1) ELSE n
      Roomy(k) == (IF Stackable(w, i) THEN Size(k) < BagSize ELSE Size(k) # BagSize)
                  /\ ContainerQueryAdd(w, bags[k], Size(k), i, count) = "ok"
      good == {k \in DOMAIN bags : Stacks(k) # {} \/ Roomy(k)}
      h == bags[First(good)]
      at == First(Stacks(First(good)))
  IN  IF slots # {} THEN Dest(Player, Slots[First(slots)], w.slot[Slots[First(slots)]])
      ELSE IF good = {} THEN Dest(Player, Wherever, None)
      ELSE IF Stacks(First(good)) # {} THEN Dest(h, Before(h, at), w.list[h][at])
      ELSE Dest(h, Size(First(good)), None)

(* Container::queryDestination: up, into the bag that is there, upon a     *)
(* stack, or to the index.                                                 *)
InContainer(w, h, index, i, toItem) ==
  LET ix == IF index >= BagSize THEN Wherever ELSE index
      there == At(w, h, ix)
      stacks == IF Stackable(w, i) /\ Parent(w, i) # h THEN StackIn(w, h, i, {}) ELSE {}
  IN  IF index = MoveUp THEN Dest(IF Parent(w, h) \in Items THEN Parent(w, h) ELSE h, Wherever, None)
      ELSE IF there # None /\ Is(w, there, Bag) THEN Dest(there, Wherever, None)
      ELSE IF stacks # {} THEN Dest(h, First(stacks) - 1, w.list[h][First(stacks)])
      ELSE Dest(h, ix, IF ix = Wherever THEN None ELSE IF there # None THEN there ELSE toItem)

QueryDestination(w, h, index, i, toItem) ==
  CASE h = Ground -> Dest(Ground, index, At(w, Ground, 0))
    [] h = Player /\ index = Wherever -> InInventory(w, i)
    [] h = Player /\ index \in SlotNames ->
         LET j == w.slot[index]
         IN  IF j # None /\ Is(w, j, Bag) THEN Dest(j, Wherever, None) ELSE Dest(Player, index, j)
    [] OTHER -> InContainer(w, h, index, i, toItem)

RECURSIVE Destination(_, _, _)
Destination(w, i, d) ==
  LET e == QueryDestination(w, d.to, d.index, i, d.toItem)
  IN  IF e.to = d.to THEN e ELSE Destination(w, i, e)

-----------------------------------------------------------------------------
(* addThing, removeThing and updateThing of the cylinders.                 *)
Put(w, h, index, i) ==
  IF h = Player
  THEN IF index \in SlotNames THEN [w EXCEPT !.slot[index] = i, !.item[i].parent = Player] ELSE w
  ELSE IF h # Ground /\ index >= BagSize THEN w
  ELSE [w EXCEPT !.list[h] = <<i>> \o @, !.item[i].parent = h]

Taken(w, i) ==
  LET h == Parent(w, i)
  IN  IF h = Player
      THEN [w EXCEPT !.slot = [s \in SlotNames |-> IF @[s] = i THEN None ELSE @[s]],
                     !.item[i].parent = None]
      ELSE [w EXCEPT !.list[h] = SelectSeq(@, LAMBDA j : j # i), !.item[i].parent = None]

RemoveThing(w, i, n) ==
  IF Stackable(w, i) /\ n # Count(w, i) THEN [w EXCEPT !.item[i].count = @ - n] ELSE Taken(w, i)

Stacked(w, j, n) == [w EXCEPT !.item[j].count = @ + n]
Released(w, i) == [w EXCEPT !.item[i] = Thing(Coin, 0, None)]
Clone(w, i, n) == [w EXCEPT !.item[CHOOSE u \in Unused(w) : TRUE] = Thing(w.item[i].kind, n, None)]
CloneOf(w) == CHOOSE u \in Unused(w) : TRUE

(* The exchange of internalMoveItem: what is there goes to where the item  *)
(* comes from.                                                             *)
MayExchange(w, from, i, there) ==
  LET n == Count(w, there)
      FromIndex == IF from = Player THEN CHOOSE s \in SlotNames : w.slot[s] = i
                   ELSE (CHOOSE k \in DOMAIN w.list[from] : w.list[from][k] = i) - 1
  IN  /\ QueryAdd(w, from, FromIndex, there, n) = "ok"
      /\ MaxCount(w, from, Wherever, there, n) > 0

Exchanged(w, from, there) == Put(Taken(w, there), from, 0, there)

(* The tail of internalMoveItem: m of the item are taken, put upon the     *)
(* stack that is there as far as it goes, and the rest put beside it.      *)
Carry(w, i, m, d) ==
  IF ~Stackable(w, i) THEN Put(Taken(w, i), d.to, d.index, i)
  ELSE LET taken == RemoveThing(w, i, m)
           n == IF Equals(w, i, d.toItem) THEN Min({Missing(w, d.toItem), m}) ELSE 0
           joined == IF n = 0 THEN taken ELSE Stacked(taken, d.toItem, n)
           rest == IF m = n THEN joined
                   ELSE Put(Clone(joined, i, m - n), d.to, d.index, CloneOf(joined))
       IN  IF m = Count(w, i) THEN Released(rest, i) ELSE rest

CarryWhatFits(w, i, d, count, max) ==
  LET m == IF Stackable(w, i) THEN Min({count, max}) ELSE 1
  IN  IF max = 0 \/ m > Count(w, i) THEN w ELSE Carry(w, i, m, d)

MoveThere(w, i, d, count) ==
  IF QueryAdd(w, d.to, d.index, i, count) # "ok" THEN w
  ELSE CarryWhatFits(w, i, d, count, MaxCount(w, d.to, d.index, i, count))

MoveOrExchange(w, i, d, count) ==
  IF i = d.toItem THEN w
  ELSE IF QueryAdd(w, d.to, d.index, i, count) = "exchange" /\ MayExchange(w, Parent(w, i), i, d.toItem)
  THEN MoveThere(Exchanged(w, Parent(w, i), d.toItem), i, [d EXCEPT !.toItem = None], count)
  ELSE MoveThere(w, i, d, count)

InternalMoveItem(w, i, to, index, count) ==
  MoveOrExchange(w, i, Destination(w, i, Dest(to, index, None)), count)

(* internalAddItem, of an item that is nowhere: the result, how many of it *)
(* the caller hears found no place although the first part of it did, and  *)
(* how many were dropped without a word, by a call within the call.        *)
Added(w, ok, remainder, dropped) == [w |-> w, ok |-> ok, remainder |-> remainder, dropped |-> dropped]

Upon(w, i, toItem) ==
  IF Stackable(w, i) /\ Equals(w, i, toItem) THEN Min({Missing(w, toItem), Count(w, i)}) ELSE 0

RECURSIVE AddItem(_, _, _)
RECURSIVE AddTo(_, _, _, _)
RECURSIVE AddRest(_, _, _)
AddItem(w, i, to) == AddTo(w, i, to, QueryDestination(w, to, Wherever, i, None))

AddTo(w, i, to, d) ==
  LET n == Upon(w, i, d.toItem)
  IN  IF \/ QueryAdd(w, d.to, d.index, i, Count(w, i)) # "ok"
         \/ MaxCount(w, to, Wherever, i, Count(w, i)) < Count(w, i)
      THEN Added(w, FALSE, 0, 0)
      ELSE IF n = 0 THEN Added(Put(w, d.to, d.index, i), TRUE, 0, 0)
      ELSE AddRest([Stacked(w, d.toItem, n) EXCEPT !.item[i].count = @ - n], i, to)

(* What did not fit upon the stack is added by another call.               *)
AddRest(w, i, to) ==
  IF Count(w, i) = 0 THEN Added(Released(w, i), TRUE, 0, 0)
  ELSE LET again == AddItem(w, i, to)
       IN  IF again.ok THEN Added(again.w, TRUE, 0, again.remainder + again.dropped)
           ELSE Added(Released(w, i), TRUE, Count(w, i), 0)

-----------------------------------------------------------------------------
(* A world without items, and one with another item in it.                 *)
Nothing ==
  [item |-> [i \in Items |-> Thing(Coin, 0, None)], list |-> [h \in Holders |-> <<>>],
   slot |-> [s \in SlotNames |-> None]]

With(w, i, k, n, h, index) == Put([w EXCEPT !.item[i] = Thing(k, n, None)], h, index, i)

Amount(w, k) ==
  LET Of(i) == Count(w, i)
  IN  MapThenSumSet(Of, {i \in Items : Is(w, i, k)})

InitWith(w) ==
  /\ v = w
  /\ offered = None /\ lost = 0
  /\ total = [k \in Kinds |-> Amount(w, k)]

Present(i) == Parent(v, i) # None

(* playerMoveItem, of an item within reach.                                *)
Move(i, to, index, count) ==
  /\ Present(i) /\ count <= Count(v, i) /\ Unused(v) # {}
  /\ v' = InternalMoveItem(v, i, to, index, count)
  /\ UNCHANGED <<offered, total, lost>>

(* What scripts, shops and mails add, and what addMoney does: what does not*)
(* fit is put on the ground, the remainder of it is forgotten by addMoney. *)
OrDropped(r, w, i) == IF r.ok THEN r ELSE [AddItem(w, i, Ground) EXCEPT !.remainder = 0, !.dropped = 0]

Settle(r, k, forget) ==
  /\ v' = IF r.remainder = 0 \/ forget THEN r.w
           ELSE LET rest == CloneOf(r.w)
                IN  AddItem([r.w EXCEPT !.item[rest] = Thing(k, r.remainder, None)], rest, Ground).w
  /\ lost' = lost + r.dropped + IF forget THEN r.remainder ELSE 0

GiveItem(k, n, forget) ==
  /\ Cardinality(Unused(v)) > 1
  /\ LET i == CloneOf(v)
         new == [v EXCEPT !.item[i] = Thing(k, n, None)]
     IN  Settle(OrDropped(AddItem(new, i, Player), new, i), k, forget)
  /\ total' = [total EXCEPT ![k] = @ + n]
  /\ UNCHANGED offered

(* internalRemoveItem, by a script, a spell or a payment.                  *)
InternalRemoveItem(i, n) ==
  /\ Present(i) /\ n <= Count(v, i)
  /\ LET w == RemoveThing(v, i, n)
     IN  /\ Parent(w, i) = None => Len(v.list[i]) = 0
         /\ v' = IF Parent(w, i) = None THEN Released(w, i) ELSE w
  /\ total' = [total EXCEPT ![v.item[i].kind] = @ - n]
  /\ UNCHANGED <<offered, lost>>

(* A trade is requested, or ends.                                          *)
Offer(i) ==
  /\ offered' = IF offered = None THEN i ELSE None
  /\ Present(i)
  /\ UNCHANGED <<v, total, lost>>

Next ==
  \/ \E i \in Items, n \in 1 .. StackSize :
       \/ \E s \in SlotNames \union {Wherever} : Move(i, Player, s, n)
       \/ Move(i, Ground, 0, n)
       \/ \E h \in Items, x \in {0, BagSize - 1, MoveUp, 255} :
            Present(h) /\ Is(v, h, Bag) /\ h # i /\ Move(i, h, x, n)
       \/ InternalRemoveItem(i, n)
  \/ \E n \in 1 .. StackSize, forget \in BOOLEAN : GiveItem(Coin, n, forget)
  \/ \E i \in Items : Offer(i)

-----------------------------------------------------------------------------
(* Nothing is created or destroyed by a move, an exchange or a merge: the  *)
(* world holds what was put into it (game.cpp 1040-1345).                  *)
Conserved ==
  \A k \in Kinds : Amount(v, k) = total[k] - IF k = Coin THEN lost ELSE 0

(* The lists and the slots agree with the parents, every item is in one    *)
(* place, and no bag is within itself.                                     *)
Placed ==
  /\ \A h \in Holders : \A k \in DOMAIN v.list[h] : Parent(v, v.list[h][k]) = h
  /\ \A s \in SlotNames : v.slot[s] # None => Parent(v, v.slot[s]) = Player
  /\ \A i \in Items :
       LET p == Parent(v, i)
       IN  /\ Count(v, i) = 0 => p = None
           /\ Count(v, i) > 0 =>
                /\ Cardinality({s \in SlotNames : v.slot[s] = i})
                     + MapThenSumSet(LAMBDA h : Cardinality({k \in DOMAIN v.list[h] : v.list[h][k] = i}), Holders) = 1
                /\ Around(v, i) \cap {Player, Ground} # {}

(* What the player wears goes together and is not too heavy for him, and no*)
(* stack is larger than it may be.                                         *)
Bearable ==
  /\ Carried(v) <= Capacity
  /\ \A i \in Items : Count(v, i) <= StackSize
  /\ LET l == v.slot[LEFT]  r == v.slot[RIGHT]
     IN  l # None /\ r # None =>
           /\ ~Is(v, l, Bow) /\ ~Is(v, r, Bow) /\ ~(Is(v, l, Shield) /\ Is(v, r, Shield))
           /\ {v.item[l].kind, v.item[r].kind} \cap {Coin, Gem, Bag, Shield} # {}

(* A bag gets more than it holds only when a part of a stack in it is      *)
(* exchanged for what is worn (the rest of the stack stays beside it), or  *)
(* when a stack is put beside an item of it that is offered in a trade.    *)
OverfullOnlyIfSplitOrOffered ==
  \A h \in Items :
    Len(v'.list[h]) > Max({BagSize, Len(v.list[h])}) =>
      \/ offered # None /\ Parent(v, offered) = h
      \/ \E k \in DOMAIN v.list[h] :
           LET i == v.list[h][k]
           IN  Stackable(v, i) /\ Parent(v', i) = h /\ Count(v', i) < Count(v, i)

(* A part of what is given is only lost while the player offers a bag.     *)
LostOnlyWhileTrading == lost' # lost => offered # None
=============================================================================
