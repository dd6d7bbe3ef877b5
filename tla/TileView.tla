------------------------------- MODULE TileView -------------------------------
(***************************************************************************)
(* What stands on a tile (tile.cpp, map.cpp) and what the client of a      *)
(* player nearby shows of it (protocolgame.cpp, player.h).                 *)
(*                                                                         *)
(* A client shows the first things of a tile, Shown of them (10 in the     *)
(* code), and the server tells it changes by index.  What is hidden from   *)
(* the player, a ghost or an invisible monster, has no index.  Tiles are   *)
(* those in view of the player, who stands on none of them; a creature may *)
(* be out of view.  Left out: counts, tiles without ground, teleports and  *)
(* mailboxes, the tile of the player himself.                              *)
(***************************************************************************)
EXTENDS Integers, Sequences, SequencesExt, FiniteSets, FiniteSetsExt

CONSTANTS Tiles, Items, Creatures, Shown, Ground, Nowhere, Away

(* What the constants have to be.                                          *)
TileViewAssumption == Shown \in Nat /\ Shown > 2 /\ {Nowhere, Away} \cap Tiles = {}

VARIABLE scene

TopOrder == [splash |-> 1, sign |-> 2]
Fields == {"fire", "wall"}
Kinds == DOMAIN TopOrder \union Fields \union {"coin"}
IsTop(kind) == kind \in DOMAIN TopOrder
SameType(k, l) == k \in Fields <=> l \in Fields

Empty == [top |-> <<>>, creatures |-> <<>>, down |-> <<>>]

Init ==
  scene = [stack |-> [t \in Tiles |-> Empty], hidden |-> {},
           kind |-> [i \in Items |-> "none"], at |-> [x \in Items \union Creatures |-> Nowhere],
           shown |-> [t \in Tiles |-> <<<<Ground, "ground">>>>]]

-----------------------------------------------------------------------------
(* The order on a tile: creatures are seen the oldest first.               *)
Things(s, t) == <<Ground>> \o s.stack[t].top \o Reverse(s.stack[t].creatures) \o s.stack[t].down
CanSee(s, x) == x \notin s.hidden
Visible(s, S) == SelectSeq(S, LAMBDA x : CanSee(s, x))

Look(s, x) == <<x, IF x \in Items THEN s.kind[x] ELSE IF x = Ground THEN "ground" ELSE "creature">>
Cut(S) == SubSeq(S, 1, Min({Shown, Len(S)}))
TileDescription(s, t) ==
  FoldLeft(LAMBDA S, x : Append(S, Look(s, x)), <<>>, Cut(Visible(s, Things(s, t))))

ClientIndex(s, t, x) ==
  LET all == Things(s, t)
  IN  Len(Visible(s, SubSeq(all, 1, (CHOOSE k \in DOMAIN all : all[k] = x) - 1)))
Stackpos(s, t, x) == IF ClientIndex(s, t, x) >= Shown THEN -1 ELSE ClientIndex(s, t, x)

(* What the client does with what it is told.                              *)
Insert(S, n, e) == Cut(InsertAt(S, Min({n, Len(S)}) + 1, e))
ClientAdd(s, t, n, x) == IF n = -1 THEN s ELSE [s EXCEPT !.shown[t] = Insert(@, n, Look(s, x))]
ClientRemove(s, t, n) ==
  IF n \notin 0 .. Len(s.shown[t]) - 1 THEN s ELSE [s EXCEPT !.shown[t] = RemoveAt(@, n + 1)]
ClientUpdate(s, t, n, x) ==
  IF n \notin 0 .. Len(s.shown[t]) - 1 THEN s ELSE [s EXCEPT !.shown[t][n + 1] = Look(s, x)]

(* A creature that moves is shown after the others that are there.         *)
ClientMove(s, from, n, to) ==
  LET AboveDown(e) == e[2] \in {"ground", "creature"} \/ IsTop(e[2])
      above == Len(SelectSeq(s.shown[to], AboveDown))
  IN  IF n >= Len(s.shown[from]) THEN s
      ELSE [s EXCEPT !.shown[from] = RemoveAt(@, n + 1),
                     !.shown[to] = Insert(@, above, s.shown[from][n + 1])]

(* A crowded tile is sent again, for what has come within the first.       *)
ThingCount(s, t) == Len(Things(s, t))
PostRemoveNotification(s, t) ==
  IF ThingCount(s, t) > Shown - 2 THEN [s EXCEPT !.shown[t] = TileDescription(s, t)] ELSE s

-----------------------------------------------------------------------------
(* Items: addThing, removeThing, updateThing and replaceThing.             *)
RemoveItem(s, i) ==
  LET t == s.at[i]
  IN  ClientRemove([s EXCEPT !.stack[t].top = Remove(@, i), !.stack[t].down = Remove(@, i),
                             !.at[i] = Nowhere],
                   t, Stackpos(s, t, i))

Released(s, i) == [s EXCEPT !.kind[i] = "none", !.at[i] = Nowhere]

PutItem(s, i, t) ==
  LET k == s.kind[i]
      Above(j) == TopOrder[s.kind[j]] < TopOrder[k]
      above == Len(SelectSeq(s.stack[t].top, Above))
      u == IF IsTop(k) THEN [s EXCEPT !.stack[t].top = InsertAt(@, above + 1, i), !.at[i] = t]
           ELSE [s EXCEPT !.stack[t].down = <<i>> \o @, !.at[i] = t]
  IN  ClientAdd(u, t, Stackpos(u, t, i), i)

(* A splash replaces the one that is there; a field does, unless that one  *)
(* is not to be replaced.                                                  *)
Rival(s, i, t) ==
  LET Same(j) == IF s.kind[i] = "splash" THEN s.kind[j] = "splash"
                 ELSE s.kind[i] \in Fields /\ s.kind[j] \in Fields
  IN  SelectSeq(s.stack[t].top \o s.stack[t].down, Same)

AddItem(s, i, t) ==
  LET old == Rival(s, i, t)
  IN  IF old = <<>> THEN PutItem(s, i, t)
      ELSE IF s.kind[old[1]] = "wall" THEN Released(s, i)
      ELSE PutItem(PostRemoveNotification(Released(RemoveItem(s, old[1]), old[1]), t), i, t)

Changed(s, i, k) ==
  LET u == [s EXCEPT !.kind[i] = k]
  IN  ClientUpdate(u, s.at[i], Stackpos(u, s.at[i], i), i)

-----------------------------------------------------------------------------
(* Handlers that change a tile.                                            *)
InternalAddItem(i, k, t) == scene.at[i] = Nowhere /\ scene' = AddItem([scene EXCEPT !.kind[i] = k], i, t)

InternalRemoveItem(i) ==
  /\ scene.at[i] # Nowhere
  /\ scene' = PostRemoveNotification(Released(RemoveItem(scene, i), i), scene.at[i])

InternalMoveItem(i, t) ==
  /\ scene.at[i] \notin {Nowhere, t}
  /\ scene' = PostRemoveNotification(AddItem(RemoveItem(scene, i), i, t), scene.at[i])

(* transformItem: between the top and the rest of a tile the item is taken *)
(* and put again.                                                          *)
Transform(i, k) ==
  LET t == scene.at[i]
      old == scene.kind[i]
      Renamed(s) == [s EXCEPT !.kind[i] = k]
  IN  /\ t # Nowhere /\ k # old
      /\ scene' = IF IsTop(old) # IsTop(k)
                  THEN AddItem(Renamed(PostRemoveNotification(RemoveItem(scene, i), t)), i, t)
                  ELSE IF SameType(old, k) THEN Changed(PostRemoveNotification(scene, t), i, k)
                  ELSE PostRemoveNotification(Changed(scene, i, k), t)

(* Creatures.                                                              *)
Entered(s, c, t) ==
  IF t \in Tiles THEN [s EXCEPT !.stack[t].creatures = <<c>> \o @, !.at[c] = t] ELSE [s EXCEPT !.at[c] = t]

SendAddCreature(s, c, t) == ClientAdd(s, t, Stackpos(s, t, c), c)

Left(s, c) ==
  LET t == s.at[c]
  IN  IF t \in Tiles THEN [s EXCEPT !.stack[t].creatures = Remove(@, c), !.at[c] = Nowhere] ELSE s

PlaceCreature(c, t) ==
  /\ scene.at[c] = Nowhere
  /\ LET s == Entered(scene, c, t)
     IN  scene' = IF t \in Tiles THEN SendAddCreature(s, c, t) ELSE s

RemoveCreature(c) ==
  LET t == scene.at[c]
      s == [Left(scene, c) EXCEPT !.at[c] = Nowhere, !.hidden = @ \ {c}]
  IN  /\ t # Nowhere
      /\ scene' = IF t \notin Tiles THEN s
                  ELSE PostRemoveNotification(
                         IF CanSee(scene, c) THEN ClientRemove(s, t, Stackpos(scene, t, c)) ELSE s, t)

SendMoveCreature(s, c, old, n, new, teleport) ==
  IF ~CanSee(s, c) THEN s
  ELSE IF old \in Tiles /\ new \in Tiles
  THEN IF teleport \/ n >= Shown
       THEN SendAddCreature(IF n < Shown THEN ClientRemove(s, old, n) ELSE s, c, new)
       ELSE ClientMove(s, old, n, new)
  ELSE IF old \in Tiles THEN IF n < Shown THEN ClientRemove(s, old, n) ELSE s
  ELSE IF new \in Tiles THEN SendAddCreature(s, c, new) ELSE s

MoveCreature(c, new, teleport) ==
  LET old == scene.at[c]
      n == IF old \in Tiles THEN ClientIndex(scene, old, c) ELSE 0
      s == SendMoveCreature(Entered(Left(scene, c), c, new), c, old, n, new, teleport)
  IN  /\ old \notin {Nowhere, new}
      /\ scene' = IF old \in Tiles THEN PostRemoveNotification(s, old) ELSE s

(* An invisible monster, or a player as a ghost.                           *)
ChangeVisible(c) ==
  LET t == scene.at[c]
      s == [scene EXCEPT !.hidden = IF c \in @ THEN @ \ {c} ELSE @ \union {c}]
  IN  /\ t # Nowhere
      /\ scene' = IF t \notin Tiles THEN s
                  ELSE IF CanSee(s, c) THEN SendAddCreature(s, c, t)
                  ELSE ClientRemove(s, t, Stackpos(s, t, c))

Next ==
  \/ \E i \in Items, k \in Kinds, t \in Tiles : InternalAddItem(i, k, t)
  \/ \E i \in Items : InternalRemoveItem(i)
  \/ \E i \in Items, t \in Tiles : InternalMoveItem(i, t)
  \/ \E i \in Items, k \in Kinds : Transform(i, k)
  \/ \E c \in Creatures, t \in Tiles \union {Away} :
       PlaceCreature(c, t) \/ \E teleport \in BOOLEAN : MoveCreature(c, t, teleport)
  \/ \E c \in Creatures : RemoveCreature(c) \/ ChangeVisible(c)

-----------------------------------------------------------------------------
Faithful(s) == \A t \in Tiles : s.shown[t] = TileDescription(s, t)

(* The client shows of every tile the first things that the player can see,*)
(* and goes wrong only when one of them becomes invisible while more are   *)
(* there than are shown: what comes in its place is not sent then.         *)
WrongOnlyByVanishing ==
  Faithful(scene) /\ ~Faithful(scene') =>
    \E c \in scene'.hidden \ scene.hidden :
      LET t == scene.at[c]
      IN  Len(Visible(scene, Things(scene, t))) > Shown /\ ClientIndex(scene, t, c) < Shown
=============================================================================
