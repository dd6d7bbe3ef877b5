-------------------------------- MODULE Windows --------------------------------
(***************************************************************************)
(* The container windows of a player (player.cpp, container.cpp, game.cpp) *)
(* and what his client shows in them (protocolgame.cpp).                   *)
(*                                                                         *)
(* There are bags that are carried about, the inbox in a locker beside a   *)
(* tile, and the browse field of that tile: a container made on demand, of *)
(* what lies there, that lives as long as a timer or a window needs it.    *)
(* Inbox and field are shown by pages.  Somebody else may move everything. *)
(* Left out: counts of stacks, lockers and depot chests, what may not be   *)
(* moved, other tiles.                                                     *)
(***************************************************************************)
EXTENDS Integers, Sequences, SequencesExt, FiniteSets, FiniteSetsExt

CONSTANTS
  Bags, Plain,  \* things that contain things, and others
  Cids,         \* numbers of windows
  Capacity,     \* of a bag and of a page
  MaxSize,      \* bound on the things on the tile and in the inbox
  Mail          \* whether anything comes into the inbox

WindowsAssumption == Capacity \in Nat \ {0} /\ MaxSize \in Nat /\ Mail \in BOOLEAN /\ Cids \subseteq Nat

VARIABLE view

Items == Bags \union Plain
Holders == Bags \union {"tile", "inbox"}
Places == Holders \union {"worn", "other"}
Dummy == Max(Cids)              \* the window a browse field is shown in

Closed == [c |-> "none", index |-> 0]
NoWindow == [c |-> "none", first |-> 0, shown |-> <<>>, size |-> 0, up |-> FALSE]

Init ==
  view = [list |-> [h \in Holders |-> <<>>], parent |-> [i \in Items |-> "gone"], near |-> TRUE,
          field |-> FALSE, timer |-> FALSE, refs |-> 0, leaked |-> 0,
          open |-> [k \in Cids |-> Closed], client |-> [k \in Cids |-> NoWindow]]

-----------------------------------------------------------------------------
(* Where things are.                                                       *)
Contents(s, c) == IF c = "field" THEN Reverse(s.list["tile"]) ELSE s.list[c]

Within(s, x, c) ==
  \/ x = c
  \/ x \in Bags /\ (s.parent[x] = c \/ (s.parent[x] \in Bags /\ s.parent[s.parent[x]] = c))

AtHand(s, c) ==
  IF c \in {"field", "inbox"} THEN s.near
  ELSE Within(s, c, "worn") \/ (s.near /\ (Within(s, c, "tile") \/ Within(s, c, "inbox")))

HasParent(s, c) == c # "field" /\ (c = "inbox" \/ s.parent[c] # "worn")

-----------------------------------------------------------------------------
(* What the client does with what it is sent.                              *)
Cut(S) == SubSeq(S, 1, Min({Capacity, Len(S)}))
Page(s, c, first) == SubSeq(Contents(s, c), first + 1, Min({first + Capacity, Len(Contents(s, c))}))

SendContainer(s, k, up) ==
  LET o == s.open[k]
  IN  [s EXCEPT !.client[k] = [c |-> o.c, first |-> o.index, shown |-> Page(s, o.c, o.index),
                               size |-> Len(Contents(s, o.c)), up |-> up]]
SendClose(s, k) == [s EXCEPT !.client[k] = NoWindow]

ClientAdd(s, k, slot, i) ==
  LET n == slot - s.client[k].first
  IN  [s EXCEPT !.client[k].shown = Cut(InsertAt(@, Min({n, Len(@)}) + 1, i)), !.client[k].size = @ + 1]

ClientRemove(s, k, slot, last) ==
  LET n == slot - s.client[k].first + 1
  IN  IF n > Len(s.client[k].shown) THEN [s EXCEPT !.client[k].size = @ - 1]
      ELSE [s EXCEPT !.client[k].shown = RemoveAt(@, n) \o last, !.client[k].size = @ - 1]

(* Every window that shows the container is told.                          *)
Showing(s, c) == {k \in Cids : s.open[k].c = c}
Tell(Op(_, _), s, c) == FoldSet(LAMBDA k, t : Op(t, k), s, Showing(s, c))

ItemAt(S, n) == IF n < Len(S) THEN <<S[n + 1]>> ELSE <<>>

(* A page that something comes in front of gets another thing instead, and *)
(* so do the windows after it, in the order of their numbers.              *)
SendAdded(s, c, i) ==
  LET S == Contents(s, c)
      ToField(t, k) ==
        LET end == t.s.open[k].index + Capacity - 1
            j == IF end < Len(S) - 1 THEN S[end + 1] ELSE t.i
        IN  [s |-> ClientAdd(t.s, k, Min({Len(S) - 1, end}), j), i |-> j]
      ToOther(t, k) ==
        LET n == t.s.open[k].index
            j == IF n >= Capacity THEN S[n] ELSE t.i
        IN  [s |-> ClientAdd(t.s, k, n, j), i |-> j]
      To(t, k) == IF c = "field" THEN ToField(t, k) ELSE ToOther(t, k)
  IN  FoldLeft(To, [s |-> s, i |-> i], SetToSortSeq(Showing(s, c), <)).s

PageBack(s, k) ==
  LET n == s.open[k].index
  IN  IF n > 0 /\ n >= Len(Contents(s, s.open[k].c)) - 1
      THEN SendContainer([s EXCEPT !.open[k].index = @ - Capacity], k, FALSE) ELSE s

SendRemovedFrom(s, k, slot) ==
  LET n == s.open[k].index
  IN  ClientRemove(s, k, Max({slot, n}), ItemAt(Contents(s, s.open[k].c), Capacity + n))

(* Told before the item is taken out of the list.                          *)
SendRemoved(s, c, slot) ==
  LET Each(t, k) == SendRemovedFrom(PageBack(t, k), k, slot) IN Tell(Each, s, c)

SendUpdated(s, c, slot, i) ==
  LET Each(t, k) ==
        IF slot \in t.open[k].index .. t.open[k].index + Capacity - 1
        THEN [t EXCEPT !.client[k].shown[slot - t.open[k].index + 1] = i] ELSE t
  IN  Tell(Each, s, c)

-----------------------------------------------------------------------------
(* Opening and closing.                                                    *)
Unref(s) == IF s.refs = 1 THEN [s EXCEPT !.refs = 0, !.field = FALSE] ELSE [s EXCEPT !.refs = @ - 1]

CloseContainer(s, k) ==
  IF s.open[k].c = "field" THEN Unref([s EXCEPT !.open[k] = Closed]) ELSE [s EXCEPT !.open[k] = Closed]

AddContainer(s, k, c) ==
  LET u == CloseContainer(IF c = "field" THEN [s EXCEPT !.refs = @ + 1] ELSE s, k)
  IN  [u EXCEPT !.open[k] = [c |-> c, index |-> 0]]

CloseBoth(s, K) == FoldSet(LAMBDA k, t : SendClose(CloseContainer(t, k), k), s, K)
(* Mutant: what is inside is forgotten.                                    *)
AutoCloseItself(s, c) == CloseBoth(s, {k \in Cids : s.open[k].c = c \/ Within(s, s.open[k].c, "gone")})
AutoCloseContainers(s, c) == CloseBoth(s, {k \in Cids : Within(s, s.open[k].c, c) \/ Within(s, s.open[k].c, "gone")})

OnCloseContainer(s, c) == Tell(SendClose, s, c)
OnSendContainer(s, c) == LET Each(t, k) == SendContainer(t, k, HasParent(t, c)) IN Tell(Each, s, c)

-----------------------------------------------------------------------------
(* Moving things: a tile tells its browse field, a container its windows.  *)
Told(Op(_, _), s, h) == IF h = "tile" THEN (IF s.field THEN Op(s, "field") ELSE s) ELSE Op(s, h)

Put(s, i, h) ==
  IF h \in Holders
  THEN Told(LAMBDA t, c : SendAdded(t, c, i), [s EXCEPT !.list[h] = <<i>> \o @, !.parent[i] = h], h)
  ELSE [s EXCEPT !.parent[i] = h]

SlotOf(s, c, i) == (CHOOSE n \in DOMAIN Contents(s, c) : Contents(s, c)[n] = i) - 1

Taken(s, i) ==
  LET h == s.parent[i]
  IN  IF h \in Holders
      THEN [Told(LAMBDA t, c : SendRemoved(t, c, SlotOf(t, c, i)), s, h)
              EXCEPT !.list[h] = Remove(@, i), !.parent[i] = "gone"]
      ELSE [s EXCEPT !.parent[i] = "gone"]

PostAddNotification(s, i) == IF i \in Bags THEN OnSendContainer(s, i) ELSE s
PostRemoveNotification(s, i) ==
  IF i \notin Bags THEN s ELSE IF AtHand(s, i) THEN OnSendContainer(s, i) ELSE AutoCloseContainers(s, i)

(* What is deleted takes along what is in it.                              *)
Inside(s, i) == {j \in Items : j = i \/ s.parent[j] = i \/ \E b \in Bags : s.parent[b] = i /\ s.parent[j] = b}
Released(s, i) ==
  FoldSet(LAMBDA j, t : [t EXCEPT !.parent[j] = "gone", !.list = IF j \in Bags THEN [@ EXCEPT ![j] = <<>>] ELSE @],
          s, Inside(s, i))

HasRoom(s, h) ==
  CASE h \in Bags -> Len(s.list[h]) < Capacity [] h \in Holders -> Len(s.list[h]) < MaxSize [] OTHER -> TRUE

InternalAddItem(i, h) ==
  /\ view.parent[i] = "gone" /\ (h \in Bags => view.parent[h] # "gone" /\ h # i) /\ (h = "inbox" => Mail)
  /\ HasRoom(view, h)
  /\ view' = PostAddNotification(Put(view, i, h), i)

InternalRemoveItem(i) ==
  /\ view.parent[i] # "gone"
  /\ view' = Released(PostRemoveNotification(Taken(view, i), i), i)

InternalMoveItem(i, h) ==
  /\ view.parent[i] \notin {"gone", h} /\ HasRoom(view, h)
  /\ h \in Bags => view.parent[h] # "gone" /\ ~Within(view, h, i)
  /\ h = "inbox" => Mail /\ view.parent[i] = "other"
  /\ LET s == PostRemoveNotification(Put(Taken(view, i), i, h), i)
     IN  view' = PostAddNotification(s, i)

(* Something turns into something else, and is removed.                    *)
TransformItem(i, j) ==
  LET h == view.parent[i]
      Swap(S) == FoldLeft(LAMBDA r, x : Append(r, IF x = i THEN j ELSE x), <<>>, S)
      s == [view EXCEPT !.list[h] = Swap(@), !.parent[j] = h, !.parent[i] = "gone"]
      u == Told(LAMBDA t, c : SendUpdated(t, c, SlotOf(t, c, j), j), s, h)
  IN  /\ h \in Holders /\ view.parent[j] = "gone"
      /\ view' = Released(PostRemoveNotification(PostAddNotification(u, j), i), i)

-----------------------------------------------------------------------------
(* What the client asks for.                                               *)
UseContainer(c, k) ==
  /\ c # "inbox" => view.parent[c] # "gone"
  /\ AtHand(view, c)
  /\ view' = IF Showing(view, c) # {} THEN CloseContainer(OnCloseContainer(view, c), Min(Showing(view, c)))
             ELSE OnSendContainer(AddContainer(view, k, c), c)

WithField(s) == IF s.field THEN s ELSE [s EXCEPT !.field = TRUE, !.timer = TRUE, !.refs = 1]

PlayerBrowseField ==
  /\ view.near
  /\ LET s == WithField(view)
     IN  view' = IF view.open[Dummy].c # "none"
                 THEN CloseContainer(OnCloseContainer(s, s.open[Dummy].c), Dummy)
                 ELSE SendContainer(AddContainer(s, Dummy, "field"), Dummy, FALSE)

PlayerCloseContainer(k) == view' = SendClose(CloseContainer(view, k), k)

PlayerMoveUpContainer(k) ==
  LET c == view.open[k].c
      up == IF view.parent[c] = "tile" THEN "field" ELSE view.parent[c]
      s == AddContainer(IF up = "field" THEN WithField(view) ELSE view, k, up)
  IN  c \in Bags /\ view.client[k].up /\ view' = SendContainer(s, k, HasParent(s, up))

PlayerUpdateContainer(k) ==
  view.open[k].c # "none" /\ view' = SendContainer(view, k, HasParent(view, view.open[k].c))

PlayerSeekInContainer(k, n) ==
  LET c == view.open[k].c
  IN  /\ c \in {"inbox", "field"} /\ n % Capacity = 0 /\ n < Len(Contents(view, c))
      /\ view' = SendContainer([view EXCEPT !.open[k].index = n], k, HasParent(view, c))

(* He comes to the tile or goes away from it.                              *)
PlayerMoves ==
  LET s == [view EXCEPT !.near = ~@]
      away == {s.open[k].c : k \in Cids} \ {"none"}
  IN  view' = FoldSet(LAMBDA c, t : AutoCloseContainers(t, c), s, {c \in away : ~AtHand(s, c)})

(* The timer of the browse field; and a logout, which closes nothing.      *)
DecreaseBrowseFieldRef == view.timer /\ view' = Unref([view EXCEPT !.timer = FALSE])

Logout ==
  /\ Showing(view, "field") # {}
  /\ view' = [view EXCEPT !.open = [k \in Cids |-> Closed], !.client = [k \in Cids |-> NoWindow],
                          !.leaked = @ + Cardinality(Showing(view, "field"))]

Next ==
  \/ \E i \in Items, h \in Places : InternalAddItem(i, h) \/ InternalMoveItem(i, h)
  \/ \E i \in Items : InternalRemoveItem(i) \/ \E j \in Items : TransformItem(i, j)
  \/ \E k \in Cids, c \in Bags \union {"inbox"} : UseContainer(c, k)
  \/ PlayerBrowseField \/ PlayerMoves \/ DecreaseBrowseFieldRef \/ Logout
  \/ \E k \in Cids : PlayerCloseContainer(k) \/ PlayerMoveUpContainer(k) \/ PlayerUpdateContainer(k)
  \/ \E k \in Cids, n \in 0 .. MaxSize : PlayerSeekInContainer(k, n)

-----------------------------------------------------------------------------
(* A window is of something that still exists and is within reach.         *)
WindowsWithinReach ==
  \A k \in Cids : view.open[k].c # "none" => AtHand(view, view.open[k].c) /\ (view.open[k].c = "field" => view.field)

(* A browse field lives while its timer runs or a window shows it; only    *)
(* those who log out leave one behind.                                     *)
FieldKept ==
  /\ view.refs = Cardinality(Showing(view, "field")) + (IF view.timer THEN 1 ELSE 0) + view.leaked
  /\ view.field <=> view.refs > 0

(* The client has the windows the server has, with what is in them.        *)
Shown(s, k) ==
  LET o == s.open[k]
      r == s.client[k]
  IN  IF o.c = "none" THEN r = NoWindow
      ELSE r = [c |-> o.c, first |-> o.index, shown |-> Page(s, o.c, o.index),
                size |-> Len(Contents(s, o.c)), up |-> HasParent(s, o.c)]
Faithful(s) == \A k \in Cids : Shown(s, k)

(* It has not after something came into or went out of the inbox while a   *)
(* later page was shown, nor, of a container that two windows show, after  *)
(* one was closed or something came while one showed a later page.         *)
WrongOnlyBehindOrTwice ==
  Faithful(view) /\ ~Faithful(view') =>
    \/ \E k \in Cids : view.open[k].c = "inbox" /\ view.open[k].index > 0 /\ view'.list["inbox"] # view.list["inbox"]
    \/ \E k \in Cids : /\ view.open[k].c # "none" /\ Cardinality(Showing(view, view.open[k].c)) > 1
                       /\ view'.open # view.open \/ view.open[k].index > 0
=============================================================================
