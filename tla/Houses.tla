-------------------------------- MODULE Houses --------------------------------
(***************************************************************************)
(* Houses (house.cpp, housetile.cpp), the beds in them (bed.cpp) and what  *)
(* of both is stored (iomapserialize.cpp, savePlayer), over crashes and    *)
(* restarts.  The owner is written at once; access lists, beds and things  *)
(* in a house with the map, what players have when they are saved.         *)
(* One thing stands for all that a house or an inbox holds, and the rest   *)
(* that somebody got by sleeping is counted modulo 2.  Left out: doors,    *)
(* guilds and patterns in access lists, who may edit every house, what a   *)
(* trade of the deed needs beside the deed (Trade), the website's auction, *)
(* and who uses a bed from a tile beside it that is not of its house.      *)
(***************************************************************************)
EXTENDS Integers, FiniteSets, FiniteSetsExt, Functions

CONSTANTS
  Players, Houses, Beds,
  HouseOf,       \* of a bed
  Nobody, Street,
  Listed,        \* who is ever put on an access list
  MaxWarnings,   \* rents that may be owed, 7 in the code
  Things, Deeds  \* whether things are carried about, and deeds traded

HousesAssumption ==
  /\ Nobody \notin Players \union Beds /\ Street \notin Houses /\ Players \intersect Houses = {}
  /\ HouseOf \in [Beds -> Houses] /\ Listed \subseteq Players /\ MaxWarnings \in Nat
  /\ Things \in BOOLEAN /\ Deeds \in BOOLEAN

VARIABLE estate

Each(S, v) == [x \in S |-> v]

(* What is in the database, and the owner, who is the same there.          *)
Stored == [sub |-> Each(Houses, {}), guest |-> Each(Houses, {}), warned |-> Each(Houses, 0),
           sleeper |-> Each(Beds, Nobody), goods |-> {}, at |-> Each(Players, Street), rest |-> Each(Players, 0)]

Loaded(owner, db) ==
  [running |-> TRUE, owner |-> owner, db |-> db,
   sub |-> db.sub, guest |-> db.guest, warned |-> db.warned, sleeper |-> db.sleeper, goods |-> db.goods,
   bedOf |-> [p \in Players |-> IF \E b \in Beds : db.sleeper[b] = p
                                THEN CHOOSE b \in Beds : db.sleeper[b] = p ELSE Nobody],
   at |-> db.at, rest |-> db.rest, online |-> {}, kicked |-> {},
   asked |-> Each(Players, Nobody), deed |-> Each(Houses, [from |-> Nobody, to |-> Nobody])]

Init == \E p \in Players : estate = Loaded(Each(Houses, Nobody), [Stored EXCEPT !.goods = {p}])

NoDeed == [from |-> Nobody, to |-> Nobody]

-----------------------------------------------------------------------------
(* Who may do what.                                                        *)
Level(s, h, p) ==
  IF s.owner[h] = p THEN 3 ELSE IF p \in s.sub[h] THEN 2 ELSE IF p \in s.guest[h] THEN 1 ELSE 0
Invited(s, h, p) == Level(s, h, p) > 0
Within(s, h) == {p \in s.online : s.at[p] = h}
Owned(s, p) == {h \in Houses : s.owner[h] = p}

(* A modal dialog is closed by a step.                                     *)
Moved(s, p, h) == [s EXCEPT !.at[p] = h, !.asked[p] = Nobody]
ToEntry(s, P) == FoldSet(LAMBDA p, t : Moved(t, p, Street), s, P)
KickUninvited(s, h) == ToEntry(s, {p \in Within(s, h) : ~Invited(s, h, p)})

(* A bed is left: by its sleeper who logs in, or because somebody says so; *)
(* the sleeper is then loaded and saved.                                   *)
Rested(s, p, here) ==
  LET u == IF here THEN s ELSE [s EXCEPT !.db.rest[p] = 1 - @]
  IN  IF here \/ p \notin s.online THEN [u EXCEPT !.rest[p] = 1 - @] ELSE u

WakeUp(s, b, here) ==
  LET p == s.sleeper[b]
      u == IF p = Nobody THEN s ELSE [Rested(s, p, here) EXCEPT !.bedOf[p] = Nobody]
  IN  [u EXCEPT !.sleeper[b] = Nobody]

(* To the inbox of the owner: a stored one is loaded and saved.            *)
TransferToDepot(s, h) ==
  LET p == s.owner[h]
      u == [s EXCEPT !.goods = (@ \ {h}) \union {p}]
  IN  IF h \notin s.goods THEN s
      ELSE IF p \in s.online THEN u ELSE [u EXCEPT !.db.goods = @ \union {p}]

OnlyWarningsCleared(s, h) == [s EXCEPT !.warned[h] = 0]
ListsCleared(s, h) == [s EXCEPT !.sub[h] = {}, !.guest[h] = {}, !.warned[h] = 0]

SetOwner(s, h, p) ==
  LET u == TransferToDepot(s, h)
      v == FoldSet(LAMBDA b, t : WakeUp(t, b, FALSE), ToEntry(u, Within(u, h)),
                   {b \in Beds : HouseOf[b] = h /\ s.sleeper[b] # Nobody})
      w == IF s.owner[h] = Nobody THEN s ELSE ListsCleared(v, h)
  IN  IF s.owner[h] = p THEN s ELSE [w EXCEPT !.owner[h] = p]

-----------------------------------------------------------------------------
(* Coming and going.                                                       *)
Login(p) ==
  /\ p \notin estate.online
  /\ LET h == estate.db.at[p]
         u == [estate EXCEPT !.online = @ \union {p},
                             !.at[p] = IF h # Street /\ Invited(estate, h, p) THEN h ELSE Street]
         b == u.bedOf[p]
     IN  estate' = IF b = Nobody THEN u ELSE WakeUp(u, b, TRUE)

(* What a player has is stored, or replaced by what is stored.             *)
SavePlayer(s, p) ==
  [s EXCEPT !.db.at[p] = s.at[p], !.db.rest[p] = s.rest[p],
            !.db.goods = (@ \ {p}) \union ({p} \intersect s.goods)]

DeedsOf(s, p) == {h \in Houses : p \in {s.deed[h].from, s.deed[h].to}}
Cancelled(s, H) == [s EXCEPT !.deed = [h \in Houses |-> IF h \in H THEN NoDeed ELSE @[h]]]

LoggedOut(s, p) ==
  SavePlayer([Cancelled(s, DeedsOf(s, p)) EXCEPT !.online = @ \ {p}, !.kicked = @ \ {p}, !.asked[p] = Nobody], p)

Logout(p) == p \in estate.online /\ estate' = LoggedOut(estate, p)
KickPlayer(p) == p \in estate.kicked /\ estate' = LoggedOut(estate, p)

Walk(p, h) ==
  /\ p \in estate.online /\ estate.at[p] # h
  /\ h # Street => Invited(estate, h, p)
  /\ estate' = Moved(estate, p, h)

(* Things are carried in by the invited and out by who is there.           *)
MoveThings(p, h) ==
  /\ Things /\ p \in Within(estate, h)
  /\ \/ p \in estate.goods /\ Invited(estate, h, p) /\ estate' = [estate EXCEPT !.goods = (@ \ {p}) \union {h}]
     \/ h \in estate.goods /\ estate' = [estate EXCEPT !.goods = (@ \ {h}) \union {p}]

-----------------------------------------------------------------------------
(* Beds: a free one opens a dialog, whose answer puts the player to sleep; *)
(* he is kicked a little later.                                            *)
CanUse(p, b) ==
  LET h == HouseOf[b]
      q == estate.sleeper[b]
  IN  q = Nobody \/ estate.owner[h] = p \/ Level(estate, h, q) <= Level(estate, h, p)

UseBed(p, b) ==
  /\ p \in Within(estate, HouseOf[b]) /\ CanUse(p, b)
  /\ \/ estate.sleeper[b] = Nobody /\ estate' = [estate EXCEPT !.asked[p] = b]
     \/ /\ estate.sleeper[b] # Nobody /\ estate.owner[HouseOf[b]] = p
        /\ estate' = WakeUp(estate, b, FALSE)

AnswerModalWindow(p, agreed) ==
  LET b == estate.asked[p]
      u == [estate EXCEPT !.asked[p] = Nobody]
  IN  /\ b # Nobody
      /\ estate' = IF ~agreed \/ estate.sleeper[b] # Nobody THEN u
                   ELSE [u EXCEPT !.sleeper[b] = p, !.bedOf[p] = b, !.kicked = @ \union {p}]

-----------------------------------------------------------------------------
(* Access lists and ownership.                                             *)
UpdateHouseWindow(p, h, P) ==
  /\ p \in estate.online
  /\ \/ Level(estate, h, p) > 1 /\ estate' = KickUninvited([estate EXCEPT !.guest[h] = P], h)
     \/ Level(estate, h, p) = 3 /\ estate' = KickUninvited([estate EXCEPT !.sub[h] = P], h)

KickFromHouse(p, q, h) ==
  /\ p \in estate.online /\ q \in Within(estate, h) /\ Level(estate, h, p) >= Level(estate, h, q)
  /\ estate' = Moved(estate, q, Street)

BuyHouse(p, h) ==
  /\ p \in estate.online /\ estate.owner[h] = Nobody /\ Owned(estate, p) = {}
  /\ estate' = SetOwner(estate, h, p)

LeaveHouse(p, h) ==
  p \in Within(estate, h) /\ estate.owner[h] = p /\ estate' = SetOwner(estate, h, Nobody)

StartTrade(p, h, q) ==
  /\ Deeds /\ p \in Within(estate, h) /\ q \in estate.online \ {p}
  /\ estate.owner[h] = p /\ Owned(estate, q) = {} /\ estate.deed[h] = NoDeed
  /\ DeedsOf(estate, p) \union DeedsOf(estate, q) = {}
  /\ estate' = [estate EXCEPT !.deed[h] = [from |-> p, to |-> q]]

(* Both have accepted; or one of them goes away or closes the trade.       *)
ExecuteTransfer(h) ==
  estate.deed[h] # NoDeed /\ estate' = Cancelled(SetOwner(estate, h, estate.deed[h].to), {h})
CloseTrade(h) == estate.deed[h] # NoDeed /\ estate' = Cancelled(estate, {h})

-----------------------------------------------------------------------------
(* Saving, which stops anywhere when the server does; and starting again.  *)
SavedPlayers(s) == FoldSet(LAMBDA p, t : SavePlayer(t, p), s, s.online)
SavedMap(s) ==
  [s EXCEPT !.db.sub = s.sub, !.db.guest = s.guest, !.db.warned = s.warned, !.db.sleeper = s.sleeper,
            !.db.goods = (@ \ Houses) \union (s.goods \intersect Houses)]
Saves(s) == {s, SavedPlayers(s), SavedMap(SavedPlayers(s))}
Whole(s) == SavedMap(SavedPlayers(s)).db = s.db

SaveGameState == estate' = SavedMap(SavedPlayers(estate))

Stop == \E s \in Saves(estate) : estate' = [Loaded(s.owner, s.db) EXCEPT !.running = FALSE]

(* The rent is paid, owed or not due.  Who is put out was loaded before    *)
(* and is saved after the sleepers are woken.                              *)
Evicted(s, h) ==
  LET p == s.owner[h] IN [SetOwner(s, h, Nobody) EXCEPT !.db.rest[p] = s.db.rest[p], !.rest[p] = s.rest[p]]

PayHouse(s, h) == IF s.warned[h] < MaxWarnings THEN [s EXCEPT !.warned[h] = @ + 1] ELSE Evicted(s, h)

Start ==
  \E H \in SUBSET {h \in Houses : estate.owner[h] # Nobody} :
    estate' = FoldSet(LAMBDA h, s : PayHouse(s, h), Loaded(estate.owner, estate.db), H)

Next ==
  IF estate.running
  THEN \/ SaveGameState \/ Stop
       \/ \E p \in Players : Login(p) \/ Logout(p) \/ KickPlayer(p)
       \/ \E p \in Players, h \in Houses : MoveThings(p, h) \/ BuyHouse(p, h) \/ LeaveHouse(p, h)
       \/ \E p \in Players, h \in Houses \union {Street} : Walk(p, h)
       \/ \E p \in Players, b \in Beds : UseBed(p, b)
       \/ \E p \in Players, agreed \in BOOLEAN : AnswerModalWindow(p, agreed)
       \/ \E p \in Players, h \in Houses, P \in SUBSET Listed : UpdateHouseWindow(p, h, P)
       \/ \E p, q \in Players, h \in Houses : KickFromHouse(p, q, h) \/ StartTrade(p, h, q)
       \/ \E h \in Houses : ExecuteTransfer(h) \/ CloseTrade(h)
  ELSE Start

-----------------------------------------------------------------------------
(* Only the invited are in a house.                                        *)
InvitedInside == \A h \in Houses : \A p \in Within(estate, h) : Invited(estate, h, p)

(* Nothing is lost or doubled; nothing and nobody is left in a house that  *)
(* has no owner, nor on its lists; nobody has two houses, and a deed is of *)
(* the house its giver owns, to somebody without one, and both are there;  *)
(* a sleeper has one bed, which he leaves when he comes, and is away or    *)
(* about to be kicked.                                                     *)
GoodHouses(s) ==
  /\ Cardinality(s.goods) = 1
  /\ \A h \in Houses : s.owner[h] = Nobody =>
       /\ s.sub[h] = {} /\ s.guest[h] = {} /\ s.warned[h] = 0 /\ h \notin s.goods
       /\ \A b \in Beds : HouseOf[b] = h => s.sleeper[b] = Nobody
  /\ \A p \in Players : Cardinality(Owned(s, p)) < 2
  /\ \A h \in Houses : s.deed[h] # NoDeed =>
       /\ s.owner[h] = s.deed[h].from /\ Owned(s, s.deed[h].to) = {}
       /\ {s.deed[h].from, s.deed[h].to} \subseteq s.online
GoodBeds(s) ==
  \A p \in Players, b \in Beds :
    /\ s.sleeper[b] = p <=> s.bedOf[p] = b
    /\ s.sleeper[b] = p => p \notin s.online \/ p \in s.kicked

(* A stop between two saves breaks the first; so does a giver who leaves   *)
(* his house while the deed is out, or a receiver who gets another.  Who   *)
(* is about to be kicked breaks the second when he lies down once more.    *)
WorseOnlyByStopOrDeed ==
  GoodHouses(estate) /\ ~GoodHouses(estate') =>
    \/ ~estate'.running /\ ~Whole(estate)
    \/ \E h \in Houses : estate.deed[h] # NoDeed /\ estate'.deed = estate.deed /\ estate'.owner # estate.owner
SleepsTwiceOnlyIfKicked ==
  GoodBeds(estate) /\ ~GoodBeds(estate') =>
    \/ \E p \in estate.kicked : \E b, c \in Beds : b # c /\ estate'.sleeper[b] = p /\ estate'.sleeper[c] = p
    \/ ~estate'.running /\ ~Whole(estate)

(* Who was woken is rested, except by an eviction from his own house, or   *)
(* before he is kicked.                                                    *)
WokenIsRested ==
  estate'.running => \A b \in Beds : LET p == estate.sleeper[b] IN
    p # Nobody /\ estate'.sleeper[b] # p =>
      \/ estate'.rest[p] # estate.rest[p]
      \/ p \in estate.kicked
      \/ ~estate.running /\ estate.owner[HouseOf[b]] = p
=============================================================================
