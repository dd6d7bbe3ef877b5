-------------------------------- MODULE Trade --------------------------------
(***************************************************************************)
(* Trades between two players: game.cpp 2472-2854, and the callbacks of    *)
(* player.cpp that close a trade when somebody or something moves.         *)
(*                                                                         *)
(* Places lie on a line.  An item is in a place, with a player or in a     *)
(* container; one that is taken out of the game is Nowhere, and so is a    *)
(* player who is offline.  TRADE_TRANSFER is not seen between two steps:   *)
(* playerAcceptTrade sets it and clears it again.  A stack that is copied  *)
(* by a move keeps its name.                                               *)
(***************************************************************************)
EXTENDS Integers

CONSTANTS
  Traders, Items,
  Containers,          \* the items that hold others
  Stackables,          \* the items that may join a stack
  Places,              \* numbers: the distance is their difference
  NoTrader, NoItem, Nowhere

(* What the constants have to be.                                          *)
TradeAssumption ==
  /\ Containers \subseteq Items /\ Stackables \subseteq Items \ Containers
  /\ Places \subseteq Nat
  /\ Traders \cap Items = {} /\ Places \cap (Traders \union Items) = {}
  /\ NoTrader \notin Traders /\ NoItem \notin Items
  /\ Nowhere \notin Traders \union Items \union Places

VARIABLES
  trade,       \* Player::tradeState, tradePartner, tradeItem
  tradeItems,  \* Game::tradeItems
  parent,      \* Item::parent
  at           \* where the players are

tradeVars == <<trade, tradeItems, parent, at>>

Trades ==
  [state : {"none", "acknowledge", "initiated", "accept"},
   partner : Traders \union {NoTrader}, item : Items \union {NoItem}]

NoTrade == [state |-> "none", partner |-> NoTrader, item |-> NoItem]

TradeInit ==
  /\ trade = [p \in Traders |-> NoTrade]
  /\ tradeItems = [i \in Items |-> NoTrader]
  /\ parent \in [Items -> Traders \union {Nowhere}]
  /\ at = [p \in Traders |-> Nowhere]

-----------------------------------------------------------------------------
(* The tree of items.                                                      *)

(* All that i is in, itself included.  Its containers are what every set   *)
(* of them has that misses none on the way up from i.                      *)
WayUp(i, S) == \A j \in S \union {i} : parent[j] \in Containers => parent[j] \in S
Above(i) == {c \in Containers : \A S \in SUBSET Containers : WayUp(i, S) => c \in S}
Around(i) == {i} \union {parent[j] : j \in Above(i) \union {i}}

Holds(c, i) == c # i /\ c \in Around(i)
Contents(c) == {i \in Items : Holds(c, i)}
Root(i) == CHOOSE x \in Around(i) : x \notin Items
Position(i) == IF Root(i) \in Traders THEN at[Root(i)] ELSE Root(i)

InRange(x, y, d) == x # Nowhere /\ y # Nowhere /\ x - y \in -d .. d

Online == {p \in Traders : at[p] # Nowhere}

-----------------------------------------------------------------------------
(* internalCloseTrade for every player of S and his partner.               *)
Involved(S) == S \union ({trade[p].partner : p \in S} \ {NoTrader})

Unregistered(S) ==
  [i \in Items |-> IF i \in {trade[p].item : p \in S} THEN NoTrader ELSE tradeItems[i]]

Reset == NoTrade

Close(S) ==
  LET all == Involved(S)
  IN  /\ trade' = [p \in Traders |-> IF p \in all THEN Reset ELSE trade[p]]
      /\ tradeItems' = Unregistered(all)

(* The players whose callbacks run when an item leaves s, or enters it.    *)
Notified(s) ==
  CASE s \in Traders -> {s}
    [] s \in Items   -> {p \in Online : InRange(at[p], Position(s), 2)}
    [] OTHER         -> Online

(* checkTradeState, and what each callback tests besides: whether the item *)
(* that leaves, or the container it leaves, holds the one that is offered. *)
OnlyTheItem(p, i) == trade[p].item = i
ClosesOnRemove(p, i) ==
  LET j == trade[p].item  s == parent[i]
  IN  /\ j # NoItem
      /\ \/ j = i \/ Holds(j, i)
         \/ s \notin Items /\ Holds(i, j)
         \/ s \in Items /\ parent[j] # s /\ Holds(s, j)

ClosesOnAdd(p, d) ==
  LET j == trade[p].item
  IN  d \in Items /\ j # NoItem /\ (j = d \/ Holds(j, d))

Closers(i, d) ==
  {p \in Notified(parent[i]) : ClosesOnRemove(p, i)}
    \union {p \in Notified(d) : ClosesOnAdd(p, d)}

-----------------------------------------------------------------------------
TraderLogin(p, x) ==
  /\ at[p] = Nowhere
  /\ at' = [at EXCEPT ![p] = x]
  /\ UNCHANGED <<trade, tradeItems, parent>>

TraderLogout(p) ==
  /\ p \in Online
  /\ IF trade[p].partner # NoTrader THEN Close({p}) ELSE UNCHANGED <<trade, tradeItems>>
  /\ at' = [at EXCEPT ![p] = Nowhere]
  /\ UNCHANGED parent

(* onCreatureMove: a step or a teleport, too far from the own item or from *)
(* the partner.                                                            *)
TooFar(p, x) ==
  \/ /\ trade[p].item # NoItem /\ Root(trade[p].item) # p
     /\ ~InRange(Position(trade[p].item), x, 1)
  \/ trade[p].partner # NoTrader /\ ~InRange(at[trade[p].partner], x, 2)

TraderMove(p, x) ==
  /\ p \in Online /\ x # at[p]
  /\ at' = [at EXCEPT ![p] = x]
  /\ IF TooFar(p, x) THEN Close({p}) ELSE UNCHANGED <<trade, tradeItems>>
  /\ UNCHANGED parent

(* An item is moved, or removed from the game.  Nothing but a trade brings *)
(* it from one player to another directly.                                 *)
MoveItem(i, d) ==
  /\ Position(i) # Nowhere /\ d # parent[i]
  /\ \/ d \in Places \union Online \union {Nowhere}
     \/ d \in Containers \ {i} /\ ~Holds(i, d) /\ Position(d) # Nowhere
  /\ LET r == IF d \in Items THEN Root(d) ELSE d
     IN  Root(i) \in Traders /\ r \in Traders => Root(i) = r
  /\ parent' = [parent EXCEPT ![i] = d]
  /\ Close(Closers(i, d))
  /\ UNCHANGED at

(* internalStartTrade                                                      *)
MayStart(p, q) ==
  /\ trade[p].state = "none" \/ (trade[p].state = "acknowledge" /\ trade[p].partner = q)
  /\ trade[q].state = "none" \/ trade[q].partner = p

StartTrade(p, q, i) ==
  /\ MayStart(p, q)
  /\ trade' = [trade EXCEPT
       ![p] = [state |-> "initiated", partner |-> q, item |-> i],
       ![q] = IF @.state = "none" THEN [NoTrade EXCEPT !.state = "acknowledge", !.partner = p]
                                  ELSE @]
  /\ tradeItems' = [tradeItems EXCEPT ![i] = p]

Overlapping(i) == {j \in Items : tradeItems[j] # NoTrader /\ (i = j \/ Holds(i, j) \/ Holds(j, i))}

(* playerRequestTrade: an item of one's own, or one that lies about.       *)
RequestTrade(p, q, i) ==
  /\ p \in Online /\ q \in Online \ {p}
  /\ InRange(at[p], at[q], 2)
  /\ Root(i) \in {p} \union Places /\ InRange(Position(i), at[p], 1)
  /\ Overlapping(i) = {}
  /\ StartTrade(p, q, i)
  /\ UNCHANGED <<parent, at>>

(* queryDestination: with the player or in one of his containers, but      *)
(* neither in the one he offers nor, tested by internalMoveItem, within.   *)
Room(q, offered) ==
  {q} \union {c \in Containers : Root(c) = q /\ offered # c /\ ~Holds(offered, c)}

(* Both have accepted.  The first move may fail like the tests before it,  *)
(* and ends the trade; the result of the second is not looked at, and it   *)
(* can fail where the test has put a stackable item onto a stack, for the  *)
(* move does not stack.                                                    *)
Transfer(p, q) ==
  LET i == trade[p].item
      j == trade[q].item
      Watched == Closers(i, q) \union Closers(j, p)
  IN  \/ Close({p}) /\ UNCHANGED parent
      \/ /\ i # NoItem /\ j # NoItem
         /\ Close({p} \union Watched)
         /\ \E d \in Room(q, j) :
              \/ \E e \in Room(p, i) : parent' = [parent EXCEPT ![i] = d, ![j] = e]
              \/ j \in Stackables /\ parent' = [parent EXCEPT ![i] = d]

AcceptTrade(p) ==
  LET q == trade[p].partner
  IN  /\ trade[p].state \in {"acknowledge", "initiated"} /\ q # NoTrader
      /\ IF trade[q].state = "accept"
           THEN Transfer(p, q)
           ELSE /\ trade' = [trade EXCEPT ![p].state = "accept"]
                /\ UNCHANGED <<tradeItems, parent>>
      /\ UNCHANGED at

CloseTrade(p) ==
  /\ p \in Online /\ trade[p] # NoTrade
  /\ Close({p})
  /\ UNCHANGED <<parent, at>>

TradeNext ==
  \/ \E p \in Traders :
       \/ \E x \in Places : TraderLogin(p, x) \/ TraderMove(p, x)
       \/ TraderLogout(p) \/ AcceptTrade(p) \/ CloseTrade(p)
       \/ \E q \in Traders, i \in Items : RequestTrade(p, q, i)
  \/ \E i \in Items, d \in Traders \union Places \union Containers \union {Nowhere} :
       MoveItem(i, d)

TradeSpec == TradeInit /\ [][TradeNext]_tradeVars

-----------------------------------------------------------------------------
TradeTypeOK ==
  /\ trade \in [Traders -> Trades]
  /\ tradeItems \in [Items -> Traders \union {NoTrader}]
  /\ parent \in [Items -> Traders \union Places \union Containers \union {Nowhere}]
  /\ at \in [Traders -> Places \union {Nowhere}]

(* Two players trade with each other or not at all, and both are online:   *)
(* the pointers never dangle.                                              *)
PartnersMutual ==
  \A p \in Traders :
    /\ trade[p].state = "none" <=> trade[p].partner = NoTrader
    /\ \A q \in Traders : trade[p].partner = q =>
         trade[q].partner = p /\ p # q /\ {p, q} \subseteq Online

(* Game::tradeItems has exactly the offered items, under their owners; one *)
(* that is left behind could not be traded until the server restarts.      *)
OffersRegistered ==
  \A i \in Items, p \in Traders : tradeItems[i] = p <=> trade[p].item = i

(* No offered item is in another: it could not be handed over both ways.   *)
OffersApart ==
  \A p, q \in Traders :
    p # q /\ trade[p].item # NoItem /\ trade[q].item # NoItem =>
      trade[p].item # trade[q].item /\ ~Holds(trade[p].item, trade[q].item)

(* Who trades stands next to what he offers, which is his or lies on the   *)
(* ground, and near his partner, whoever of the two moved last.            *)
OfferAtHand ==
  \A p \in Traders :
    /\ trade[p].item # NoItem =>
         /\ Root(trade[p].item) \in {p} \union Places
         /\ InRange(Position(trade[p].item), at[p], 1)
    /\ trade[p].partner # NoTrader => InRange(at[trade[p].partner], at[p], 2)

(* What was offered is what is traded: while an offer stands the item is   *)
(* not moved, nothing around it is, and nothing enters or leaves it.       *)
OfferUntouched ==
  \A p \in Traders, i \in Items :
    trade[p].item = i /\ trade'[p].item = i =>
      Around(i)' = Around(i) /\ Contents(i)' = Contents(i)

(* An accepted trade hands over both items or none; only a stackable item  *)
(* of the partner of the one who accepts last may stay where it was.       *)
SwapWhole ==
  parent' # parent =>
    \A p, q \in Traders, i, j \in Items :
      /\ trade[p].partner = q /\ trade[p].item = i /\ trade[q].item = j
      /\ AcceptTrade(p)
      => /\ Root(i)' = q
         /\ Root(j)' = p \/ (j \in Stackables /\ parent'[j] = parent[j])

(* Trades are sound: two players trade with each other or not at all;      *)
(* Game::tradeItems has exactly the offered items; none of them is in      *)
(* another; who trades stands next to what he offers and near his partner; *)
(* nothing enters, leaves or moves what is offered; and both items change  *)
(* hands or none.                                                          *)
TradeSound ==
  /\ [](TradeTypeOK /\ PartnersMutual /\ OffersRegistered /\ OffersApart /\ OfferAtHand)
  /\ [][OfferUntouched /\ SwapWhole]_tradeVars
=============================================================================
