-------------------------------- MODULE Market --------------------------------
(***************************************************************************)
(* The market: game.cpp 5006-5461 and iomarket.cpp.                        *)
(*                                                                         *)
(* One ware.  stock is what getMarketItemList finds of it with a player,   *)
(* in his depot chest and his inbox; of a player who is offline bank and   *)
(* stock are those of the database, which every operation on an absent     *)
(* player loads and saves in one task.  The expiry of offers is not one    *)
(* task: its query runs on the database thread, its callback later.        *)
(* Offers found by (created, id & 0xFFFF) are found by their id here.      *)
(***************************************************************************)
EXTENDS Integers, FiniteSets, FiniteSetsExt

CONSTANTS
  Players,
  Amounts, Prices,     \* what clients may ask for
  Wealth, Goods,       \* the gold and the wares everybody starts with
  MaxOffers,           \* MAX_MARKET_OFFERS_AT_A_TIME_PER_PLAYER
  Duration,            \* MARKET_OFFER_DURATION
  LastId, MaxTime      \* bounds: offers ever created, and the clock

MaxAmount == 64000      \* of one offer, if the ware is stackable
MaxPrice == 999999999

(* What the constants have to be.                                          *)
MarketAssumption ==
  /\ IsFiniteSet(Players)
  /\ Amounts \subseteq 1 .. MaxAmount /\ Prices \subseteq 1 .. MaxPrice
  /\ {Wealth, Goods, MaxOffers, Duration, LastId, MaxTime} \subseteq Nat

VARIABLES
  bank, stock, inMarket,
  offers,              \* the table market_offers
  history,             \* the table market_history: how offers ended
  query,               \* expiry queries on their way: their lastExpireDate
  results,             \* expired rows on their way back to the dispatcher
  clock, nextId,
  paid,                \* gold that left the game as fees
  stale                \* an expiry paid back an amount that was not the row's

vars == <<bank, stock, inMarket, offers, history, query, results, clock, nextId, paid, stale>>

Offers ==
  [id : 1 .. LastId, owner : Players, sale : BOOLEAN, amount : Nat,
   price : Prices, created : 0 .. MaxTime]

Init ==
  /\ bank = [p \in Players |-> Wealth] /\ stock = [p \in Players |-> Goods]
  /\ inMarket = {} /\ offers = {} /\ history = {}
  /\ query = {} /\ results = {}
  /\ clock = 0 /\ nextId = 1 /\ paid = 0 /\ stale = FALSE

-----------------------------------------------------------------------------
(* sendMarketEnter opens it; leaving, a step and a logout close it.        *)
EnterMarket(p) ==
  /\ inMarket' = inMarket \union {p}
  /\ UNCHANGED <<bank, stock, offers, history, query, results, clock, nextId, paid, stale>>

LeaveMarket(p) ==
  /\ inMarket' = inMarket \ {p}
  /\ UNCHANGED <<bank, stock, offers, history, query, results, clock, nextId, paid, stale>>

Fee(price, amount) ==
  LET fee == (price * amount) \div 100
  IN  IF fee < 20 THEN 20 ELSE IF fee > 1000 THEN 1000 ELSE fee

OfferCount(p) == Cardinality({o \in offers : o.owner = p})
HasItems(p, amount) == stock[p] >= amount

(* playerCreateMarketOffer: a seller leaves the wares and the fee, a buyer *)
(* the price and the fee.                                                  *)
CreateOffer(p, sale, amount, price) ==
  LET fee == Fee(price, amount)
      due == IF sale THEN fee ELSE price * amount + fee
  IN  /\ p \in inMarket /\ nextId <= LastId
      /\ MaxOffers = 0 \/ OfferCount(p) < MaxOffers
      /\ due <= bank[p] /\ (sale => HasItems(p, amount))
      /\ bank' = [bank EXCEPT ![p] = @ - due]
      /\ stock' = [stock EXCEPT ![p] = @ - IF sale THEN amount ELSE 0]
      /\ offers' = offers \union
           {[id |-> nextId, owner |-> p, sale |-> sale, amount |-> amount,
             price |-> price, created |-> clock]}
      /\ nextId' = nextId + 1 /\ paid' = paid + fee
      /\ UNCHANGED <<inMarket, history, query, results, clock, stale>>

Total(f, S) == MapThenSumSet(LAMBDA x : f[x], S)

(* What an offer still holds, given back to its owner.                     *)
GoldOf(o) == IF o.sale THEN 0 ELSE o.price * o.amount
WaresOf(o) == IF o.sale THEN o.amount ELSE 0
Gold(O) == [o \in O |-> GoldOf(o)]
Wares(O) == [o \in O |-> WaresOf(o)]

MoveToHistory(o, state) ==
  /\ offers' = offers \ {o}
  /\ history' = history \union {<<o.id, state>>}

CancelOffer(p, o) ==
  /\ p \in inMarket /\ o.owner = p
  /\ bank' = [bank EXCEPT ![p] = @ + GoldOf(o)]
  /\ stock' = [stock EXCEPT ![p] = @ + WaresOf(o)]
  /\ MoveToHistory(o, "cancelled")
  /\ UNCHANGED <<inMarket, query, results, clock, nextId, paid, stale>>

(* What is left of an offer after amount of it has been accepted.          *)
Settle(o, amount) ==
  IF amount = o.amount
  THEN /\ offers' = offers \ {o}
       /\ history' = history \union {<<o.id, "accepted">>}
  ELSE /\ offers' = (offers \ {o}) \union {[o EXCEPT !.amount = @ - amount]}
       /\ UNCHANGED history

Moved(f, from, to, n) == [[f EXCEPT ![from] = @ - n] EXCEPT ![to] = @ + n]

AcceptBuy(p, o, amount) ==
  /\ ~o.sale /\ HasItems(p, amount)
  /\ stock' = Moved(stock, p, o.owner, amount)
  /\ bank' = [bank EXCEPT ![p] = @ + o.price * amount]

AcceptSell(p, o, amount) ==
  /\ o.sale /\ o.price * amount <= bank[p]
  /\ bank' = Moved(bank, p, o.owner, o.price * amount)
  /\ stock' = [stock EXCEPT ![p] = @ + amount]

(* playerAcceptMarketOffer: nothing keeps a player from his own offers, or *)
(* an offer that has run out from being accepted until it is collected.    *)
AcceptOffer(p, o, amount) ==
  /\ p \in inMarket /\ amount <= o.amount
  /\ AcceptBuy(p, o, amount) \/ AcceptSell(p, o, amount)
  /\ Settle(o, amount)
  /\ UNCHANGED <<inMarket, query, results, clock, nextId, paid, stale>>

-----------------------------------------------------------------------------
(* checkExpiredOffers: on the dispatcher, then on the database thread.     *)
CheckExpiredOffers ==
  /\ query' = query \union {clock - Duration}
  /\ UNCHANGED <<bank, stock, inMarket, offers, history, results, clock, nextId, paid, stale>>

RunQuery(date) ==
  /\ query' = query \ {date}
  /\ LET expired == {o \in offers : o.created <= date}
     IN  results' = IF expired = {} THEN results ELSE results \union {expired}
  /\ UNCHANGED <<bank, stock, inMarket, offers, history, clock, nextId, paid, stale>>

(* processExpiredOffers: the rows are those of the query; the ones that    *)
(* have left the table since are passed over, the amounts that have become *)
(* less are not noticed.                                                   *)
StillThere(rows) == {r \in rows : \E o \in offers : o.id = r.id}

ProcessExpiredOffers(rows) ==
  LET moved == StillThere(rows)
      ids == {r.id : r \in moved}
      Back(of, p) == Total(of, {r \in moved : r.owner = p})
  IN  /\ results' = results \ {rows}
      /\ bank' = [p \in Players |-> bank[p] + Back(Gold(moved), p)]
      /\ stock' = [p \in Players |-> stock[p] + Back(Wares(moved), p)]
      /\ offers' = {o \in offers : o.id \notin ids}
      /\ history' = history \union {<<i, "expired">> : i \in ids}
      /\ stale' = (stale \/ \E r \in moved : r \notin offers)
      /\ UNCHANGED <<inMarket, query, clock, nextId, paid>>

Tick == /\ clock < MaxTime /\ clock' = clock + 1
        /\ UNCHANGED <<bank, stock, inMarket, offers, history, query, results, nextId, paid, stale>>

Next ==
  \/ \E p \in Players : EnterMarket(p) \/ LeaveMarket(p)
  \/ \E p \in Players, sale \in BOOLEAN, amount \in Amounts, price \in Prices :
       CreateOffer(p, sale, amount, price)
  \/ \E p \in Players, o \in offers : CancelOffer(p, o)
  \/ \E p \in Players, o \in offers, amount \in Amounts : AcceptOffer(p, o, amount)
  \/ CheckExpiredOffers \/ \E date \in query : RunQuery(date)
  \/ \E rows \in results : ProcessExpiredOffers(rows)
  \/ Tick

Spec == Init /\ [][Next]_vars

-----------------------------------------------------------------------------
TypeOK ==
  /\ bank \in [Players -> Nat] /\ stock \in [Players -> Nat]
  /\ inMarket \subseteq Players
  /\ offers \subseteq Offers /\ \A r \in results : r \subseteq Offers
  /\ \A o \in offers : o.amount > 0

(* Gold and wares are only moved: what the players own, what the offers    *)
(* hold and the fees add up to what there was, as long as no expiry paid   *)
(* back a row that had changed since it was read (game.cpp 5074-5409,      *)
(* iomarket.cpp 119-196).                                                  *)
Conserved ==
  stale \/
    /\ Total(bank, Players) + Total(Gold(offers), offers) + paid = Wealth * Cardinality(Players)
    /\ Total(stock, Players) + Total(Wares(offers), offers) = Goods * Cardinality(Players)

(* An offer ends once: cancelled, accepted or expired, and is gone then.   *)
EndsOnce ==
  /\ \A h, k \in history : h[1] = k[1] => h = k
  /\ \A o \in offers, h \in history : o.id # h[1]
=============================================================================
