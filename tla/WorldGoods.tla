----------------------------- MODULE WorldGoods ------------------------------
(* Parts of MCWorld that are about goods: the moving of items, the market, *)
(* decay, and what is stored of a player's things.                         *)
EXTENDS Integers, Sequences, SequencesExt, FiniteSets

-----------------------------------------------------------------------------
(* Items, in four scenes around a player who wears a bag: "equipment" (a   *)
(* sword in the hand, a bow on the ground that may be too heavy), "stacks" *)
(* (a bag in the bag), "exchange" (what is in the hand goes back for a     *)
(* part of a stack), "purse" (he is paid while he may be trading his bag)  *)
(* and "counter" (while he may be trading what is in it).                  *)
VARIABLES v, offered, total, lost

itemVars == <<v, offered, total, lost>>

WeightOfKind ==
  [k \in {"sword", "shield", "bow", "bag", "coin", "gem"} |-> CASE k = "bow" -> 4 [] k \in {"sword", "shield"} -> 0 [] OTHER -> 1]

I == INSTANCE ItemMoves WITH
       Items <- 1 .. 8, Sword <- "sword", Shield <- "shield", Bow <- "bow", Bag <- "bag",
       Coin <- "coin", Gem <- "gem", Weight <- WeightOfKind,
       Player <- 0, Ground <- -1, None <- -2, StackSize <- 2, BagSize <- 2, Capacity <- 6

ASSUME ItemMovesAssumption == I!ItemMovesAssumption

Worn == I!With(I!Nothing, 1, "bag", 1, 0, I!BACKPACK)

Scene ==
  [equipment |-> <<<<2, "sword", 1, 0, I!LEFT>>, <<3, "coin", 2, 1, 0>>, <<4, "bow", 1, -1, 0>>>>,
   stacks    |-> <<<<2, "bag", 1, 1, 0>>, <<3, "coin", 2, 2, 0>>, <<4, "coin", 1, -1, 0>>>>,
   exchange  |-> <<<<2, "gem", 1, 0, I!LEFT>>, <<3, "coin", 2, 1, 0>>, <<4, "gem", 1, 1, 0>>>>,
   purse     |-> <<<<2, "sword", 1, 0, I!AMMO>>, <<3, "coin", 1, 0, I!LEFT>>,
                   <<4, "shield", 1, 0, I!RIGHT>>>>,
   counter   |-> <<<<2, "sword", 1, 0, I!AMMO>>, <<3, "sword", 1, 0, I!LEFT>>,
                   <<4, "shield", 1, 0, I!RIGHT>>, <<5, "bag", 1, 1, 0>>, <<6, "sword", 1, 1, 0>>>>]

ItemsInit(scene) ==
  LET Add(t, x) == I!With(x, t[1], t[2], t[3], t[4], t[5])
  IN  I!InitWith(FoldSeq(Add, Worn, Scene[scene]))
ItemsRest == v = {} /\ offered = {} /\ total = {} /\ lost = {}

Still(i) == v'.item[i] = v.item[i]
SlotsStill(S) == \A s \in S : v'.slot[s] = v.slot[s]

(* In "stacks" nothing else moves while the worn bag is not on the back.   *)
ItemsStep(scene) ==
  /\ I!Next
  /\ CASE scene = "purse" -> /\ \A i \in {1, 2, 4} : Still(i)
                             /\ offered' \in {-2, 1} /\ total'["coin"] \in 1 .. 3
       [] scene = "counter" -> /\ \A i \in 1 .. 6 : Still(i)
                               /\ offered' \in {-2, 6} /\ total'["coin"] \in total["coin"] .. 3
       [] OTHER -> offered' = offered /\ total' = total
  /\ scene = "equipment" => SlotsStill({I!AMMO})
  /\ scene = "stacks" => /\ SlotsStill({I!RIGHT, I!LEFT, I!AMMO})
                         /\ I!Parent(v', 1) # 0 => \A i \in 2 .. 8 : Still(i)
  /\ scene = "exchange" => SlotsStill({I!RIGHT, I!BACKPACK, I!AMMO})
  /\ scene \in {"purse", "exchange"} => v'.list[-1] = <<>>

-----------------------------------------------------------------------------
(* The market: two players, two offers, one expiry at a time; who sends    *)
(* the expiry query is not the one who leaves first.                       *)
VARIABLES bank, stock, inMarket, offers, history, query, results, clock, nextId, paid, stale

marketVars == <<bank, stock, inMarket, offers, history, query, results, clock, nextId, paid, stale>>

M == INSTANCE Market WITH
       Players <- {"ann", "bob"}, Amounts <- {1, 2}, Prices <- {30}, Wealth <- 130, Goods <- 1,
       MaxOffers <- 2, Duration <- 1, LastId <- 2, MaxTime <- 1

ASSUME MarketAssumption == M!MarketAssumption

MarketInit == M!Init
MarketRest ==
  /\ bank = {} /\ stock = {} /\ inMarket = {} /\ offers = {} /\ history = {}
  /\ query = {} /\ results = {} /\ clock = {} /\ nextId = {} /\ paid = {} /\ stale = {}

MarketStep ==
  /\ M!Next
  /\ Cardinality(query') + Cardinality(results') <= 1
  /\ inMarket' # {} /\ ("bob" \in inMarket' \/ query' = query)

-----------------------------------------------------------------------------
(* Decay: two items, a ring that can be taken off, a fire that turns to    *)
(* ashes; each may get a duration of its own that is not a multiple of the *)
(* lists' period.                                                          *)
VARIABLES w, lastBucket

decayVars == <<w, lastBucket>>

DecayTimes == [t \in {"ring", "off", "fire", "ash"} |-> IF t = "off" THEN 0 ELSE 1000]
DecaysTo ==
  [t \in {"ring", "off", "fire", "ash"} |->
     CASE t = "fire" -> "ash" [] t = "off" -> "never" [] OTHER -> "vanish"]
KindOf == [t \in {"ring", "off", "fire", "ash"} |-> IF t = "fire" THEN 2 ELSE 1]

D == INSTANCE Decay WITH
       Items <- {"one", "two"}, Types <- {"ring", "off", "fire", "ash"},
       DecayTime <- DecayTimes, DecayTo <- DecaysTo, StopTime <- {"off"}, Kind <- KindOf,
       Durations <- {1900}, Vanish <- "vanish", Never <- "never", MaxTime <- 1250, MaxEntries <- 2

ASSUME DecayAssumption == D!DecayAssumption

DecayInit == D!Init
DecayRest == w = {} /\ lastBucket = {}

DecayStep == D!Next
-----------------------------------------------------------------------------
(* What is stored of two players' things, in three scenes: "faults" (a     *)
(* torch on the body, a bag in the depot; statements fail, connections are *)
(* lost, the server dies), "nests" (a box and a torch in a bag) and "post" *)
(* (a box that may be sent).                                               *)
VARIABLES holder, square, stored, job, kept, torn, faults

storeVars == <<holder, square, stored, job, kept, torn, faults>>

S == INSTANCE PlayerStore WITH
       Players <- {"ann", "bob"}, Items <- {"bag", "box", "torch"}, Bags <- {"bag", "box"},
       Parcels <- {"box"}, Torches <- {"torch"}, Slots <- 1 .. 2, Depot <- 7, MaxFaults <- 3,
       body <- holder, ground <- square, db <- stored

ASSUME PlayerStoreAssumption == S!PlayerStoreAssumption

StoreScenes == {"faults", "nests", "post"}

Thing(name, content) == [name |-> name, decay |-> "no", content |-> content]
Wearing(t) == [S!NoPlayer EXCEPT !.slot[1] = <<t>>]
OfAnn ==
  [faults |-> [Wearing(Thing("torch", <<>>)) EXCEPT !.depot = <<Thing("bag", <<>>)>>],
   nests  |-> Wearing(Thing("bag", <<Thing("box", <<>>), Thing("torch", <<>>)>>)),
   post   |-> Wearing(Thing("box", <<>>))]

StoreInit(scene) == S!InitWith([p \in {"ann", "bob"} |-> IF p = "ann" THEN OfAnn[scene] ELSE S!NoPlayer])
StoreRest ==
  /\ holder = {} /\ square = {} /\ stored = {} /\ job = {}
  /\ kept = {} /\ torn = {} /\ faults = {}

(* To keep the instance small: a player changes once from save to save,    *)
(* nobody lights a thing or wears a second one where faults are looked at; *)
(* the fault in the post is one of the save of who is absent.              *)
Changed(p) == holder[p].here /\ holder'[p].here /\ S!Had(holder'[p]) # S!Had(holder[p])
Unsaved(p) == holder[p].here /\ S!Had(holder[p]) # kept[p]
Unlit == \A p \in {"ann", "bob"} : \A s \in 1 .. 2 : \A k \in DOMAIN holder'[p].slot[s] : holder'[p].slot[s][k].decay # "running"
Closed == \A p \in {"ann", "bob"} : holder'[p].slot[2] = <<>>
AnnAlone == holder'["bob"] = holder["bob"] /\ square' = square

StoreStep(scene) ==
  /\ S!Next
  /\ \A p \in {"ann", "bob"} : Changed(p) => ~Unsaved(p)
  /\ CASE scene = "faults" -> /\ AnnAlone /\ Closed /\ Unlit
                              /\ faults' <= IF S!Busy /\ job.for = "logout" THEN 3 ELSE 1
       [] scene = "nests" -> /\ AnnAlone /\ faults' = 0 /\ ~holder'["ann"].seen
                             /\ (S!Busy' => job'.for = "logout")
       [] scene = "post" -> /\ Closed /\ Unlit /\ S!World'["box"] = 1
                            /\ faults' <= 1 /\ (faults' = faults \/ (S!Busy /\ job.for = "absent"))
                            /\ \A p \in {"ann", "bob"} : holder'[p].depot = <<>>
=============================================================================
