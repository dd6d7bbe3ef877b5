------------------------------- MODULE MCRealm -------------------------------
(* Independent parts of the game, each explored on its own as in MCWorld:  *)
(* subject is the part that runs, and the others rest.  The parts whose    *)
(* theorems are in modules of proofs, parties, walking, the calls and the  *)
(* registers of scripts and trades, are this module's own; the others are  *)
(* instances.                                                              *)
EXTENDS Party, Walk, Scripts, Trade, ScriptEvents, WorldTown, WorldWild

ASSUME RealmAssumption == WalkAssumption /\ ScriptsAssumption /\ TradeAssumption /\ ScriptEventsAssumption

CONSTANTS p1, p2, p3, a1, a2, none, nobody

VARIABLE subject

-----------------------------------------------------------------------------
(* Parties: three players and two addresses.  In "party" people come, go,  *)
(* invite and join; in "sharing" they also fight and move, with one party. *)
ThreePlayers == {p1, p2, p3}
TwoParties == {a1, a2}

PartyStep ==
  \/ subject = "party" /\ \E p \in Players : Membership(p)
  \/ subject = "sharing" /\ Next /\ group'.live \subseteq {a1}

-----------------------------------------------------------------------------
(* Walking: two creatures to follow, one of which may be attacked and may  *)
(* get out of sight.                                                       *)
TwoCreatures == {"a", "b"}
TwoIds == {1, 2}

WalkStep == WalkNext /\ "b" \in walker'.seen /\ walker'.attack # "b"

-----------------------------------------------------------------------------
(* Scripts: two environments, five hooks of all ways, and one item or one  *)
(* result: to keep the instance small they are not mixed.                  *)
FiveHooks == {"onMoveItem", "npcSay", "onGetMinMaxValues", "onStored", "timer"}
TwoHooks == {"onTurn", "onThink"}
OneItem == {"meat"}

HooksOf(s) ==
  CASE s = "temporaries" -> {"onMoveItem", "npcSay", "onGetMinMaxValues"}
    [] s = "queries" -> {"onMoveItem", "onStored", "timer"}

CallsStep ==
  /\ subject \in {"temporaries", "queries"} /\ ScriptsNext
  /\ IF subject = "queries" THEN item' = item ELSE lastId' = 0
  /\ \A k \in DOMAIN calls' : calls'[k].hook \in HooksOf(subject)

-----------------------------------------------------------------------------
(* Trades: in "trade" three players with a bag and coins, of whom the      *)
(* second comes everywhere and the first not between the places; in        *)
(* "nested" two, together or far apart, with a box besides, so that        *)
(* containers nest.  Numbers, for they are compared with places.           *)
ann == 11
bob == 12
cid == 13
bag == 21
box == 22
coins == 23
nothing == -2
nowhere == -3

ThreeTraders == {ann, bob, cid}
ThreeItems == {bag, box, coins}
BagAndBox == {bag, box}
Coins == {coins}
ThreePlaces == {0, 1, 3}
noTrader == -1

TradeRest == TradeInit /\ \A i \in Items : parent[i] = nowhere
TradeScene ==
  CASE subject = "trade" -> parent[box] = nowhere /\ parent[bag] # nowhere /\ parent[coins] # nowhere
    [] subject = "nested" -> \A i \in Items : parent[i] \in {ann, bob}

TradeStep ==
  /\ TradeNext
  /\ \/ subject = "trade" /\ at'[ann] # 1 /\ at'[cid] # 3
     \/ subject = "nested" /\ at'[cid] = nowhere /\ \A p \in {ann, bob} : at'[p] # 1

-----------------------------------------------------------------------------
(* Registers of scripts: two creature events of two types; two global      *)
(* events by interval and a daily one; two timers.  To keep the instance   *)
(* small, one of the two checks, and one reload that comes late.           *)
TwoEvents == {"greet", "count"}
TwoTypes == {"login", "kill"}
TwoThinkers == {"save", "spawn"}
OneDaily == {"clean"}
Intervals == [save |-> 1, spawn |-> 2, clean |-> 3]
TwoTimers == {"t", "u"}

EventsStep ==
  \/ subject = "register" /\ RegisterNext
  \/ /\ subject = "globals" /\ GlobalNext
     /\ \E c \in Checks : chain'[c] = 0 /\ ~\E x \in sched' \union tasks' : x.check = c
     /\ late'["think"] + late'["timer"] <= 1
  \/ subject = "timers" /\ TimerNext

-----------------------------------------------------------------------------
Subjects ==
  {"party", "sharing", "walk", "temporaries", "queries", "trade", "nested",
   "register", "globals", "timers"}
  \union HouseScenes \union ChatScenes \union WildScenes \union CombatScenes

realmVars ==
  <<subject, vars, walker, callVars, tradeVars, eventVars, estate, chat, den, raids, fight>>

RealmInit ==
  /\ subject \in Subjects
  /\ Init /\ WalkInit /\ ScriptsInit /\ EventsInit
  /\ IF subject \in {"trade", "nested"} THEN TradeInit /\ TradeScene ELSE TradeRest
  /\ IF subject \in HouseScenes THEN HousesInit(subject) ELSE HousesRest
  /\ IF subject \in ChatScenes THEN ChatInit(subject) ELSE ChatRest
  /\ IF subject \in WildScenes THEN WildInit(subject) ELSE WildRest
  /\ IF subject \in CombatScenes THEN CombatInit(subject) ELSE CombatRest

RealmNext ==
  \/ /\ PartyStep
     /\ UNCHANGED <<subject, walker, callVars, tradeVars, eventVars, estate, chat, den, raids, fight>>
  \/ /\ subject = "walk" /\ WalkStep
     /\ UNCHANGED <<subject, vars, callVars, tradeVars, eventVars, estate, chat, den, raids, fight>>
  \/ /\ CallsStep
     /\ UNCHANGED <<subject, vars, walker, tradeVars, eventVars, estate, chat, den, raids, fight>>
  \/ /\ TradeStep
     /\ UNCHANGED <<subject, vars, walker, callVars, eventVars, estate, chat, den, raids, fight>>
  \/ /\ EventsStep
     /\ UNCHANGED <<subject, vars, walker, callVars, tradeVars, estate, chat, den, raids, fight>>
  \/ /\ subject \in HouseScenes /\ HousesStep(subject)
     /\ UNCHANGED <<subject, vars, walker, callVars, tradeVars, eventVars, chat, den, raids, fight>>
  \/ /\ subject \in ChatScenes /\ ChatStep(subject)
     /\ UNCHANGED <<subject, vars, walker, callVars, tradeVars, eventVars, estate, den, raids, fight>>
  \/ /\ subject \in WildScenes /\ WildStep(subject)
     /\ UNCHANGED <<subject, vars, walker, callVars, tradeVars, eventVars, estate, chat, fight>>
  \/ /\ subject \in CombatScenes /\ CombatStep(subject)
     /\ UNCHANGED <<subject, vars, walker, callVars, tradeVars, eventVars, estate, chat, den, raids>>

RealmSpec == RealmInit /\ [][RealmNext]_realmVars

(* Houses: only the invited are inside; things, lists, beds and rents of   *)
(* who loses a house go with him; one house and one bed for each; sleep    *)
(* pays off; except after a stop between two saves, with a deed whose giver*)
(* has left, and for who lies down twice before he is kicked.              *)
HousesSound ==
  /\ [](subject \in HouseScenes => HousesInvariant(subject))
  /\ [][(subject \in HouseScenes) => HousesAction(subject)]_realmVars

(* Chat: lists of pointers name only who is there; a private channel has   *)
(* its owner inside and nobody uninvited; a guild lists its own; who hears *)
(* a channel without belonging, or is locked out of one, has left, or come *)
(* back to, a party, a guild or a vocation.                                *)
ChatSound ==
  /\ [](subject \in ChatScenes => ChatInvariant(subject))
  /\ [][(subject \in ChatScenes) => ChatAction(subject)]_realmVars

(* The wild: a place has one monster, the next one not too soon, and is not*)
(* forgotten while vacant, unless others are kept under 0; one raid at a   *)
(* time, and none without its object, unless a reload forgets one that is  *)
(* under way.                                                              *)
WildSound ==
  /\ [](subject \in WildScenes => WildInvariant(subject))
  /\ [][(subject \in WildScenes) => WildAction(subject)]_realmVars

(* Combat: marks and white skulls end with their fight; attackers get what *)
(* their victim lost; who is attacked first may kill, unless he has a skull*)
(* and a mark of an earlier fight; red and black skulls are served, unless *)
(* there are more frags than an int32_t can count; and who dies by a player*)
(* in an arena loses nothing, unless that player left.                     *)
CombatSound ==
  /\ [](subject \in CombatScenes => CombatInvariant(subject))
  /\ [][(subject \in CombatScenes) => CombatAction(subject)]_realmVars
=============================================================================
