------------------------------- MODULE MCWorld -------------------------------
(* Independent parts of the game, each explored on its own: subject is the *)
(* part that runs, the variables of the others have no values.             *)
(* A part is a module World*, which instances the specification and says   *)
(* what of it is explored; that of creatures, about which there are        *)
(* theorems, extends it, so that the names of Creatures are its own.       *)
EXTENDS WorldPlayers, WorldGoods, WorldCreatures, WorldMap

VARIABLE subject

vars == <<subject, waitVars, marketVars, decayVars, cr, itemVars, body, scene, view,
           effectVars, storeVars, mapVars>>

Scenes == {"equipment", "stacks", "exchange", "purse", "counter"}
Subjects ==
  {"waiting", "market", "decay", "creatures", "modifiers", "tiles", "windows",
   "effects"} \union Scenes
  \union StoreScenes \union MapScenes

WorldInit ==
  /\ subject \in Subjects
  /\ IF subject = "waiting" THEN WaitingInit ELSE WaitingRest
  /\ IF subject = "market" THEN MarketInit ELSE MarketRest
  /\ IF subject = "decay" THEN DecayInit ELSE DecayRest
  /\ Init
  /\ IF subject \in Scenes THEN ItemsInit(subject) ELSE ItemsRest
  /\ IF subject = "modifiers" THEN ModifiersInit ELSE ModifiersRest
  /\ IF subject = "tiles" THEN TileViewInit ELSE TileViewRest
  /\ IF subject = "windows" THEN WindowsInit ELSE WindowsRest
  /\ IF subject = "effects" THEN EffectsInit ELSE EffectsRest
  /\ IF subject \in StoreScenes THEN StoreInit(subject) ELSE StoreRest
  /\ IF subject \in MapScenes THEN MapInit(subject) ELSE MapRest

WorldNext ==
  \/ /\ subject = "waiting" /\ WaitingStep
     /\ UNCHANGED <<subject, marketVars, decayVars, cr, itemVars, body, scene, view,
                    effectVars, storeVars, mapVars>>
  \/ /\ subject = "market" /\ MarketStep
     /\ UNCHANGED <<subject, waitVars, decayVars, cr, itemVars, body, scene, view,
                    effectVars, storeVars, mapVars>>
  \/ /\ subject = "decay" /\ DecayStep
     /\ UNCHANGED <<subject, waitVars, marketVars, cr, itemVars, body, scene, view,
                    effectVars, storeVars, mapVars>>
  \/ /\ subject = "creatures" /\ CreaturesStep
     /\ UNCHANGED <<subject, waitVars, marketVars, decayVars, itemVars, body, scene, view,
                    effectVars, storeVars, mapVars>>
  \/ /\ subject \in Scenes /\ ItemsStep(subject)
     /\ UNCHANGED <<subject, waitVars, marketVars, decayVars, cr, body, scene, view,
                    effectVars, storeVars, mapVars>>
  \/ /\ subject = "modifiers" /\ ModifiersStep
     /\ UNCHANGED <<subject, waitVars, marketVars, decayVars, cr, itemVars, scene, view,
                    effectVars, storeVars, mapVars>>
  \/ /\ subject = "tiles" /\ TileViewStep
     /\ UNCHANGED <<subject, waitVars, marketVars, decayVars, cr, itemVars, body, view,
                    effectVars, storeVars, mapVars>>
  \/ /\ subject = "windows" /\ WindowsStep
     /\ UNCHANGED <<subject, waitVars, marketVars, decayVars, cr, itemVars, body, scene,
                    effectVars, storeVars, mapVars>>
  \/ /\ subject = "effects" /\ EffectsStep
     /\ UNCHANGED <<subject, waitVars, marketVars, decayVars, cr, itemVars, body, scene,
                    view, storeVars, mapVars>>
  \/ /\ subject \in StoreScenes /\ StoreStep(subject)
     /\ UNCHANGED <<subject, waitVars, marketVars, decayVars, cr, itemVars, body, scene,
                    view, effectVars, mapVars>>
  \/ /\ subject \in MapScenes /\ MapStep(subject)
     /\ UNCHANGED <<subject, waitVars, marketVars, decayVars, cr, itemVars, body, scene,
                    view, effectVars, storeVars>>

WorldSpec == WorldInit /\ [][WorldNext]_vars

(* Waiting list: nobody is on it twice and its sizes add up; who is let in *)
(* leaves the places of those before him free, and the order of those who  *)
(* wait does not change.                                                   *)
QueueFair ==
  /\ [](subject = "waiting" => W!TypeOK)
  /\ [][subject = "waiting" => W!PlacesAheadKept /\ W!OrderKept]_vars

(* Items: moves create and destroy nothing, every item is in one place,    *)
(* what is worn goes together and is not too heavy, bags are overfull only *)
(* where a part of a stack was exchanged, and money is lost only while its *)
(* owner offers the bag it should go to.  And what is stored: a player gets*)
(* back what he had when he was last saved, whatever failed since, unless  *)
(* his save lost its transaction; no login, logout, mail or save loses or  *)
(* doubles a thing, unless it is given up; and what he wears decays on.    *)
(* What decays is in the lists once, with the references the lists have,   *)
(* and is neither overdue nor decays before its time.  And the market:     *)
(* gold and goods are nowhere created or lost, however an offer is         *)
(* accepted, cancelled or expires, and every offer ends in exactly one way.*)
ItemsSound ==
  /\ [](subject \in Scenes => I!Conserved /\ I!Placed /\ I!Bearable)
  /\ [](subject \in StoreScenes => S!StoredWhole)
  /\ [](subject = "decay" => D!Counted /\ D!OneEntry /\ D!NotOverdue)
  /\ [](subject = "market" => M!TypeOK /\ M!Conserved /\ M!EndsOnce)
  /\ [][(subject \in Scenes) => I!OverfullOnlyIfSplitOrOffered /\ I!LostOnlyWhileTrading]_vars
  /\ [][(subject \in StoreScenes) => S!NothingLostOrDoubled /\ S!DecaysOn]_vars
  /\ [][subject = "decay" => D!DecaysOnTime]_vars

(* Modifiers: speed and maximum health are the sums of what changes them,  *)
(* except where an item is taken off at another level than it was put on;  *)
(* haste and paralysis do not meet, except where one of them was not known *)
(* to be there.  Conditions: what was drawn is dealt, round by round and   *)
(* none twice; what is for ever is known to be there if it was constructed *)
(* so and not renewed since; damage ends when all of it was dealt, unless  *)
(* clock and rounds came apart; and an addition neither weakens nor        *)
(* shortens what is there.                                                 *)
ModifiersSound ==
  /\ [](subject = "modifiers" => P!SpeedAdds /\ P!EffectsExplained)
  /\ [](subject = "effects" => E!OwedAsDrawn /\ E!DealtAndLeft /\ E!PermanentIsKnown)
  /\ [][/\ subject = "modifiers" => P!DriftsOnlyByLevel
        /\ subject = "effects" => E!EndsExhausted /\ E!NeverWeakened /\ E!NeverShortened]_vars

(* What a client shows: of a tile, what it is sent of it, except after a  *)
(* creature has vanished from a tile with more things than are shown; of   *)
(* containers, what is within reach and exists, and what the server says,  *)
(* except on later pages and of what two windows show; and a browse field  *)
(* lives while it is needed.                                               *)
ViewsSound ==
  /\ [](subject = "windows" => O!WindowsWithinReach /\ O!FieldKept)
  /\ [][/\ subject = "windows" => O!WrongOnlyBehindOrTwice
        /\ subject = "tiles" => V!WrongOnlyByVanishing]_vars

(* The map: a search finds exactly who is near, whatever was cached before *)
(* and in whatever order the squares came into being; a path can be walked,*)
(* leads where it should, and is the cheapest there is; a monster knows    *)
(* what is around it, except after steps to the south and aside and where a*)
(* teleport was taken away, and comes nearer only if it is cornered.       *)
MapSound ==
  /\ [](subject \in MapScenes => MapInvariant(subject))
  /\ [][(subject \in MapScenes) => MapAction(subject)]_vars
=============================================================================
