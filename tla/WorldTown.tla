------------------------------- MODULE WorldTown -------------------------------
(* Houses and chat as parts of MCRealm.                                    *)
EXTENDS Integers

VARIABLES estate, chat

-----------------------------------------------------------------------------
(* Houses, in three scenes: two beds of one house, a house with access     *)
(* lists and rent, and the deeds of two houses.                            *)
HB == INSTANCE Houses WITH
        Players <- {"p", "q"}, Houses <- {"h"}, Beds <- {"b", "c"}, HouseOf <- [b \in {"b", "c"} |-> "h"],
        Nobody <- "nobody", Street <- "street", Listed <- {}, MaxWarnings <- 0, Things <- FALSE, Deeds <- FALSE
HL == INSTANCE Houses WITH
        Players <- {"p", "q"}, Houses <- {"h"}, Beds <- {}, HouseOf <- [b \in {} |-> "h"],
        Nobody <- "nobody", Street <- "street", Listed <- {"q"}, MaxWarnings <- 1, Things <- TRUE, Deeds <- FALSE
HD == INSTANCE Houses WITH
        Players <- {"p", "q", "r"}, Houses <- {"h", "k"}, Beds <- {}, HouseOf <- [b \in {} |-> "h"],
        Nobody <- "nobody", Street <- "street", Listed <- {}, MaxWarnings <- 0, Things <- FALSE, Deeds <- TRUE

ASSUME HousesAssumption == HB!HousesAssumption /\ HL!HousesAssumption /\ HD!HousesAssumption

HouseScenes == {"beds", "lists", "deeds"}

(* Whose the thing is matters only where things are carried about.         *)
HousesInit(scene) ==
  CASE scene = "beds" -> HB!Init /\ estate.goods = {"p"}
    [] scene = "lists" -> HL!Init
    [] scene = "deeds" -> HD!Init /\ estate.goods = {"p"}
HousesRest == estate = {}

(* What follows once something is wrong is not explored.                   *)
HousesStep(scene) ==
  \/ scene = "beds" /\ HB!GoodHouses(estate) /\ HB!GoodBeds(estate) /\ HB!Next
  \/ scene = "lists" /\ HL!GoodHouses(estate) /\ HL!Next
  \/ scene = "deeds" /\ HD!GoodHouses(estate) /\ HD!Next

(* Who came into a house uninvited; what a step may spoil.                 *)
HousesInvariant(scene) == (scene = "beds" => HB!InvitedInside) /\ (scene = "lists" => HL!InvitedInside)
HousesAction(scene) ==
  /\ scene = "beds" => HB!WorseOnlyByStopOrDeed /\ HB!SleepsTwiceOnlyIfKicked /\ HB!WokenIsRested
  /\ scene = "lists" => HL!WorseOnlyByStopOrDeed
  /\ scene = "deeds" => HD!WorseOnlyByStopOrDeed

-----------------------------------------------------------------------------
(* Chat, in four scenes: private channels, a party's channel with a        *)
(* second party, guilds, one of which has no lowest rank, and a channel    *)
(* for some vocations.                                                     *)
CP == INSTANCE Chat WITH Players <- {"p", "q", "r"}, Parties <- {}, Guilds <- {}, Ranked <- {},
                         Public <- {}, Private <- {"100", "101"}, None <- "none"
CT == INSTANCE Chat WITH Players <- {"p", "q", "r"}, Parties <- {"a", "b"}, Guilds <- {}, Ranked <- {},
                         Public <- {}, Private <- {}, None <- "none"
CG == INSTANCE Chat WITH Players <- {"p", "q", "r"}, Parties <- {}, Guilds <- {"g", "h"}, Ranked <- {"g"},
                         Public <- {}, Private <- {}, None <- "none"
CV == INSTANCE Chat WITH Players <- {"p", "q"}, Parties <- {}, Guilds <- {}, Ranked <- {},
                         Public <- {"3"}, Private <- {}, None <- "none"

ASSUME ChatAssumption == CP!ChatAssumption /\ CT!ChatAssumption /\ CG!ChatAssumption /\ CV!ChatAssumption

ChatScenes == {"private", "partychat", "guild", "vocation"}

ChatInit(scene) ==
  CASE scene = "private" -> CP!Init [] scene = "partychat" -> CT!Init
    [] scene = "guild" -> CG!Init [] scene = "vocation" -> CV!Init
ChatRest == chat = {}

(* What follows once a guild's list is wrong is not explored.              *)
ChatStep(scene) ==
  \/ scene = "private" /\ CP!Next
  \/ scene = "partychat" /\ CT!Next
  \/ scene = "guild" /\ CG!GuildsSound(chat) /\ CG!Next
  \/ scene = "vocation" /\ CV!Next

ChatInvariant(scene) ==
  /\ scene = "private" => CP!ChannelsSound
  /\ scene = "partychat" => CT!ChannelsSound
  /\ scene = "guild" => CG!ChannelsSound
  /\ scene = "vocation" => CV!ChannelsSound
ChatAction(scene) ==
  /\ scene = "private" => CP!BehindOnlyByLeaving
  /\ scene = "partychat" => CT!BehindOnlyByLeaving
  /\ scene = "guild" => CG!BehindOnlyByLeaving /\ CG!MisledOnlyByRank
  /\ scene = "vocation" => CV!BehindOnlyByLeaving
=============================================================================
