---------------------------- MODULE WorldPlayers -----------------------------
(* Parts of MCWorld that are about what a player is and does: waiting to   *)
(* be let in, his modifiers and conditions, and what his client shows.     *)
EXTENDS Integers, Sequences

-----------------------------------------------------------------------------
(* The waiting list: three accounts and a privileged one for two places.   *)
VARIABLES priorityWaitList, waitList, prioritySize, waitSize, online, now, cleaned

waitVars == <<priorityWaitList, waitList, prioritySize, waitSize, online, now, cleaned>>

W == INSTANCE WaitingList WITH
       Accounts <- {"ann", "bob", "cid", "god"}, Privileged <- {"god"}, MaxPlayers <- 2,
       Delays <- {5, 20}, MaxTime <- 21, MaxSize <- 5, Word <- 256

ASSUME WaitingListAssumption == W!WaitingListAssumption

WaitingInit == W!Init
WaitingRest ==
  /\ priorityWaitList = {} /\ waitList = {} /\ prioritySize = {}
  /\ waitSize = {} /\ online = {} /\ now = {} /\ cleaned = {}

WaitingStep == W!Next

-----------------------------------------------------------------------------
(* Modifiers: a condition of each kind with two values or two ids, hastes  *)
(* that are forever, by a script and constructed so, two levels, a mount.  *)
VARIABLE body

Cond(type, id, delta, percent, disables, forever) ==
  [type |-> type, id |-> id, delta |-> delta, health |-> 0, percent |-> percent,
   disables |-> disables, forever |-> forever, known |-> ~forever, beside |-> FALSE]

P == INSTANCE Modifiers WITH
       Catalogue <- {Cond("haste", 0, 1, FALSE, FALSE, FALSE), Cond("haste", 0, 3, FALSE, FALSE, TRUE),
                     Cond("haste", 1, 2, FALSE, FALSE, FALSE),
                     [Cond("haste", 1, 2, FALSE, FALSE, TRUE) EXCEPT !.known = TRUE],
                     Cond("paralyze", 0, -2, FALSE, FALSE, FALSE),
                     Cond("attributes", 0, 0, TRUE, FALSE, FALSE), Cond("attributes", 1, 0, TRUE, TRUE, FALSE),
                     Cond("outfit", 0, 0, FALSE, FALSE, FALSE)},
       Levels <- {1, 2}, BaseHealth <- 4, HealthGain <- 4, Percent <- 50, ItemSpeed <- 10,
       Mounts <- {1}, NoMount <- 0, MountSpeed <- [m \in {1} |-> 20 * m], MaxEvents <- 2

ASSUME ModifiersAssumption == P!ModifiersAssumption

ModifiersInit == P!Init /\ body.level = 1
ModifiersRest == body = {}

Kinds == {body'.conds[i].type : i \in DOMAIN body'.conds}

(* To keep the instance small: two conditions at a time, events only while *)
(* the player does nothing else, what changes health not mixed with what   *)
(* changes speed, and little drift.                                        *)
ModifiersStep ==
  /\ P!Next
  /\ Len(body'.conds) <= 2 /\ P!Drift(body') \in -2 .. 2
  /\ "attributes" \in Kinds \/ body'.worn => Kinds \subseteq {"attributes"} /\ ~body'.mounted
  /\ body'.mounted \/ body'.safe \/ body'.remount => Len(body'.conds) <= 1 /\ body'.events = {}
  /\ body'.events # {} \/ Kinds \ {"attributes"} # {} => body'.level = 1 /\ P!Drift(body') = 0
  /\ body'.events # {} \/ "attributes" \in Kinds \/ P!Drift(body') # 0 => body'.mount = 1 /\ ~body'.safe
  /\ body'.health \in -8 .. 12

-----------------------------------------------------------------------------
(* TileView: the client shows three things of a tile.                      *)
VARIABLE scene

V == INSTANCE TileView WITH
       Tiles <- {1, 2}, Items <- {"i", "j"}, Creatures <- {"c", "d"}, Shown <- 3,
       Ground <- "ground", Nowhere <- 0, Away <- 3

ASSUME TileViewAssumption == V!TileViewAssumption

TileViewInit == V!Init
TileViewRest == scene = {}

(* What follows once the client is wrong is not explored.                  *)
TileViewStep == V!Faithful(scene) /\ V!Next

-----------------------------------------------------------------------------
(* Windows: two windows, pages of one thing.                               *)
VARIABLE view

O == INSTANCE Windows WITH
       Bags <- {"bag", "box"}, Plain <- {"x"}, Cids <- {1, 2}, Capacity <- 1, MaxSize <- 2, Mail <- TRUE

ASSUME WindowsAssumption == O!WindowsAssumption

MaxLeaked == 1                \* logouts with the browse field open

WindowsInit == O!Init
WindowsRest == view = {}

(* What follows once the client is wrong is not explored.                  *)
WindowsStep == O!Faithful(view) /\ O!Next /\ view'.leaked <= MaxLeaked
-----------------------------------------------------------------------------
(* Effects: plain conditions, two for ever, one of them constructed so;    *)
(* rounds of one, one and a half and two checks, drawn ones and those of a *)
(* field; what is dealt periodically or round by round for ever.           *)
VARIABLES condition, sinceCheck, underfoot, dealings

effectVars == <<condition, sinceCheck, underfoot, dealings>>

Effect(kind, ticks, list) ==
  [kind |-> kind, ticks |-> ticks, left |-> ticks, list |-> list, min |-> 0, max |-> 0, start |-> 0,
   tick |-> 4, period |-> 0, acc |-> 0, delayed |-> TRUE, force |-> FALSE, endless |-> FALSE]
Rounds(n, span) == [k \in 1 .. n |-> [left |-> span, span |-> span, value |-> 1]]

E == INSTANCE Effects WITH
       Catalogue <- {Effect("plain", 3, <<>>), Effect("plain", 6, <<>>), Effect("plain", -1, <<>>),
                     [Effect("plain", -1, <<>>) EXCEPT !.endless = TRUE],
                     [Effect("damage", 4, Rounds(2, 2)) EXCEPT !.delayed = FALSE],
                     Effect("damage", 6, Rounds(2, 3)),
                     [Effect("damage", 4, Rounds(1, 4)) EXCEPT !.delayed = FALSE, !.force = TRUE],
                     [Effect("damage", 0, <<>>) EXCEPT !.min = 2, !.max = 3, !.start = 2],
                     [Effect("damage", -1, <<>>) EXCEPT !.period = 2],
                     Effect("damage", -1, Rounds(1, 2))},
       MaxLag <- 1,
       c <- condition, field <- underfoot, hist <- dealings

ASSUME EffectsAssumption == E!EffectsAssumption

EffectsInit == E!Init
EffectsRest == condition = {} /\ sinceCheck = {} /\ underfoot = {} /\ dealings = {}

(* To keep the instance small: fields for damage only, and entered halfway *)
(* to a check; another field only for what is for ever; and of what has    *)
(* come apart only the last round is followed.                             *)
EffectsStep ==
  /\ E!Next
  /\ (condition'.kind # "damage" => underfoot' = "none")
  /\ (underfoot' # underfoot => sinceCheck = 1)
  /\ (condition'.kind = "damage" /\ underfoot' = "other" => condition'.ticks = -1)
  /\ (condition'.kind # "none" /\ dealings'.apart /\ ~dealings.apart => Len(condition'.list) <= 1)
=============================================================================
