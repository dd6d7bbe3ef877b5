-------------------------------- MODULE Scripts --------------------------------
(***************************************************************************)
(* How the game calls its scripts (luascript.cpp, events.cpp and the       *)
(* execute functions of all that is scripted): the stack of script         *)
(* environments, what a script that runs holds in its environment - items  *)
(* that are nowhere yet, results of queries, its npc - and what the caller *)
(* is told when there is no script, no environment, or an error.           *)
(*                                                                         *)
(* A script calls the game, which calls scripts, all in one task.          *)
(* The slots past the last environment exist only for the calls that were  *)
(* refused: what happens there is undefined in C++.  The model goes on as  *)
(* if that memory were free; a crash would only end the behaviour.         *)
(***************************************************************************)
EXTENDS Integers, Sequences, SequencesExt, FiniteSets

CONSTANTS Slots,       \* script environments: 16 in the code
          Called,      \* hooks that have a script
          Silent,      \* hooks that have none
          Products,       \* items a script may make
          MaxRefused, MaxResults \* bounds

VARIABLES env,     \* the environments
          index,   \* scriptEnvIndex
          calls,   \* the calls being executed, the innermost last; "owes": made, put nowhere
          temps,   \* tempItems: slot and item
          item,    \* where each item is
          results, \* tempResults
          lastId,  \* lastResultId
          refused, \* calls that found no environment
          told     \* what the last caller was told

callVars == <<env, index, calls, temps, item, results, lastId, refused, told>>

--------------------------------------------------------------------------------
(* What a caller is told if there is no script, no environment, an error.  *)
Permission == [none |-> "yes", full |-> "no", error |-> "no"]
Amount     == [none |-> "kept", full |-> "kept", error |-> "kept"]
Notice     == [none |-> "nothing", full |-> "nothing", error |-> "nothing"]
\* a monster's: TRUE takes the handler's place
Takeover   == [none |-> "goes on", full |-> "taken", error |-> "goes on"]
\* where there is no script the handler has something else to do
Deed       == [none |-> "other", full |-> "no", error |-> "no"]

Hook(names, way, kind) == [h \in names |-> [way |-> way, kind |-> kind]]
Merged(tables) ==
  [h \in UNION {DOMAIN t : t \in tables} |-> (CHOOSE t \in tables : h \in DOMAIN t)[h]]

CombatHooks == Hook({"onAreaCombat", "onTargetCombat", "onChangeOutfit"}, "script", Permission)
PartyHooks == Hook({"onJoin", "onLeave", "onDisband", "onBrowseField"}, "script", Permission)
LookHooks == Hook({"onLook", "onLookInBattleList", "onLookInTrade"}, "script", Notice)
MoveHooks == Hook({"onLookInShop", "onMoveItem", "onMoveCreature"}, "script", Permission)
ReportHooks ==
  Merged({Hook({"onReportBug", "onTurn"}, "script", Permission),
          Hook({"onReportRuleViolation"}, "script", Notice)})
TradeHooks == Hook({"onTradeRequest", "onTradeAccept"}, "script", Permission)
GainHooks == Hook({"onGainExperience", "onLoseExperience", "onGainSkillTries"}, "script", Amount)
LifeHooks == Hook({"onLogin", "onLogout", "onPrepareDeath", "onCreatureThink"}, "script", Permission)
DeathHooks ==
  Merged({Hook({"onDeath", "onAdvance"}, "script", Permission),
          Hook({"onKill", "onModalWindow"}, "script", Notice)})
ChangeHooks ==
  Merged({Hook({"onHealthChange", "onManaChange"}, "script", Amount),
          Hook({"onExtendedOpcode"}, "script", Notice)})
TextHooks == Hook({"onTextEdit"}, "script", Permission)
ChannelHooks == Hook({"canJoin", "onJoinChannel", "onLeaveChannel", "onSpeak"}, "script", Permission)
MonsterHooks == Hook({"onCreatureAppear", "onCreatureDisappear", "onCreatureMove"}, "script", Takeover)
ThinkHook == Hook({"onThink"}, "script", Takeover)
HearHook == Hook({"onCreatureSay"}, "script", Notice)
NpcHooks == Hook({"npcAppear", "npcDisappear", "npcMove", "npcSay"}, "npc", Notice)
DealHooks == Hook({"npcTrade", "npcCloseChannel", "npcEndTrade", "npcThink"}, "npc", Notice)
StepHooks == Hook({"onStep", "onEquip", "onAddItem"}, "script", Deed)
SayHook == Hook({"onSay"}, "script", Deed)
UseHook == Hook({"onUse"}, "script", Deed)
CastHooks == Hook({"onCastSpell", "onCastCombatSpell"}, "script", Deed)
RuneHook == Hook({"onCastRune"}, "script", Deed)
WeaponHook == Hook({"onUseWeapon"}, "script", Deed)
GlobalHooks == Hook({"onRecord", "onTime"}, "script", Deed)
RaidHook == Hook({"onRaid"}, "script", Deed)
ValueHook == Hook({"onGetMinMaxValues"}, "callback", Amount)
TargetHooks == Hook({"onTileCombat", "onTargetCallback"}, "callback", Notice)
TimerHook == Hook({"timer"}, "timer", Notice)
QueryHooks == Hook({"onExecuted", "onStored"}, "query", Notice)

Hooks ==
  Merged({CombatHooks, PartyHooks, LookHooks, MoveHooks, ReportHooks, TradeHooks,
          GainHooks, LifeHooks, DeathHooks, ChangeHooks, TextHooks, ChannelHooks,
          MonsterHooks, ThinkHook, HearHook, NpcHooks, DealHooks, StepHooks,
          SayHook, UseHook, CastHooks, RuneHook, WeaponHook, GlobalHooks,
          RaidHook, ValueHook, TargetHooks, TimerHook, QueryHooks})

None == "none"

ScriptsAssumption ==
  /\ Slots \in Nat \ {0} /\ MaxRefused \in Nat /\ MaxResults \in Nat
  /\ Called \union Silent \subseteq DOMAIN Hooks /\ Called \intersect Silent = {}
  /\ None \notin Products
Unused == [script |-> None, callback |-> None, timer |-> FALSE, npc |-> None]
Quiet == [hook |-> None, how |-> None, answer |-> None]

ScriptsInit ==
  /\ env = [s \in 0..(Slots + MaxRefused - 1) |-> Unused]
  /\ index = -1 /\ calls = <<>> /\ refused = 0
  /\ temps = {} /\ item = [i \in Products |-> "unmade"]
  /\ results = {} /\ lastId = 0
  /\ told = Quiet

--------------------------------------------------------------------------------
Tell(h, how) == told' = [hook |-> h, how |-> how, answer |-> Hooks[h].kind[how]]

(* A script answers with a truth value, or a number, or nothing.           *)
Answered(h, yes) ==
  CASE Hooks[h].kind \in {Permission, Deed} -> IF yes THEN "yes" ELSE "no"
    [] Hooks[h].kind = Takeover -> IF yes THEN "taken" ELSE "goes on"
    [] Hooks[h].kind = Amount -> "changed"
    [] Hooks[h].kind = Notice -> "nothing"

Top == Last(calls)
InTop(c) == calls' = [calls EXCEPT ![Len(calls)] = c]

(* The environment of a call: what it was before is gone by resetEnv, but  *)
(* not its npc.                                                            *)
Prepared(e, h) ==
  CASE Hooks[h].way = "callback" -> [e EXCEPT !.callback = h]
    [] Hooks[h].way = "npc" -> [e EXCEPT !.script = h, !.npc = h]
    [] Hooks[h].way = "timer" -> [e EXCEPT !.script = h, !.timer = TRUE]
    [] OTHER -> [e EXCEPT !.script = h]

NotInstalled(h) ==
  /\ Tell(h, "none")
  /\ UNCHANGED <<env, index, calls, temps, item, results, lastId, refused>>

(* reserveScriptEnv counts up also if it fails, and nobody counts down.    *)
Refuse(h) ==
  /\ index + 1 >= Slots /\ refused < MaxRefused
  /\ index' = index + 1 /\ refused' = refused + 1
  /\ Tell(h, "full")
  /\ UNCHANGED <<env, calls, temps, item, results, lastId>>

(* The callback of an asynchronous query finds its result in tempResults.  *)
Enter(h) ==
  /\ index + 1 < Slots
  /\ h = "onStored" => lastId < MaxResults
  /\ index' = index + 1
  /\ env' = [env EXCEPT ![index + 1] = Prepared(@, h)]
  /\ lastId' = IF h = "onStored" THEN lastId + 1 ELSE lastId
  /\ results' = IF h = "onStored" THEN results \union {lastId + 1} ELSE results
  /\ calls' = Append(calls, [hook |-> h, adding |-> None, owes |-> {},
                             has |-> IF h = "onStored" THEN {lastId + 1} ELSE {}])
  /\ told' = Quiet
  /\ UNCHANGED <<temps, item, refused>>

(* The temporary items of an environment.                                  *)
AllTemporary(s) == temps
Temporary(s) == {t \in temps : t[1] = s}

(* resetScriptEnv: the items of this environment that are still nowhere    *)
(* are released, and all results are forgotten, whoever asked for them.    *)
EndCall(how, answer) ==
  LET own == Temporary(index)
      rest == Front(calls) IN
  /\ calls # <<>> /\ Top.adding = None
  /\ env' = [env EXCEPT ![index] = [Unused EXCEPT !.npc = env[index].npc]]
  /\ temps' = temps \ own
  /\ item' = [i \in Products |-> IF item[i] = "nowhere" /\ \E t \in own : t[2] = i
                              THEN "released" ELSE item[i]]
  /\ results' = {}
  /\ index' = index - 1
  /\ calls' = IF rest = <<>> THEN rest
              ELSE [rest EXCEPT ![Len(rest)] = [@ EXCEPT !.has = {}]]
  /\ told' = [hook |-> Top.hook, how |-> how, answer |-> answer]
  /\ UNCHANGED <<lastId, refused>>

Return == \E yes \in BOOLEAN : EndCall(IF yes THEN "true" ELSE "false", Answered(Top.hook, yes))
Fail == EndCall("error", Hooks[Top.hook].kind.error)

--------------------------------------------------------------------------------
(* What a script does with its environment.  While the game adds an item   *)
(* for it, it waits; the scripts of what happens then run.                 *)
Running == calls # <<>> /\ Top.adding = None

MakeItem(i) ==
  /\ Running /\ item[i] = "unmade"
  /\ temps' = temps \union {<<index, i>>}
  /\ item' = [item EXCEPT ![i] = "nowhere"]
  /\ InTop([Top EXCEPT !.owes = @ \union {i}])
  /\ told' = Quiet
  /\ UNCHANGED <<env, index, results, lastId, refused>>

(* internalAddItem puts the item down, or it is merged into a stack that   *)
(* is there: wholly, then it is released and no longer a temporary one, or *)
(* in part, then another takes the rest and the item itself is forgotten.  *)
AddItem(i) ==
  /\ Running /\ <<index, i>> \in temps /\ item[i] = "nowhere"
  /\ \/ /\ item' = [item EXCEPT ![i] = "placed"]
        /\ UNCHANGED temps
     \/ /\ item' = [item EXCEPT ![i] = "released"]
        /\ temps' = {t \in temps : t[2] # i}
     \/ /\ item' = [item EXCEPT ![i] = "lost"]
        /\ UNCHANGED temps
  /\ InTop([Top EXCEPT !.adding = i, !.owes = @ \ {i}])
  /\ told' = Quiet
  /\ UNCHANGED <<env, index, results, lastId, refused>>

Added ==
  /\ calls # <<>> /\ Top.adding # None
  /\ temps' = {t \in temps : t[2] # Top.adding}
  /\ InTop([Top EXCEPT !.adding = None])
  /\ told' = Quiet
  /\ UNCHANGED <<env, index, item, results, lastId, refused>>

(* Any script may come across an item that lies somewhere.                 *)
RemoveItem(i) ==
  /\ Running /\ item[i] = "placed"
  /\ item' = [item EXCEPT ![i] = "released"]
  /\ temps' = {t \in temps : t[2] # i}
  /\ told' = Quiet
  /\ UNCHANGED <<env, index, calls, results, lastId, refused>>

StoreQuery ==
  /\ Running /\ lastId < MaxResults
  /\ lastId' = lastId + 1
  /\ results' = results \union {lastId'}
  /\ InTop([Top EXCEPT !.has = @ \union {lastId'}])
  /\ told' = Quiet
  /\ UNCHANGED <<env, index, temps, item, refused>>

FreeResult(r) ==
  /\ Running /\ r \in Top.has
  /\ results' = results \ {r}
  /\ InTop([Top EXCEPT !.has = @ \ {r}])
  /\ told' = Quiet
  /\ UNCHANGED <<env, index, temps, item, lastId, refused>>

ScriptsNext ==
  \/ \E h \in Silent : NotInstalled(h)
  \/ \E h \in Called : Refuse(h) \/ Enter(h)
  \/ Return \/ Fail \/ Added \/ StoreQuery
  \/ \E i \in Products : MakeItem(i) \/ AddItem(i) \/ RemoveItem(i)
  \/ \E r \in results : FreeResult(r)

ScriptsSpec == ScriptsInit /\ [][ScriptsNext]_callVars

--------------------------------------------------------------------------------
(* As long as no call was refused, every call has the environment that it  *)
(* prepared, and there are as many as calls.  After a refusal all later    *)
(* calls are one environment too high, for good.                           *)
OwnEnvironment ==
  /\ index = Len(calls) - 1 + refused
  /\ refused = 0 =>
       \A k \in DOMAIN calls :
         LET e == env[k - 1]
             h == calls[k].hook IN
         /\ e = Prepared([Unused EXCEPT !.npc = e.npc], h)
         /\ Hooks[h].way = "npc" => e.npc = h

(* A script that failed or could not run never said yes, changed nothing,  *)
(* and took nobody's place, except for want of an environment.             *)
FailsClosed ==
  told.how \in {"full", "error"} =>
    /\ told.answer \notin {"yes", "changed"}
    /\ told.answer = "taken" => told.how = "full"

(* As long as no call was refused, what a script made and put nowhere is   *)
(* nowhere until that script ends, whatever the scripts end that it has    *)
(* called; then it is released.  Nothing is released twice.                *)
TemporaryItems ==
  /\ refused = 0 =>
       /\ \A i \in Products : item[i] = "nowhere" <=> \E k \in DOMAIN calls : i \in calls[k].owes
       /\ \A k \in DOMAIN calls : \A i \in calls[k].owes : <<k - 1, i>> \in temps
       /\ calls = <<>> => temps = {}
  /\ \A t \in temps : item[t[2]] # "released"

(* A result is there as long as the script that asked for it runs and has  *)
(* called nothing that runs another; then none is left.                    *)
ResultsKept ==
  /\ calls # <<>> => Top.has \subseteq results
  /\ calls = <<>> => results = {}

(* Scripts are called soundly: each in the environment prepared for it, no *)
(* failed one permits anything, what they make is put somewhere or         *)
(* released, and results outlive only what calls nothing.                  *)
ScriptsSound == OwnEnvironment /\ FailsClosed /\ TemporaryItems /\ ResultsKept
================================================================================
