----------------------------- MODULE ScriptEvents -----------------------------
(***************************************************************************)
(* Three registers of scripts, and what becomes of them when scripts are   *)
(* loaded again while the server runs (Game::reload, baseevents.cpp):      *)
(* creature events, to which creatures point (creatureevent.cpp,           *)
(* creature.cpp); global events, which are executed at certain times       *)
(* (globalevent.cpp); and the timers of scripts (luascript.cpp).           *)
(*                                                                         *)
(* Each of these is a task of the dispatcher.  A scheduled event has two   *)
(* stages: it waits, and once its time has come its task is queued, and    *)
(* stopEvent comes too late.                                               *)
(***************************************************************************)
EXTENDS Integers, FiniteSets, FiniteSetsExt

CONSTANTS EventNames, EventTypes,  \* of creature events
          Thinkers,      \* global events with an interval
          Daily,         \* global events at a time of the day
          Interval,      \* of each of both, a day for the latter
          First,         \* delay of the first check
          MaxTime, MaxIds, Timers \* bounds

ScriptEventsAssumption ==
  /\ "none" \notin EventTypes /\ MaxTime \in Nat /\ MaxIds \in Nat
  /\ Thinkers \intersect Daily = {}
  /\ Interval \in [Thinkers \union Daily -> Nat \ {0}] /\ First \in Nat \ {0}

VARIABLES
  known,   \* creatureEvents: type and whether it is loaded
  eventsList, \* of a creature: how often each is on it, the order left out
  bits,    \* its scriptEventsBitField
  clock,   \* now
  nextExecution, \* of each global event, or never
  chain,   \* thinkEventId and timerEventId
  sched,   \* scheduled checks: id, which check, when; queued when in tasks
  tasks,
  runs,    \* how often each has been executed since it was loaded, and when that was
  late,    \* reloads that came when a check was already in tasks
  timer,   \* timerEvents
  waiting, \* timers in the scheduler
  handed,  \* timers that are tasks
  refs     \* what became of a timer's function: ran, and how often released

registerVars == <<known, eventsList, bits>>
globalVars == <<clock, nextExecution, chain, sched, tasks, runs, late>>
timerVars == <<timer, waiting, handed, refs>>
eventVars == <<registerVars, globalVars, timerVars>>

Never == -1
Absent == [type |-> "none", loaded |-> FALSE]

--------------------------------------------------------------------------------
(* Creature events.  They are never erased: creatures point to them.       *)
Erased(k) == [n \in EventNames |-> Absent]
Unloaded(k) == [n \in EventNames |-> [k[n] EXCEPT !.loaded = FALSE]]

(* An event of the name is reused if it is of the same type and not loaded *)
(* and otherwise the new one is dropped.                                   *)
Registered(k, n, type) ==
  CASE k[n] = Absent -> [type |-> type, loaded |-> TRUE]
    [] k[n].type = type -> [k[n] EXCEPT !.loaded = TRUE]
    [] OTHER -> k[n]

(* file: what the reading of the xml and of the scripts comes to.          *)
Reload(file) ==
  /\ known' = [n \in EventNames |-> IF file[n] = "none" THEN Unloaded(known)[n]
                               ELSE Registered(Unloaded(known), n, file[n])]
  /\ UNCHANGED <<eventsList, bits, globalVars, timerVars>>

registerCreatureEvent(n) ==
  /\ known[n].loaded
  /\ known[n].type \in bits => eventsList[n] = 0
  /\ bits' = bits \union {known[n].type}
  /\ eventsList' = [eventsList EXCEPT ![n] = @ + 1]
  /\ UNCHANGED <<known, globalVars, timerVars>>

unregisterCreatureEvent(n) ==
  /\ known[n].loaded /\ known[n].type \in bits
  /\ eventsList' = [eventsList EXCEPT ![n] = 0]
  /\ bits' = IF \E m \in EventNames : eventsList'[m] > 0 /\ known[m].type = known[n].type
             THEN bits ELSE bits \ {known[n].type}
  /\ UNCHANGED <<known, globalVars, timerVars>>

getCreatureEvents(type) ==
  [n \in EventNames |-> IF type \in bits /\ known[n].type = type THEN eventsList[n] ELSE 0]

--------------------------------------------------------------------------------
(* Global events.                                                          *)
EventsOf(c) == IF c = "think" THEN Thinkers ELSE Daily
Checks == {"think", "timer"}
Used == {s.id : s \in sched} \union {t.id : t \in tasks} \union {chain[c] : c \in Checks} \union {0}
FreshId == CHOOSE i \in 1..MaxIds : i \notin Used
Loaded(c) == {g \in EventsOf(c) : nextExecution[g] # Never}

(* clear and loadFromXml.  when: the time of the first execution of those  *)
(* that are found in the file.                                             *)
ReloadGlobal(c, found, when) ==
  LET kept == {s \in sched : s.id # chain[c]}
      id == FreshId IN
  /\ Cardinality(Used) < MaxIds
  /\ \A g \in found : when[g] >= clock /\ (c = "think" => when[g] = clock + Interval[g])
  /\ nextExecution' = [g \in DOMAIN nextExecution |-> IF g \notin EventsOf(c) THEN nextExecution[g]
                                    ELSE IF g \in found THEN when[g] ELSE Never]
  /\ runs' = [g \in DOMAIN runs |-> IF g \in EventsOf(c) THEN [count |-> 0, from |-> when[g]] ELSE runs[g]]
  /\ chain' = [chain EXCEPT ![c] = IF found = {} THEN 0 ELSE id]
  /\ sched' = IF found = {} THEN kept ELSE kept \union {[id |-> id, check |-> c, due |-> clock + First]}
  /\ late' = [late EXCEPT ![c] = @ + Cardinality({t \in tasks : t.check = c})]
  /\ UNCHANGED <<clock, tasks, registerVars, timerVars>>

(* The scheduler hands a check over, not earlier than it is due.           *)
HandOver(s) ==
  /\ s \in sched /\ s.due <= clock
  /\ sched' = sched \ {s} /\ tasks' = tasks \union {s}
  /\ UNCHANGED <<clock, nextExecution, chain, runs, late, registerVars, timerVars>>

(* GlobalEvents::think and timer.  failing: whose script says no or fails; *)
(* think only reports it, timer forgets the event.                         *)
Check(t, failing) ==
  LET c == t.check
      due == {g \in Loaded(c) : nextExecution[g] <= clock}
      out == IF c = "timer" THEN failing ELSE {}
      delays == {nextExecution[g] - clock : g \in Loaded(c) \ due} \union {Interval[g] : g \in due \ out}
      id == FreshId IN
  /\ t \in tasks /\ failing \subseteq due
  /\ tasks' = tasks \ {t}
  /\ nextExecution' = [g \in DOMAIN nextExecution |-> IF g \in out THEN Never
                                    ELSE IF g \in due THEN nextExecution[g] + Interval[g] ELSE nextExecution[g]]
  /\ runs' = [g \in DOMAIN runs |-> IF g \in due THEN [runs[g] EXCEPT !.count = @ + 1] ELSE runs[g]]
  /\ IF delays = {} THEN UNCHANGED <<sched, chain>>
     ELSE /\ Cardinality(Used) < MaxIds
          /\ sched' = sched \union {[id |-> id, check |-> c, due |-> clock + Min(delays)]}
          /\ chain' = [chain EXCEPT ![c] = id]
  /\ UNCHANGED <<clock, late, registerVars, timerVars>>

Tick ==
  /\ clock < MaxTime
  /\ clock' = clock + 1
  /\ UNCHANGED <<nextExecution, chain, sched, tasks, runs, late, registerVars, timerVars>>

--------------------------------------------------------------------------------
(* Timers of scripts: a timer belongs to no script that is loaded, and     *)
(* outlives every reload.                                                  *)
addEvent(e) ==
  /\ timer[e] = "unmade"
  /\ timer' = [timer EXCEPT ![e] = "set"]
  /\ waiting' = waiting \union {e}
  /\ UNCHANGED <<handed, refs, registerVars, globalVars>>

TimerDue(e) ==
  /\ e \in waiting
  /\ waiting' = waiting \ {e} /\ handed' = handed \union {e}
  /\ UNCHANGED <<timer, refs, registerVars, globalVars>>

stopEvent(e) ==
  /\ timer[e] = "set"
  /\ timer' = [timer EXCEPT ![e] = "stopped"]
  /\ waiting' = waiting \ {e}
  /\ refs' = [refs EXCEPT ![e].released = @ + 1]
  /\ UNCHANGED <<handed, registerVars, globalVars>>

(* The task of a timer that has been stopped finds nothing.  If there is   *)
(* no environment the function is not called, and released all the same.   *)
executeTimerEvent(e, free) ==
  /\ e \in handed
  /\ handed' = handed \ {e}
  /\ IF timer[e] # "set" THEN UNCHANGED <<timer, refs>>
     ELSE /\ timer' = [timer EXCEPT ![e] = "over"]
          /\ refs' = [refs EXCEPT ![e] = [ran |-> free, released |-> @.released + 1]]
  /\ UNCHANGED <<waiting, registerVars, globalVars>>

--------------------------------------------------------------------------------
EventsInit ==
  /\ known = [n \in EventNames |-> Absent] /\ eventsList = [n \in EventNames |-> 0] /\ bits = {}
  /\ clock = 0 /\ nextExecution = [g \in Thinkers \union Daily |-> Never]
  /\ chain = [c \in Checks |-> 0] /\ sched = {} /\ tasks = {}
  /\ runs = [g \in Thinkers \union Daily |-> [count |-> 0, from |-> 0]]
  /\ late = [c \in Checks |-> 0]
  /\ timer = [e \in Timers |-> "unmade"] /\ waiting = {} /\ handed = {}
  /\ refs = [e \in Timers |-> [ran |-> FALSE, released |-> 0]]

RegisterNext ==
  \/ \E file \in [EventNames -> EventTypes \union {"none"}] : Reload(file)
  \/ \E n \in EventNames : registerCreatureEvent(n) \/ unregisterCreatureEvent(n)

GlobalNext ==
  \/ \E c \in Checks : \E found \in SUBSET EventsOf(c), when \in [EventsOf(c) -> clock..MaxTime] :
       ReloadGlobal(c, found, when)
  \/ \E s \in sched : HandOver(s)
  \/ \E t \in tasks : \E failing \in SUBSET EventsOf(t.check) : Check(t, failing)
  \/ Tick

TimerNext ==
  \E e \in Timers : \/ addEvent(e) \/ TimerDue(e) \/ stopEvent(e)
                    \/ \E free \in BOOLEAN : executeTimerEvent(e, free)

EventsNext == RegisterNext \/ GlobalNext \/ TimerNext
EventsSpec == EventsInit /\ [][EventsNext]_eventVars

--------------------------------------------------------------------------------
(* Of the events a creature is registered with, getCreatureEvents finds    *)
(* all of a type and each once, over registrations, removals and reloads;  *)
(* the bits say no more than the list.  An event the file no longer has is *)
(* found as well, though there is nothing to execute.                      *)
RegistrationsFound ==
  /\ bits = {known[n].type : n \in {m \in EventNames : eventsList[m] > 0}}
  /\ \A n \in EventNames : eventsList[n] > 0 => getCreatureEvents(known[n].type)[n] = 1

(* No date of a global event is met early or twice, whatever the number of *)
(* checks: the n-th execution is not before the n-th date.                 *)
DatesMetOnce ==
  \A g \in Thinkers \union Daily :
    /\ runs[g].count > 0 => runs[g].from + (runs[g].count - 1) * Interval[g] <= clock
    /\ nextExecution[g] # Never => nextExecution[g] = runs[g].from + runs[g].count * Interval[g]

(* As long as there are global events somebody will check them; one check  *)
(* is on its way, and one more for each that a reload could not stop.  It  *)
(* comes when an event is to be executed, or sooner, or after the delay of *)
(* the first, or the interval, from now.                                   *)
ChecksGoOn ==
  \A c \in Checks :
    LET pending == {x \in sched \union tasks : x.check = c} IN
    /\ Loaded(c) # {} => pending # {}
    /\ Cardinality(pending) <= 1 + late[c]
    /\ \A g \in Loaded(c) :
         \E x \in pending : x \in sched => x.due <= Max({clock + First, nextExecution[g], clock + Interval[g]})

(* A timer that was stopped does not run, and what it held is released     *)
(* once, when it is stopped or over.                                       *)
TimersSettled ==
  \A e \in Timers :
    /\ timer[e] = "stopped" => ~refs[e].ran
    /\ refs[e].released = IF timer[e] \in {"stopped", "over"} THEN 1 ELSE 0
    /\ e \in waiting => timer[e] = "set"

(* All of it, for whoever uses the registers.                              *)
EventsSound == RegistrationsFound /\ DatesMetOnce /\ ChecksGoOn /\ TimersSettled
================================================================================
