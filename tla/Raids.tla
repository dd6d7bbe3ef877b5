--------------------------------- MODULE Raids ---------------------------------
(***************************************************************************)
(* Raids (raids.cpp): one of the listed raids at a time is started, by     *)
(* chance or by a script, and its events follow one another by the         *)
(* scheduler; reload replaces the raids of the list.  What an event does,  *)
(* the chances and the lengths of time are left out, and a script of a     *)
(* raid that reloads the raids while it runs.  An event that fires on a    *)
(* raid that was deleted does what is undefined, and is not followed.      *)
(***************************************************************************)
EXTENDS Integers, FiniteSets

CONSTANTS
  Names, Repeats, Events,  \* the names, those that may be repeated, how many events each has
  MaxReloads, NoRaid

RaidsAssumption ==
  /\ Repeats \subseteq Names /\ Events \in [Names -> Nat] /\ MaxReloads \in Nat
  /\ NoRaid \notin Names \X (0 .. MaxReloads)

VARIABLE raids

(* A Raid object is a name in the generation of a loading.                 *)
Objects == Names \X (0 .. MaxReloads)
NameOf(o) == o[1]
Loading(g) == Names \X {g}

(* next is nextEvent.  pending has the raids whose nextEventEvent names an *)
(* event that the scheduler has, and strays how many more it has of a raid,*)
(* which nothing names any more.  forgotten is history: at a reload a raid *)
(* that was off the list was under way.                                    *)
Init == raids =
  [list |-> Loading(0), generation |-> 0, running |-> NoRaid, deleted |-> {},
   next |-> [o \in Objects |-> 0], pending |-> {}, strays |-> [o \in Objects |-> 0],
   forgotten |-> FALSE]

UnderWay(s, o) == o \in s.pending \/ s.strays[o] > 0

(* addEvent, whose id takes the place of the one that nextEventEvent has.  *)
AddEvent(s, o) ==
  [s EXCEPT !.pending = @ \union {o}, !.strays[o] = IF o \in s.pending THEN @ + 1 ELSE @]

StartRaid(s, o) ==
  LET u == [s EXCEPT !.running = o]
  IN  IF s.next[o] < Events[NameOf(o)] THEN AddEvent(u, o) ELSE u

(* The check of every minute: the margin and the chance may choose any,    *)
(* one that is under way too.                                              *)
CheckRaids(o) ==
  /\ raids.running = NoRaid /\ o \in raids.list
  /\ LET u == StartRaid(raids, o)
     IN  raids' = IF NameOf(o) \in Repeats THEN u ELSE [u EXCEPT !.list = @ \ {o}]

StartByScript(o) ==
  /\ raids.running = NoRaid /\ o \in raids.list
  /\ raids' = StartRaid(raids, o)

ResetRaid(s, o) == [s EXCEPT !.next[o] = 0, !.running = NoRaid]

Fired(s, o, kind) == IF kind = "named" THEN [s EXCEPT !.pending = @ \ {o}] ELSE [s EXCEPT !.strays[o] = @ - 1]

ExecuteRaidEvent(o, kind, succeeds) ==
  /\ o \notin raids.deleted
  /\ IF kind = "named" THEN o \in raids.pending ELSE raids.strays[o] > 0
  /\ LET u == [Fired(raids, o, kind) EXCEPT !.next[o] = IF succeeds THEN @ + 1 ELSE @]
     IN  raids' = IF succeeds /\ u.next[o] < Events[NameOf(o)] THEN AddEvent(u, o) ELSE ResetRaid(u, o)

DeletedOnly(s) == [s EXCEPT !.deleted = @ \union s.list, !.list = {}, !.running = NoRaid]
Clear(s) == DeletedOnly([s EXCEPT !.pending = @ \ s.list])

Reload ==
  /\ raids.generation < MaxReloads
  /\ LET left == Objects \ (raids.list \union raids.deleted)
     IN  raids' = [Clear(raids) EXCEPT !.generation = @ + 1, !.list = Loading(raids.generation + 1),
                                       !.forgotten = @ \/ \E o \in left : UnderWay(raids, o)]

Next ==
  \/ \E o \in Objects : \/ CheckRaids(o) \/ StartByScript(o)
                        \/ \E kind \in {"named", "stray"}, succeeds \in BOOLEAN : ExecuteRaidEvent(o, kind, succeeds)
  \/ Reload

-----------------------------------------------------------------------------
(* The event of a raid that was deleted is never left with the scheduler,  *)
(* but for one that a second start of the raid has made a stray: clear     *)
(* stops what nextEventEvent names and startRaid does not ask for it.  That*)
(* takes a raid that was off the list and under way at an earlier reload:  *)
(* its end clears the mark of another, which may then be started again.    *)
PendingExists ==
  /\ raids.pending \intersect raids.deleted = {}
  /\ \A o \in Objects : raids.strays[o] > 0 => raids.forgotten

(* The raid that is running is the one whose event is awaited, once.  That *)
(* ends when a raid that may not be repeated is under way at a reload: it  *)
(* was taken off the list, so it is not stopped, goes on beside the next   *)
(* one, and its end makes room for a third; and with a raid that has no    *)
(* events, which nothing ends (raids.cpp: checkRaids erases, clear goes    *)
(* through the list, resetRaid, startRaid).                                *)
Alone(s) == s.pending = {s.running} \ {NoRaid} /\ \A o \in Objects : s.strays[o] = 0
AloneUnlessForgotten ==
  Alone(raids) /\ ~Alone(raids') =>
    \/ raids'.generation > raids.generation /\ raids.running \notin raids.list
    \/ raids'.running # NoRaid /\ Events[NameOf(raids'.running)] = 0
=============================================================================
