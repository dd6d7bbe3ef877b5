----------------------------- MODULE WaitingList -----------------------------
(***************************************************************************)
(* src/src/waitlist.cpp: the players who wait for a place on a server that *)
(* is full, premium accounts before the others.  Everything runs on the    *)
(* dispatcher; one call of clientLogin is one step.  Times are in seconds. *)
(***************************************************************************)
EXTENDS Naturals, Sequences, SequencesExt, FiniteSets

CONSTANTS
  Accounts,     \* playerGUID
  Privileged,   \* accounts that can always log in
  MaxPlayers,   \* config.lua: maxPlayers
  Delays,       \* time that may pass between two logins
  MaxTime,      \* bound of the clock
  MaxSize,      \* bound of prioritySize
  Word          \* std::size_t counts modulo Word (2^64 milliseconds)

(* What the constants have to be.                                          *)
WaitingListAssumption ==
  /\ Privileged \subseteq Accounts
  /\ MaxPlayers \in Nat \ {0} /\ MaxTime \in Nat /\ Delays \subseteq Nat \ {0}
  /\ MaxSize \in Nat /\ Word \in Nat /\ Word > MaxTime + 135

VARIABLES
  priorityWaitList, waitList,
  prioritySize,   \* what priorityWaitList.size() and
  waitSize,       \* waitList.size() return
  online, now,
  cleaned         \* history: when the lists were last cleaned up

vars == <<priorityWaitList, waitList, prioritySize, waitSize, online, now, cleaned>>

Wait == [timeout : 0 .. MaxTime + 135, playerGUID : Accounts]

Init ==
  /\ priorityWaitList = << >> /\ waitList = << >>
  /\ prioritySize = 0 /\ waitSize = 0
  /\ online = {} /\ now = 0 /\ cleaned = 0

GetTime(slot) ==
  CASE slot < 5 -> 5 [] slot \in 5..9 -> 10 [] slot \in 10..19 -> 20
    [] slot \in 20..49 -> 60 [] OTHER -> 120

GetTimeout(slot) == GetTime(slot) + 15

(* timeout is a std::size_t: the difference has no sign.                   *)
Expired(w) == (w.timeout + Word - now) % Word = 0

Cleaned(list) == SelectSeq(list, LAMBDA w : ~Expired(w))

(* findClient: the position in the two lists, one after the other.         *)
SlotsOfEach(lists, g) ==
  UNION {{i \in DOMAIN lists[n] : lists[n][i].playerGUID = g} : n \in DOMAIN lists}
Slots(lists, g) ==
  LET both == lists[1] \o lists[2] IN {i \in DOMAIN both : both[i].playerGUID = g}

(* Erasing unlinks the node from the list it is in; the size that counts   *)
(* down is waitList's, whichever list that was.                            *)
Without(list, g) == SelectSeq(list, LAMBDA w : w.playerGUID # g)

Prolonged(list, g, t) ==
  [i \in DOMAIN list |-> IF list[i].playerGUID = g THEN [list[i] EXCEPT !.timeout = t]
                                                  ELSE list[i]]

Enlist(list, w) == Append(list, w)

(* A login that was let in may still fail.                                 *)
LetIn(g) == online' \in {online, online \union {g}}

AlwaysLogin(g) ==
  /\ g \in Privileged \ online
  /\ LetIn(g)
  /\ UNCHANGED <<priorityWaitList, waitList, prioritySize, waitSize, now, cleaned>>

ClientLogin(g, premium) ==
  LET lists == <<Cleaned(priorityWaitList), Cleaned(waitList)>>
      sizes == <<prioritySize - (Len(priorityWaitList) - Len(lists[1])),
                 (waitSize + Word - (Len(waitList) - Len(lists[2]))) % Word>>
      found == Slots(lists, g)
  IN  /\ g \in (Accounts \ Privileged) \ online
      /\ prioritySize < MaxSize
      /\ \/ /\ priorityWaitList = << >> /\ waitList = << >>
            /\ Cardinality(online) < MaxPlayers
            /\ LetIn(g)
            /\ UNCHANGED <<priorityWaitList, waitList, prioritySize, waitSize, cleaned>>
         \/ /\ ~(priorityWaitList = << >> /\ waitList = << >>
                 /\ Cardinality(online) < MaxPlayers)
            /\ cleaned' = now
            /\ \/ \E slot \in found :
                    /\ Cardinality(online) + slot <= MaxPlayers
                    /\ priorityWaitList' = Without(lists[1], g)
                    /\ waitList' = Without(lists[2], g)
                    /\ prioritySize' = sizes[1]
                    /\ waitSize' = (sizes[2] + Word - 1) % Word
                    /\ LetIn(g)
               \/ \E slot \in found :
                    /\ Cardinality(online) + slot > MaxPlayers
                    /\ priorityWaitList' = Prolonged(lists[1], g, now + GetTimeout(slot))
                    /\ waitList' = Prolonged(lists[2], g, now + GetTimeout(slot))
                    /\ prioritySize' = sizes[1] /\ waitSize' = sizes[2]
                    /\ UNCHANGED online
               \/ /\ found = {} /\ premium
                  /\ priorityWaitList' = Enlist(lists[1],
                       [timeout |-> now + GetTimeout(sizes[1] + 1), playerGUID |-> g])
                  /\ prioritySize' = sizes[1] + 1
                  /\ waitList' = lists[2] /\ waitSize' = sizes[2]
                  /\ UNCHANGED online
               \/ /\ found = {} /\ ~premium
                  /\ waitList' = Enlist(lists[2],
                       [timeout |-> now + GetTimeout(((sizes[1] + sizes[2]) % Word) + 1),
                        playerGUID |-> g])
                  /\ waitSize' = (sizes[2] + 1) % Word
                  /\ priorityWaitList' = lists[1] /\ prioritySize' = sizes[1]
                  /\ UNCHANGED online
      /\ UNCHANGED now

Leave(g) ==
  /\ g \in online
  /\ online' = online \ {g}
  /\ UNCHANGED <<priorityWaitList, waitList, prioritySize, waitSize, now, cleaned>>

Pass ==
  /\ \E d \in Delays : now + d <= MaxTime /\ now' = now + d
  /\ UNCHANGED <<priorityWaitList, waitList, prioritySize, waitSize, online, cleaned>>

Next ==
  \/ \E g \in Accounts :
       AlwaysLogin(g) \/ Leave(g) \/ \E premium \in BOOLEAN : ClientLogin(g, premium)
  \/ Pass

Spec == Init /\ [][Next]_vars

-----------------------------------------------------------------------------
Queue == priorityWaitList \o waitList
Names == {Queue[i].playerGUID : i \in DOMAIN Queue}

(* Besides the types: nobody waits twice or while he plays, and the sum of *)
(* the two sizes, from which positions are computed, is right although an  *)
(* entry erased from the first list is counted off the second.             *)
TypeOK ==
  /\ priorityWaitList \in Seq(Wait) /\ waitList \in Seq(Wait)
  /\ prioritySize \in Nat /\ waitSize \in 0 .. Word - 1
  /\ online \subseteq Accounts /\ now \in 0 .. MaxTime /\ cleaned \in 0 .. now
  /\ Cardinality(Names) = Len(Queue) /\ Names \cap online = {}
  /\ (prioritySize + waitSize) % Word = Len(Queue)

(* Whoever is let in from the queue leaves a free place for each of those  *)
(* who wait before him.                                                    *)
PlacesAheadKept ==
  \A i \in DOMAIN Queue :
    Queue[i].playerGUID \in online' \ online =>
      Cardinality(online') + Cardinality({j \in 1 .. i - 1 :
        Queue[j].playerGUID \in Names'}) <= MaxPlayers

(* Who comes back in time keeps his place before those who came later to   *)
(* the same list.                                                          *)
Before(list, g, h) ==
  \E i, j \in DOMAIN list : i < j /\ list[i].playerGUID = g /\ list[j].playerGUID = h

KeepsOrder(old, new) ==
  \A i, j \in DOMAIN old :
    LET g == old[i].playerGUID  h == old[j].playerGUID
    IN  /\ i < j /\ old[i].timeout > now
        /\ {g, h} \subseteq {new[k].playerGUID : k \in DOMAIN new}
        => Before(new, g, h)

OrderKept ==
  KeepsOrder(priorityWaitList, priorityWaitList') /\ KeepsOrder(waitList, waitList')

(* waitlist.cpp:59: an entry lives 15 seconds longer than the time after   *)
(* which its client is told to try again; the next cleanup drops it then.  *)
ExpiredAreDropped == \A i \in DOMAIN Queue : Queue[i].timeout > cleaned
=============================================================================
