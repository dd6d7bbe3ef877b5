------------------------------ MODULE PlayerStore ------------------------------
(***************************************************************************)
(* What the database keeps of a player's things: savePlayer and saveItems, *)
(* loadPlayer and loadItems (iologindata.cpp), the attributes of an item   *)
(* (item.cpp), transactions and lost connections (database.cpp), and those *)
(* who load and save: login, logout, the saving of the world, the mailbox  *)
(* and the bed, the latter two for players who are not there.              *)
(*                                                                         *)
(* A thing is a tree: its name, whether it decays, and what is in it.  A   *)
(* save goes statement by statement.  Nothing else happens in the game     *)
(* meanwhile, but a statement may fail, the connection may be lost, and    *)
(* the process may die.                                                    *)
(***************************************************************************)
EXTENDS Integers, Sequences, SequencesExt, FiniteSets

CONSTANTS
  Players, Items,
  Bags,         \* the items that are containers
  Parcels,      \* the containers that the mailbox takes
  Torches,      \* the items that decay
  Slots,        \* inventory slots, numbers from 1 to 10
  Depot,        \* the id of the only depot, below 100
  MaxFaults     \* bound: failed statements, lost connections and crashes

PlayerStoreAssumption ==
  /\ Parcels \subseteq Bags /\ Bags \subseteq Items /\ Torches \subseteq Items
  /\ Slots \subseteq 1 .. 10 /\ Depot \in 0 .. 99 /\ MaxFaults \in Nat

FirstId == 100          \* runningId: what is below is a place, not a parent
MaxTries == 3           \* of a logout
Inbox == 0              \* the pid of what lies in the inbox

VARIABLES
  body,      \* the Player object of each who is online, or NoPlayer
  ground,    \* the one square on which things are handed over: a sequence
  db,        \* the committed rows
  job,       \* the save that goes on, or Idle
  kept,      \* history: what each had when he was last saved
  torn,      \* history: whose save lost its transaction
  faults

vars == <<body, ground, db, job, kept, torn, faults>>

NoPlayer == [slot |-> [s \in Slots |-> <<>>], depot |-> <<>>, inbox |-> <<>>, seen |-> FALSE, here |-> FALSE]
Idle == [for |-> "nothing"]
Busy == job # Idle

-----------------------------------------------------------------------------
(* What serializeAttr writes and readAttr makes of it: what decays is      *)
(* pending afterwards.                                                     *)
Written(t) == t.decay
Read(decay) == IF decay = "no" THEN "no" ELSE "pending"

(* saveItems: one row for each thing, those in the list first, then        *)
(* container by container what is in it.                                   *)
Rows(list, pids, id) ==
  {[pid |-> pids[k], sid |-> id + k, name |-> list[k].name, decay |-> Written(list[k])] : k \in DOMAIN list}

Queued(list, id) ==
  LET entries == [k \in DOMAIN list |-> [tree |-> list[k], id |-> id + k]]
      Holds(e) == e.tree.name \in Bags
  IN  SelectSeq(entries, Holds)

RECURSIVE Drained(_, _, _)
Drained(rows, queue, id) ==
  IF queue = <<>> THEN rows
  ELSE LET inner == Head(queue).tree.content
           parents == [k \in DOMAIN inner |-> Head(queue).id]
       IN  Drained(rows \union Rows(inner, parents, id), Tail(queue) \o Queued(inner, id), id + Len(inner))

SaveItems(list, pids) ==
  Drained(Rows(list, pids, FirstId), Queued(list, FirstId), FirstId + Len(list))

(* The three lists that savePlayer hands over.                             *)
Filled(b) == SelectSeq(SetToSortSeq(Slots, <), LAMBDA s : b.slot[s] # <<>>)
Worn(b) == FoldLeft(LAMBDA list, s : list \o b.slot[s], <<>>, SetToSortSeq(Slots, <))
Inventory(b) == SaveItems(Worn(b), Filled(b))
DepotRows(b) == SaveItems(b.depot, [k \in DOMAIN b.depot |-> Depot])
InboxRows(b) == SaveItems(b.inbox, [k \in DOMAIN b.inbox |-> Inbox])

-----------------------------------------------------------------------------
(* loadItems and the loops of loadPlayer: from the last row to the first,  *)
(* each thing is put in front of its container, or of the list it is in.   *)
Put(rows, s, acc) ==
  LET row == CHOOSE r \in rows : r.sid = s
      tree == [name |-> row.name, decay |-> Read(row.decay), content |-> acc.inside[s]]
  IN  IF row.pid < FirstId
      THEN [acc EXCEPT !.top = <<[pid |-> row.pid, tree |-> tree]>> \o @]
      ELSE IF \E r \in rows : r.sid = row.pid /\ r.name \in Bags
      THEN [acc EXCEPT !.inside[row.pid] = <<tree>> \o @] ELSE acc

RECURSIVE Loaded(_, _, _)
Loaded(rows, s, acc) ==
  IF s = FirstId THEN acc.top
  ELSE Loaded(rows, s - 1, IF \E r \in rows : r.sid = s THEN Put(rows, s, acc) ELSE acc)

LoadItems(rows) ==
  LET last == FirstId + Cardinality(rows)
  IN  Loaded(rows, last, [top |-> <<>>, inside |-> [s \in FirstId .. last |-> <<>>]])

RECURSIVE Trees(_)
Trees(top) == IF top = <<>> THEN <<>> ELSE <<Head(top).tree>> \o Trees(Tail(top))

(* Player::internalAddThing: a slot that is taken takes nothing more; the  *)
(* last row is put first.                                                  *)
Equipped(top) ==
  [s \in Slots |-> LET mine == SelectSeq(top, LAMBDA e : e.pid = s)
                   IN  IF mine = <<>> THEN <<>> ELSE <<mine[Len(mine)].tree>>]

LoadPlayer(rows) ==
  [slot |-> Equipped(LoadItems(rows.items)), depot |-> Trees(LoadItems(rows.depot)),
   inbox |-> Trees(LoadItems(rows.inbox)), seen |-> FALSE, here |-> TRUE]

(* onCreatureAppear: what is worn, and what is in it, decays on.           *)
RECURSIVE StartDecaying(_)
StartDecaying(list) ==
  IF list = <<>> THEN <<>>
  ELSE <<[Head(list) EXCEPT !.decay = IF @ = "pending" THEN "running" ELSE @,
                            !.content = StartDecaying(@)]>> \o StartDecaying(Tail(list))

Appeared(b) == [b EXCEPT !.slot = [s \in Slots |-> StartDecaying(@[s])]]

-----------------------------------------------------------------------------
(* savePlayer, statement by statement.  The depot is written only if it    *)
(* was opened since the login.                                             *)
Statements(b) ==
  <<"row", "dropItems", "addItems">>
  \o (IF b.seen THEN <<"dropDepot", "addDepot">> ELSE <<>>)
  \o <<"dropInbox", "addInbox", "rest">>

After(rows, b, statement) ==
  CASE statement = "dropItems" -> [rows EXCEPT !.items = {}]
    [] statement = "addItems" -> [rows EXCEPT !.items = @ \union Inventory(b)]
    [] statement = "dropDepot" -> [rows EXCEPT !.depot = {}]
    [] statement = "addDepot" -> [rows EXCEPT !.depot = @ \union DepotRows(b)]
    [] statement = "dropInbox" -> [rows EXCEPT !.inbox = {}]
    [] statement = "addInbox" -> [rows EXCEPT !.inbox = @ \union InboxRows(b)]
    [] OTHER -> rows

(* The unique keys of the two tables that have one.                        *)
Ids(rows) == {r.sid : r \in rows}
Refused(rows, b, statement) ==
  \/ statement = "addDepot" /\ Ids(rows.depot) \intersect Ids(DepotRows(b)) # {}
  \/ statement = "addInbox" /\ Ids(rows.inbox) \intersect Ids(InboxRows(b)) # {}

(* beginTransaction; a save that begins has the rows as they are.          *)
Begun(for, p, b, todo, tries) ==
  [for |-> for, who |-> p, body |-> b, todo |-> todo, tries |-> tries,
   left |-> Statements(b), open |-> TRUE, rows |-> db[p]]

(* What follows a save of j.who: the next try, the next player, or nothing.*)
Ended(j, saved) ==
  /\ \/ /\ j.for = "logout" /\ ~saved /\ j.tries < MaxTries
        /\ job' = Begun("logout", j.who, j.body, <<>>, j.tries + 1)
        /\ body' = body
     \/ /\ j.for = "logout" /\ (saved \/ j.tries = MaxTries)
        /\ job' = Idle /\ body' = [body EXCEPT ![j.who] = NoPlayer]
     \/ /\ j.for = "world" /\ j.todo # <<>>
        /\ job' = Begun("world", Head(j.todo), body[Head(j.todo)], Tail(j.todo), 1)
        /\ body' = body
     \/ /\ j.for = "absent" \/ (j.for = "world" /\ j.todo = <<>>)
        /\ job' = Idle /\ body' = body
  /\ UNCHANGED ground

RECURSIVE Waiting(_)
Waiting(list) ==
  IF list = <<>> THEN <<>>
  ELSE <<[Head(list) EXCEPT !.decay = Read(@), !.content = Waiting(@)]>> \o Waiting(Tail(list))

Had(b) ==
  [slot |-> [s \in Slots |-> Waiting(b.slot[s])], depot |-> Waiting(b.depot), inbox |-> Waiting(b.inbox)]

(* Inside the transaction a statement changes what will be committed;      *)
(* after the connection was lost, it changes the rows at once.             *)
Statement ==
  /\ Busy /\ job.left # <<>> /\ ~Refused(job.rows, job.body, Head(job.left))
  /\ LET rows == After(job.rows, job.body, Head(job.left))
     IN  /\ job' = [job EXCEPT !.rows = rows, !.left = Tail(@)]
         /\ db' = IF job.open THEN db ELSE [db EXCEPT ![job.who] = rows]
  /\ UNCHANGED <<body, ground, kept, torn, faults>>

Commit ==
  /\ Busy /\ job.left = <<>>
  /\ db' = [db EXCEPT ![job.who] = job.rows]
  /\ kept' = [kept EXCEPT ![job.who] = Had(job.body)]
  /\ torn' = IF job.open THEN torn \ {job.who} ELSE torn
  /\ Ended(job, TRUE)
  /\ UNCHANGED faults

(* A statement fails: savePlayer returns, and the destructor rolls back    *)
(* what is still in the transaction.                                       *)
RollBack ==
  /\ Busy
  /\ \/ job.left # <<>> /\ Refused(job.rows, job.body, Head(job.left)) /\ UNCHANGED faults
     \/ faults < MaxFaults /\ faults' = faults + 1
  /\ Ended(job, FALSE)
  /\ UNCHANGED <<db, kept, torn>>

(* executeQuery waits and repeats the statement on a new connection.  What *)
(* the old one had not committed is gone, and there is no transaction.     *)
LoseConnection ==
  /\ Busy /\ job.open /\ job.left # <<>> /\ faults < MaxFaults
  /\ faults' = faults + 1
  /\ job' = [job EXCEPT !.open = FALSE, !.rows = db[job.who]]
  /\ torn' = torn \union {job.who}
  /\ UNCHANGED <<body, ground, db, kept>>

(* The process dies, or is killed.                                         *)
Crash ==
  /\ faults < MaxFaults /\ faults' = faults + 1
  /\ body' = [p \in Players |-> NoPlayer] /\ ground' = <<>> /\ job' = Idle
  /\ UNCHANGED <<db, kept, torn>>

-----------------------------------------------------------------------------
(* Who loads and saves.                                                    *)
Login(p) ==
  /\ ~Busy /\ ~body[p].here /\ p \notin torn
  /\ body' = [body EXCEPT ![p] = Appeared(LoadPlayer(db[p]))]
  /\ UNCHANGED <<ground, db, job, kept, torn, faults>>

Logout(p) ==
  /\ ~Busy /\ body[p].here
  /\ job' = Begun("logout", p, body[p], <<>>, 1)
  /\ UNCHANGED <<body, ground, db, kept, torn, faults>>

SaveGameState ==
  /\ ~Busy /\ \E p \in Players : body[p].here
  /\ \E order \in SetToAllKPermutations({p \in Players : body[p].here}) :
       /\ Len(order) = Cardinality({p \in Players : body[p].here})
       /\ job' = Begun("world", order[1], body[order[1]], Tail(order), 1)
  /\ UNCHANGED <<body, ground, db, kept, torn, faults>>

(* BedItem::wakeUp, for a sleeper who is not there.                        *)
WakeAbsent(p) ==
  /\ ~Busy /\ ~body[p].here /\ p \notin torn
  /\ job' = Begun("absent", p, LoadPlayer(db[p]), <<>>, 1)
  /\ UNCHANGED <<body, ground, db, kept, torn, faults>>

-----------------------------------------------------------------------------
(* What players do between saves: a thing in a place is taken out and put  *)
(* elsewhere, to the front of what holds more than one.                    *)
Without(list, k) == RemoveAt(list, k)

(* The things that p reaches, each with the player without it.             *)
FromBag(t, k) == [t EXCEPT !.content = Without(@, k)]
Takings(b) ==
  UNION {UNION {{[tree |-> b.slot[s][1], left |-> [b EXCEPT !.slot[s] = <<>>]]}
                \union {[tree |-> b.slot[s][1].content[k], left |-> [b EXCEPT !.slot[s][1] = FromBag(@, k)]] :
                        k \in DOMAIN b.slot[s][1].content} : x \in DOMAIN b.slot[s]} : s \in Slots}
  \union (IF b.seen THEN {[tree |-> b.depot[k], left |-> [b EXCEPT !.depot = Without(@, k)]] : k \in DOMAIN b.depot}
                         \union {[tree |-> b.inbox[k], left |-> [b EXCEPT !.inbox = Without(@, k)]] : k \in DOMAIN b.inbox}
          ELSE {})

Puttings(b, t) ==
  {[b EXCEPT !.slot[s] = <<t>>] : s \in {s \in Slots : b.slot[s] = <<>>}}
  \union {[b EXCEPT !.slot[s][1].content = <<t>> \o @] :
            s \in {s \in Slots : b.slot[s] # <<>> /\ b.slot[s][1].name \in Bags}}
  \union (IF b.seen THEN {[b EXCEPT !.depot = <<t>> \o @]} ELSE {})

Move(p) ==
  /\ ~Busy /\ body[p].here
  /\ \E x \in Takings(body[p]) : \E b \in Puttings(x.left, x.tree) :
       body' = [body EXCEPT ![p] = b] /\ b # body[p]
  /\ UNCHANGED <<ground, db, job, kept, torn, faults>>

Drop(p) ==
  /\ ~Busy /\ body[p].here /\ ground = <<>>
  /\ \E x \in Takings(body[p]) :
       body' = [body EXCEPT ![p] = x.left] /\ ground' = <<x.tree>>
  /\ UNCHANGED <<db, job, kept, torn, faults>>

PickUp(p) ==
  /\ ~Busy /\ body[p].here /\ ground # <<>>
  /\ \E b \in Puttings(body[p], ground[1]) : body' = [body EXCEPT ![p] = b]
  /\ ground' = <<>>
  /\ UNCHANGED <<db, job, kept, torn, faults>>

(* The depot is opened: setLastDepotId, and the inbox hangs in the locker. *)
OpenDepot(p) ==
  /\ ~Busy /\ body[p].here /\ ~body[p].seen
  /\ body' = [body EXCEPT ![p].seen = TRUE]
  /\ UNCHANGED <<ground, db, job, kept, torn, faults>>

(* A torch in a slot is lit.                                               *)
Light(p) ==
  /\ ~Busy /\ body[p].here
  /\ \E s \in Slots :
       /\ body[p].slot[s] # <<>> /\ body[p].slot[s][1].name \in Torches /\ body[p].slot[s][1].decay = "no"
       /\ body' = [body EXCEPT ![p].slot[s][1].decay = "running"]
  /\ UNCHANGED <<ground, db, job, kept, torn, faults>>

(* Mailbox::sendItem: to one who is online at once; to another by loading  *)
(* and saving him, and what comes of the save is not looked at.            *)
Mail(p, q) ==
  /\ ~Busy /\ body[p].here
  /\ \E x \in Takings(body[p]) :
       /\ x.tree.name \in Parcels
       /\ LET left == [body EXCEPT ![p] = x.left]
          IN  \/ /\ body[q].here /\ job' = job
                 /\ body' = [left EXCEPT ![q].inbox = <<x.tree>> \o @]
              \/ /\ ~body[q].here /\ q \notin torn /\ body' = left
                 /\ LET tmp == LoadPlayer(db[q])
                    IN  job' = Begun("absent", q, [tmp EXCEPT !.inbox = <<x.tree>> \o @], <<>>, 1)
  /\ UNCHANGED <<ground, db, kept, torn, faults>>

(* Everyone begins with what start says.                                   *)
InitWith(start) ==
  /\ body = [p \in Players |-> NoPlayer] /\ ground = <<>> /\ job = Idle
  /\ db = [p \in Players |-> [items |-> Inventory(start[p]), depot |-> DepotRows(start[p]), inbox |-> InboxRows(start[p])]]
  /\ kept = [p \in Players |-> Had(start[p])]
  /\ torn = {} /\ faults = 0

Next ==
  \/ \E p \in Players : \/ Login(p) \/ Logout(p) \/ WakeAbsent(p)
                        \/ Move(p) \/ Drop(p) \/ PickUp(p) \/ OpenDepot(p) \/ Light(p)
                        \/ \E q \in Players : Mail(p, q)
  \/ SaveGameState \/ Statement \/ Commit \/ RollBack \/ LoseConnection \/ Crash

-----------------------------------------------------------------------------
(* What a restart would give a player is what he had when he was last      *)
(* saved, with the order and the nesting of all his things: whatever       *)
(* failed or died since, unless a save of his lost its transaction.        *)
StoredWhole ==
  \A p \in Players \ torn : Had(LoadPlayer(db[p])) = kept[p]

(* How often a thing exists: with those who are online, on the ground, in  *)
(* the save of an absent player, and in the rows of all others.            *)
RECURSIVE Census(_, _)
Census(list, n) ==
  IF list = <<>> THEN n
  ELSE Census(Tail(list), Census(Head(list).content, [n EXCEPT ![Head(list).name] = @ + 1]))

Current(p) ==
  IF body[p].here THEN body[p]
  ELSE IF Busy /\ job.who = p THEN job.body ELSE LoadPlayer(db[p])

Holding(b) == Worn(b) \o b.depot \o b.inbox
World ==
  FoldSet(LAMBDA p, n : Census(Holding(Current(p)), n), Census(ground, [i \in Items |-> 0]), Players)

(* A login, a logout, a mail and a save neither lose nor double a thing,   *)
(* unless the save is given up or goes on without its transaction.         *)
GivenUp == faults' # faults /\ job' = Idle
NothingLostOrDoubled ==
  torn' = {} /\ ~GivenUp => World' = World

(* What decays goes on decaying in the hands of its owner: what he wears   *)
(* is never left waiting by a login.                                       *)
DecaysOn ==
  \A p \in Players : ~body[p].here /\ body'[p].here =>
    \A s \in Slots : \A k \in DOMAIN body'[p].slot[s] :
      LET t == body'[p].slot[s][k] IN t.decay # "pending" /\ \A n \in DOMAIN t.content : t.content[n].decay # "pending"
=============================================================================
