# A verification project for the Eldor Realms game server

The repository is a multiplayer game server in C++ (a descendant of The
Forgotten Server) with a data pack of Lua scripts and XML tables. This directory
holds TLA+ modules that model its core, TLC configurations that check them on
small instances, and theorems that TLAPS proves for every instance. `PROJECT.json`
lists for each definition the lines of source it stands for, for each property
the hazard it is about and a plausible bug it would catch.

All source paths below are relative to the repository; the program is in
`src/src`.

## 1. Inventory

### 1.1 Threads

Four threads run in the process, and everything else is decided by which of them
touches what:

| thread | code | state it owns | what it does |
|---|---|---|---|
| main, later the I/O thread | `otserv.cpp`, `server.cpp`, `connection.cpp`, `signals.cpp` | sockets, connections | starts the others, waits for the load, then runs `io_service`: accepts, reads, writes, turns signals and packets into tasks |
| dispatcher | `tasks.cpp` | **the whole game world** | runs tasks one at a time; no game object is locked because only tasks touch it |
| scheduler | `scheduler.cpp` | the queue of timed events | pushes a due event *in front of* the dispatcher's list |
| database | `databasetasks.cpp` | a second database connection | runs asynchronous queries; their callbacks become tasks |

They share the dispatcher's list, the scheduler's queue, the query list (a mutex
and a condition variable each), an atomic state per thread, and some plain
variables: the game state is written by the dispatcher and read by the I/O
thread, a connection's message queue is filled by one and drained by the other,
and a protocol's `player` is cleared by one while the other parses for it.

### 1.2 Components

| component | state | operations | hard because |
|---|---|---|---|
| Dispatcher | list of tasks, thread state | `addTask` (back or front), `shutdown`, run | notification outside the lock; the stop and the poison task |
| Scheduler | priority queue, active ids, thread state | `addEvent`, `stopEvent`, `shutdown`, timed wait | the queue changes between the timeout and the pop; id wrap-around; cancellation races |
| Database queue | list of queries, thread state | `addTask`, `flush`, `shutdown`, run | two threads drain one list |
| Lifecycle | game state, services, the four threads' states | load, `setGameState`, `saveGameState`, `shutdown`, signals | order of stops, shutdowns and joins against everything still queued |
| Session (`ProtocolGame`) | player, accept flag, pending connect event | first message, login, replace, connect, logout, release | a login crosses two threads and a delay of one second |
| Connection, output pool | socket, message queue, timers; autosend list | send, write done, close, force close, time out | closing while writing |
| Waiting list | two lists of waiting clients | `clientLogin`, `cleanupList` | positions, timeouts, two lists |
| Party | member and invite lists, leader; each player's party pointer and invitations | invite, join, revoke, pass, leave, disband, shared experience | two sides of every pointer; the object deletes itself |
| Trade | partner pointers, states, item references | request, accept, close | two actors, items that move meanwhile |
| Creature lists | check lists, reference counts, release lists | place, remove, check, clean up | deferred deletion |
| Decay | four buckets | start, check, clean up | bucket arithmetic |
| Market | offers, history, money and goods of players in the game and away | create, cancel, accept, expire | an asynchronous query whose answer is old when it comes; steps that fail |
| Houses, beds | owners, lists, sleepers, deeds, rents, and their copies in the database | buy, invite, sleep, trade, save | saved apart from the players; a stop between two saves |
| Chat, guilds | users and invitations of channels, members | open, close, invite, join, leave | found by what a player belongs to now |
| Items | slots, containers, tiles; what clients are shown of them | move, add, remove, exchange | partial moves, nesting, weights; indices counted by two sides |
| Creatures, monsters | lists of friends and targets, walks, caches of tiles | see, chase, step, sleep | callbacks that call each other; events that re-add themselves |
| Conditions | lists of conditions, sums of what they change | add, merge, tick, end, store | deferred ends; clock and rounds apart |
| Combat | damage owed, marks, skulls, frags | strike, poison, die | who began it; death comes a check later |
| Spawns, raids | places with last times, the running raid | check, start, reload | chains of events that must not break |
| Map | quadtree, caches of spectators, paths | search | caches that must be cleared in time |
| Storage of players | rows of things | save, load | faults between two statements |
| Scripting bridge | stack of environments, registers of events, timers | call, reload, time out | nesting, failed calls, reloads under way |
| Loaders, parsers, bindings, data pack | large data | lookups, parsing | outside the reach of model checking |

Interactions: the I/O thread hands packets to the dispatcher as tasks; tasks add
events to the scheduler and queries to the database queue; both hand tasks back.
The game's components call each other directly inside one task. `Player` is the
hub: removing a creature from the game closes its trade and its shop, clears its
invitations, makes it leave its party, its channels and its guild, and saves it.

### 1.3 What correctness means here

- Dispatcher: no lost wakeup, each task once, in order; shutdown ends the thread.
- Scheduler: not early, not missed, not after a successful stop; ids identify.
- Database queue: each query once; nothing left behind, nothing forgotten.
- Lifecycle: SHUTDOWN is final; nothing runs in a world that was torn down; every
  accepted query and task is executed before the process ends; it does end.
- Party: the two sides of membership and of invitation agree; no empty party; a
  player who left is forgotten; shared experience follows eligibility.
- Session: at most one client per character, never taken from another; every
  reference given back once; every login answered; a closed connection dies.
- Trade: two partners or none; what was offered is what is exchanged, both or none.
- Waiting list: places and order are kept; who gave up is forgotten.
- Market, items, storage: nothing is lost or doubled, whatever fails.
- Houses, chat: who belongs is let in, who does not is not, also after a restart.
- Creatures, walks, spawns, raids, scripts: what should go on goes on, once.
- Conditions, combat: what is given is what is taken back; who is blamed began it.
- Views, map: what a client is shown, and what a search finds, is what is there.

The hazards in `PROJECT.json` give each of these its line.

## 2. Plan

| order | module | state |
|---|---|---|
| 1 | `Dispatcher`, `DispatcherProofs` | done |
| 2 | `Scheduler`, `SchedulerProofs` | done |
| 3 | `DatabaseTasks` | done |
| 4 | `Server` (instances of 1-3, lifecycle, logins, saving) | done for a load that succeeds |
| 5 | `Party` | done |
| 6 | the theorems of `Party` | done |
| 7 | `DatabaseTasksProofs` | done |
| 8 | `WaitingList`: the two lists, their ages, the slot a client is told | done |
| 9 | `Trade`: request, accept, close, with items that move meanwhile | done |
| 10 | `Session`: login, replacement, connect, logout, release; message queue and closing; autosend | done |
| 11 | `Creatures`, `Decay`: deferred release, buckets | done |
| 12 | `ItemMoves`, `Windows`, `TileView`: containers, slots, tiles and what is shown of them | done |
| 13 | `Market`, `Houses`, `Chat`: several steps, some of which fail | done |
| 14 | `Modifiers`, `Effects`, `Walk`, `Combat`, `Spawns`, `Raids` | done |
| 15 | `Spectators`, `Paths`, `Steps`: the map | done |
| 16 | `PlayerStore`: what is stored of a player, with faults | done |
| 17 | `Scripts`, `ScriptEvents`: calls and registers of scripts | done |
| 18 | `SessionProofs`, `ServerProofs`, `PlayersProofs`, `RealmProofs` (with those of `Party`), `CreaturesProofs`; ids in `SchedulerProofs` | done |
| 19 | `Startup`: the load that fails, the handshake of main and loader | planned |
| 20 | shops of NPCs, the casting of spells, VIP list, `WildcardTree` | planned |

Abstract specifications worth stating: a queue that serves each accepted element
once and in order (for 1 and 3); an alarm clock (for 2); a character as
a resource that one client holds at a time (for 9); a trade as one atomic exchange.

Theorems worth proving next: the places of `Spawns`; who may be where in `Houses` and `Chat`.

## 3. The modules

### `Dispatcher`

`taskList` is the list, `dState` the thread state, `dpc` the place of the worker
in `threadMain`, `task` what it has in hand. `AddTask` is the critical section of
`addTask`; a thread that found the list empty is in `signalling` until `Signal`,
its `notify_one`, which the code calls after the unlock. `Shutdown` is one step
because it notifies under the lock. `Check` reads the atomic state outside the
lock; `LockAndTake` pops or waits; `Wakened` is the return of the wait, after a
notification or spuriously; `StartTask`/`DropExpired` is the test of the expiry,
`FinishTask` the end of the body. `status`, `ticket` and `lastTicket` are history.

### `Scheduler`

The priority queue is a set of events with due times: `Tops` are the ones that
may be on top, since the comparator leaves ties open. `spc` distinguishes the
wait on an empty queue from the timed wait, and how the wait returned, because the
code pops only after a timeout. Every event gets its id from `NextId`, with the
wrap-around; the counter starts anywhere. `Scheduler::shutdown` is three steps:
state without the lock, clearing under it, notification after it.

### `DatabaseTasks`

Two threads run queries, each with one in `hand`: the thread itself (`bpc`) and
the flusher (`fpc`), which is the dispatcher in the server. `Execute` is the query,
`FinishRun` the hand-over of its callback.

### `Server`

Instances of the three (`D`, `S`, `B`), with their variables. `mpc` is the counter
of main and then of the I/O thread, `body` that of the task body the dispatcher
runs. Bodies: the loader; periodic events, each of which schedules a successor and
may query the database; logins; saving (SIGUSR1); SIGINT and SIGTERM
(`setGameState(GAME_STATE_SHUTDOWN)` up to the stops); `Game::shutdown`; callbacks;
the poison. `Returned` keeps a thread inside `addTask` until it has notified.

### `Party`

`group` is the membership as one record, so that each function of `party.cpp` is
an operator from record to record (`Created`, `Invited`, `InviteRemoved`, `Joined`,
`Passed`, `Left`, `Disbanded`, and `Cleared` for
`Player::clearPartyInvitations`), composed by the handlers as the calls are in
C++. A party is an address: a new party may get a deleted one's. `shared` holds
the shared experience: switches, cached eligibility, ticks (fresh or stale
instead of a time), and the set of players whose level and position qualify.

### `Session`

One element of `Connections` is a `Connection` with its `ProtocolGame`. `link` is
the connection: `state`, whether the `ConnectionManager` lists it, whether its
socket is open, the outstanding read and write (each holds the object by a shared
pointer) and the message queue. `protocol` is the `ProtocolGame`, `body` the
`Player` objects of the one character, with their reference counters. The actions
up to `Timeout` are handlers of the I/O thread, each of which runs under
`connectionLock`. `Run` is the head of the dispatcher's list; `ConnectEvent`,
`SendAll`, `Kick`, `PingTimeout`, `Die`, `Update` and `Cleanup` are reached through
scheduled events or by what happens in the game, and so may come at any moment. A header and its body
are one read. All characters but one, the contents of messages, and everything a
packet does beyond the session are abstracted away. Each login uses a connection
of its own, as in the code: `receivedFirst` is never reset.

### `Trade`

`trade` is the three trade fields of a `Player`, `tradeItems` the map of `Game`,
`parent` the tree of items and `at` the positions, on a line, because only the
distances 1 and 2 matter. `Around(i)` is the way up from an item, which
`isHoldingItem` walks; it is written as the least set that the way up stays in, so
that the proofs can reason about it at any depth. `MoveItem` is any successful `internalMoveItem` or
`internalRemoveItem`; `Closers` are the players whose callbacks
(`onRemoveTileItem`, `onRemoveContainerItem`, `onRemoveInventoryItem`,
`onAddContainerItem`) close their trade, each tested as its callback tests it and
notified only if the code notifies him. `Transfer` is the part of
`playerAcceptTrade` after both have accepted, with the two moves and the ways in
which they can fail.

### `WaitingList`

`ClientLogin` is `clientLogin`, with its early return, the cleanup, the search and
the four outcomes; whether the account is premium may change from call to call.
`Expired` computes the age without a sign, as the code does. `prioritySize` and
`waitSize` are what `size()` returns: erasing an element of one list through the
other is undefined behaviour, and with libstdc++ it unlinks the node and counts the
wrong list down; `empty()` looks at the nodes. `cleaned` is history.

### `Market`

`bank` and `stock` are what a player has, in the game or, of a player who is away,
in the database; `offers` and `history` are the two tables, `query` and `results`
the asynchronous query for expired offers and its callback. `Create`, `Cancel`,
`Accept` and the callback's `ProcessExpired` are whole handlers, with the answer of
each database call.

### `Creatures`, `Spawns`, `Raids`

`Creatures` has one record for each creature: its place, its lists of friends and
targets, master and summons, whom it attacks and follows, its reference counter and
its places in the lists of `Game`. An operator stands for each callback
(`onCreatureEnter`, `onCreatureLeave`, `onRemoveCreature`, `setIdle`, ...), and the
actions are the entries of `Game`: placing, removing, moving, checking, cleaning up.
`Spawns` is one `Spawn` with its `spawnedMap`, its places' last times and its check
event; `Raids` is the list of raids, the running one, the events the scheduler has for each
(the one that `nextEventEvent` names and the strays that nothing names any more), and the
reload that takes the list away from under it. An event that fires on a deleted raid is
undefined behaviour and is not followed.

### `ItemMoves`, `Decay`, `Windows`, `TileView`

`ItemMoves` models `internalMoveItem`, `internalAddItem` and `internalRemoveItem`
with the queries (`queryAdd`, `queryMaxCount`, `queryDestination`, `queryRemove`)
of a player's slots, of containers and of a tile as operators on one record of all
items. `Decay` is the four lists and the bucket that is visited, in milliseconds.
`Windows` holds what is in each container, which windows a player has open at which
page, and what his client was told; `TileView` the same for the things of a tile.
In both the client is a copy that only messages change, so that the property
compares two things which the code never compares.

### `Modifiers`, `Effects`, `Walk`

`Modifiers` is the list of conditions that change speed or health, with the events
that end them, and the sums that `varSpeed` and `varStats` hold. A condition is listed
(`getCondition`, `removeCondition`) until it is taken off, but known (`hasCondition`) only
while its `endTime` has not passed (`Lapse`). `Effects` is one
condition's time: its end by the clock and its rounds by counted checks, what a
second one of its type does to it, and what a logout stores of it; only a condition that
was constructed with ticks -1 (`endless`) has an end that never comes. `Walk` is the
list of steps, the walk events, the action that waits for the end of the walk, and
the attacked and followed creature. A player who has lost his speed (`slow`) walks on when
told to, since `getStepSpeed` is at least `PLAYER_MIN_SPEED`; only `setSpeed` looks at it.

### `Spectators`, `Paths`, `Steps`

The quadtree with its leaf links, the search through it and its two caches; the
search of a path with its open and closed nodes; the cache of walkable tiles around
a monster and the choice of its next step. Each is checked against a definition by
quantifiers: who is near, what the cheapest path is, what the tiles are.

### `Houses`, `Chat`, `Combat`

`Houses` holds owners, access lists, beds, deeds and rents in the game, and a second
copy of each in the database; saving the map, saving players and stopping are
actions. `Chat` holds the users and invitations of channels and the windows of the
clients, and the members of guilds. `Combat` has for each player his health, marks,
skulls and frags, for each attacked creature the damage it is owed for, and the
death that comes with the next check. `checkSkullTicks` narrows the time of the frags to an
`int32_t`: `NewTicks` leaves of more than `Countable` frags (24, with the default
`FRAG_TIME`) what the conversion may leave.

### `PlayerStore`

`db` is the rows of the table of items, `job` the statements a save still has to
send. Loading and saving go through parent ids as the code does (`SaveItems`,
`LoadItems`), and a fault is a statement that is refused, a connection that is lost
or a process that dies between two statements.

### `Scripts` and `ScriptEvents`

`Scripts` has the stack of script environments as an array and an index, and the
calls in progress as a sequence: that the two agree is a property. Each hook of the
server is a member of a table that says what a caller is told without a script,
without an environment and after an error. `ScriptEvents` is the register of
creature events with what a creature keeps of it (a bag: of its list only how often
each event is on it matters), the two chains of checks of
global events, and the timers of scripts; each is reloaded or stopped while others
still point to it.

### `MCServer`, `MCWorld`, `MCRealm` and `World*`

`MCServer` gives `Server` its constants. `MCWorld` and `MCRealm` run many small
instances in one run: `subject` says which part runs, the variables of the others
have no values, and so the state spaces add instead of multiplying. A `World*`
module instances the specifications, says what is explored of each, and evaluates
their assumptions: `WorldPlayers`, `WorldGoods`, `WorldCreatures` and `WorldMap`
for `MCWorld`, `WorldTown` (houses, chat) and `WorldWild` (spawns, raids,
fights) for `MCRealm`. What theorems are about and no module of its own runs, `Party`,
`Walk`, `Scripts`, `ScriptEvents` and `Trade`, `MCRealm` extends itself, and `WorldCreatures` extends
`Creatures`, so that their properties are those that the theorems name and the runs evaluate the
assumptions they have; this is why the names in the five modules of `MCRealm` do not overlap. The parts do not share state
because the components do not: where one component matters to another (a trade that a
moving item closes, a party that a logout ends) the module has that call as its action.

### `*Proofs`

A component's theorems are in the module of its name with `Proofs`, which extends
the component's module (`ServerProofs` also instances the three components again,
to cite their theorems); `PlayersProofs` has those of `Trade`
and `Combat`, and of `Market`, which it instances, after what is used of sums; `RealmProofs` has
those of `Walk`, `Scripts` and `ScriptEvents`, and of `Raids`, `Steps` and `Spectators`,
which it instances; see 6.

## 4. The runs

All bounds are in the `.cfg` files, the `MC` modules and the `World` modules.

| run | question | instance and why it is enough |
|---|---|---|
| `dispatcher` | lost wakeups, tasks in two places, order, service, end | 2 callers, the worker, 3 tasks and the poison: both callers can push while the worker is at any place, with one task in hand and one queued |
| `scheduler` | early, late, forgotten, cancelled and confused events | 2 callers, 2 events, ids 1-2 with wrap-around (the counter starts anywhere), delays up to 2, clock up to 3: a second, earlier or equal event can arrive at every place of the thread |
| `database_tasks` | two consumers: once, order, leftovers, service | 2 callers, 4 queries: one in each hand, two in the list |
| `server` | what may happen between the signal and the exit | one of each kind of input: an event, a login, a termination signal, a save, a query with callback |
| `server_live` | the signal is obeyed; the shutdown reaches the joins | two signals, an event and its successor, a query; no login and no save |
| `server_hang`, `server_online` | counterexamples, see 7 | |
| `realm` | membership and shared experience; trades; walks; calls, registers and timers of scripts; houses; chat and guilds; spawns and raids; fights | see below |
| `session` | clients, references, releases, autosend, closing | 2 connections and 2 `Player` objects: each race in the code is between two connections of one character (one attached, one that takes over) or between a connection and the game; `MaxQueue` = 1 lets the game write to a client whose queue is empty, which with the greeting and the farewell gives queues of 3 |
| `session_leak`, `waitlist_expired` | counterexamples, see 7 | 2 connections; 2 clients that want 1 place |
| `world` | waiting list, market, creatures, items, conditions, what clients show, the map | see below |

The subjects of `world`, each with its own bounds:

| subject | instance |
|---|---|
| `waiting` | 2 places, 3 ordinary clients and a gamemaster; timeouts that are met, missed and hit exactly, up to 5 who wait |
| `market` | 2 players, 2 offers, one expiry at a time that races acceptance, cancellation, login and logout |
| `decay` | 2 items of 4 types; a duration that is no multiple of a list's period |
| `creatures` | two monsters, one of which may be a summon, and a player, on three places of which two see each other |
| `equipment`, `stacks`, `exchange`, `purse`, `counter` | up to 8 items around one player, stacks of 2, bags of 2: full bags, stacks that are split and merged, items too heavy, two-handed weapons; in `stacks` nothing else moves while the bag is off the back |
| `modifiers`, `effects` | two conditions at a time of each kind, two levels, a mount; rounds of one, one and a half and two checks |
| `tiles`, `windows` | two items and two creatures on two tiles of which three things are shown; two windows with pages of one thing |
| `faults`, `nests`, `post` | two players, three things, up to three faults in a save |
| `links`, `caches`, `paths`, `limits`, `steps` | five squares in any order; all maps of nine tiles; monsters between two changing tiles |

And of `realm`:

| subject | instance |
|---|---|
| `party`, `sharing` | 3 players at 2 addresses (a leader, a member, an invitee, and a second party that invites them): who comes, goes, invites and joins; fights, ticks and levels are in `sharing`, which has one party |
| `trade`, `nested` | 3 players, a bag and coins, distances 1, 2 and 3; 2 players with a box besides, so that containers nest twice |
| `walk` | two targets of which one may be attacked and get out of sight, walks of two steps, one stopped event in the queue |
| `temporaries`, `queries` | two environments, three hooks of all ways, one refused call, one item or result |
| `register`, `globals`, `timers` | two creature events of two types; two intervals and a daily event up to the third date, one late reload; two timers |
| `beds`, `lists`, `deeds` | two beds of a house, with one thing in it; access lists and rents; two deeds and three players |
| `private`, `partychat`, `guild`, `vocation` | a channel of each sort, its owner and two others (two players for vocations) |
| `spawn`, `raid` | a spawn of two places; raids of which one may not be repeated and one is empty, two reloads |
| `duel`, `arena`, `murder` | mana shield against poison, of whom one may leave, with three frags of which an integer holds one; a third with a beast; a victim of two |

The bounds are small because what goes wrong
there takes two actors and a third who is affected. `MaxX` constants bound counters
only. Where a part is explored up to the first deviation that its property excepts,
its `World*` module says so.

`session`, `session_leak`, `realm`, `world` and `waitlist_expired` switch the deadlock
check off: all connections may be used up, nobody has to log in, and counters stop
at their bounds. `config.lua` is taken as it is: `replaceKickOnLogin` on,
`allowClones` off, `classicEquipmentSlots` on.

## 5. Fairness

Weak fairness is assumed of each thread's own steps: the operating system runs a
thread that can run, and task bodies, queries and callbacks return. Nobody is
obliged to call, to connect or to send a signal: liveness properties start from a
request that was accepted. The clock runs (weak fairness of `Tick`), and
`wait_until` returns once its time has come even if spurious wakeups interfere
(strong fairness of `Timeout`: each spurious wakeup leads back to a wait with the
same deadline). Mutexes are not modelled as fair locks: a critical section is one
action, so a thread that wants the lock gets it in the end, as every critical
section of these classes is short and takes no other lock.

In `Session` weak fairness is assumed of the dispatcher (`Run`), of scheduled
events (`SendAll`, `ConnectEvent`), of asio calling the read handler of a socket
that has been closed, and of a write that is outstanding: it completes or fails. The
last is an assumption about the peer, not about the code: after a close that is not
forced the write timer closes nothing any more (`connection.cpp:70`), and a peer
that neither reads nor goes away keeps the connection. Nothing is assumed of
incoming packets, of timeouts, or of what happens in the game.

## 6. Proofs

The theorems hold for any number of callers, tasks, events, queries, players,
parties, connections, items, creatures and steps, under the named assumption on the
constants of each module (that the sets are disjoint and the special values are no
members). Each `*Proofs` module has the same shape: the inductive invariant, lemmas on
the operators from which the actions are built, one lemma for each action or group of actions, and
`Invariance` (`NextSound` and `ScriptsStep` in `RealmProofs`, `FightsNext` for fights, `CreaturesInduction`), from which the theorems follow.

*Dispatcher.* The inductive invariant is the conjunction of the checked
invariants with the facts that relate history and state: tickets are numbered
without gaps up to `lastTicket`, tickets in the list are increasing, and a caller
that is signalling is one whose push found the list empty. `NoLostWakeup` needs
`OnePlace`: the list can become non-empty only by a push that saw it empty.

*Scheduler.* `NoOversleep` is inductive with `DeadlineStands` (a timed wait has
the deadline of an event that was on top) and `TimeoutIsDue`; `NeverEarly` follows
because a later insertion with an earlier time is itself due. Together they are
the checked `OnTime`; `EmptyAfterShutdown` is proved with them and not checked apart.
That ids identify events and that a stopped event never runs is true only as long as
no id is given out again while its former event is alive. The theorems assume that
there are no more events than ids (`FewEvents`): with 2^32 ids the code relies on the
same. From it follows `IdsNotReused`, which the proofs of `IdsStayApart` and
`StoppedStaysStopped` use: the ids given out are the youngest ones, `Age` counting back
from the counter through the wrap-around, so the next one is nobody's.

*Database queue.* Queries are numbered by arrival and the list is increasing
(`ArrivalsInOrder`), so the head that a thread takes is the oldest that is queued,
whichever thread it is. `QueueInv` is what concerns the queries: each of pushing,
taking and running keeps it (`QueuePush`, `QueueTake`, `QueueRun`), for either
runner. `NothingLeftBehind` needs two facts more: after `setState` the list is closed
(`ClosedForGood`), so a flush that has returned has left it empty (`FlushedOut`).

*Server.* The composition is shown to implement its parts: `ImplementsScheduler`,
`ImplementsDispatcher` and `ImplementsDatabaseTasks` say that each step of the four
threads is a step of the component or leaves it alone, so that the components'
theorems hold in the server (`ServerOnTime`, `ServerQueuesSound`). These refinements
need little invariant, mainly what is in whose hand when a thread calls another's queue.
`EndsClean` needs more, about the order in which things end (`ListOrder`, `Endings`).
The list of tasks has events in front (`EventsFirst`) and the poison last
(`PoisonLast`); `Game::shutdown`, which tears the world down, is taken only when the
dispatcher has stopped accepting and no event is left in front of it. It flushes the
database queue before it pushes the poison, and main joins the database thread before
the dispatcher. That the components' own invariants hold in the server (`PartsStayOK`)
is what makes these few facts enough. `SavingStateStays` rests on the place of each
body (`BodyPlaces`) and on which game state goes with it (`StatesAgree`).

*Party* (in `RealmProofs`). The operators of `Party` map records to records, so the proof does too: a
lemma for each says which fields it changes, another that it takes a `Consistent`
membership to a consistent one. `disband` is called last, after a list has become
empty, which is why `Settled` (no empty party) is a conjunct apart: it is broken
and restored within one handler. `MembershipOK` is `Consistent`, `Settled` and
`Forgotten`, read field by field; `JoinedByInvitation` follows from the same lemmas,
by which every operation but a founding and a joining only ends memberships.
`clearPartyInvitations` goes through the inviting parties one after the other; the
model does it at once, because each of them touches only its own lists.
`SharingFair` is proved party by party: an operation on `P` leaves leader, members and
ticks of every other party alone (`Others`), so those stay `FairFor`; `P` itself gets
an update last, or has lost only invitations. That the bonus is known
(`BonusInTime`) is not inductive as checked; it is once strengthened to: from the first
member on, whose joining updates it.

*Session.* The invariant adds to the types: the life of a connection in one direction
(`ReleasedOnce`: closed exactly when its release is queued or has run, and a login in
front of it), that a protocol without a login attaches nothing (`LoggedInOnce`), and the
reference counter of a player as what his client and the game hold (`BodiesHeld`).
`Connect` is the only action that raises it across two threads; its lemma takes as
premise who may connect (`Entitled`), which the login and the delayed event satisfy in
different ways. `ClientsConsistent` is read off, its `ReleaseWillCome` from `ReleasedOnce`.

*Trade.* The items form a forest that moves, so the proof begins with the way up from
an item: `Over` is the least set closed under taking the parent, and least sets give
all that is needed without induction over the depth (`OverLeast`, `OverLinear`,
`OverAcyclic`). The invariant says of the forest that nothing is in itself (`Rooted`),
which a move keeps because it tests its destination (`MoveKeepsRooted`); of the trades
that partners are mutual, who has none offers nothing, and the offers are registered
(`Agreed`); and of the two together that offers are `Apart` and `AtHand`. A move that
concerns an offer must close its trade: `ClosersSuffice` shows that the callbacks of
`Player`, each of which compares the moved item with the offer in its own way, leave
out no case. The exchange is two moves of which the second starts where the first has
led (`HandOver`). Its theorems have `TradeAssumption` as a premise. `TradeAlwaysSound`
puts them together to what the run checks.

*Creatures.* Every operator maps a record of all creatures to another, and a handler hands
that record from one creature that hears of a change to the next. The fold over who hears
is taken apart by least counterexamples (`OneByOne`: a set of subsets that holds with
`s` minus one element also `s` holds all), in general for any function of one creature and a record
(`Run`). `Sound(v, R, x, X, Y)` is what holds in the middle of such a handler: the references are the
pointers (`Exact`), who is gone has none (`Unpointed`), and pursuits, sleep and masters are as
they must be except for those of `R` who have yet to hear that `x` moved or left, the
monsters `X` that are still to be woken and the masters `Y` that are leaving. Each operator has
a lemma of what it changes (`Mind` for a monster's own lists, `Turned` for
attack and following, `Shrinks` for a removal) and each hearer removes himself from `R`. That
`RefsExact` is an equality needs the sum to be followed pointer by pointer: adding or
dropping one changes one cardinality and one counter (`CountChange`). A destruction drops the
targets and friends of the destroyed, which may destroy again; a round that finds somebody
deletes him for good, so that after as many rounds as there are creatures nobody
is left without a reference, by counting the deleted. The theorem has `CreaturesAssumption` as a
premise: creatures are finitely many, and sight, viewport and the range of summons are natural
numbers in this order.

*Walk.* Most of what happens to a player between his own steps is `Mild`: it may end
the walk, tell him to stop or drop the action that waits, and keeps the invariant by one
argument (`MildKept`) if only whom he follows and attacks still agree. What remains is
the event of the next step. `onWalk` is entered with its own event gone from the
scheduler and still named by `eventWalk`, so the invariant is split: `Within` holds even
then, `WalkEvents` only between two tasks, and `OnWalkSound` restores it. `StopsWithinAStep`
is not inductive: an order to stop that was given needs `cancelNextWalk` still set while
there are steps left (`Halting`), and none left once a step was taken after it
(`Halts`); `addEventWalk`, which clears the flag, must therefore come after the list was
emptied. The exception is `setSpeed`: when speed comes back it adds the event whatever
was ordered, and the order is forgotten. Its theorem has `WalkAssumption` as a premise, as the trade's.

*Scripts.* `ScriptsSound` says where environments, items and results are; to be inductive
it needs where they are not. A call prepares an environment that it does not empty, so
those above the innermost one must be blank but for their npc (`FreeAreBlank`). The end
of a call releases what it finds nowhere among its own: an item must be temporary once,
and exist (`TemporaryOnce`), or the end of one script would release what another has in
hand; and what is being added is nowhere no more (`AddedSomewhere`), or it would be
forgotten while it is still owed. All three hold also after a call was refused; that each
call has its own environment does not, as the model shows. That failures permit nothing
goes through the table of hooks, whose 60 entries are of five kinds (`HooksStrict`).

*Registers and timers of scripts.* Each of the four parts of `EventsSound` has its own
invariant (`TimersInv`, `DatesInv`, `ChecksInv`, `RegistrationsInv`), kept by all steps.
Timers and dates are nearly inductive as checked. What a creature is registered for is found as long as
the type of an event never changes once a creature points to it, which holds because a
reload marks events and erases none. The chains of checks need ids: an id names one
check and the id of a chain one of its kind (`IdsDiffer`), so that a reload stops its own.
`ChecksGoOn` bounds all checks under way; inductive is the bound of those that are not
the chain's (`FewStray`): a reload adds the ones that are tasks already, and a stray check that goes on becomes the
chain's and makes the former one stray in its place. That a check comes soon enough for every event uses that a set of delays has a
least element (`Least`, the library's well-foundedness of `<`, no induction of ours).

*Raids.* `RaidsInv` adds to `PendingExists` that what is listed belongs to the present
loading and what was deleted to none that comes after it, that a raid which is
neither awaited nor deleted begins with its first event (without that a raid could be
started whose events are all behind it, and be alone with nothing awaited), and that no
raid but the running one is awaited, and none twice, until a reload has forgotten one
(`RaidsWaiting`). The part of
`WildSound` that is about raids follows; spawns stay with TLC. The theorem has
`RaidsAssumption` as a premise, that of the registers `ScriptEventsAssumption`.

*Steps of monsters.* What the cache says of a tile (`Told`) holds for every tile of the
window but those the property excepts, and `ExactBut(m, S)` for all but those in `S`: an
item or a creature that comes or goes makes the cache wrong at one tile or two, and
`TileSettled` shows that `updateTileCache` sets each right. The move of the monster itself
is `CacheShifts`: a tile that was in the window before is found where the shift by rows
and columns has put it, and one that was not is looked up. `DistanceWise` goes through
the chain of choices of `getDistanceStep` once for each side on which the target may be.

*Spectators.* The search walks over a rectangle of leaves along links that may be
missing, and a column begins where the row has led. That both walks see what is at each place
(`RowsFound`, `ColumnsFound`) is no induction but a least counterexample (`Least`, as for
the registers), because the walks are functions that satisfy their own equation. For it
the links must be `Linked`: each leaf names its southern and eastern neighbour exactly when there is one,
which `setTile` keeps whether the leaf or its neighbour came first (`NewLeafLinked`).
`CornersEnclose` shows that the rectangle holds every leaf on which somebody in sight
can be, in spite of the shift by floors and the cut at the borders of the map. With the
lists at the leaves in agreement with where creatures are (`Listed`) a search is exact
(`SearchExact`); an answer from a cache is one that would still be found (`Cached`),
which holds because every operation that moves somebody forgets both caches. A move
searches twice and adds the second answer to the first, and what its second search leaves
in the cache is both together, more than it should; that is harmless only because
the same move then forgets it (`CreatureMoved`).
Both theorems have the assumption of their module as a premise. The rest of `MapSound`,
the cheapest path (`Paths`), is recursive and stays with TLC.

*Fights.* Blows, deaths and logouts are operators that call one another on a record, so
each has a lemma of what it changes and another that it keeps `Good`, the invariant;
`Only(s, t, F)` says that nothing but the fields `F` differs. `MarksInFight` is inductive
once what was begun counts as a mark (`Marking`) and who is away bears none and poisons
nobody (`Away`). That only who began is blamed needs `Provoked`: who strikes one that has
not struck him marks him unless one of the two has a skull, and a skull is lost only
with the fight or by a login, when the marks are gone too. `OnKilledCreature` is called
twice, and the second call blames nobody because the first one is followed by taking
back the marks of all who dealt damage (`KilledChanges`). That an arena costs nothing needs
`Slain`: who took the last of the health is the last who hit, which holds because a
blow at somebody dead counts nothing, his mana shield being used up before his health.
`CreditedForLosses` compares sums over all attackers: every operator but a blow leaves
each of them at most what he had (`Fewer`), and a blow changes one of them by what the
victim has lost (`Owed`). That frags end one by one holds of every step but
`checkSkullTicks`, and of that one as long as there are no more than `Countable`. The theorem has `CombatAssumption` as a premise.

*Sums.* `Total(f, S)` is the community modules' fold. What is used of it (`TotalWithout`,
`TotalChanged`, `TotalPlus`, `TotalApart`, `TotalByOwner`) is proved without an induction
theorem: the fold is a recursive function on the subsets of `S`, so that it satisfies its
equation once a function that does exists (`AddingExists`), and were one of these facts
false it would be so of a least subset (`LeastSet`), which is one element more than a
subset of which it is true. What the same cannot give is a recursion over anything but
finite sets and numbers.

*Market.* `MarketInv` says that an id names one offer or one that has ended, and none that
is to come (`Numbered`), that no offer is used up (`Sold`), and that the gold of all and
that of the offers make up what there was, less the fees, unless it is `stale`. Creating,
accepting and cancelling change one or two accounts and one offer (`Booking`, `Offered`,
`Withdrawn`). An expiry gives each owner the total of his rows, and those totals make up
that of all rows (`GivenBack`, from `TotalByOwner`); the rows are the offers that end
unless one has changed since the query, which is what sets `stale`. So the exception of
`Conserved` is the only one there is. The theorem has `MarketAssumption` as a premise.

## 7. Disagreements met while modelling

- *The process may not end* (`server_hang`). `DatabaseTasks::shutdown` and
  `Scheduler::shutdown` notify once. The thread loops test the state outside the
  lock, so a thread that has tested it just before waits just after the only
  notification; `main` then waits in `join` for ever, although `signals.cpp:86`
  says that the signal shuts the server down.
- *Somebody is still online* (`server_online`). A login task queued behind the
  signal's task places its player after everybody was kicked and saved:
  `ProtocolGame::login` does not look for `GAME_STATE_SHUTDOWN`.

- *A player may be leaked* (`session_leak`). `ProtocolGame::connect` takes an expired
  connection as the sign that `release` has been called
  (`protocolgame.cpp:179-183`), but a closed connection lives on while a read or a
  write is outstanding. A connect event in that window attaches the player to a
  protocol that has been released already, and nobody releases him from it.
- *Who gave up keeps his place* (`waitlist_expired`). `cleanupList` compares an
  unsigned difference with `<= 0` (`waitlist.cpp:49`): entries are removed only in the
  millisecond of their timeout. The list never becomes empty again.

**Modelled as the code is, and excepted by the property.** No comment of the
repository denies the following; the property that is named says that nothing else
goes wrong.

- Trade (`TradeSound`): the second move of an exchange (`game.cpp:2677`) can fail after
  the first has been made, because the test before it lets a stackable item join a
  stack and the move does not.
- Chat (`ChatSound`): who has just left his party, guild or vocation cannot be taken out
  of its channel any more (`chat.cpp:572`); `setGuild` to a guild without a lowest rank
  returns before the old guild forgets the player (`player.cpp:4513`).
- Spawns and raids (`WildSound`): monsters kept under place 0 count for vacant places, so
  that the check may end too early (`spawn.cpp:260`); a reload does not stop a raid that has left the
  list, whose end then clears the mark of another one (`raids.cpp:142`). That one may be
  started again while its event is pending, whose id is overwritten (`raids.cpp:244`), so that
  the next reload deletes the raid and leaves the event.
- Houses (`HousesSound`): a stop between the saves of map and players doubles or loses
  what was moved; a deed is executed without looking again at who owns the house;
  the second bed can be entered before the first one's sleeper is kicked.
- Combat (`CombatSound`): who defends himself can be blamed for a mark of an earlier
  fight; a death in an arena counts as another one once the killer has left; of more than
  24 frags of a day each, all or many are lost at the next check, because their time is computed in
  an `int32_t` (`player.cpp:3825`), and the skull with them once the fight is over.
- Walks (`WalkSound`): a player who is told to stop and whose speed comes back from nothing
  walks on (`creature.cpp:263`, called by `creature.h:204-214`).
- Monsters' maps (`MapSound`): rows and columns are shifted one after the other, which is
  wrong at the edges after a step to the south and aside (`creature.cpp:524`, `547`); a
  teleport that is taken away stays in the cache (`creature.cpp:379-390`).
- Modifiers and conditions (`ModifiersSound`): an item taken off at another level than
  it was put on; a permanent condition that is added twice, or was made permanent by a
  script or `addDamage`, has an end in the past or none (`condition.cpp:132`, `1016-1023`),
  and is not known to `hasCondition`, nor is one whose end has passed before the next check:
  haste and paralysis may then be there together; rounds that are lost when checks come late, held up by
  fields or inherited from a slower condition; what a relog loses of a round.
- Views (`ViewsSound`): positions on a tile counted past creatures that the client does
  not see; later pages of a container, and two windows of one.
- Storage (`ItemsSound`): a statement repeated on a new connection runs outside the
  transaction (`database.cpp:96-112`); the failed save of an absent player's mail is
  not noticed (`mailbox.cpp:120`).
- Scripts (`ScriptsSound`): a refused call moves every later one up by an environment
  (`luascript.h:220`); the end of a nested script drops the query results of the outer
  one (`luascript.cpp:62`); an item that is merged in part is never released; the handler of a monster is skipped without an
  environment, but goes on after an error (`monster.cpp:113`); an event that has gone
  from its file keeps an interface that is null and is still called
  (`creatureevent.cpp:102-140`); a reload while a check is already a task starts a
  second chain of checks (`globalevent.cpp:46`); a failing `onTime` is erased, a failing
  `onThink` only reported (`globalevent.cpp:122`, `160`).

**Read but not checked by a run of its own.** `scheduler.cpp:124` says of the queue at
shutdown that it "should already be empty"; the periodic events of `Game::start`
reschedule themselves until the scheduler is stopped, so it never is.
`Creature::onDeath` removes the attacked mark (`creature.cpp:641`) before it asks
whether the kill was unjustified (`creature.cpp:667`), so that the one with the most damage
is never blamed unless he struck last. The warnings of a rent are not
reset when it is paid (`house.cpp:704-725`).

## 8. Only model-checked, and not modelled

*Liveness* (`AcceptedIsServed`, `DueIsHandedOver`, `AcceptedIsExecuted`,
`SignalReachesJoin`, `SessionsProgress`) and everything with `ENABLED` is out of the
prover's reach and stays with TLC. So does what a recursion computes for every input
(induction over data): the modules that need recursive operators (`Effects`,
`ItemMoves`, `Paths`, `PlayerStore`). Sums over finite sets are within reach (see *Sums*).

*Only model-checked* are, besides, the properties of `realm` and `world` other than
those of parties, trades, the market, creatures, walks, scripts, fights, the steps of monsters
and spectators: waiting list, items, conditions, views, paths, houses, chat, spawns,
and the choice of a raid. Their
properties are statements about one run of many instances (`ItemsSound`, `HousesSound`,
...); `MCWorld` reaches recursive operators, so that no theorem can be stated there. What
some of them sum up along a recursion (what is in a container, what is stored of a player)
needs an induction over data. The waiting list is filtered with `SelectSeq`, which the prover
knows by name only and cannot expand. The others (houses, chat, spawns) could be proved and
are not yet.

*Not modelled:* what a script may do beyond the interface of the components, the
wording and layout of messages, the formulas of combat, and the content of the data
pack. A spurious wakeup of `main` while it waits for the loader, and a load that
fails, are hazards without a module so far. Neither is a bed that is used from
outside its house, an id of the scheduler that is given out again after 2^32 events, a write
whose peer neither reads nor goes, nor how long a player stays in the middle of a
replacement that failed (`protocolgame.cpp:159`). SIGHUP reloads tables and changes
nothing that the modules hold. The components without a module are listed, with
the reason, in `PROJECT.json`; the interface to scripts (`luascript.cpp`), which is
by far the largest file, consists of bindings that convert their arguments and call
an operation that is modelled where it belongs.
