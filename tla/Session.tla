------------------------------- MODULE Session -------------------------------
(***************************************************************************)
(* The connections of one character: src/src/connection.cpp, the part of   *)
(* protocolgame.cpp that attaches a client to a player, and the autosend   *)
(* list of outputmessage.cpp.                                              *)
(*                                                                         *)
(* A connection and its ProtocolGame are one element of Connections.  The  *)
(* I/O thread runs the handlers of asio, each under connectionLock; the    *)
(* dispatcher runs its tasks in order, and scheduled events, which enter   *)
(* its list at the front, at any moment.  A body is a Player object; all   *)
(* bodies have the same name, and allowClones is off.  Sending and then    *)
(* closing is one step: a write that completes in between changes nothing  *)
(* the model tells apart.                                                  *)
(***************************************************************************)
EXTENDS Naturals, Sequences, FiniteSets

CONSTANTS
  Connections,
  Bodies,              \* addresses of Player objects
  NoConnection, NoBody,
  ReplaceKickOnLogin,  \* config.lua: replaceKickOnLogin
  MaxQueue             \* the game writes to a client whose queue is shorter

ASSUME SessionAssumption ==
  /\ NoConnection \notin Connections /\ NoBody \notin Bodies
  /\ ReplaceKickOnLogin \in BOOLEAN /\ MaxQueue \in Nat

VARIABLES
  link,      \* Connection
  protocol,  \* ProtocolGame
  body,      \* Player
  tasks,     \* the dispatcher's list
  autosend,  \* OutputMessagePool::bufferedProtocols
  sendAlls,  \* scheduled calls of sendAll
  leaving    \* Game::ToReleaseCreatures

linkVars == <<link, tasks>>
vars == <<link, protocol, body, tasks, autosend, sendAlls, leaving>>

(* listed: held by ConnectionManager.  socket: open and not broken.        *)
(* reading: an asynchronous read is outstanding and holds the connection.  *)
(* queue: messageQueue; writes: the outstanding asynchronous writes.       *)
Links ==
  [state : {"new", "open", "closed"}, listed : BOOLEAN, socket : BOOLEAN,
   reading : BOOLEAN, receivedFirst : BOOLEAN, queue : Nat, writes : Nat]

(* eventConnect: "none" or the player that connect is scheduled for, who   *)
(* is NoBody once his id is no longer known to the game.                   *)
Protocols ==
  [player : Bodies \union {NoBody}, acceptPackets : BOOLEAN, buffered : BOOLEAN,
   waits : BOOLEAN, eventConnect : Bodies \union {NoBody}, released : BOOLEAN]

PlayerObjects ==
  [refs : Nat, client : Connections \union {NoConnection}, placed : BOOLEAN,
   isConnecting : BOOLEAN]

Unused == [refs |-> 0, client |-> NoConnection, placed |-> FALSE, isConnecting |-> FALSE]

Ops == {"onConnect", "login", "logout", "release"}

Task(o, c) == [op |-> o, conn |-> c]
IsQueued(o, c) == \E i \in DOMAIN tasks : tasks[i] = Task(o, c)

Init ==
  /\ link = [c \in Connections |->
               [state |-> "new", listed |-> FALSE, socket |-> FALSE, reading |-> FALSE,
                receivedFirst |-> FALSE, queue |-> 0, writes |-> 0]]
  /\ protocol = [c \in Connections |->
               [player |-> NoBody, acceptPackets |-> FALSE, buffered |-> FALSE,
                waits |-> FALSE, eventConnect |-> NoBody, released |-> FALSE]]
  /\ body = [b \in Bodies |-> Unused]
  /\ tasks = << >> /\ autosend = {} /\ sendAlls = 0 /\ leaving = {}

-----------------------------------------------------------------------------
(* Connection: operators from record to record.                            *)

(* The weak pointer of the protocol finds nothing any more.                *)
IsConnectionExpired(l) == ~l.listed /\ ~l.reading /\ l.writes = 0

(* send: a write is started unless one is outstanding.                     *)
AlwaysWrites(l) == TRUE
NoPendingWrite(l) == l.queue = 0

Sent(l) ==
  IF l.state = "open"
    THEN [l EXCEPT !.queue = @ + 1,
                   !.writes = IF NoPendingWrite(l) THEN @ + 1 ELSE @]
    ELSE l

(* close: an unforced one leaves the socket to the last write.             *)
Closed(l, force) ==
  IF l.state = "open"
    THEN [l EXCEPT !.listed = FALSE, !.state = "closed",
                   !.socket = @ /\ l.queue # 0 /\ ~force]
    ELSE [l EXCEPT !.listed = FALSE]

(* ... and queues the release of the protocol, once.                       *)
Releases(l, c) == IF l.state = "open" THEN <<Task("release", c)>> ELSE << >>

CloseBy(c, l, force, rest) ==
  /\ link' = [link EXCEPT ![c] = Closed(l, force)]
  /\ tasks' = rest \o Releases(link[c], c)

-----------------------------------------------------------------------------
(* The I/O thread.                                                         *)
ioUnchanged == <<protocol, body, autosend, sendAlls, leaving>>

(* ServicePort::onAccept; the game service makes the protocol at once.     *)
Accept(c) ==
  /\ link[c].state = "new"
  /\ link' = [link EXCEPT ![c].state = "open", ![c].listed = TRUE,
                          ![c].socket = TRUE, ![c].reading = TRUE]
  /\ tasks' = Append(tasks, Task("onConnect", c))
  /\ UNCHANGED ioUnchanged

Reads(c) == link[c].reading /\ link[c].socket

(* onRecvFirstMessage: the packet is refused without a word (disconnect),  *)
(* with a message (disconnectClient), or a login is queued.  The next read *)
(* is started in any case.                                                 *)
FirstPacket(c) ==
  /\ Reads(c) /\ link[c].state = "open" /\ ~link[c].receivedFirst
  /\ LET l == [link[c] EXCEPT !.receivedFirst = TRUE]
     IN  \/ CloseBy(c, l, FALSE, tasks)
         \/ CloseBy(c, Sent(l), FALSE, tasks)
         \/ /\ ~IsQueued("onConnect", c)
            /\ link' = [link EXCEPT ![c] = l]
            /\ tasks' = Append(tasks, Task("login", c))
  /\ UNCHANGED ioUnchanged

(* parsePacket: the logout packet, and the one a client sends to leave     *)
(* when his player is gone or dead.                                        *)
LaterPacket(c) ==
  /\ Reads(c) /\ link[c].state = "open" /\ link[c].receivedFirst
  /\ protocol[c].acceptPackets
  /\ LET b == protocol[c].player
     IN  \/ /\ b # NoBody /\ ~IsQueued("logout", c)
            /\ tasks' = Append(tasks, Task("logout", c))
            /\ UNCHANGED link
         \/ /\ b = NoBody \/ ~body[b].placed
            /\ CloseBy(c, link[c], FALSE, tasks)
  /\ UNCHANGED ioUnchanged

(* parseHeader: too many packets, or a length that cannot be; what arrives *)
(* after the connection has been closed is not read on.                    *)
BadHeader(c) ==
  /\ Reads(c)
  /\ LET l == [link[c] EXCEPT !.reading = FALSE]
     IN  \/ link[c].state = "open" /\ \E force \in BOOLEAN : CloseBy(c, l, force, tasks)
         \/ link[c].state = "closed" /\ link' = [link EXCEPT ![c] = l] /\ UNCHANGED tasks
  /\ UNCHANGED ioUnchanged

(* The read fails: the client went away, or the socket has been closed.    *)
ReadError(c) ==
  /\ link[c].reading
  /\ CloseBy(c, [link[c] EXCEPT !.reading = FALSE], TRUE, tasks)
  /\ UNCHANGED ioUnchanged

(* onWriteOperation                                                        *)
Written(l) ==
  LET left == l.queue - 1
  IN  [l EXCEPT !.queue = left,
                !.writes = IF left = 0 THEN @ - 1 ELSE @,
                !.socket = @ /\ ~(left = 0 /\ l.state = "closed")]

WriteDone(c) ==
  /\ link[c].queue > 0 /\ link[c].socket
  /\ link' = [link EXCEPT ![c] = Written(link[c])]
  /\ UNCHANGED tasks /\ UNCHANGED ioUnchanged

(* ... or the peer is gone, and reads will fail as well.                   *)
WriteError(c) ==
  /\ link[c].queue > 0
  /\ CloseBy(c, [link[c] EXCEPT !.queue = 0, !.writes = @ - 1, !.socket = FALSE],
             TRUE, tasks)
  /\ UNCHANGED ioUnchanged

(* handleTimeout of the read or the write timer.  On a connection that is  *)
(* closed already close(FORCE_CLOSE) does nothing.                         *)
Timeout(c) ==
  /\ link[c].state = "open" /\ (link[c].reading \/ link[c].writes > 0)
  /\ CloseBy(c, link[c], TRUE, tasks)
  /\ UNCHANGED ioUnchanged

-----------------------------------------------------------------------------
(* The dispatcher.                                                         *)
Placed(B) == {b \in Bodies : B[b].placed}

(* decrementReferenceCounter; the last one deletes the object.             *)
DroppedTwice(x) == IF x.refs <= 2 THEN Unused ELSE [x EXCEPT !.refs = @ - 2]
Dropped(x) == IF x.refs = 1 THEN Unused ELSE [x EXCEPT !.refs = @ - 1]

(* removeCreature; no id leads to the player afterwards.                   *)
RemoveBody(b) ==
  /\ body' = [body EXCEPT ![b].placed = FALSE]
  /\ leaving' = leaving \union {b}
  /\ protocol' = [c \in Connections |->
                    IF protocol[c].eventConnect = b
                      THEN [protocol[c] EXCEPT !.eventConnect = NoBody]
                      ELSE protocol[c]]

AddToAutosend(c) ==
  /\ autosend' = autosend \union {c}
  /\ sendAlls' = IF autosend = {} THEN sendAlls + 1 ELSE sendAlls

OnConnect(c, rest) ==
  /\ link' = [link EXCEPT ![c] = Sent(@)]
  /\ tasks' = rest
  /\ UNCHANGED <<protocol, body, autosend, sendAlls, leaving>>

(* disconnectClient                                                        *)
OnlyTold(c, rest) == link' = [link EXCEPT ![c] = Sent(@)] /\ tasks' = rest
DisconnectClient(c, rest) == CloseBy(c, Sent(link[c]), FALSE, rest)

(* login with nobody of that name in the game: a new body, which any of    *)
(* the checks may reject before it is placed.                              *)
LoginNew(c, rest) ==
  /\ Placed(body) = {}
  /\ \E b \in {x \in Bodies : body[x].refs = 0} :
       \/ /\ body' = [body EXCEPT ![b] =
                        [Unused EXCEPT !.refs = 1, !.client = c]]
          /\ protocol' = [protocol EXCEPT ![c].player = b]
          /\ DisconnectClient(c, rest)
          /\ UNCHANGED <<autosend, sendAlls>>
       \/ /\ body' = [body EXCEPT ![b] =
                        [Unused EXCEPT !.refs = 2, !.client = c, !.placed = TRUE]]
          /\ protocol' = [protocol EXCEPT ![c].player = b, ![c].acceptPackets = TRUE,
                                          ![c].buffered = TRUE]
          /\ tasks' = rest
          /\ AddToAutosend(c)
          /\ UNCHANGED link
  /\ UNCHANGED leaving

(* connect: refused, left alone, or attached.                              *)
ClientFree(b) == b # NoBody /\ body[b].client = NoConnection

Attached(c, b) == [protocol[c] EXCEPT !.waits = FALSE, !.player = b,
                     !.acceptPackets = TRUE, !.buffered = TRUE]

Connect(c, b, rest) ==
  \/ /\ ~ClientFree(b)
     /\ protocol' = [protocol EXCEPT ![c].waits = FALSE, ![c].eventConnect = NoBody]
     /\ DisconnectClient(c, rest)
     /\ UNCHANGED body
  \/ /\ ClientFree(b) /\ IsConnectionExpired(link[c])
     /\ protocol' = [protocol EXCEPT ![c].waits = FALSE, ![c].eventConnect = NoBody]
     /\ tasks' = rest
     /\ UNCHANGED <<link, body>>
  \/ /\ ClientFree(b) /\ ~IsConnectionExpired(link[c])
     /\ protocol' = [protocol EXCEPT ![c] = [Attached(c, b) EXCEPT !.eventConnect = NoBody]]
     /\ body' = [body EXCEPT ![b].refs = @ + 1, ![b].client = c, ![b].isConnecting = FALSE]
     /\ tasks' = rest
     /\ UNCHANGED link

(* login of somebody who is in the game: his client is disconnected, and   *)
(* connect follows in a second; or nobody holds him and it follows at once.*)
LoginAgain(c, rest) ==
  \E b \in Placed(body) :
    \/ /\ ~ReplaceKickOnLogin
       /\ DisconnectClient(c, rest)
       /\ UNCHANGED <<protocol, body, autosend, sendAlls, leaving>>
    \/ /\ ReplaceKickOnLogin /\ body[b].client # NoConnection
       /\ LET d == body[b].client IN CloseBy(d, link[d], FALSE, rest)
       /\ body' = [body EXCEPT ![b].isConnecting = TRUE]
       /\ protocol' = [protocol EXCEPT ![c].waits = TRUE, ![c].eventConnect = b]
       /\ AddToAutosend(c)
       /\ UNCHANGED leaving
    \/ /\ ReplaceKickOnLogin /\ body[b].client = NoConnection
       /\ Connect(c, b, rest)
       /\ AddToAutosend(c)
       /\ UNCHANGED leaving

(* logout: refused by the tile, a fight or a script unless forced.         *)
Logout(c, rest) ==
  LET b == protocol[c].player
  IN  \/ /\ b = NoBody \/ body[b].placed
         /\ tasks' = rest
         /\ UNCHANGED <<link, protocol, body, leaving>>
      \/ /\ b # NoBody /\ body[b].placed
         /\ CloseBy(c, link[c], FALSE, rest)
         /\ RemoveBody(b)
      \/ /\ b # NoBody /\ ~body[b].placed
         /\ CloseBy(c, link[c], FALSE, rest)
         /\ UNCHANGED <<protocol, body, leaving>>

Release(c, rest) ==
  LET b == protocol[c].player
      mine == b # NoBody /\ body[b].client = c
  IN  /\ body' = IF mine
                   THEN [body EXCEPT ![b] = Dropped([@ EXCEPT !.client = NoConnection])]
                   ELSE body
      /\ protocol' = [protocol EXCEPT ![c].player = IF mine THEN NoBody ELSE b,
                                      ![c].released = TRUE]
      /\ autosend' = autosend \ {c}
      /\ tasks' = rest
      /\ UNCHANGED <<link, sendAlls, leaving>>

Run ==
  /\ tasks # << >>
  /\ LET c == Head(tasks).conn
         rest == Tail(tasks)
     IN  \/ Head(tasks).op = "onConnect" /\ OnConnect(c, rest)
         \/ Head(tasks).op = "login" /\ (LoginNew(c, rest) \/ LoginAgain(c, rest))
         \/ Head(tasks).op = "logout" /\ Logout(c, rest) /\ UNCHANGED <<autosend, sendAlls>>
         \/ Head(tasks).op = "release" /\ Release(c, rest)

(* The scheduled connect.                                                  *)
ConnectEvent(c) ==
  /\ protocol[c].waits
  /\ Connect(c, protocol[c].eventConnect, tasks)
  /\ UNCHANGED <<autosend, sendAlls, leaving>>

(* Whatever happens in the game is written to the buffer of the client.    *)
Update(b) ==
  LET c == body[b].client
  IN  /\ body[b].placed /\ c # NoConnection /\ link[c].queue < MaxQueue
      /\ protocol' = [protocol EXCEPT ![c].buffered = TRUE]
      /\ UNCHANGED <<link, body, tasks, autosend, sendAlls, leaving>>

(* sendAll: what is buffered is sent, and the next call is scheduled.      *)
SendAll ==
  /\ sendAlls > 0
  /\ link' = [c \in Connections |->
                IF c \in autosend /\ protocol[c].buffered THEN Sent(link[c]) ELSE link[c]]
  /\ protocol' = [c \in Connections |->
                    IF c \in autosend THEN [protocol[c] EXCEPT !.buffered = FALSE]
                                      ELSE protocol[c]]
  /\ sendAlls' = IF autosend = {} THEN sendAlls - 1 ELSE sendAlls
  /\ UNCHANGED <<body, tasks, autosend, leaving>>

LoggedOut(b) ==
  /\ body[b].placed
  /\ LET c == body[b].client
     IN  IF c = NoConnection THEN UNCHANGED linkVars ELSE CloseBy(c, link[c], FALSE, tasks)
  /\ RemoveBody(b)
  /\ UNCHANGED <<autosend, sendAlls>>

Kick(b) == LoggedOut(b)

(* sendPing when no answer has come for a minute; not while the player is  *)
(* waiting for his new client, nor in a fight.                             *)
PingTimeout(b) == ~body[b].isConnecting /\ LoggedOut(b)

(* The client of a dead player stays, to read about it.                    *)
Die(b) ==
  /\ body[b].placed
  /\ RemoveBody(b)
  /\ UNCHANGED <<link, tasks, autosend, sendAlls>>

(* Game::cleanup                                                           *)
Cleanup ==
  /\ leaving # {}
  /\ body' = [b \in Bodies |-> IF b \in leaving THEN Dropped(body[b]) ELSE body[b]]
  /\ leaving' = {}
  /\ UNCHANGED <<link, protocol, tasks, autosend, sendAlls>>

Io(c) ==
  \/ Accept(c) \/ FirstPacket(c) \/ LaterPacket(c) \/ BadHeader(c) \/ ReadError(c)
  \/ WriteDone(c) \/ WriteError(c) \/ Timeout(c)

Next ==
  \/ \E c \in Connections : Io(c) \/ ConnectEvent(c)
  \/ Run \/ SendAll \/ Cleanup
  \/ \E b \in Bodies : Update(b) \/ Kick(b) \/ PingTimeout(b) \/ Die(b)

Spec == Init /\ [][Next]_vars

(* Every thread runs on; a peer reads what it is sent or goes away; asio   *)
(* calls the handlers of a closed socket.                                  *)
ReadAborted(c) == ~link[c].socket /\ ReadError(c)

Fairness ==
  /\ WF_vars(Run) /\ WF_vars(SendAll)
  /\ \A c \in Connections :
       /\ WF_vars(ConnectEvent(c)) /\ WF_vars(ReadAborted(c))
       /\ WF_vars(WriteDone(c) \/ WriteError(c))

FairSpec == Spec /\ Fairness

-----------------------------------------------------------------------------
(* Besides the types: asio allows one outstanding write on a socket.       *)
TypeOK ==
  /\ link \in [Connections -> Links] /\ protocol \in [Connections -> Protocols]
  /\ body \in [Bodies -> PlayerObjects]
  /\ tasks \in Seq([op : Ops, conn : Connections])
  /\ autosend \subseteq Connections /\ sendAlls \in Nat /\ leaving \subseteq Bodies
  /\ \A c \in Connections : link[c].writes = IF link[c].queue > 0 THEN 1 ELSE 0

IsOpen(c) == link[c].state = "open"
HeldBy(b) == {c \in Connections : protocol[c].player = b}

(* A character has at most one client, and the two point at each other;    *)
(* the character is in the game at most once.                              *)
OneClient ==
  /\ \A c \in Connections, b \in Bodies : body[b].client = c <=> protocol[c].player = b
  /\ Cardinality(Placed(body)) <= 1

(* The reference counter counts: a player is not deleted while a protocol, *)
(* the game or the list of players to release holds him, and is deleted    *)
(* when nobody does.                                                       *)
RefsCounted ==
  \A b \in Bodies :
    /\ body[b].refs = Cardinality(HeldBy(b))
                      + (IF body[b].placed \/ b \in leaving THEN 1 ELSE 0)
    /\ ~(body[b].placed /\ b \in leaving)

(* Who holds a player or is on the autosend list will be released: his     *)
(* connection is open or the task is queued.  The one exception is a       *)
(* connect that came after release had run, see PlayerNotLeaked.           *)
ReleaseWillCome ==
  \A c \in Connections :
    /\ protocol[c].player # NoBody /\ ~protocol[c].released =>
         IsOpen(c) \/ IsQueued("release", c)
    /\ c \in autosend => IsOpen(c) \/ IsQueued("release", c)

(* One client for a character, references that say who holds him, and a    *)
(* release to come for whoever holds him.                                  *)
ClientsConsistent == OneClient /\ RefsCounted /\ ReleaseWillCome

(* protocolgame.cpp:180: when connect finds the connection alive, release  *)
(* has not been called yet and will take the player from it again.         *)
PlayerNotLeaked ==
  \A c \in Connections :
    protocol[c].player # NoBody => IsOpen(c) \/ IsQueued("release", c)

(* A login that was queued is answered: the client is let in or his        *)
(* connection closed, whoever else logs in or out meanwhile.               *)
LoginAnswered ==
  \A c \in Connections :
    IsQueued("login", c) ~> (protocol[c].acceptPackets \/ link[c].state = "closed")

(* A closed connection is destroyed in the end, once what was queued has   *)
(* been written: nothing holds it for ever.                                *)
ConnectionDestroyed ==
  \A c \in Connections :
    link[c].state = "closed" ~> IsConnectionExpired(link[c])

(* What is buffered for a client is sent unless his connection closes.     *)
BufferedIsSent ==
  \A c \in Connections :
    protocol[c].buffered ~> (~protocol[c].buffered \/ link[c].state = "closed")

(* Whatever is begun on a connection comes to its end.                     *)
SessionsProgress == LoginAnswered /\ ConnectionDestroyed /\ BufferedIsSent
=============================================================================
