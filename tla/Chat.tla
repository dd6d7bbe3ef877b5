--------------------------------- MODULE Chat ---------------------------------
(***************************************************************************)
(* Chat channels (chat.cpp) and who is in a guild (guild.cpp): the users of*)
(* each channel, invitations to private ones, and the windows that the     *)
(* clients show for them.  A client knows its guild's and its party's      *)
(* channel by a fixed number: which one is meant depends on where the      *)
(* player belongs at that moment.  Of a party only who is in it is here,   *)
(* see Party; what is said, the scripts of the channels but for canJoin,   *)
(* wars and helpers are left out.                                          *)
(***************************************************************************)
EXTENDS Integers, FiniteSets, FiniteSetsExt, Functions

CONSTANTS
  Players, Parties, Guilds,
  Ranked,            \* the guilds that have a rank of level 1
  Public, Private,   \* channels of chatchannels.xml, numbers of private ones
  None

ChatAssumption ==
  /\ Ranked \subseteq Guilds
  /\ None \notin Players \union Parties \union Guilds \union Public \union Private
  /\ \A S, T \in {Parties, Guilds, Public, Private} : S # T => S \intersect T = {}

VARIABLE chat

Channels == Parties \union Guilds \union Public \union Private

(* What a client may ask for by number.                                    *)
Names == {n \in {"party", "guild"} : IF n = "party" THEN Parties # {} ELSE Guilds # {}} \union Public \union Private

Init == chat =
  [online |-> {}, shows |-> [p \in Players |-> {}], barred |-> {},
   party |-> [p \in Players |-> None], guild |-> [p \in Players |-> None],
   members |-> [g \in Guilds |-> {}], loaded |-> {},
   open |-> Public, users |-> [c \in Channels |-> {}],
   owner |-> [c \in Private |-> None], invites |-> [c \in Private |-> {}]]

-----------------------------------------------------------------------------
IsInvited(s, c, p) == s.owner[c] = p \/ p \in s.invites[c]

Belongs(s, p, c) ==
  \/ c \in Parties /\ s.party[p] = c
  \/ c \in Guilds /\ s.guild[p] = c
  \/ c \in Public /\ p \notin s.barred
  \/ c \in Private /\ IsInvited(s, c, p)

(* None, or the channel that p means by n.                                 *)
Meant(s, p, n) == CASE n = "party" -> s.party[p] [] n = "guild" -> s.guild[p] [] OTHER -> n
GetChannel(s, p, n) ==
  LET c == Meant(s, p, n) IN IF c \in s.open /\ Belongs(s, p, c) THEN c ELSE None
GetPrivateChannel(s, p) == {c \in Private : c \in s.open /\ s.owner[c] = p}

WindowClosed(s, P, n) == [s EXCEPT !.shows = [p \in Players |-> IF p \in P THEN @[p] \ {n} ELSE @[p]]]
WindowOpened(s, p, n) == [s EXCEPT !.shows[p] = @ \union {n}]

AddUser(s, p, c) == [s EXCEPT !.users[c] = @ \union {p}]
RemoveUser(s, p, c) == [s EXCEPT !.users[c] = @ \ {p}]

(* deleteChannel of a private one, whose users are told.                   *)
ForgottenOnly(s, c) ==
  [s EXCEPT !.open = @ \ {c}, !.users[c] = {}, !.owner[c] = None, !.invites[c] = {}]
Deleted(s, c) == ForgottenOnly(WindowClosed(s, s.users[c], c), c)

RemoveUserFromChannel(s, p, n) ==
  LET c == GetChannel(s, p, n)
      u == RemoveUser(s, p, c)
  IN  IF c = None \/ p \notin s.users[c] THEN s
      ELSE IF c \in Private /\ s.owner[c] = p THEN Deleted(u, c) ELSE u

InvitesKept(s, p) ==
  FoldSet(LAMBDA c, t : IF c \in Private /\ t.owner[c] = p THEN Deleted(RemoveUser(t, p, c), c)
                        ELSE RemoveUser(t, p, c), s, s.open)
RemoveUserFromAllChannels(s, p) ==
  InvitesKept([s EXCEPT !.invites = [c \in Private |-> @[c] \ {p}]], p)

SendClosePrivate(s, p, n) ==
  WindowClosed(IF n \in {"party", "guild"} THEN RemoveUserFromChannel(s, p, n) ELSE s, {p}, n)

-----------------------------------------------------------------------------
(* Guilds: an empty one is deleted, its channel is not.                    *)
RemoveMember(s, p, g) ==
  LET rest == s.members[g] \ {p}
  IN  [s EXCEPT !.members[g] = rest, !.loaded = IF rest = {} THEN @ \ {g} ELSE @]
AddMember(s, p, g) == [s EXCEPT !.members[g] = @ \union {p}]

SetGuild(p, g) ==
  LET old == chat.guild[p]
      u == [chat EXCEPT !.guild[p] = None]
      v == AddMember([u EXCEPT !.guild[p] = g], p, g)
      left(t) == IF old = None THEN t ELSE RemoveMember(t, p, old)
  IN  /\ p \in chat.online /\ g # old /\ g \in chat.loaded \union {None}
      /\ chat' = IF g = None THEN left(u) ELSE IF g \in Ranked THEN left(v) ELSE u

-----------------------------------------------------------------------------
(* Parties: who leaves one, or is left by its end, is without a party      *)
(* before his window is closed.                                            *)
OutOfParty(s, p) == SendClosePrivate([s EXCEPT !.party[p] = None], p, "party")

JoinParty(p, a) ==
  /\ p \in chat.online /\ chat.party[p] = None
  /\ chat' = [chat EXCEPT !.party[p] = a]

(* The last who remains is let go too, unless somebody is invited.         *)
LeaveParty(s, p, invited) ==
  LET left == OutOfParty(s, p)
      rest == {q \in Players : left.party[q] = s.party[p]}
  IN  IF s.party[p] = None THEN s
      ELSE IF Cardinality(rest) = 1 /\ ~invited THEN FoldSet(LAMBDA q, t : OutOfParty(t, q), left, rest)
      ELSE left

Leave(p, invited) == chat.party[p] # None /\ chat' = LeaveParty(chat, p, invited)

-----------------------------------------------------------------------------
(* Coming, going, and another client for somebody who is in the game.  Who *)
(* has no known rank in his guild makes it loaded, but is not in it.       *)
Login(p, g, known) ==
  /\ p \notin chat.online
  /\ LET u == [chat EXCEPT !.online = @ \union {p}, !.loaded = @ \union ({g} \ {None})]
     IN  chat' = IF g = None \/ ~known THEN u ELSE AddMember([u EXCEPT !.guild[p] = g], p, g)

OnRemoveCreature(s, p, invited) ==
  LET u == RemoveUserFromAllChannels(LeaveParty(s, p, invited), p)
  IN  IF u.guild[p] = None THEN u ELSE RemoveMember(u, p, u.guild[p])

Logout(p, invited) ==
  /\ p \in chat.online
  /\ LET u == OnRemoveCreature(chat, p, invited)
     IN  chat' = [u EXCEPT !.online = @ \ {p}, !.shows[p] = {}, !.guild[p] = None, !.barred = @ \ {p}]

Reconnect(p) ==
  /\ p \in chat.online
  /\ chat' = [RemoveUserFromAllChannels(chat, p) EXCEPT !.shows[p] = {}]

(* A vocation is taken, or lost, and with it the right to a channel.       *)
ChangeVocation(p) ==
  /\ p \in chat.online /\ Public # {}
  /\ chat' = [chat EXCEPT !.barred = (@ \ {p}) \union ({p} \ @)]

-----------------------------------------------------------------------------
(* Packets about channels.                                                 *)
CreatePrivateChannel(p) ==
  /\ p \in chat.online /\ GetPrivateChannel(chat, p) = {}
  /\ \E c \in Private \ chat.open :
       chat' = WindowOpened(AddUser([chat EXCEPT !.open = @ \union {c}, !.owner[c] = p], p, c), p, c)

ChannelInvite(p, q) ==
  /\ {p, q} \subseteq chat.online /\ p # q
  /\ \E c \in GetPrivateChannel(chat, p) : chat' = [chat EXCEPT !.invites[c] = @ \union {q}]

ChannelExclude(p, q) ==
  /\ {p, q} \subseteq chat.online /\ p # q
  /\ \E c \in GetPrivateChannel(chat, p) :
       /\ q \in chat.invites[c]
       /\ chat' = SendClosePrivate(RemoveUser([chat EXCEPT !.invites[c] = @ \ {q}], q, c), q, c)

(* The list of channels makes those of the guild and of the party.         *)
RequestChannels(p) ==
  /\ p \in chat.online
  /\ chat' = [chat EXCEPT !.open = @ \union ({chat.guild[p], chat.party[p]} \ {None})]

OpenChannel(p, n) ==
  LET c == GetChannel(chat, p, n)
  IN  /\ p \in chat.online /\ c # None /\ p \notin chat.users[c]
      /\ chat' = WindowOpened(AddUser(chat, p, c), p, n)

CloseChannel(p, n) ==
  /\ p \in chat.online /\ n \in chat.shows[p]
  /\ chat' = WindowClosed(RemoveUserFromChannel(chat, p, n), {p}, n)

Next ==
  \/ \E p \in Players :
       \/ \E g \in Guilds \union {None} : (\E known \in BOOLEAN : Login(p, g, known)) \/ SetGuild(p, g)
       \/ \E invited \in BOOLEAN : Logout(p, invited) \/ Leave(p, invited)
       \/ \E a \in Parties : JoinParty(p, a)
       \/ \E n \in Names : OpenChannel(p, n) \/ CloseChannel(p, n)
       \/ \E q \in Players : ChannelInvite(p, q) \/ ChannelExclude(p, q)
       \/ Reconnect(p) \/ ChangeVocation(p) \/ CreatePrivateChannel(p) \/ RequestChannels(p)

-----------------------------------------------------------------------------
(* The lists hold pointers: nobody who is gone may be in one.  A private   *)
(* channel is its owner's only one, has him inside, and has nobody inside  *)
(* who is not invited, however sessions, exclusions and closings interleave*)
(* (chat.cpp: removeUserFromAllChannels, excludePlayer, deleteChannel).    *)
ChannelsSound ==
  /\ \A c \in Channels : chat.users[c] \subseteq chat.online
  /\ \A c \in Private : chat.invites[c] \subseteq chat.online
  /\ \A p \in Players : Cardinality(GetPrivateChannel(chat, p)) <= 1
  /\ \A c \in Private \intersect chat.open :
       /\ chat.owner[c] \in chat.online /\ chat.owner[c] \in chat.users[c]
       /\ \A p \in chat.users[c] : IsInvited(chat, c, p)

(* A guild lists exactly those in the game who belong to it, and is not    *)
(* deleted while there is one.                                             *)
GuildsSound(s) ==
  \A g \in Guilds : /\ s.members[g] = {p \in s.online : s.guild[p] = g}
                    /\ s.members[g] # {} => g \in s.loaded

(* Who is put into a guild that has no rank of level 1 is taken out of his *)
(* own without being taken off its list; nothing else spoils the lists     *)
(* (player.cpp: setGuild returns early).                                   *)
MisledOnlyByRank ==
  GuildsSound(chat) /\ ~GuildsSound(chat') =>
    \E p \in chat.online : /\ chat.guild[p] # None /\ chat'.guild[p] = None /\ p \in chat'.online
                           /\ Guilds # Ranked

(* Who hears what he does not belong to, and who belongs and hears but has *)
(* no window and cannot open one.                                          *)
Overhears(s) == {x \in Players \X Channels : x[1] \in s.users[x[2]] /\ ~Belongs(s, x[1], x[2])}
Locked(s) == {x \in Players \X Names :
                LET c == GetChannel(s, x[1], x[2]) IN c # None /\ x[1] \in s.users[c] /\ x[2] \notin s.shows[x[1]]}
Unheard(s) == {x \in Players \X Names :
                 LET c == Meant(s, x[1], x[2]) IN c # None /\ x[2] \in s.shows[x[1]] /\ x[1] \notin s.users[c]}

(* A channel is left behind only by who leaves his party or guild or       *)
(* changes his vocation, since the channel is then looked up by where he   *)
(* belongs now; he is locked out of its window only when he comes back; a  *)
(* window that hears nothing is that of a guild, after he changed it       *)
(* (chat.cpp: getChannel; party.cpp: setParty before sendClosePrivate).    *)
BehindOnlyByLeaving ==
  LET moved(p) == \/ chat'.party[p] # chat.party[p] \/ chat'.guild[p] # chat.guild[p]
                  \/ (p \in chat'.barred) # (p \in chat.barred)
  IN  /\ \A x \in Overhears(chat') \ Overhears(chat) : moved(x[1])
      /\ \A x \in Locked(chat') \ Locked(chat) : moved(x[1]) /\ chat'.users = chat.users
      /\ \A x \in Unheard(chat') \ Unheard(chat) : moved(x[1]) /\ x[2] = "guild"
=============================================================================
