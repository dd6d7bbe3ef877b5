-------------------------------- MODULE Party --------------------------------
(***************************************************************************)
(* Parties: src/src/party.cpp, the handlers of game.cpp that the client's  *)
(* packets reach, and what a player does to his party when he logs out,    *)
(* moves or fights (player.cpp).                                           *)
(*                                                                         *)
(* Party and player point at each other; every operation has to keep both  *)
(* sides in step, and disband deletes the Party object.  A party object is *)
(* an address here: a new party may take the address of a deleted one.     *)
(*                                                                         *)
(* The membership is one record, so that an operation of party.cpp is an   *)
(* operator from record to record and calls compose as they do in C++.     *)
(* memberList and inviteList are sets: the order only decides which member *)
(* inherits the leadership.  The scripting events onJoin, onLeave and      *)
(* onDisband are not enabled in data/events/events.xml and veto nothing.   *)
(***************************************************************************)
EXTENDS Naturals

CONSTANTS
  Players,
  Parties,   \* addresses of Party objects
  NoParty,   \* nullptr
  NoPlayer   \* nullptr

ASSUME PartyAssumption == NoParty \notin Parties /\ NoPlayer \notin Players

VARIABLES
  online,
  group,     \* the membership, see Groups
  shared     \* the shared experience, see Shareds

vars == <<online, group, shared>>

Groups ==
  [party : [Players -> Parties \union {NoParty}],   \* Player::party
   invitePartyList : [Players -> SUBSET Parties],
   live : SUBSET Parties,                           \* not deleted
   leader : [Parties -> Players \union {NoPlayer}],
   memberList : [Parties -> SUBSET Players],
   inviteList : [Parties -> SUBSET Players]]

(* ticksMap: a tick is fresh until PZ_LOCKED has passed.  fit: the players *)
(* whose level and position canUseSharedExperience accepts.                *)
Shareds ==
  [active : [Parties -> BOOLEAN],
   enabled : [Parties -> BOOLEAN],
   bonusKnown : [Parties -> BOOLEAN],               \* sharedExpBonus is initialised
   ticks : [Parties -> [Players -> {"none", "fresh", "stale"}]],
   fit : SUBSET Players]

Init ==
  /\ online = {}
  /\ group = [party |-> [p \in Players |-> NoParty],
              invitePartyList |-> [p \in Players |-> {}],
              live |-> {},
              leader |-> [P \in Parties |-> NoPlayer],
              memberList |-> [P \in Parties |-> {}],
              inviteList |-> [P \in Parties |-> {}]]
  /\ shared = [active |-> [P \in Parties |-> FALSE],
               enabled |-> [P \in Parties |-> FALSE],
               bonusKnown |-> [P \in Parties |-> FALSE],
               ticks |-> [P \in Parties |-> [p \in Players |-> "none"]],
               fit |-> {}]

-----------------------------------------------------------------------------
(* Membership: operations on a record g.                                   *)

Empty(g, P) == g.memberList[P] = {} /\ g.inviteList[P] = {}

IsInviting(g, p, q) ==
  /\ g.party[p] # NoParty
  /\ g.leader[g.party[p]] = p
  /\ q \in g.inviteList[g.party[p]]

CreatedLeaderless(g, P, p) == [g EXCEPT !.live = @ \union {P}, !.party[p] = P]

(* new Party(p)                                                            *)
Created(g, P, p) ==
  [g EXCEPT !.live = @ \union {P}, !.leader[P] = p, !.party[p] = P]

(* disband: leader, members and invitees forget the party.                 *)
Disbanded(g, P) ==
  [g EXCEPT
     !.live = @ \ {P},
     !.party = [q \in Players |->
                  IF q = g.leader[P] \/ q \in g.memberList[P] THEN NoParty ELSE @[q]],
     !.invitePartyList =
       [q \in Players |-> IF q \in g.inviteList[P] THEN @[q] \ {P} ELSE @[q]],
     !.leader[P] = NoPlayer, !.memberList[P] = {}, !.inviteList[P] = {}]

DisbandedIf(condition, g, P) == IF condition THEN Disbanded(g, P) ELSE g

(* invitePlayer; nothing happens to one who is already invited.            *)
Invited(g, P, q) ==
  [g EXCEPT !.inviteList[P] = @ \union {q}, !.invitePartyList[q] = @ \union {P}]

(* removeInvite(q, true)                                                   *)
Uninvited(g, P, q) ==
  [g EXCEPT !.inviteList[P] = @ \ {q}, !.invitePartyList[q] = @ \ {P}]

InviteRemoved(g, P, q) ==
  LET h == Uninvited(g, P, q)
  IN  DisbandedIf(Empty(h, P), h, P)

InvitationKept(g, P, q) ==
  [g EXCEPT !.party[q] = P, !.memberList[P] = @ \union {q},
            !.inviteList[P] = @ \ {q}]

(* joinParty                                                               *)
Joined(g, P, q) ==
  [g EXCEPT !.party[q] = P, !.memberList[P] = @ \union {q},
            !.inviteList[P] = @ \ {q}, !.invitePartyList[q] = @ \ {P}]

(* passPartyLeadership                                                     *)
Passed(g, P, q) ==
  [g EXCEPT !.leader[P] = q, !.memberList[P] = (@ \ {q}) \union {g.leader[P]}]

(* leaveParty: a leader is replaced by heir unless that leaves him alone.  *)
MissingLeader(g, P, p) ==
  /\ g.leader[P] = p
  /\ \/ g.memberList[P] = {}
     \/ g.inviteList[P] = {} /\ \E m \in g.memberList[P] : g.memberList[P] = {m}

Heirs(g, P, p) == {heir \in g.memberList[P] : g.leader[P] = p /\ ~MissingLeader(g, P, p)}

Departed(g, P, p) == [g EXCEPT !.memberList[P] = @ \ {p}, !.party[p] = NoParty]

Left(g, P, p, heir) ==
  LET missing == MissingLeader(g, P, p)
      led == IF g.leader[P] = p /\ ~missing THEN Passed(g, P, heir) ELSE g
      h == Departed(led, P, p)
  IN  DisbandedIf(missing \/ Empty(h, P), h, P)

(* clearPartyInvitations: removeInvite(p, false) by every inviting party,  *)
(* each of which may disband; then the player's own list is emptied.       *)
Cleared(g, p) ==
  LET invites == [P \in Parties |->
                    IF P \in g.invitePartyList[p] THEN g.inviteList[P] \ {p}
                                                  ELSE g.inviteList[P]]
      gone == {P \in g.invitePartyList[p] : g.memberList[P] = {} /\ invites[P] = {}}
  IN  [g EXCEPT
         !.inviteList = invites,
         !.invitePartyList[p] = {},
         !.live = @ \ gone,
         !.party = [q \in Players |->
                      IF \E P \in gone : g.leader[P] = q THEN NoParty ELSE @[q]],
         !.leader = [P \in Parties |-> IF P \in gone THEN NoPlayer ELSE @[P]]]

-----------------------------------------------------------------------------
(* Shared experience: operations on a record s, given the membership g.    *)

CanUse(s, g, P, p) ==
  g.memberList[P] # {} /\ p \in s.fit /\ s.ticks[P][p] = "fresh"

CanEnable(s, g, P) ==
  CanUse(s, g, P, g.leader[P]) /\ \A m \in g.memberList[P] : CanUse(s, g, P, m)

(* updateSharedExperience                                                  *)
Updated(s, g, P) ==
  IF s.active[P] THEN [s EXCEPT !.enabled[P] = CanEnable(s, g, P)] ELSE s

NotUpdated(s, g, P) == s

(* A new Party object: sharedExpBonus has no initial value.                *)
FreshShared(s, P) ==
  [s EXCEPT !.active[P] = FALSE, !.enabled[P] = FALSE, !.bonusKnown[P] = FALSE,
            !.ticks[P] = [p \in Players |-> "none"]]

(* clearPlayerPoints                                                       *)
PointsCleared(s, g, P, p) ==
  IF s.ticks[P][p] = "none" THEN s
  ELSE Updated([s EXCEPT !.ticks[P][p] = "none"], g, P)

(* A player's level and position, and with them the fitness of the party   *)
(* he is in, are whatever fit says.                                        *)
Refits(P) ==
  LET crew == {p \in Players : group.party[p] = P}
  IN  {(shared.fit \ crew) \union c : c \in SUBSET crew}

-----------------------------------------------------------------------------
Login(p) ==
  /\ p \notin online
  /\ online' = online \union {p}
  /\ UNCHANGED <<group, shared>>

(* Game::playerInviteToParty.  A player may invite himself: the invited    *)
(* one is looked at before the party is created.                           *)
Invite(p, q) ==
  /\ {p, q} \subseteq online
  /\ ~IsInviting(group, q, p)
  /\ group.party[q] = NoParty
  /\ \/ /\ group.party[p] = NoParty
        /\ \E P \in Parties \ group.live :
             /\ group' = Invited(Created(group, P, p), P, q)
             /\ shared' = FreshShared(shared, P)
     \/ /\ group.party[p] # NoParty
        /\ group.leader[group.party[p]] = p
        /\ group' = Invited(group, group.party[p], q)
        /\ UNCHANGED shared
  /\ UNCHANGED online

(* Game::playerJoinParty                                                   *)
AlreadyInPartyIgnored(p) == TRUE
InNoParty(p) == group.party[p] = NoParty

BonusUpdated(s, P) == [s EXCEPT !.bonusKnown[P] = TRUE]

Join(p, l) ==
  /\ {p, l} \subseteq online
  /\ IsInviting(group, l, p)
  /\ InNoParty(p)
  /\ LET P == group.party[l]
     IN  /\ group' = Joined(group, P, p)
         /\ shared' = BonusUpdated(Updated(shared, group', P), P)
  /\ UNCHANGED online

(* Game::playerRevokePartyInvitation                                       *)
Revoke(p, q) ==
  /\ {p, q} \subseteq online
  /\ IsInviting(group, p, q)
  /\ group' = InviteRemoved(group, group.party[p], q)
  /\ UNCHANGED <<online, shared>>

(* Game::playerPassPartyLeadership                                         *)
PassLeadership(p, q) ==
  /\ {p, q} \subseteq online /\ p # q
  /\ group.party[p] # NoParty
  /\ group.leader[group.party[p]] = p
  /\ group.party[q] = group.party[p]
  /\ LET P == group.party[p]
     IN  /\ group' = Passed(group, P, q)
         /\ shared' = Updated(shared, group', P)
  /\ UNCHANGED online

(* leaveParty by p, who is in g.  The ticks of a deleted party stay behind *)
(* with the rest of the object.                                            *)
SharedAfterLeaving(s, g, P, p) ==
  IF P \in g.live
    THEN PointsCleared(BonusUpdated(Updated(s, g, P), P), g, P, p)
    ELSE s

Leaves(g, p) ==
  LET P == g.party[p]
  IN  /\ \/ \E heir \in Heirs(g, P, p) : group' = Left(g, P, p, heir)
         \/ Heirs(g, P, p) = {} /\ group' = Left(g, P, p, p)
      /\ shared' = SharedAfterLeaving(shared, group', P, p)

(* Game::playerLeaveParty (never in a fight).                              *)
Leave(p) ==
  /\ p \in online
  /\ group.party[p] # NoParty
  /\ Leaves(group, p)
  /\ UNCHANGED online

(* Player::onRemoveCreature                                                *)
Logout(p) ==
  /\ p \in online
  /\ online' = online \ {p}
  /\ LET g == Cleared(group, p)
     IN  \/ g.party[p] = NoParty /\ group' = g /\ UNCHANGED shared
         \/ g.party[p] # NoParty /\ Leaves(g, p)

(* Game::playerEnableSharedPartyExperience                                 *)
EnableShared(p, sharedExpActive) ==
  /\ p \in online
  /\ group.party[p] # NoParty
  /\ group.leader[group.party[p]] = p
  /\ LET P == group.party[p]
         s == [shared EXCEPT !.active[P] = sharedExpActive]
     IN  /\ shared.active[P] # sharedExpActive
         /\ shared' = Updated(s, group, P)
  /\ UNCHANGED <<online, group>>

(* updatePlayerTicks, for an attack on a monster or the healing of a       *)
(* partner; clearPlayerPoints from Player::onIdleStatus.                   *)
Fight(p) ==
  /\ group.party[p] # NoParty
  /\ LET P == group.party[p]
     IN  shared' = Updated([shared EXCEPT !.ticks[P][p] = "fresh"], group, P)
  /\ UNCHANGED <<online, group>>

Idle(p) ==
  /\ group.party[p] # NoParty
  /\ shared' = PointsCleared(shared, group, group.party[p], p)
  /\ UNCHANGED <<online, group>>

(* Time passes: nobody looks at a tick that gets too old.                  *)
Expire(p) ==
  /\ group.party[p] # NoParty
  /\ shared.ticks[group.party[p]][p] = "fresh"
  /\ shared' = [shared EXCEPT !.ticks[group.party[p]][p] = "stale"]
  /\ UNCHANGED <<online, group>>

(* onCreatureMove, addExperience and removeExperience of p.                *)
UpdateAfterMove(s, g, P) == Updated(s, g, P)

Move(p) ==
  /\ p \in online
  /\ LET P == group.party[p]
     IN  \/ /\ P = NoParty
            /\ \E f \in {shared.fit \union {p}, shared.fit \ {p}} :
                 shared' = [shared EXCEPT !.fit = f]
         \/ /\ P # NoParty
            /\ \E f \in Refits(P) :
                 shared' = UpdateAfterMove([shared EXCEPT !.fit = f], group, P)
  /\ UNCHANGED <<online, group>>

Membership(p) ==
  \/ Login(p) \/ Logout(p) \/ Leave(p)
  \/ \E q \in Players :
       Invite(p, q) \/ Join(p, q) \/ Revoke(p, q) \/ PassLeadership(p, q)

Sharing(p) ==
  \/ Fight(p) \/ Idle(p) \/ Expire(p) \/ Move(p)
  \/ \E sharedExpActive \in BOOLEAN : EnableShared(p, sharedExpActive)

Next == \E p \in Players : Membership(p) \/ Sharing(p)

Spec == Init /\ [][Next]_vars

-----------------------------------------------------------------------------
(* Besides the types: exactly the live parties have a leader.              *)
TypeOK ==
  /\ online \subseteq Players /\ group \in Groups /\ shared \in Shareds
  /\ \A P \in Parties : P \in group.live <=> group.leader[P] # NoPlayer

(* A player's party pointer and the party's roster agree: nobody points at *)
(* a deleted party, nobody is in two, the leader is not his own member.    *)
RosterAgrees ==
  /\ \A p \in Players : group.party[p] # NoParty =>
       /\ group.party[p] \in group.live
       /\ p = group.leader[group.party[p]] \/ p \in group.memberList[group.party[p]]
  /\ \A P \in group.live :
       /\ group.party[group.leader[P]] = P
       /\ \A m \in group.memberList[P] : group.party[m] = P /\ m # group.leader[P]

(* An invitation is known to both sides, whichever of revoking, joining,   *)
(* leaving, logging out and disbanding ended it on the other; no player    *)
(* keeps a pointer to a deleted party.                                     *)
InvitationsMirrored ==
  /\ \A p \in Players, P \in Parties :
       p \in group.inviteList[P] <=> P \in group.invitePartyList[p]
  /\ \A P \in Parties \ group.live :
       group.memberList[P] = {} /\ group.inviteList[P] = {}

(* A party without members and invitations does not outlive the operation  *)
(* that made it so: there is no leader alone in a party he cannot see.     *)
NoEmptyParty == \A P \in group.live : ~Empty(group, P)

(* A player who has logged out, and whose object is about to be deleted,   *)
(* is in no party and on no invitation list.                               *)
OfflineForgotten ==
  \A p \in Players \ online :
    /\ group.party[p] = NoParty /\ group.invitePartyList[p] = {}
    /\ \A P \in Parties : p \notin group.inviteList[P] /\ p # group.leader[P]
                          /\ p \notin group.memberList[P]

(* Membership is in order, whichever operation ended or began it: rosters  *)
(* and invitations agree on both sides, no party outlives its people, and  *)
(* nobody who is gone is in one.                                           *)
MembershipOK ==
  RosterAgrees /\ InvitationsMirrored /\ NoEmptyParty /\ OfflineForgotten

(* A party is never denied the shared experience it is entitled to: every  *)
(* change of roster, fitness and ticks is followed by an update.           *)
NeverWronglyDenied ==
  \A P \in group.live :
    shared.active[P] /\ CanEnable(shared, group, P) => shared.enabled[P]

(* ... and only the passing of time, which triggers none, can leave it     *)
(* enabled when somebody no longer qualifies.                              *)
GrantedInErrorOnlyByTime ==
  \A P \in group.live :
    shared.active[P] /\ shared.enabled[P] /\ ~CanEnable(shared, group, P) =>
      \E p \in {group.leader[P]} \union group.memberList[P] :
        shared.ticks[P][p] = "stale"

(* sharedExpBonus, which the constructor leaves uninitialised, has been    *)
(* computed before shareExperience can read it.                            *)
BonusKnownWhenShared ==
  \A P \in group.live :
    shared.active[P] /\ shared.enabled[P] => shared.bonusKnown[P]

(* Shared experience is granted when it should be, at a known bonus, and   *)
(* otherwise only for want of an update.                                   *)
SharingFair == NeverWronglyDenied /\ GrantedInErrorOnlyByTime /\ BonusKnownWhenShared

(* A step brings a player into a party only as its founder or if he had an *)
(* invitation to it, and never straight from another party.                *)
JoinedByInvitation ==
  [][\A p \in Players :
       group'.party[p] \notin {group.party[p], NoParty} =>
         /\ group.party[p] = NoParty
         /\ \/ group'.party[p] \in group.invitePartyList[p]
            \/ group'.party[p] \notin group.live /\ group'.leader[group'.party[p]] = p]_vars
=============================================================================
