------------------------------- MODULE Squads -------------------------------
(* Squads of the players in one world (squad_extension.cpp): an index from   *)
(* player id to the id of the squad's root, invitations, and a cache of who  *)
(* was in the world at the last refresh. Players leave the world and come    *)
(* back, ids are given to new players, the server hot-reloads; what other    *)
(* parts ask (Members, RootId) is answered from an index nobody refreshed.   *)
EXTENDS Naturals, FiniteSets, FiniteSetsExt

CONSTANTS
  PlayerIds,     \* the ids of players
  SquadLimits,   \* values of open_controller_max_squad_size to look at
  Recycled,      \* bound: the ids that are given to new players
  MaxSessions,   \* bound: how often
  NoSquad

Sessions == PlayerIds \X (1..MaxSessions)
Memberships == [root : PlayerIds, generation : 1..MaxSessions]

ASSUME SquadsAssumption ==
  /\ PlayerIds \subseteq Nat /\ SquadLimits \subseteq Nat \ {0} /\ Recycled \subseteq PlayerIds
  /\ MaxSessions \in Nat \ {0} /\ NoSquad \notin Memberships
  /\ \A some \in SUBSET Sessions : NoSquad # some

VARIABLES
  maxSquad,    \* open_controller_max_squad_size
  session,     \* by id: the session that has it, and whether it is in the world
  membership,  \* m_memberships with m_generations
  invites,     \* m_invites, by invitee
  lastActive,  \* m_last_active, or NoSquad
  bands        \* history: the squads that players agreed on

squadVars == <<maxSquad, session, membership, invites, lastActive, bands>>

Session(id) == <<id, session[id].generation>>
\* InWorld: connected, authenticated and in this world.
InWorld(id) == session[id].here
Active == {Session(id) : id \in {id \in PlayerIds : InWorld(id)}}

-----------------------------------------------------------------------------
(* Queries.                                                                  *)

\* Resolve: a known id must still be the session it was.
ResolvesId(m, id) ==
  InWorld(id) /\ (m[id] = NoSquad \/ m[id].generation = session[id].generation)

\* Root of the normalized index.
Root(m, id) == IF m[id] = NoSquad THEN id ELSE m[id].root
MemberIds(m, root) ==
  {id \in PlayerIds : m[id] # NoSquad /\ Root(m, id) = root /\ ResolvesId(m, id)}
Members(id) ==
  IF ~InWorld(id) THEN {}
  ELSE IF ~ResolvesId(membership, id) \/ membership[id] = NoSquad THEN {id}
  ELSE MemberIds(membership, Root(membership, id))
RootId(id) ==
  LET root == Root(membership, id)
      ids == MemberIds(membership, root)
  IN IF ~ResolvesId(membership, id) \/ ids = {} THEN id
     ELSE IF root \in ids THEN root ELSE Min(ids)

-----------------------------------------------------------------------------
(* Refresh, which every command does first.                                  *)

Single(id) == [root |-> id, generation |-> session[id].generation]
\* Ensure
Ensured(m, ids) ==
  [id \in PlayerIds |-> IF id \notin ids THEN m[id]
     ELSE IF m[id] = NoSquad THEN Single(id) ELSE [m[id] EXCEPT !.generation = session[id].generation]]

Known(id) == InWorld(id) /\ membership[id] # NoSquad /\ membership[id].generation = session[id].generation
Component(root) == {id \in PlayerIds : Known(id) /\ Root(membership, id) = root}
\* Mistake: the squad goes on under the id of its root, whoever has it now.
OldRoot(root) == root
\* A squad whose root is gone goes on under its smallest id.
NewRoot(root) == IF root \in Component(root) THEN root ELSE Min(Component(root))
Regrouped ==
  [id \in PlayerIds |-> IF ~InWorld(id) THEN NoSquad
     ELSE IF Known(id) THEN [root |-> NewRoot(Root(membership, id)), generation |-> session[id].generation]
     ELSE Single(id)]
Fresh == lastActive = Active
Refreshed == IF Fresh THEN membership ELSE Regrouped

StillInvited(m, invite) ==
  /\ ResolvesId(m, invite.invitee[1]) /\ ResolvesId(m, invite.inviter[1])
  /\ Session(invite.invitee[1]) = invite.invitee /\ Session(invite.inviter[1]) = invite.inviter
Pruned == IF Fresh THEN invites ELSE {i \in invites : StillInvited(Regrouped, i)}

\* History: who has left, or is somebody else, is in no squad any more.
AgreedNow == IF Fresh THEN bands ELSE {band \cap Active : band \in bands} \ {{}}
BandOf(all, s) == (UNION {band \in all : s \in band}) \cup {s}

-----------------------------------------------------------------------------
SquadsInit ==
  /\ maxSquad \in SquadLimits
  /\ session = [id \in PlayerIds |-> [generation |-> 1, here |-> FALSE]]
  /\ membership = [id \in PlayerIds |-> NoSquad]
  /\ invites = {}
  /\ lastActive = NoSquad
  /\ bands = {}

\* Once in a tick.
Refresh ==
  /\ ~Fresh
  /\ membership' = Refreshed /\ invites' = Pruned /\ bands' = AgreedNow /\ lastActive' = Active
  /\ UNCHANGED <<maxSquad, session>>

Invite(a, b) ==
  /\ InWorld(a) /\ InWorld(b) /\ a # b
  /\ membership' = Ensured(Refreshed, {a, b})
  /\ invites' = {i \in Pruned : i.invitee[1] # b} \cup {[inviter |-> Session(a), invitee |-> Session(b)]}
  /\ bands' = AgreedNow /\ lastActive' = Active
  /\ UNCHANGED <<maxSquad, session>>

\* ConsumeInvite, of an index that may be stale.
Consumable(i) ==
  /\ Session(i.invitee[1]) = i.invitee /\ InWorld(i.invitee[1])
  /\ ResolvesId(membership, i.inviter[1]) /\ Session(i.inviter[1]) = i.inviter
Refuse(i) ==
  /\ i \in invites
  /\ invites' = invites \ {i}
  /\ UNCHANGED <<maxSquad, session, membership, lastActive, bands>>

\* "/invite accept" with Accept: the squad of the invitee joins the other one.
Accept(i) ==
  LET a == i.inviter[1]  b == i.invitee[1]
      m == Ensured(Refreshed, {a, b})
      joining == MemberIds(m, Root(m, b))
      hosts == MemberIds(m, Root(m, a))
      accepted == Root(m, a) # Root(m, b) /\ Cardinality(joining) + Cardinality(hosts) <= maxSquad
  IN /\ i \in invites /\ Consumable(i)
     /\ invites' = Pruned \ {i}
     /\ membership' = IF accepted THEN [id \in PlayerIds |-> IF id \in joining
                                          THEN [m[id] EXCEPT !.root = Root(m, a)] ELSE m[id]]
                      ELSE m
     /\ bands' = IF accepted
                   THEN LET one == BandOf(AgreedNow, Session(a)) \cup BandOf(AgreedNow, Session(b))
                        IN {band \in AgreedNow : band \cap one = {}} \cup {one}
                   ELSE AgreedNow
     /\ lastActive' = Active /\ UNCHANGED <<maxSquad, session>>

\* Leave
Successor(id, root, others) == IF id = root THEN Min(others) ELSE root
Leave(id) ==
  LET m == Ensured(Refreshed, {id})
      root == Root(m, id)
      others == MemberIds(m, root) \ {id}
  IN /\ InWorld(id) /\ others # {}
     /\ membership' = [p \in PlayerIds |->
          IF p \in others THEN [m[p] EXCEPT !.root = Successor(id, root, others)]
          ELSE IF p = id THEN [m[p] EXCEPT !.root = id] ELSE m[p]]
     /\ bands' = {band \ {Session(id)} : band \in AgreedNow} \ {{}}
     /\ invites' = Pruned /\ lastActive' = Active /\ UNCHANGED <<maxSquad, session>>

-----------------------------------------------------------------------------
\* A player goes to another world or loses its connection; comes back; is
\* dropped, and its id given to another one.
Depart(id) ==
  /\ InWorld(id) /\ session' = [session EXCEPT ![id].here = FALSE]
  /\ UNCHANGED <<maxSquad, membership, invites, lastActive, bands>>
Return(id) ==
  /\ ~InWorld(id) /\ session' = [session EXCEPT ![id].here = TRUE]
  /\ UNCHANGED <<maxSquad, membership, invites, lastActive, bands>>
Recycle(id, here) ==
  /\ id \in Recycled /\ session[id].generation < MaxSessions
  /\ session' = [session EXCEPT ![id] = [generation |-> @.generation + 1, here |-> here]]
  /\ UNCHANGED <<maxSquad, membership, invites, lastActive, bands>>

\* CaptureSnapshot and RestoreSnapshot
ReloadSquads ==
  /\ invites' = {} /\ lastActive' = NoSquad
  /\ membership' = [id \in PlayerIds |-> IF membership[id] = NoSquad THEN NoSquad
                                         ELSE [membership[id] EXCEPT !.root = Root(membership, id)]]
  /\ UNCHANGED <<maxSquad, session, bands>>

SquadsNext ==
  \/ Refresh \/ ReloadSquads
  \/ \E a, b \in PlayerIds : Invite(a, b)
  \/ \E i \in invites : Accept(i) \/ Refuse(i)
  \/ \E id \in PlayerIds : Leave(id) \/ Depart(id) \/ Return(id) \/ Recycle(id, TRUE)

SquadsSpec == SquadsInit /\ [][SquadsNext]_squadVars
-----------------------------------------------------------------------------
SquadsTypeOK ==
  /\ maxSquad \in SquadLimits
  /\ session \in [PlayerIds -> [generation : 1..MaxSessions, here : BOOLEAN]]
  /\ membership \in [PlayerIds -> Memberships \cup {NoSquad}]
  /\ invites \subseteq [inviter : Sessions, invitee : Sessions]
  /\ \A band \in bands : band \subseteq Sessions

\* Whoever asks, and whenever: the members of a player's squad are the players
\* in the world who agreed to be in it, they answer to one root that no other
\* squad has, and there are not too many of them. A new player never inherits
\* the squad of the id.
SquadsAreAgreedOn ==
  \A id \in PlayerIds : InWorld(id) =>
    /\ Members(id) = {p \in PlayerIds : InWorld(p) /\ Session(p) \in BandOf(bands, Session(id))}
    /\ Cardinality(Members(id)) <= maxSquad
    /\ \A p \in PlayerIds : InWorld(p) => (RootId(p) = RootId(id) <=> p \in Members(id))
=============================================================================
