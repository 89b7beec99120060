------------------------------- MODULE Worlds -------------------------------
(* The entities of the game worlds: slots that are used again, handles that   *)
(* must not be (gameworld.cpp), what refers to what by handle (projectile.h,  *)
(* mob.cpp, chain.h), the cleanup at the end of a tick, and players who take  *)
(* what they control to another world (world_transition.cpp). The ids that    *)
(* were never used are the bottom of the free list: the last one is next.     *)
(* Dandelion missiles, which outlive their plant on purpose, are left out,    *)
(* and so are the summons of mobs, which may outlive their owner.             *)
EXTENDS Integers, FiniteSets, FiniteSetsExt, SequencesExt

CONSTANTS Lands,      \* the worlds
  MaxId,              \* bound: the last slot of a world
  Homes,              \* bound: the worlds where mobs and players appear
  Pilots,             \* the players
  Travellers,         \* bound: those who spawn and change worlds
  MaxGiven,           \* bound: the handles given, in all worlds together
  NoEntity, NoLand, NoHandle

Ids == 0..MaxId
AnyHandle == Lands \X Ids \X (Nat \ {0})

\* of: what an entity belongs to (its owner, its root, the ends of a chain and
\* its lease); parts: the bodies of a multi-segment mob.
Entity == [gen : Nat \ {0}, kind : {"flower", "mob", "body", "petal", "shot", "summon", "chain"},
           of : SUBSET AnyHandle, parts : SUBSET AnyHandle, tags : SUBSET {"owned", "summons"}, marked : BOOLEAN]

ASSUME WorldsAssumption ==
  /\ MaxGiven \in Nat /\ MaxId \in Nat /\ Homes \subseteq Lands /\ Travellers \subseteq Pilots
  /\ NoLand \notin Lands /\ NoHandle \notin AnyHandle /\ NoEntity \notin Entity

VARIABLES
  land,     \* per world: m_p_entities, m_free_ids and m_next_generation
  control,  \* per player: m_entity_ref
  cleaning, \* the world whose Cleanup runs
  gone,     \* clear_owned_owner_keys and clear_summon_owner_keys: <<handle, key list>>
  given     \* history: every handle that ever named an entity

worldsVars == <<land, control, cleaning, gone, given>>

At(l, h) == l[h[1]].at[h[2]]
GetHandle(l, w, i) == <<w, i, l[w].at[i].gen>>

\* ResolveEntity
Finds(l, h) == h # NoHandle /\ At(l, h) # NoEntity /\ At(l, h).gen = h[3]
HandlesIn(l, w) == {GetHandle(l, w, i) : i \in {i \in Ids : l[w].at[i] # NoEntity}}
Handles(l) == UNION {HandlesIn(l, w) : w \in Lands}
Fit(l, h) == Finds(l, h) /\ ~At(l, h).marked

\* GetNewID, and InsertEntity at that id.
NewId(l, w) == Last(l[w].free)
Inserted(l, w, kind, of) ==
  [l EXCEPT ![w] = [at |-> [@.at EXCEPT ![NewId(l, w)] =
                              [gen |-> l[w].gen, kind |-> kind, of |-> of, parts |-> {},
                               tags |-> IF kind = "flower" THEN {"summons"} ELSE {}, marked |-> FALSE]],
                    free |-> Front(@.free), gen |-> @.gen + 1]]

\* MarkForDestroy
Marked(l, hs) ==
  [w \in Lands |-> [l[w] EXCEPT !.at =
     [i \in Ids |-> IF @[i] # NoEntity /\ <<w, i, @[i].gen>> \in hs
                      THEN [@[i] EXCEPT !.marked = TRUE] ELSE @[i]]]]

\* DestroyProjectilesOwnedBy, DestroySummonedMobsOwnedBy
OwnedBy(l, hs, kinds) == {h \in Handles(l) : At(l, h).kind \in kinds /\ At(l, h).of \cap hs # {}}

\* NotifyLeaseOnce takes a broken chain from its Linker; the chains that have an
\* end or their lease among hs break.
ChainsOf(l, hs) == OwnedBy(l, hs, {"chain"})

Calm == cleaning = NoLand
-----------------------------------------------------------------------------
WorldsInit ==
  /\ land = [w \in Lands |-> [at |-> [i \in Ids |-> NoEntity], free |-> [i \in 1..(MaxId + 1) |-> MaxId + 1 - i], gen |-> 1]]
  /\ control = [p \in Pilots |-> NoHandle]
  /\ cleaning = NoLand
  /\ gone = {}
  /\ given = {}

HasRoom(w, n) == Len(land[w].free) >= n /\ Cardinality(given) + n <= MaxGiven
Keep(l) == land' = l /\ given' = given \cup Handles(l)

\* A mob enters the world, alone or assembled with a body (InsertEntity with
\* AssembleMultiSegmentMob).
Assembled(l, w) ==
  LET root == Inserted(l, w, "mob", {})
      whole == Inserted(root, w, "body", {<<w, NewId(l, w), l[w].gen>>})
  IN [whole EXCEPT ![w].at[NewId(l, w)].parts = {<<w, NewId(root, w), root[w].gen>>}]
SpawnMob(w) ==
  /\ Calm
  /\ \/ HasRoom(w, 1) /\ Keep(Inserted(land, w, "mob", {}))
     \/ HasRoom(w, 2) /\ Keep(Assembled(land, w))
  /\ UNCHANGED <<control, cleaning, gone>>

\* The constructor of CProjectile; an egg's summon.
SpawnOwned(h, kind) ==
  /\ Calm /\ Fit(land, h)
  /\ At(land, h).kind \in IF kind = "shot" THEN {"flower", "mob", "body"} ELSE {"flower"}
  /\ HasRoom(h[1], 1)
  /\ Keep(IF kind = "summon" THEN Inserted(land, h[1], kind, {h})
          ELSE [Inserted(land, h[1], kind, {h}) EXCEPT ![h[1]].at[h[2]].tags = @ \cup {"owned"}])
  /\ UNCHANGED <<control, cleaning, gone>>

\* A Linker petal hits a mob: a chain between them, leased by the petal.
LinkChain(petal, h) ==
  /\ Calm /\ Fit(land, petal) /\ Fit(land, h) /\ petal[1] = h[1]
  /\ At(land, petal).kind = "petal" /\ h \notin At(land, petal).of
  /\ At(land, h).kind \in {"flower", "mob", "body", "summon"}
  /\ ChainsOf(land, {petal}) = {} /\ HasRoom(h[1], 1)
  /\ Keep(Inserted(land, h[1], "chain", {petal, h}))
  /\ UNCHANGED <<control, cleaning, gone>>

Destroy(h) ==
  /\ Calm /\ Fit(land, h)
  /\ Keep(Marked(land, {h}))
  /\ UNCHANGED <<control, cleaning, gone>>

-----------------------------------------------------------------------------
\* Cleanup, at the end of a world's tick.
BeginCleanup(w) ==
  /\ Calm /\ \E h \in HandlesIn(land, w) : At(land, h).marked
  /\ cleaning' = w
  /\ UNCHANGED <<land, control, gone, given>>

\* OnBeforeRemoved: DestroyMultiSegmentChildren, or DetachMultiSegmentBody,
\* which retires the root too when the segments form a chain; a petal's chain
\* loses its lease.
\* Mistake: a root leaves its bodies alone.
RootOnly(l, h, hard) == l
Detached(l, h, roots) ==
  [w \in Lands |-> [l[w] EXCEPT !.at =
     [i \in Ids |-> IF roots # {} /\ @[i] # NoEntity /\ <<w, i, @[i].gen>> \in roots
                      THEN [@[i] EXCEPT !.parts = l[w].at[i].parts \ {h}] ELSE @[i]]]]
LettingGo(l, h, hard) ==
  LET e == At(l, h)
      roots == {r \in e.of : e.kind = "body" /\ Finds(l, r)}
      bodies == {b \in e.parts : Finds(l, b) /\ h \in At(l, b).of}
  IN Marked(Detached(l, h, roots), bodies \cup IF hard THEN roots ELSE {})
Freed(l, h) ==
  [l EXCEPT ![h[1]] = [at |-> [@.at EXCEPT ![h[2]] = NoEntity], free |-> Append(@.free, h[2]), gen |-> @.gen]]
RemoveEntity(h, hard) ==
  /\ cleaning = h[1] /\ Finds(land, h) /\ At(land, h).marked
  /\ gone' = gone \cup ({h} \X At(land, h).tags)
  /\ Keep(Freed(LettingGo(land, h, hard), h))
  /\ UNCHANGED <<control, cleaning>>

\* The queue is empty: what the removed ones owned goes too, and the chains
\* check their ends (ValidateReferences). Nothing new means Cleanup is done.
Orphans(l, w, keys) ==
  {h \in HandlesIn(l, w) : ~At(l, h).marked /\
     \/ At(l, h).kind \in {"shot", "petal"} /\ \E r \in At(l, h).of : <<r, "owned">> \in keys
     \/ At(l, h).kind = "summon" /\ \E r \in At(l, h).of : <<r, "summons">> \in keys
     \/ At(l, h).kind = "chain" /\ \E r \in At(l, h).of : ~Fit(l, r)}
SweepOwned ==
  /\ ~Calm /\ \A h \in HandlesIn(land, cleaning) : ~At(land, h).marked
  /\ Keep(Marked(land, Orphans(land, cleaning, gone)))
  /\ gone' = {}
  /\ cleaning' = IF Orphans(land, cleaning, gone) = {} THEN NoLand ELSE cleaning
  /\ UNCHANGED control

-----------------------------------------------------------------------------
\* SpawnPlayer: a new flower for a player without one; the old one's petals and
\* summons go with it (PrepareRespawnDestroy).
SpawnPlayer(p, w) ==
  /\ Calm /\ HasRoom(w, 1)
  /\ LET old == control[p]
         flower == Finds(land, old) /\ At(land, old).kind = "flower"
         left == IF flower THEN Marked(land, {old} \cup OwnedBy(land, {old}, {"summon", "petal"})) ELSE land
     IN /\ Finds(land, old) => At(land, old).kind = "flower" \/ At(land, old).marked
        /\ Keep(Inserted(left, w, "flower", {}))
  /\ control' = [control EXCEPT ![p] = <<w, NewId(land, w), land[w].gen>>]
  /\ UNCHANGED <<cleaning, gone>>

\* CWorldTransfer::Possess. The player's controller replaces the summon's, with
\* the owner it names.
Occupied(c, p, h) == \E q \in Pilots \ {p} : c[q] = h
Possess(p, h) ==
  /\ Calm /\ Fit(land, h) /\ At(land, h).kind \in {"flower", "mob", "body", "summon"}
  /\ ~Occupied(control, p, h) /\ control[p] # h
  /\ control' = [control EXCEPT ![p] = h]
  /\ Keep(IF At(land, h).kind = "summon"
            THEN [land EXCEPT ![h[1]].at[h[2]] = [@ EXCEPT !.kind = "mob", !.of = {}]] ELSE land)
  /\ UNCHANGED <<cleaning, gone>>

\* CWorldTransfer::Move. What is attached moves as one: the root with all its
\* bodies, and the petals of a flower.
Compound(l, h) ==
  LET roots == IF At(l, h).kind = "body" THEN At(l, h).of ELSE {h}
      bodies == UNION {At(l, r).parts : r \in {r \in roots : Finds(l, r)}}
  IN {h} \cup roots \cup bodies
       \cup {q \in Handles(l) : At(l, q).kind = "petal" /\ ~At(l, q).marked /\ h \in At(l, q).of}

\* Move is refused when a part is missing or another player's.
\* Mistake: only the parts are asked for.
MayMoveAnyones(l, c, p, parts) == \A h \in parts : Fit(l, h)
MayMove(l, c, p, parts) == \A h \in parts : Fit(l, h) /\ ~Occupied(c, p, h)

\* The new handles; f is the order in which the parts are listed.
After(l, w, f, h) ==
  LET n == CHOOSE n \in DOMAIN f : f[n] = h
  IN <<w, l[w].free[Len(l[w].free) + 1 - n], l[w].gen + n - 1>>
\* RemapTransferredReferences: what did not move along is forgotten.
Remapped(l, w, f, hs) == {After(l, w, f, h) : h \in hs \cap Range(f)}
Arriving(l, w, f, h) ==
  LET e == At(l, h)
  IN [gen |-> After(l, w, f, h)[3], kind |-> e.kind, of |-> Remapped(l, w, f, e.of),
      parts |-> Remapped(l, w, f, e.parts), tags |-> e.tags, marked |-> e.kind = "petal"]
TransferredTo(l, w, f) ==
  [x \in Lands |->
     IF x = w THEN
       [at |-> [i \in Ids |-> IF \E h \in Range(f) : After(l, w, f, h)[2] = i
                                THEN Arriving(l, w, f, CHOOSE h \in Range(f) : After(l, w, f, h)[2] = i)
                                ELSE l[w].at[i]],
        free |-> SubSeq(l[w].free, 1, Len(l[w].free) - Len(f)),
        gen |-> l[w].gen + Len(f)]
     ELSE IF x = f[1][1] THEN
       [at |-> [i \in Ids |-> IF \E h \in Range(f) : h[2] = i THEN NoEntity ELSE l[x].at[i]],
        free |-> l[x].free \o [n \in DOMAIN f |-> f[n][2]],
        gen |-> l[x].gen]
     ELSE l[x]]

\* External relations end: what was fired or summoned stays and goes, chains
\* break.
LeftOver(l, w, f) == OwnedBy(l, Range(f), {"shot", "petal", "summon"}) \cup ChainsOf(l, Range(f))

Transfer(p, w) ==
  /\ Calm /\ Fit(land, control[p]) /\ control[p][1] # w
  /\ LET parts == Compound(land, control[p])
     IN /\ MayMove(land, control, p, parts)
        /\ HasRoom(w, Cardinality(parts))
        /\ \E f \in SetToSeqs(parts) :
             /\ f[1] = control[p]
             /\ Keep(TransferredTo(Marked(land, LeftOver(land, w, f)), w, f))
             /\ control' = [control EXCEPT ![p] = After(land, w, f, control[p])]
  /\ UNCHANGED <<cleaning, gone>>

\* A world's part of a hot reload: the entities are inserted with their
\* identities, then the saved next generation is restored.
\* Mistake: the next generation follows from the entities alone.
NextOfLiving(l, w) == 1 + Max({0} \cup {h[3] : h \in HandlesIn(l, w)})
RestoredNext(l, w) == Max({NextOfLiving(l, w), l[w].gen})
Ascending(S) == [n \in 1..Cardinality(S) |-> CHOOSE i \in S : Cardinality({j \in S : j < i}) = n - 1]
\* FinalizeEntityRestore: the free ids in order, on top of those never used.
RestoredFree(l, w) ==
  LET next == 1 + Max({-1} \cup {h[2] : h \in HandlesIn(l, w)})
  IN [n \in 1..(MaxId + 1 - next) |-> MaxId + 1 - n]
       \o Ascending({i \in 0..(next - 1) : l[w].at[i] = NoEntity})
ReloadWorlds ==
  /\ Calm
  /\ land' = [w \in Lands |-> [at |-> land[w].at, free |-> RestoredFree(land, w), gen |-> RestoredNext(land, w)]]
  /\ UNCHANGED <<control, cleaning, gone, given>>

WorldsNext ==
  \/ \E w \in Homes : SpawnMob(w)
  \/ \E w \in Lands : BeginCleanup(w)
  \/ LET all == Handles(land) IN \E h \in all :
       \/ \E kind \in {"shot", "petal", "summon"} : SpawnOwned(h, kind)
       \/ \E q \in all : LinkChain(q, h)
       \/ Destroy(h)
       \/ \E hard \in BOOLEAN : RemoveEntity(h, hard)
       \/ \E p \in Pilots : Possess(p, h)
  \/ SweepOwned
  \/ \E p \in Travellers :
       \/ \E w \in Homes : SpawnPlayer(p, w)
       \/ \E w \in Lands : Transfer(p, w)
  \/ ReloadWorlds

WorldsSpec == WorldsInit /\ [][WorldsNext]_worldsVars
-----------------------------------------------------------------------------
WorldsTypeOK ==
  /\ land \in [Lands -> [at : [Ids -> Entity \cup {NoEntity}], free : Seq(Ids), gen : Nat \ {0}]]
  /\ control \in [Pilots -> AnyHandle \cup {NoHandle}]
  /\ cleaning \in Lands \cup {NoLand}
  /\ gone \subseteq AnyHandle \X {"owned", "summons"}
  /\ given \subseteq AnyHandle

\* No id is free twice or free while in use (the code only logs it), across
\* removals, moves and hot reloads.
SlotsAreAccounted ==
  \A w \in Lands : /\ IsInjective(land[w].free)
                   /\ Range(land[w].free) = {i \in Ids : land[w].at[i] = NoEntity}

\* Between two ticks nothing hangs in the air: every petal, shot, summon, body
\* and chain still has what it belongs to, and a root's bodies are there and
\* are its own.
RelationsResolve ==
  Calm => \A h \in Handles(land) : ~At(land, h).marked =>
    /\ At(land, h).kind \in {"petal", "shot", "summon", "body", "chain"} => At(land, h).of # {}
    /\ \A r \in At(land, h).of : Finds(land, r) /\ r[1] = h[1]
    /\ \A b \in At(land, h).parts : Finds(land, b) /\ At(land, b).of = {h}
    /\ At(land, h).kind = "body" => \A r \in At(land, h).of : h \in At(land, r).parts

WorldsAreSound == SlotsAreAccounted /\ RelationsResolve

\* A handle never names a second entity, however often its slot is used again,
\* across moves between worlds and hot reloads.
HandlesNameOne == [][land' # land => \A h \in Handles(land') \ Handles(land) : h \notin given]_worldsVars

\* What a player controls does not go away with somebody else's move, and two
\* players never control the same.
ControlIsKept ==
  [][<<land, control>>' # <<land, control>> => \A p \in Pilots :
       /\ Fit(land, control[p]) /\ control'[p] = control[p] => Finds(land', control[p])
       /\ \A q \in Pilots \ {p} : Finds(land', control'[p]) => control'[q] # control'[p]]_worldsVars
=============================================================================
