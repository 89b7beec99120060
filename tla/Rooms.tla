------------------------------- MODULE Rooms -------------------------------
(* Worlds and the rooms made of them (world_module.cpp): a room starts as a  *)
(* waiting world whose controller (waitingcontroller.cpp) makes the game     *)
(* world when the players start it; empty waiting worlds and idle rooms are  *)
(* closed; an operator creates and destroys worlds and replaces controllers. *)
(* A world that ticks cannot let a player go: moves wait for the end of the  *)
(* tick. World ids are used again, generations never.                        *)
EXTENDS Integers, FiniteSets, FiniteSetsExt

CONSTANTS Guests, Codes,
  MinGuests,    \* minimum_player_count of the waiting rooms
  IdleLimit,    \* room_idle_destroy_seconds, in ticks
  MaxWorldId,   \* bound: ids of worlds
  MaxBuilt,     \* bound: worlds ever built
  NoWorld, NoCode

WorldIds == 0..MaxWorldId
WorldRefs == WorldIds \X (1..MaxBuilt)
Controllers == [waits : BOOLEAN, goal : WorldIds \cup {NoWorld}, code : Codes \cup {NoCode},
                auto : BOOLEAN, start : BOOLEAN]
WorldRecords == [generation : 1..MaxBuilt, by : Controllers]

ASSUME RoomsAssumption ==
  /\ MinGuests \in Nat \ {0} /\ IdleLimit \in Nat \ {0} /\ MaxWorldId \in Nat /\ MaxBuilt \in Nat \ {0}
  /\ NoWorld \notin WorldIds \cup WorldRefs \cup WorldRecords
  /\ NoCode \notin Codes

VARIABLES
  worlds,    \* m_worlds, by id
  built,     \* the last generation given to a world
  mainRef,   \* m_main_world_ref: <<id, generation>>
  rooms,     \* m_rooms, m_room_waiting_worlds and m_room_empty_seconds, by code
  place,     \* where the entity of a player is, and what it is
  unticked,  \* m_simulating_worlds: the worlds still to tick, or NoWorld
  deferred   \* m_deferred_transfers: <<player, from, to>>

roomVars == <<worlds, built, mainRef, rooms, place, unticked, deferred>>

NoRoom == [active |-> NoWorld, waiting |-> NoWorld, idle |-> 0]
Open == [waits |-> FALSE, goal |-> NoWorld, code |-> NoCode, auto |-> FALSE, start |-> FALSE]
\* The config of the controller that world_create and world_controller make.
Waits == [Open EXCEPT !.waits = TRUE]

Exists(w, ref) == ref # NoWorld /\ w[ref[1]] # NoWorld /\ w[ref[1]].generation = ref[2]
Ref(w, id) == <<id, w[id].generation>>
Simulating == unticked # NoWorld

\* CreateWorld: one more than the largest id.
NextId == 1 + Max({id \in WorldIds : worlds[id] # NoWorld})
CanBuild == NextId <= MaxWorldId /\ built < MaxBuilt
Built(w, controller) == [w EXCEPT ![NextId] = [generation |-> built + 1, by |-> controller]]

\* CWorldTransfer::Move, where the entity allows it: dead ones go along.
Movable(p) == place[p].is \in {"alive", "dead"}
Moves(at, people, ref) == [p \in Guests |-> IF p \in people THEN [at[p] EXCEPT !.ref = ref] ELSE at[p]]

\* ~CGameWorld: who was in it is due for a respawn.
Evicted(at, ids) ==
  [p \in Guests |-> IF at[p].ref # NoWorld /\ at[p].ref[1] \in ids
                      THEN [ref |-> NoWorld, is |-> "due"] ELSE at[p]]
Without(w, ids) == [id \in WorldIds |-> IF id \in ids THEN NoWorld ELSE w[id]]

-----------------------------------------------------------------------------
RoomsInit ==
  /\ worlds = [id \in WorldIds |-> IF id = 0 THEN [generation |-> 1, by |-> Open] ELSE NoWorld]
  /\ built = 1
  /\ mainRef = <<0, 1>>
  /\ rooms = [c \in Codes |-> NoRoom]
  /\ place = [p \in Guests |-> [ref |-> mainRef, is |-> "alive"]]
  /\ unticked = NoWorld
  /\ deferred = {}

\* "/create": CreateRoomWorld, and the creator joins.
CreateRoom(p, c) ==
  /\ ~Simulating /\ CanBuild /\ rooms[c].active = NoWorld
  /\ worlds' = Built(worlds, [Waits EXCEPT !.code = c])
  /\ built' = built + 1
  /\ rooms' = [rooms EXCEPT ![c].active = <<NextId, built'>>, ![c].waiting = <<NextId, built'>>]
  /\ place' = IF Movable(p) THEN Moves(place, {p}, <<NextId, built'>>) ELSE place
  /\ UNCHANGED <<mainRef, unticked, deferred>>

\* "/join-room": into the waiting world, or the game once there is one.
JoinRoom(p, c) ==
  /\ ~Simulating /\ Movable(p) /\ Exists(worlds, rooms[c].active) /\ place[p].ref # rooms[c].active
  /\ place' = Moves(place, {p}, rooms[c].active)
  /\ UNCHANGED <<worlds, built, mainRef, rooms, unticked, deferred>>

\* ResolveDestinationWorld: by id alone.
Goal(id) == LET goal == worlds[id].by.goal
            IN IF goal = NoWorld \/ worlds[goal] = NoWorld THEN NoWorld ELSE goal

\* CreateRoomGameWorld, for a waiting world that its room still points to.
CanBuildGame(id) ==
  LET c == worlds[id].by.code
  IN /\ CanBuild /\ c # NoCode
     /\ Exists(worlds, rooms[c].active) /\ worlds[rooms[c].active[1]].by.waits
GameBuilt(id, start) ==
  LET controller == [worlds[id].by EXCEPT !.goal = NextId, !.start = start]
  IN /\ worlds' = [Built(worlds, Open) EXCEPT ![id].by = controller]
     /\ built' = built + 1
     /\ rooms' = [rooms EXCEPT ![worlds[id].by.code].active = <<NextId, built'>>]

\* "/start", typed by a player in a waiting world.
Start(p) ==
  LET id == place[p].ref[1]
  IN /\ ~Simulating /\ place[p].is \in {"alive", "dead", "marked"} /\ worlds[id].by.waits
     /\ \/ Goal(id) # NoWorld /\ worlds' = [worlds EXCEPT ![id].by.start = TRUE]
           /\ UNCHANGED <<built, rooms>>
        \/ Goal(id) = NoWorld /\ CanBuildGame(id) /\ GameBuilt(id, TRUE)
     /\ UNCHANGED <<mainRef, place, unticked, deferred>>

\* "/setting policy"
SetPolicy(p, auto) ==
  LET id == place[p].ref[1]
  IN /\ ~Simulating /\ place[p].is \in {"alive", "dead", "marked"}
     /\ worlds[id].by.waits /\ worlds[id].by.auto # auto
     /\ worlds' = [worlds EXCEPT ![id].by.auto = auto]
     /\ UNCHANGED <<built, mainRef, rooms, place, unticked, deferred>>

-----------------------------------------------------------------------------
(* The operator's commands.                                                  *)

\* world_create
CreateWorld(controller) ==
  /\ ~Simulating /\ CanBuild
  /\ worlds' = Built(worlds, controller) /\ built' = built + 1
  /\ UNCHANGED <<mainRef, rooms, place, unticked, deferred>>

\* world_controller. What the old one does for its players it does in vain:
\* nobody can be moved while a controller is being replaced.
SetController(id, controller) ==
  /\ ~Simulating /\ worlds[id] # NoWorld /\ worlds[id].by # controller
  /\ worlds' = [worlds EXCEPT ![id].by = controller]
  /\ UNCHANGED <<built, mainRef, rooms, place, unticked, deferred>>

\* world_main
SetMainWorld(id) ==
  /\ ~Simulating /\ worlds[id] # NoWorld /\ mainRef # Ref(worlds, id)
  /\ \A c \in Codes : Ref(worlds, id) \notin {rooms[c].active, rooms[c].waiting}
  /\ mainRef' = Ref(worlds, id)
  /\ UNCHANGED <<worlds, built, rooms, place, unticked, deferred>>

\* world_destroy. Mistake: the waiting world of a destroyed game stays.
GameOnly(ref) == {ref[1]}
\* The rooms whose game it is go, and their waiting worlds with them.
Companions(ref) ==
  {ref[1]} \cup {rooms[c].waiting[1] : c \in {c \in Codes : rooms[c].active = ref /\ rooms[c].waiting # NoWorld}}
DestroyWorldById(id) ==
  LET ref == Ref(worlds, id)
      doomed == Companions(ref)
      saved == {p \in Guests : place[p].ref # NoWorld /\ place[p].ref[1] \in doomed /\ Movable(p)}
  IN /\ ~Simulating /\ worlds[id] # NoWorld /\ ref # mainRef
     /\ worlds' = Without(worlds, doomed)
     /\ place' = Evicted(Moves(place, saved, mainRef), doomed)
     /\ rooms' = [c \in Codes |-> IF rooms[c].active = ref THEN NoRoom
                                  ELSE IF rooms[c].waiting = ref THEN [rooms[c] EXCEPT !.waiting = NoWorld]
                                  ELSE rooms[c]]
     /\ UNCHANGED <<built, mainRef, unticked, deferred>>

-----------------------------------------------------------------------------
(* A tick: worlds one after the other, then the moves, then the rooms.       *)

BeginTick ==
  /\ ~Simulating
  /\ unticked' = {id \in WorldIds : worlds[id] # NoWorld}
  /\ UNCHANGED <<worlds, built, mainRef, rooms, place, deferred>>

\* Somebody walks into a portal, or is let go; the first request counts.
Deferred(people, from, to) ==
  deferred \cup {<<p, from, to>> : p \in {p \in people : \A d \in deferred : d[1] # p}}

Waiting(id) == {p \in Guests : place[p].ref = Ref(worlds, id) /\ place[p].is = "alive"}
ShouldRelease(id) ==
  LET by == worlds[id].by
  IN by.waits /\ IF by.auto THEN Cardinality(Waiting(id)) >= MinGuests
                            ELSE by.start /\ Waiting(id) # {}
\* In the order of m_worlds, the one in which worlds were built.
TickWorld(id) ==
  /\ Simulating /\ id \in unticked
  /\ \A other \in unticked : worlds[id].generation <= worlds[other].generation
  /\ \/ /\ ~ShouldRelease(id) \/ (Goal(id) = NoWorld /\ ~CanBuildGame(id))
        /\ unticked' = unticked \ {id}
        /\ UNCHANGED <<worlds, built, rooms, deferred>>
     \/ /\ ShouldRelease(id) /\ Goal(id) # NoWorld
        /\ unticked' = unticked \ {id}
        /\ worlds' = [worlds EXCEPT ![id].by.start = FALSE]
        /\ deferred' = Deferred(Waiting(id), Ref(worlds, id), Ref(worlds, Goal(id)))
        /\ UNCHANGED <<built, rooms>>
     \/ /\ ShouldRelease(id) /\ Goal(id) = NoWorld /\ CanBuildGame(id)
        /\ GameBuilt(id, FALSE)
        /\ unticked' = (unticked \ {id}) \cup {NextId}
        /\ deferred' = Deferred(Waiting(id), Ref(worlds, id), <<NextId, built'>>)
  /\ UNCHANGED <<mainRef, place>>

Portal(p, id) ==
  /\ Simulating /\ place[p].is = "alive" /\ place[p].ref[1] \in unticked
  /\ worlds[id] # NoWorld /\ id # place[p].ref[1]
  /\ deferred' = Deferred({p}, place[p].ref, Ref(worlds, id))
  /\ UNCHANGED <<worlds, built, mainRef, rooms, place, unticked>>

\* A flower dies; a command, or a respawn, marks what the player controls; the
\* end of a world's tick removes it.
Becomes(p, before, after) ==
  /\ place[p].is \in before
  /\ place' = [place EXCEPT ![p].is = after]
  /\ UNCHANGED <<worlds, built, mainRef, rooms, unticked, deferred>>
FlowerDies(p) == Simulating /\ Becomes(p, {"alive"}, "dead")
MarkEntity(p) == ~Simulating /\ Becomes(p, {"alive", "dead"}, "marked")
RemoveMarked(p) == Simulating /\ Becomes(p, {"marked"}, "removed")

\* CWorldTransfer::Move for every request whose worlds still exist.
Granted(p) ==
  \E d \in deferred : /\ d[1] = p /\ d[2] = place[p].ref /\ Movable(p)
                      /\ Exists(worlds, d[2]) /\ Exists(worlds, d[3])
Transferred ==
  [p \in Guests |-> IF Granted(p) THEN [place[p] EXCEPT !.ref = (CHOOSE d \in deferred : d[1] = p)[3]]
                    ELSE place[p]]

\* GetPlayerCount
Present(at, ref) == {p \in Guests : at[p].ref = ref /\ ref # NoWorld /\ at[p].is \in {"alive", "dead"}}

\* UpdateRoomLifecycle. Mistake: only the game's players are counted.
PlayersInGame(at, c) == Present(at, rooms[c].active)
PlayersInRoom(at, c) == Present(at, rooms[c].active) \cup Present(at, rooms[c].waiting)
Separate(c) == rooms[c].waiting # NoWorld /\ rooms[c].waiting # rooms[c].active
Retired(at) == {c \in Codes : Separate(c) /\ Present(at, rooms[c].waiting) = {}}
Idle(at, c) == IF PlayersInRoom(at, c) # {} THEN 0 ELSE rooms[c].idle + 1
Abandoned(at) == {c \in Codes : rooms[c].active # NoWorld /\ Idle(at, c) >= IdleLimit}
Updated(at, c) ==
  IF rooms[c].active = NoWorld THEN rooms[c]
  ELSE IF c \in Abandoned(at) THEN NoRoom
  ELSE [rooms[c] EXCEPT !.idle = Idle(at, c), !.waiting = IF c \in Retired(at) THEN NoWorld ELSE @]
EndTick ==
  LET at == Transferred
      gone == {rooms[c].waiting[1] : c \in {c \in Retired(at) \cup Abandoned(at) : rooms[c].waiting # NoWorld}}
                \cup {rooms[c].active[1] : c \in Abandoned(at)}
  IN /\ unticked = {}
     /\ unticked' = NoWorld /\ deferred' = {}
     /\ rooms' = [c \in Codes |-> Updated(at, c)]
     /\ worlds' = Without(worlds, gone \ {mainRef[1]})
     /\ place' = Evicted(at, gone \ {mainRef[1]})
     /\ UNCHANGED <<built, mainRef>>

\* RespawnDeadControlledEntities, and the player's own wish: in the world it
\* was in, or in the main world.
RespawnPlayer(p) ==
  /\ ~Simulating /\ place[p].is \in {"dead", "removed", "due"}
  /\ place' = [place EXCEPT ![p] = [ref |-> IF @.is = "due" THEN mainRef ELSE @.ref, is |-> "alive"]]
  /\ UNCHANGED <<worlds, built, mainRef, rooms, unticked, deferred>>

RoomsNext ==
  \/ \E p \in Guests :
       \/ \E c \in Codes : CreateRoom(p, c) \/ JoinRoom(p, c)
       \/ Start(p) \/ RespawnPlayer(p)
       \/ \E auto \in BOOLEAN : SetPolicy(p, auto)
       \/ \E id \in WorldIds : Portal(p, id)
       \/ FlowerDies(p) \/ MarkEntity(p) \/ RemoveMarked(p)
  \/ \E id \in WorldIds :
       \/ SetMainWorld(id) \/ DestroyWorldById(id) \/ TickWorld(id)
       \/ SetController(id, Open) \/ SetController(id, Waits)
  \/ CreateWorld(Open) \/ CreateWorld(Waits)
  \/ BeginTick \/ EndTick

RoomsSpec == RoomsInit /\ [][RoomsNext]_roomVars
-----------------------------------------------------------------------------
RoomsTypeOK ==
  /\ worlds \in [WorldIds -> WorldRecords \cup {NoWorld}]
  /\ \A id \in WorldIds : worlds[id] # NoWorld => worlds[id].generation <= built
  /\ built \in 1..MaxBuilt /\ mainRef \in WorldRefs
  /\ rooms \in [Codes -> [active : WorldRefs \cup {NoWorld}, waiting : WorldRefs \cup {NoWorld}, idle : 0..IdleLimit]]
  /\ place \in [Guests -> [ref : WorldRefs \cup {NoWorld}, is : {"alive", "dead", "marked", "removed", "due"}]]
  /\ deferred \subseteq Guests \X WorldRefs \X WorldRefs

\* ValidateTopology of what CaptureTopology writes: every room has its worlds
\* for itself and the main world is nobody's. The waiting world of a room leads
\* to its own room's game and never to itself, however often ids were used
\* again; with that, ResolveReferences accepts the waiting worlds of rooms. It
\* refuses one whose controller an operator made, for it knows of no game and no
\* room to make one in, once a player sets its policy to automatic: nothing here
\* speaks about those.
RoomsAreApart ==
  /\ Exists(worlds, mainRef)
  /\ \A c \in Codes : rooms[c].active # NoWorld =>
       /\ Exists(worlds, rooms[c].active) /\ rooms[c].active # mainRef
       /\ rooms[c].waiting # NoWorld => Exists(worlds, rooms[c].waiting) /\ rooms[c].waiting # mainRef
       /\ \A d \in Codes \ {c} : {rooms[c].active, rooms[c].waiting} \cap
                                 {rooms[d].active, rooms[d].waiting} \subseteq {NoWorld}
  /\ \A id \in WorldIds : worlds[id] # NoWorld /\ worlds[id].by.code # NoCode =>
       LET by == worlds[id].by
       IN /\ by.goal # id
          /\ rooms[by.code].waiting = Ref(worlds, id)
          /\ by.goal # NoWorld => rooms[by.code].active = Ref(worlds, by.goal)

\* A player is in a world that exists, or due for a respawn.
NobodyIsNowhere ==
  \A p \in Guests : IF place[p].is = "due" THEN place[p].ref = NoWorld ELSE Exists(worlds, place[p].ref)

\* Rooms, worlds and players agree on who is where (CaptureTopology,
\* ValidateTopology).
RoomsAreSound == RoomsAreApart /\ NobodyIsNowhere

\* No tick takes the world from under a player who is in it, whether its
\* room is being started, retired or closed.
PlayersKeepTheirWorld ==
  [][Simulating => \A p \in Guests : place'[p].is = "due" => place[p].is \notin {"alive", "dead"}]_roomVars
=============================================================================
