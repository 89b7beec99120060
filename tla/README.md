# Verification of the FlorrBt game server

TLA+ models of the FlorrBt server (`src/src/Server`), the TLC runs that check
them on small instances, and TLAPS proofs about them for every value of their
constants. `PROJECT.json` maps every definition to the lines it models.

## The system

One process, started by a launcher that replaces it on a hot reload, runs a
game loop (`server.cpp`). The **game thread** ticks the modules: the network
module (sockets, logins, snapshots), the world module (worlds, entities, room
controllers), consoles. Four kinds of **threads** work for it: the account save
worker, the authentication worker (password hashing), the email delivery
worker and the snapshot build pool; the worker that reviews player reports
waits for an outside service.
Threads talk through queues under one mutex each; everything else is owned by
the game thread, so concurrency inside the game thread is a matter of the order
of phases and messages over many ticks.

| component | state | operations | what is hard | correct when |
|---|---|---|---|---|
| Account store (`Persistence/account_store.cpp`, `Shared/immutable_snapshot.h`) | accounts in memory, cache of immutable copies and dirty keys, pending save, generations, flags, the file | account mutations, `CSaveBatch`, `Flush`, `ShutDown`, `Load`, the save worker | two threads, coalescing, failed writes, crashes, stale copies | the durable copy is always one whole state of memory and only moves forward; `Flush`/`ShutDown` tell the truth and return |
| Snapshot build pool (`CSnapshotBuildWorkerPool`) | generation, job index, countdown, exception | `Run`, worker loop, destruction | a worker still leaving one call when the next starts; throwing jobs | each job runs once, `Run` returns after the last |
| Connections and sessions (`network_module.cpp`) | pending sockets, players by id, free ids, awaited requests, queue, accounts in work, verified logins, bans | accept, classify, login, register, email binding, reconnect, ban, drop | answers later than their player, reused ids, sessions outliving sockets | one session per account, answers go to who asked, bookkeeping exact |
| Email verification (`Auth/email_verification_service.cpp`) | challenges, delivery queue, results | request, verify, deliver, prune | late results, retries, limits, mails older than their challenge | a code is good once, for its own challenge, and no challenge is stranded |
| Snapshots and scene syncs (`network_module.cpp`, `web/src/game.js`) | sent and received histories, acknowledged id, send buffer, pending scene | send, acknowledge, switch scene, retry | acknowledgements of an older scene, wrapping ids, full buffers, packets partly sent | deltas are built only on what the client holds; what it shows was there |
| Player input (`controllers/player_controller.cpp`) | ring of scheduled input, sequence numbers, local tick | frames, packets without a number, ticks, resets | frames that overtake one another, wrap-around, slots used again | what was overtaken never comes back, the last input is never lost |
| Loadouts and Unique petals (`player.cpp`, `flower.cpp`, `ant_kingdom_controller.cpp`, `unique_petal_registry.cpp`) | bag, saved slots, shown slots, sandbox copy, registry of owners | equip, learn and forget slots, die, respawn, change rooms, pick up, forge, exchange | three copies of one slot; rooms that lock, replace or copy a loadout; deaths that return, destroy or give up petals; a petal that changes hands while it is shown | no petal is lost, copied, or works for whom neither the account nor the room gave it |
| World module and rooms (`world_module.cpp`, `waitingcontroller.cpp`) | worlds by id with a generation, rooms, idle times, deferred moves | create, join, start, tick, retire, close, destroy | worlds that must not change while they tick; ids used again; controllers that refer to other worlds | rooms, worlds and players agree on who is where |
| Game worlds and transfer (`gameworld.cpp`, `world_transition.cpp`) | slots, free ids, generations, owners, chains, segments, who controls what | insert, mark, clean up, link, possess, transfer, restore | handles that outlive their entity; what belongs to what across a removal or a move | a handle never names a second entity; nothing hangs in the air |
| Hornets that carry (`melee_controller.cpp`, `pickup_controller.cpp`) | load of each carrier, registry of the world, frozen loads | capture, finish, die, clean up, move, restore | carrier or load dies, moves, or is restored half-way | nobody is carried by two; who is let go ticks again |
| Squads (`squad_extension.cpp`) | index of roots, generations, invitations, cache of the active | invite, accept, refuse, leave, refresh, restore | stale index, roots that leave, ids given to new players | the members are those who agreed |
| Player reports (`report.cpp`) | jobs, results, pending, cooldowns, epoch | submit, review, process, cancel, shut down | answers of before a cancellation, reporters who log in again | no report is lost, doubled or pending for ever |
| Hot reload and lifecycle (`server.cpp`, `HotReload/`, `Launcher/main.cpp`) | launcher's build, previous build and snapshot, readiness file, request, three stores | launch, restore, publish, capture, hand over, roll back, crash | a crash between any two steps; a build that does not start; readiness not seen in time | what is restored is one moment of world, accounts and registry |
| Spawning, environment, behaviour of mobs and petals | positions and timers | tick | numeric | simulation, see *Not modelled* |
| MySQL backend, migration, consoles, wire format, web client | | | | see *Not modelled* |

## Modules

| module | models | runs | proofs |
|---|---|---|---|
| `AccountStore` | saving, flushing, shutdown, loading, crashes | `account_store*` | `AccountStoreProofs` |
| `DurableAccounts` | what `AccountStore` promises, without threads | (refined by `AccountStore`) | |
| `SnapshotPool` | the snapshot build pool | `snapshot_pool` | `SnapshotProofs` |
| `ParallelFor` | what the pool promises | (refined by `SnapshotPool`) | |
| `SnapshotSync` | delta snapshots, acknowledgements, scene baselines, the send buffer, the web client's side | `snapshot_sync*` | `SnapshotProofs` |
| `Subsequences` | what is left of a sequence when entries are taken out | (used by `SnapshotSync`) | |
| `Mirror` | what the snapshot protocol promises the client | (refined by `SnapshotSync`) | |
| `AuthSessions` | connections, logins, sessions and the auth worker | `auth_sessions*` | `AuthSessionsProofs` |
| `EmailVerification` | codes for email addresses, their mails, addresses of accounts | `email_verification` | `EmailVerificationProofs` |
| `Loadout` | petals in bags, slots, sandboxes, and the registry of Unique ones | `game` | `PlayProofs` |
| `Carrying` | hornets that grab hornets | `game`, `carrying_frozen` | `PlayProofs` |
| `Rooms` | worlds, rooms, waiting controllers, deferred moves | `game` | `ServerProofs` |
| `Squads` | squads of a world | `game` | `ServerProofs` |
| `Reports` | reports and their reviewer | `game` | `ServerProofs` |
| `Worlds` | slots, handles, relations between entities, transfers | `game` | `WorldsProofs` |
| `HotReload` | launcher and successive server processes | `game` | `ServerProofs` |
| `PlayerInput` | scheduled input of one controlled mob | `game` | `PlayProofs` |

`MCGame` puts the last eight, which share no state, into one run: a behaviour
picks one of them and follows it while the others rest in an initial state, so
that the reachable states are the sum of theirs; `GameProofs` is about it. The other `MC*` modules add
only the symmetry sets TLC uses. An operator that no other
definition uses (`BatchSaveDueAtEveryLevel`, `StillAwaited`, `ExecutesAll`,
...) is a plausible mistake: replacing the operator beside it by
the mistake makes TLC find the property named in `PROJECT.json` violated, which
shows that the property depends on the code being as it is.

### AccountStore

`accounts` is memory, `cache`/`dirty` are `ImmutableSnapshotCache`, the
generation counters and flags carry the names of their globals. A step is one
critical section or one step of the game thread. The worker's loop is split
where it unlocks: take the pending save (`TakePending`), write the file
(`PublishFile`, `WriteFails`), account for the generation (`WorkerFinish`).
`Flush` is split at its lock, request and wait. `Crash` may come at any point
and forgets everything but the file; `Load` resumes from it. All mutations that
differ only in what they write share `Mutate`; those that behave differently on
a failed save (`Commit`, `CommitRegistration`), mark no key, or never save
(sandbox keys) are actions of their own.

What an account contains is an element of `Content`; the MySQL backend and the
file are one step that happens or fails.

### SnapshotPool

One action per critical section: `Run`, `ReturnFromRun`, a worker that wakes
and takes its first job, finishes a job (returning or throwing) and takes the
next or counts itself down, and the destructor. `ran` is a history variable.

### AuthSessions

A step is one iteration of a loop of `INetworkModule::Tick` (one socket, one
message, one queued request, one completion), in any order: a superset of the
order of the phases, so that nothing depends on it. Ids are modelled as the
code allots them, the smallest freed one first. What cannot be told apart by
the properties (passwords, rate limits, email codes, addresses) only decides
whether a step may fail.

### EmailVerification

The game thread's challenges and cooldowns, the queue of the mail worker, its
results and the addresses in the account store. `RequestCode` is the whole of
`HandleAuthRequest`'s branch down to `CEmailVerificationService::RequestCode`;
`RequestRefused` is any of its refusals after it has forgotten what expired.
`WorkerLoop` is split where it unlocks. Times count down at every `Clock`
instead of being compared with time points, and a mail may take any time.
Players are reduced to who holds which id: `Enter`, `Relogin` and `Leave` stand
for `AuthSessions`. Codes are guessed right or wrong freely; what is checked is
when a right one counts. The session in a job and `delivered` are history.
The client address's own cooldown, `Start` and `ShutDown` are left out.

With a full queue a mail can take longer than `pending_max_age`: the challenge
is then forgotten while the mail is on its way. `MailsAreTracked` says that
nothing is stranded by it: a pending challenge always has its own mail queued,
with the worker or reported, and a player that waits for an answer has its mail
there, or no challenge is left of its request.

### SnapshotSync

The server's part (`network_module.cpp`) and the web client's
(`src/web/src/game.js`) of what one player is sent, joined by two FIFO channels:
the kernel may take any number of packets and a part of one more, the client may
receive them in runs of any length, the connection may be lost at any point. The
server's actions are `SendSnapshots`, `HandleSnapshotAck`,
`RetryPendingSceneSyncs`, the flush of `ProcessMessages`, the two kinds of scene
baseline and the login; the client's are one frame of `receiveBytes` and
`applySnapshotAndAck`. Whether the whole scene or the difference is the smaller
packet is a free choice. `scene` in a packet is a history variable, the scene
that was captured; with it `IsMirror` says that what the client rebuilds is what
the server saw. Both sides have branches for a base that is gone
(`requestFullSnapshot`, `acked_snapshot_id.reset()` in
`PrepareSnapshotForSend`): they are in the model, and `SyncsAgree` shows that
the client's is never taken. `Fresh` is the one bound on the ids: no id in use is
half the range or more behind the next one, and the next one is none that either
side still remembers. Real ids are 32 bits wide and grow by one per snapshot, so
it takes two thousand million snapshots to leave this bound.

### Loadout

A petal is in the bag, in one of the saved slots, or in the secondary slot of an
account; the flower of a player shows some of the saved ones. `account` and
`sandbox` are the account and the copy that a sandbox works on, `flower` is what
is in play, `owner` and `ownerFile` are the registry and its file. Each action
is a handler with the refresh that ends it: `Equip`, `Unequip`, the secondary
slot, `LearnSlots` (`RefreshTalentSlotCount`), `Die`, `Revive`, `Respawn`,
`Login`, `Logout`, `Move` (with what rooms take off, deal and copy), `PickUp`, `Forge`, `PickUpUnique`, `ShutDown`, `Crash`. `GetUnique` is the
exchange of `CUniquePetalRegistry`: the owner of before loses the petal, is
refunded part of the price, and the shown slot is cleared. `supply` is what
there should be: it is written only where a petal is found, paid, refunded,
overwritten or lost by a death. The order of slots inside a save and the levels
of petals are data.

`Die` is `EnterDeathState`. `ConsumeCorruptionPetalsOnDeath` takes every
corrupting petal off, working or not, and clears its saved slot: one of rarity
Super or above returns to the bag, one below is destroyed. Then
`BeginBloodSacrifice` gives up the first working petal of a sacrificed type, or
none where the flower is not in a zone for it.

There are five kinds of rooms. A waiting room locks the loadout (nothing is
equipped, and learned slots do not change what is shown); an arena takes all
petals off; an ant kingdom does too, but keeps the petals that it deals itself
(`PreservesControllerPetal`), and deals them to whoever has a team
(`EquipPheromonePetals`): another number of slots, with petals that no account
has. Leaving an arena or a kingdom throws away what is shown and loads the saved
slots (`RestoreSavedLoadout`); entering or leaving a sandbox does so for the
account of the side it comes to. Spectators of a kingdom have nothing dealt: they
are as in an arena. A match has two players; the model deals petals to any
number of them, who do not meet in `Loadout`.

`ShownIsOwned` says what a flower may show: in an arena nothing, in a kingdom what
was dealt and where, elsewhere only what is saved in that slot, so that nothing
dealt ever leaves a kingdom. `PetalsAreConserved` has three exceptions, each
counted in `supply` where it happens: a saved petal that is not shown and that
`Equip` overwrites, what a dying flower gives up, and what its death destroys.

### Rooms

Worlds by id, each with its generation and its waiting controller (`by`: where
it leads, its room, whether it starts by itself). The tick is split: `BeginTick`
fixes the worlds to tick, `TickWorld` is one of them with what its controller
asks for, `EndTick` applies the deferred moves, then retires empty waiting
worlds and closes idle rooms, the order of the code. Between `BeginTick` and
`EndTick` portals and deaths happen (`Portal`, `FlowerDies`, `RemoveMarked`).
Commands of the operator (`CreateWorld`, `SetController`, `SetMainWorld`,
`DestroyWorldById`) come between ticks.

`RoomsAreApart` is what `ValidateTopology` asks of the topology that
`CaptureTopology` writes, and what `ResolveReferences` asks of the waiting
worlds of rooms: their game is there and is another world, or the room, which
always has the blueprint of its game, can still make one. It says nothing about
waiting controllers that an operator made, which have no room (see *Findings*).

### Squads

`membership` is the index with the generation each entry was made for,
`lastActive` the cache that decides whether `Refresh` has anything to do,
`bands` the history of who agreed with whom. Each command is one action, the
`Refresh` at its start included; `Depart`, `Return` and `Recycle` change who is
in the world without telling the extension. The property is stated about the
queries (`Members`, `RootId`) as other parts call them, at any moment between.

### Reports

The queue, the worker that takes a job, asks the reviewer without the lock and
posts a result, the game thread that processes results, `CancelPending` of a hot
reload, the shutdown. `epoch` is the code's: a verdict that comes back after a
cancellation is dropped. Whether the reviewer approves is free.

### Worlds

`land` is, per world, the table of entities, the stack of free ids and the next
generation; `of` is what an entity belongs to (owner, root, ends of a chain),
`parts` the bodies of a multi-segment mob. `Cleanup` is one action per entity
that goes (`BeginCleanup`, `RemoveEntity`, `SweepOwned`), so that its order is
free. `Transfer` is `CWorldTransfer` with the compound it moves, what it
refuses, the handles it gives anew and what it leaves behind; `ReloadWorlds` is
capture and restore of identities. `given` is the history of all handles. A
transfer that fails while staged restores what it saved and is no step.
Dandelion missiles and the summons of mobs may outlive their owner on purpose
and are left out.

### Carrying

`hornet` holds for each one whether it lives, in which world, whom it carries
and whether it is frozen (`skip`); `carriedBy` is the registry of all worlds. A
handle is the hornet and how often it changed worlds, which is what a new handle
comes to. Captures, the end of a charge, deaths in the middle of a tick, the
sweep at its end, moves, and a hot reload that rebuilds the registry are actions.

### HotReload

The launcher's loop (`Launch`, `SeeReady`, `NotSeenReady`, `HandOver`) and one
server process (`Load`, `Restore`, `Publish`, `Tick`, `PersistAccounts`,
`ShutDownServer`, `CrashServer`). World, accounts and registry are versions, the
number of the last change made to them; a snapshot is the version of the world,
and as history those of the other two stores at that moment. A process may crash
or be terminated between any two steps, the readiness file may come too late, a
restore may fail with the world left half-way, a write of the registry may fail.
`parted` names the two ways the stores can differ from the snapshot.

### PlayerInput

`operates` is the ring; `Merge` into a slot that holds an older tick's input
empties it first. An `InputFrame` is `HandleInputFrame` down to
`ScheduleOperate`, with its number and the tick it asks for; `Operate` is a
packet of the older kind, which replaces what waits for its field and takes
effect at the next tick; `OnTick` executes the slot of the tick; `ResetOperate`
and `NewController` forget the queue. Operations are numbered as they come:
`newest` and `inForce` are history. `InWindow` is the one assumption on the
client: of the numbers still remembered, none is half the range or more behind
the next one, which 2^31 frames within `MAX_INPUT_DELAY_TICKS` would take.

## Runs

| run | instance | shows |
|---|---|---|
| `account_store` | 2 accounts, 2 contents, 3 generations, batches nested twice, 2 flush attempts | `GenerationsAccounted`, `CachedIsCurrent`, `ShutDownIsDurable`, `SnapshotIsExact`, `FlushIsDurable`; overflow of the counter, nested batches, every failure and a crash at every point happen within these bounds |
| `account_store_threads` | one account and one sandbox key, 3 generations, fair threads | the store implements `DurableAccounts`; `Flush` and `ShutDown` return without the coalescing timer, and with it a queued save is handled without a `Flush` |
| `account_registered` | 1 account | the comment about accepted registrations does not hold inside a tick |
| `snapshot_pool` | 3 threads, 4 jobs, a generation of 3 values | refinement of `ParallelFor`: each job once and by one thread, `Run` counts down exactly; `Run` and the destructor return |
| `snapshot_sync` | 2 maps, 1 entity that comes and goes, histories of 2, 5 ids and the sentinel, buffer of 2 packets, 1 on the wire | `SyncsAgree` (deltas that arrive resolve, histories agree), frames stay whole, the protocol implements `Mirror`; within these bounds the histories and the buffer overflow, the ids wrap, baselines wait and acknowledgements lag |
| `snapshot_sync_live` | 1 map, 1 entity that also changes, histories of 1 | the client ends up with the world as it is |
| `auth_sessions` | 2 ids, 3 sockets, 2 accounts, 3 request ids, limits of 2 | one session per account, answers reach who asked, exact bookkeeping, no login of a banned account: two ids suffice for reuse and for two players of one account, three requests for two in flight and one late |
| `auth_sessions_live` | 2 ids, 1 account | requests are answered |
| `auth_sessions_limit` | 1 account | an authenticated player is counted as unauthenticated |
| `email_verification` | 1 id, 2 sessions, 2 accounts, 2 addresses, 3 request ids, a queue of 1, 2 attempts, times of 1 | addresses are exclusive, verified ones were mailed and are final, mails and challenges track one another, answers go home: a mail on the wire, one queued and one reported may all belong to challenges that were replaced, and every timeout may pass before any of them |
| `game` | see below | the properties of the eight parts of the game |
| `carrying_frozen` | 2 hornets, 2 worlds, 1 move | a hornet that was carried away from its carrier stays frozen |

The instance of `game`, and what happens within it:

* `Loadout`: 2 players (one changes rooms and dies), 2 types of petals, one
  sacrificed and one corrupting, 1 or 2 slots, stacks of 2, a price of 2, one
  petal in a sandbox, one that a kingdom deals. Neither type stacks, so that two
  equal petals exclude one another. What comes up together is bounded by
  `FewLoots`: two petals of the sacrificed type, from which its Unique one is
  forged, or one of rarity Super with a corrupting one below. So a Unique
  petal changes hands, is refunded, and is taken from slots that are shown; a
  death returns, destroys and gives up petals, also two of these at once; the
  server shuts down or crashes in between. Rarities below Super are one, because
  only whether a rarity is below Super matters where a petal dies; so are the
  rarities of what a kingdom deals, one for each slot.
* `Carrying`: three hornets of three rarities, two of them controlled, two
  worlds, one move each: chains of carriers, and a load that is wanted by two.
* `Rooms`: 2 codes, 1 player, 3 world ids, 4 worlds ever built, rooms closed after
  one idle tick: ids are used again by another room.
* `Squads`: 3 ids, one of which is given to a second session, limits of 2 and 3.
* `Reports`: 2 accounts, 2 reports at a time, 3 epochs, 2 logins.
* `Worlds`: 2 worlds of 3 slots, 2 players, 4 handles in all: a slot is used
  again, a mob with a body is moved, a chain breaks at either end.
* `HotReload`: 2 builds, 2 changes: a hand-over, the roll-back of it, and a
  change that parts the stores.
* `PlayerInput`: a ring of 4 slots, delays up to 3, 4 operations, 5 ticks,
  numbers modulo 8 that start at 5: the ring and the numbers wrap, all four
  operations may wait together, and a frame overtakes two others.

`CHECK_DEADLOCK FALSE` in `Game.cfg` and where else it is given: the game may
stop there, because an operator or player need not do anything and the bounds
end a behaviour.

### Fairness

Weak fairness of threads that are runnable, and of the game thread inside a
call it has made or a loop it runs every tick. In `SnapshotSync` the socket
eventually takes what is queued and the browser eventually handles what arrived.
Nothing obliges a client, a timer of the coalescing window (except under the
premise of `QueuedIsFinished`) or the game to do anything. File calls, hashes
and jobs return, with success or without. The parts of `game` have safety
properties only and assume no fairness.

## Proofs

For all values of the constants:

* `AccountStoreProofs`: the inductive invariant `IInv` adds to the checked ones
  how the worker's position follows from the flags (`WorkerPhase`), that a dead
  process holds nothing, and two facts that no snapshot of the state alone
  would suggest: while `Flush` waits, whoever holds the newest generation holds
  the accounts of memory (`FlushedStateIsCurrent`), and after a successful last
  attempt nothing is left to write (`StoppingIsSettled`). From it follow every
  invariant of `account_store`, its action properties and the refinement of
  `DurableAccounts`; also the types, and that what the store believes persisted
  is what the file holds (`FileMatchesPersisted`), which no run lists because
  the refinement implies it.
* `SnapshotProofs`, the pool: `PoolInv` adds that a worker running a job belongs
  to the current call (`WorkerPhase`) and that the jobs below `m_next_job` are
  those run or held (`TakenJobs`). Exclusion (`NoJobTwice`), the countdown
  (`PendingIsEngaged`) and the refinement of `ParallelFor` follow for any
  number of threads, and for any counter of at least two values.
* `SnapshotProofs`, the protocol, for any limits, any even range of at least
  four ids, any maps and entities: the types, `SyncsAgree`, `FramesStayWhole` and
  the refinement of `Mirror`. That a delta resolves is far from inductive. The
  invariant `SyncInv` looks at the line the client's history will be once all
  that is queued or on the wire has arrived, and at the ids the server takes, or
  will take, for known (`Back`: the acknowledged one, those on their way back,
  the one about to be shown):
  - no id is twice on that line, and an entry that the server recorded too has the
    same entities on both sides and no more entries after it on the line than in
    the server's history (`NoIdTwice`, `InStep`): the server forgets it first;
  - the base of a snapshot under way is among the entries the client will still
    have when it arrives, and gives the captured scene with it (`Bases`): this
    is where both histories must have the same length;
  - behind a Welcome, at which the client forgets, no snapshot has a base
    (`NoBaseAfterWelcome`), and no id recorded since is one the client has or
    may tell of before it gets there (`Apart`): an acknowledgement from before a
    reset is recognised because its id is no longer recorded;
  - an id the server has from the client, and still remembers, is one the client
    remembers too (`StillThere`), so a base may be chosen from it.

  Dropping queued snapshots must keep all of this; the lemmas about `Thinner`
  say it once, for any stream of which snapshots were taken out. `Placed` says
  the same of maps: each snapshot comes after the Welcome of its map, and unless
  a Welcome is still owed, the stream ends in the map the player is in. The
  refinement of `Mirror` follows step by step: a Mirror capture is a snapshot that
  is queued, a thinning is any that are dropped, lost or superseded.
* `EmailVerificationProofs`: the types and all safety properties. Addresses and
  challenges of an address are unique by themselves; that verified addresses
  were mailed needs the mails: each one queued or with the worker belongs to
  the challenge that carries its request id, if any still does (`MailInv`),
  because a request id that is referred to anywhere is never given again. The
  same is what keeps challenges, mails and waiting players together
  (`TrackedMails`).
* `AuthSessionsProofs`: the types, and every property of `auth_sessions`. One
  session per account, and no login to a banned one, need only that the player
  table holds sockets and accounts: a stale or wrong entry of a queue cannot
  break them. That answers go to who asked (`AnswersGoHome`) needs `WaitInv`:
  of the requests that a player waits for no two are equal, and whoever waits
  is not logged in. That the accounts in work are those of the jobs
  (`OneJobEach`) says in which of the three places each one is, and the limit
  of `RoomInv` that every newcomer has a deadline and takes the place of an
  accepted socket. `Only`, what `Drop` leaves of a queue, is defined by
  positions instead of recursively; `OnlyKeeps` states what it returns.
* `HotReload` (in `ServerProofs`): the types, and `ReloadsAreSound` for any
  builds and any number of changes. `ReloadInv` says that a process changes
  nothing before it is ready and that the launcher watches it until then
  (`Starting`), who is gone back to (`Succession`), that as long as nobody
  changed them the stores on disk are those of the snapshot (`StoresWait`, the
  conjunct that carries the proof), and what a process that stops for a reload
  leaves behind (`Parting`).
* `Reports` (in `ServerProofs`): the types, and `ReportsAreTracked`. The
  invariant gives every pending account one report, in exactly one of three
  places (`OneJobEach`, `Apart`, `ReviewIsValid`, `NobodyWaits`), and bounds
  their number; the count follows by a bijection between places and accounts.
* `Rooms` (in `ServerProofs`): the types, `RoomsAreSound` and
  `PlayersKeepTheirWorld`, for any numbers of rooms, worlds and players.
  `RoomsInv` adds that a room without a game has no waiting world
  (`RoomsHaveGames`), that nobody has two moves waiting for the end of a tick
  (`OneMoveEach`), so that the order in which they are applied does not matter,
  and that a world which is still to tick is there (`UntickedLive`), because
  nothing closes one before. What `EndTick` does is a chain of lemmas, one for
  each thing it does in a row.
* `Squads` (in `ServerProofs`): the types and `SquadsAreAgreedOn`. `SquadInv`
  does not speak about the players but about the index, which may be stale: its
  squads are the bands that agreed (`BandsAreSquads`, `SquadsAreBands`), none
  is too large and its root is in it (`RootsAreMembers`), and the cache, when
  there is one, is what the index was made for. What a query shows follows,
  because it only leaves out entries of sessions that are gone.
* `PlayerInput` (in `PlayProofs`): the types, and `InputsAreInOrder` for any
  ring, any longest delay shorter than the ring, and any range of numbers. A
  slot of the ring is for one tick only (`Placed`, from the distance of two
  ticks with the same remainder); what has no number is older than all that
  waits for its field (`FencesFirst`); numbers grow with the operations
  (`NumbersFollow`, from the arithmetic of distances modulo the range,
  `NewerThanOlder` and `NotBothNewer`, and from `InWindow`).
* `Carrying` (in `PlayProofs`): the types, and `CarriedIsRegistered` for any
  hornets, worlds and numbers of moves. The property about living carriers is
  nearly inductive; what it needs is that no handle is from the future
  (`Known`), so that a move cannot make an old one valid again.
* `Loadout` (in `PlayProofs`): the types, `SlotsAreTrue`, `PetalsAreAccounted`
  and `RefundsArePaidFor`, for any players, petals, slots and prices.
  `LoadoutInv` adds two things to the checked invariants. A player has a
  sandbox exactly while it is in one (`Sandboxed`): the account that a handler
  writes is chosen by the one, what the flower shows by the other. And what was
  found of a kind, with what the registry would refund of it, is never more
  than a bag holds (`OwedIsBounded`), or a refund, or a petal that a death returns,
  could be cut off at the limit and the sum would not be right. The rooms need
  no strengthening: that only a kingdom shows what it deals is part of
  `ShownIsOwned`, and it holds because whoever leaves one has its slots loaded
  again. Sums over bags, slots and players are
  cardinalities of sets of copies, so that moving a petal is a bijection of
  such sets.
* `WorldsProofs`: the types, `WorldsAreSound`, `HandlesNameOne` and
  `ControlIsKept`, for any number of worlds, slots and players. `WorldsInv`
  adds that every handle in use was given and is older than the world's next
  generation (`NamesGiven`), which is what makes the next one new; that two
  players do not control the same entity, and that what was once controlled is
  something that can be (`ControlsDiffer`); and `Bonds`, which says at every
  moment what `WorldsAreSound` says between two ticks only: what belongs to
  something still has it, except that during a cleanup an end may be missing
  whose key is on one of the lists that the sweep at its end reads, or which is
  an end of a chain. `KeysWait` says that those lists are of the world being
  cleaned up. Each action is shown to keep the handles, the slots, the controls
  and the bonds by lemmas about tables of entities (marking, freeing,
  inserting, detaching, moving a compound), not about the state.
* `GameProofs`: `MCGame` adds nothing to its parts (`GameFollowsItsParts`), so
  all of these hold in the specification that the run checks (`GameStaysSound`,
  `GameTypeCorrect`).

Assumptions are those named in the modules: that the limits are numbers, that a
mark for *nothing* is none of the values it stands beside, and where the code
relies on it that a bound is not zero or a set is finite. `LoadoutAssumption`
also has the bound of the model on what is found (`Loots`) below what a bag
holds, because what does not fit in a bag is lost in the code.

No definition is recursive in a module with proofs, and no proof is by
induction over data; where the least free id or least root is needed,
`NatLessThanWellFounded` and `WFMin` of the library give it.

Only model-checked is liveness, which is outside the prover: `FlushTerminates`,
`QueuedIsFinished`, `RunReturns`, `ShutDownReturns`, `RequestsAreAnswered` and
`EventuallyMirrors`.

## Findings

* A registration is reported as successful before its save was accepted
  (`account_registered`).
* An authenticated player that asks for an email code is counted against the
  limit of unauthenticated connections for the rest of its session
  (`auth_sessions_limit`).
* A hornet that a player controls and another hornet carries stays frozen when
  it is moved to another world: it has its new handle before its carrier lets go
  of the old one (`carrying_frozen`).

Observed while modelling and in the models as the code does it, without a run of
their own:

* Talents can be forgotten in a room that locks loadouts, where
  `RefreshTalentSlotCount` (`flower.cpp:993`) returns early while
  `HandleTalentRequest` (`network_module.cpp:2412`) has no such guard. The saved
  petals of the slots that are gone stay saved, are not shown again
  (`LoadSavedSlots` stops at the count), and equipping another petal in such a
  slot once it is learned again overwrites the saved one, which is lost. The
  comment in `player.cpp:354` names this danger for corpses. `PetalsAreConserved`
  therefore accounts for what `Equip` overwrites.
* The exchange of a Unique petal takes the petal off the cleared slots of the
  flowers of both accounts, by index and whatever is shown there
  (`unique_petal_registry.cpp:196`). In an ant kingdom, where saved slots are
  not shown, that is a petal which the kingdom dealt: it is gone until the
  player respawns or comes back (`Emptied`).
* Whoever spawns in a waiting room gets the initial number of slots
  (`RefreshTalentSlotCount` returns early there), and leaving the room only lifts
  the ban (`waitingcontroller.cpp:207`): the petals saved in the learned slots
  are shown again only when slots are loaded anew, after an arena, a kingdom or a
  sandbox, or by a respawn elsewhere (`Spawned`, `Move`).
* `ResolveReferences` (`waitingcontroller.cpp:154`) refuses a waiting
  controller with an automatic policy that has neither a destination nor a
  room. An operator's `world_create` or `world_controller` makes one without
  either, and any player in that world sets its policy to automatic with
  `/setting policy auto` (`CreateWorld(Waits)`, `SetController(id, Waits)`, then
  `SetPolicy` in `Rooms`). Nothing checks this at the capture: a hot reload then
  writes a snapshot that no build restores, and the launcher ends
  (`Launcher/main.cpp:293`). `RoomsAreSound` does not speak about these worlds.
* Replacing a waiting controller does not hand its players over to the game
  world, contrary to the comment in `CWaitingController::OnDeactivate`
  (`waitingcontroller.cpp:82`): nobody can be moved while a controller is being
  replaced (`SetController` in `Rooms`).
* A stop requested in the tick of a requested hot reload is overridden by it.
* If a candidate is ready but ends before the launcher sees it, the world goes
  back to the snapshot while the accounts and the registry keep what the
  candidate wrote (`parted`); the same when the registry's last write fails,
  which is logged only. A server that crashes while it is served ends the launcher.

## Plan

What is modelled is what the first plan named, and every invariant, action
property and refinement that the passing runs check is proved. Next would be, in this
order: crafting and levels in `Loadout`; leafcutters, which carry without
freezing.

One hazard has no property: the registry of Unique petals and the accounts are
two stores written at different times (`unique_petal_registry.cpp:101`). After a
crash between them they may disagree, and the code promises nothing there; in
`Loadout` a crash needs `owner = ownerFile`.

## Not modelled

* Simulation: positions, collisions, damage, the behaviour of mobs and petals,
  spawning, terrain, weather. It is floating-point arithmetic over the state of
  single entities, driven by timers and random numbers; the relations it makes
  between entities (ownership, chains, segments, carrying) are in `Worlds` and
  `Carrying`. This is more than half of the code
  (`petals_behavior.h`, `mob_behavior.cpp`, `melee_controller.cpp`, most of
  `gameworld.cpp`), a model of which would have no discrete state to check.
* Tables and formats: `game_config.h`, `network_msg.h` and most of
  `hot_reload_snapshot.cpp` declare, encode and validate data field by field; in
  the models a packet or a snapshot is the value it carries.
* Consoles, commands, remote console and GUI: text interfaces whose operations
  are those of the other components (the operator's commands of `Rooms`).
* The SQL statements of the MySQL backend and the migration: inside
  `AccountStore` a publication happens as a whole or fails.
* The browser client beside its half of the snapshot protocol: rendering, input
  and the bridge, which relays bytes.
* Rules of PvP, teams and chat: scores and messages; of ant kingdoms, everything but
  what they do to loadouts.

The share of the lines that the map covers is small for the first two reasons.
`PROJECT.json` lists each component with its reason.
