------------------------------ MODULE Loadout ------------------------------
(* Where the petals of players are: in the bag, in primary and secondary     *)
(* slots of the account, and shown in the slots of a living flower, while    *)
(* the player equips, learns and forgets slots, dies, changes rooms and      *)
(* while the registry of Unique petals moves a petal from one account to     *)
(* another (player.cpp, flower.cpp, pvp_controller.cpp,                      *)
(* ant_kingdom_controller.cpp, waitingcontroller.cpp, account_store.cpp,     *)
(* unique_petal_registry.cpp). All of it runs on the game thread. A waiting  *)
(* room locks the loadout, an arena takes every petal off too, an ant        *)
(* kingdom then deals petals of its own to the players of the match (its     *)
(* spectators are as in an arena), and a sandbox works on a copy of the      *)
(* account.                                                                  *)
EXTENDS Naturals, FiniteSets, FiniteSetsExt

CONSTANTS Players, Types,
  Stacking,    \* types whose petals all work at once (stats.stack)
  Sacrificed,  \* types a dying flower gives up (BloodSacrifice)
  Corrupting,  \* types a death takes off the flower (Corruption)
  Pheromone,   \* the type of the petals that an ant kingdom deals
  Groups,      \* how many it deals (m_pheromone_group_count)
  FirstSlots, MaxSlots,  \* mob_player_flower_initial/max_petal_slots
  ForgeCost,   \* petals of rarity Super for a Unique one (5 in the code)
  MaxStack,    \* max_inventory_item_count
  Loots,       \* bound: how many petals of each kind are around together
  MaxIsolated, \* bound: petals in a sandbox
  Roamers,     \* bound: the players who use their slots, change rooms and die
  Empty, Nobody

\* Every rarity below Super is as Ultra. It matters to those types alone that
\* a death destroys below Super.
Ultra == 0
Super == 1
Unique == 2
Petal == [type : Types, rank : {Super, Unique}] \cup [type : Corrupting, rank : {Ultra}]
\* The petals an ant kingdom deals; their rarities, one for each slot, as one.
Dealt == [type |-> Pheromone, rank |-> Ultra]

Lowest(a, b) == IF a < b THEN a ELSE b
Highest(a, b) == IF a < b THEN b ELSE a
DealtSlots == Groups + 3
Slots == 0..Highest(MaxSlots, DealtSlots) - 1
Account == [bag : [Petal -> 0..MaxStack], primary : [Slots -> Petal \cup {Empty}],
            secondary : Petal \cup {Empty}, talentSlots : FirstSlots..MaxSlots]

ASSUME LoadoutAssumption ==
  /\ FirstSlots \in Nat \ {0} /\ MaxSlots \in Nat /\ FirstSlots <= MaxSlots
  /\ ForgeCost \in Nat \ {0} /\ MaxStack \in Nat \ {0} /\ Groups \in Nat
  /\ Sacrificed \subseteq Types /\ Corrupting \subseteq Types \ Sacrificed
  /\ Pheromone \in Stacking \ Types /\ MaxIsolated \in Nat /\ Loots \subseteq [Petal -> 0..MaxStack]
  /\ Roamers \subseteq Players /\ Empty # Dealt
  /\ Empty \notin Petal \cup Account /\ Nobody \notin Players /\ IsFiniteSet(Players)

VARIABLES
  account,   \* the account of every player (g_accounts)
  sandbox,   \* its copy while the player is in a sandbox, or Empty
  flower,    \* the flower the player controls
  room,      \* the kind of room the player is in (RoomKinds)
  owner,     \* the registry: owner and price of each Unique petal (m_owners)
  ownerFile, \* unique_petals.json
  supply     \* history: how many petals of each kind there should be

loadoutVars == <<account, sandbox, flower, room, owner, ownerFile, supply>>

Bare == [petal |-> Empty, available |-> TRUE]
BareSlots == [s \in Slots |-> Bare]
NoFlower == [state |-> "gone", count |-> FirstSlots, slots |-> BareSlots]

Add(acc, petal, n) == [acc EXCEPT !.bag[petal] = Lowest(@ + n, MaxStack)]
Take(acc, petal, n) == [acc EXCEPT !.bag[petal] = @ - n]
\* What was in a slot goes back to the bag.
PutBack(acc, petal) == IF petal = Empty THEN acc ELSE Add(acc, petal, 1)

\* In the bag, primary slots and the secondary one.
Held(acc, petal) == {s \in Slots : acc.primary[s] = petal}
InSecondary(acc, petal) == IF acc.secondary = petal THEN 1 ELSE 0
Holds(acc, petal) == acc.bag[petal] + Cardinality(Held(acc, petal)) + InSecondary(acc, petal)
HowMany(acc) == MapThenSumSet(LAMBDA petal : Holds(acc, petal), Petal)

Progress(p) == IF sandbox[p] = Empty THEN account[p] ELSE sandbox[p]
SetProgress(p, acc) ==
  IF sandbox[p] = Empty
    THEN account' = [account EXCEPT ![p] = acc] /\ UNCHANGED sandbox
    ELSE sandbox' = [sandbox EXCEPT ![p] = acc] /\ UNCHANGED account
RoomKinds == {"main", "waiting", "arena", "kingdom", "sandbox"}
Locked(r) == r \in {"waiting", "arena", "kingdom"}   \* LocksPetalLoadout
Strips(r) == r \in {"arena", "kingdom"}

-----------------------------------------------------------------------------
(* The slots of a flower.                                                    *)

\* Of the petals of a type that does not stack, the first of the best works.
Chosen(slots, s) ==
  \A r \in Slots : slots[r].petal # Empty /\ slots[r].petal.type = slots[s].petal.type =>
    \/ slots[r].petal.rank < slots[s].petal.rank
    \/ slots[r].petal.rank = slots[s].petal.rank /\ s <= r
Exclusive(slots, types) ==
  [s \in Slots |->
    IF slots[s].petal # Empty /\ slots[s].petal.type \in types \ Stacking
      THEN [slots[s] EXCEPT !.available = Chosen(slots, s)] ELSE slots[s]]

\* EquipPetal keeps what is said of the slot.
Equipped(slots, s, petal) ==
  Exclusive([slots EXCEPT ![s].petal = petal], {petal.type})

ForceUnequip(slots, ss) ==
  Exclusive([s \in Slots |-> IF s \in ss /\ slots[s].petal # Empty
                               THEN [slots[s] EXCEPT !.petal = Empty, !.available = TRUE]
                               ELSE slots[s]],
            {slots[s].petal.type : s \in {r \in ss : slots[r].petal # Empty}})

\* LoadSavedSlots, on a flower that shows no petal.
LoadSavedSlots(count, acc) ==
  Exclusive([s \in Slots |-> IF s < count THEN [Bare EXCEPT !.petal = acc.primary[s]] ELSE Bare],
            Types)

\* Mistake: the flower goes on showing what it did.
RestoreCount(f, acc) ==
  [f EXCEPT !.count = acc.talentSlots,
            !.slots = [s \in Slots |-> IF s < acc.talentSlots THEN @[s] ELSE Bare]]
\* Mistake: the slots stay as they are.
RestoreCountOnly(f, acc) == [f EXCEPT !.count = acc.talentSlots]
\* RestoreSavedLoadout: what the flower shows is thrown away, never stored.
RestoreSavedLoadout(f, acc) ==
  [f EXCEPT !.count = acc.talentSlots, !.slots = LoadSavedSlots(acc.talentSlots, acc)]

\* StripPlayerPetals keeps what an ant kingdom dealt (PreservesControllerPetal).
\* Bans are left out: nothing is equipped where a room bans slots, and elsewhere
\* the ban of an attack only forbids what a player may as well not do.
Preserved(r) == IF r = "kingdom" THEN {Pheromone} ELSE {}
Stripped(f, r) ==
  [f EXCEPT !.slots =
     ForceUnequip(@, {s \in Slots : f.slots[s].petal # Empty /\ f.slots[s].petal.type \notin Preserved(r)})]

\* EquipPheromonePetals, on a flower that shows nothing else.
WithPheromones(f) ==
  [f EXCEPT !.count = DealtSlots,
            !.slots = [s \in Slots |-> IF s \in 1..Groups THEN [Bare EXCEPT !.petal = Dealt] ELSE Bare]]

\* What the controller of the room does to a flower that arrives or spawns.
Arrived(f, r) ==
  CASE r = "arena" -> Stripped(f, r)
    [] r = "kingdom" -> WithPheromones(Stripped(f, r))
    [] OTHER -> f

-----------------------------------------------------------------------------
LoadoutInit ==
  /\ account = [p \in Players |->
       [bag |-> [petal \in Petal |-> 0], primary |-> [s \in Slots |-> Empty],
        secondary |-> Empty, talentSlots |-> FirstSlots]]
  /\ sandbox = [p \in Players |-> Empty]
  /\ flower = [p \in Players |-> NoFlower]
  /\ room = [p \in Players |-> "main"]
  /\ owner = [t \in Types |-> [by |-> Nobody, cost |-> 0]]
  /\ ownerFile = owner
  /\ supply = [petal \in Petal |-> 0]

registry == <<owner, ownerFile>>

Alive(p) == flower[p].state = "alive"
Shown(p, s) == flower[p].slots[s].petal

\* TryEquipPetal
Equip(p, s, petal) ==
  LET slot == flower[p].slots[s]
      acc == PutBack(Take(Progress(p), petal, 1), slot.petal)
  IN /\ Alive(p) /\ ~Locked(room[p])
     /\ s < flower[p].count /\ slot.available
     /\ Progress(p).bag[petal] > 0
     /\ SetProgress(p, [acc EXCEPT !.primary[s] = petal])
     /\ flower' = [flower EXCEPT ![p].slots = Equipped(@, s, petal)]
     /\ supply' = IF sandbox[p] = Empty /\ slot.petal = Empty /\ account[p].primary[s] # Empty
                    THEN [supply EXCEPT ![account[p].primary[s]] = @ - 1]  \* overwritten
                    ELSE supply
     /\ UNCHANGED <<room, registry>>

\* TryUnequipPetal
Unequip(p, s) ==
  /\ Alive(p) /\ ~Locked(room[p]) /\ s < flower[p].count /\ Shown(p, s) # Empty
  /\ SetProgress(p, [PutBack(Progress(p), Shown(p, s)) EXCEPT !.primary[s] = Empty])
  /\ flower' = [flower EXCEPT ![p].slots = ForceUnequip(@, {s})]
  /\ UNCHANGED <<room, registry, supply>>

\* HandleSecondarySlotRequest: a dead flower may, and one slot stands for all.
SetSecondary(p, petal) ==
  /\ flower[p].state # "gone" /\ ~Locked(room[p]) /\ Progress(p).bag[petal] > 0
  /\ LET acc == PutBack(Take(Progress(p), petal, 1), Progress(p).secondary)
     IN SetProgress(p, [acc EXCEPT !.secondary = petal])
  /\ UNCHANGED <<flower, room, registry, supply>>
ClearSecondary(p) ==
  /\ flower[p].state # "gone" /\ ~Locked(room[p]) /\ Progress(p).secondary # Empty
  /\ SetProgress(p, [PutBack(Progress(p), Progress(p).secondary) EXCEPT !.secondary = Empty])
  /\ UNCHANGED <<flower, room, registry, supply>>

\* AddTalent and RemoveTalent change the number of slots; the petals of slots
\* that go return to the bag (RefreshTalentSlotCount), unless the room owns the
\* slots.
LearnSlots(p, n) ==
  LET gone == {s \in Slots : s >= n /\ Shown(p, s) # Empty}
      back(petal) == Cardinality({s \in gone : Shown(p, s) = petal})
      acc == [Progress(p) EXCEPT !.talentSlots = n]
      trimmed == [acc EXCEPT !.bag = [petal \in Petal |-> Lowest(@[petal] + back(petal), MaxStack)],
                             !.primary = [s \in Slots |-> IF s \in gone THEN Empty ELSE @[s]]]
  IN /\ flower[p].state # "gone" /\ n # Progress(p).talentSlots
     /\ SetProgress(p, IF Locked(room[p]) THEN acc ELSE trimmed)
     /\ flower' = IF Locked(room[p]) THEN flower
                  ELSE [flower EXCEPT ![p].count = n, ![p].slots =
                          [s \in Slots |-> IF s < n THEN @[s] ELSE Bare]]
     /\ UNCHANGED <<room, registry, supply>>

-----------------------------------------------------------------------------
(* Death, and new flowers.                                                   *)

\* ConsumeCorruptionPetalsOnDeath takes all of these off, whether they work or
\* not, and returns those of rarity Super and above to the bag.
Consumed(p) == {s \in Slots : Shown(p, s) # Empty /\ Shown(p, s).type \in Corrupting}
Returned(p) == {s \in Consumed(p) : Shown(p, s).rank >= Super}
Showing(p, ss, petal) == Cardinality({s \in ss : Shown(p, s) = petal})

\* BeginBloodSacrifice gives up the first working petal of a sacrificed type,
\* if the flower dies in a zone; a waiting room bans them.
Offered(p) == {s \in Slots : /\ Shown(p, s) # Empty /\ Shown(p, s).type \in Sacrificed
                             /\ flower[p].slots[s].available /\ room[p] # "waiting"}
Given(p) == {{}} \cup {{s} : s \in {r \in Offered(p) : \A q \in Offered(p) : r <= q}}

\* Mistake: what returns to the bag is saved in its slot too.
StillSaved(p, gone) ==
  [Progress(p) EXCEPT !.bag = [petal \in Petal |-> Lowest(@[petal] + Showing(p, Returned(p), petal), MaxStack)]]
\* The account of a flower that dies and loses what it shows in some slots.
Outlived(p, gone) ==
  [Progress(p) EXCEPT
     !.bag = [petal \in Petal |-> Lowest(@[petal] + Showing(p, Returned(p), petal), MaxStack)],
     !.primary = [s \in Slots |-> IF s \in gone THEN Empty ELSE @[s]]]

\* EnterDeathState
Die(p) ==
  /\ Alive(p)
  /\ \E given \in Given(p) :
       LET gone == Consumed(p) \cup given
       IN /\ flower' = [flower EXCEPT ![p].state = "dead", ![p].slots = ForceUnequip(@, gone)]
          /\ SetProgress(p, Outlived(p, gone))
          /\ supply' = IF sandbox[p] = Empty
                         THEN [petal \in Petal |-> supply[petal] - Showing(p, gone \ Returned(p), petal)]
                         ELSE supply
  /\ UNCHANGED <<room, registry>>
Revive(p) ==
  /\ flower[p].state = "dead"
  /\ flower' = [flower EXCEPT ![p].state = "alive"]
  /\ UNCHANGED <<account, sandbox, room, registry, supply>>

\* SpawnPlayer: a flower with the initial slots, then the learned ones where
\* the room leaves slots to the player, then the saved petals, then the room.
Spawned(p) ==
  LET count == IF Locked(room[p]) THEN FirstSlots ELSE Progress(p).talentSlots
  IN Arrived([state |-> "alive", count |-> count, slots |-> LoadSavedSlots(count, Progress(p))], room[p])
Respawn(p) ==
  /\ flower[p].state = "dead"
  /\ flower' = [flower EXCEPT ![p] = Spawned(p)]
  /\ UNCHANGED <<account, sandbox, room, registry, supply>>
Login(p) ==
  /\ flower[p].state = "gone"
  /\ flower' = [flower EXCEPT ![p] = Spawned(p)]
  /\ UNCHANGED <<account, sandbox, room, registry, supply>>
\* The player is dropped, its sandbox with it (~CPlayer).
Logout(p) ==
  /\ flower[p].state # "gone"
  /\ flower' = [flower EXCEPT ![p] = NoFlower]
  /\ room' = [room EXCEPT ![p] = "main"]
  /\ sandbox' = [sandbox EXCEPT ![p] = Empty]
  /\ UNCHANGED <<account, registry, supply>>

\* CWorldTransfer::Move: departure, SynchronizeGameplayScope, arrival.
Move(p, r) ==
  LET left == IF Strips(room[p]) THEN RestoreSavedLoadout(flower[p], Progress(p)) ELSE flower[p]
      scoped == IF r = "sandbox" \/ room[p] = "sandbox"
                  THEN RestoreSavedLoadout(left, account[p]) ELSE left
  IN /\ flower[p].state # "gone" /\ r # room[p]
     /\ r = "sandbox" => HowMany(account[p]) <= MaxIsolated
     /\ room' = [room EXCEPT ![p] = r]
     /\ sandbox' = [sandbox EXCEPT ![p] = IF r = "sandbox" THEN account[p] ELSE Empty]
     /\ flower' = [flower EXCEPT ![p] = Arrived(scoped, r)]
     /\ UNCHANGED <<account, registry, supply>>

-----------------------------------------------------------------------------
(* Finding petals, and the one Unique petal of each type.                    *)

Refund(t) == IF owner[t].cost = 0 THEN 0 ELSE owner[t].cost - 1

Found == [t \in Types |-> [type |-> t, rank |-> Super]]
UniqueOf(t) == [type |-> t, rank |-> Unique]

\* Petals come up while there are never more of them than one of Loots has, with
\* those that a refund may bring back.
Owed(petal) == IF petal.rank = Super THEN Refund(petal.type) ELSE 0
ComesUp(petal) ==
  \E loot \in Loots :
    /\ supply[petal] + Owed(petal) < loot[petal]
    /\ \A other \in Petal : supply[other] + Owed(other) <= loot[other]
PickUp(p, petal) ==
  /\ Alive(p)
  /\ IF sandbox[p] = Empty
       THEN /\ ComesUp(petal)
            /\ supply' = [supply EXCEPT ![petal] = @ + 1]
       ELSE HowMany(sandbox[p]) < MaxIsolated /\ UNCHANGED supply
  /\ SetProgress(p, Add(Progress(p), petal, 1))
  /\ UNCHANGED <<flower, room, registry>>

\* TakeStoredPetals: from the bag, then primary slots in order, then secondary.
Cleared(acc, petal, n) ==
  {s \in Held(acc, petal) :
     acc.bag[petal] + Cardinality({r \in Held(acc, petal) : r < s}) < n}
TakeStored(acc, petal, n) ==
  [acc EXCEPT !.bag[petal] = @ - Lowest(@, n),
              !.primary = [s \in Slots |-> IF s \in Cleared(acc, petal, n) THEN Empty ELSE @[s]],
              !.secondary = IF /\ @ = petal
                               /\ acc.bag[petal] + Cardinality(Held(acc, petal)) < n THEN Empty ELSE @]

\* Mistake: what was staged stays in the registry.
StagedStays(p, t, cost) == [owner EXCEPT ![t] = [by |-> p, cost |-> cost]]
\* The staged entry of the registry is taken back when the exchange fails.
Restored(p, t, cost) == owner

\* ExchangeUniquePetal: the old owner gives its petal up for a refund, and the
\* getter pays.
Exchanged(acc, give, m, get, n) == Add(TakeStored(acc, give, m), get, n)
Repaid(t) == IF owner[t].by = Nobody THEN 0 ELSE Refund(t)
Refunded(t) ==
  IF owner[t].by = Nobody THEN account
  ELSE [account EXCEPT ![owner[t].by] = Exchanged(@, UniqueOf(t), 1, Found[t], Refund(t))]
Bought(p, t, cost) == [Refunded(t) EXCEPT ![p] = Exchanged(@, Found[t], cost, UniqueOf(t), 1)]
Exchangeable(p, t, cost) ==
  /\ owner[t].by # Nobody => /\ Holds(account[owner[t].by], UniqueOf(t)) > 0
                             /\ account[owner[t].by].bag[Found[t]] + Refund(t) <= MaxStack
  /\ Holds(Refunded(t)[p], Found[t]) >= cost
  /\ TakeStored(Refunded(t)[p], Found[t], cost).bag[UniqueOf(t)] < MaxStack

\* The slots it clears, which a flower outside a sandbox stops showing.
Vacated(q, p, t, cost) ==
  (IF q = owner[t].by THEN Cleared(account[q], UniqueOf(t), 1) ELSE {})
    \cup (IF q = p THEN Cleared(Refunded(t)[q], Found[t], cost) ELSE {})
Emptied(q, p, t, cost) ==
  [flower[q] EXCEPT !.slots = ForceUnequip(@, Vacated(q, p, t, cost) \cap 0..flower[q].count - 1)]

Exchange(p, t, cost) ==
  /\ Exchangeable(p, t, cost)
  /\ account' = Bought(p, t, cost)
  /\ owner' = [owner EXCEPT ![t] = [by |-> p, cost |-> cost]]
  /\ flower' = [q \in Players |->
       IF q \in {owner[t].by, p} /\ flower[q].state # "gone" /\ sandbox[q] = Empty
         THEN Emptied(q, p, t, cost) ELSE flower[q]]
  /\ supply' = [supply EXCEPT ![Found[t]] = @ + Repaid(t) - cost,
                              ![UniqueOf(t)] = IF owner[t].by = Nobody THEN @ + 1 ELSE @]
  /\ UNCHANGED <<sandbox, room, ownerFile>>

\* GetUnique: a step that fails, the save of the accounts too, undoes all of it.
GetUnique(p, t, cost) ==
  \/ Exchange(p, t, cost)
  \/ /\ owner' = Restored(p, t, cost)
     /\ UNCHANGED <<account, sandbox, flower, room, ownerFile, supply>>

\* HandleForgeRequest, near a titan that can forge the type.
Forge(p, t) ==
  /\ Alive(p) /\ sandbox[p] = Empty /\ account[p].bag[Found[t]] >= ForgeCost
  /\ GetUnique(p, t, ForgeCost)

\* CDrop::PickUpTo, for the Unique petal a titan dropped.
PickUpUnique(p, t) ==
  /\ Alive(p)
  /\ IF sandbox[p] = Empty
       THEN /\ supply[UniqueOf(t)] > 0 \/ ComesUp(UniqueOf(t))
            /\ GetUnique(p, t, 0)
     ELSE /\ HowMany(sandbox[p]) < MaxIsolated
          /\ SetProgress(p, Add(Progress(p), UniqueOf(t), 1))
          /\ UNCHANGED <<flower, room, registry, supply>>

\* The registry is written when the server shuts down, accounts always. A
\* crash that loses changes of the registry is left out: the two stores then
\* disagree for good.
Offline == /\ flower' = [p \in Players |-> NoFlower]
           /\ room' = [p \in Players |-> "main"]
           /\ sandbox' = [p \in Players |-> Empty]
           /\ UNCHANGED <<account, owner, supply>>
ShutDown == Offline /\ ownerFile' = owner
Crash == Offline /\ owner = ownerFile /\ UNCHANGED ownerFile

LoadoutNext ==
  \/ \E p \in Players :
       \/ Login(p) \/ Logout(p)
       \/ \E petal \in Petal : petal.rank # Unique /\ PickUp(p, petal)
       \/ \E t \in Types : Forge(p, t) \/ PickUpUnique(p, t)
  \/ \E p \in Roamers :
       \/ \E s \in Slots, petal \in Petal : Equip(p, s, petal)
       \/ \E s \in Slots : Unequip(p, s)
       \/ \E petal \in Petal : SetSecondary(p, petal)
       \/ ClearSecondary(p)
       \/ \E n \in FirstSlots..MaxSlots : LearnSlots(p, n)
       \/ Die(p) \/ Revive(p) \/ Respawn(p)
       \/ \E r \in RoomKinds : Move(p, r)
  \/ ShutDown \/ Crash

LoadoutSpec == LoadoutInit /\ [][LoadoutNext]_loadoutVars
-----------------------------------------------------------------------------
Slot == [petal : Petal \cup {Dealt, Empty}, available : BOOLEAN]

\* Types, and that a flower shows nothing beyond the slots it has.
LoadoutTypeOK ==
  /\ account \in [Players -> Account]
  /\ sandbox \in [Players -> Account \cup {Empty}]
  /\ flower \in [Players -> [state : {"gone", "alive", "dead"},
                            count : FirstSlots..MaxSlots \cup {DealtSlots}, slots : [Slots -> Slot]]]
  /\ \A p \in Players, s \in Slots : s >= flower[p].count => flower[p].slots[s] = Bare
  /\ room \in [Players -> RoomKinds]
  /\ {owner, ownerFile} \subseteq [Types -> [by : Players \cup {Nobody}, cost : {0, ForgeCost}]]
  /\ supply \in [Petal -> Nat]

\* A petal that a flower shows is the saved one of that slot, whichever rooms
\* the player came through and whoever took a Unique petal from it meanwhile.
\* An arena shows none; an ant kingdom shows none of the account's, but those
\* it dealt, in the slots it dealt them to, and no other room shows these.
ShownIsOwned ==
  \A p \in Players, s \in Slots :
    flower[p].state # "gone" /\ Shown(p, s) # Empty =>
      IF Strips(room[p])
        THEN room[p] = "kingdom" /\ Shown(p, s) = Dealt /\ s \in 1..Groups
        ELSE Shown(p, s) = Progress(p).primary[s]

\* Petals neither vanish nor multiply, and nothing done in a sandbox makes or
\* takes one, with three exceptions: Equip overwrites a petal that is saved and
\* not shown, a dying flower gives up what it sacrifices, and its death destroys
\* the corrupting petals below Super that it shows.
Copies(petal) == UNION {{p} \X (1..Holds(account[p], petal)) : p \in Players}
Total(petal) == Cardinality(Copies(petal))
PetalsAreConserved == \A petal \in Petal : Total(petal) = supply[petal]

\* There is one Unique petal of a type at most, and it is where the registry
\* says, or nowhere any more.
UniqueIsRegistered ==
  \A t \in Types, p \in Players :
    /\ supply[UniqueOf(t)] <= 1
    /\ Holds(account[p], UniqueOf(t)) = IF owner[t].by = p THEN supply[UniqueOf(t)] ELSE 0

\* At most one petal of a type that does not stack works.
OneWorks ==
  \A p \in Players, s, r \in Slots :
    /\ s # r /\ Shown(p, s) # Empty /\ Shown(p, r) # Empty
    /\ Shown(p, s).type = Shown(p, r).type /\ Shown(p, s).type \notin Stacking
    => ~(flower[p].slots[s].available /\ flower[p].slots[r].available)

\* No petal works that neither its account nor its room owns, or twice.
SlotsAreTrue == ShownIsOwned /\ OneWorks

\* No petal is lost or copied on its way between players, rooms and the
\* registry, and a Unique petal is where the registry says.
PetalsAreAccounted == PetalsAreConserved /\ UniqueIsRegistered

\* Refunds give back less than was paid: with what the registry still owes,
\* Unique petals never make more of the petals they are forged from.
Worth(t) == Total(Found[t]) + Refund(t)
RefundsArePaidFor ==
  [][owner' # owner => \A t \in Types : Worth(t)' <= Worth(t)]_loadoutVars
=============================================================================
