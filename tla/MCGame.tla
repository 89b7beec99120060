------------------------------- MODULE MCGame -------------------------------
(* The parts of the game that share no state, checked side by side: a        *)
(* behaviour picks one part and follows it while the others rest.            *)
EXTENDS Loadout, Carrying, Rooms, Squads, Reports, Worlds, HotReload,
  PlayerInput, TLC

\* Two petals of a type that is forged and its Unique one, or two petals that
\* a death destroys, returns or gives up.
Only(petals) == [petal \in Petal |-> IF petal \in petals THEN 1 ELSE 0]
FewLoots ==
  {[petal \in Petal |-> IF petal.type \notin Sacrificed THEN 0 ELSE IF petal.rank = Super THEN 2 ELSE 1]}
    \cup {Only({[type |-> t, rank |-> Super], [type |-> c, rank |-> Ultra]}) : t \in Types, c \in Corrupting}

VARIABLE part

\* A part that rests does so in one of its initial states.
Rest ==
  /\ part # "carrying" => \A e \in Hornets : hornet[e].zone = Min(Zones)
  /\ part # "squads" => maxSquad = Min(SquadLimits)
  /\ part # "reload" => build = CHOOSE b \in Builds : TRUE

GameInit ==
  /\ part \in {"loadout", "carrying", "rooms", "squads", "reports", "worlds", "reload", "input"}
  /\ LoadoutInit /\ CarryingInit /\ RoomsInit /\ SquadsInit /\ ReportsInit /\ WorldsInit
  /\ HotReloadInit /\ PlayerInputInit
  /\ Rest

GameNext ==
  /\ UNCHANGED part
  /\ \/ /\ part = "loadout" /\ LoadoutNext
        /\ UNCHANGED <<carryingVars, roomVars, squadVars, reportVars, worldsVars, reloadVars, inputVars>>
     \/ /\ part = "carrying" /\ CarryingNext
        /\ UNCHANGED <<loadoutVars, roomVars, squadVars, reportVars, worldsVars, reloadVars, inputVars>>
     \/ /\ part = "rooms" /\ RoomsNext
        /\ UNCHANGED <<loadoutVars, carryingVars, squadVars, reportVars, worldsVars, reloadVars, inputVars>>
     \/ /\ part = "squads" /\ SquadsNext
        /\ UNCHANGED <<loadoutVars, carryingVars, roomVars, reportVars, worldsVars, reloadVars, inputVars>>
     \/ /\ part = "reports" /\ ReportsNext
        /\ UNCHANGED <<loadoutVars, carryingVars, roomVars, squadVars, worldsVars, reloadVars, inputVars>>
     \/ /\ part = "worlds" /\ WorldsNext
        /\ UNCHANGED <<loadoutVars, carryingVars, roomVars, squadVars, reportVars, reloadVars, inputVars>>
     \/ /\ part = "reload" /\ ReloadNext
        /\ UNCHANGED <<loadoutVars, carryingVars, roomVars, squadVars, reportVars, worldsVars, inputVars>>
     \/ /\ part = "input" /\ PlayerInputNext
        /\ UNCHANGED <<loadoutVars, carryingVars, roomVars, squadVars, reportVars, worldsVars, reloadVars>>

gameVars == <<part, loadoutVars, carryingVars, roomVars, squadVars, reportVars, worldsVars, reloadVars, inputVars>>
GameSpec == GameInit /\ [][GameNext]_gameVars

\* The type invariant of the part that moves; the others stay as they were.
GameTypeOK ==
  CASE part = "loadout" -> LoadoutTypeOK [] part = "carrying" -> CarryingTypeOK
    [] part = "rooms" -> RoomsTypeOK     [] part = "squads" -> SquadsTypeOK
    [] part = "reports" -> ReportsTypeOK [] part = "worlds" -> WorldsTypeOK
    [] part = "reload" -> HotReloadTypeOK [] part = "input" -> PlayerInputTypeOK
=============================================================================
