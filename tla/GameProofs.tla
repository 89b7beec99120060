----------------------------- MODULE GameProofs -----------------------------
(* The parts that MCGame checks side by side: whoever follows one of them    *)
(* through GameSpec sees nothing that its own specification would not show,  *)
(* so that what is proved of a part holds in the whole.                      *)
EXTENDS MCGame, PlayProofs, ServerProofs, WorldsProofs

Parts == {"loadout", "carrying", "rooms", "squads", "reports", "worlds", "reload", "input"}

LEMMA GameStarts ==
  GameInit => /\ part \in Parts
              /\ LoadoutInit /\ CarryingInit /\ RoomsInit /\ SquadsInit /\ ReportsInit /\ WorldsInit
              /\ HotReloadInit /\ PlayerInputInit
  BY DEF GameInit, Parts

LEMMA GameSteps ==
  [GameNext]_gameVars =>
    /\ UNCHANGED part
    /\ [LoadoutNext]_loadoutVars /\ [CarryingNext]_carryingVars /\ [RoomsNext]_roomVars
    /\ [SquadsNext]_squadVars /\ [ReportsNext]_reportVars /\ [WorldsNext]_worldsVars
    /\ [ReloadNext]_reloadVars /\ [PlayerInputNext]_inputVars
  BY DEF GameNext, gameVars

\* Every part of the game moves as its own specification says.
THEOREM GameFollowsItsParts ==
  GameSpec => /\ LoadoutSpec /\ CarryingSpec /\ RoomsSpec /\ SquadsSpec
              /\ ReportsSpec /\ WorldsSpec /\ HotReloadSpec /\ PlayerInputSpec
  BY GameStarts, GameSteps, PTL
     DEF GameSpec, LoadoutSpec, CarryingSpec, RoomsSpec, SquadsSpec, ReportsSpec, WorldsSpec,
         HotReloadSpec, PlayerInputSpec

\* Whichever part moves, all of its variables keep their types.
THEOREM GameTypeCorrect == GameSpec => []GameTypeOK
  <1>1. GameSpec => [](part \in Parts)
    <2>1. GameInit => part \in Parts
      BY GameStarts
    <2>2. part \in Parts /\ [GameNext]_gameVars => (part \in Parts)'
      BY GameSteps
    <2> QED
      BY <2>1, <2>2, PTL DEF GameSpec
  <1>2. /\ part \in Parts
        /\ LoadoutTypeOK /\ CarryingTypeOK /\ RoomsTypeOK /\ SquadsTypeOK
        /\ ReportsTypeOK /\ WorldsTypeOK /\ HotReloadTypeOK /\ PlayerInputTypeOK
        => GameTypeOK
    BY DEF Parts, GameTypeOK
  <1> QED
    BY <1>1, <1>2, GameFollowsItsParts, LoadoutTypeCorrect, CarryTypeCorrect, RoomsTypeCorrect,
       SquadsTypeCorrect, ReportTypeCorrect, WorldsTypeCorrect, ReloadTypeCorrect, InputTypeCorrect, PTL

\* What is proved of each part is true of the game, whatever the players of
\* that part do: every invariant and every action property the run checks.
THEOREM GameStaysSound ==
  GameSpec => /\ [](SlotsAreTrue /\ PetalsAreAccounted /\ CarriedIsRegistered /\ RoomsAreSound)
              /\ [](SquadsAreAgreedOn /\ ReportsAreTracked /\ WorldsAreSound)
              /\ [](ReloadsAreSound /\ InputsAreInOrder)
              /\ RefundsArePaidFor /\ PlayersKeepTheirWorld /\ HandlesNameOne /\ ControlIsKept
  BY GameFollowsItsParts, SlotsStayTrue, PetalsStayAccounted, LoadsAreRegistered, RoomsStaySound,
     SquadsStayAgreed, TrackedReports, WorldsStaySound, SoundReloads, OrderedInputs,
     RefundsStayPaidFor, TicksKeepPlayers, HandlesStayNameOne, ControlStaysKept, PTL
=============================================================================
