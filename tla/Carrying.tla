------------------------------ MODULE Carrying ------------------------------
(* Hornets that grab hornets: the carrier holds the handle of what it carries *)
(* (pickup_controller.cpp), the world keeps a registry of who is carried by   *)
(* whom (gameworld.cpp), and what is carried does not tick until it is let    *)
(* go (CHornetSkillActions in melee_controller.cpp). Hornets die in the       *)
(* middle of a tick and are removed at its end, players take the hornets they *)
(* control to other worlds (world_transition.cpp), the server hot-reloads.    *)
EXTENDS Naturals, FiniteSets

CONSTANTS Ultras, Eternals, Primordials, \* the hornets, by rarity
  Possessed,   \* bound: those a player controls
  Zones,       \* the worlds
  MaxMoves,    \* bound: how often one of them changes worlds
  Nothing

Hornets == Ultras \cup Eternals \cup Primordials
Rank(e) == IF e \in Ultras THEN 1 ELSE IF e \in Eternals THEN 2 ELSE 3

ASSUME CarryingAssumption ==
  /\ MaxMoves \in Nat /\ Possessed \subseteq Hornets /\ Nothing \notin Hornets \X Nat
  /\ Ultras \cap (Eternals \cup Primordials) = {} /\ Eternals \cap Primordials = {}

VARIABLES
  hornet,    \* the hornets; a handle is <<hornet, how often it changed worlds>>
  carriedBy,  \* m_carried_entities of all worlds: pairs of handles
  sweeping   \* Cleanup, at the end of a tick

carryingVars == <<hornet, carriedBy, sweeping>>

Handle(h, e) == <<e, h[e].moves>>

\* ResolveEntity in the world of c.
Resolves(h, c, ref) ==
  /\ ref # Nothing /\ h[ref[1]].life # "removed" /\ h[ref[1]].moves = ref[2]
  /\ h[ref[1]].zone = h[c].zone

\* GetCarried answers, and answers e.
Carries(h, c, e) ==
  /\ h[c].carried = Handle(h, e)
  /\ h[c].life = "alive" /\ h[e].life = "alive" /\ Resolves(h, c, h[c].carried)

\* IsCarriedEntity: a record that its carrier does not confirm is no record.
IsCarried(h, r, e) ==
  \E c \in Hornets : <<Handle(h, e), Handle(h, c)>> \in r /\ Carries(h, c, e)

\* TryRegisterCarriedEntity: another carrier's record stands.
Registers(h, r, e, c) ==
  IsCarried(h, r, e) => <<Handle(h, e), Handle(h, c)>> \in r
Registered(h, r, e, c) ==
  {pair \in r : pair[1] # Handle(h, e)} \cup {<<Handle(h, e), Handle(h, c)>>}

\* DropCarried, also of a carrier that is dying. What has left the world
\* cannot be found, and OnCarryChanged has nothing to let tick again.
Let(h, c) ==
  LET ref == h[c].carried
      dropped == [h EXCEPT ![c].carried = Nothing, ![c].saved = FALSE, ![c].skipBefore = FALSE]
  IN IF h[c].saved /\ Resolves(h, c, ref)
       THEN [dropped EXCEPT ![ref[1]].skip = h[c].skipBefore] ELSE dropped
Unregistered(h, r, c) == r \ {<<h[c].carried, Handle(h, c)>>}

\* FinishCurrentAction
Finished(h, c) == [Let(h, c) EXCEPT ![c].charge = "no"]

-----------------------------------------------------------------------------
CarryingInit ==
  /\ hornet \in [Hornets -> {[life |-> "alive", zone |-> z, moves |-> 0, skip |-> FALSE,
       carried |-> Nothing, saved |-> FALSE, skipBefore |-> FALSE, charge |-> "no"] : z \in Zones}]
  /\ carriedBy = {}
  /\ sweeping = FALSE

\* TryStartSkill3 with TryPickup, in the tick of c. Which hornets are near
\* enough, and which of them is the best, is left open.
Capture(c, e) ==
  /\ ~sweeping
  /\ hornet[c].life = "alive" /\ ~hornet[c].skip /\ hornet[c].charge = "no"
  /\ Rank(c) >= 2 /\ Rank(e) # Rank(c)
  /\ hornet[e].life = "alive" /\ hornet[e].zone = hornet[c].zone
  /\ Registers(hornet, carriedBy, e, c)
  /\ carriedBy' = Registered(hornet, carriedBy, e, c)
  /\ hornet' = [hornet EXCEPT ![c].carried = Handle(hornet, e), ![c].charge = "fresh",
                  ![c].saved = TRUE, ![c].skipBefore = hornet[e].skip, ![e].skip = TRUE]
  /\ UNCHANGED sweeping

\* CHornetSkillActions::Tick: the load is launched, or it or the target is
\* lost; not before the next tick.
FinishCharge(c) ==
  /\ ~sweeping
  /\ hornet[c].life = "alive" /\ ~hornet[c].skip /\ hornet[c].charge = "yes"
  /\ hornet' = Finished(hornet, c)
  /\ carriedBy' = Unregistered(hornet, carriedBy, c)
  /\ UNCHANGED sweeping

\* MarkForDestroy, by damage or by a command.
Perish(e) ==
  /\ ~sweeping /\ hornet[e].life = "alive"
  /\ hornet' = [hornet EXCEPT ![e].life = "dying"]
  /\ UNCHANGED <<carriedBy, sweeping>>

\* The end of a tick.
BeginSweep == ~sweeping /\ sweeping' = TRUE /\ UNCHANGED <<hornet, carriedBy>>

\* OnBeforeRemoved and ReleaseCarriedRelations: e lets go of its load, and the
\* carrier of e of e.
Released(h, r, e) ==
  LET first == Finished(h, e)
      rest == Unregistered(h, r, e)
      holders == {c \in Hornets : <<Handle(h, e), Handle(h, c)>> \in rest /\ Resolves(first, e, Handle(h, c))}
  IN IF holders = {} THEN <<first, {pair \in rest : pair[1] # Handle(h, e)}>>
     ELSE LET c == CHOOSE c \in holders : TRUE
          IN <<Let(first, c), Unregistered(first, rest, c)>>
Sweep(e) ==
  /\ sweeping /\ hornet[e].life = "dying"
  /\ LET done == Released(hornet, carriedBy, e)
     IN /\ hornet' = [done[1] EXCEPT ![e].life = "removed", ![e].skip = FALSE]
        /\ carriedBy' = done[2]
  /\ UNCHANGED sweeping
EndSweep ==
  /\ sweeping /\ \A e \in Hornets : hornet[e].life # "dying"
  /\ sweeping' = FALSE
  /\ hornet' = [e \in Hornets |->
                 [hornet[e] EXCEPT !.charge = IF @ = "fresh" THEN "yes" ELSE @]]
  /\ UNCHANGED carriedBy

\* CWorldTransfer::Move between ticks: e gets a new identity, lets go of its
\* load (DropCarriedFromWorld), and its carrier lets go of a handle nothing
\* answers to any more.
Moved(h, e, z) ==
  LET load == Let(h, e)
  IN [load EXCEPT ![e].zone = z, ![e].moves = @ + 1, ![e].charge = "no"]
TakeAway(e, z) ==
  /\ ~sweeping /\ hornet[e].life = "alive" /\ hornet[e].zone # z
  /\ hornet[e].moves < MaxMoves
  /\ LET here == Unregistered(hornet, carriedBy, e)
         holders == {c \in Hornets : <<Handle(hornet, e), Handle(hornet, c)>> \in here}
         moved == Moved(hornet, e, z)
     IN IF holders = {} THEN hornet' = moved /\ carriedBy' = here
        ELSE \E c \in holders :
               hornet' = Let(moved, c) /\ carriedBy' = Unregistered(moved, here, c)
  /\ UNCHANGED sweeping

\* A snapshot and its restoration: pending removals are flushed first, and
\* FinalizeEntityRestore builds the registry from what the carriers hold.
\* Mistake: the carriers are not asked.
RegistryForgotten(h) == {}
RebuiltRegistry(h) ==
  {<<h[c].carried, Handle(h, c)>> : c \in {c \in Hornets : \E e \in Hornets : Carries(h, c, e)}}
ReloadHornets ==
  /\ ~sweeping /\ \A e \in Hornets : hornet[e].life # "dying"
  /\ carriedBy' = RebuiltRegistry(hornet)
  /\ UNCHANGED <<hornet, sweeping>>

CarryingNext ==
  \/ \E c, e \in Hornets : Capture(c, e)
  \/ \E c \in Hornets : FinishCharge(c)
  \/ \E e \in Hornets : Perish(e) \/ Sweep(e)
  \/ BeginSweep \/ EndSweep
  \/ \E e \in Possessed, z \in Zones : TakeAway(e, z)
  \/ ReloadHornets

CarryingSpec == CarryingInit /\ [][CarryingNext]_carryingVars
-----------------------------------------------------------------------------
CarryingTypeOK ==
  /\ hornet \in [Hornets -> [life : {"alive", "dying", "removed"}, zone : Zones, moves : 0..MaxMoves,
       skip : BOOLEAN, carried : (Hornets \X (0..MaxMoves)) \cup {Nothing}, saved : BOOLEAN,
       skipBefore : BOOLEAN, charge : {"no", "fresh", "yes"}]]
  /\ carriedBy \subseteq (Hornets \X (0..MaxMoves)) \X (Hornets \X (0..MaxMoves))
  /\ sweeping \in BOOLEAN

\* What a living hornet carries is registered as its load and as nobody
\* else's, also after deaths, moves and reloads: nobody is carried twice.
CarriedIsRegistered ==
  \A c, e \in Hornets : Carries(hornet, c, e) =>
    {pair \in carriedBy : pair[1] = Handle(hornet, e)} = {<<Handle(hornet, e), Handle(hornet, c)>>}

\* A hornet that does not tick is being carried ("when the carrier dies, the
\* carried entity moves or the controller is replaced, the carry relation is
\* released").
FrozenIsCarried ==
  \A e \in Hornets : hornet[e].skip /\ ~sweeping => \E c \in Hornets :
    hornet[c].life # "removed" /\ Resolves(hornet, c, hornet[c].carried) /\ hornet[c].carried[1] = e
=============================================================================
