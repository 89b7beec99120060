------------------------------- MODULE Mirror -------------------------------
(***************************************************************************)
(* What the snapshot protocol promises a client: the scene it shows is one *)
(* the server really had, all of it, and it only moves forward in time.    *)
(* Scenes may be skipped; when the client is told to start over it shows   *)
(* nothing until the next one arrives.                                     *)
(***************************************************************************)
EXTENDS Integers, Sequences

CONSTANTS Scene, Nothing

VARIABLES
  world,   \* the scene the server has now
  sent,    \* the scenes captured and not shown yet, oldest first
  view     \* the scene the client shows

vars == <<world, sent, view>>

\* What is left of a sequence when some of its elements are taken out.
Thinned(scenes) ==
  LET Rising(n) == {f \in [1..n -> DOMAIN scenes] : \A i, j \in 1..n : i < j => f[i] < f[j]}
  IN  UNION {{[i \in 1..n |-> scenes[f[i]]] : f \in Rising(n)} : n \in 0..Len(scenes)}

Init ==
  /\ world \in Scene
  /\ sent = <<>>
  /\ view = Nothing

Change ==
  /\ world' \in Scene
  /\ UNCHANGED view
  /\ sent' \in Thinned(sent)

\* A capture may replace captures that have not left yet.
Capture ==
  /\ UNCHANGED <<world, view>>
  /\ \E kept \in Thinned(sent) : sent' = Append(kept, world)

Show ==
  /\ UNCHANGED world
  /\ \E i \in DOMAIN sent :
       /\ view' = sent[i]
       /\ sent' = SubSeq(sent, i + 1, Len(sent))

Skip ==
  /\ UNCHANGED <<world, view>>
  /\ sent' \in Thinned(sent)

StartOver ==
  /\ UNCHANGED world
  /\ view' = Nothing
  /\ sent' \in Thinned(sent)

Next == Change \/ Capture \/ Show \/ Skip \/ StartOver

Spec == Init /\ [][Next]_vars
=============================================================================
