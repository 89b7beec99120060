----------------------------- MODULE ParallelFor -----------------------------
(***************************************************************************)
(* What the snapshot build pool promises its caller: a call runs every job *)
(* once, in any order, and returns, with the exception of one of the jobs  *)
(* that threw if any did, when no job is left.                             *)
(***************************************************************************)
EXTENDS Integers

CONSTANT MaxJobs

VARIABLES
  busy,    \* a call is in progress
  left,    \* the jobs of this call that have not run
  threw    \* some job of this call threw

vars == <<busy, left, threw>>

Init == ~busy /\ left = {} /\ ~threw

Call ==
  /\ ~busy
  /\ busy' = TRUE
  /\ \E n \in 1..MaxJobs : left' = 0..(n - 1)
  /\ threw' = FALSE

Do ==
  /\ busy
  /\ \E job \in left : left' = left \ {job}
  /\ threw' \in {threw, TRUE}
  /\ UNCHANGED busy

Return ==
  /\ busy
  /\ left = {}
  /\ busy' = FALSE
  /\ UNCHANGED <<left, threw>>

Next == Call \/ Do \/ Return

Spec == Init /\ [][Next]_vars
=============================================================================
