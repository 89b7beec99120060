--------------------------- MODULE DurableAccounts ---------------------------
(***************************************************************************)
(* What the account store promises, without threads or files: the durable  *)
(* copy is always one whole state that memory has been in, it only moves   *)
(* to newer ones, and a restart resumes from it.  Captured states may be   *)
(* lost on the way (superseded, failed to write, or crashed), never mixed  *)
(* and never reordered.                                                    *)
(***************************************************************************)
EXTENDS Integers

CONSTANTS Image, NoAccounts, MaxGeneration

VARIABLES
  current,   \* the accounts in memory
  inflight,  \* captured states that may still become durable
  durable    \* the durable state and its generation

vars == <<current, inflight, durable>>

Init ==
  /\ current = NoAccounts
  /\ inflight = {}
  /\ durable = [gen |-> 0, accounts |-> NoAccounts]

Update ==
  /\ current' \in Image
  /\ UNCHANGED <<inflight, durable>>

\* The state is captured under a generation newer than every other; earlier
\* captures may be superseded.
Capture ==
  /\ current' \in Image
  /\ \E g \in 1..MaxGeneration, kept \in SUBSET inflight :
       /\ g > durable.gen
       /\ \A s \in inflight : g > s.gen
       /\ inflight' = kept \cup {[gen |-> g, accounts |-> current']}
  /\ UNCHANGED durable

Publish ==
  /\ \E s \in inflight :
       /\ s.gen > durable.gen
       /\ durable' = s
       /\ inflight' = {t \in inflight : t.gen > s.gen}
  /\ UNCHANGED current

Lose ==
  /\ \E s \in inflight : inflight' = inflight \ {s}
  /\ UNCHANGED <<current, durable>>

Restart ==
  /\ current' = durable.accounts
  /\ inflight' = {}
  /\ UNCHANGED durable

Next == Update \/ Capture \/ Publish \/ Lose \/ Restart

Spec == Init /\ [][Next]_vars
=============================================================================
