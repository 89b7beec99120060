----------------------------- MODULE PlayProofs -----------------------------
(* Proofs about what players do: the scheduled input of a player             *)
(* (PlayerInput), the hornets that carry one another (Carrying), and the     *)
(* petals in bags, slots and the registry (Loadout).                         *)
EXTENDS PlayerInput, Carrying, Loadout, Integers, FiniteSetTheorems, FunctionTheorems,
  WellFoundedInduction, TLAPS

-----------------------------------------------------------------------------
(* Scheduled input: no input is lost and none comes back, for rings and      *)
(* sequence numbers of any size.                                             *)

HoldsInput(queue, s, f) == queue[s] # NoOperate /\ queue[s].holds[f] # 0
Numbered(queue, s, f) == HoldsInput(queue, s, f) /\ queue[s].numbers[f] # NoSequence

\* A slot waits for one of the coming ticks, the one it is the slot of.
Placed(queue, tick) ==
  \A s \in Ring : queue[s] # NoOperate =>
    queue[s].target \in (tick + 1)..(tick + MAX_INPUT_DELAY_TICKS) /\ SlotOf(queue[s].target) = s

\* No two slots hold the same operation, and none is newer than the newest.
InputsDiffer ==
  \A f \in Fields :
    /\ inForce[f] <= newest[f] /\ newest[f] <= inputs
    /\ \A s \in Ring : HoldsInput(operates, s, f) => operates[s].holds[f] <= newest[f]
    /\ \A s, t \in Ring : s # t /\ HoldsInput(operates, s, f) /\ HoldsInput(operates, t, f)
                         => operates[s].holds[f] # operates[t].holds[f]

\* What has no number takes effect at the next tick and is older than all that
\* waits for its field.
FencesFirst ==
  \A f \in Fields, s \in Ring :
    HoldsInput(operates, s, f) /\ ~Numbered(operates, s, f) =>
      /\ operates[s].target = localTick + 1
      /\ \A t \in Ring \ {s} : HoldsInput(operates, t, f) =>
           operates[t].holds[f] > operates[s].holds[f]

\* Skills have no numbers.
SkillsAreFences ==
  /\ applied["skill"] = NoSequence
  /\ \A s \in Ring : ~Numbered(operates, s, "skill")

\* The last number is the newest of all that is remembered, and among what
\* waits numbers are as new as the operations.
UpTo(number) == last # NoSequence /\ (last = number \/ IsNewerSequence(last, number))
NumbersFollow ==
  \A f \in Fields :
    /\ applied[f] # NoSequence => UpTo(applied[f])
    /\ \A s \in Ring : Numbered(operates, s, f) => UpTo(operates[s].numbers[f])
    /\ \A s, t \in Ring :
         Numbered(operates, s, f) /\ Numbered(operates, t, f)
         /\ operates[s].holds[f] > operates[t].holds[f]
         => IsNewerSequence(operates[s].numbers[f], operates[t].numbers[f])

\* InputsAreInOrder, slot by slot.
WillExecute(s, f) == operates[s] # NoOperate /\ Executes(operates[s], f)
InOrder ==
  \A f \in Fields :
    /\ \A s \in Ring : WillExecute(s, f) => operates[s].holds[f] > inForce[f]
    /\ \/ newest[f] = inForce[f]
       \/ \E s \in Ring : WillExecute(s, f) /\ operates[s].holds[f] = newest[f]

InputInv ==
  /\ PlayerInputTypeOK /\ Placed(operates, localTick) /\ InputsDiffer /\ FencesFirst
  /\ SkillsAreFences /\ NumbersFollow /\ InOrder

-----------------------------------------------------------------------------
\* The distance between two numbers without the remainder.
LEMMA Distance ==
  ASSUME NEW a \in Sequences, NEW b \in Sequences
  PROVE  (a + SequenceRange - b) % SequenceRange
           = IF b <= a THEN a - b ELSE a + SequenceRange - b
<1> SequenceRange \in Nat \ {0} /\ a \in Int /\ b \in Int
  BY PlayerInputAssumption DEF Sequences
<1>1. CASE b <= a
  <2>1. a + SequenceRange - b = (a - b) + SequenceRange  OBVIOUS
  <2>2. a - b \in 0..(SequenceRange - 1)  BY <1>1 DEF Sequences
  <2>3. ((a - b) + SequenceRange) % SequenceRange = a - b  BY <2>2
  <2> QED  BY <1>1, <2>1, <2>3
<1>2. CASE ~(b <= a)
  <2>1. a + SequenceRange - b \in 0..(SequenceRange - 1)  BY <1>2 DEF Sequences
  <2> QED  BY <1>2, <2>1
<1> QED  BY <1>1, <1>2

\* Newer than the newer is newer, as long as both are within half the range.
LEMMA NewerThanOlder ==
  ASSUME NEW a \in Sequences, NEW b \in Sequences, NEW c \in Sequences,
         IsNewerSequence(a, b), b = c \/ IsNewerSequence(b, c),
         2 * ((a + SequenceRange - c) % SequenceRange) < SequenceRange
  PROVE  IsNewerSequence(a, c)
<1> SequenceRange \in Nat \ {0} /\ a \in Int /\ b \in Int /\ c \in Int
  BY PlayerInputAssumption DEF Sequences
<1> DEFINE D(x, y) == IF y <= x THEN x - y ELSE x + SequenceRange - y
<1>1. /\ (a + SequenceRange - b) % SequenceRange = D(a, b)
      /\ (b + SequenceRange - c) % SequenceRange = D(b, c)
      /\ (a + SequenceRange - c) % SequenceRange = D(a, c)
  BY Distance
<1>2. D(a, b) # 0 /\ 2 * D(a, b) < SequenceRange  BY <1>1 DEF IsNewerSequence
<1>3. b = c \/ 2 * D(b, c) < SequenceRange  BY <1>1 DEF IsNewerSequence
<1>4. a # c  BY <1>2, <1>3 DEF Sequences
<1>5. D(a, c) # 0 /\ 2 * D(a, c) < SequenceRange  BY <1>1, <1>4 DEF Sequences
<1> QED  BY <1>1, <1>5 DEF IsNewerSequence

\* Of two numbers at most one is newer than the other.
LEMMA NotBothNewer ==
  ASSUME NEW a \in Sequences, NEW b \in Sequences, IsNewerSequence(a, b)
  PROVE  a # b /\ ~IsNewerSequence(b, a)
<1> SequenceRange \in Nat \ {0} /\ a \in Int /\ b \in Int
  BY PlayerInputAssumption DEF Sequences
<1> DEFINE D(x, y) == IF y <= x THEN x - y ELSE x + SequenceRange - y
<1>1. /\ (a + SequenceRange - b) % SequenceRange = D(a, b)
      /\ (b + SequenceRange - a) % SequenceRange = D(b, a)
  BY Distance
<1>2. D(a, b) # 0 /\ 2 * D(a, b) < SequenceRange  BY <1>1 DEF IsNewerSequence
<1>3. a # b /\ ~(2 * D(b, a) < SequenceRange)  BY <1>2 DEF Sequences
<1> QED  BY <1>1, <1>3 DEF IsNewerSequence

\* The ring has a slot for every tick that can be asked for, and no two of them
\* share one.
LEMMA SlotsInRing ==
  ASSUME NEW tick \in Nat
  PROVE  SlotOf(tick) \in Ring
<1> INPUT_QUEUE_CAPACITY \in Nat \ {0}  BY PlayerInputAssumption
<1> QED  BY DEF SlotOf, Ring

\* Two multiples of a number differ by at least it.
LEMMA Multiples ==
  ASSUME NEW c \in Nat \ {0}, NEW p \in Int, NEW q \in Int
  PROVE  c * q - c * p >= c \/ c * q - c * p <= 0
<1>1. CASE q >= p + 1
  <2>1. c * q >= c * (p + 1)  BY <1>1
  <2>2. c * (p + 1) = c * p + c  OBVIOUS
  <2> QED  BY <2>1, <2>2
<1>2. CASE q <= p
  <2>1. c * q <= c * p  BY <1>2
  <2> QED  BY <2>1
<1> QED  BY <1>1, <1>2

\* A number is a multiple and its remainder.
LEMMA Remainder ==
  ASSUME NEW c \in Nat \ {0}, NEW a \in Nat
  PROVE  \E k \in Int, r \in 0..(c - 1) : a = c * k + r /\ a % c = r
<1>1. a - c * (a \div c) \in 0..(c - 1) /\ a \div c \in Int  OBVIOUS
<1>2. PICK k \in Int : a - c * k \in 0..(c - 1)  BY <1>1
<1>3. PICK r \in 0..(c - 1) : a = c * k + r
  <2>1. PICK y \in Int : y = c * k  OBVIOUS
  <2>2. a - y \in 0..(c - 1) /\ a = y + (a - y)  BY <1>2, <2>1
  <2> QED  BY <2>1, <2>2
<1>4. (c * k + r) % c = r  OBVIOUS
<1>5. a % c = r  BY <1>3, <1>4, Zenon
<1> QED  BY <1>3, <1>5, Zenon

LEMMA SlotsApart ==
  ASSUME NEW tick \in Nat,
         NEW s \in (tick + 1)..(tick + MAX_INPUT_DELAY_TICKS),
         NEW t \in (tick + 1)..(tick + MAX_INPUT_DELAY_TICKS),
         SlotOf(s) = SlotOf(t)
  PROVE  s = t
<1> DEFINE C == INPUT_QUEUE_CAPACITY
<1> C \in Nat \ {0} /\ MAX_INPUT_DELAY_TICKS \in 1..(C - 1) /\ s \in Nat /\ t \in Nat
  BY PlayerInputAssumption
<1>1. ASSUME NEW a \in Nat, NEW b \in Nat, a % C = b % C, a < b, b < a + C
      PROVE  FALSE
  <2> HIDE DEF C
  <2>1. PICK p \in Int, r \in 0..(C - 1) : a = C * p + r /\ a % C = r
    BY Remainder
  <2>2. PICK q \in Int : b = C * q + r
    <3>1. PICK q \in Int, w \in 0..(C - 1) : b = C * q + w /\ b % C = w  BY Remainder
    <3>2. w = r  BY <1>1, <2>1, <3>1, Zenon
    <3> QED  BY <3>1, <3>2
  <2>3. C * q - C * p >= C \/ C * q - C * p <= 0  BY Multiples
  <2>4. PICK x \in Int, y \in Int : x = C * p /\ y = C * q  OBVIOUS
  <2>5. a = x + r /\ b = y + r /\ (y - x >= C \/ y - x <= 0)
    BY <2>1, <2>2, <2>3, <2>4
  <2> QED  BY <1>1, <2>5
<1>2. s % C = t % C  BY DEF SlotOf
<1>3. ~(s < t)  BY <1>1, <1>2
<1>4. ~(t < s)  BY <1>1, <1>2
<1> QED  BY <1>3, <1>4

-----------------------------------------------------------------------------
\* What MergeOperate and Fenced do to the ring.
Queues == [Ring -> PendingOperate \cup {NoOperate}]
SameSlot(queue, other, s, f) ==
  /\ HoldsInput(queue, s, f) /\ HoldsInput(other, s, f) /\ queue[s].holds[f] = other[s].holds[f]
  /\ queue[s].numbers[f] = other[s].numbers[f] /\ queue[s].target = other[s].target

LEMMA Merging ==
  ASSUME PlayerInputTypeOK, inputs < MaxInputs,
         NEW queue \in Queues, Placed(queue, localTick),
         NEW updated \in SUBSET Fields, NEW number \in Sequences \cup {NoSequence},
         NEW delay \in 1..MAX_INPUT_DELAY_TICKS
  PROVE  LET q == MergeOperate(queue, updated, number, delay)
             z == SlotOf(localTick + delay)
         IN /\ z \in Ring /\ q \in Queues /\ Placed(q, localTick)
            /\ q[z] # NoOperate /\ q[z].target = localTick + delay
            /\ \A f \in updated : q[z].holds[f] = inputs + 1 /\ q[z].numbers[f] = number
            /\ \A s \in Ring, f \in Fields :
                 \/ s = z /\ f \in updated
                 \/ ~HoldsInput(q, s, f) /\ ~HoldsInput(queue, s, f)
                 \/ SameSlot(queue, q, s, f)
<1> DEFINE q == MergeOperate(queue, updated, number, delay)
           tick == localTick + delay
           z == SlotOf(tick)
           old == queue[z]
           slot == IF old # NoOperate /\ old.target = tick THEN old ELSE Blank(tick)
           new == [target |-> tick,
                   holds |-> [f \in Fields |-> IF f \in updated THEN inputs + 1 ELSE slot.holds[f]],
                   numbers |-> [f \in Fields |-> IF f \in updated THEN number ELSE slot.numbers[f]]]
<1>1. localTick \in Nat /\ inputs \in 0..MaxInputs /\ MaxInputs \in Nat /\ tick \in Nat
      /\ tick \in (localTick + 1)..(localTick + MAX_INPUT_DELAY_TICKS)
      /\ MAX_INPUT_DELAY_TICKS \in Nat
  BY PlayerInputAssumption DEF PlayerInputTypeOK
<1>2. z \in Ring  BY <1>1, SlotsInRing
<1>3. q = [queue EXCEPT ![z] = new]
  BY DEF MergeOperate, TickAfter
<1>4. old # NoOperate => old.target = tick
  BY <1>1, <1>2, SlotsApart DEF Placed
<1>5. Blank(tick) \in PendingOperate
  BY <1>1 DEF Blank, PendingOperate
<1>6. slot \in PendingOperate /\ slot.target = tick
  BY <1>2, <1>5 DEF Queues, Blank
<1>7. new \in PendingOperate /\ new.target = tick
      /\ \A f \in Fields :
           /\ new.holds[f] = IF f \in updated THEN inputs + 1 ELSE slot.holds[f]
           /\ new.numbers[f] = IF f \in updated THEN number ELSE slot.numbers[f]
  <2> HIDE DEF slot
  <2>1. slot.holds \in [Fields -> 0..MaxInputs] /\ slot.numbers \in [Fields -> Sequences \cup {NoSequence}]
    BY <1>6 DEF PendingOperate
  <2>2. inputs + 1 \in 0..MaxInputs  BY <1>1
  <2> QED  BY <1>1, <2>1, <2>2 DEF PendingOperate
<1>8. q[z] = new /\ \A s \in Ring \ {z} : q[s] = queue[s]
  BY <1>2, <1>3 DEF Queues
<1>9. new # NoOperate  BY <1>7, NoOperateAssumption
<1>10. q \in Queues
  <2> HIDE DEF new, q
  <2> QED  BY <1>2, <1>3, <1>7 DEF Queues
<1>11. Placed(q, localTick)
  <2> HIDE DEF new, q
  <2> QED  BY <1>1, <1>7, <1>8 DEF Placed
<1>12. ASSUME NEW f \in Fields \ updated
       PROVE  (~HoldsInput(q, z, f) /\ ~HoldsInput(queue, z, f)) \/ SameSlot(queue, q, z, f)
  <2>1. CASE old = NoOperate
    <3>1. slot = Blank(tick)  BY <2>1
    <3>2. new.holds[f] = 0  BY <1>7, <3>1 DEF Blank
    <3> QED  BY <1>8, <2>1, <3>2 DEF HoldsInput
  <2>2. CASE old # NoOperate
    <3>1. slot = old  BY <1>4, <2>2
    <3>2. new.holds[f] = old.holds[f] /\ new.numbers[f] = old.numbers[f] /\ new.target = old.target
      BY <1>4, <1>7, <2>2, <3>1
    <3> HIDE DEF new, slot, q
    <3> QED  BY <1>8, <1>9, <2>2, <3>2 DEF HoldsInput, SameSlot
  <2> QED  BY <2>1, <2>2
<1>13. ASSUME NEW s \in Ring \ {z}, NEW f \in Fields
       PROVE  (~HoldsInput(q, s, f) /\ ~HoldsInput(queue, s, f)) \/ SameSlot(queue, q, s, f)
  BY <1>8 DEF HoldsInput, SameSlot
<1> HIDE DEF q, new, slot
<1> QED  BY <1>2, <1>7, <1>8, <1>9, <1>10, <1>11, <1>12, <1>13 DEF q

LEMMA Fencing ==
  ASSUME PlayerInputTypeOK, Placed(operates, localTick), NEW updated \in SUBSET Fields
  PROVE  LET q == Fenced(operates, updated)
         IN /\ q \in Queues /\ Placed(q, localTick)
            /\ \A s \in Ring, f \in Fields :
                 IF f \in updated THEN ~HoldsInput(q, s, f)
                 ELSE (~HoldsInput(q, s, f) /\ ~HoldsInput(operates, s, f)) \/ SameSlot(operates, q, s, f)
<1> DEFINE q == Fenced(operates, updated)
<1>1. ASSUME NEW s \in Ring, operates[s] # NoOperate
      PROVE  /\ q[s] \in PendingOperate /\ q[s].target = operates[s].target
             /\ q[s].numbers = operates[s].numbers
             /\ \A f \in Fields : q[s].holds[f] = IF f \in updated THEN 0 ELSE operates[s].holds[f]
  <2>1. operates[s] \in PendingOperate  BY <1>1 DEF PlayerInputTypeOK
  <2>2. q[s] = [operates[s] EXCEPT !.holds = [f \in Fields |-> IF f \in updated THEN 0 ELSE @[f]]]
    BY <1>1 DEF Fenced
  <2> HIDE DEF q
  <2> QED  BY <2>1, <2>2, PlayerInputAssumption DEF PendingOperate
<1>2. ASSUME NEW s \in Ring, operates[s] = NoOperate  PROVE q[s] = NoOperate
  BY <1>2 DEF Fenced
<1>3. q = [s \in Ring |-> q[s]]  BY DEF Fenced
<1> HIDE DEF q
<1>4. q \in Queues  BY <1>1, <1>2, <1>3 DEF Queues
<1>5. Placed(q, localTick)  BY <1>1, <1>2 DEF Placed
<1>6. \A s \in Ring : operates[s] # NoOperate => q[s] # NoOperate
  BY <1>1, NoOperateAssumption
<1>7. ASSUME NEW s \in Ring, NEW f \in Fields
      PROVE  IF f \in updated THEN ~HoldsInput(q, s, f)
             ELSE (~HoldsInput(q, s, f) /\ ~HoldsInput(operates, s, f)) \/ SameSlot(operates, q, s, f)
  BY <1>1, <1>2, <1>6 DEF HoldsInput, SameSlot
<1> QED  BY <1>4, <1>5, <1>7 DEF q

-----------------------------------------------------------------------------
(* One lemma for each action.                                                *)

LEMMA FramesKeep ==
  ASSUME InputInv, NEW number \in Sequences, NEW delay \in 1..MAX_INPUT_DELAY_TICKS,
         InputFrame(number, delay)
  PROVE  InputInv'
<1> DEFINE U == {"movement", "chores"}
           z == SlotOf(localTick + delay)
<1>1. /\ inputs < MaxInputs /\ inputs' = inputs + 1 /\ last' = number
      /\ newest' = [f \in Fields |-> IF f \in U THEN inputs + 1 ELSE newest[f]]
      /\ sequence' = (number + 1) % SequenceRange
      /\ UNCHANGED <<localTick, applied, inForce>>
      /\ operates' = MergeOperate(operates, U, number, delay)
  BY DEF InputFrame, Taken
<1>2. /\ z \in Ring /\ operates' \in Queues /\ Placed(operates', localTick)
      /\ operates'[z] # NoOperate /\ operates'[z].target = localTick + delay
      /\ \A f \in U : operates'[z].holds[f] = inputs + 1 /\ operates'[z].numbers[f] = number
      /\ \A s \in Ring, f \in Fields :
           \/ s = z /\ f \in U
           \/ ~HoldsInput(operates', s, f) /\ ~HoldsInput(operates, s, f)
           \/ SameSlot(operates, operates', s, f)
  <2>1. operates \in Queues /\ Placed(operates, localTick) /\ U \in SUBSET Fields
    BY DEF InputInv, PlayerInputTypeOK, Queues, Fields
  <2> DEFINE q == MergeOperate(operates, U, number, delay)
  <2>2. PlayerInputTypeOK /\ number \in Sequences \cup {NoSequence}  BY DEF InputInv
  <2>3. /\ z \in Ring /\ q \in Queues /\ Placed(q, localTick)
        /\ q[z] # NoOperate /\ q[z].target = localTick + delay
        /\ \A f \in U : q[z].holds[f] = inputs + 1 /\ q[z].numbers[f] = number
        /\ \A s \in Ring, f \in Fields :
             \/ s = z /\ f \in U
             \/ ~HoldsInput(q, s, f) /\ ~HoldsInput(operates, s, f)
             \/ SameSlot(operates, q, s, f)
    <3> HIDE DEF U
    <3> QED  BY <1>1, <2>1, <2>2, Merging, Zenon
  <2>4. operates' = q  BY <1>1
  <2> HIDE DEF q, U, z
  <2> QED  BY <2>3, <2>4, Zenon
<1>3. PlayerInputTypeOK'
  <2>1. sequence' \in Sequences
    BY <1>1, PlayerInputAssumption DEF Sequences
  <2> QED  BY <1>1, <1>2, <2>1, PlayerInputAssumption DEF InputInv, PlayerInputTypeOK, Queues
<1>4. ASSUME NEW old \in Sequences, UpTo(old),
             2 * ((number + SequenceRange - old) % SequenceRange) < SequenceRange
      PROVE  IsNewerSequence(number, old)
  <2>1. last \in Sequences /\ IsNewerSequence(number, last)
    BY <1>4 DEF UpTo, InputFrame, InputInv, PlayerInputTypeOK
  <2> QED  BY <1>4, <2>1, NewerThanOlder DEF UpTo
<1>5. ASSUME NEW f \in Fields, applied[f] # NoSequence
      PROVE  IsNewerSequence(number, applied[f])
  <2>1. applied[f] \in Sequences /\ UpTo(applied[f])
    BY <1>5 DEF InputInv, PlayerInputTypeOK, NumbersFollow
  <2> QED  BY <1>4, <2>1 DEF InputFrame, InWindow
<1>6. ASSUME NEW f \in Fields, NEW s \in Ring, Numbered(operates, s, f)
      PROVE  IsNewerSequence(number, operates[s].numbers[f])
  <2>1. operates[s].numbers[f] \in Sequences /\ UpTo(operates[s].numbers[f])
    BY <1>6 DEF InputInv, PlayerInputTypeOK, PendingOperate, NumbersFollow, Numbered, HoldsInput
  <2>2. operates[s] # NoOperate  BY <1>6 DEF Numbered, HoldsInput
  <2> QED  BY <1>4, <2>1, <2>2 DEF InputFrame, InWindow
<1>7. Placed(operates, localTick)'
  BY <1>1, <1>2 DEF Placed
<1>8. inputs \in Nat /\ newest \in [Fields -> Nat] /\ inForce \in [Fields -> Nat]
      /\ localTick \in Nat
      /\ \A s \in Ring, f \in Fields : operates[s] # NoOperate => operates[s].holds[f] \in Nat
  BY PlayerInputAssumption DEF InputInv, PlayerInputTypeOK, PendingOperate
<1>9. InputsDiffer'
  BY <1>1, <1>2, <1>8 DEF InputInv, InputsDiffer, HoldsInput, SameSlot
<1>10. FencesFirst'
  BY <1>1, <1>2, <1>8, PlayerInputAssumption DEF InputInv, InputsDiffer, FencesFirst, Numbered, HoldsInput, SameSlot
<1>11. SkillsAreFences'
  BY <1>1, <1>2 DEF InputInv, SkillsAreFences, Numbered, HoldsInput, SameSlot, Fields
<1>12. NumbersFollow'
  BY <1>1, <1>2, <1>5, <1>6, <1>8, PlayerInputAssumption
  DEF InputInv, InputsDiffer, NumbersFollow, UpTo, Numbered, HoldsInput, SameSlot
<1>13. InOrder'
  <2>1. ASSUME NEW f \in U
        PROVE  Executes(operates[z], f)' /\ f \in Fields
    BY <1>1, <1>2, <1>5, <1>8 DEF Executes, Fields
  <2> QED  BY <1>1, <1>2, <1>8, <2>1 DEF InputInv, InOrder, WillExecute, Executes, InputsDiffer, HoldsInput, SameSlot
<1> QED  BY <1>3, <1>7, <1>9, <1>10, <1>11, <1>12, <1>13 DEF InputInv

LEMMA OperateKeeps ==
  ASSUME InputInv, NEW field \in Fields, Operate(field)
  PROVE  InputInv'
<1> DEFINE U == {field} \ {"skill"}
           z == SlotOf(localTick + 1)
           fenced == Fenced(operates, U)
           q == MergeOperate(fenced, {field}, NoSequence, 1)
<1>1. /\ inputs < MaxInputs /\ inputs' = inputs + 1
      /\ newest' = [f \in Fields |-> IF f = field THEN inputs + 1 ELSE newest[f]]
      /\ applied' = [f \in Fields |-> IF f \in U /\ last # NoSequence THEN last ELSE applied[f]]
      /\ UNCHANGED <<localTick, last, sequence, inForce>>
      /\ operates' = q
  BY DEF Operate, Taken, MIN_INPUT_DELAY_TICKS
<1>2. /\ z \in Ring /\ q \in Queues /\ Placed(q, localTick)
      /\ q[z] # NoOperate /\ q[z].target = localTick + 1
      /\ q[z].holds[field] = inputs + 1 /\ q[z].numbers[field] = NoSequence
      /\ \A s \in Ring, f \in Fields :
           \/ s = z /\ f = field
           \/ ~HoldsInput(q, s, f) /\ (f \in U \/ ~HoldsInput(operates, s, f))
           \/ f \notin U /\ SameSlot(operates, q, s, f)
  <2>1. PlayerInputTypeOK /\ Placed(operates, localTick) /\ U \in SUBSET Fields
        /\ {field} \in SUBSET Fields /\ NoSequence \in Sequences \cup {NoSequence}
        /\ 1 \in 1..MAX_INPUT_DELAY_TICKS
    BY PlayerInputAssumption DEF InputInv
  <2>2. /\ fenced \in Queues /\ Placed(fenced, localTick)
        /\ \A s \in Ring, f \in Fields :
             IF f \in U THEN ~HoldsInput(fenced, s, f)
             ELSE (~HoldsInput(fenced, s, f) /\ ~HoldsInput(operates, s, f)) \/ SameSlot(operates, fenced, s, f)
    <3> HIDE DEF U
    <3> QED  BY <2>1, Fencing, Zenon
  <2>3. /\ z \in Ring /\ q \in Queues /\ Placed(q, localTick)
        /\ q[z] # NoOperate /\ q[z].target = localTick + 1
        /\ \A f \in {field} : q[z].holds[f] = inputs + 1 /\ q[z].numbers[f] = NoSequence
        /\ \A s \in Ring, f \in Fields :
             \/ s = z /\ f \in {field}
             \/ ~HoldsInput(q, s, f) /\ ~HoldsInput(fenced, s, f)
             \/ SameSlot(fenced, q, s, f)
    <3> HIDE DEF fenced
    <3> QED  BY <1>1, <2>1, <2>2, Merging, Zenon
  <2>4. ASSUME NEW s \in Ring, NEW f \in Fields, ~(s = z /\ f = field)
        PROVE  \/ ~HoldsInput(q, s, f) /\ (f \in U \/ ~HoldsInput(operates, s, f))
               \/ f \notin U /\ SameSlot(operates, q, s, f)
    <3>1. (~HoldsInput(q, s, f) /\ ~HoldsInput(fenced, s, f)) \/ SameSlot(fenced, q, s, f)
      BY <2>3, <2>4
    <3>2. IF f \in U THEN ~HoldsInput(fenced, s, f)
          ELSE (~HoldsInput(fenced, s, f) /\ ~HoldsInput(operates, s, f)) \/ SameSlot(operates, fenced, s, f)
      BY <2>2
    <3> HIDE DEF q, fenced, U, z
    <3> QED  BY <3>1, <3>2 DEF SameSlot
  <2> HIDE DEF q, fenced, U, z
  <2> QED  BY <2>3, <2>4
<1> HIDE DEF q, fenced
<1>3. PlayerInputTypeOK'
  BY <1>1, <1>2, PlayerInputAssumption DEF InputInv, PlayerInputTypeOK, Queues
<1>4. Placed(operates, localTick)'
  BY <1>1, <1>2 DEF Placed
<1>5. inputs \in Nat /\ newest \in [Fields -> Nat] /\ inForce \in [Fields -> Nat]
      /\ localTick \in Nat /\ applied \in [Fields -> Sequences \cup {NoSequence}]
      /\ \A s \in Ring, f \in Fields : operates[s] # NoOperate => operates[s].holds[f] \in Nat
  BY PlayerInputAssumption DEF InputInv, PlayerInputTypeOK, PendingOperate
<1>6. InputsDiffer'
  BY <1>1, <1>2, <1>5 DEF InputInv, InputsDiffer, HoldsInput, SameSlot
\* Whatever has no number waits in the slot of the next tick.
<1>7. ASSUME NEW f \in Fields, NEW s \in Ring, HoldsInput(operates, s, f), ~Numbered(operates, s, f)
      PROVE  s = z
  BY <1>7 DEF InputInv, FencesFirst, Placed, HoldsInput
<1>8. ASSUME NEW s \in Ring, s # z  PROVE ~HoldsInput(q, s, field)
  <2>1. CASE field = "skill"
    <3>1. HoldsInput(q, s, field) => HoldsInput(operates, s, field)
      BY <1>2, <1>8 DEF SameSlot
    <3>2. ~Numbered(operates, s, field)
      BY <2>1 DEF InputInv, SkillsAreFences
    <3> QED  BY <1>7, <1>8, <3>1, <3>2
  <2>2. CASE field # "skill"
    BY <1>2, <1>8, <2>2 DEF SameSlot
  <2> QED  BY <2>1, <2>2
<1>9. FencesFirst'
  <2>1. ASSUME NEW f \in Fields, f # field
        PROVE  \A s \in Ring : (~HoldsInput(q, s, f) /\ ~HoldsInput(operates, s, f)) \/ SameSlot(operates, q, s, f)
    BY <1>2, <2>1
  <2> QED  BY <1>1, <1>2, <1>5, <1>8, <2>1 DEF InputInv, FencesFirst, Numbered, HoldsInput, SameSlot
<1>10. SkillsAreFences'
  BY <1>1, <1>2, <1>5 DEF InputInv, SkillsAreFences, Numbered, HoldsInput, SameSlot, Fields
<1>11. NumbersFollow'
  BY <1>1, <1>2, <1>5, PlayerInputAssumption DEF InputInv, NumbersFollow, UpTo, Numbered, HoldsInput, SameSlot
<1>12. InOrder'
  <2>1. ASSUME NEW f \in Fields, f = field
        PROVE  /\ \A s \in Ring : WillExecute(s, f)' => operates'[s].holds[f] > inForce'[f]
               /\ \E s \in Ring : WillExecute(s, f)' /\ operates'[s].holds[f] = newest'[f]
    BY <1>1, <1>2, <1>5, <1>8, <2>1 DEF InputInv, InputsDiffer, WillExecute, Executes, HoldsInput
  <2>2. ASSUME NEW f \in Fields, f # field
        PROVE  /\ \A s \in Ring : WillExecute(s, f)' => operates'[s].holds[f] > inForce'[f]
               /\ \/ newest'[f] = inForce'[f]
                  \/ \E s \in Ring : WillExecute(s, f)' /\ operates'[s].holds[f] = newest'[f]
    <3>1. \A s \in Ring : (~HoldsInput(q, s, f) /\ ~HoldsInput(operates, s, f)) \/ SameSlot(operates, q, s, f)
      BY <1>2, <2>2
    <3>2. applied'[f] = applied[f] /\ newest'[f] = newest[f] /\ inForce' = inForce
      BY <1>1, <2>2
    <3>3. \A s \in Ring : WillExecute(s, f)' <=> WillExecute(s, f)
      BY <1>1, <3>1, <3>2 DEF WillExecute, Executes, HoldsInput, SameSlot
    <3> QED  BY <1>1, <3>1, <3>2, <3>3 DEF InputInv, InOrder, WillExecute, Executes, HoldsInput, SameSlot
  <2> QED  BY <2>1, <2>2 DEF InOrder
<1> QED  BY <1>3, <1>4, <1>6, <1>9, <1>10, <1>11, <1>12 DEF InputInv

LEMMA TicksKeep ==
  ASSUME InputInv, OnTick
  PROVE  InputInv'
<1> DEFINE tick == localTick + 1
           z == SlotOf(tick)
           slot == operates[z]
           due == slot # NoOperate /\ slot.target = tick
<1>1. localTick \in Nat /\ tick \in Nat /\ z \in Ring /\ MAX_INPUT_DELAY_TICKS \in Nat
      /\ tick \in (localTick + 1)..(localTick + MAX_INPUT_DELAY_TICKS)
  <2>1. localTick \in Nat /\ MAX_INPUT_DELAY_TICKS \in Nat /\ MAX_INPUT_DELAY_TICKS >= 1
    BY PlayerInputAssumption DEF InputInv, PlayerInputTypeOK
  <2> QED  BY <2>1, SlotsInRing
<1>2. /\ localTick < MaxTicks /\ localTick' = tick
      /\ UNCHANGED <<last, sequence, inputs, newest>>
      /\ due => /\ operates' = [operates EXCEPT ![z] = NoOperate]
                /\ inForce' = [f \in Fields |-> IF Executes(slot, f) THEN slot.holds[f] ELSE inForce[f]]
                /\ applied' = [f \in Fields |-> IF Executes(slot, f) /\ slot.numbers[f] # NoSequence
                                               THEN slot.numbers[f] ELSE applied[f]]
      /\ ~due => UNCHANGED <<operates, inForce, applied>>
  BY DEF OnTick, TickAfter
\* What stays is meant for a later tick.
<1>3. ASSUME NEW s \in Ring, operates'[s] # NoOperate
      PROVE  /\ operates'[s] = operates[s] /\ operates[s].target # tick
             /\ (due => s # z)
  <2>1. operates \in [Ring -> PendingOperate \cup {NoOperate}]
    BY DEF InputInv, PlayerInputTypeOK
  <2>2. operates'[s] = operates[s] /\ (due => s # z)
    BY <1>1, <1>2, <1>3, <2>1
  <2>3. operates[s].target = tick => s = z
    BY <1>3, <2>2 DEF InputInv, Placed
  <2> QED  BY <1>2, <1>3, <2>2, <2>3
<1>4. \A s \in Ring : s # z => operates'[s] = operates[s]
  BY <1>1, <1>2 DEF InputInv, PlayerInputTypeOK
<1>5. inputs \in Nat /\ newest \in [Fields -> Nat] /\ inForce \in [Fields -> Nat]
      /\ applied \in [Fields -> Sequences \cup {NoSequence}]
      /\ \A s \in Ring, f \in Fields : operates[s] # NoOperate =>
           /\ operates[s].holds[f] \in Nat
           /\ operates[s].numbers[f] \in Sequences \cup {NoSequence}
  BY PlayerInputAssumption DEF InputInv, PlayerInputTypeOK, PendingOperate
<1> HIDE DEF tick, z
<1>6. PlayerInputTypeOK'
  <2>1. localTick' \in 0..MaxTicks
    BY <1>1, <1>2, PlayerInputAssumption DEF tick
  <2>2. operates' \in [Ring -> PendingOperate \cup {NoOperate}]
    BY <1>2 DEF InputInv, PlayerInputTypeOK
  <2>3. due => slot \in PendingOperate
    BY <1>1 DEF InputInv, PlayerInputTypeOK
  <2>4. inForce' \in [Fields -> 0..MaxInputs] /\ applied' \in [Fields -> Sequences \cup {NoSequence}]
    BY <1>2, <2>3 DEF InputInv, PlayerInputTypeOK, PendingOperate
  <2> QED  BY <1>2, <2>1, <2>2, <2>4 DEF InputInv, PlayerInputTypeOK
<1>7. Placed(operates, localTick)'
  <2>1. ASSUME NEW s \in Ring, operates'[s] # NoOperate
        PROVE  /\ operates'[s].target \in (localTick' + 1)..(localTick' + MAX_INPUT_DELAY_TICKS)
               /\ SlotOf(operates'[s].target) = s
    <3>1. /\ operates[s].target \in (localTick + 1)..(localTick + MAX_INPUT_DELAY_TICKS)
          /\ SlotOf(operates[s].target) = s
      BY <1>3, <2>1 DEF InputInv, Placed
    <3> QED  BY <1>1, <1>2, <1>3, <2>1, <3>1 DEF tick
  <2> QED  BY <2>1 DEF Placed
\* What has no number does not stay.
<1>8. ASSUME NEW s \in Ring, NEW f \in Fields, HoldsInput(operates', s, f)
      PROVE  Numbered(operates, s, f) /\ SameSlot(operates, operates', s, f)
  BY <1>3, <1>8 DEF InputInv, FencesFirst, Numbered, HoldsInput, SameSlot, tick
<1>9. \A f \in Fields : inForce'[f] <= newest[f]
  BY <1>1, <1>2, <1>5 DEF InputInv, InputsDiffer, HoldsInput, Executes
<1>10. InputsDiffer'
  BY <1>2, <1>8, <1>9 DEF InputInv, InputsDiffer, HoldsInput, SameSlot
<1>11. FencesFirst'
  BY <1>8 DEF FencesFirst, Numbered, HoldsInput, SameSlot
<1>12. ASSUME NEW f \in Fields, applied'[f] # applied[f]
       PROVE  /\ due /\ Executes(slot, f) /\ Numbered(operates, z, f)
              /\ applied'[f] = slot.numbers[f]
  BY <1>2, <1>12 DEF Numbered, HoldsInput, Executes
<1>13. SkillsAreFences'
  <2>1. applied'["skill"] = NoSequence
    BY <1>1, <1>12 DEF InputInv, SkillsAreFences, Fields
  <2> QED  BY <1>8, <2>1 DEF InputInv, SkillsAreFences, Numbered, HoldsInput, SameSlot, Fields
<1>14. NumbersFollow'
  <2>1. \A f \in Fields : applied'[f] # NoSequence => UpTo(applied'[f])
    BY <1>1, <1>12 DEF InputInv, NumbersFollow
  <2> QED  BY <1>2, <1>8, <2>1 DEF InputInv, NumbersFollow, UpTo, Numbered, HoldsInput, SameSlot
<1>15. InOrder'
  <2> SUFFICES ASSUME NEW f \in Fields
               PROVE  /\ \A s \in Ring : WillExecute(s, f)' => operates'[s].holds[f] > inForce'[f]
                      /\ \/ newest'[f] = inForce'[f]
                         \/ \E s \in Ring : WillExecute(s, f)' /\ operates'[s].holds[f] = newest'[f]
    BY DEF InOrder
  <2>1. CASE ~(due /\ Executes(slot, f))
    <3>1. inForce'[f] = inForce[f] /\ applied'[f] = applied[f]
      BY <1>2, <2>1
    <3>2. ASSUME NEW s \in Ring
          PROVE  WillExecute(s, f)' <=> WillExecute(s, f)
      <4>1. CASE s = z
        <5>1. WillExecute(s, f) => ~due  BY <2>1, <4>1 DEF WillExecute
        <5>2. due => operates'[s] = NoOperate  BY <1>2, <4>1 DEF InputInv, PlayerInputTypeOK
        <5>3. ~due => operates'[s] = operates[s]  BY <1>2
        <5> QED  BY <3>1, <5>1, <5>2, <5>3 DEF WillExecute, Executes
      <4>2. CASE s # z
        BY <1>4, <3>1, <4>2 DEF WillExecute, Executes
      <4> QED  BY <4>1, <4>2
    <3>3. ASSUME NEW s \in Ring, WillExecute(s, f)'
          PROVE  operates'[s] = operates[s]
      BY <1>3, <3>3 DEF WillExecute
    <3> QED  BY <1>2, <3>1, <3>2, <3>3 DEF InputInv, InOrder
  <2>2. CASE due /\ Executes(slot, f)
    <3>1. inForce'[f] = slot.holds[f] /\ HoldsInput(operates, z, f)
          /\ applied'[f] = IF Numbered(operates, z, f) THEN slot.numbers[f] ELSE applied[f]
      BY <1>2, <2>2 DEF Executes, Numbered, HoldsInput
    <3>2. slot.holds[f] > inForce[f]
      BY <1>1, <2>2 DEF InputInv, InOrder, WillExecute
    \* What stays is carried out later exactly when it is newer.
    <3>3. ASSUME NEW s \in Ring, HoldsInput(operates', s, f)
          PROVE  WillExecute(s, f)' => operates[s].holds[f] > slot.holds[f]
      <4>1. Numbered(operates, s, f) /\ SameSlot(operates, operates', s, f) /\ s # z
        BY <1>3, <1>8, <2>2, <3>3 DEF HoldsInput
      <4>2. CASE ~Numbered(operates, z, f)
        BY <1>1, <3>1, <4>1, <4>2 DEF InputInv, FencesFirst, SameSlot
      <4>3. CASE Numbered(operates, z, f)
        <5>1. slot.numbers[f] \in Sequences /\ operates[s].numbers[f] \in Sequences
              /\ slot.holds[f] \in Nat /\ operates[s].holds[f] \in Nat
              /\ operates[s].holds[f] # slot.holds[f]
          BY <1>1, <1>5, <4>1, <4>3 DEF InputInv, InputsDiffer, Numbered, HoldsInput
        <5>2. applied'[f] = slot.numbers[f]  BY <3>1, <4>3
        <5>3. WillExecute(s, f)' => IsNewerSequence(operates[s].numbers[f], slot.numbers[f])
          BY <4>1, <4>3, <5>2 DEF WillExecute, Executes, Numbered, SameSlot
        <5>4. slot.holds[f] > operates[s].holds[f]
              => IsNewerSequence(slot.numbers[f], operates[s].numbers[f])
          BY <1>1, <4>1, <4>3 DEF InputInv, NumbersFollow
        <5> QED  BY <5>1, <5>3, <5>4, NotBothNewer
      <4> QED  BY <4>2, <4>3
    <3>4. ASSUME newest[f] # inForce'[f]
          PROVE  \E s \in Ring : WillExecute(s, f)' /\ operates'[s].holds[f] = newest[f]
      <4>1. newest[f] # inForce[f]
        BY <1>1, <1>5, <3>1, <3>2 DEF InputInv, InputsDiffer, HoldsInput
      <4>2. PICK s \in Ring : WillExecute(s, f) /\ operates[s].holds[f] = newest[f]
        BY <4>1 DEF InputInv, InOrder
      <4>3. s # z /\ operates'[s] = operates[s] /\ HoldsInput(operates', s, f)
        BY <1>4, <3>1, <3>4, <4>2 DEF WillExecute, Executes, HoldsInput
      <4>4. Numbered(operates, s, f)  BY <1>8, <4>3
      <4>5. applied'[f] = NoSequence \/ IsNewerSequence(operates[s].numbers[f], applied'[f])
        <5>1. CASE ~Numbered(operates, z, f)
          BY <3>1, <4>2, <4>4, <5>1 DEF WillExecute, Executes, Numbered
        <5>2. CASE Numbered(operates, z, f)
          <6>1. operates[s].holds[f] > slot.holds[f]
            BY <1>1, <1>5, <3>1, <3>4, <4>2 DEF InputInv, InputsDiffer, HoldsInput
          <6> QED  BY <1>1, <3>1, <4>4, <5>2, <6>1 DEF InputInv, NumbersFollow
        <5> QED  BY <5>1, <5>2
      <4>6. WillExecute(s, f)'
        BY <4>3, <4>5 DEF WillExecute, Executes, HoldsInput
      <4> QED  BY <4>2, <4>3, <4>6
    <3>5. ASSUME NEW s \in Ring, WillExecute(s, f)'
          PROVE  operates'[s].holds[f] > inForce'[f]
      <4>1. HoldsInput(operates', s, f)  BY <3>5 DEF WillExecute, Executes, HoldsInput
      <4>2. operates'[s].holds[f] = operates[s].holds[f]  BY <1>8, <4>1 DEF SameSlot
      <4> QED  BY <3>1, <3>3, <3>5, <4>1, <4>2
    <3> QED  BY <1>2, <3>4, <3>5
  <2> QED  BY <2>1, <2>2
<1> QED  BY <1>6, <1>7, <1>10, <1>11, <1>13, <1>14, <1>15 DEF InputInv

LEMMA ResetsKeep ==
  ASSUME InputInv, ResetOperate \/ NewController
  PROVE  InputInv'
<1>1. /\ operates' = [s \in Ring |-> NoOperate]
      /\ last' = NoSequence /\ applied' = [f \in Fields |-> NoSequence]
      /\ newest' = [f \in Fields |-> 0] /\ inForce' = [f \in Fields |-> 0]
      /\ UNCHANGED <<sequence, inputs>> /\ localTick' \in {0, localTick}
  BY DEF ResetOperate, NewController, ClearPendingOperates
<1>2. MaxInputs \in Nat /\ MaxTicks \in Nat  BY PlayerInputAssumption
<1> QED  BY <1>1, <1>2 DEF InputInv, PlayerInputTypeOK, Placed, InputsDiffer, FencesFirst, SkillsAreFences,
            NumbersFollow, InOrder, WillExecute, Numbered, HoldsInput, Fields

-----------------------------------------------------------------------------
LEMMA InputInvariance == PlayerInputSpec => []InputInv
<1>1. PlayerInputInit => InputInv
  BY PlayerInputAssumption
  DEF PlayerInputInit, InputInv, PlayerInputTypeOK, Placed, InputsDiffer, FencesFirst, SkillsAreFences,
      NumbersFollow, InOrder, WillExecute, Numbered, HoldsInput, Fields
<1>2. InputInv /\ [PlayerInputNext]_inputVars => InputInv'
  <2> SUFFICES ASSUME InputInv, [PlayerInputNext]_inputVars  PROVE InputInv'
    OBVIOUS
  <2>1. ASSUME NEW again \in {0, 1},
               NEW delay \in MIN_INPUT_DELAY_TICKS..MAX_INPUT_DELAY_TICKS,
               InputFrame((sequence + SequenceRange - again) % SequenceRange, delay)
        PROVE  InputInv'
    <3>1. (sequence + SequenceRange - again) % SequenceRange \in Sequences
      BY PlayerInputAssumption DEF InputInv, PlayerInputTypeOK, Sequences
    <3> QED  BY <2>1, <3>1, FramesKeep DEF MIN_INPUT_DELAY_TICKS
  <2>2. ASSUME NEW field \in Fields, Operate(field)  PROVE InputInv'
    BY <2>2, OperateKeeps
  <2>3. CASE OnTick  BY <2>3, TicksKeep
  <2>4. CASE ResetOperate \/ NewController  BY <2>4, ResetsKeep
  <2>5. CASE UNCHANGED inputVars
    BY <2>5 DEF inputVars, InputInv, PlayerInputTypeOK, Placed, InputsDiffer, FencesFirst, SkillsAreFences,
       NumbersFollow, UpTo, InOrder, WillExecute, Executes, Numbered, HoldsInput
  <2> QED  BY <2>1, <2>2, <2>3, <2>4, <2>5 DEF PlayerInputNext
<1> QED  BY <1>1, <1>2, PTL DEF PlayerInputSpec

\* The ring, the numbers and the history keep their shapes.
THEOREM InputTypeCorrect == PlayerInputSpec => []PlayerInputTypeOK
<1>1. InputInv => PlayerInputTypeOK  BY DEF InputInv
<1> QED  BY <1>1, InputInvariance, PTL

\* What was overtaken never comes back and the last input is never lost
\* (PushOperate, ScheduleOperate, OnTick), whatever the size of the ring, the
\* longest delay and the range of the numbers.
THEOREM OrderedInputs == PlayerInputSpec => []InputsAreInOrder
<1>1. InputInv => InputsAreInOrder
  BY DEF InputInv, InOrder, WillExecute, InputsAreInOrder, Due
<1> QED  BY <1>1, InputInvariance, PTL

-----------------------------------------------------------------------------
(* Carrying: a hornet and what it carries know each other, for any hornets   *)
(* and worlds.                                                               *)

MoveCounts == 0..MaxMoves
HornetRefs == Hornets \X MoveCounts
Hornet == [life : {"alive", "dying", "removed"}, zone : Zones, moves : MoveCounts, skip : BOOLEAN,
           carried : HornetRefs \cup {Nothing}, saved : BOOLEAN, skipBefore : BOOLEAN,
           charge : {"no", "fresh", "yes"}]

Typed == hornet \in [Hornets -> Hornet] /\ carriedBy \subseteq HornetRefs \X HornetRefs /\ sweeping \in BOOLEAN

\* A handle names somebody as it was at some time, not as it will be.
HandlesAreOld(h) == \A c \in Hornets : h[c].carried # Nothing => h[c].carried[2] <= h[h[c].carried[1]].moves

\* The registry knows every load that its carrier would answer to.
Agree(h, r) ==
  \A c, e \in Hornets : Carries(h, c, e) =>
    /\ <<Handle(h, e), Handle(h, c)>> \in r
    /\ \A pair \in r : pair[1] = Handle(h, e) => pair[2] = Handle(h, c)

CarryInv == Typed /\ HandlesAreOld(hornet) /\ Agree(hornet, carriedBy)

-----------------------------------------------------------------------------
\* Letting go

LEMMA MovesAreNat == MoveCounts \subseteq Nat
  BY CarryingAssumption DEF MoveCounts

LEMMA HandlesAreRefs ==
  ASSUME NEW h \in [Hornets -> Hornet], NEW e \in Hornets
  PROVE  Handle(h, e) \in HornetRefs /\ Handle(h, e) # Nothing
  <1>1. h[e].moves \in MoveCounts
    BY DEF Hornet
  <1>2. Handle(h, e) \in HornetRefs
    BY <1>1 DEF Handle, HornetRefs
  <1>3. Nothing \notin HornetRefs
    BY MovesAreNat, CarryingAssumption DEF HornetRefs
  <1> QED
    BY <1>2, <1>3

\* Two states of the hornets in which they are who and where they were.
SameHornet(h, g) ==
  /\ g \in [Hornets -> Hornet]
  /\ \A x \in Hornets : g[x].life = h[x].life /\ g[x].zone = h[x].zone /\ g[x].moves = h[x].moves

LEMMA LoadLaidDown ==
  ASSUME NEW a \in Hornet
  PROVE  LET freed == [a EXCEPT !.carried = Nothing, !.saved = FALSE, !.skipBefore = FALSE]
         IN /\ freed \in Hornet /\ freed.carried = Nothing
            /\ freed.life = a.life /\ freed.zone = a.zone /\ freed.moves = a.moves
  BY DEF Hornet

\* Letting go changes what the carrier holds, and whether its load ticks.
LEMMA LetGo ==
  ASSUME NEW h \in [Hornets -> Hornet], NEW c \in Hornets
  PROVE  /\ SameHornet(h, Let(h, c))
         /\ Let(h, c)[c].carried = Nothing
         /\ \A x \in Hornets \ {c} : Let(h, c)[x].carried = h[x].carried
  <1> DEFINE ref == h[c].carried
             dropped == [h EXCEPT ![c].carried = Nothing, ![c].saved = FALSE, ![c].skipBefore = FALSE]
  <1>1. /\ dropped \in [Hornets -> Hornet]
        /\ dropped[c].carried = Nothing
        /\ \A x \in Hornets \ {c} : dropped[x] = h[x]
        /\ dropped[c].life = h[c].life /\ dropped[c].zone = h[c].zone /\ dropped[c].moves = h[c].moves
    <2> DEFINE freed == [h[c] EXCEPT !.carried = Nothing, !.saved = FALSE, !.skipBefore = FALSE]
    <2>1. /\ freed \in Hornet /\ freed.carried = Nothing
          /\ freed.life = h[c].life /\ freed.zone = h[c].zone /\ freed.moves = h[c].moves
      BY LoadLaidDown
    <2>2. dropped = [h EXCEPT ![c] = freed]
      OBVIOUS
    <2> HIDE DEF freed, dropped
    <2> QED
      BY <2>1, <2>2
  <1>2. CASE h[c].saved /\ Resolves(h, c, ref)
    <2>1. ref[1] \in Hornets /\ h[c].skipBefore \in BOOLEAN
      BY <1>2 DEF Resolves, Hornet, HornetRefs
    <2>2. Let(h, c) = [dropped EXCEPT ![ref[1]].skip = h[c].skipBefore]
      BY <1>2 DEF Let
    <2> HIDE DEF dropped, ref
    <2>3. \A x \in Hornets : /\ Let(h, c)[x].life = dropped[x].life /\ Let(h, c)[x].zone = dropped[x].zone
                             /\ Let(h, c)[x].moves = dropped[x].moves
                             /\ Let(h, c)[x].carried = dropped[x].carried
      <3> SUFFICES ASSUME NEW x \in Hornets
                   PROVE  /\ Let(h, c)[x].life = dropped[x].life /\ Let(h, c)[x].zone = dropped[x].zone
                          /\ Let(h, c)[x].moves = dropped[x].moves
                          /\ Let(h, c)[x].carried = dropped[x].carried
        OBVIOUS
      <3>1. CASE x = ref[1]
        <4>1. Let(h, c)[x] = [dropped[x] EXCEPT !.skip = h[c].skipBefore] /\ dropped[x] \in Hornet
          BY <1>1, <2>1, <2>2, <3>1
        <4> QED
          BY <4>1 DEF Hornet
      <3>2. CASE x # ref[1]
        BY <1>1, <2>1, <2>2, <3>2
      <3> QED
        BY <3>1, <3>2
    <2>4. Let(h, c) \in [Hornets -> Hornet]
      <3>1. [dropped[ref[1]] EXCEPT !.skip = h[c].skipBefore] \in Hornet
        BY <1>1, <2>1 DEF Hornet
      <3> QED
        BY <1>1, <2>2, <3>1
    <2> QED
      BY <1>1, <2>3, <2>4 DEF SameHornet
  <1>3. CASE ~(h[c].saved /\ Resolves(h, c, ref))
    <2>1. Let(h, c) = dropped
      BY <1>3 DEF Let
    <2> HIDE DEF dropped, ref
    <2> QED
      BY <1>1, <2>1 DEF SameHornet
  <1> QED
    BY <1>2, <1>3

\* Nobody in g has moved, came to life or took a load, compared with h.
Lesser(h, g) ==
  /\ g \in [Hornets -> Hornet]
  /\ \A x \in Hornets :
       /\ g[x].zone = h[x].zone /\ g[x].moves = h[x].moves
       /\ g[x].life = "alive" => h[x].life = "alive"
       /\ g[x].carried = h[x].carried \/ g[x].carried = Nothing

LEMMA LesserLoads ==
  ASSUME NEW h \in [Hornets -> Hornet], NEW g, Lesser(h, g)
  PROVE  /\ HandlesAreOld(h) => HandlesAreOld(g)
         /\ \A e \in Hornets : Handle(g, e) = Handle(h, e)
         /\ \A c, e \in Hornets : Carries(g, c, e) => Carries(h, c, e)
  <1>1. \A e \in Hornets : Handle(g, e) = Handle(h, e)
    BY DEF Lesser, Handle
  <1>2. ASSUME HandlesAreOld(h) PROVE HandlesAreOld(g)
    <2>1. \A c \in Hornets : h[c].carried # Nothing => h[c].carried[1] \in Hornets
      BY DEF Hornet, HornetRefs
    <2> QED
      BY <1>2, <2>1 DEF HandlesAreOld, Lesser
  <1>3. ASSUME NEW c \in Hornets, NEW e \in Hornets, Carries(g, c, e)
        PROVE  Carries(h, c, e)
    <2>1. g[c].carried = Handle(h, e) /\ Handle(h, e) # Nothing
      BY <1>1, <1>3, HandlesAreRefs DEF Carries
    <2>2. h[c].carried = Handle(h, e)
      BY <2>1 DEF Lesser
    <2>3. h[c].life = "alive" /\ h[e].life = "alive" /\ h[e].zone = h[c].zone
      BY <1>1, <1>3, <2>1 DEF Carries, Resolves, Lesser, Handle
    <2> QED
      BY <2>1, <2>2, <2>3 DEF Carries, Resolves, Handle
  <1> QED
    BY <1>1, <1>2, <1>3

\* The registry may forget what is not carried any more.
LEMMA LesserAgree ==
  ASSUME NEW h \in [Hornets -> Hornet], NEW g, Lesser(h, g), NEW r, Agree(h, r), NEW q \in SUBSET r,
         \A c, e \in Hornets : Carries(g, c, e) => <<Handle(h, e), Handle(h, c)>> \in q
  PROVE  Agree(g, q)
  BY LesserLoads DEF Agree

\* Who lets go has no load, and only its load is taken from the registry.
LEMMA LetGoAgrees ==
  ASSUME NEW h \in [Hornets -> Hornet], NEW c \in Hornets, NEW r, Agree(h, r)
  PROVE  Lesser(h, Let(h, c)) /\ Agree(Let(h, c), Unregistered(h, r, c))
  <1>1. Lesser(h, Let(h, c)) /\ Let(h, c)[c].carried = Nothing
    <2> DEFINE g == Let(h, c)
    <2>1. /\ SameHornet(h, g) /\ g[c].carried = Nothing
          /\ \A x \in Hornets \ {c} : g[x].carried = h[x].carried
      BY LetGo
    <2> HIDE DEF g
    <2>2. Lesser(h, g)
      BY <2>1 DEF Lesser, SameHornet
    <2> QED
      BY <2>1, <2>2 DEF g
  <1>2. ASSUME NEW b \in Hornets, NEW e \in Hornets, Carries(Let(h, c), b, e)
        PROVE  <<Handle(h, e), Handle(h, b)>> \in Unregistered(h, r, c)
    <2>1. b # c
      BY <1>1, <1>2, HandlesAreRefs DEF Carries, Lesser
    <2>2. <<Handle(h, e), Handle(h, b)>> \in r
      BY <1>1, <1>2, LesserLoads DEF Agree
    <2>3. Handle(h, b) # Handle(h, c)
      BY <2>1 DEF Handle
    <2> QED
      BY <2>2, <2>3 DEF Unregistered
  <1>3. Unregistered(h, r, c) \in SUBSET r
    BY DEF Unregistered
  <1> QED
    BY <1>1, <1>2, <1>3, LesserAgree

LEMMA LesserTwice ==
  ASSUME NEW f \in [Hornets -> Hornet], NEW g \in [Hornets -> Hornet], NEW h, Lesser(f, g), Lesser(g, h)
  PROVE  Lesser(f, h)
  BY DEF Lesser

-----------------------------------------------------------------------------
\* The actions

LEMMA RegistryTyped ==
  ASSUME NEW h \in [Hornets -> Hornet], NEW r \in SUBSET (HornetRefs \X HornetRefs), NEW c \in Hornets
  PROVE  Unregistered(h, r, c) \in SUBSET (HornetRefs \X HornetRefs)
  BY DEF Unregistered

\* A capture: the registry would have refused a hornet that somebody else holds.
LEMMA CaptureKeeps ==
  ASSUME CarryInv, NEW c \in Hornets, NEW e \in Hornets, Capture(c, e)
  PROVE  CarryInv'
  <1> USE DEF CarryInv
  <1>1. c # e /\ hornet[c].life = "alive" /\ hornet[e].life = "alive" /\ hornet[e].zone = hornet[c].zone
    BY DEF Capture
  <1>2. hornet' \in [Hornets -> Hornet]
    <2>1. Handle(hornet, e) \in HornetRefs /\ hornet[e].skip \in BOOLEAN
      BY HandlesAreRefs DEF Typed, Hornet
    <2> DEFINE taker == [hornet[c] EXCEPT !.carried = Handle(hornet, e), !.charge = "fresh",
                                          !.saved = TRUE, !.skipBefore = hornet[e].skip]
               load == [hornet[e] EXCEPT !.skip = TRUE]
    <2>2. taker \in Hornet /\ load \in Hornet
      BY <2>1 DEF Typed, Hornet
    <2>3. hornet' = [hornet EXCEPT ![c] = taker, ![e] = load]
      BY <1>1 DEF Capture, Typed
    <2> HIDE DEF taker, load
    <2> QED
      BY <2>2, <2>3 DEF Typed
  <1>3. /\ hornet'[c].carried = Handle(hornet, e)
        /\ \A x \in Hornets \ {c} : hornet'[x].carried = hornet[x].carried
        /\ \A x \in Hornets : /\ hornet'[x].life = hornet[x].life /\ hornet'[x].zone = hornet[x].zone
                              /\ hornet'[x].moves = hornet[x].moves
    BY <1>1 DEF Capture, Typed, Hornet
  <1>4. \A x \in Hornets : Handle(hornet', x) = Handle(hornet, x)
    BY <1>3 DEF Handle
  <1>5. carriedBy' = {pair \in carriedBy : pair[1] # Handle(hornet, e)}
                       \cup {<<Handle(hornet, e), Handle(hornet, c)>>}
    BY DEF Capture, Registered
  <1>6. Typed'
    BY <1>2, <1>5, HandlesAreRefs DEF Typed, Capture
  <1>7. HandlesAreOld(hornet)'
    <2>1. hornet'[c].carried[1] = e /\ hornet'[c].carried[2] = hornet[e].moves /\ hornet[e].moves \in Nat
      <3>1. hornet[e].moves \in Nat
        BY MovesAreNat DEF Typed, Hornet
      <3> QED
        BY <1>3, <3>1 DEF Handle
    <2>2. \A x \in Hornets \ {c} : hornet[x].carried # Nothing => hornet[x].carried[1] \in Hornets
      BY DEF Typed, Hornet, HornetRefs
    <2> QED
      BY <1>3, <2>1, <2>2 DEF HandlesAreOld
  <1>8. Agree(hornet, carriedBy)'
    <2> SUFFICES ASSUME NEW b \in Hornets, NEW x \in Hornets, Carries(hornet', b, x)
                 PROVE  /\ <<Handle(hornet, x), Handle(hornet, b)>> \in carriedBy'
                        /\ \A pair \in carriedBy' : pair[1] = Handle(hornet, x) => pair[2] = Handle(hornet, b)
      BY <1>4 DEF Agree
    <2>1. CASE b = c
      <3>1. Handle(hornet, x) = Handle(hornet, e)
        BY <1>3, <1>4, <2>1 DEF Carries
      <3> QED
        BY <1>5, <2>1, <3>1
    <2>2. CASE b # c
      <3>1. Carries(hornet, b, x)
        <4>1. hornet'[b].carried = Handle(hornet, x) /\ hornet'[b].life = "alive" /\ hornet'[x].life = "alive"
          BY <1>4 DEF Carries
        <4>2. hornet[b].carried = Handle(hornet, x) /\ hornet[b].life = "alive" /\ hornet[x].life = "alive"
          BY <1>3, <2>2, <4>1
        <4>3. hornet'[b].carried[1] = x /\ hornet[x].zone = hornet[b].zone
          BY <1>3, <4>1 DEF Carries, Resolves, Handle
        <4>4. Handle(hornet, x) # Nothing /\ Handle(hornet, x)[1] = x /\ Handle(hornet, x)[2] = hornet[x].moves
          BY HandlesAreRefs DEF Typed, Handle
        <4> QED
          BY <4>2, <4>3, <4>4 DEF Carries, Resolves
      <3>2. Handle(hornet, x) # Handle(hornet, e)
        <4>1. SUFFICES ASSUME x = e PROVE FALSE
          BY DEF Handle
        <4>2. <<Handle(hornet, e), Handle(hornet, b)>> \in carriedBy /\ IsCarried(hornet, carriedBy, e)
          BY <3>1, <4>1 DEF Agree, IsCarried
        <4>3. <<Handle(hornet, e), Handle(hornet, c)>> \in carriedBy
          BY <4>2 DEF Capture, Registers
        <4>4. Handle(hornet, c) = Handle(hornet, b)
          BY <3>1, <4>1, <4>3 DEF Agree
        <4> QED
          BY <2>2, <4>4 DEF Handle
      <3> QED
        BY <1>5, <3>1, <3>2 DEF Agree
    <2> QED
      BY <2>1, <2>2
  <1> QED
    BY <1>6, <1>7, <1>8

\* A step after which nobody carries more, and the registry agrees.
LEMMA LesserStep ==
  ASSUME CarryInv, Lesser(hornet, hornet'), Agree(hornet', carriedBy'), carriedBy' \in SUBSET carriedBy,
         sweeping' \in BOOLEAN
  PROVE  CarryInv'
  <1>1. HandlesAreOld(hornet')
    BY LesserLoads DEF CarryInv, Typed
  <1> QED
    BY <1>1 DEF CarryInv, Typed, Lesser, Agree, HandlesAreOld

LEMMA FinishChargeKeeps ==
  ASSUME CarryInv, NEW c \in Hornets, FinishCharge(c)
  PROVE  CarryInv'
  <1> DEFINE g == Let(hornet, c)
             q == Unregistered(hornet, carriedBy, c)
  <1>1. Lesser(hornet, g) /\ Agree(g, q) /\ q \in SUBSET carriedBy
    BY LetGoAgrees DEF CarryInv, Typed, Unregistered
  <1>2. hornet' = [g EXCEPT ![c].charge = "no"] /\ carriedBy' = q /\ sweeping' = sweeping
    BY DEF FinishCharge, Finished
  <1> HIDE DEF g, q
  <1>3. Lesser(g, hornet')
    BY <1>1, <1>2 DEF Lesser, Hornet
  <1>4. Lesser(hornet, hornet')
    BY <1>1, <1>3, LesserTwice DEF CarryInv, Typed, Lesser
  <1>5. Agree(hornet', q)
    <2>1. \A b, e \in Hornets : Carries(hornet', b, e) => <<Handle(g, e), Handle(g, b)>> \in q
      BY <1>1, <1>3, LesserLoads DEF Lesser, Agree
    <2> QED
      BY <1>1, <1>3, <2>1, LesserAgree DEF Lesser
  <1> QED
    BY <1>1, <1>2, <1>4, <1>5, LesserStep DEF CarryInv, Typed

LEMMA PerishKeeps ==
  ASSUME CarryInv, NEW e \in Hornets, Perish(e)
  PROVE  CarryInv'
  <1>1. Lesser(hornet, hornet')
    BY DEF Perish, CarryInv, Typed, Lesser, Hornet
  <1>2. \A c, x \in Hornets : Carries(hornet', c, x) => <<Handle(hornet, x), Handle(hornet, c)>> \in carriedBy
    BY <1>1, LesserLoads DEF CarryInv, Typed, Agree
  <1>3. Agree(hornet', carriedBy)
    BY <1>1, <1>2, LesserAgree DEF CarryInv, Typed
  <1> QED
    BY <1>1, <1>3, LesserStep DEF Perish, CarryInv, Typed

LEMMA TickKeeps ==
  ASSUME CarryInv, BeginSweep \/ EndSweep
  PROVE  CarryInv'
  <1>1. Lesser(hornet, hornet')
    <2>1. CASE BeginSweep
      BY <2>1 DEF BeginSweep, CarryInv, Typed, Lesser
    <2>2. CASE EndSweep
      <3> DEFINE grown(x) == [hornet[x] EXCEPT !.charge = IF @ = "fresh" THEN "yes" ELSE @]
      <3>1. hornet' = [x \in Hornets |-> grown(x)]
        BY <2>2 DEF EndSweep
      <3>2. \A x \in Hornets : /\ grown(x) \in Hornet /\ grown(x).zone = hornet[x].zone
                               /\ grown(x).moves = hornet[x].moves /\ grown(x).life = hornet[x].life
                               /\ grown(x).carried = hornet[x].carried
        BY DEF CarryInv, Typed, Hornet
      <3> HIDE DEF grown
      <3> QED
        BY <3>1, <3>2 DEF Lesser
    <2> QED
      BY <2>1, <2>2
  <1>2. \A c, x \in Hornets : Carries(hornet', c, x) => <<Handle(hornet, x), Handle(hornet, c)>> \in carriedBy
    BY <1>1, LesserLoads DEF CarryInv, Typed, Agree
  <1>3. Agree(hornet', carriedBy)
    BY <1>1, <1>2, LesserAgree DEF CarryInv, Typed
  <1> QED
    BY <1>1, <1>3, LesserStep DEF BeginSweep, EndSweep, CarryInv, Typed

\* What dies lets go, and is let go of.
LEMMA SweepKeeps ==
  ASSUME CarryInv, NEW e \in Hornets, Sweep(e)
  PROVE  CarryInv'
  <1> DEFINE first == Finished(hornet, e)
             rest == Unregistered(hornet, carriedBy, e)
             holders == {c \in Hornets : <<Handle(hornet, e), Handle(hornet, c)>> \in rest
                                         /\ Resolves(first, e, Handle(hornet, c))}
             done == Released(hornet, carriedBy, e)
             g == done[1]
             q == done[2]
  <1>1. Lesser(hornet, first) /\ Agree(first, rest) /\ rest \in SUBSET carriedBy
    <2> DEFINE f == Let(hornet, e)
    <2>1. Lesser(hornet, f) /\ Agree(f, rest) /\ rest \in SUBSET carriedBy
      BY LetGoAgrees DEF CarryInv, Typed, Unregistered
    <2>2. first = [f EXCEPT ![e].charge = "no"]
      BY DEF Finished
    <2> HIDE DEF f, first, rest
    <2>3. Lesser(f, first)
      BY <2>1, <2>2 DEF Lesser, Hornet
    <2>4. Lesser(hornet, first)
      BY <2>1, <2>3, LesserTwice DEF CarryInv, Typed, Lesser
    <2>5. \A b, x \in Hornets : Carries(first, b, x) => <<Handle(f, x), Handle(f, b)>> \in rest
      BY <2>1, <2>3, LesserLoads DEF Lesser, Agree
    <2>6. Agree(first, rest)
      BY <2>1, <2>3, <2>5, LesserAgree DEF Lesser
    <2> QED
      BY <2>1, <2>4, <2>6
  <1>2. hornet' = [g EXCEPT ![e].life = "removed", ![e].skip = FALSE] /\ carriedBy' = q
        /\ sweeping' = sweeping
    BY DEF Sweep
  <1>3. /\ Lesser(first, g) /\ q \in SUBSET rest
        /\ \A c, x \in Hornets : x # e /\ Carries(g, c, x) => <<Handle(first, x), Handle(first, c)>> \in q
    <2>1. CASE holders = {}
      <3>1. g = first /\ q = {pair \in rest : pair[1] # Handle(hornet, e)}
        BY <2>1 DEF Released
      <3> HIDE DEF first, rest, g, q
      <3>2. \A x \in Hornets \ {e} : Handle(first, x) # Handle(hornet, e)
        BY DEF Handle
      <3> QED
        BY <1>1, <3>1, <3>2 DEF Lesser, Agree
    <2>2. CASE holders # {}
      <3> DEFINE c == CHOOSE c \in holders : TRUE
      <3>1. c \in Hornets
        BY <2>2
      <3>2. g = Let(first, c) /\ q = Unregistered(first, rest, c)
        BY <2>2 DEF Released
      <3> HIDE DEF first, rest, c, g, q
      <3>3. Lesser(first, g) /\ Agree(g, q) /\ q \in SUBSET rest
        BY <1>1, <3>1, <3>2, LetGoAgrees DEF Lesser, Unregistered
      <3> QED
        BY <1>1, <3>3, LesserLoads DEF Agree, Lesser
    <2> QED
      BY <2>1, <2>2
  <1> HIDE DEF first, rest, g, q
  <1>4. Lesser(g, hornet') /\ hornet'[e].life = "removed"
    <2> DEFINE dead == [g[e] EXCEPT !.life = "removed", !.skip = FALSE]
    <2>1. /\ dead \in Hornet /\ dead.life = "removed" /\ dead.zone = g[e].zone
          /\ dead.moves = g[e].moves /\ dead.carried = g[e].carried
      BY <1>3 DEF Lesser, Hornet
    <2>2. hornet' = [g EXCEPT ![e] = dead]
      BY <1>2, <1>3 DEF Lesser
    <2> HIDE DEF dead
    <2> QED
      BY <1>3, <2>1, <2>2 DEF Lesser
  <1>5. Lesser(first, hornet') /\ Lesser(hornet, hornet')
    <2>1. hornet \in [Hornets -> Hornet] /\ first \in [Hornets -> Hornet] /\ g \in [Hornets -> Hornet]
      BY <1>1, <1>3 DEF CarryInv, Typed, Lesser
    <2>2. Lesser(first, hornet')
      BY <1>3, <1>4, <2>1, LesserTwice
    <2> QED
      BY <1>1, <2>1, <2>2, LesserTwice
  <1>6. \A c, x \in Hornets : Carries(hornet', c, x) => <<Handle(first, x), Handle(first, c)>> \in q
    <2> SUFFICES ASSUME NEW c \in Hornets, NEW x \in Hornets, Carries(hornet', c, x)
                 PROVE  <<Handle(first, x), Handle(first, c)>> \in q
      OBVIOUS
    <2>1. x # e
      BY <1>4 DEF Carries
    <2>2. Carries(g, c, x)
      BY <1>3, <1>4, LesserLoads DEF Lesser
    <2> QED
      BY <1>3, <2>1, <2>2
  <1>7. Agree(hornet', q)
    BY <1>1, <1>3, <1>5, <1>6, LesserAgree DEF Lesser
  <1> QED
    BY <1>1, <1>2, <1>3, <1>5, <1>7, LesserStep DEF CarryInv, Typed

\* Who leaves the world has a new handle, which nobody holds.
LEMMA TakeAwayKeeps ==
  ASSUME CarryInv, NEW e \in Hornets, NEW z \in Zones, TakeAway(e, z)
  PROVE  CarryInv'
  <1> DEFINE load == Let(hornet, e)
             here == Unregistered(hornet, carriedBy, e)
             moved == Moved(hornet, e, z)
             holders == {c \in Hornets : <<Handle(hornet, e), Handle(hornet, c)>> \in here}
  <1>1. Lesser(hornet, load) /\ Agree(load, here) /\ here \in SUBSET carriedBy
    BY LetGoAgrees DEF CarryInv, Typed, Unregistered
  <1>2. load[e].carried = Nothing
    BY LetGo DEF CarryInv, Typed
  <1>3. hornet[e].moves + 1 \in MoveCounts /\ hornet[e].moves \in Nat
    <2>1. hornet[e].moves \in MoveCounts /\ hornet[e].moves < MaxMoves
      BY DEF TakeAway, CarryInv, Typed, Hornet
    <2> QED
      BY <2>1, CarryingAssumption DEF MoveCounts
  <1>4. moved = [load EXCEPT ![e].zone = z, ![e].moves = @ + 1, ![e].charge = "no"]
    BY DEF Moved
  <1> HIDE DEF load, here, moved
  <1>5. /\ moved \in [Hornets -> Hornet]
        /\ moved[e].moves = hornet[e].moves + 1 /\ moved[e].carried = Nothing
        /\ \A x \in Hornets \ {e} : moved[x] = load[x]
    <2> DEFINE guest == [load[e] EXCEPT !.zone = z, !.moves = @ + 1, !.charge = "no"]
    <2>1. load[e].moves = hornet[e].moves
      BY <1>1 DEF Lesser
    <2>2. guest \in Hornet /\ guest.moves = hornet[e].moves + 1 /\ guest.carried = Nothing
      BY <1>1, <1>2, <1>3, <2>1 DEF Lesser, Hornet
    <2>3. moved = [load EXCEPT ![e] = guest]
      BY <1>1, <1>4 DEF Lesser
    <2> HIDE DEF guest
    <2> QED
      BY <1>1, <2>2, <2>3 DEF Lesser
  <1>6. HandlesAreOld(load)
    BY <1>1, LesserLoads DEF CarryInv, Typed
  <1>7. \A c \in Hornets : load[c].carried # Nothing =>
           load[c].carried[1] \in Hornets /\ load[c].carried[2] \in Nat
    BY <1>1, MovesAreNat DEF Lesser, Hornet, HornetRefs
  <1>8. load[e].moves = hornet[e].moves
    BY <1>1 DEF Lesser
  <1>9. HandlesAreOld(moved)
    <2> SUFFICES ASSUME NEW c \in Hornets, moved[c].carried # Nothing
                 PROVE  moved[c].carried[2] <= moved[moved[c].carried[1]].moves
      BY DEF HandlesAreOld
    <2>1. c # e /\ moved[c].carried = load[c].carried
      BY <1>5
    <2>2. /\ load[c].carried[1] \in Hornets /\ load[c].carried[2] \in Nat
          /\ load[c].carried[2] <= load[load[c].carried[1]].moves
      BY <1>6, <1>7, <2>1 DEF HandlesAreOld
    <2>3. CASE load[c].carried[1] = e
      BY <1>3, <1>5, <1>8, <2>1, <2>2, <2>3
    <2>4. CASE load[c].carried[1] # e
      BY <1>5, <2>1, <2>2, <2>4
    <2> QED
      BY <2>3, <2>4
  <1>10. ASSUME NEW c \in Hornets, NEW x \in Hornets, Carries(moved, c, x)
         PROVE  /\ c # e /\ x # e /\ Carries(load, c, x)
                /\ Handle(moved, c) = Handle(load, c) /\ Handle(moved, x) = Handle(load, x)
    <2>1. moved[c].carried = Handle(moved, x) /\ Handle(moved, x) # Nothing
      BY <1>5, <1>10, HandlesAreRefs DEF Carries
    <2>2. c # e
      BY <1>5, <2>1
    <2>3. x # e
      <3>1. SUFFICES ASSUME x = e PROVE FALSE
        OBVIOUS
      <3>2. load[c].carried = <<e, hornet[e].moves + 1>>
        BY <1>5, <2>1, <2>2, <3>1 DEF Handle
      <3>3. hornet[e].moves + 1 <= hornet[e].moves
        BY <1>5, <1>6, <1>8, <2>1, <2>2, <3>2 DEF HandlesAreOld
      <3> QED
        BY <1>3, <3>3
    <2>4. moved[c] = load[c] /\ moved[x] = load[x]
      BY <1>5, <2>2, <2>3
    <2>5. Handle(moved, c) = Handle(load, c) /\ Handle(moved, x) = Handle(load, x)
      BY <2>4 DEF Handle
    <2>6. moved[c].carried[1] = x
      BY <2>1 DEF Handle
    <2> QED
      BY <1>10, <2>2, <2>3, <2>4, <2>5, <2>6 DEF Carries, Resolves
  <1>11. Agree(moved, here)
    <2> SUFFICES ASSUME NEW c \in Hornets, NEW x \in Hornets, Carries(moved, c, x)
                 PROVE  /\ <<Handle(moved, x), Handle(moved, c)>> \in here
                        /\ \A pair \in here : pair[1] = Handle(moved, x) => pair[2] = Handle(moved, c)
      BY DEF Agree
    <2> QED
      BY <1>1, <1>10 DEF Agree
  <1>12. here \in SUBSET (HornetRefs \X HornetRefs)
    BY <1>1 DEF CarryInv, Typed
  <1>13. CASE hornet' = moved /\ carriedBy' = here
    BY <1>5, <1>9, <1>11, <1>12, <1>13 DEF CarryInv, Typed, TakeAway, HandlesAreOld, Agree
  <1>14. CASE \E c \in holders : hornet' = Let(moved, c) /\ carriedBy' = Unregistered(moved, here, c)
    <2>1. PICK c \in Hornets : hornet' = Let(moved, c) /\ carriedBy' = Unregistered(moved, here, c)
      BY <1>14
    <2>2. Lesser(moved, hornet') /\ Agree(hornet', carriedBy')
      BY <1>5, <1>11, <2>1, LetGoAgrees
    <2>3. HandlesAreOld(hornet')
      BY <1>5, <1>9, <2>2, LesserLoads
    <2>4. carriedBy' \in SUBSET (HornetRefs \X HornetRefs)
      BY <1>5, <1>12, <2>1, RegistryTyped
    <2> QED
      BY <2>2, <2>3, <2>4 DEF CarryInv, Typed, TakeAway, Lesser, HandlesAreOld, Agree
  <1> QED
    BY <1>13, <1>14 DEF TakeAway, here, moved

\* After a hot reload the registry is what the carriers say.
LEMMA CarryReloadKeeps ==
  ASSUME CarryInv, ReloadHornets
  PROVE  CarryInv'
  <1>1. carriedBy' = RebuiltRegistry(hornet) /\ hornet' = hornet /\ sweeping' = sweeping
    BY DEF ReloadHornets
  <1>2. ASSUME NEW c \in Hornets, NEW e \in Hornets, Carries(hornet, c, e)
        PROVE  /\ <<Handle(hornet, e), Handle(hornet, c)>> \in RebuiltRegistry(hornet)
               /\ \A pair \in RebuiltRegistry(hornet) :
                     pair[1] = Handle(hornet, e) => pair[2] = Handle(hornet, c)
    <2>1. hornet[c].carried = Handle(hornet, e)
      BY <1>2 DEF Carries
    <2>2. ASSUME NEW d \in Hornets, NEW x \in Hornets, Carries(hornet, d, x),
                 hornet[d].carried = Handle(hornet, e)
          PROVE  Handle(hornet, d) = Handle(hornet, c)
      <3>1. x = e
        BY <2>2 DEF Carries, Handle
      <3> QED
        BY <1>2, <2>2, <3>1 DEF CarryInv, Agree
    <2> QED
      BY <1>2, <2>1, <2>2 DEF RebuiltRegistry
  <1>3. RebuiltRegistry(hornet) \in SUBSET (HornetRefs \X HornetRefs)
    <2>1. ASSUME NEW c \in Hornets, NEW e \in Hornets, Carries(hornet, c, e)
          PROVE  <<hornet[c].carried, Handle(hornet, c)>> \in HornetRefs \X HornetRefs
      BY <2>1, HandlesAreRefs DEF Carries, CarryInv, Typed
    <2> QED
      BY <2>1 DEF RebuiltRegistry
  <1> QED
    BY <1>1, <1>2, <1>3 DEF CarryInv, Typed, Agree, HandlesAreOld

LEMMA CarryStepKeeps ==
  ASSUME CarryInv, [CarryingNext]_carryingVars
  PROVE  CarryInv'
  <1>1. CASE UNCHANGED carryingVars
    BY <1>1 DEF carryingVars, CarryInv, Typed, HandlesAreOld, Agree
  <1>2. CASE CarryingNext
    <2>1. Possessed \subseteq Hornets
      BY CarryingAssumption
    <2> QED
      BY <1>2, <2>1, CaptureKeeps, FinishChargeKeeps, PerishKeeps, TickKeeps, SweepKeeps, TakeAwayKeeps,
         CarryReloadKeeps DEF CarryingNext
  <1> QED
    BY <1>1, <1>2

LEMMA CarryInitKeeps == CarryingInit => CarryInv
  <1> SUFFICES ASSUME CarryingInit PROVE CarryInv
    OBVIOUS
  <1>1. 0 \in MoveCounts
    BY CarryingAssumption DEF MoveCounts
  <1>2. hornet \in [Hornets -> Hornet] /\ \A x \in Hornets : hornet[x].carried = Nothing
    <2> DEFINE fresh(z) == [life |-> "alive", zone |-> z, moves |-> 0, skip |-> FALSE, carried |-> Nothing,
                           saved |-> FALSE, skipBefore |-> FALSE, charge |-> "no"]
    <2>1. \A z \in Zones : fresh(z) \in Hornet /\ fresh(z).carried = Nothing
      BY <1>1 DEF Hornet
    <2>2. hornet \in [Hornets -> {fresh(z) : z \in Zones}]
      BY DEF CarryingInit
    <2> HIDE DEF fresh
    <2> QED
      BY <2>1, <2>2
  <1>3. \A c, e \in Hornets : ~Carries(hornet, c, e)
    BY <1>2, HandlesAreRefs DEF Carries
  <1> QED
    BY <1>2, <1>3 DEF CarryingInit, CarryInv, Typed, HandlesAreOld, Agree

\* Every variable keeps its type.
THEOREM CarryTypeCorrect == CarryingSpec => []CarryingTypeOK
  <1>1. CarryInv => CarryingTypeOK
    BY DEF CarryInv, Typed, CarryingTypeOK, Hornet, HornetRefs, MoveCounts
  <1> QED
    BY <1>1, CarryInitKeeps, CarryStepKeeps, PTL DEF CarryingSpec

\* However hornets capture, die, change worlds and are reloaded, the load of a
\* living hornet is registered as its own and as nobody else's.
THEOREM LoadsAreRegistered == CarryingSpec => []CarriedIsRegistered
  <1>1. CarryInv => CarriedIsRegistered
    <2> SUFFICES ASSUME CarryInv, NEW c \in Hornets, NEW e \in Hornets, Carries(hornet, c, e)
                 PROVE  {pair \in carriedBy : pair[1] = Handle(hornet, e)}
                          = {<<Handle(hornet, e), Handle(hornet, c)>>}
      BY DEF CarriedIsRegistered
    <2>1. <<Handle(hornet, e), Handle(hornet, c)>> \in carriedBy
      BY DEF CarryInv, Agree
    <2>2. ASSUME NEW pair \in carriedBy, pair[1] = Handle(hornet, e)
          PROVE  pair = <<Handle(hornet, e), Handle(hornet, c)>>
      <3>1. pair[2] = Handle(hornet, c) /\ pair \in HornetRefs \X HornetRefs
        BY <2>2 DEF CarryInv, Agree, Typed
      <3> QED
        BY <2>2, <3>1
    <2> QED
      BY <2>1, <2>2
  <1> QED
    BY <1>1, CarryInitKeeps, CarryStepKeeps, PTL DEF CarryingSpec

-----------------------------------------------------------------------------
(* Loadouts: no petal is lost, copied or worn by who does not own it, for any *)
(* players, petals and limits. Petals are counted as the pairs of a player    *)
(* and a number up to how many it holds.                                      *)

\* Min of a nonempty set of numbers is in it.
LEMMA LeastIsIn ==
  ASSUME NEW S \in SUBSET Nat, S # {} PROVE Min(S) \in S
  <1>1. PICK x \in S : \A y \in S : ~ (<<y, x>> \in OpToRel(<, Nat))
    BY NatLessThanWellFounded, WFMin
  <1>2. \A y \in S : ~ (y < x)
    BY <1>1 DEF OpToRel
  <1>3. \A y \in S : x <= y
    BY <1>2
  <1> QED
    BY <1>3 DEF Min

\* The numbers from 0 to n - 1, or from 1 to n, are n.
LEMMA CountUp ==
  ASSUME NEW n \in Nat
  PROVE  /\ IsFiniteSet(0..(n - 1)) /\ Cardinality(0..(n - 1)) = n
         /\ IsFiniteSet(1..n) /\ Cardinality(1..n) = n
  <1>1. 0 \in Int /\ 1 \in Int /\ n \in Int /\ n - 1 \in Int
    OBVIOUS
  <1>2. IsFiniteSet(0..(n - 1)) /\ Cardinality(0..(n - 1)) = IF 0 > n - 1 THEN 0 ELSE (n - 1) - 0 + 1
    BY <1>1, FS_Interval
  <1>3. IsFiniteSet(1..n) /\ Cardinality(1..n) = IF 1 > n THEN 0 ELSE n - 1 + 1
    BY <1>1, FS_Interval
  <1> QED
    BY <1>2, <1>3

\* The rank of a number in a set counts what is below it.
Below(S, s) == {r \in S : r < s}

\* In a finite set of numbers, how many are smaller numbers them without gaps.
LEMMA RanksCount ==
  ASSUME NEW S \in SUBSET Nat, IsFiniteSet(S)
  PROVE  [s \in S |-> Cardinality(Below(S, s))] \in Bijection(S, 0..(Cardinality(S) - 1))
  <1> DEFINE rank == [s \in S |-> Cardinality(Below(S, s))]
             T == 0..(Cardinality(S) - 1)
  <1>n. Cardinality(S) \in Nat
    BY FS_CardinalityType
  <1>1. \A s \in S : IsFiniteSet(Below(S, s)) /\ Cardinality(Below(S, s)) \in Nat
                     /\ Cardinality(Below(S, s)) < Cardinality(S)
    <2> SUFFICES ASSUME NEW s \in S
                 PROVE  IsFiniteSet(Below(S, s)) /\ Cardinality(Below(S, s)) \in Nat
                        /\ Cardinality(Below(S, s)) < Cardinality(S)
      OBVIOUS
    <2> DEFINE B == Below(S, s)
    <2>1. B \in SUBSET S /\ B # S
      BY DEF Below
    <2> HIDE DEF B
    <2>2. IsFiniteSet(B) /\ Cardinality(B) <= Cardinality(S) /\ Cardinality(S) # Cardinality(B)
      BY <2>1, FS_Subset
    <2>3. Cardinality(B) \in Nat
      BY <2>2, FS_CardinalityType
    <2>4. Cardinality(B) < Cardinality(S)
      BY <1>n, <2>2, <2>3
    <2> QED
      BY <2>2, <2>3, <2>4 DEF B
  <1>2. \A r, s \in S : r < s => Cardinality(Below(S, r)) < Cardinality(Below(S, s))
    <2> SUFFICES ASSUME NEW r \in S, NEW s \in S, r < s
                 PROVE  Cardinality(Below(S, r)) < Cardinality(Below(S, s))
      OBVIOUS
    <2> DEFINE A == Below(S, r)  B == Below(S, s)
    <2>1. A \in SUBSET B /\ B # A
      <3>1. r \in B /\ r \notin A
        BY DEF Below
      <3>2. \A x \in Nat : x < r => x < s
        OBVIOUS
      <3>3. A \in SUBSET B
        BY <3>2 DEF Below
      <3> QED
        BY <3>1, <3>3
    <2>2. IsFiniteSet(B) /\ Cardinality(B) \in Nat /\ Cardinality(A) \in Nat
      BY <1>1
    <2> HIDE DEF A, B
    <2>3. Cardinality(A) <= Cardinality(B) /\ Cardinality(B) # Cardinality(A)
      BY <2>1, <2>2, FS_Subset
    <2>4. Cardinality(A) < Cardinality(B)
      BY <2>2, <2>3
    <2> QED
      BY <2>4 DEF A, B
  <1>3. rank \in [S -> T]
    BY <1>n, <1>1
  <1>4. \A r, s \in S : rank[r] = rank[s] => r = s
    <2> SUFFICES ASSUME NEW r \in S, NEW s \in S, r # s PROVE rank[r] # rank[s]
      OBVIOUS
    <2>1. r < s \/ s < r
      OBVIOUS
    <2>2. rank[r] = Cardinality(Below(S, r)) /\ rank[s] = Cardinality(Below(S, s))
          /\ rank[r] \in Nat /\ rank[s] \in Nat
      BY <1>1
    <2> HIDE DEF rank
    <2>3. rank[r] < rank[s] \/ rank[s] < rank[r]
      BY <1>2, <2>1, <2>2
    <2> QED
      BY <2>2, <2>3
  <1>5. IsFiniteSet(T) /\ Cardinality(T) = Cardinality(S)
    BY <1>n, CountUp
  <1> HIDE DEF rank, T
  <1>6. rank \in Injection(S, T)
    BY <1>3, <1>4, Fun_IsInj
  <1>7. rank \in Surjection(S, T)
    BY <1>5, <1>6, FS_Injection
  <1> QED
    BY <1>6, <1>7, Fun_IsBij DEF rank, T

\* As many of a set as there are, or as are asked for.
LEMMA LowRanks ==
  ASSUME NEW S \in SUBSET Nat, IsFiniteSet(S), NEW k \in Nat
  PROVE  LET low == {s \in S : Cardinality(Below(S, s)) < k}
         IN /\ IsFiniteSet(low)
            /\ Cardinality(low) = IF k <= Cardinality(S) THEN k ELSE Cardinality(S)
  <1> DEFINE rank == [s \in S |-> Cardinality(Below(S, s))]
             low == {s \in S : Cardinality(Below(S, s)) < k}
             n == IF k <= Cardinality(S) THEN k ELSE Cardinality(S)
             part == [s \in low |-> Cardinality(Below(S, s))]
  <1>n. Cardinality(S) \in Nat /\ n \in Nat
    BY FS_CardinalityType
  <1>1. rank \in Bijection(S, 0..(Cardinality(S) - 1))
    BY RanksCount
  <1> HIDE DEF n
  <1>2. /\ \A s \in S : rank[s] = Cardinality(Below(S, s)) /\ rank[s] \in 0..(Cardinality(S) - 1)
        /\ \A r, s \in S : rank[r] = rank[s] => r = s
        /\ \A t \in 0..(Cardinality(S) - 1) : \E s \in S : rank[s] = t
    <2>2. \A s \in S : rank[s] = Cardinality(Below(S, s))
      OBVIOUS
    <2> HIDE DEF rank
    <2> DEFINE T == 0..(Cardinality(S) - 1)
    <2>a. rank \in Bijection(S, T)
      BY <1>1
    <2> HIDE DEF T
    <2>1. rank \in [S -> T] /\ \A r, s \in S : rank[r] = rank[s] => r = s
      BY <2>a DEF Bijection, Injection, IsInjective
    <2>3. \A t \in T : \E s \in S : rank[s] = t
      BY <2>a DEF Bijection, Surjection
    <2> USE DEF T
    <2> QED
      BY <2>1, <2>2, <2>3
  <1>3. low = {s \in S : rank[s] < k}
    BY <1>2
  <1>4. part \in [low -> 0..(n - 1)] /\ \A s \in low : part[s] = rank[s]
    <2>1. \A s \in low : Cardinality(Below(S, s)) = rank[s] /\ rank[s] \in 0..(Cardinality(S) - 1) /\ rank[s] < k
      BY <1>2, <1>3
    <2> HIDE DEF rank, low
    <2>2. \A s \in low : part[s] = rank[s]
      BY <2>1
    <2>3. \A s \in low : rank[s] \in 0..(n - 1)
      BY <1>n, <2>1 DEF n
    <2>4. part = [s \in low |-> part[s]]
      OBVIOUS
    <2> HIDE DEF part
    <2> QED
      BY <2>2, <2>3, <2>4
  <1> HIDE DEF rank, low, part
  <1>5. \A r, s \in low : part[r] = part[s] => r = s
    BY <1>2, <1>3, <1>4
  <1>6. \A t \in 0..(n - 1) : \E s \in low : part[s] = t
    <2> SUFFICES ASSUME NEW t \in 0..(n - 1) PROVE \E s \in low : part[s] = t
      OBVIOUS
    <2>1. t \in 0..(Cardinality(S) - 1) /\ t < k
      BY <1>n DEF n
    <2>2. PICK s \in S : rank[s] = t
      BY <1>2, <2>1
    <2> QED
      BY <1>3, <1>4, <2>1, <2>2
  <1>7. part \in Bijection(low, 0..(n - 1))
    BY <1>4, <1>5, <1>6, Fun_IsBij
  <1>8. low \in SUBSET S
    BY <1>3
  <1>9. IsFiniteSet(low)
    BY <1>8, FS_Subset
  <1>10. ExistsBijection(low, 0..(n - 1))
    BY <1>7 DEF ExistsBijection
  <1>11. Cardinality(low) = Cardinality(0..(n - 1))
    BY <1>9, <1>10, FS_Bijection
  <1>12. Cardinality(0..(n - 1)) = n
    BY <1>n, CountUp
  <1> QED
    BY <1>9, <1>11, <1>12 DEF low, n

-----------------------------------------------------------------------------
\* Copies of many counts, and what one more or less does to the sum.
Heap(f) == UNION {{p} \X (1..f[p]) : p \in Players}

\* What all but one player count for.
LEMMA HeapRest ==
  ASSUME NEW f, \A p \in Players : f[p] \in Nat
  PROVE  /\ IsFiniteSet(Heap(f)) /\ Cardinality(Heap(f)) \in Nat
         /\ \A p \in Players : f[p] <= Cardinality(Heap(f))
         /\ \A p \in Players : Cardinality({t \in Heap(f) : t[1] # p}) = Cardinality(Heap(f)) - f[p]
  <1>1. \A p \in Players : IsFiniteSet({p} \X (1..f[p])) /\ Cardinality({p} \X (1..f[p])) = f[p]
    <2> SUFFICES ASSUME NEW p \in Players
                 PROVE  IsFiniteSet({p} \X (1..f[p])) /\ Cardinality({p} \X (1..f[p])) = f[p]
      OBVIOUS
    <2> DEFINE I == 1..f[p]  P == {p}
    <2>0. f[p] \in Nat
      OBVIOUS
    <2>1. IsFiniteSet(I) /\ Cardinality(I) = f[p]
      BY <2>0, CountUp
    <2>2. IsFiniteSet(P) /\ Cardinality(P) = 1
      BY FS_Singleton
    <2> HIDE DEF I, P
    <2>3. IsFiniteSet(P \X I) /\ Cardinality(P \X I) = Cardinality(P) * Cardinality(I)
      BY <2>1, <2>2, FS_Product
    <2>4. Cardinality(P \X I) = f[p]
      BY <2>0, <2>1, <2>2, <2>3
    <2> QED
      BY <2>3, <2>4 DEF I, P
  <1>2. IsFiniteSet({{p} \X (1..f[p]) : p \in Players})
    <2> DEFINE F == [p \in Players |-> {p} \X (1..f[p])]
               All == {{p} \X (1..f[p]) : p \in Players}
    <2>1. F \in [Players -> All] /\ \A t \in All : \E p \in Players : F[p] = t
      OBVIOUS
    <2> HIDE DEF F, All
    <2>2. F \in Surjection(Players, All)
      BY <2>1, Fun_IsSurj
    <2>3. IsFiniteSet(All)
      BY <2>2, LoadoutAssumption, FS_Surjection
    <2> QED
      BY <2>3 DEF All
  <1>3. IsFiniteSet(Heap(f))
    BY <1>1, <1>2, FS_UNION DEF Heap
  <1>4. Cardinality(Heap(f)) \in Nat
    BY <1>3, FS_CardinalityType
  <1>5. ASSUME NEW p \in Players
        PROVE  /\ f[p] <= Cardinality(Heap(f))
               /\ Cardinality({t \in Heap(f) : t[1] # p}) = Cardinality(Heap(f)) - f[p]
    <2> DEFINE mine == {p} \X (1..f[p])  rest == {t \in Heap(f) : t[1] # p}
    <2>1. Heap(f) \cap mine = mine /\ Heap(f) \ mine = rest
      BY DEF Heap
    <2>2. Cardinality(mine) = f[p] /\ IsFiniteSet(mine)
      BY <1>1
    <2>3. mine \in SUBSET Heap(f)
      BY <2>1
    <2> HIDE DEF mine, rest
    <2>4. Cardinality(mine) <= Cardinality(Heap(f))
      BY <1>3, <2>3, FS_Subset
    <2>5. Cardinality(Heap(f) \ mine) = Cardinality(Heap(f)) - Cardinality(Heap(f) \cap mine)
      BY <1>3, FS_Difference
    <2>6. /\ f[p] <= Cardinality(Heap(f))
          /\ Cardinality(rest) = Cardinality(Heap(f)) - f[p]
      BY <2>1, <2>2, <2>4, <2>5
    <2> QED
      BY <2>6 DEF rest
  <1> QED
    BY <1>3, <1>4, <1>5

\* Only one player counts differently.
LEMMA HeapChange ==
  ASSUME NEW f, NEW g, NEW p \in Players, \A q \in Players : f[q] \in Nat /\ g[q] \in Nat,
         \A q \in Players \ {p} : f[q] = g[q]
  PROVE  Cardinality(Heap(g)) = Cardinality(Heap(f)) - f[p] + g[p]
  <1> DEFINE fs == {t \in Heap(f) : t[1] # p}  gs == {t \in Heap(g) : t[1] # p}
  <1>1. gs = fs
    <2>1. ASSUME NEW x, NEW y, \A q \in Players \ {p} : x[q] = y[q], NEW t \in Heap(x), t[1] # p PROVE t \in Heap(y)
      <3>1. PICK q \in Players : t \in {q} \X (1..x[q])
        BY <2>1 DEF Heap
      <3>2. q # p
        BY <2>1, <3>1
      <3>3. x[q] = y[q]
        BY <2>1, <3>2
      <3>4. t \in {q} \X (1..y[q])
        BY <3>1, <3>3
      <3> QED
        BY <3>4 DEF Heap
    <2>2. \A t \in Heap(g) : t[1] # p => t \in Heap(f)
      BY <2>1
    <2>3. \A t \in Heap(f) : t[1] # p => t \in Heap(g)
      BY <2>1
    <2> QED
      BY <2>2, <2>3
  <1>2. /\ Cardinality(gs) = Cardinality(Heap(g)) - g[p]
        /\ Cardinality(fs) = Cardinality(Heap(f)) - f[p]
        /\ Cardinality(Heap(g)) \in Nat /\ Cardinality(Heap(f)) \in Nat /\ f[p] \in Nat /\ g[p] \in Nat
    BY HeapRest
  <1> HIDE DEF fs, gs
  <1> QED
    BY <1>1, <1>2

\* One if they are the same.
Same(x, y) == IF x = y THEN 1 ELSE 0

\* Slots are finitely many numbers.
LEMMA SlotsAreNumbers == Slots \in SUBSET Nat /\ IsFiniteSet(Slots) /\ DealtSlots \in Nat
  <1>1. MaxSlots \in Nat /\ DealtSlots \in Nat
    BY LoadoutAssumption DEF DealtSlots
  <1>2. Highest(MaxSlots, DealtSlots) \in Nat
    BY <1>1 DEF Highest
  <1> QED
    BY <1>1, <1>2, CountUp DEF Slots

\* The primary slots that hold a petal are finitely many.
LEMMA Heldfacts ==
  ASSUME NEW acc, NEW petal
  PROVE  /\ Held(acc, petal) \in SUBSET Nat /\ Held(acc, petal) \in SUBSET Slots
         /\ IsFiniteSet(Held(acc, petal)) /\ Cardinality(Held(acc, petal)) \in Nat
  <1>1. Held(acc, petal) \in SUBSET Slots
    BY DEF Held
  <1>2. IsFiniteSet(Held(acc, petal))
    BY <1>1, SlotsAreNumbers, FS_Subset
  <1> QED
    BY <1>1, <1>2, SlotsAreNumbers, FS_CardinalityType

\* What an account is made of.
LEMMA AccountFacts ==
  ASSUME NEW acc \in Account
  PROVE  /\ acc.bag \in [Petal -> 0..MaxStack] /\ acc.primary \in [Slots -> Petal \cup {Empty}]
         /\ acc.secondary \in Petal \cup {Empty} /\ acc.talentSlots \in FirstSlots..MaxSlots
         /\ \A petal \in Petal : acc.bag[petal] \in Nat /\ Holds(acc, petal) \in Nat
                                 /\ acc.bag[petal] <= Holds(acc, petal)
         /\ MaxStack \in Nat \ {0} /\ acc # Empty
  <1>1. /\ acc.bag \in [Petal -> 0..MaxStack] /\ acc.primary \in [Slots -> Petal \cup {Empty}]
        /\ acc.secondary \in Petal \cup {Empty} /\ acc.talentSlots \in FirstSlots..MaxSlots
        /\ MaxStack \in Nat \ {0} /\ acc # Empty
    BY LoadoutAssumption DEF Account
  <1>2. ASSUME NEW petal \in Petal
        PROVE  acc.bag[petal] \in Nat /\ Holds(acc, petal) \in Nat /\ acc.bag[petal] <= Holds(acc, petal)
    <2>1. acc.bag[petal] \in Nat
      BY <1>1
    <2>2. Cardinality(Held(acc, petal)) \in Nat
      BY Heldfacts
    <2>3. InSecondary(acc, petal) \in Nat
      BY DEF InSecondary
    <2> QED
      BY <2>1, <2>2, <2>3 DEF Holds
  <1> QED
    BY <1>1, <1>2

\* What a change of one primary slot does to the slots that hold a petal.
LEMMA HeldChange ==
  ASSUME NEW a \in Account, NEW b, NEW s \in Slots, NEW x, NEW petal,
         b.primary = [a.primary EXCEPT ![s] = x]
  PROVE  Cardinality(Held(b, petal)) =
           Cardinality(Held(a, petal)) - Same(a.primary[s], petal) + Same(x, petal)
  <1> DEFINE H == Held(a, petal)  K == Held(b, petal)  R == H \ {s}
  <1>0. IsFiniteSet(H) /\ Cardinality(H) \in Nat
    BY Heldfacts
  <1>1. IsFiniteSet(H) /\ Cardinality(H) \in Nat /\ (s \in H <=> a.primary[s] = petal)
    BY <1>0 DEF Held
  <1>2. K = IF x = petal THEN R \cup {s} ELSE R
    <2>1. a.primary \in [Slots -> Petal \cup {Empty}]
      BY AccountFacts
    <2> QED
      BY <2>1 DEF Held
  <1> HIDE DEF H, K
  <1>3. IsFiniteSet(R) /\ Cardinality(R) = IF s \in H THEN Cardinality(H) - 1 ELSE Cardinality(H)
    BY <1>1, FS_RemoveElement
  <1>4. s \notin R
    OBVIOUS
  <1> HIDE DEF R
  <1>5. Cardinality(R \cup {s}) = Cardinality(R) + 1
    BY <1>3, <1>4, FS_AddElement
  <1>6. Cardinality(K) = Cardinality(H) - Same(a.primary[s], petal) + Same(x, petal)
    BY <1>1, <1>2, <1>3, <1>5 DEF Same
  <1> QED
    BY <1>6 DEF H, K

\* Adding to the bag, what fits.
LEMMA AddHolds ==
  ASSUME NEW acc \in Account, NEW k \in Petal, NEW n \in Nat
  PROVE  /\ Add(acc, k, n) \in Account
         /\ Add(acc, k, n).primary = acc.primary /\ Add(acc, k, n).secondary = acc.secondary
         /\ Add(acc, k, n).talentSlots = acc.talentSlots
         /\ \A q \in Petal : q # k => Add(acc, k, n).bag[q] = acc.bag[q]
         /\ acc.bag[k] + n <= MaxStack =>
              /\ Add(acc, k, n).bag[k] = acc.bag[k] + n
              /\ \A q \in Petal : Holds(Add(acc, k, n), q) = Holds(acc, q) + (IF q = k THEN n ELSE 0)
  <1> DEFINE bag == [acc.bag EXCEPT ![k] = Lowest(@ + n, MaxStack)]
             new == Add(acc, k, n)
  <1>0. acc.bag \in [Petal -> 0..MaxStack] /\ MaxStack \in Nat /\ acc.bag[k] \in Nat
    BY AccountFacts
  <1>1. new = [acc EXCEPT !.bag = bag]
    BY DEF Add
  <1>2. bag \in [Petal -> 0..MaxStack]
    <2>1. Lowest(acc.bag[k] + n, MaxStack) \in 0..MaxStack
      BY <1>0 DEF Lowest
    <2> QED
      BY <1>0, <2>1
  <1>3. /\ bag[k] = Lowest(acc.bag[k] + n, MaxStack)
        /\ \A q \in Petal : q # k => bag[q] = acc.bag[q]
    BY <1>0
  <1> HIDE DEF bag, new
  <1>4. /\ new \in Account /\ new.primary = acc.primary /\ new.secondary = acc.secondary
        /\ new.talentSlots = acc.talentSlots /\ new.bag = bag
    BY <1>1, <1>2 DEF Account
  <1>5. ASSUME acc.bag[k] + n <= MaxStack
        PROVE  /\ new.bag[k] = acc.bag[k] + n
               /\ \A q \in Petal : Holds(new, q) = Holds(acc, q) + (IF q = k THEN n ELSE 0)
    <2>1. bag[k] = acc.bag[k] + n
      BY <1>0, <1>3, <1>5 DEF Lowest
    <2>2. ASSUME NEW q \in Petal PROVE Holds(new, q) = Holds(acc, q) + (IF q = k THEN n ELSE 0)
      <3>1. Held(new, q) = Held(acc, q) /\ InSecondary(new, q) = InSecondary(acc, q)
        BY <1>4 DEF Held, InSecondary
      <3>2. /\ Cardinality(Held(acc, q)) \in Nat /\ InSecondary(acc, q) \in Nat /\ acc.bag[q] \in Nat
            /\ new.bag[q] = acc.bag[q] + (IF q = k THEN n ELSE 0)
        BY <1>3, <1>4, <2>1, Heldfacts, AccountFacts DEF InSecondary
      <3> QED
        BY <3>1, <3>2 DEF Holds
    <2> QED
      BY <1>4, <2>1, <2>2
  <1> QED
    BY <1>3, <1>4, <1>5 DEF new

\* Taking from the bag, what is there.
LEMMA TakeHolds ==
  ASSUME NEW acc \in Account, NEW k \in Petal, acc.bag[k] > 0
  PROVE  /\ Take(acc, k, 1) \in Account
         /\ Take(acc, k, 1).primary = acc.primary /\ Take(acc, k, 1).secondary = acc.secondary
         /\ \A q \in Petal : Take(acc, k, 1).bag[q] = acc.bag[q] - Same(q, k)
         /\ \A q \in Petal : Holds(Take(acc, k, 1), q) = Holds(acc, q) - Same(q, k)
  <1> DEFINE bag == [acc.bag EXCEPT ![k] = @ - 1]
             new == Take(acc, k, 1)
  <1>0. acc.bag \in [Petal -> 0..MaxStack] /\ MaxStack \in Nat /\ acc.bag[k] \in Nat
    BY AccountFacts
  <1>1. new = [acc EXCEPT !.bag = bag]
    BY DEF Take
  <1>2. bag \in [Petal -> 0..MaxStack] /\ \A q \in Petal : bag[q] = acc.bag[q] - Same(q, k)
    <2>1. acc.bag[k] - 1 \in 0..MaxStack
      BY <1>0
    <2>2. \A q \in Petal : acc.bag[q] \in Nat
      BY <1>0
    <2> QED
      BY <1>0, <2>1, <2>2 DEF Same
  <1> HIDE DEF bag, new
  <1>4. /\ new \in Account /\ new.primary = acc.primary /\ new.secondary = acc.secondary /\ new.bag = bag
    BY <1>1, <1>2 DEF Account
  <1>5. ASSUME NEW q \in Petal PROVE Holds(new, q) = Holds(acc, q) - Same(q, k)
    <2>1. Held(new, q) = Held(acc, q) /\ InSecondary(new, q) = InSecondary(acc, q)
      BY <1>4 DEF Held, InSecondary
    <2>2. /\ Cardinality(Held(acc, q)) \in Nat /\ InSecondary(acc, q) \in Nat /\ acc.bag[q] \in Nat
          /\ new.bag[q] = acc.bag[q] - Same(q, k) /\ Same(q, k) \in Nat
      BY <1>2, <1>4, Heldfacts, AccountFacts DEF InSecondary, Same
    <2> QED
      BY <2>1, <2>2 DEF Holds
  <1> QED
    BY <1>2, <1>4, <1>5 DEF new

\* Another petal, or none, in a primary slot or the secondary one.
LEMMA PrimaryHolds ==
  ASSUME NEW acc \in Account, NEW s \in Slots, NEW x \in Petal \cup {Empty}
  PROVE  LET new == [acc EXCEPT !.primary[s] = x]
         IN /\ new \in Account /\ new.primary = [acc.primary EXCEPT ![s] = x]
            /\ new.bag = acc.bag /\ new.secondary = acc.secondary
            /\ \A q \in Petal : Holds(new, q) = Holds(acc, q) - Same(acc.primary[s], q) + Same(x, q)
  <1> DEFINE new == [acc EXCEPT !.primary[s] = x]
             primary == [acc.primary EXCEPT ![s] = x]
  <1>1. new = [acc EXCEPT !.primary = primary]
    OBVIOUS
  <1>2. primary \in [Slots -> Petal \cup {Empty}]
    BY AccountFacts
  <1> HIDE DEF new
  <1>4. new \in Account /\ new.primary = primary /\ new.bag = acc.bag /\ new.secondary = acc.secondary
    <2> HIDE DEF primary
    <2> QED
      BY <1>1, <1>2 DEF Account
  <1>6. new \in Account /\ new.primary = [acc.primary EXCEPT ![s] = x] /\ new.bag = acc.bag /\ new.secondary = acc.secondary
    BY <1>4
  <1> HIDE DEF primary
  <1>5. ASSUME NEW q \in Petal PROVE Holds(new, q) = Holds(acc, q) - Same(acc.primary[s], q) + Same(x, q)
    <2>1. Cardinality(Held(new, q)) = Cardinality(Held(acc, q)) - Same(acc.primary[s], q) + Same(x, q)
      BY <1>6, HeldChange
    <2>2. /\ Cardinality(Held(acc, q)) \in Nat /\ InSecondary(acc, q) \in Nat /\ acc.bag[q] \in Nat
          /\ InSecondary(new, q) = InSecondary(acc, q)
          /\ Same(acc.primary[s], q) \in Nat /\ Same(x, q) \in Nat
      BY <1>6, Heldfacts, AccountFacts DEF InSecondary, Same
    <2> QED
      BY <1>6, <2>1, <2>2 DEF Holds
  <1> QED
    BY <1>6, <1>5 DEF new

\* What an account holds once its secondary slot has another petal.
LEMMA SecondaryHolds ==
  ASSUME NEW acc \in Account, NEW x \in Petal \cup {Empty}
  PROVE  LET new == [acc EXCEPT !.secondary = x]
         IN /\ new \in Account /\ new.primary = acc.primary /\ new.bag = acc.bag
            /\ \A q \in Petal : Holds(new, q) = Holds(acc, q) - Same(acc.secondary, q) + Same(x, q)
  <1> DEFINE new == [acc EXCEPT !.secondary = x]
  <1>4. new \in Account /\ new.primary = acc.primary /\ new.bag = acc.bag /\ new.secondary = x
    BY DEF Account
  <1> HIDE DEF new
  <1>5. ASSUME NEW q \in Petal PROVE Holds(new, q) = Holds(acc, q) - Same(acc.secondary, q) + Same(x, q)
    <2>1. Held(new, q) = Held(acc, q)
      BY <1>4 DEF Held
    <2>2. Cardinality(Held(acc, q)) \in Nat /\ acc.bag[q] \in Nat
      BY Heldfacts, AccountFacts
    <2>3. /\ Holds(new, q) = acc.bag[q] + Cardinality(Held(acc, q)) + Same(x, q)
          /\ Holds(acc, q) = acc.bag[q] + Cardinality(Held(acc, q)) + Same(acc.secondary, q)
      BY <1>4, <2>1 DEF Holds, InSecondary, Same
    <2> QED
      BY <2>2, <2>3 DEF Same
  <1> QED
    BY <1>4, <1>5 DEF new

\* What an account holds once n petals of a kind are taken: exactly n fewer.
LEMMA TakeStoredHolds ==
  ASSUME NEW acc \in Account, NEW petal \in Petal, NEW n \in Nat
  PROVE  LET new == TakeStored(acc, petal, n)
         IN /\ new \in Account
            /\ \A s \in Slots : new.primary[s] = IF s \in Cleared(acc, petal, n) THEN Empty ELSE acc.primary[s]
            /\ \A q \in Petal : new.bag[q] <= acc.bag[q]
            /\ \A q \in Petal : q # petal => Holds(new, q) = Holds(acc, q) /\ new.bag[q] = acc.bag[q]
            /\ n <= Holds(acc, petal) => Holds(new, petal) = Holds(acc, petal) - n
  <1> DEFINE new == TakeStored(acc, petal, n)
             cleared == Cleared(acc, petal, n)
             bag == [acc.bag EXCEPT ![petal] = @ - Lowest(@, n)]
             primary == [s \in Slots |-> IF s \in cleared THEN Empty ELSE acc.primary[s]]
             also == acc.secondary = petal /\ acc.bag[petal] + Cardinality(Held(acc, petal)) < n
             secondary == IF also THEN Empty ELSE acc.secondary
             H == Held(acc, petal)
  <1>0. /\ acc.bag \in [Petal -> 0..MaxStack] /\ acc.primary \in [Slots -> Petal \cup {Empty}]
        /\ acc.secondary \in Petal \cup {Empty} /\ MaxStack \in Nat /\ acc.bag[petal] \in Nat
    BY AccountFacts
  <1>1. new = [acc EXCEPT !.bag = bag, !.primary = primary, !.secondary = secondary]
    BY <1>0 DEF TakeStored
  <1>2. bag \in [Petal -> 0..MaxStack] /\ bag[petal] = acc.bag[petal] - Lowest(acc.bag[petal], n)
        /\ \A q \in Petal : q # petal => bag[q] = acc.bag[q]
    <2>1. acc.bag[petal] - Lowest(acc.bag[petal], n) \in 0..MaxStack
      BY <1>0 DEF Lowest
    <2> QED
      BY <1>0, <2>1
  <1>3. primary \in [Slots -> Petal \cup {Empty}] /\ secondary \in Petal \cup {Empty}
        /\ \A s \in Slots : primary[s] = IF s \in cleared THEN Empty ELSE acc.primary[s]
    BY <1>0
  <1> HIDE DEF bag, primary, secondary, new
  <1>4. new \in Account /\ new.bag = bag /\ new.primary = primary /\ new.secondary = secondary
    BY <1>1, <1>2, <1>3 DEF Account
  <1>e. Empty \notin Petal
    BY LoadoutAssumption
  <1>c. cleared \in SUBSET H
    BY DEF Cleared
  <1>5. Held(new, petal) = H \ cleared /\ \A q \in Petal : q # petal => Held(new, q) = Held(acc, q)
    <2>1. \A s \in cleared : acc.primary[s] = petal
      BY <1>c DEF Held
    <2> HIDE DEF cleared
    <2> QED
      BY <1>3, <1>4, <1>e, <2>1 DEF Held
  <1>6. ASSUME NEW q \in Petal, q # petal
        PROVE  Holds(new, q) = Holds(acc, q) /\ new.bag[q] = acc.bag[q]
    <2>1. InSecondary(new, q) = InSecondary(acc, q)
      BY <1>4, <1>6, <1>e DEF InSecondary, secondary
    <2> QED
      BY <1>2, <1>4, <1>5, <1>6, <2>1 DEF Holds
  <1>b. \A q \in Petal : new.bag[q] <= acc.bag[q]
    <2>1. bag[petal] <= acc.bag[petal]
      BY <1>0, <1>2 DEF Lowest
    <2>2. \A q \in Petal : acc.bag[q] \in Nat
      BY <1>0
    <2> QED
      BY <1>2, <1>4, <2>1, <2>2
  <1>7. ASSUME n <= Holds(acc, petal) PROVE Holds(new, petal) = Holds(acc, petal) - n
    <2> DEFINE B == acc.bag[petal]  C == Cardinality(H)  k == IF B < n THEN n - B ELSE 0
    <2>1. H \in SUBSET Nat /\ IsFiniteSet(H) /\ C \in Nat /\ B \in Nat /\ k \in Nat
      BY <1>0, Heldfacts
    <2>2. cleared = {s \in H : Cardinality(Below(H, s)) < k}
      <3>1. \A s \in H : Cardinality(Below(H, s)) \in Nat
        <4>1. \A s \in H : Below(H, s) \in SUBSET H
          BY DEF Below
        <4>2. \A s \in H : IsFiniteSet(Below(H, s))
          BY <2>1, <4>1, FS_Subset
        <4> QED
          BY <4>2, FS_CardinalityType
      <3>2. cleared = {s \in H : B + Cardinality(Below(H, s)) < n}
        BY DEF Cleared, Below
      <3> HIDE DEF H
      <3>3. \A s \in H : B + Cardinality(Below(H, s)) < n <=> Cardinality(Below(H, s)) < k
        BY <2>1, <3>1
      <3> QED
        BY <3>2, <3>3
    <2> DEFINE c == IF k <= C THEN k ELSE C
    <2>3. Cardinality(cleared) = c
      <3> DEFINE low == {s \in H : Cardinality(Below(H, s)) < k}
      <3>0. cleared = low
        BY <2>2
      <3> HIDE DEF H, k, cleared
      <3>1. Cardinality(low) = IF k <= Cardinality(H) THEN k ELSE Cardinality(H)
        BY <2>1, LowRanks
      <3> QED
        BY <3>0, <3>1
    <2>4. Cardinality(H \ cleared) = C - c
      <3>1. H \cap cleared = cleared
        BY <1>c
      <3> HIDE DEF H, cleared, c
      <3> QED
        BY <2>1, <2>3, <3>1, FS_Difference
    <2>5. /\ Holds(new, petal) = (B - Lowest(B, n)) + (C - c) + (IF secondary = petal THEN 1 ELSE 0)
          /\ Holds(acc, petal) = B + C + (IF acc.secondary = petal THEN 1 ELSE 0)
      BY <1>2, <1>4, <1>5, <2>4 DEF Holds, InSecondary
    <2>6. secondary = petal <=> acc.secondary = petal /\ ~(B + C < n)
      BY <1>e DEF secondary
    <2> HIDE DEF B, C, H, cleared
    <2>7. CASE acc.secondary = petal
      BY <1>7, <2>1, <2>5, <2>6, <2>7 DEF Lowest
    <2>8. CASE acc.secondary # petal
      BY <1>7, <2>1, <2>5, <2>6, <2>8 DEF Lowest
    <2> QED
      BY <2>7, <2>8
  <1> HIDE DEF cleared
  <1>8. /\ new \in Account
        /\ \A s \in Slots : new.primary[s] = IF s \in cleared THEN Empty ELSE acc.primary[s]
    BY <1>3, <1>4
  <1> QED
    BY <1>6, <1>7, <1>8, <1>b DEF new, cleared

-----------------------------------------------------------------------------
(* The slots of a flower.                                                    *)
SlotType == [Slots -> Slot]

\* Of one type that does not stack, one petal works.
OneWorksIn(slots) ==
  \A s, r \in Slots :
    /\ s # r /\ slots[s].petal # Empty /\ slots[r].petal # Empty
    /\ slots[s].petal.type = slots[r].petal.type /\ slots[s].petal.type \notin Stacking
    => ~(slots[s].available /\ slots[r].available)

\* Exclusive keeps the petals, and sees to the types it is called for.
LEMMA ExclusiveKeeps ==
  ASSUME NEW slots \in SlotType, NEW types
  PROVE  LET new == Exclusive(slots, types)
         IN /\ new \in SlotType
            /\ \A s \in Slots : /\ new[s].petal = slots[s].petal
                                /\ slots[s].petal = Empty => new[s] = slots[s]
                                /\ slots[s].petal # Empty /\ slots[s].petal.type \notin types \ Stacking => new[s] = slots[s]
                                /\ slots[s].petal # Empty /\ slots[s].petal.type \in types \ Stacking
                                     => new[s].available = Chosen(slots, s)
  <1> DEFINE new == Exclusive(slots, types)
             touched(s) == slots[s].petal # Empty /\ slots[s].petal.type \in types \ Stacking
  <1>1. ASSUME NEW s \in Slots
        PROVE  /\ new[s] = IF touched(s) THEN [slots[s] EXCEPT !.available = Chosen(slots, s)] ELSE slots[s]
               /\ slots[s] \in Slot
    BY DEF Exclusive, SlotType
  <1>2. new = [s \in Slots |-> new[s]]
    BY DEF Exclusive
  <1>c. \A s \in Slots : Chosen(slots, s) \in BOOLEAN
    BY DEF Chosen
  <1> HIDE DEF new, touched
  <1>3. ASSUME NEW s \in Slots
        PROVE  /\ new[s] \in Slot /\ new[s].petal = slots[s].petal
               /\ touched(s) => new[s].available = Chosen(slots, s)
               /\ ~touched(s) => new[s] = slots[s]
    <2> DEFINE e == slots[s]  c == Chosen(slots, s)
    <2>1. e \in Slot /\ c \in BOOLEAN
      BY <1>1, <1>c
    <2>2. new[s] = IF touched(s) THEN [e EXCEPT !.available = c] ELSE e
      BY <1>1
    <2> HIDE DEF e, c
    <2>3. /\ new[s] \in Slot /\ new[s].petal = e.petal
          /\ touched(s) => new[s].available = c
          /\ ~touched(s) => new[s] = e
      BY <2>1, <2>2 DEF Slot
    <2> QED
      BY <2>3 DEF e, c
  <1>4. new \in SlotType
    BY <1>2, <1>3 DEF SlotType
  <1> QED
    BY <1>3, <1>4 DEF new, touched

\* Of a type that was looked at, one petal works at most.
LEMMA ExclusiveIsOne ==
  ASSUME NEW slots \in SlotType, NEW types,
         \A s, r \in Slots :
           /\ s # r /\ slots[s].petal # Empty /\ slots[r].petal # Empty
           /\ slots[s].petal.type = slots[r].petal.type /\ slots[s].petal.type \notin Stacking \cup types
           => ~(slots[s].available /\ slots[r].available)
  PROVE  OneWorksIn(Exclusive(slots, types))
  <1> DEFINE new == Exclusive(slots, types)
  <1>1. /\ new \in SlotType
        /\ \A s \in Slots : /\ new[s].petal = slots[s].petal
                            /\ slots[s].petal # Empty /\ slots[s].petal.type \notin types \ Stacking => new[s] = slots[s]
                            /\ slots[s].petal # Empty /\ slots[s].petal.type \in types \ Stacking
                                 => new[s].available = Chosen(slots, s)
    BY ExclusiveKeeps
  <1> HIDE DEF new
  <1> SUFFICES ASSUME NEW s \in Slots, NEW r \in Slots, s # r, slots[s].petal # Empty, slots[r].petal # Empty,
                      slots[s].petal.type = slots[r].petal.type, slots[s].petal.type \notin Stacking,
                      new[s].available, new[r].available
               PROVE  FALSE
    BY <1>1 DEF OneWorksIn, new
  <1>2. CASE slots[s].petal.type \in types
    <2>1. Chosen(slots, s) /\ Chosen(slots, r)
      BY <1>1, <1>2
    <2>2. slots[s].petal.rank \in Nat /\ slots[r].petal.rank \in Nat
      BY DEF SlotType, Slot, Petal, Dealt, Ultra, Super, Unique
    <2>3. /\ slots[r].petal.rank < slots[s].petal.rank \/ (slots[r].petal.rank = slots[s].petal.rank /\ s <= r)
          /\ slots[s].petal.rank < slots[r].petal.rank \/ (slots[s].petal.rank = slots[r].petal.rank /\ r <= s)
      BY <2>1 DEF Chosen
    <2>4. s <= r /\ r <= s
      BY <2>2, <2>3
    <2> QED
      BY <2>4, SlotsAreNumbers
  <1>3. CASE slots[s].petal.type \notin types
    BY <1>1, <1>3
  <1> QED
    BY <1>2, <1>3

\* A bare slot shows no petal.
LEMMA BareIsSlot == Bare \in Slot /\ Bare.petal = Empty /\ Empty \notin Petal
  BY LoadoutAssumption DEF Bare, Slot

\* The slots of a flower once some are emptied, once its saved petals are shown,
\* once one is equipped, and once there are fewer.
LEMMA ForceUnequipKeeps ==
  ASSUME NEW slots \in SlotType, OneWorksIn(slots), NEW ss
  PROVE  LET new == ForceUnequip(slots, ss)
         IN /\ new \in SlotType /\ OneWorksIn(new)
            /\ \A s \in Slots : /\ new[s].petal = IF s \in ss THEN Empty ELSE slots[s].petal
                                /\ slots[s] = Bare => new[s] = Bare
  <1> DEFINE off(s) == s \in ss /\ slots[s].petal # Empty
             mid == [s \in Slots |-> IF off(s) THEN [slots[s] EXCEPT !.petal = Empty, !.available = TRUE] ELSE slots[s]]
             types == {slots[s].petal.type : s \in {r \in ss : slots[r].petal # Empty}}
             new == Exclusive(mid, types)
  <1>1. ASSUME NEW s \in Slots
        PROVE  /\ mid[s] \in Slot /\ mid[s].petal = (IF s \in ss THEN Empty ELSE slots[s].petal)
               /\ ~off(s) => mid[s] = slots[s]
    <2> DEFINE e == slots[s]
    <2>1. e \in Slot /\ mid[s] = IF off(s) THEN [e EXCEPT !.petal = Empty, !.available = TRUE] ELSE e
      BY DEF SlotType
    <2>2. off(s) <=> s \in ss /\ e.petal # Empty
      OBVIOUS
    <2> HIDE DEF e, mid, off
    <2>3. /\ mid[s] \in Slot /\ mid[s].petal = (IF s \in ss THEN Empty ELSE e.petal)
          /\ ~off(s) => mid[s] = e
      BY <2>1, <2>2 DEF Slot
    <2> QED
      BY <2>3 DEF e
  <1>2. mid \in SlotType
    <2>1. mid = [s \in Slots |-> mid[s]]
      OBVIOUS
    <2> HIDE DEF mid
    <2> QED
      BY <1>1, <2>1 DEF SlotType
  <1>3. ForceUnequip(slots, ss) = new
    BY DEF ForceUnequip
  <1> HIDE DEF mid, off
  <1>4. OneWorksIn(new)
    <2>1. \A s, r \in Slots :
           /\ s # r /\ mid[s].petal # Empty /\ mid[r].petal # Empty
           /\ mid[s].petal.type = mid[r].petal.type /\ mid[s].petal.type \notin Stacking \cup types
           => ~(mid[s].available /\ mid[r].available)
      <3>1. \A s \in Slots : mid[s].petal # Empty => mid[s] = slots[s]
        BY <1>1 DEF off
      <3> QED
        BY <3>1 DEF OneWorksIn
    <2> HIDE DEF types
    <2> QED
      BY <1>2, <2>1, ExclusiveIsOne
  <1>5. new \in SlotType /\ \A s \in Slots : new[s].petal = mid[s].petal /\ (mid[s].petal = Empty => new[s] = mid[s])
    <2> HIDE DEF types
    <2> QED
      BY <1>2, ExclusiveKeeps
  <1> HIDE DEF new
  <1>6. \A s \in Slots : /\ new[s].petal = (IF s \in ss THEN Empty ELSE slots[s].petal)
                         /\ slots[s] = Bare => new[s] = Bare
    BY <1>1, <1>5, BareIsSlot DEF off
  <1> QED
    BY <1>3, <1>4, <1>5, <1>6

LEMMA LoadSavedKeeps ==
  ASSUME NEW acc \in Account, NEW count \in Nat
  PROVE  LET new == LoadSavedSlots(count, acc)
         IN /\ new \in SlotType /\ OneWorksIn(new)
            /\ \A s \in Slots : /\ new[s].petal = IF s < count THEN acc.primary[s] ELSE Empty
                                /\ s >= count => new[s] = Bare
  <1> DEFINE mid == [s \in Slots |-> IF s < count THEN [Bare EXCEPT !.petal = acc.primary[s]] ELSE Bare]
             new == Exclusive(mid, Types)
  <1>0. acc.primary \in [Slots -> Petal \cup {Empty}] /\ Slots \subseteq Nat
    BY AccountFacts, SlotsAreNumbers
  <1>1. ASSUME NEW s \in Slots
        PROVE  /\ mid[s] \in Slot /\ mid[s].petal = IF s < count THEN acc.primary[s] ELSE Empty
               /\ s >= count => mid[s] = Bare
    <2> DEFINE x == acc.primary[s]
    <2>1. x \in Petal \cup {Empty} /\ (s >= count <=> ~(s < count))
      BY <1>0
    <2>2. mid[s] = IF s < count THEN [Bare EXCEPT !.petal = x] ELSE Bare
      OBVIOUS
    <2> HIDE DEF x, mid
    <2>3. [Bare EXCEPT !.petal = x] \in Slot /\ [Bare EXCEPT !.petal = x].petal = x
      BY <2>1 DEF Bare, Slot
    <2> QED
      BY <2>1, <2>2, <2>3, BareIsSlot DEF x
  <1>2. mid \in SlotType
    <2>1. mid = [s \in Slots |-> mid[s]]
      OBVIOUS
    <2> HIDE DEF mid
    <2> QED
      BY <1>1, <2>1 DEF SlotType
  <1>3. LoadSavedSlots(count, acc) = new
    BY DEF LoadSavedSlots
  <1> HIDE DEF mid
  <1>4. OneWorksIn(new)
    <2>1. \A s \in Slots : mid[s].petal # Empty => mid[s].petal.type \in Types
      BY <1>0, <1>1, LoadoutAssumption DEF Petal
    <2> QED
      BY <1>2, <2>1, ExclusiveIsOne
  <1>5. new \in SlotType /\ \A s \in Slots : new[s].petal = mid[s].petal /\ (mid[s].petal = Empty => new[s] = mid[s])
    BY <1>2, ExclusiveKeeps
  <1> HIDE DEF new
  <1>6. \A s \in Slots : /\ new[s].petal = (IF s < count THEN acc.primary[s] ELSE Empty)
                         /\ s >= count => new[s] = Bare
    BY <1>1, <1>5, BareIsSlot
  <1> QED
    BY <1>3, <1>4, <1>5, <1>6

LEMMA EquippedKeeps ==
  ASSUME NEW slots \in SlotType, OneWorksIn(slots), NEW s \in Slots, NEW petal \in Petal
  PROVE  LET new == Equipped(slots, s, petal)
         IN /\ new \in SlotType /\ OneWorksIn(new)
            /\ new[s].petal = petal
            /\ \A r \in Slots \ {s} : /\ new[r].petal = slots[r].petal
                                      /\ slots[r] = Bare => new[r] = Bare
  <1> DEFINE mid == [slots EXCEPT ![s].petal = petal]
             new == Exclusive(mid, {petal.type})
  <1>1. mid \in SlotType /\ mid[s].petal = petal /\ \A r \in Slots \ {s} : mid[r] = slots[r]
    <2> DEFINE e == [slots[s] EXCEPT !.petal = petal]
    <2>0. slots[s] \in Slot /\ slots \in [Slots -> Slot]
      BY DEF SlotType
    <2>1. e \in Slot /\ e.petal = petal
      BY <2>0 DEF Slot
    <2>2. mid = [slots EXCEPT ![s] = e]
      OBVIOUS
    <2> HIDE DEF e, mid
    <2> QED
      BY <2>0, <2>1, <2>2 DEF SlotType
  <1>3. Equipped(slots, s, petal) = new
    BY DEF Equipped
  <1> HIDE DEF mid
  <1>4. OneWorksIn(new)
    <2>1. \A p, r \in Slots :
           /\ p # r /\ mid[p].petal # Empty /\ mid[r].petal # Empty
           /\ mid[p].petal.type = mid[r].petal.type /\ mid[p].petal.type \notin Stacking \cup {petal.type}
           => ~(mid[p].available /\ mid[r].available)
      BY <1>1 DEF OneWorksIn
    <2> QED
      BY <1>1, <2>1, ExclusiveIsOne
  <1>5. new \in SlotType /\ \A r \in Slots : new[r].petal = mid[r].petal /\ (mid[r].petal = Empty => new[r] = mid[r])
    BY <1>1, ExclusiveKeeps
  <1> HIDE DEF new
  <1>6. new[s].petal = petal /\ \A r \in Slots \ {s} : new[r].petal = slots[r].petal /\ (slots[r] = Bare => new[r] = Bare)
    BY <1>1, <1>5, BareIsSlot
  <1> QED
    BY <1>3, <1>4, <1>5, <1>6

LEMMA TrimmedKeeps ==
  ASSUME NEW slots \in SlotType, OneWorksIn(slots), NEW n \in Nat
  PROVE  LET new == [s \in Slots |-> IF s < n THEN slots[s] ELSE Bare]
         IN /\ new \in SlotType /\ OneWorksIn(new)
            /\ \A s \in Slots : /\ new[s].petal # Empty => new[s].petal = slots[s].petal /\ s < n
                                /\ s >= n => new[s] = Bare
  <1> DEFINE new == [s \in Slots |-> IF s < n THEN slots[s] ELSE Bare]
  <1>1. new \in SlotType
    BY BareIsSlot DEF SlotType
  <1>2. \A s \in Slots : /\ new[s].petal # Empty => new[s] = slots[s] /\ s < n
                         /\ s >= n => new[s] = Bare
    BY BareIsSlot, SlotsAreNumbers
  <1> HIDE DEF new
  <1>3. OneWorksIn(new)
    BY <1>2 DEF OneWorksIn
  <1> QED
    BY <1>1, <1>2, <1>3 DEF new

\* A flower that shows nothing.
LEMMA BareKeeps ==
  /\ BareSlots \in SlotType /\ OneWorksIn(BareSlots)
  /\ \A s \in Slots : BareSlots[s] = Bare /\ BareSlots[s].petal = Empty
  BY BareIsSlot DEF BareSlots, SlotType, OneWorksIn

-----------------------------------------------------------------------------
\* A flower that is as it should be, and shows what is saved.
FlowerType == [state : {"gone", "alive", "dead"}, count : FirstSlots..MaxSlots \cup {DealtSlots},
               slots : [Slots -> Slot]]
Fine(f) == f \in FlowerType /\ (\A s \in Slots : s >= f.count => f.slots[s] = Bare) /\ OneWorksIn(f.slots)
ShowsSaved(f, r, acc) ==
  f.state # "gone" => \A s \in Slots : f.slots[s].petal # Empty =>
    IF Strips(r) THEN r = "kingdom" /\ f.slots[s].petal = Dealt /\ s \in 1..Groups
    ELSE f.slots[s].petal = acc.primary[s]

\* A flower has a number of slots.
LEMMA CountIsNat == ASSUME NEW f \in FlowerType PROVE f.count \in Nat
  BY LoadoutAssumption, SlotsAreNumbers DEF FlowerType

LEMMA NoFlowerIsFine == Fine(NoFlower) /\ NoFlower.state = "gone"
  <1>1. FirstSlots \in FirstSlots..MaxSlots
    BY LoadoutAssumption
  <1> QED
    BY <1>1, BareKeeps DEF Fine, NoFlower, FlowerType, SlotType

\* What an ant kingdom dealt is of no account's types.
LEMMA DealtIsApart ==
  /\ Dealt \in Petal \cup {Dealt, Empty} /\ Dealt \notin Petal /\ Dealt # Empty
  /\ Dealt.type = Pheromone /\ Pheromone \in Stacking /\ Pheromone \notin Types
  /\ \A petal \in Petal : petal.type \in Types
  <1>1. /\ Dealt.type = Pheromone /\ Pheromone \in Stacking /\ Pheromone \notin Types
        /\ \A petal \in Petal : petal.type \in Types
    BY LoadoutAssumption DEF Dealt, Petal
  <1> QED
    BY <1>1, LoadoutAssumption

\* The flower of a player who comes to a room that takes petals off shows none.
LEMMA StrippedKeeps ==
  ASSUME NEW f, Fine(f), NEW r, f.state # "gone",
         \A s \in Slots : f.slots[s].petal # Empty => f.slots[s].petal \in Petal
  PROVE  LET g == Stripped(f, r)
         IN /\ Fine(g) /\ g.state = f.state /\ g.count = f.count
            /\ \A s \in Slots : g.slots[s].petal = Empty
  <1> DEFINE ss == {s \in Slots : f.slots[s].petal # Empty /\ f.slots[s].petal.type \notin Preserved(r)}
             slots == ForceUnequip(f.slots, ss)
             g == [f EXCEPT !.slots = slots]
  <1>1. f \in FlowerType /\ f.slots \in SlotType /\ OneWorksIn(f.slots)
    BY DEF Fine, FlowerType, SlotType
  <1>2. \A s \in Slots : f.slots[s].petal # Empty => s \in ss
    BY DealtIsApart DEF Preserved
  <1>3. Stripped(f, r) = g
    BY DEF Stripped
  <1> HIDE DEF ss
  <1>4. /\ slots \in SlotType /\ OneWorksIn(slots)
        /\ \A s \in Slots : /\ slots[s].petal = IF s \in ss THEN Empty ELSE f.slots[s].petal
                            /\ f.slots[s] = Bare => slots[s] = Bare
    BY <1>1, ForceUnequipKeeps
  <1> HIDE DEF slots
  <1>5. g \in FlowerType /\ g.slots = slots /\ g.count = f.count /\ g.state = f.state
    BY <1>1, <1>4 DEF FlowerType, SlotType
  <1> HIDE DEF g
  <1>6. Fine(g)
    BY <1>4, <1>5 DEF Fine
  <1>7. \A s \in Slots : g.slots[s].petal = Empty
    BY <1>2, <1>4, <1>5
  <1> QED
    BY <1>3, <1>5, <1>6, <1>7

\* A flower an ant kingdom dealt petals to shows these, and no more.
LEMMA WithPheromonesKeeps ==
  ASSUME NEW f, Fine(f)
  PROVE  LET g == WithPheromones(f)
         IN /\ Fine(g) /\ g.state = f.state
            /\ \A s \in Slots : g.slots[s].petal # Empty => g.slots[s].petal = Dealt /\ s \in 1..Groups
  <1> DEFINE slots == [s \in Slots |-> IF s \in 1..Groups THEN [Bare EXCEPT !.petal = Dealt] ELSE Bare]
             g == [f EXCEPT !.count = DealtSlots, !.slots = slots]
  <1>1. [Bare EXCEPT !.petal = Dealt] \in Slot /\ [Bare EXCEPT !.petal = Dealt].petal = Dealt
    BY DEF Bare, Slot
  <1>2. slots \in SlotType
    BY <1>1, BareIsSlot DEF SlotType
  <1>3. \A s \in Slots : /\ slots[s].petal # Empty => slots[s].petal = Dealt /\ s \in 1..Groups
                         /\ s \notin 1..Groups => slots[s] = Bare
    BY <1>1, BareIsSlot
  <1>4. WithPheromones(f) = g
    BY DEF WithPheromones
  <1> HIDE DEF slots
  <1>5. OneWorksIn(slots)
    BY <1>3, DealtIsApart DEF OneWorksIn
  <1>6. g \in FlowerType /\ g.slots = slots /\ g.count = DealtSlots /\ g.state = f.state
    BY <1>2 DEF Fine, FlowerType, SlotType
  <1> HIDE DEF g
  <1>7. \A s \in Slots : s >= g.count => s \notin 1..Groups
    <2>1. Groups \in Nat /\ DealtSlots = Groups + 3 /\ Slots \subseteq Nat
      BY LoadoutAssumption, SlotsAreNumbers DEF DealtSlots
    <2> QED
      BY <1>6, <2>1
  <1>8. Fine(g)
    BY <1>3, <1>5, <1>6, <1>7 DEF Fine
  <1> QED
    BY <1>3, <1>4, <1>6, <1>8

\* What the room leaves to show.
LEMMA ArrivedKeeps ==
  ASSUME NEW f, Fine(f), NEW r, NEW acc \in Account, f.state # "gone",
         \A s \in Slots : f.slots[s].petal # Empty => f.slots[s].petal = acc.primary[s]
  PROVE  Fine(Arrived(f, r)) /\ ShowsSaved(Arrived(f, r), r, acc) /\ Arrived(f, r).state = f.state
  <1> DEFINE g == Stripped(f, r)  h == WithPheromones(g)
  <1>1. \A s \in Slots : f.slots[s].petal # Empty => f.slots[s].petal \in Petal
    BY AccountFacts
  <1>2. Fine(g) /\ g.state = f.state /\ \A s \in Slots : g.slots[s].petal = Empty
    BY <1>1, StrippedKeeps
  <1> HIDE DEF g
  <1>3. /\ Fine(h) /\ h.state = g.state
        /\ \A s \in Slots : h.slots[s].petal # Empty => h.slots[s].petal = Dealt /\ s \in 1..Groups
    BY <1>2, WithPheromonesKeeps
  <1> HIDE DEF h
  <1>4. CASE r = "arena"
    <2>1. Arrived(f, r) = g
      BY <1>4 DEF Arrived, g
    <2> QED
      BY <1>2, <2>1 DEF ShowsSaved
  <1>5. CASE r = "kingdom"
    <2>1. Arrived(f, r) = h
      BY <1>5 DEF Arrived, g, h
    <2> QED
      BY <1>2, <1>3, <1>5, <2>1 DEF ShowsSaved, Strips
  <1>6. CASE r # "arena" /\ r # "kingdom"
    <2>1. Arrived(f, r) = f
      BY <1>6 DEF Arrived
    <2> QED
      BY <1>6, <2>1 DEF ShowsSaved, Strips
  <1> QED
    BY <1>4, <1>5, <1>6

\* A flower that shows what is saved.
LEMMA RestoredLoadout ==
  ASSUME NEW f, Fine(f), NEW acc \in Account
  PROVE  LET g == RestoreSavedLoadout(f, acc)
         IN /\ Fine(g) /\ g.state = f.state
            /\ \A s \in Slots : g.slots[s].petal # Empty => g.slots[s].petal = acc.primary[s]
  <1> DEFINE new == LoadSavedSlots(acc.talentSlots, acc)
             n == acc.talentSlots
             g == [f EXCEPT !.count = n, !.slots = new]
  <1>0. n \in FirstSlots..MaxSlots /\ n \in Nat
    BY AccountFacts, LoadoutAssumption
  <1>1. /\ new \in SlotType /\ OneWorksIn(new)
        /\ \A s \in Slots : /\ new[s].petal = IF s < n THEN acc.primary[s] ELSE Empty
                            /\ s >= n => new[s] = Bare
    BY <1>0, LoadSavedKeeps
  <1>2. RestoreSavedLoadout(f, acc) = g
    BY DEF RestoreSavedLoadout
  <1> HIDE DEF new, n
  <1>3. g \in FlowerType /\ g.count = n /\ g.slots = new /\ g.state = f.state
    BY <1>0, <1>1 DEF Fine, FlowerType, SlotType
  <1> HIDE DEF g
  <1>4. Fine(g)
    BY <1>1, <1>3 DEF Fine
  <1> QED
    BY <1>1, <1>2, <1>3, <1>4

\* A player has a sandbox while it is in one.
Sandboxed == \A p \in Players : sandbox[p] # Empty <=> room[p] = "sandbox"

\* What there is of a petal fits in one bag, with what the registry owes.
OwedIsBounded == \A q \in Petal : supply[q] + Owed(q) <= MaxStack

LoadoutInv == LoadoutTypeOK /\ Sandboxed /\ SlotsAreTrue /\ PetalsAreAccounted /\ OwedIsBounded

\* Petals that are found, Unique ones and those below Super are different.
LEMMA KindsOfPetals ==
  /\ \A t \in Types : Found[t] \in Petal /\ UniqueOf(t) \in Petal
  /\ \A t, u \in Types : /\ Found[t] # UniqueOf(u)
                         /\ Found[t] = Found[u] => t = u
                         /\ UniqueOf(t) = UniqueOf(u) => t = u
  /\ \A petal \in Petal : (\E t \in Types : petal = Found[t] \/ petal = UniqueOf(t)) \/ petal.rank = Ultra
  /\ \A petal \in Petal : petal # Empty
  <1>1. \A t \in Types : Found[t] = [type |-> t, rank |-> Super]
    BY DEF Found
  <1>2. \A petal \in Petal :
          petal.type \in Types /\ (petal = Found[petal.type] \/ petal = UniqueOf(petal.type) \/ petal.rank = Ultra)
    BY <1>1, LoadoutAssumption DEF Petal, UniqueOf
  <1>3. \A petal \in Petal : petal # Empty
    BY LoadoutAssumption
  <1>4. \A t \in Types : Found[t] \in Petal /\ UniqueOf(t) \in Petal
    <2>1. ASSUME NEW t \in Types, NEW r \in {Super, Unique} PROVE [type |-> t, rank |-> r] \in Petal
      BY DEF Petal
    <2> QED
      BY <1>1, <2>1 DEF UniqueOf
  <1>5. \A t, u \in Types : /\ Found[t] # UniqueOf(u)
                            /\ Found[t] = Found[u] => t = u
                            /\ UniqueOf(t) = UniqueOf(u) => t = u
    <2>1. ASSUME NEW t, NEW u, NEW q, NEW r, [type |-> t, rank |-> q] = [type |-> u, rank |-> r]
          PROVE  t = u /\ q = r
      <3>1. [type |-> t, rank |-> q].type = [type |-> u, rank |-> r].type
            /\ [type |-> t, rank |-> q].rank = [type |-> u, rank |-> r].rank
        BY <2>1
      <3> QED
        BY <3>1
    <2>2. Super # Unique
      BY DEF Super, Unique
    <2> SUFFICES ASSUME NEW t \in Types, NEW u \in Types
                 PROVE  /\ Found[t] # UniqueOf(u)
                        /\ Found[t] = Found[u] => t = u
                        /\ UniqueOf(t) = UniqueOf(u) => t = u
      OBVIOUS
    <2>3. Found[t] = [type |-> t, rank |-> Super] /\ Found[u] = [type |-> u, rank |-> Super]
      BY <1>1
    <2>4. [type |-> t, rank |-> Super] # [type |-> u, rank |-> Unique]
      BY <2>1, <2>2
    <2>5. [type |-> t, rank |-> Super] = [type |-> u, rank |-> Super] => t = u
      BY <2>1
    <2>6. [type |-> t, rank |-> Unique] = [type |-> u, rank |-> Unique] => t = u
      BY <2>1
    <2> QED
      BY <2>3, <2>4, <2>5, <2>6, Zenon DEF UniqueOf
  <1> QED
    BY <1>2, <1>3, <1>4, <1>5

\* The invariant, player by player.
PlayersInv ==
  /\ account \in [Players -> Account] /\ sandbox \in [Players -> Account \cup {Empty}]
  /\ room \in [Players -> RoomKinds]
  /\ \A p \in Players : sandbox[p] # Empty <=> room[p] = "sandbox"
  /\ DOMAIN flower = Players /\ flower = [p \in Players |-> flower[p]]
  /\ \A p \in Players : Fine(flower[p]) /\ ShowsSaved(flower[p], room[p], Progress(p))
RegistryOK == {owner, ownerFile} \subseteq [Types -> [by : Players \cup {Nobody}, cost : {0, ForgeCost}]]
SupplyInv ==
  /\ supply \in [Petal -> Nat]
  /\ PetalsAreConserved
  /\ \A t \in Types, p \in Players : supply[UniqueOf(t)] <= 1
  /\ \A t \in Types, p \in Players :
       Holds(account[p], UniqueOf(t)) = IF owner[t].by = p THEN supply[UniqueOf(t)] ELSE 0
  /\ OwedIsBounded

\* The invariant in the three parts that steps change.
LEMMA InvInParts == LoadoutInv <=> PlayersInv /\ RegistryOK /\ SupplyInv
  <1> DEFINE flowers == flower \in [Players -> FlowerType]
             bare == \A p \in Players, s \in Slots : s >= flower[p].count => flower[p].slots[s] = Bare
  <1>1. OneWorks <=> \A p \in Players : OneWorksIn(flower[p].slots)
    BY DEF OneWorks, OneWorksIn, Shown
  <1>2. ShownIsOwned <=> \A p \in Players : ShowsSaved(flower[p], room[p], Progress(p))
    BY DEF ShownIsOwned, ShowsSaved, Shown
  <1>3. LoadoutTypeOK <=>
          /\ account \in [Players -> Account] /\ sandbox \in [Players -> Account \cup {Empty}]
          /\ room \in [Players -> RoomKinds]
          /\ flowers /\ bare /\ RegistryOK /\ supply \in [Petal -> Nat]
    BY DEF LoadoutTypeOK, FlowerType, RegistryOK
  <1>4. flowers <=> DOMAIN flower = Players /\ flower = [p \in Players |-> flower[p]]
                    /\ \A p \in Players : flower[p] \in FlowerType
    BY DEF FlowerType
  <1>5. UniqueIsRegistered <=>
          \A t \in Types, p \in Players :
            /\ supply[UniqueOf(t)] <= 1
            /\ Holds(account[p], UniqueOf(t)) = IF owner[t].by = p THEN supply[UniqueOf(t)] ELSE 0
    BY DEF UniqueIsRegistered, UniqueOf
  <1> HIDE DEF flowers, bare
  <1>6. (\A p \in Players : Fine(flower[p])) <=>
          (\A p \in Players : flower[p] \in FlowerType) /\ bare /\ (\A p \in Players : OneWorksIn(flower[p].slots))
    BY DEF Fine, bare
  <1>7. LoadoutInv <=> PlayersInv /\ RegistryOK /\ supply \in [Petal -> Nat] /\ PetalsAreConserved
                       /\ UniqueIsRegistered /\ OwedIsBounded
    BY <1>1, <1>2, <1>3, <1>4, <1>6 DEF LoadoutInv, SlotsAreTrue, PetalsAreAccounted, PlayersInv, Sandboxed
  <1> QED
    BY <1>5, <1>7 DEF SupplyInv

-----------------------------------------------------------------------------
\* What the players of accounts a hold of a petal together.
TotalOf(a, petal) == Cardinality(Heap([p \in Players |-> Holds(a[p], petal)]))

\* The total is that of the accounts; how it changes with one of them.
LEMMA TotalIs ==
  ASSUME NEW petal
  PROVE  Total(petal) = TotalOf(account, petal) /\ Total(petal)' = TotalOf(account', petal)
  <1>1. ASSUME NEW a PROVE UNION {{p} \X (1..Holds(a[p], petal)) : p \in Players}
                           = Heap([p \in Players |-> Holds(a[p], petal)])
    BY DEF Heap
  <1> QED
    BY <1>1 DEF Total, Copies, TotalOf

LEMMA TotalRest ==
  ASSUME NEW a \in [Players -> Account], NEW petal \in Petal
  PROVE  TotalOf(a, petal) \in Nat /\ \A p \in Players : Holds(a[p], petal) <= TotalOf(a, petal)
  <1> DEFINE f == [p \in Players |-> Holds(a[p], petal)]
  <1>1. \A p \in Players : f[p] = Holds(a[p], petal)
    OBVIOUS
  <1>2. \A p \in Players : f[p] \in Nat
    BY AccountFacts
  <1> HIDE DEF f
  <1>3. Cardinality(Heap(f)) \in Nat /\ \A p \in Players : f[p] <= Cardinality(Heap(f))
    BY <1>2, HeapRest
  <1> QED
    BY <1>1, <1>3 DEF TotalOf, f

LEMMA TotalChange ==
  ASSUME NEW a \in [Players -> Account], NEW b \in [Players -> Account], NEW petal \in Petal,
         NEW p \in Players, \A r \in Players \ {p} : a[r] = b[r]
  PROVE  TotalOf(b, petal) = TotalOf(a, petal) - Holds(a[p], petal) + Holds(b[p], petal)
  <1> DEFINE f == [r \in Players |-> Holds(a[r], petal)]
             g == [r \in Players |-> Holds(b[r], petal)]
  <1>1. \A r \in Players : f[r] = Holds(a[r], petal) /\ g[r] = Holds(b[r], petal)
    OBVIOUS
  <1>2. \A r \in Players : f[r] \in Nat /\ g[r] \in Nat
    BY AccountFacts
  <1>3. \A r \in Players \ {p} : f[r] = g[r]
    OBVIOUS
  <1> HIDE DEF f, g
  <1>4. Cardinality(Heap(g)) = Cardinality(Heap(f)) - f[p] + g[p]
    BY <1>2, <1>3, HeapChange
  <1> QED
    BY <1>1, <1>4 DEF TotalOf, f, g

\* What the registry owes.
LEMMA OwedIsNat ==
  ASSUME RegistryOK
  PROVE  /\ \A t \in Types : /\ Refund(t) \in Nat /\ Owed(UniqueOf(t)) = 0 /\ Owed(UniqueOf(t))' = 0
                             /\ Owed(Found[t]) = Refund(t) /\ Owed(Found[t])' = Refund(t)'
         /\ \A q \in Petal : /\ Owed(q) \in Nat
                             /\ q.rank = Ultra => Owed(q) = 0 /\ Owed(q)' = 0
  <1>1. ASSUME NEW t \in Types PROVE Refund(t) \in Nat
    <2>1. owner[t].cost \in {0, ForgeCost} /\ ForgeCost \in Nat \ {0}
      BY LoadoutAssumption DEF RegistryOK
    <2> QED
      BY <2>1 DEF Refund
  <1>2. \A t \in Types : /\ Found[t].rank = Super /\ Found[t].type = t
                         /\ UniqueOf(t).rank = Unique
    BY DEF Found, UniqueOf
  <1>3. Super # Unique /\ Super # Ultra
    BY DEF Super, Unique, Ultra
  <1>4. \A q \in Petal : q.type \in Types
    BY DealtIsApart
  <1>5. \A t \in Types : /\ Owed(UniqueOf(t)) = 0 /\ Owed(UniqueOf(t))' = 0
                         /\ Owed(Found[t]) = Refund(t) /\ Owed(Found[t])' = Refund(t)'
    BY <1>2, <1>3 DEF Owed
  <1>6. \A q \in Petal : /\ Owed(q) \in Nat
                         /\ q.rank = Ultra => Owed(q) = 0 /\ Owed(q)' = 0
    BY <1>1, <1>3, <1>4 DEF Owed
  <1> QED
    BY <1>1, <1>5, <1>6

\* What anyone holds fits in a bag.
LEMMA RoomInBags ==
  ASSUME LoadoutInv, NEW p \in Players, NEW q \in Petal
  PROVE  /\ account[p] \in Account /\ Holds(account[p], q) \in Nat /\ supply[q] \in Nat
         /\ Holds(account[p], q) <= supply[q] /\ supply[q] <= MaxStack
         /\ account[p].bag[q] \in Nat /\ account[p].bag[q] <= Holds(account[p], q)
  <1>1. PlayersInv /\ RegistryOK /\ SupplyInv
    BY InvInParts
  <1>2. account \in [Players -> Account] /\ account[p] \in Account
    BY <1>1 DEF PlayersInv
  <1>3. TotalOf(account, q) = supply[q] /\ supply[q] \in Nat
    BY <1>1, TotalIs DEF SupplyInv, PetalsAreConserved
  <1>4. Holds(account[p], q) <= supply[q]
    BY <1>2, <1>3, TotalRest
  <1>5. supply[q] <= MaxStack
    <2>1. Owed(q) \in Nat
      BY <1>1, OwedIsNat
    <2>2. supply[q] + Owed(q) <= MaxStack /\ MaxStack \in Nat
      BY <1>1, LoadoutAssumption DEF SupplyInv, OwedIsBounded
    <2> QED
      BY <1>3, <2>1, <2>2
  <1> QED
    BY <1>2, <1>3, <1>4, <1>5, AccountFacts

\* What is owed is a number within the bound, and stays so with fewer petals.
LEMMA OwedFits ==
  ASSUME LoadoutInv, NEW q \in Petal
  PROVE  /\ Owed(q) \in Nat /\ MaxStack \in Nat /\ supply \in [Petal -> Nat] /\ supply[q] \in Nat
         /\ supply[q] + Owed(q) <= MaxStack
         /\ \A n \in Nat : n <= supply[q] => n + Owed(q) <= MaxStack
  <1>1. /\ Owed(q) \in Nat /\ MaxStack \in Nat /\ supply \in [Petal -> Nat] /\ supply[q] \in Nat
        /\ supply[q] + Owed(q) <= MaxStack
    BY InvInParts, OwedIsNat, LoadoutAssumption DEF SupplyInv, OwedIsBounded
  <1> QED
    BY <1>1

LEMMA RefundIsNat ==
  ASSUME LoadoutInv, NEW t \in Types
  PROVE  /\ Refund(t) \in Nat /\ MaxStack \in Nat /\ supply[Found[t]] + Refund(t) <= MaxStack
         /\ supply[Found[t]] \in Nat /\ supply \in [Petal -> Nat] /\ Found[t] \in Petal
  <1>1. Refund(t) \in Nat /\ Owed(Found[t]) = Refund(t) /\ Found[t] \in Petal
    BY InvInParts, OwedIsNat, KindsOfPetals
  <1> QED
    BY <1>1, OwedFits

\* A player changes what it has, and what its flower shows of it.
LEMMA PlayersStep ==
  ASSUME PlayersInv, NEW p \in Players, NEW acc \in Account, SetProgress(p, acc),
         NEW f, Fine(f), ShowsSaved(f, room[p], acc),
         flower' = [flower EXCEPT ![p] = f], room' = room
  PROVE  PlayersInv'
  <1>1. acc # Empty
    BY AccountFacts
  <1>2. /\ account' \in [Players -> Account] /\ sandbox' \in [Players -> Account \cup {Empty}]
        /\ \A q \in Players : sandbox'[q] # Empty <=> sandbox[q] # Empty
        /\ \A q \in Players : Progress(q)' = IF q = p THEN acc ELSE Progress(q)
    <2>1. CASE sandbox[p] = Empty
      BY <2>1 DEF SetProgress, PlayersInv, Progress
    <2>2. CASE sandbox[p] # Empty
      BY <1>1, <2>2 DEF SetProgress, PlayersInv, Progress
    <2> QED
      BY <2>1, <2>2
  <1>3. \A q \in Players : flower'[q] = IF q = p THEN f ELSE flower[q]
    BY DEF PlayersInv
  <1>4. DOMAIN flower' = Players /\ flower' = [q \in Players |-> flower'[q]]
    BY DEF PlayersInv
  <1>5. \A q \in Players : Fine(flower'[q]) /\ ShowsSaved(flower'[q], room'[q], Progress(q)')
    BY <1>2, <1>3 DEF PlayersInv
  <1> QED
    BY <1>2, <1>4, <1>5 DEF PlayersInv

\* A player comes to hold as many more of each petal as there come to be.
LEMMA SupplyStep ==
  ASSUME PlayersInv, RegistryOK, SupplyInv, NEW p \in Players, NEW acc \in Account,
         SetProgress(p, acc), owner' = owner,
         sandbox[p] # Empty => supply' = supply,
         sandbox[p] = Empty =>
           /\ supply' \in [Petal -> Nat]
           /\ \A q \in Petal : Holds(acc, q) = Holds(account[p], q) + supply'[q] - supply[q]
           /\ \A t \in Types : supply'[UniqueOf(t)] <= supply[UniqueOf(t)]
           /\ \A q \in Petal : supply'[q] + Owed(q) <= MaxStack
  PROVE  SupplyInv'
  <1>r. \A q \in Petal : Owed(q)' = Owed(q)
    BY DEF Owed, Refund
  <1>1. CASE sandbox[p] # Empty
    <2>1. account' = account /\ supply' = supply
      BY <1>1 DEF SetProgress
    <2>2. \A q \in Petal : Total(q)' = Total(q)
      BY <2>1, TotalIs
    <2> QED
      BY <1>r, <2>1, <2>2 DEF SupplyInv, PetalsAreConserved, OwedIsBounded
  <1>2. CASE sandbox[p] = Empty
    <2>1. account' = [account EXCEPT ![p] = acc]
      BY <1>2 DEF SetProgress
    <2>2. /\ account \in [Players -> Account] /\ account' \in [Players -> Account]
          /\ account'[p] = acc /\ \A r \in Players \ {p} : account[r] = account'[r]
      BY <2>1 DEF PlayersInv
    <2>3. /\ supply \in [Petal -> Nat] /\ supply' \in [Petal -> Nat]
          /\ \A q \in Petal : Holds(acc, q) = Holds(account[p], q) + supply'[q] - supply[q]
      BY <1>2 DEF SupplyInv
    <2>4. ASSUME NEW q \in Petal PROVE Total(q)' = supply'[q]
      <3>1. TotalOf(account', q) = TotalOf(account, q) - Holds(account[p], q) + Holds(acc, q)
        BY <2>2, TotalChange
      <3>2. TotalOf(account, q) = supply[q] /\ Total(q)' = TotalOf(account', q)
        BY TotalIs DEF SupplyInv, PetalsAreConserved
      <3>3. Holds(account[p], q) \in Nat /\ supply[q] \in Nat /\ supply'[q] \in Nat
        BY <2>2, <2>3, AccountFacts
      <3> QED
        BY <2>3, <3>1, <3>2, <3>3
    <2>5. ASSUME NEW t \in Types, NEW r \in Players
          PROVE  /\ supply'[UniqueOf(t)] <= 1
                 /\ Holds(account'[r], UniqueOf(t)) = IF owner'[t].by = r THEN supply'[UniqueOf(t)] ELSE 0
      <3> DEFINE u == UniqueOf(t)
      <3>1. u \in Petal
        BY KindsOfPetals
      <3>2. /\ supply[u] \in Nat /\ supply[u] <= 1 /\ supply'[u] \in Nat /\ supply'[u] <= supply[u]
            /\ Holds(acc, u) = Holds(account[p], u) + supply'[u] - supply[u] /\ Holds(acc, u) \in Nat
            /\ Holds(account[p], u) = (IF owner[t].by = p THEN supply[u] ELSE 0)
            /\ Holds(account[r], u) = (IF owner[t].by = r THEN supply[u] ELSE 0)
        BY <1>2, <2>3, <3>1, AccountFacts DEF SupplyInv
      <3> HIDE DEF u
      <3>3. CASE r = p
        <4>1. Holds(account'[r], u) = Holds(acc, u) /\ owner'[t].by = owner[t].by
          BY <3>3, <2>2
        <4>2. CASE owner[t].by = p
          BY <4>1, <4>2, <3>2, <3>3 DEF u
        <4>3. CASE owner[t].by # p
          BY <4>1, <4>3, <3>2, <3>3 DEF u
        <4> QED
          BY <4>2, <4>3
      <3>4. CASE r # p
        <4>1. Holds(account'[r], u) = Holds(account[r], u) /\ owner'[t].by = owner[t].by
          BY <3>4, <2>2
        <4>2. CASE owner[t].by = r
          <5>1. supply'[u] = supply[u]
            BY <4>2, <3>2, <3>4
          <5> QED
            BY <4>1, <4>2, <5>1, <3>2 DEF u
        <4>3. CASE owner[t].by # r
          BY <4>1, <4>3, <3>2 DEF u
        <4> QED
          BY <4>2, <4>3
      <3> QED
        BY <3>3, <3>4
    <2>6. OwedIsBounded'
      BY <1>2, <1>r DEF OwedIsBounded
    <2> QED
      BY <2>3, <2>4, <2>5, <2>6 DEF SupplyInv, PetalsAreConserved
  <1> QED
    BY <1>1, <1>2

\* What an action on the account and the flower of one player has to show.
LEMMA ProgressStep ==
  ASSUME LoadoutInv, NEW p \in Players, NEW acc \in Account, SetProgress(p, acc),
         NEW f, Fine(f), ShowsSaved(f, room[p], acc),
         flower' = [flower EXCEPT ![p] = f], UNCHANGED <<room, registry>>,
         sandbox[p] # Empty => supply' = supply,
         sandbox[p] = Empty =>
           /\ supply' \in [Petal -> Nat]
           /\ \A q \in Petal : Holds(acc, q) = Holds(account[p], q) + supply'[q] - supply[q]
           /\ \A t \in Types : supply'[UniqueOf(t)] <= supply[UniqueOf(t)]
           /\ \A q \in Petal : supply'[q] + Owed(q) <= MaxStack
  PROVE  LoadoutInv'
  <1>1. PlayersInv /\ RegistryOK /\ SupplyInv
    BY InvInParts
  <1>2. room' = room /\ owner' = owner /\ ownerFile' = ownerFile
    BY DEF registry
  <1>3. PlayersInv'
    BY <1>1, <1>2, PlayersStep
  <1>4. SupplyInv'
    BY <1>1, <1>2, SupplyStep
  <1>5. RegistryOK'
    BY <1>1, <1>2 DEF RegistryOK
  <1> QED
    BY <1>3, <1>4, <1>5, InvInParts, PTL

\* The same, of an action that leaves as many petals as there were.
LEMMA EvenStep ==
  ASSUME LoadoutInv, NEW p \in Players, NEW acc \in Account, SetProgress(p, acc),
         NEW f, Fine(f), ShowsSaved(f, room[p], acc),
         flower' = [flower EXCEPT ![p] = f], UNCHANGED <<room, registry, supply>>,
         sandbox[p] = Empty => \A q \in Petal : Holds(acc, q) = Holds(account[p], q)
  PROVE  LoadoutInv'
  <1>1. SupplyInv
    BY InvInParts
  <1>2. supply' = supply /\ supply \in [Petal -> Nat]
    BY <1>1 DEF SupplyInv
  <1>3. \A q \in Petal : supply[q] \in Nat
    BY <1>2
  <1>4. \A t \in Types : supply[UniqueOf(t)] \in Nat
    BY <1>3, KindsOfPetals
  <1>5. /\ \A t \in Types : supply'[UniqueOf(t)] <= supply[UniqueOf(t)]
        /\ \A q \in Petal : supply'[q] + Owed(q) <= MaxStack
    BY <1>1, <1>2, <1>4 DEF SupplyInv, OwedIsBounded
  <1>6. sandbox[p] = Empty => \A q \in Petal : Holds(acc, q) = Holds(account[p], q) + supply'[q] - supply[q]
    <2> SUFFICES ASSUME sandbox[p] = Empty, NEW q \in Petal
                 PROVE  Holds(acc, q) = Holds(account[p], q) + supply'[q] - supply[q]
      OBVIOUS
    <2>1. Holds(acc, q) = Holds(account[p], q) /\ Holds(acc, q) \in Nat
      BY AccountFacts
    <2> QED
      BY <2>1, <1>2, <1>3
  <1>7. UNCHANGED <<room, registry>>
    OBVIOUS
  <1> QED
    BY <1>2, <1>5, <1>6, <1>7, ProgressStep

\* What the invariant says of one player.
LEMMA ProgressFacts ==
  ASSUME LoadoutInv, NEW p \in Players
  PROVE  /\ Progress(p) \in Account /\ Fine(flower[p]) /\ ShowsSaved(flower[p], room[p], Progress(p))
         /\ flower[p] \in FlowerType /\ OneWorksIn(flower[p].slots) /\ flower[p].slots \in SlotType
         /\ room[p] \in RoomKinds
         /\ sandbox[p] = Empty => Progress(p) = account[p]
  <1>1. PlayersInv
    BY InvInParts
  <1>2. Progress(p) \in Account /\ (sandbox[p] = Empty => Progress(p) = account[p])
    BY <1>1 DEF PlayersInv, Progress
  <1> QED
    BY <1>1, <1>2 DEF PlayersInv, Fine, FlowerType, SlotType

\* Another petal of a kind the account holds outside the bag fits in the bag.
LEMMA HeldRoom ==
  ASSUME NEW acc \in Account, NEW x \in Petal
  PROVE  /\ \A s \in Slots : acc.primary[s] = x => acc.bag[x] + 1 <= Holds(acc, x)
         /\ acc.secondary = x => acc.bag[x] + 1 <= Holds(acc, x)
  <1>0. acc.bag[x] \in Nat /\ Cardinality(Held(acc, x)) \in Nat /\ IsFiniteSet(Held(acc, x))
    BY AccountFacts, Heldfacts
  <1>1. ASSUME NEW s \in Slots, acc.primary[s] = x PROVE acc.bag[x] + 1 <= Holds(acc, x)
    <2>1. s \in Held(acc, x)
      BY <1>1 DEF Held
    <2>2. Cardinality(Held(acc, x)) # 0
      BY <1>0, <2>1, FS_EmptySet
    <2> QED
      BY <1>0, <2>2 DEF Holds, InSecondary
  <1>2. ASSUME acc.secondary = x PROVE acc.bag[x] + 1 <= Holds(acc, x)
    BY <1>0, <1>2 DEF Holds, InSecondary
  <1> QED
    BY <1>1, <1>2

\* What an account holds once a petal is back in the bag.
LEMMA PutBackHolds ==
  ASSUME NEW acc \in Account, NEW x \in Petal \cup {Empty}
  PROVE  /\ PutBack(acc, x) \in Account
         /\ PutBack(acc, x).primary = acc.primary /\ PutBack(acc, x).secondary = acc.secondary
         /\ (x # Empty => acc.bag[x] + 1 <= MaxStack) =>
              \A q \in Petal : Holds(PutBack(acc, x), q) = Holds(acc, q) + Same(x, q)
  <1>1. CASE x = Empty
    <2>1. PutBack(acc, x) = acc
      BY <1>1 DEF PutBack
    <2>2. \A q \in Petal : Holds(acc, q) \in Nat /\ q # Empty
      BY AccountFacts, KindsOfPetals
    <2> QED
      BY <1>1, <2>1, <2>2 DEF Same
  <1>2. CASE x # Empty
    <2>1. PutBack(acc, x) = Add(acc, x, 1) /\ x \in Petal
      BY <1>2 DEF PutBack
    <2>2. /\ Add(acc, x, 1) \in Account
          /\ Add(acc, x, 1).primary = acc.primary /\ Add(acc, x, 1).secondary = acc.secondary
          /\ acc.bag[x] + 1 <= MaxStack =>
               \A q \in Petal : Holds(Add(acc, x, 1), q) = Holds(acc, q) + (IF q = x THEN 1 ELSE 0)
      BY <2>1, AddHolds
    <2> QED
      BY <1>2, <2>1, <2>2 DEF Same
  <1> QED
    BY <1>1, <1>2

\* One lemma for each action.
LEMMA UnequipKeeps ==
  ASSUME LoadoutInv, NEW p \in Players, NEW s \in Slots, Unequip(p, s)
  PROVE  LoadoutInv'
  <1> DEFINE x == Shown(p, s)
             acc == PutBack(Progress(p), x)
             new == [acc EXCEPT !.primary[s] = Empty]
             slots == ForceUnequip(flower[p].slots, {s})
             f == [flower[p] EXCEPT !.slots = slots]
  <1>1. /\ flower[p].state = "alive" /\ ~Strips(room[p]) /\ x # Empty
        /\ SetProgress(p, new)
        /\ flower' = [flower EXCEPT ![p].slots = ForceUnequip(@, {s})]
        /\ UNCHANGED <<room, registry, supply>>
    BY DEF Unequip, Alive, Locked, Strips
  <1>2. /\ Progress(p) \in Account /\ Fine(flower[p]) /\ ShowsSaved(flower[p], room[p], Progress(p))
        /\ flower[p] \in FlowerType /\ OneWorksIn(flower[p].slots) /\ flower[p].slots \in SlotType
    BY ProgressFacts
  <1>3. x = Progress(p).primary[s] /\ x \in Petal
    BY <1>1, <1>2, AccountFacts DEF ShowsSaved, Shown
  <1>4. acc \in Account /\ acc.primary = Progress(p).primary
    BY <1>2, <1>3, PutBackHolds
  <1>5. /\ new \in Account /\ new.primary = [acc.primary EXCEPT ![s] = Empty]
        /\ \A q \in Petal : Holds(new, q) = Holds(acc, q) - Same(acc.primary[s], q) + Same(Empty, q)
    BY <1>4, PrimaryHolds
  <1>6. /\ slots \in SlotType /\ OneWorksIn(slots)
        /\ \A r \in Slots : /\ slots[r].petal = IF r \in {s} THEN Empty ELSE flower[p].slots[r].petal
                            /\ flower[p].slots[r] = Bare => slots[r] = Bare
    BY <1>2, ForceUnequipKeeps
  <1>7. flower' = [flower EXCEPT ![p] = f]
    BY <1>1
  <1>8. ASSUME sandbox[p] = Empty, NEW q \in Petal PROVE Holds(new, q) = Holds(account[p], q)
    <2>1. Progress(p) = account[p]
      BY <1>8, ProgressFacts
    <2>2. account[p].bag[x] + 1 <= Holds(account[p], x)
      BY <1>2, <1>3, <2>1, HeldRoom
    <2>3. /\ Holds(account[p], x) \in Nat /\ supply[x] \in Nat /\ account[p].bag[x] \in Nat
          /\ Holds(account[p], x) <= supply[x] /\ supply[x] <= MaxStack /\ Holds(account[p], q) \in Nat
      BY <1>3, RoomInBags
    <2>4. MaxStack \in Nat
      BY LoadoutAssumption
    <2>5. account[p].bag[x] + 1 <= MaxStack
      BY <2>2, <2>3, <2>4
    <2>6. Holds(acc, q) = Holds(account[p], q) + Same(x, q)
      BY <1>2, <1>3, <2>1, <2>5, PutBackHolds
    <2>7. Same(Empty, q) = 0 /\ acc.primary[s] = x
      BY <1>3, <1>4, KindsOfPetals DEF Same
    <2>8. Holds(new, q) = Holds(acc, q) - Same(x, q) + 0
      BY <1>5, <2>7
    <2>9. Same(x, q) \in Nat
      BY DEF Same
    <2> HIDE DEF new, acc, x
    <2> QED
      BY <2>3, <2>6, <2>8, <2>9
  <1> HIDE DEF x, acc, new, slots
  <1>9. f.slots = slots /\ f.state = flower[p].state /\ f.count = flower[p].count /\ f \in FlowerType
    BY <1>2, <1>6 DEF FlowerType, SlotType
  <1> HIDE DEF f
  <1>10. Fine(f)
    BY <1>2, <1>6, <1>9 DEF Fine
  <1>11. ShowsSaved(f, room[p], new)
    <2>1. \A r \in Slots : r # s => new.primary[r] = Progress(p).primary[r]
      BY <1>2, <1>4, <1>5, AccountFacts
    <2> QED
      BY <1>2, <1>1, <1>6, <1>9, <2>1 DEF ShowsSaved
  <1> QED
    BY <1>1, <1>5, <1>7, <1>8, <1>10, <1>11, EvenStep

\* What a slot holds that is given back fits in the bag.
LEMMA BackFits ==
  ASSUME LoadoutInv, NEW p \in Players, sandbox[p] = Empty, NEW x \in Petal,
         (\E s \in Slots : account[p].primary[s] = x) \/ account[p].secondary = x
  PROVE  account[p].bag[x] + 1 <= MaxStack /\ account[p].bag[x] \in Nat /\ supply[x] \in Nat /\ supply[x] >= 1
  <1>1. /\ account[p] \in Account /\ Holds(account[p], x) \in Nat /\ supply[x] \in Nat /\ account[p].bag[x] \in Nat
        /\ Holds(account[p], x) <= supply[x] /\ supply[x] <= MaxStack
    BY RoomInBags
  <1>2. account[p].bag[x] + 1 <= Holds(account[p], x)
    BY <1>1, HeldRoom
  <1>3. MaxStack \in Nat
    BY LoadoutAssumption
  <1> QED
    BY <1>1, <1>2, <1>3

LEMMA EquipKeeps ==
  ASSUME LoadoutInv, NEW p \in Players, NEW s \in Slots, NEW petal \in Petal, Equip(p, s, petal)
  PROVE  LoadoutInv'
  <1> DEFINE own == Progress(p)
             x == Shown(p, s)
             less == Take(own, petal, 1)
             acc == PutBack(less, x)
             new == [acc EXCEPT !.primary[s] = petal]
             slots == Equipped(flower[p].slots, s, petal)
             f == [flower[p] EXCEPT !.slots = slots]
             lost == x = Empty /\ own.primary[s] # Empty
  <1>1. /\ flower[p].state = "alive" /\ ~Strips(room[p]) /\ s < flower[p].count
        /\ own.bag[petal] > 0
        /\ SetProgress(p, new)
        /\ flower' = [flower EXCEPT ![p].slots = Equipped(@, s, petal)]
        /\ supply' = IF sandbox[p] = Empty /\ x = Empty /\ account[p].primary[s] # Empty
                       THEN [supply EXCEPT ![account[p].primary[s]] = @ - 1] ELSE supply
        /\ UNCHANGED <<room, registry>>
    BY DEF Equip, Alive, Shown, Locked, Strips
  <1>2. /\ own \in Account /\ Fine(flower[p]) /\ ShowsSaved(flower[p], room[p], own)
        /\ flower[p] \in FlowerType /\ OneWorksIn(flower[p].slots) /\ flower[p].slots \in SlotType
        /\ sandbox[p] = Empty => own = account[p]
    BY ProgressFacts
  <1>3. x \in Petal \cup {Empty} /\ own.primary[s] \in Petal \cup {Empty} /\ (x # Empty => x = own.primary[s])
    BY <1>1, <1>2, AccountFacts DEF ShowsSaved, Shown
  <1>4. /\ less \in Account /\ less.primary = own.primary
        /\ \A q \in Petal : less.bag[q] = own.bag[q] - Same(q, petal)
        /\ \A q \in Petal : Holds(less, q) = Holds(own, q) - Same(q, petal)
    BY <1>1, <1>2, TakeHolds
  <1>5. acc \in Account /\ acc.primary = own.primary
    BY <1>3, <1>4, PutBackHolds
  <1>6. /\ new \in Account /\ new.primary = [acc.primary EXCEPT ![s] = petal]
        /\ \A q \in Petal : Holds(new, q) = Holds(acc, q) - Same(acc.primary[s], q) + Same(petal, q)
    BY <1>5, PrimaryHolds
  <1>7. /\ slots \in SlotType /\ OneWorksIn(slots) /\ slots[s].petal = petal
        /\ \A r \in Slots \ {s} : /\ slots[r].petal = flower[p].slots[r].petal
                                  /\ flower[p].slots[r] = Bare => slots[r] = Bare
    BY <1>2, EquippedKeeps
  <1>8. flower' = [flower EXCEPT ![p] = f]
    BY <1>1
  <1>9. \A q \in Petal : Same(q, petal) \in Nat /\ Same(x, q) \in Nat /\ Same(own.primary[s], q) \in Nat
                         /\ Same(petal, q) = Same(q, petal) /\ Same(Empty, q) = 0
    BY KindsOfPetals DEF Same
  <1>10. \A q \in Petal : own.bag[q] \in Nat /\ Holds(own, q) \in Nat
    BY <1>2, AccountFacts
  <1>11. ASSUME sandbox[p] = Empty
         PROVE  /\ \A q \in Petal : Holds(new, q) = Holds(account[p], q) + supply'[q] - supply[q]
                /\ supply' \in [Petal -> Nat]
                /\ \A q \in Petal : supply'[q] \in Nat /\ supply[q] \in Nat /\ supply'[q] <= supply[q]
    <2>1. own = account[p]
      BY <1>2, <1>11
    <2>2. supply \in [Petal -> Nat] /\ \A q \in Petal : supply[q] \in Nat
      BY InvInParts DEF SupplyInv
    <2>3. x # Empty => less.bag[x] + 1 <= MaxStack
      <3> SUFFICES ASSUME x # Empty PROVE less.bag[x] + 1 <= MaxStack
        OBVIOUS
      <3>1. account[p].bag[x] + 1 <= MaxStack
        BY <1>3, <1>11, <2>1, BackFits
      <3>2. less.bag[x] = own.bag[x] - Same(x, petal) /\ Same(x, petal) \in Nat /\ own.bag[x] \in Nat
        BY <1>3, <1>4, <1>9, <1>10
      <3>3. MaxStack \in Nat
        BY LoadoutAssumption
      <3> HIDE DEF x, less, own
      <3> QED
        BY <2>1, <3>1, <3>2, <3>3
    <2>4. \A q \in Petal : Holds(acc, q) = Holds(less, q) + Same(x, q)
      BY <1>3, <1>4, <2>3, PutBackHolds
    <2>5. \A q \in Petal : Holds(new, q) = Holds(own, q) + Same(x, q) - Same(own.primary[s], q)
      <3> SUFFICES ASSUME NEW q \in Petal PROVE Holds(new, q) = Holds(own, q) + Same(x, q) - Same(own.primary[s], q)
        OBVIOUS
      <3>1. /\ Holds(acc, q) = Holds(less, q) + Same(x, q) /\ Holds(less, q) = Holds(own, q) - Same(q, petal)
            /\ Holds(new, q) = Holds(acc, q) - Same(own.primary[s], q) + Same(petal, q)
            /\ Same(q, petal) \in Nat /\ Same(x, q) \in Nat /\ Same(own.primary[s], q) \in Nat
            /\ Same(petal, q) = Same(q, petal) /\ Holds(own, q) \in Nat
        BY <1>4, <1>5, <1>6, <1>9, <1>10, <2>4
      <3> HIDE DEF new, acc, less, own, x
      <3> QED
        BY <3>1
    <2> DEFINE y == own.primary[s]
    <2>6. supply' = IF x = Empty /\ y # Empty THEN [supply EXCEPT ![y] = @ - 1] ELSE supply
      BY <1>1, <1>11, <2>1
    <2>7. y # Empty => supply[y] >= 1 /\ y \in Petal
      BY <1>3, <1>11, <2>1, BackFits
    <2> HIDE DEF y, x
    <2>8. ASSUME NEW q \in Petal
          PROVE  /\ supply'[q] = supply[q] + Same(x, q) - Same(y, q)
                 /\ supply'[q] \in Nat /\ supply'[q] <= supply[q]
      <3>0. supply[q] \in Nat /\ Same(Empty, q) = 0 /\ Same(x, q) \in Nat
        BY <1>9, <2>2
      <3>1. CASE x = Empty /\ y # Empty
        <4>1. supply'[q] = IF q = y THEN supply[q] - 1 ELSE supply[q]
          BY <2>2, <2>6, <2>7, <3>1
        <4> QED
          BY <2>7, <3>0, <3>1, <4>1 DEF Same
      <3>2. CASE x # Empty
        <4>1. x = y
          BY <1>3, <3>2 DEF y
        <4>2. supply'[q] = supply[q] /\ Same(x, q) = Same(y, q)
          BY <2>6, <3>2, <4>1
        <4> QED
          BY <3>0, <4>2
      <3>3. CASE x = Empty /\ y = Empty
        <4>1. supply'[q] = supply[q]
          BY <2>6, <3>3
        <4> QED
          BY <3>0, <3>3, <4>1
      <3> QED
        BY <3>1, <3>2, <3>3
    <2>9. ASSUME NEW q \in Petal PROVE Holds(new, q) = Holds(account[p], q) + supply'[q] - supply[q]
      <3>1. /\ Holds(new, q) = Holds(own, q) + Same(x, q) - Same(y, q)
            /\ Holds(own, q) \in Nat /\ Same(x, q) \in Nat /\ Same(y, q) \in Nat
            /\ supply'[q] = supply[q] + Same(x, q) - Same(y, q) /\ supply[q] \in Nat
        BY <1>9, <1>10, <2>2, <2>5, <2>8 DEF y
      <3> HIDE DEF new, own
      <3>2. Holds(new, q) = Holds(own, q) + supply'[q] - supply[q]
        BY <3>1
      <3> QED
        BY <2>1, <3>2
    <2>10. supply' \in [Petal -> Nat]
      <3>1. supply' = [q \in Petal |-> supply'[q]]
        BY <2>2, <2>6
      <3> QED
        BY <2>8, <3>1
    <2> QED
      BY <2>2, <2>8, <2>9, <2>10
  <1>13. ASSUME sandbox[p] = Empty
         PROVE  /\ \A t \in Types : supply'[UniqueOf(t)] <= supply[UniqueOf(t)]
                /\ \A q \in Petal : supply'[q] + Owed(q) <= MaxStack
    <2>1. \A q \in Petal : supply'[q] \in Nat /\ supply'[q] <= supply[q]
      BY <1>11, <1>13
    <2> QED
      BY <2>1, OwedFits, KindsOfPetals
  <1>14. sandbox[p] # Empty => supply' = supply
    BY <1>1
  <1> HIDE DEF x, acc, new, slots, less, own
  <1>15. f.slots = slots /\ f.state = flower[p].state /\ f.count = flower[p].count /\ f \in FlowerType
    BY <1>2, <1>7 DEF FlowerType, SlotType
  <1> HIDE DEF f
  <1>16. Fine(f)
    <2> SUFFICES ASSUME NEW r \in Slots, r >= f.count PROVE f.slots[r] = Bare
      BY <1>7, <1>15 DEF Fine
    <2>1. r # s
      <3>1. f.count \in Nat /\ s < f.count /\ s \in Nat /\ r \in Nat
        BY <1>1, <1>2, <1>15, SlotsAreNumbers, CountIsNat
      <3> QED
        BY <3>1
    <2> QED
      BY <1>2, <1>7, <1>15, <2>1 DEF Fine
  <1>17. ShowsSaved(f, room[p], new)
    <2>1. /\ \A r \in Slots \ {s} : new.primary[r] = own.primary[r]
          /\ new.primary[s] = petal
      BY <1>2, <1>5, <1>6, AccountFacts
    <2>2. \A r \in Slots \ {s} : f.slots[r].petal # Empty => f.slots[r].petal = new.primary[r]
      BY <1>1, <1>2, <1>7, <1>15, <2>1 DEF ShowsSaved
    <2> QED
      BY <1>1, <1>7, <1>15, <2>1, <2>2 DEF ShowsSaved
  <1>18. UNCHANGED <<room, registry>>
    BY <1>1
  <1> QED
    BY <1>1, <1>6, <1>8, <1>11, <1>13, <1>14, <1>16, <1>17, <1>18, ProgressStep

LEMMA SetSecondaryKeeps ==
  ASSUME LoadoutInv, NEW p \in Players, NEW petal \in Petal, SetSecondary(p, petal)
  PROVE  LoadoutInv'
  <1> DEFINE own == Progress(p)
             x == own.secondary
             less == Take(own, petal, 1)
             acc == PutBack(less, x)
             new == [acc EXCEPT !.secondary = petal]
  <1>1. own.bag[petal] > 0 /\ SetProgress(p, new) /\ UNCHANGED <<flower, room, registry, supply>>
    BY DEF SetSecondary
  <1>2. /\ own \in Account /\ Fine(flower[p]) /\ ShowsSaved(flower[p], room[p], own)
        /\ sandbox[p] = Empty => own = account[p]
    BY ProgressFacts
  <1>3. x \in Petal \cup {Empty}
    BY <1>2, AccountFacts
  <1>4. /\ less \in Account /\ less.primary = own.primary /\ less.secondary = own.secondary
        /\ \A q \in Petal : less.bag[q] = own.bag[q] - Same(q, petal)
        /\ \A q \in Petal : Holds(less, q) = Holds(own, q) - Same(q, petal)
    BY <1>1, <1>2, TakeHolds
  <1>5. acc \in Account /\ acc.primary = own.primary /\ acc.secondary = x
    BY <1>3, <1>4, PutBackHolds
  <1>6. /\ new \in Account /\ new.primary = acc.primary
        /\ \A q \in Petal : Holds(new, q) = Holds(acc, q) - Same(acc.secondary, q) + Same(petal, q)
    BY <1>5, SecondaryHolds
  <1>7. \A q \in Petal : Same(q, petal) \in Nat /\ Same(x, q) \in Nat /\ Same(petal, q) = Same(q, petal)
                         /\ own.bag[q] \in Nat /\ Holds(own, q) \in Nat
    BY <1>2, AccountFacts DEF Same
  <1>8. ASSUME sandbox[p] = Empty, NEW q \in Petal PROVE Holds(new, q) = Holds(account[p], q)
    <2>1. own = account[p]
      BY <1>2, <1>8
    <2>2. x # Empty => less.bag[x] + 1 <= MaxStack
      <3> SUFFICES ASSUME x # Empty PROVE less.bag[x] + 1 <= MaxStack
        OBVIOUS
      <3>1. account[p].bag[x] + 1 <= MaxStack
        BY <1>3, <1>8, <2>1, BackFits
      <3>2. less.bag[x] = own.bag[x] - Same(x, petal) /\ Same(x, petal) \in Nat /\ own.bag[x] \in Nat
        BY <1>3, <1>4, <1>7
      <3>3. MaxStack \in Nat
        BY LoadoutAssumption
      <3> HIDE DEF x, less, own
      <3> QED
        BY <2>1, <3>1, <3>2, <3>3
    <2>3. Holds(acc, q) = Holds(less, q) + Same(x, q)
      BY <1>3, <1>4, <2>2, PutBackHolds
    <2>4. /\ Holds(less, q) = Holds(own, q) - Same(q, petal)
          /\ Holds(new, q) = Holds(acc, q) - Same(x, q) + Same(petal, q)
          /\ Same(q, petal) \in Nat /\ Same(x, q) \in Nat /\ Same(petal, q) = Same(q, petal)
          /\ Holds(own, q) \in Nat
      BY <1>4, <1>5, <1>6, <1>7
    <2> HIDE DEF x, less, acc, new, own
    <2>5. Holds(new, q) = Holds(own, q)
      BY <2>3, <2>4
    <2> QED
      BY <2>1, <2>5
  <1>9. ShowsSaved(flower[p], room[p], new)
    BY <1>2, <1>5, <1>6 DEF ShowsSaved
  <1>10. flower' = [flower EXCEPT ![p] = flower[p]]
    <2>1. flower = [q \in Players |-> flower[q]]
      BY InvInParts DEF PlayersInv
    <2> QED
      BY <1>1, <2>1
  <1>11. UNCHANGED <<room, registry, supply>>
    BY <1>1
  <1> HIDE DEF x, less, acc, new, own
  <1> QED
    BY <1>1, <1>2, <1>6, <1>8, <1>9, <1>10, <1>11, EvenStep

LEMMA ClearSecondaryKeeps ==
  ASSUME LoadoutInv, NEW p \in Players, ClearSecondary(p)
  PROVE  LoadoutInv'
  <1> DEFINE own == Progress(p)
             x == own.secondary
             acc == PutBack(own, x)
             new == [acc EXCEPT !.secondary = Empty]
  <1>1. x # Empty /\ SetProgress(p, new) /\ UNCHANGED <<flower, room, registry, supply>>
    BY DEF ClearSecondary
  <1>2. /\ own \in Account /\ Fine(flower[p]) /\ ShowsSaved(flower[p], room[p], own)
        /\ sandbox[p] = Empty => own = account[p]
    BY ProgressFacts
  <1>3. x \in Petal \cup {Empty} /\ x \in Petal
    BY <1>1, <1>2, AccountFacts
  <1>5. acc \in Account /\ acc.primary = own.primary /\ acc.secondary = x
    BY <1>2, <1>3, PutBackHolds
  <1>6. /\ new \in Account /\ new.primary = acc.primary
        /\ \A q \in Petal : Holds(new, q) = Holds(acc, q) - Same(acc.secondary, q) + Same(Empty, q)
    BY <1>5, SecondaryHolds
  <1>7. \A q \in Petal : Same(x, q) \in Nat /\ Same(Empty, q) = 0 /\ Holds(own, q) \in Nat
    BY <1>2, AccountFacts, KindsOfPetals DEF Same
  <1>8. ASSUME sandbox[p] = Empty, NEW q \in Petal PROVE Holds(new, q) = Holds(account[p], q)
    <2>1. own = account[p]
      BY <1>2, <1>8
    <2>2. own.bag[x] + 1 <= MaxStack
      BY <1>3, <1>8, <2>1, BackFits
    <2>3. Holds(acc, q) = Holds(own, q) + Same(x, q)
      BY <1>2, <1>3, <2>2, PutBackHolds
    <2>4. /\ Holds(new, q) = Holds(acc, q) - Same(x, q) + Same(Empty, q)
          /\ Same(Empty, q) = 0 /\ Same(x, q) \in Nat /\ Holds(own, q) \in Nat
      BY <1>5, <1>6, <1>7
    <2> HIDE DEF x, acc, new, own
    <2>5. Holds(new, q) = Holds(own, q)
      BY <2>3, <2>4
    <2> QED
      BY <2>1, <2>5
  <1>9. ShowsSaved(flower[p], room[p], new)
    BY <1>2, <1>5, <1>6 DEF ShowsSaved
  <1>10. flower' = [flower EXCEPT ![p] = flower[p]]
    <2>1. flower = [q \in Players |-> flower[q]]
      BY InvInParts DEF PlayersInv
    <2> QED
      BY <1>1, <2>1
  <1>11. UNCHANGED <<room, registry, supply>>
    BY <1>1
  <1> HIDE DEF x, acc, new, own
  <1> QED
    BY <1>1, <1>2, <1>6, <1>8, <1>9, <1>10, <1>11, EvenStep

-----------------------------------------------------------------------------
\* An account whose slots lose a petal: some of them return it to the bag.
LEMMA EmptiedHolds ==
  ASSUME NEW acc \in Account, NEW q \in Petal, Holds(acc, q) <= MaxStack,
         NEW B \in SUBSET Held(acc, q), NEW L \in SUBSET (Held(acc, q) \ B),
         NEW new, new.secondary = acc.secondary,
         new.bag[q] = Lowest(acc.bag[q] + Cardinality(B), MaxStack),
         Held(new, q) = (Held(acc, q) \ B) \ L
  PROVE  Cardinality(L) \in Nat /\ Holds(new, q) = Holds(acc, q) - Cardinality(L)
  <1> DEFINE H == Held(acc, q)
             R == H \ B
             k == acc.bag[q]
             m == InSecondary(acc, q)
  <1>1. IsFiniteSet(H) /\ Cardinality(H) \in Nat
    BY Heldfacts
  <1>2. k \in Nat /\ m \in Nat /\ MaxStack \in Nat /\ Holds(acc, q) = k + Cardinality(H) + m
    BY AccountFacts DEF Holds, InSecondary
  <1>3. InSecondary(new, q) = m
    BY DEF InSecondary
  <1>4. new.bag[q] = Lowest(k + Cardinality(B), MaxStack) /\ Held(new, q) = R \ L
    OBVIOUS
  <1>5. /\ IsFiniteSet(B) /\ Cardinality(B) \in Nat /\ Cardinality(B) <= Cardinality(H)
        /\ Cardinality(R) = Cardinality(H) - Cardinality(B) /\ IsFiniteSet(R)
    <2>1. H \cap B = B /\ B \in SUBSET H
      OBVIOUS
    <2>2. IsFiniteSet(B) /\ Cardinality(B) \in Nat /\ Cardinality(B) <= Cardinality(H)
      BY <1>1, <2>1, FS_Subset, FS_CardinalityType
    <2> HIDE DEF H
    <2>3. Cardinality(R) = Cardinality(H) - Cardinality(B) /\ IsFiniteSet(R)
      BY <1>1, <2>1, FS_Difference
    <2> QED
      BY <2>2, <2>3
  <1>6. L \in SUBSET R
    OBVIOUS
  <1> HIDE DEF H, R, k, m
  <1>7. /\ IsFiniteSet(L) /\ Cardinality(L) \in Nat /\ Cardinality(L) <= Cardinality(R)
        /\ Cardinality(R \ L) = Cardinality(R) - Cardinality(L)
    <2>1. R \cap L = L
      BY <1>6
    <2>2. IsFiniteSet(L) /\ Cardinality(L) \in Nat /\ Cardinality(L) <= Cardinality(R)
      BY <1>5, <1>6, FS_Subset, FS_CardinalityType
    <2>3. Cardinality(R \ L) = Cardinality(R) - Cardinality(L)
      <3>1. Cardinality(R \ L) = Cardinality(R) - Cardinality(R \cap L)
        BY <1>5, FS_Difference
      <3> QED
        BY <2>1, <3>1
    <2> QED
      BY <2>2, <2>3
  <1>8. Lowest(k + Cardinality(B), MaxStack) = k + Cardinality(B)
    <2>1. k + Cardinality(B) <= MaxStack
      BY <1>1, <1>2, <1>5
    <2> QED
      BY <1>2, <1>5, <2>1 DEF Lowest
  <1>9. Holds(new, q) = (k + Cardinality(B)) + Cardinality(R \ L) + m
    BY <1>3, <1>4, <1>8 DEF Holds
  <1> QED
    BY <1>1, <1>2, <1>5, <1>7, <1>9

\* The slots that go when a player has fewer of them.
Gone(p, n) == {s \in Slots : s >= n /\ Shown(p, s) # Empty}
Back(p, n, petal) == Cardinality({s \in Gone(p, n) : Shown(p, s) = petal})
Relearned(p, n) == [Progress(p) EXCEPT !.talentSlots = n]
Shortened(p, n) ==
  [Relearned(p, n) EXCEPT
     !.bag = [petal \in Petal |-> Lowest(@[petal] + Back(p, n, petal), MaxStack)],
     !.primary = [s \in Slots |-> IF s \in Gone(p, n) THEN Empty ELSE @[s]]]

\* No petal is lost with the slots it was in.
LEMMA ShortenedHolds ==
  ASSUME LoadoutInv, NEW p \in Players, ~Strips(room[p]), flower[p].state # "gone",
         NEW n \in FirstSlots..MaxSlots
  PROVE  /\ Shortened(p, n) \in Account
         /\ \A s \in Slots : s < n => Shortened(p, n).primary[s] = Progress(p).primary[s]
         /\ sandbox[p] = Empty => \A q \in Petal : Holds(Shortened(p, n), q) = Holds(account[p], q)
  <1> DEFINE own == Progress(p)  new == Shortened(p, n)  gone == Gone(p, n)
             bag == [petal \in Petal |-> Lowest(own.bag[petal] + Back(p, n, petal), MaxStack)]
             primary == [s \in Slots |-> IF s \in gone THEN Empty ELSE own.primary[s]]
  <1>0. n \in Nat /\ MaxStack \in Nat
    BY LoadoutAssumption
  <1>1. own \in Account /\ ShowsSaved(flower[p], room[p], own) /\ (sandbox[p] = Empty => own = account[p])
    BY ProgressFacts
  <1>2. own.bag \in [Petal -> 0..MaxStack] /\ own.primary \in [Slots -> Petal \cup {Empty}]
    BY <1>1, AccountFacts
  <1>3. gone \in SUBSET Slots /\ \A s \in gone : s >= n /\ Shown(p, s) = own.primary[s]
    BY <1>1 DEF Gone, ShowsSaved, Shown
  <1>4. \A q \in Petal : Back(p, n, q) = Cardinality({s \in gone : own.primary[s] = q})
    <2> SUFFICES ASSUME NEW q \in Petal
                 PROVE  {s \in gone : Shown(p, s) = q} = {s \in gone : own.primary[s] = q}
      BY DEF Back
    <2> QED
      BY <1>3
  <1>5. \A q \in Petal : Back(p, n, q) \in Nat
    <2> SUFFICES ASSUME NEW q \in Petal PROVE Cardinality({s \in gone : own.primary[s] = q}) \in Nat
      BY <1>4
    <2>1. {s \in gone : own.primary[s] = q} \in SUBSET Slots
      BY <1>3
    <2> QED
      BY <2>1, SlotsAreNumbers, FS_Subset, FS_CardinalityType
  <1>6. bag \in [Petal -> 0..MaxStack] /\ primary \in [Slots -> Petal \cup {Empty}]
    <2>1. \A q \in Petal : Lowest(own.bag[q] + Back(p, n, q), MaxStack) \in 0..MaxStack
      BY <1>0, <1>2, <1>5 DEF Lowest
    <2> QED
      BY <1>2, <2>1
  <1>7. new = [[Progress(p) EXCEPT !.talentSlots = n] EXCEPT !.bag = bag, !.primary = primary]
    BY <1>1 DEF Shortened, Relearned, Account
  <1>8. /\ \A q \in Petal : bag[q] = Lowest(own.bag[q] + Cardinality({s \in gone : own.primary[s] = q}), MaxStack)
        /\ \A s \in Slots : primary[s] = IF s \in gone THEN Empty ELSE own.primary[s]
    BY <1>4
  <1> HIDE DEF bag, primary, new, gone
  <1>9. new \in Account /\ new.bag = bag /\ new.primary = primary /\ new.secondary = own.secondary
    BY <1>1, <1>6, <1>7 DEF Account
  <1>10. \A s \in Slots : s < n => new.primary[s] = own.primary[s]
    <2> SUFFICES ASSUME NEW s \in Slots, s < n, s \in gone PROVE FALSE
      BY <1>8, <1>9
    <2>1. s \in Nat /\ s >= n
      BY <1>3, SlotsAreNumbers
    <2> QED
      BY <1>0, <2>1
  <1>11. ASSUME sandbox[p] = Empty, NEW q \in Petal PROVE Holds(new, q) = Holds(own, q)
    <2>1. Holds(own, q) <= MaxStack /\ Holds(own, q) \in Nat
      <3>1. /\ Holds(account[p], q) \in Nat /\ supply[q] \in Nat
            /\ Holds(account[p], q) <= supply[q] /\ supply[q] <= MaxStack
        BY RoomInBags
      <3>2. own = account[p]
        BY <1>1, <1>11
      <3>3. Holds(account[p], q) <= MaxStack
        BY <1>0, <3>1
      <3> QED
        BY <3>1, <3>2, <3>3
    <2> DEFINE B == {s \in gone : own.primary[s] = q}  L == {}
    <2>2. new.bag[q] = Lowest(own.bag[q] + Cardinality(B), MaxStack) /\ new.secondary = own.secondary
      BY <1>8, <1>9
    <2>3. B \in SUBSET Held(own, q) /\ L \in SUBSET (Held(own, q) \ B)
      BY <1>3 DEF Held
    <2>4. Held(new, q) = (Held(own, q) \ B) \ L
      BY <1>3, <1>8, <1>9, KindsOfPetals DEF Held
    <2>5. Cardinality(L) = 0 /\ q \in Petal
      BY FS_EmptySet
    <2> HIDE DEF own, B, L
    <2>6. Holds(new, q) = Holds(own, q) - Cardinality(L)
      BY <1>1, <2>1, <2>2, <2>3, <2>4, <2>5, EmptiedHolds
    <2> QED
      BY <2>1, <2>5, <2>6
  <1> QED
    BY <1>1, <1>9, <1>10, <1>11 DEF new

LEMMA LearnSlotsKeeps ==
  ASSUME LoadoutInv, NEW p \in Players, NEW n \in FirstSlots..MaxSlots, LearnSlots(p, n)
  PROVE  LoadoutInv'
  <1> DEFINE own == Progress(p)
             slots == [s \in Slots |-> IF s < n THEN flower[p].slots[s] ELSE Bare]
             f == [flower[p] EXCEPT !.count = n, !.slots = slots]
  <1>1. /\ flower[p].state # "gone"
        /\ SetProgress(p, IF Locked(room[p]) THEN Relearned(p, n) ELSE Shortened(p, n))
        /\ flower' = IF Locked(room[p]) THEN flower
                     ELSE [flower EXCEPT ![p].count = n, ![p].slots = [s \in Slots |-> IF s < n THEN @[s] ELSE Bare]]
        /\ UNCHANGED <<room, registry, supply>>
    BY DEF LearnSlots, Relearned, Shortened, Gone, Back
  <1>2. /\ own \in Account /\ Fine(flower[p]) /\ ShowsSaved(flower[p], room[p], own)
        /\ flower[p] \in FlowerType /\ OneWorksIn(flower[p].slots) /\ flower[p].slots \in SlotType
        /\ sandbox[p] = Empty => own = account[p]
    BY ProgressFacts
  <1>3. n \in Nat /\ n \in FirstSlots..MaxSlots
    BY LoadoutAssumption
  <1>4. UNCHANGED <<room, registry, supply>>
    BY <1>1
  <1>5. CASE Locked(room[p])
    <2> DEFINE new == Relearned(p, n)
    <2>1. /\ new \in Account /\ new.bag = own.bag /\ new.primary = own.primary /\ new.secondary = own.secondary
      BY <1>2, <1>3 DEF Relearned, Account
    <2> HIDE DEF new
    <2>2. \A q \in Petal : Holds(new, q) = Holds(own, q)
      BY <2>1 DEF Holds, Held, InSecondary
    <2>3. ShowsSaved(flower[p], room[p], new)
      BY <1>2, <2>1 DEF ShowsSaved
    <2>4. flower' = [flower EXCEPT ![p] = flower[p]]
      <3>1. flower = [q \in Players |-> flower[q]]
        BY InvInParts DEF PlayersInv
      <3> QED
        BY <1>1, <1>5, <3>1
    <2>5. SetProgress(p, new) /\ (sandbox[p] = Empty => \A q \in Petal : Holds(new, q) = Holds(account[p], q))
      BY <1>1, <1>2, <1>5, <2>2 DEF new
    <2> QED
      BY <1>2, <1>4, <2>1, <2>3, <2>4, <2>5, EvenStep
  <1>6. CASE ~Locked(room[p])
    <2> DEFINE new == Shortened(p, n)
    <2>0. ~Strips(room[p])
      BY <1>6 DEF Strips, Locked
    <2>1. /\ new \in Account
          /\ \A s \in Slots : s < n => new.primary[s] = own.primary[s]
          /\ sandbox[p] = Empty => \A q \in Petal : Holds(new, q) = Holds(account[p], q)
      BY <1>1, <2>0, ShortenedHolds
    <2>2. /\ slots \in SlotType /\ OneWorksIn(slots)
          /\ \A s \in Slots : /\ slots[s].petal # Empty => slots[s].petal = flower[p].slots[s].petal /\ s < n
                              /\ s >= n => slots[s] = Bare
      BY <1>2, <1>3, TrimmedKeeps
    <2>3. flower' = [flower EXCEPT ![p] = f]
      <3>1. flower = [q \in Players |-> flower[q]] /\ flower[p] \in FlowerType
        BY <1>2, InvInParts DEF PlayersInv
      <3>2. flower' = [flower EXCEPT ![p].count = n, ![p].slots = [s \in Slots |-> IF s < n THEN @[s] ELSE Bare]]
        BY <1>1, <1>6
      <3>3. [flower[p] EXCEPT !.count = n].slots = flower[p].slots
        BY <3>1 DEF FlowerType
      <3>4. [[flower[p] EXCEPT !.count = n] EXCEPT !.slots = slots] = f
        BY <3>1 DEF FlowerType
      <3>5. flower' = [flower EXCEPT ![p] = [[flower[p] EXCEPT !.count = n] EXCEPT !.slots = slots]]
        BY <3>1, <3>2, <3>3
      <3> QED
        BY <3>4, <3>5
    <2>4. SetProgress(p, new)
      BY <1>1, <1>6
    <2> HIDE DEF new, slots
    <2>5. f.slots = slots /\ f.state = flower[p].state /\ f.count = n /\ f \in FlowerType
      BY <1>2, <1>3, <2>2 DEF FlowerType, SlotType
    <2> HIDE DEF f
    <2>6. Fine(f)
      BY <2>2, <2>5 DEF Fine
    <2>7. ShowsSaved(f, room[p], new)
      BY <1>2, <2>0, <2>1, <2>2, <2>5 DEF ShowsSaved
    <2> QED
      BY <1>4, <2>1, <2>3, <2>4, <2>6, <2>7, EvenStep
  <1> QED
    BY <1>5, <1>6

\* An action that only changes the flower of a player.
LEMMA FlowerStep ==
  ASSUME LoadoutInv, NEW p \in Players, NEW f, Fine(f), ShowsSaved(f, room[p], Progress(p)),
         flower' = [flower EXCEPT ![p] = f], UNCHANGED <<account, sandbox, room, registry, supply>>
  PROVE  LoadoutInv'
  <1>1. account \in [Players -> Account] /\ sandbox \in [Players -> Account \cup {Empty}]
    BY InvInParts DEF PlayersInv
  <1>2. Progress(p) \in Account /\ (sandbox[p] = Empty => Progress(p) = account[p])
    BY ProgressFacts
  <1>3. SetProgress(p, Progress(p))
    BY <1>1 DEF SetProgress, Progress
  <1>4. UNCHANGED <<room, registry, supply>>
    OBVIOUS
  <1>5. sandbox[p] = Empty => \A q \in Petal : Holds(Progress(p), q) = Holds(account[p], q)
    BY <1>2
  <1> QED
    BY <1>2, <1>3, <1>4, <1>5, EvenStep

\* What a death takes off was saved, and what the account holds then: as many
\* petals fewer as it took and did not return.
LEMMA OutlivedHolds ==
  ASSUME LoadoutInv, NEW p \in Players, flower[p].state # "gone", NEW given \in Given(p),
         NEW gone, gone = Consumed(p) \cup given
  PROVE  LET new == Outlived(p, gone)
         IN /\ new \in Account
            /\ \A s \in Slots : s \notin gone => new.primary[s] = Progress(p).primary[s]
            /\ sandbox[p] = Empty => \A q \in Petal :
                 LET lost == Showing(p, gone \ Returned(p), q)
                 IN /\ lost \in Nat /\ supply[q] - lost \in Nat
                    /\ Holds(new, q) = Holds(account[p], q) - lost
  <1> DEFINE own == Progress(p)  new == Outlived(p, gone)  back == Returned(p)
             bag == [petal \in Petal |-> Lowest(own.bag[petal] + Showing(p, back, petal), MaxStack)]
             primary == [s \in Slots |-> IF s \in gone THEN Empty ELSE own.primary[s]]
  <1>0. MaxStack \in Nat /\ Sacrificed \subseteq Types /\ Corrupting \subseteq Types
    BY LoadoutAssumption
  <1>1. own \in Account /\ ShowsSaved(flower[p], room[p], own) /\ (sandbox[p] = Empty => own = account[p])
    BY ProgressFacts
  <1>2. own.bag \in [Petal -> 0..MaxStack] /\ own.primary \in [Slots -> Petal \cup {Empty}]
    BY <1>1, AccountFacts
  <1>3. /\ gone \in SUBSET Slots /\ back \in SUBSET gone
        /\ \A s \in gone : Shown(p, s) # Empty /\ Shown(p, s).type \in Types
    <2>1. \A s \in given : s \in Offered(p)
      BY DEF Given
    <2>2. \A s \in Offered(p) : s \in Slots /\ Shown(p, s) # Empty /\ Shown(p, s).type \in Types
      BY <1>0 DEF Offered
    <2>3. \A s \in Consumed(p) : s \in Slots /\ Shown(p, s) # Empty /\ Shown(p, s).type \in Types
      BY <1>0 DEF Consumed
    <2>4. back \in SUBSET Consumed(p)
      BY DEF Returned
    <2> QED
      BY <2>1, <2>2, <2>3, <2>4
  <1>4. \A s \in gone : Shown(p, s) = own.primary[s]
    BY <1>1, <1>3, DealtIsApart DEF ShowsSaved, Shown
  <1>5. ASSUME NEW q \in Petal, NEW ss \in SUBSET gone
        PROVE  Showing(p, ss, q) = Cardinality({s \in ss : own.primary[s] = q}) /\ Showing(p, ss, q) \in Nat
    <2>1. {s \in ss : Shown(p, s) = q} = {s \in ss : own.primary[s] = q}
      BY <1>4
    <2>2. {s \in ss : own.primary[s] = q} \in SUBSET Slots
      BY <1>3
    <2>3. Cardinality({s \in ss : own.primary[s] = q}) \in Nat
      BY <2>2, SlotsAreNumbers, FS_Subset, FS_CardinalityType
    <2> QED
      BY <2>1, <2>3 DEF Showing
  <1>6. bag \in [Petal -> 0..MaxStack] /\ primary \in [Slots -> Petal \cup {Empty}]
    <2>0. back \in SUBSET gone
      BY <1>3
    <2>1. ASSUME NEW q \in Petal PROVE Showing(p, back, q) \in Nat /\ own.bag[q] \in Nat
      <3>1. Showing(p, back, q) \in Nat
        BY <1>5, <2>0
      <3> QED
        BY <1>2, <3>1
    <2>2. \A q \in Petal : Lowest(own.bag[q] + Showing(p, back, q), MaxStack) \in 0..MaxStack
      BY <1>0, <2>1 DEF Lowest
    <2> QED
      BY <1>2, <2>2
  <1>7. new = [own EXCEPT !.bag = bag, !.primary = primary]
    BY DEF Outlived
  <1>8. /\ \A q \in Petal : bag[q] = Lowest(own.bag[q] + Cardinality({s \in back : own.primary[s] = q}), MaxStack)
        /\ \A s \in Slots : primary[s] = IF s \in gone THEN Empty ELSE own.primary[s]
    BY <1>3, <1>5
  <1> HIDE DEF bag, primary, new, back
  <1>9. new \in Account /\ new.bag = bag /\ new.primary = primary /\ new.secondary = own.secondary
    BY <1>1, <1>6, <1>7 DEF Account
  <1>10. \A s \in Slots : s \notin gone => new.primary[s] = own.primary[s]
    BY <1>8, <1>9
  <1>11. ASSUME sandbox[p] = Empty, NEW q \in Petal
         PROVE  LET lost == Showing(p, gone \ back, q)
                IN /\ lost \in Nat /\ supply[q] - lost \in Nat
                   /\ Holds(new, q) = Holds(own, q) - lost
    <2> DEFINE lost == Showing(p, gone \ back, q)
               B == {s \in back : own.primary[s] = q}
               L == {s \in gone \ back : own.primary[s] = q}
    <2>1. /\ Holds(own, q) \in Nat /\ supply[q] \in Nat
          /\ Holds(own, q) <= supply[q] /\ supply[q] <= MaxStack
      <3>1. /\ Holds(account[p], q) \in Nat /\ supply[q] \in Nat
            /\ Holds(account[p], q) <= supply[q] /\ supply[q] <= MaxStack
        BY RoomInBags
      <3>2. own = account[p]
        BY <1>1, <1>11
      <3> QED
        BY <3>1, <3>2
    <2>2. Holds(own, q) <= MaxStack
      BY <1>0, <2>1
    <2>3. new.bag[q] = Lowest(own.bag[q] + Cardinality(B), MaxStack) /\ new.secondary = own.secondary
      BY <1>8, <1>9
    <2>4. B \in SUBSET Held(own, q) /\ L \in SUBSET (Held(own, q) \ B)
      BY <1>3 DEF Held
    <2>5. Held(new, q) = (Held(own, q) \ B) \ L
      BY <1>3, <1>8, <1>9, KindsOfPetals DEF Held
    <2>6. q \in Petal
      OBVIOUS
    <2>7. lost = Cardinality(L) /\ lost \in Nat
      BY <1>5
    <2>8. Holds(new, q) \in Nat
      BY <1>9, AccountFacts
    <2> HIDE DEF own, lost, B, L
    <2>9. Holds(new, q) = Holds(own, q) - lost
      BY <1>1, <2>2, <2>3, <2>4, <2>5, <2>6, <2>7, EmptiedHolds
    <2>10. supply[q] - lost \in Nat
      BY <2>1, <2>7, <2>8, <2>9
    <2> QED
      BY <2>7, <2>9, <2>10 DEF lost
  <1> QED
    BY <1>1, <1>9, <1>10, <1>11 DEF new, back

LEMMA DieKeeps ==
  ASSUME LoadoutInv, NEW p \in Players, Die(p)
  PROVE  LoadoutInv'
  <1> DEFINE own == Progress(p)
  <1>1. /\ own \in Account /\ Fine(flower[p]) /\ ShowsSaved(flower[p], room[p], own)
        /\ flower[p] \in FlowerType /\ OneWorksIn(flower[p].slots) /\ flower[p].slots \in SlotType
        /\ sandbox[p] = Empty => own = account[p]
    BY ProgressFacts
  <1>2. flower[p].state = "alive" /\ UNCHANGED <<room, registry>>
    BY DEF Die, Alive
  <1>3. PICK given \in Given(p) :
          /\ flower' = [flower EXCEPT ![p].state = "dead", ![p].slots = ForceUnequip(@, Consumed(p) \cup given)]
          /\ SetProgress(p, Outlived(p, Consumed(p) \cup given))
          /\ supply' = IF sandbox[p] = Empty
                         THEN [petal \in Petal |->
                                 supply[petal] - Showing(p, (Consumed(p) \cup given) \ Returned(p), petal)]
                         ELSE supply
    BY DEF Die
  <1> DEFINE gone == Consumed(p) \cup given
             new == Outlived(p, gone)
             slots == ForceUnequip(flower[p].slots, gone)
             f == [flower[p] EXCEPT !.state = "dead", !.slots = slots]
             lost(q) == Showing(p, gone \ Returned(p), q)
  <1>4. /\ new \in Account
        /\ \A s \in Slots : s \notin gone => new.primary[s] = own.primary[s]
        /\ sandbox[p] = Empty => \A q \in Petal :
             /\ lost(q) \in Nat /\ supply[q] - lost(q) \in Nat
             /\ Holds(new, q) = Holds(account[p], q) - lost(q)
    BY <1>2, OutlivedHolds
  <1>5. /\ slots \in SlotType /\ OneWorksIn(slots)
        /\ \A r \in Slots : /\ slots[r].petal = IF r \in gone THEN Empty ELSE flower[p].slots[r].petal
                            /\ flower[p].slots[r] = Bare => slots[r] = Bare
    <2> HIDE DEF gone
    <2> QED
      BY <1>1, ForceUnequipKeeps
  <1>6. flower' = [flower EXCEPT ![p] = f]
    <2>1. flower = [q \in Players |-> flower[q]] /\ flower[p] \in FlowerType
      BY <1>1, InvInParts DEF PlayersInv
    <2>2. flower' = [flower EXCEPT ![p].state = "dead", ![p].slots = ForceUnequip(@, gone)]
      BY <1>3
    <2>3. [flower[p] EXCEPT !.state = "dead"].slots = flower[p].slots
      BY <2>1 DEF FlowerType
    <2> QED
      BY <2>1, <2>2, <2>3
  <1>7. /\ SetProgress(p, new)
        /\ supply' = IF sandbox[p] = Empty THEN [q \in Petal |-> supply[q] - lost(q)] ELSE supply
    BY <1>3
  <1> HIDE DEF gone, new, slots, lost
  <1>8. ASSUME sandbox[p] = Empty
        PROVE  /\ supply' \in [Petal -> Nat]
               /\ \A q \in Petal : Holds(new, q) = Holds(account[p], q) + supply'[q] - supply[q]
               /\ \A t \in Types : supply'[UniqueOf(t)] <= supply[UniqueOf(t)]
               /\ \A q \in Petal : supply'[q] + Owed(q) <= MaxStack
    <2>1. supply' = [q \in Petal |-> supply[q] - lost(q)]
      BY <1>7, <1>8
    <2>2. \A q \in Petal : /\ supply'[q] = supply[q] - lost(q) /\ lost(q) \in Nat /\ supply'[q] \in Nat
                           /\ supply[q] \in Nat /\ Holds(new, q) = Holds(account[p], q) - lost(q)
                           /\ Holds(account[p], q) \in Nat
      BY <1>1, <1>4, <1>8, <2>1, OwedFits, AccountFacts
    <2>3. supply' \in [Petal -> Nat]
      BY <2>1, <2>2
    <2>4. ASSUME NEW q \in Petal
          PROVE  /\ Holds(new, q) = Holds(account[p], q) + supply'[q] - supply[q]
                 /\ supply'[q] <= supply[q] /\ supply'[q] \in Nat
      <3> DEFINE k == lost(q)  h == Holds(account[p], q)  i == supply[q]
      <3>1. supply'[q] = i - k /\ k \in Nat /\ supply'[q] \in Nat /\ i \in Nat /\ Holds(new, q) = h - k /\ h \in Nat
        BY <2>2
      <3> HIDE DEF k, h, i
      <3>2. Holds(new, q) = h + supply'[q] - i /\ supply'[q] <= i /\ supply'[q] \in Nat
        BY <3>1
      <3> QED
        BY <3>2 DEF h, i
    <2> QED
      BY <2>3, <2>4, OwedFits, KindsOfPetals
  <1>9. f.slots = slots /\ f.state = "dead" /\ f.count = flower[p].count /\ f \in FlowerType
    BY <1>1, <1>5 DEF FlowerType, SlotType
  <1> HIDE DEF f
  <1>10. Fine(f)
    BY <1>1, <1>5, <1>9 DEF Fine
  <1>11. ShowsSaved(f, room[p], new)
    <2> SUFFICES ASSUME NEW s \in Slots, f.slots[s].petal # Empty
                 PROVE  IF Strips(room[p]) THEN room[p] = "kingdom" /\ f.slots[s].petal = Dealt /\ s \in 1..Groups
                        ELSE f.slots[s].petal = new.primary[s]
      BY DEF ShowsSaved
    <2>1. s \notin gone /\ f.slots[s].petal = flower[p].slots[s].petal /\ flower[p].slots[s].petal # Empty
      BY <1>5, <1>9
    <2>2. new.primary[s] = own.primary[s]
      BY <1>4, <2>1
    <2> QED
      BY <1>1, <1>2, <2>1, <2>2 DEF ShowsSaved
  <1>12. sandbox[p] # Empty => supply' = supply
    BY <1>7
  <1> QED
    BY <1>2, <1>4, <1>6, <1>7, <1>8, <1>10, <1>11, <1>12, ProgressStep

LEMMA ReviveKeeps ==
  ASSUME LoadoutInv, NEW p \in Players, Revive(p)
  PROVE  LoadoutInv'
  <1> DEFINE f == [flower[p] EXCEPT !.state = "alive"]
  <1>1. /\ Fine(flower[p]) /\ ShowsSaved(flower[p], room[p], Progress(p)) /\ flower[p] \in FlowerType
    BY ProgressFacts
  <1>2. /\ flower[p].state = "dead" /\ flower' = [flower EXCEPT ![p] = f]
        /\ UNCHANGED <<account, sandbox, room, registry, supply>>
    BY DEF Revive
  <1>3. f \in FlowerType /\ f.slots = flower[p].slots /\ f.count = flower[p].count
    BY <1>1 DEF FlowerType
  <1> HIDE DEF f
  <1>4. Fine(f)
    BY <1>1, <1>3 DEF Fine
  <1>5. ShowsSaved(f, room[p], Progress(p))
    BY <1>1, <1>2, <1>3 DEF ShowsSaved
  <1> QED
    BY <1>2, <1>4, <1>5, FlowerStep

\* A new flower shows what is saved.
LEMMA SpawnedIsFine ==
  ASSUME LoadoutInv, NEW p \in Players
  PROVE  Fine(Spawned(p)) /\ ShowsSaved(Spawned(p), room[p], Progress(p))
  <1> DEFINE count == IF Locked(room[p]) THEN FirstSlots ELSE Progress(p).talentSlots
             slots == LoadSavedSlots(count, Progress(p))
             f == [state |-> "alive", count |-> count, slots |-> slots]
  <1>1. Progress(p) \in Account
    BY ProgressFacts
  <1>2. count \in FirstSlots..MaxSlots /\ count \in Nat
    BY <1>1, AccountFacts, LoadoutAssumption
  <1> HIDE DEF count
  <1>3. /\ slots \in SlotType /\ OneWorksIn(slots)
        /\ \A s \in Slots : /\ slots[s].petal = IF s < count THEN Progress(p).primary[s] ELSE Empty
                            /\ s >= count => slots[s] = Bare
    BY <1>1, <1>2, LoadSavedKeeps
  <1>4. Spawned(p) = Arrived(f, room[p])
    BY DEF Spawned, count
  <1> HIDE DEF slots
  <1>5. f \in FlowerType /\ f.slots = slots /\ f.count = count /\ f.state # "gone"
    BY <1>2, <1>3 DEF FlowerType, SlotType
  <1> HIDE DEF f
  <1>6. Fine(f)
    BY <1>3, <1>5 DEF Fine
  <1>7. \A s \in Slots : f.slots[s].petal # Empty => f.slots[s].petal = Progress(p).primary[s]
    BY <1>3, <1>5
  <1> QED
    BY <1>1, <1>4, <1>5, <1>6, <1>7, ArrivedKeeps

LEMMA SpawnKeeps ==
  ASSUME LoadoutInv, NEW p \in Players, Respawn(p) \/ Login(p)
  PROVE  LoadoutInv'
  <1>1. /\ flower' = [flower EXCEPT ![p] = Spawned(p)]
        /\ UNCHANGED <<account, sandbox, room, registry, supply>>
    BY DEF Respawn, Login
  <1> QED
    BY <1>1, SpawnedIsFine, FlowerStep

\* A flower that stays.
LEMMA FlowerStays ==
  ASSUME LoadoutInv, NEW p \in Players, UNCHANGED flower
  PROVE  flower' = [flower EXCEPT ![p] = flower[p]]
  <1>1. flower = [q \in Players |-> flower[q]]
    BY InvInParts DEF PlayersInv
  <1> QED
    BY <1>1

LEMMA PickUpKeeps ==
  ASSUME LoadoutInv, NEW p \in Players, NEW x \in Petal, x.rank # Unique, PickUp(p, x)
  PROVE  LoadoutInv'
  <1> DEFINE own == Progress(p)
             new == Add(own, x, 1)
  <1>1. /\ SetProgress(p, new) /\ UNCHANGED <<room, registry>> /\ UNCHANGED flower
        /\ sandbox[p] = Empty => ComesUp(x) /\ supply' = [supply EXCEPT ![x] = @ + 1]
        /\ sandbox[p] # Empty => supply' = supply
    BY DEF PickUp
  <1>2. /\ own \in Account /\ Fine(flower[p]) /\ ShowsSaved(flower[p], room[p], own)
        /\ sandbox[p] = Empty => own = account[p]
    BY ProgressFacts
  <1>3. \A u \in Types : UniqueOf(u) \in Petal /\ UniqueOf(u) # x
    BY KindsOfPetals DEF UniqueOf
  <1>4. /\ new \in Account /\ new.primary = own.primary
        /\ own.bag[x] + 1 <= MaxStack =>
             \A q \in Petal : Holds(new, q) = Holds(own, q) + (IF q = x THEN 1 ELSE 0)
    <2> HIDE DEF own
    <2>1. 1 \in Nat
      OBVIOUS
    <2> QED
      BY <1>2, <2>1, AddHolds
  <1>5. ShowsSaved(flower[p], room[p], new)
    BY <1>2, <1>4 DEF ShowsSaved
  <1> HIDE DEF new
  <1>6. ASSUME sandbox[p] = Empty
        PROVE  /\ supply' \in [Petal -> Nat]
               /\ \A q \in Petal : Holds(new, q) = Holds(account[p], q) + supply'[q] - supply[q]
               /\ \A u \in Types : supply'[UniqueOf(u)] <= supply[UniqueOf(u)]
               /\ \A q \in Petal : supply'[q] + Owed(q) <= MaxStack
    <2>1. supply' = [supply EXCEPT ![x] = @ + 1] /\ own = account[p]
      BY <1>1, <1>2, <1>6
    <2>2. /\ \A q \in Petal : /\ Owed(q) \in Nat /\ supply[q] \in Nat /\ supply[q] + Owed(q) <= MaxStack
          /\ MaxStack \in Nat /\ supply \in [Petal -> Nat]
      BY OwedFits
    <2>3. supply[x] + Owed(x) < MaxStack
      <3>1. PICK loot \in Loots : supply[x] + Owed(x) < loot[x]
        BY <1>1, <1>6 DEF ComesUp
      <3>2. loot[x] \in Nat /\ loot[x] <= MaxStack
        BY <2>2, LoadoutAssumption
      <3> QED
        BY <2>2, <3>1, <3>2
    <2>4. \A q \in Petal : supply'[q] = supply[q] + (IF q = x THEN 1 ELSE 0) /\ supply'[q] \in Nat
      BY <2>1, <2>2
    <2>5. supply' \in [Petal -> Nat]
      <3>1. supply[x] + 1 \in Nat
        BY <2>2
      <3> QED
        BY <2>1, <2>2, <3>1
    <2>6. own.bag[x] + 1 <= MaxStack
      <3>1. /\ account[p].bag[x] \in Nat /\ Holds(account[p], x) \in Nat
            /\ account[p].bag[x] <= Holds(account[p], x) /\ Holds(account[p], x) <= supply[x]
        BY RoomInBags
      <3> HIDE DEF own
      <3> QED
        BY <2>1, <2>2, <2>3, <3>1
    <2>7. ASSUME NEW q \in Petal PROVE Holds(new, q) = Holds(account[p], q) + supply'[q] - supply[q]
      <3>1. Holds(own, q) \in Nat /\ Holds(new, q) = Holds(own, q) + (IF q = x THEN 1 ELSE 0)
        BY <1>2, <1>4, <2>6, AccountFacts
      <3>2. supply[q] \in Nat
        BY <2>2
      <3> HIDE DEF own
      <3> QED
        BY <2>1, <2>4, <3>1, <3>2
    <2>8. \A u \in Types : supply'[UniqueOf(u)] <= supply[UniqueOf(u)]
      BY <1>3, <2>2, <2>4
    <2>9. ASSUME NEW q \in Petal PROVE supply'[q] + Owed(q) <= MaxStack
      <3>1. CASE q = x
        BY <2>2, <2>3, <2>4, <3>1
      <3>2. CASE q # x
        BY <2>2, <2>4, <3>2
      <3> QED
        BY <3>1, <3>2
    <2> QED
      BY <2>5, <2>7, <2>8, <2>9
  <1>7. flower' = [flower EXCEPT ![p] = flower[p]]
    BY <1>1, FlowerStays
  <1> QED
    BY <1>1, <1>2, <1>4, <1>5, <1>6, <1>7, ProgressStep

\* A Unique petal found in a sandbox.
LEMMA TryOutKeeps ==
  ASSUME LoadoutInv, NEW p \in Players, NEW t \in Types, sandbox[p] # Empty, PickUpUnique(p, t)
  PROVE  LoadoutInv'
  <1> DEFINE own == Progress(p)
             new == Add(own, UniqueOf(t), 1)
  <1>1. SetProgress(p, new) /\ UNCHANGED <<room, registry, supply>> /\ UNCHANGED flower
    BY DEF PickUpUnique, UniqueOf
  <1>2. /\ own \in Account /\ Fine(flower[p]) /\ ShowsSaved(flower[p], room[p], own)
    BY ProgressFacts
  <1>3. new \in Account /\ new.primary = own.primary
    BY <1>2, KindsOfPetals, AddHolds
  <1>4. ShowsSaved(flower[p], room[p], new)
    BY <1>2, <1>3 DEF ShowsSaved
  <1>5. flower' = [flower EXCEPT ![p] = flower[p]]
    BY <1>1, FlowerStays
  <1> HIDE DEF new
  <1> QED
    BY <1>1, <1>2, <1>3, <1>4, <1>5, EvenStep

\* An action that leaves accounts and the registry alone.
LEMMA PlaceStep ==
  ASSUME LoadoutInv, PlayersInv', account' = account, supply' = supply, owner' = owner, RegistryOK'
  PROVE  LoadoutInv'
  <1>1. SupplyInv
    BY InvInParts
  <1>2. \A q \in Petal : Total(q)' = Total(q)
    BY TotalIs
  <1>3. \A q \in Petal : Owed(q)' = Owed(q)
    BY DEF Owed, Refund
  <1>4. SupplyInv'
    BY <1>1, <1>2, <1>3 DEF SupplyInv, PetalsAreConserved, OwedIsBounded
  <1> QED
    BY <1>4, InvInParts, PTL

LEMMA LogoutKeeps ==
  ASSUME LoadoutInv, NEW p \in Players, Logout(p)
  PROVE  LoadoutInv'
  <1>1. PlayersInv /\ RegistryOK
    BY InvInParts
  <1>2. /\ flower' = [flower EXCEPT ![p] = NoFlower] /\ room' = [room EXCEPT ![p] = "main"]
        /\ sandbox' = [sandbox EXCEPT ![p] = Empty]
        /\ account' = account /\ supply' = supply /\ owner' = owner /\ ownerFile' = ownerFile
    BY DEF Logout, registry
  <1>3. /\ DOMAIN flower = Players /\ flower = [q \in Players |-> flower[q]]
        /\ sandbox \in [Players -> Account \cup {Empty}] /\ room \in [Players -> RoomKinds]
    BY <1>1 DEF PlayersInv
  <1>4. \A q \in Players : /\ flower'[q] = IF q = p THEN NoFlower ELSE flower[q]
                           /\ room'[q] = IF q = p THEN "main" ELSE room[q]
                           /\ sandbox'[q] = IF q = p THEN Empty ELSE sandbox[q]
    BY <1>2, <1>3
  <1>5. /\ sandbox' \in [Players -> Account \cup {Empty}] /\ room' \in [Players -> RoomKinds]
        /\ DOMAIN flower' = Players /\ flower' = [q \in Players |-> flower'[q]]
    BY <1>2, <1>3 DEF RoomKinds
  <1>6. \A q \in Players : q # p => Progress(q)' = Progress(q)
    BY <1>2, <1>4 DEF Progress
  <1>7. \A q \in Players : sandbox'[q] # Empty <=> room'[q] = "sandbox"
    BY <1>1, <1>4 DEF PlayersInv
  <1>8. ASSUME NEW q \in Players PROVE Fine(flower'[q]) /\ ShowsSaved(flower'[q], room'[q], Progress(q)')
    <2>1. CASE q = p
      <3>1. flower'[q] = NoFlower
        BY <1>4, <2>1
      <3> QED
        BY <3>1, NoFlowerIsFine DEF ShowsSaved
    <2>2. CASE q # p
      BY <1>1, <1>4, <1>6, <2>2 DEF PlayersInv
    <2> QED
      BY <2>1, <2>2
  <1>9. PlayersInv'
    BY <1>1, <1>2, <1>5, <1>7, <1>8 DEF PlayersInv
  <1>10. RegistryOK'
    BY <1>1, <1>2 DEF RegistryOK
  <1> QED
    BY <1>2, <1>9, <1>10, PlaceStep

LEMMA OfflineKeeps ==
  ASSUME LoadoutInv, ShutDown \/ Crash
  PROVE  LoadoutInv'
  <1>1. PlayersInv /\ RegistryOK
    BY InvInParts
  <1>2. /\ flower' = [p \in Players |-> NoFlower] /\ room' = [p \in Players |-> "main"]
        /\ sandbox' = [p \in Players |-> Empty]
        /\ account' = account /\ supply' = supply /\ owner' = owner /\ ownerFile' \in {owner, ownerFile}
    BY DEF ShutDown, Crash, Offline
  <1>3. \A p \in Players : Fine(flower'[p]) /\ ShowsSaved(flower'[p], room'[p], Progress(p)')
    BY <1>2, NoFlowerIsFine DEF ShowsSaved
  <1>4. PlayersInv'
    BY <1>1, <1>2, <1>3 DEF PlayersInv, RoomKinds
  <1>5. RegistryOK'
    BY <1>1, <1>2 DEF RegistryOK
  <1> QED
    BY <1>2, <1>4, <1>5, PlaceStep

LEMMA MoveKeeps ==
  ASSUME LoadoutInv, NEW p \in Players, NEW r \in RoomKinds, Move(p, r)
  PROVE  LoadoutInv'
  <1> DEFINE own == Progress(p)
             left == IF Strips(room[p]) THEN RestoreSavedLoadout(flower[p], own) ELSE flower[p]
             scoped == IF r = "sandbox" \/ room[p] = "sandbox" THEN RestoreSavedLoadout(left, account[p]) ELSE left
             f == Arrived(scoped, r)
             box == IF r = "sandbox" THEN account[p] ELSE Empty
  <1>1. PlayersInv /\ RegistryOK
    BY InvInParts
  <1>2. /\ flower[p].state # "gone" /\ r # room[p]
        /\ room' = [room EXCEPT ![p] = r]
        /\ sandbox' = [sandbox EXCEPT ![p] = box]
        /\ flower' = [flower EXCEPT ![p] = f]
        /\ account' = account /\ supply' = supply /\ owner' = owner /\ ownerFile' = ownerFile
    BY DEF Move, registry
  <1>3. /\ own \in Account /\ Fine(flower[p]) /\ ShowsSaved(flower[p], room[p], own)
        /\ sandbox[p] = Empty => own = account[p]
    BY ProgressFacts
  <1>4. /\ DOMAIN flower = Players /\ flower = [q \in Players |-> flower[q]]
        /\ sandbox \in [Players -> Account \cup {Empty}] /\ room \in [Players -> RoomKinds]
        /\ account[p] \in Account /\ account[p] # Empty /\ (sandbox[p] # Empty <=> room[p] = "sandbox")
    BY <1>1, AccountFacts DEF PlayersInv
  <1>5. box \in Account \cup {Empty} /\ (box # Empty <=> r = "sandbox")
    BY <1>4
  <1>6. /\ Fine(left) /\ left.state = flower[p].state
        /\ \A s \in Slots : left.slots[s].petal # Empty => left.slots[s].petal = own.primary[s]
    <2>1. CASE Strips(room[p])
      <3>1. left = RestoreSavedLoadout(flower[p], own)
        BY <2>1
      <3> HIDE DEF left
      <3> QED
        BY <1>3, <3>1, RestoredLoadout
    <2>2. CASE ~Strips(room[p])
      <3>1. left = flower[p]
        BY <2>2
      <3> HIDE DEF left
      <3> QED
        BY <1>2, <1>3, <2>2, <3>1 DEF ShowsSaved
    <2> QED
      BY <2>1, <2>2
  <1> HIDE DEF left
  <1>7. /\ Fine(scoped) /\ scoped.state = flower[p].state
        /\ \A s \in Slots : scoped.slots[s].petal # Empty => scoped.slots[s].petal = account[p].primary[s]
    <2>1. CASE r = "sandbox" \/ room[p] = "sandbox"
      <3>1. scoped = RestoreSavedLoadout(left, account[p])
        BY <2>1
      <3> HIDE DEF scoped
      <3> QED
        BY <1>4, <1>6, <3>1, RestoredLoadout
    <2>2. CASE ~(r = "sandbox" \/ room[p] = "sandbox")
      <3>1. scoped = left /\ own = account[p]
        BY <1>3, <1>4, <2>2
      <3> HIDE DEF scoped
      <3> QED
        BY <1>6, <3>1
    <2> QED
      BY <2>1, <2>2
  <1> HIDE DEF scoped
  <1>8. Fine(f) /\ ShowsSaved(f, r, account[p])
    BY <1>2, <1>4, <1>7, ArrivedKeeps
  <1> HIDE DEF f, box
  <1>9. \A q \in Players : /\ flower'[q] = IF q = p THEN f ELSE flower[q]
                           /\ room'[q] = IF q = p THEN r ELSE room[q]
                           /\ sandbox'[q] = IF q = p THEN box ELSE sandbox[q]
    BY <1>2, <1>4
  <1>10. /\ sandbox' \in [Players -> Account \cup {Empty}] /\ room' \in [Players -> RoomKinds]
         /\ DOMAIN flower' = Players /\ flower' = [q \in Players |-> flower'[q]]
    BY <1>2, <1>4, <1>5
  <1>11. \A q \in Players : Progress(q)' = IF q = p THEN account[p] ELSE Progress(q)
    BY <1>2, <1>5, <1>9 DEF Progress, box
  <1>12. \A q \in Players : sandbox'[q] # Empty <=> room'[q] = "sandbox"
    BY <1>1, <1>5, <1>9 DEF PlayersInv
  <1>13. \A q \in Players : Fine(flower'[q]) /\ ShowsSaved(flower'[q], room'[q], Progress(q)')
    BY <1>1, <1>8, <1>9, <1>11 DEF PlayersInv
  <1>14. PlayersInv'
    BY <1>1, <1>2, <1>10, <1>12, <1>13 DEF PlayersInv
  <1>15. RegistryOK'
    BY <1>1, <1>2 DEF RegistryOK
  <1> QED
    BY <1>2, <1>14, <1>15, PlaceStep

-----------------------------------------------------------------------------
\* An exchange: m petals of one kind for n of another.
LEMMA ExchangedHolds ==
  ASSUME NEW acc \in Account, NEW give \in Petal, NEW get \in Petal, give # get,
         NEW m \in Nat, NEW n \in Nat, m <= Holds(acc, give),
         TakeStored(acc, give, m).bag[get] + n <= MaxStack
  PROVE  LET new == Exchanged(acc, give, m, get, n)
         IN /\ new \in Account
            /\ \A s \in Slots : new.primary[s] = IF s \in Cleared(acc, give, m) THEN Empty ELSE acc.primary[s]
            /\ \A q \in Petal : q # give /\ q # get => Holds(new, q) = Holds(acc, q)
            /\ Holds(new, give) = Holds(acc, give) - m
            /\ Holds(new, get) = Holds(acc, get) + n
  <1> DEFINE mid == TakeStored(acc, give, m)  new == Add(mid, get, n)
  <1>1. /\ mid \in Account
        /\ \A s \in Slots : mid.primary[s] = IF s \in Cleared(acc, give, m) THEN Empty ELSE acc.primary[s]
        /\ \A q \in Petal : q # give => Holds(mid, q) = Holds(acc, q)
        /\ Holds(mid, give) = Holds(acc, give) - m
    BY TakeStoredHolds
  <1>2. mid.bag[get] + n <= MaxStack
    OBVIOUS
  <1> HIDE DEF mid
  <1>3. /\ new \in Account /\ new.primary = mid.primary
        /\ \A q \in Petal : Holds(new, q) = Holds(mid, q) + (IF q = get THEN n ELSE 0)
    <2>1. mid \in Account
      BY <1>1
    <2>2. new \in Account /\ new.primary = mid.primary
      BY <2>1, AddHolds
    <2>3. /\ Add(mid, get, n) \in Account
          /\ mid.bag[get] + n <= MaxStack =>
              /\ Add(mid, get, n).bag[get] = mid.bag[get] + n
              /\ \A q \in Petal : Holds(Add(mid, get, n), q) = Holds(mid, q) + (IF q = get THEN n ELSE 0)
      BY <2>1, AddHolds
    <2>4. \A q \in Petal : Holds(new, q) = Holds(mid, q) + (IF q = get THEN n ELSE 0)
      BY <1>2, <2>3
    <2> QED
      BY <2>2, <2>4
  <1>4. \A q \in Petal : Holds(mid, q) \in Nat
    BY <1>1, AccountFacts
  <1>5. Exchanged(acc, give, m, get, n) = new
    BY DEF Exchanged, mid
  <1> HIDE DEF new
  <1>6. /\ \A q \in Petal : q # give /\ q # get => Holds(new, q) = Holds(acc, q)
        /\ Holds(new, give) = Holds(acc, give) - m
        /\ Holds(new, get) = Holds(acc, get) + n
    BY <1>1, <1>3, <1>4
  <1> QED
    BY <1>1, <1>3, <1>5, <1>6

\* Where nobody holds a petal there is none.
LEMMA TotalNone ==
  ASSUME NEW a \in [Players -> Account], NEW petal \in Petal, \A p \in Players : Holds(a[p], petal) = 0
  PROVE  TotalOf(a, petal) = 0
  <1> DEFINE f == [p \in Players |-> Holds(a[p], petal)]
  <1>1. \A p \in Players : f[p] = 0
    OBVIOUS
  <1> HIDE DEF f
  <1>2. Heap(f) = {}
    <2>1. ASSUME NEW t \in Heap(f) PROVE FALSE
      <3>1. PICK p \in Players : t \in {p} \X (1..f[p])
        BY <2>1 DEF Heap
      <3>2. 1..f[p] = {}
        BY <1>1
      <3> QED
        BY <3>1, <3>2
    <2> QED
      BY <2>1
  <1> QED
    BY <1>2, FS_EmptySet DEF TotalOf, f

\* The accounts once the old owner of the petal has given it up, and once the
\* getter has paid.
LEMMA RefundedHolds ==
  ASSUME LoadoutInv, NEW t \in Types,
         owner[t].by # Nobody => /\ Holds(account[owner[t].by], UniqueOf(t)) > 0
                                 /\ account[owner[t].by].bag[Found[t]] + Refund(t) <= MaxStack
  PROVE  /\ Refunded(t) \in [Players -> Account]
         /\ \A r \in Players : r # owner[t].by => Refunded(t)[r] = account[r]
         /\ \A r \in Players : \A s \in Slots :
              Refunded(t)[r].primary[s] =
                IF r = owner[t].by /\ s \in Cleared(account[r], UniqueOf(t), 1) THEN Empty ELSE account[r].primary[s]
         /\ \A r \in Players : Holds(Refunded(t)[r], UniqueOf(t)) = 0
         /\ \A r \in Players : \A q \in Petal :
              q # UniqueOf(t) /\ q # Found[t] => Holds(Refunded(t)[r], q) = Holds(account[r], q)
         /\ TotalOf(Refunded(t), UniqueOf(t)) = 0
         /\ TotalOf(Refunded(t), Found[t]) = supply[Found[t]] + Repaid(t)
         /\ \A q \in Petal : q # UniqueOf(t) /\ q # Found[t] => TotalOf(Refunded(t), q) = supply[q]
         /\ supply[UniqueOf(t)] = IF owner[t].by = Nobody THEN 0 ELSE 1
  <1> DEFINE old == owner[t].by  u == UniqueOf(t)  x == Found[t]  n == Refund(t)  a == Refunded(t)
  <1>1. u \in Petal /\ x \in Petal /\ u # x
    BY KindsOfPetals
  <1>2. account \in [Players -> Account] /\ old \in Players \cup {Nobody} /\ Nobody \notin Players
    BY InvInParts, LoadoutAssumption DEF PlayersInv, RegistryOK
  <1>3. /\ \A q \in Petal : TotalOf(account, q) = supply[q] /\ supply[q] \in Nat
        /\ supply \in [Petal -> Nat]
    BY InvInParts, TotalIs DEF SupplyInv, PetalsAreConserved
  <1>4. /\ \A r \in Players : Holds(account[r], u) = IF old = r THEN supply[u] ELSE 0
        /\ \A r \in Players : supply[u] <= 1
    BY InvInParts DEF SupplyInv
  <1>5. n \in Nat
    BY RefundIsNat
  <1>6. CASE old = Nobody
    <2>1. a = account
      BY <1>6 DEF Refunded
    <2>2. \A r \in Players : Holds(account[r], u) = 0
      BY <1>2, <1>4, <1>6
    <2>3. TotalOf(account, u) = 0
      BY <1>1, <1>2, <2>2, TotalNone
    <2>4. TotalOf(account, x) = supply[x] + 0
      BY <1>1, <1>3
    <2>5. supply[u] = 0
      BY <1>1, <1>3, <2>3
    <2> HIDE DEF a, u, x
    <2>6. /\ a \in [Players -> Account] /\ \A r \in Players : a[r] = account[r]
          /\ \A r \in Players : \A s \in Slots : a[r].primary[s] = account[r].primary[s]
          /\ \A r \in Players : Holds(a[r], u) = 0
          /\ \A r \in Players : \A q \in Petal : Holds(a[r], q) = Holds(account[r], q)
          /\ TotalOf(a, u) = 0 /\ TotalOf(a, x) = supply[x] + 0
          /\ \A q \in Petal : TotalOf(a, q) = supply[q]
      BY <1>2, <1>3, <2>1, <2>2, <2>3, <2>4
    <2>7. \A r \in Players : r # old
      BY <1>2, <1>6
    <2>8. Repaid(t) = 0
      BY <1>6 DEF Repaid
    <2> QED
      BY <1>6, <2>5, <2>6, <2>7, <2>8 DEF a, u, x
  <1>7. CASE old # Nobody
    <2> DEFINE new == Exchanged(account[old], u, 1, x, n)
    <2>1. old \in Players /\ account[old] \in Account
      BY <1>2, <1>7
    <2>2. Holds(account[old], u) > 0 /\ account[old].bag[x] + n <= MaxStack
      BY <1>7
    <2>3. supply[u] = 1 /\ Holds(account[old], u) = 1
      BY <1>1, <1>3, <1>4, <2>1, <2>2
    <2>4. TakeStored(account[old], u, 1).bag[x] = account[old].bag[x]
      BY <1>1, <2>1, TakeStoredHolds
    <2>5. a = [account EXCEPT ![old] = new]
      BY <1>7 DEF Refunded
    <2>6. /\ new \in Account
          /\ \A s \in Slots : new.primary[s] = IF s \in Cleared(account[old], u, 1) THEN Empty ELSE account[old].primary[s]
          /\ \A q \in Petal : q # u /\ q # x => Holds(new, q) = Holds(account[old], q)
          /\ Holds(new, u) = 1 - 1
          /\ Holds(new, x) = Holds(account[old], x) + n
      <3>1. TakeStored(account[old], u, 1).bag[x] + n <= MaxStack /\ 1 <= Holds(account[old], u)
        BY <2>2, <2>3, <2>4
      <3> HIDE DEF u, x, n, old
      <3> QED
        BY <1>1, <1>5, <2>1, <2>3, <3>1, ExchangedHolds
    <2> HIDE DEF new, a, u, x, old, n
    <2>7. a \in [Players -> Account] /\ a[old] = new /\ \A r \in Players \ {old} : a[r] = account[r]
      BY <1>2, <2>1, <2>5, <2>6
    <2>8. ASSUME NEW q \in Petal
          PROVE  TotalOf(a, q) = supply[q] - Holds(account[old], q) + Holds(new, q)
      <3>1. \A r \in Players \ {old} : account[r] = a[r]
        BY <2>7
      <3>2. TotalOf(a, q) = TotalOf(account, q) - Holds(account[old], q) + Holds(a[old], q)
        BY <1>2, <2>1, <2>7, <3>1, TotalChange
      <3> QED
        BY <1>3, <2>7, <3>2
    <2>9. \A q \in Petal : Holds(account[old], q) \in Nat
      BY <2>1, AccountFacts
    <2>10. TotalOf(a, u) = 0
      BY <1>1, <2>3, <2>6, <2>8
    <2>11. TotalOf(a, x) = supply[x] + n
      BY <1>1, <1>3, <1>5, <2>6, <2>8, <2>9
    <2>12. \A q \in Petal : q # u /\ q # x => TotalOf(a, q) = supply[q]
      BY <1>3, <2>6, <2>8, <2>9
    <2>13. \A r \in Players : Holds(a[r], u) = 0
      BY <1>4, <2>6, <2>7
    <2>14. \A r \in Players : \A q \in Petal : q # u /\ q # x => Holds(a[r], q) = Holds(account[r], q)
      BY <2>6, <2>7
    <2>15. \A r \in Players : \A s \in Slots :
             a[r].primary[s] = IF r = old /\ s \in Cleared(account[r], u, 1) THEN Empty ELSE account[r].primary[s]
      BY <2>6, <2>7
    <2>16. \A r \in Players : r # old => a[r] = account[r]
      BY <2>7
    <2>17. Repaid(t) = n
      BY <1>7 DEF Repaid, n, old
    <2> QED
      BY <1>7, <2>3, <2>7, <2>10, <2>11, <2>12, <2>13, <2>14, <2>15, <2>16, <2>17 DEF a, u, x, old
  <1> QED
    BY <1>6, <1>7

\* The accounts once the getter has paid.
LEMMA BoughtHolds ==
  ASSUME LoadoutInv, NEW p \in Players, NEW t \in Types, NEW cost \in Nat, Exchangeable(p, t, cost)
  PROVE  /\ Bought(p, t, cost) \in [Players -> Account]
         /\ \A r \in Players : r # p => Bought(p, t, cost)[r] = Refunded(t)[r]
         /\ \A s \in Slots :
              Bought(p, t, cost)[p].primary[s] =
                IF s \in Cleared(Refunded(t)[p], Found[t], cost) THEN Empty ELSE Refunded(t)[p].primary[s]
         /\ \A r \in Players : Holds(Bought(p, t, cost)[r], UniqueOf(t)) = IF r = p THEN 1 ELSE 0
         /\ \A r \in Players : \A q \in Petal :
              q # UniqueOf(t) /\ q # Found[t] => Holds(Bought(p, t, cost)[r], q) = Holds(account[r], q)
         /\ TotalOf(Bought(p, t, cost), UniqueOf(t)) = 1
         /\ TotalOf(Bought(p, t, cost), Found[t]) = supply[Found[t]] + Repaid(t) - cost
         /\ \A q \in Petal : q # UniqueOf(t) /\ q # Found[t] => TotalOf(Bought(p, t, cost), q) = supply[q]
  <1> DEFINE u == UniqueOf(t)  x == Found[t]  a == Refunded(t)  b == Bought(p, t, cost)
             new == Exchanged(a[p], x, cost, u, 1)
  <1>1. u \in Petal /\ x \in Petal /\ u # x
    BY KindsOfPetals
  <1>2. /\ a \in [Players -> Account]
        /\ \A r \in Players : Holds(a[r], u) = 0
        /\ \A r \in Players : \A q \in Petal : q # u /\ q # x => Holds(a[r], q) = Holds(account[r], q)
        /\ TotalOf(a, u) = 0
        /\ TotalOf(a, x) = supply[x] + Repaid(t)
        /\ \A q \in Petal : q # u /\ q # x => TotalOf(a, q) = supply[q]
    BY RefundedHolds DEF Exchangeable
  <1>3. /\ Holds(a[p], x) >= cost /\ TakeStored(a[p], x, cost).bag[u] < MaxStack
    BY DEF Exchangeable
  <1>4. b = [a EXCEPT ![p] = new]
    BY DEF Bought
  <1>5. supply[x] \in Nat /\ Repaid(t) \in Nat /\ \A q \in Petal : supply[q] \in Nat
    <2>1. supply \in [Petal -> Nat] /\ Refund(t) \in Nat
      BY RefundIsNat
    <2> QED
      BY <1>1, <2>1 DEF Repaid
  <1> HIDE DEF u, x, a, b
  <1>6. /\ new \in Account
        /\ \A s \in Slots : new.primary[s] = IF s \in Cleared(a[p], x, cost) THEN Empty ELSE a[p].primary[s]
        /\ \A q \in Petal : q # x /\ q # u => Holds(new, q) = Holds(a[p], q)
        /\ Holds(new, x) = Holds(a[p], x) - cost
        /\ Holds(new, u) = Holds(a[p], u) + 1
    <2>1. a[p] \in Account /\ MaxStack \in Nat /\ Holds(a[p], x) \in Nat
      BY <1>1, <1>2, LoadoutAssumption, AccountFacts
    <2>2. TakeStored(a[p], x, cost).bag[u] \in Nat
      <3>1. TakeStored(a[p], x, cost) \in Account
        BY <1>1, <2>1, TakeStoredHolds
      <3> QED
        BY <1>1, <3>1, AccountFacts
    <2>3. TakeStored(a[p], x, cost).bag[u] + 1 <= MaxStack /\ cost <= Holds(a[p], x)
      BY <1>3, <2>1, <2>2
    <2>4. 1 \in Nat
      OBVIOUS
    <2> QED
      BY <1>1, <2>1, <2>3, <2>4, ExchangedHolds
  <1> HIDE DEF new
  <1>7. b \in [Players -> Account] /\ b[p] = new /\ \A r \in Players \ {p} : b[r] = a[r]
    BY <1>2, <1>4, <1>6
  <1>8. ASSUME NEW q \in Petal
        PROVE  TotalOf(b, q) = TotalOf(a, q) - Holds(a[p], q) + Holds(new, q) /\ Holds(a[p], q) \in Nat
    <2>1. \A r \in Players \ {p} : a[r] = b[r]
      BY <1>7
    <2>2. a[p] \in Account
      BY <1>2
    <2> QED
      BY <1>2, <1>7, <2>1, <2>2, TotalChange, AccountFacts
  <1>9. TotalOf(b, u) = 1
    BY <1>1, <1>2, <1>6, <1>8
  <1>10. TotalOf(b, x) = supply[x] + Repaid(t) - cost
    <2>1. TotalOf(b, x) = TotalOf(a, x) - Holds(a[p], x) + (Holds(a[p], x) - cost) /\ Holds(a[p], x) \in Nat
      BY <1>1, <1>6, <1>8
    <2> QED
      BY <1>2, <1>5, <2>1
  <1>11. \A q \in Petal : q # u /\ q # x => TotalOf(b, q) = supply[q]
    BY <1>2, <1>5, <1>6, <1>8
  <1>12. \A r \in Players : Holds(b[r], u) = IF r = p THEN 1 ELSE 0
    BY <1>2, <1>6, <1>7
  <1>13. \A r \in Players : \A q \in Petal : q # u /\ q # x => Holds(b[r], q) = Holds(account[r], q)
    BY <1>2, <1>6, <1>7
  <1>14. \A s \in Slots : b[p].primary[s] = IF s \in Cleared(a[p], x, cost) THEN Empty ELSE a[p].primary[s]
    BY <1>6, <1>7
  <1>15. \A r \in Players : r # p => b[r] = a[r]
    BY <1>7
  <1> QED
    BY <1>7, <1>9, <1>10, <1>11, <1>12, <1>13, <1>14, <1>15 DEF u, x, a, b

\* An exchange makes and loses no petal, and owes no more than was paid.
LEMMA ExchangedSupply ==
  ASSUME LoadoutInv, NEW p \in Players, NEW t \in Types, NEW cost \in {0, ForgeCost}, Exchange(p, t, cost)
  PROVE  /\ SupplyInv' /\ RegistryOK'
         /\ \A v \in Types : Worth(v)' <= Worth(v)
  <1> DEFINE u == UniqueOf(t)  x == Found[t]  b == Bought(p, t, cost)
  <1>1. u \in Petal /\ x \in Petal /\ u # x
    BY KindsOfPetals
  <1>2. cost \in Nat /\ ForgeCost \in Nat \ {0}
    BY LoadoutAssumption
  <1>3. /\ b \in [Players -> Account]
        /\ \A r \in Players : Holds(b[r], u) = IF r = p THEN 1 ELSE 0
        /\ \A r \in Players : \A q \in Petal : q # u /\ q # x => Holds(b[r], q) = Holds(account[r], q)
        /\ TotalOf(b, u) = 1
        /\ TotalOf(b, x) = supply[x] + Repaid(t) - cost
        /\ \A q \in Petal : q # u /\ q # x => TotalOf(b, q) = supply[q]
    BY <1>2, BoughtHolds DEF Exchange
  <1>4. /\ supply[u] = IF owner[t].by = Nobody THEN 0 ELSE 1
    BY RefundedHolds DEF Exchange, Exchangeable
  <1>5. /\ RegistryOK /\ SupplyInv
        /\ supply \in [Petal -> Nat] /\ supply[x] \in Nat /\ Refund(t) \in Nat
        /\ MaxStack \in Nat /\ supply[x] + Refund(t) <= MaxStack
    BY InvInParts, RefundIsNat
  <1>6. Repaid(t) \in Nat /\ Repaid(t) <= Refund(t)
    BY <1>5 DEF Repaid
  <1>7. /\ account' = b
        /\ owner' = [owner EXCEPT ![t] = [by |-> p, cost |-> cost]] /\ ownerFile' = ownerFile
        /\ supply' = [supply EXCEPT ![x] = @ + Repaid(t) - cost,
                                    ![u] = IF owner[t].by = Nobody THEN @ + 1 ELSE @]
    BY DEF Exchange
  <1> HIDE DEF u, x, b
  <1>8. \A q \in Petal : supply'[q] = TotalOf(b, q)
    <2>1. supply'[x] = supply[x] + Repaid(t) - cost
      BY <1>1, <1>5, <1>7
    <2>2. supply'[u] = 1
      BY <1>1, <1>4, <1>5, <1>7
    <2>3. \A q \in Petal : q # u /\ q # x => supply'[q] = supply[q]
      BY <1>5, <1>7
    <2> QED
      BY <1>3, <2>1, <2>2, <2>3
  <1>9. supply' \in [Petal -> Nat]
    <2>1. \A q \in Petal : supply'[q] \in Nat
      BY <1>3, <1>8, TotalRest
    <2>2. supply' = [q \in Petal |-> supply'[q]]
      BY <1>5, <1>7
    <2> QED
      BY <2>1, <2>2
  <1>10. PetalsAreConserved'
    BY <1>7, <1>8, TotalIs DEF PetalsAreConserved
  <1>11. RegistryOK'
    <2>1. [by |-> p, cost |-> cost] \in [by : Players \cup {Nobody}, cost : {0, ForgeCost}]
      OBVIOUS
    <2> QED
      BY <1>5, <1>7, <2>1 DEF RegistryOK
  <1>12. \A v \in Types : owner'[v] = IF v = t THEN [by |-> p, cost |-> cost] ELSE owner[v]
    BY <1>5, <1>7 DEF RegistryOK
  <1>13. ASSUME NEW v \in Types, NEW r \in Players
         PROVE  /\ supply'[UniqueOf(v)] <= 1
                /\ Holds(account'[r], UniqueOf(v)) = IF owner'[v].by = r THEN supply'[UniqueOf(v)] ELSE 0
    <2>1. CASE v = t
      <3>1. owner'[v] = [by |-> p, cost |-> cost]
        BY <1>12, <2>1
      <3>2. owner'[v].by = p
        BY <3>1
      <3>3. supply'[u] = 1
        BY <1>1, <1>3, <1>8
      <3>4. Holds(account'[r], u) = IF r = p THEN 1 ELSE 0
        BY <1>3, <1>7
      <3> QED
        BY <2>1, <3>2, <3>3, <3>4 DEF u
    <2>2. CASE v # t
      <3>1. UniqueOf(v) \in Petal /\ UniqueOf(v) # u /\ UniqueOf(v) # x
        BY <2>2, KindsOfPetals DEF u, x
      <3>2. /\ Holds(account'[r], UniqueOf(v)) = Holds(account[r], UniqueOf(v))
            /\ supply'[UniqueOf(v)] = supply[UniqueOf(v)] /\ owner'[v] = owner[v]
        BY <1>3, <1>7, <1>8, <1>12, <2>2, <3>1
      <3> QED
        BY <1>5, <3>2 DEF SupplyInv
    <2> QED
      BY <2>1, <2>2
  <1>14. \A v \in Types : Refund(v)' = IF v = t THEN (IF cost = 0 THEN 0 ELSE cost - 1) ELSE Refund(v)
    BY <1>12 DEF Refund
  <1>15. \A v \in Types : v # t => Found[v] \in Petal /\ Found[v] # u /\ Found[v] # x
    BY KindsOfPetals DEF u, x
  <1>16. supply'[x] = supply[x] + Repaid(t) - cost /\ (\A v \in Types : v # t => supply'[Found[v]] = supply[Found[v]])
    BY <1>1, <1>3, <1>8, <1>15
  <1>17. supply'[x] + Refund(t)' <= supply[x] + Refund(t)
    <2>1. Refund(t)' = IF cost = 0 THEN 0 ELSE cost - 1
      BY <1>14
    <2> DEFINE k == Refund(t)'
    <2>2. k = IF cost = 0 THEN 0 ELSE cost - 1
      BY <2>1
    <2> HIDE DEF k
    <2>3. supply'[x] + k <= supply[x] + Refund(t)
      BY <1>2, <1>5, <1>6, <1>16, <2>2
    <2> QED
      BY <2>3 DEF k
  <1>18. OwedIsBounded'
    <2> SUFFICES ASSUME NEW q \in Petal PROVE supply'[q] + Owed(q)' <= MaxStack
      BY DEF OwedIsBounded
    <2>0. supply[q] + Owed(q) <= MaxStack /\ MaxStack \in Nat \ {0} /\ supply'[q] \in Nat
      BY <1>9, OwedFits, LoadoutAssumption
    <2>1. CASE q = x
      <3> DEFINE k == Refund(t)'
      <3>1. k \in Nat /\ Owed(q)' = k
        BY <1>2, <1>5, <1>14, <2>1, OwedIsNat DEF x
      <3>2. supply'[x] \in Nat /\ supply'[x] + k <= supply[x] + Refund(t)
        BY <1>1, <1>9, <1>17
      <3> HIDE DEF k
      <3>3. supply'[x] + k <= MaxStack
        BY <1>5, <3>1, <3>2
      <3> QED
        BY <2>1, <3>1, <3>3
    <2>2. CASE \E v \in Types : q = UniqueOf(v)
      <3>1. supply'[q] <= 1 /\ Owed(q)' = 0
        BY <1>5, <1>13, <2>2, OwedIsNat
      <3> QED
        BY <2>0, <3>1
    <2>3. CASE \E v \in Types : v # t /\ q = Found[v]
      <3>1. PICK v \in Types : v # t /\ q = Found[v]
        BY <2>3
      <3>2. Owed(q)' = Owed(q)
        BY <1>5, <1>14, <3>1, OwedIsNat
      <3>3. supply'[q] = supply[q]
        BY <1>16, <3>1
      <3> QED
        BY <2>0, <3>2, <3>3
    <2>4. CASE q # u /\ q # x /\ q.rank = Ultra
      <3>1. Owed(q)' = 0 /\ Owed(q) = 0
        BY <1>5, <2>4, OwedIsNat
      <3>2. supply'[q] = supply[q]
        BY <1>3, <1>8, <2>4
      <3> QED
        BY <2>0, <3>1, <3>2
    <2> QED
      BY <2>1, <2>2, <2>3, <2>4, KindsOfPetals DEF u, x
  <1>19. SupplyInv'
    BY <1>9, <1>10, <1>13, <1>18 DEF SupplyInv
  <1>20. ASSUME NEW v \in Types PROVE Worth(v)' <= Worth(v)
    <2>1. Found[v] \in Petal
      BY KindsOfPetals
    <2>2. Total(Found[v])' = supply'[Found[v]] /\ Total(Found[v]) = supply[Found[v]]
      BY <1>5, <1>10, <2>1 DEF SupplyInv, PetalsAreConserved
    <2>3. CASE v = t
      BY <1>17, <2>2, <2>3 DEF Worth, x
    <2>4. CASE v # t
      <3>1. Refund(v) \in Nat /\ supply[Found[v]] \in Nat
        BY RefundIsNat
      <3>2. Worth(v)' = supply[Found[v]] + Refund(v) /\ Worth(v) = supply[Found[v]] + Refund(v)
        BY <1>14, <1>16, <2>2, <2>4 DEF Worth
      <3> QED
        BY <3>1, <3>2
    <2> QED
      BY <2>3, <2>4
  <1> QED
    BY <1>11, <1>19, <1>20

\* No flower shows a petal that was exchanged.
LEMMA ExchangedPlayers ==
  ASSUME LoadoutInv, NEW p \in Players, NEW t \in Types, NEW cost \in {0, ForgeCost}, Exchange(p, t, cost)
  PROVE  PlayersInv'
  <1> DEFINE old == owner[t].by  u == UniqueOf(t)  x == Found[t]  a == Refunded(t)  b == Bought(p, t, cost)
  <1>1. PlayersInv
    BY InvInParts
  <1>2. cost \in Nat
    BY LoadoutAssumption
  <1>3. /\ account' = b /\ sandbox' = sandbox /\ room' = room
        /\ flower' = [q \in Players |->
             IF q \in {old, p} /\ flower[q].state # "gone" /\ sandbox[q] = Empty
               THEN Emptied(q, p, t, cost) ELSE flower[q]]
    BY DEF Exchange
  <1>4. /\ b \in [Players -> Account]
        /\ \A r \in Players : r # p => b[r] = a[r]
        /\ \A s \in Slots : b[p].primary[s] = IF s \in Cleared(a[p], x, cost) THEN Empty ELSE a[p].primary[s]
    BY <1>2, BoughtHolds DEF Exchange
  <1>5. /\ \A r \in Players : r # old => a[r] = account[r]
        /\ \A r \in Players : \A s \in Slots :
             a[r].primary[s] = IF r = old /\ s \in Cleared(account[r], u, 1) THEN Empty ELSE account[r].primary[s]
    BY RefundedHolds DEF Exchange, Exchangeable
  <1>6. \A q \in Players : \A s \in Slots :
          s \notin Vacated(q, p, t, cost) => b[q].primary[s] = account[q].primary[s]
    <2> SUFFICES ASSUME NEW q \in Players, NEW s \in Slots, s \notin Vacated(q, p, t, cost)
                 PROVE  b[q].primary[s] = account[q].primary[s]
      OBVIOUS
    <2>1. (q = old => s \notin Cleared(account[q], u, 1)) /\ (q = p => s \notin Cleared(a[q], x, cost))
      BY DEF Vacated
    <2> HIDE DEF a, b, u, x, old
    <2>2. a[q].primary[s] = account[q].primary[s]
      BY <1>5, <2>1
    <2>3. b[q].primary[s] = a[q].primary[s]
      <3>1. CASE q = p
        BY <1>4, <2>1, <3>1
      <3>2. CASE q # p
        BY <1>4, <3>2
      <3> QED
        BY <3>1, <3>2
    <2> QED
      BY <2>2, <2>3
  <1>7. ASSUME NEW q \in Players PROVE Fine(flower'[q]) /\ ShowsSaved(flower'[q], room'[q], Progress(q)')
    <2>1. /\ Fine(flower[q]) /\ ShowsSaved(flower[q], room[q], Progress(q))
          /\ flower[q] \in FlowerType /\ OneWorksIn(flower[q].slots) /\ flower[q].slots \in SlotType
          /\ sandbox[q] = Empty => Progress(q) = account[q]
      BY ProgressFacts
    <2>2. CASE q \in {old, p} /\ flower[q].state # "gone" /\ sandbox[q] = Empty
      <3> DEFINE ss == Vacated(q, p, t, cost) \cap 0..flower[q].count - 1
                 slots == ForceUnequip(flower[q].slots, ss)
                 f == [flower[q] EXCEPT !.slots = slots]
      <3>1. /\ slots \in SlotType /\ OneWorksIn(slots)
            /\ \A r \in Slots : /\ slots[r].petal = IF r \in ss THEN Empty ELSE flower[q].slots[r].petal
                                /\ flower[q].slots[r] = Bare => slots[r] = Bare
        BY <2>1, ForceUnequipKeeps
      <3>2. flower'[q] = f
        BY <1>3, <2>2 DEF Emptied
      <3> HIDE DEF slots
      <3>3. f \in FlowerType /\ f.slots = slots /\ f.count = flower[q].count /\ f.state = flower[q].state
        BY <2>1, <3>1 DEF FlowerType, SlotType
      <3> HIDE DEF f
      <3>4. Fine(f)
        BY <2>1, <3>1, <3>3 DEF Fine
      <3>5. ASSUME NEW s \in Slots, f.slots[s].petal # Empty
            PROVE  IF Strips(room[q]) THEN room[q] = "kingdom" /\ f.slots[s].petal = Dealt /\ s \in 1..Groups
                   ELSE f.slots[s].petal = b[q].primary[s]
        <4>1. s \notin ss /\ f.slots[s].petal = flower[q].slots[s].petal /\ flower[q].slots[s].petal # Empty
          BY <3>1, <3>3, <3>5
        <4>2. IF Strips(room[q]) THEN room[q] = "kingdom" /\ flower[q].slots[s].petal = Dealt /\ s \in 1..Groups
              ELSE flower[q].slots[s].petal = account[q].primary[s]
          BY <2>1, <2>2, <4>1 DEF ShowsSaved
        <4>3. flower[q].slots[s] # Bare
          BY <4>1, BareIsSlot
        <4>4. s \in 0..flower[q].count - 1
          <5>1. s \in Nat /\ flower[q].count \in Nat
            BY <2>1, SlotsAreNumbers, CountIsNat
          <5>2. ~(s >= flower[q].count)
            BY <2>1, <4>3 DEF Fine
          <5> QED
            BY <5>1, <5>2
        <4>5. b[q].primary[s] = account[q].primary[s]
          BY <1>6, <4>1, <4>4
        <4> QED
          BY <4>1, <4>2, <4>5
      <3>6. Progress(q)' = b[q] /\ room'[q] = room[q]
        BY <1>3, <2>2 DEF Progress
      <3> QED
        BY <3>2, <3>4, <3>5, <3>6 DEF ShowsSaved
    <2>3. CASE ~(q \in {old, p} /\ flower[q].state # "gone" /\ sandbox[q] = Empty)
      <3>1. flower'[q] = flower[q] /\ room'[q] = room[q]
        BY <1>3, <2>3
      <3>2. CASE flower[q].state = "gone"
        BY <2>1, <3>1, <3>2 DEF ShowsSaved
      <3>3. CASE sandbox[q] # Empty
        <4>1. Progress(q)' = Progress(q)
          BY <1>3, <3>3 DEF Progress
        <4> QED
          BY <2>1, <3>1, <4>1
      <3>4. CASE q \notin {old, p}
        <4>1. b[q] = account[q]
          BY <1>4, <1>5, <3>4
        <4>2. Progress(q)' = Progress(q)
          BY <1>3, <4>1 DEF Progress
        <4> QED
          BY <2>1, <3>1, <4>2
      <3> QED
        BY <2>3, <3>2, <3>3, <3>4
    <2> QED
      BY <2>2, <2>3
  <1>8. DOMAIN flower' = Players /\ flower' = [q \in Players |-> flower'[q]]
    BY <1>3
  <1> HIDE DEF b
  <1> QED
    BY <1>1, <1>3, <1>4, <1>7, <1>8 DEF PlayersInv

LEMMA GetUniqueKeeps ==
  ASSUME LoadoutInv, NEW p \in Players, NEW t \in Types, NEW cost \in {0, ForgeCost}, GetUnique(p, t, cost)
  PROVE  LoadoutInv' /\ (owner' # owner => \A v \in Types : Worth(v)' <= Worth(v))
  <1>1. CASE Exchange(p, t, cost)
    <2>1. PlayersInv' /\ SupplyInv' /\ RegistryOK' /\ \A v \in Types : Worth(v)' <= Worth(v)
      BY <1>1, ExchangedSupply, ExchangedPlayers
    <2> QED
      BY <2>1, InvInParts, PTL
  <1>2. CASE owner' = owner /\ UNCHANGED <<account, sandbox, flower, room, ownerFile, supply>>
    <2>1. PlayersInv /\ RegistryOK
      BY InvInParts
    <2>2. PlayersInv'
      BY <1>2, <2>1 DEF PlayersInv, Progress
    <2>3. RegistryOK'
      BY <1>2, <2>1 DEF RegistryOK
    <2> QED
      BY <1>2, <2>2, <2>3, PlaceStep
  <1> QED
    BY <1>1, <1>2 DEF GetUnique, Restored

-----------------------------------------------------------------------------
\* The invariant holds at the start, and every step keeps it.
LEMMA LoadoutStarts == LoadoutInit => LoadoutInv
  <1> SUFFICES ASSUME LoadoutInit PROVE LoadoutInv
    OBVIOUS
  <1> DEFINE new == [bag |-> [petal \in Petal |-> 0], primary |-> [s \in Slots |-> Empty],
                     secondary |-> Empty, talentSlots |-> FirstSlots]
  <1>0. FirstSlots \in FirstSlots..MaxSlots /\ 0 \in 0..MaxStack /\ MaxStack \in Nat
    BY LoadoutAssumption
  <1>1. new \in Account
    BY <1>0 DEF Account
  <1>2. \A q \in Petal : Holds(new, q) = 0
    <2> SUFFICES ASSUME NEW q \in Petal PROVE Holds(new, q) = 0
      OBVIOUS
    <2>1. q # Empty
      BY KindsOfPetals
    <2>2. new.bag[q] = 0 /\ Held(new, q) = {} /\ InSecondary(new, q) = 0
      BY <2>1 DEF Held, InSecondary
    <2> HIDE DEF new
    <2>3. Cardinality(Held(new, q)) = 0
      BY <2>2, FS_EmptySet
    <2> QED
      BY <2>2, <2>3 DEF Holds
  <1>3. account = [p \in Players |-> new]
    BY DEF LoadoutInit
  <1> HIDE DEF new
  <1>4. account \in [Players -> Account] /\ \A p \in Players : account[p] = new
    BY <1>1, <1>3
  <1>5. PlayersInv
    BY <1>4, NoFlowerIsFine DEF LoadoutInit, PlayersInv, ShowsSaved, RoomKinds
  <1>6. RegistryOK
    BY DEF LoadoutInit, RegistryOK
  <1>7. supply \in [Petal -> Nat] /\ \A q \in Petal : supply[q] = 0
    BY DEF LoadoutInit
  <1>8. PetalsAreConserved
    <2>1. \A q \in Petal : TotalOf(account, q) = 0
      BY <1>2, <1>4, TotalNone
    <2> QED
      BY <1>7, <2>1, TotalIs DEF PetalsAreConserved
  <1>9. \A t \in Types : UniqueOf(t) \in Petal /\ Found[t] \in Petal
    BY KindsOfPetals
  <1>10. \A t \in Types, p \in Players :
           /\ supply[UniqueOf(t)] <= 1
           /\ Holds(account[p], UniqueOf(t)) = IF owner[t].by = p THEN supply[UniqueOf(t)] ELSE 0
    BY <1>2, <1>4, <1>7, <1>9
  <1>11. OwedIsBounded
    <2>1. \A q \in Petal : Owed(q) = 0
      BY DealtIsApart DEF LoadoutInit, Refund, Owed
    <2> QED
      BY <1>0, <1>7, <2>1 DEF OwedIsBounded
  <1>12. SupplyInv
    BY <1>7, <1>8, <1>10, <1>11 DEF SupplyInv
  <1> QED
    BY <1>5, <1>6, <1>12, InvInParts

LEMMA LoadoutStep ==
  LoadoutInv /\ [LoadoutNext]_loadoutVars =>
    LoadoutInv' /\ (owner' # owner => \A t \in Types : Worth(t)' <= Worth(t))
  <1> SUFFICES ASSUME LoadoutInv, [LoadoutNext]_loadoutVars
               PROVE  LoadoutInv' /\ (owner' # owner => \A t \in Types : Worth(t)' <= Worth(t))
    OBVIOUS
  <1>0. ForgeCost \in {0, ForgeCost} /\ 0 \in {0, ForgeCost} /\ Roamers \subseteq Players
    BY LoadoutAssumption
  <1>1. ASSUME NEW p \in Players, Login(p) PROVE LoadoutInv' /\ owner' = owner
    BY <1>1, SpawnKeeps DEF Login, registry
  <1>2. ASSUME NEW p \in Players, Logout(p) PROVE LoadoutInv' /\ owner' = owner
    BY <1>2, LogoutKeeps DEF Logout, registry
  <1>3. ASSUME NEW p \in Players, NEW petal \in Petal, petal.rank # Unique, PickUp(p, petal)
        PROVE  LoadoutInv' /\ owner' = owner
    BY <1>3, PickUpKeeps DEF PickUp, registry
  <1>4. ASSUME NEW p \in Players, NEW t \in Types, Forge(p, t)
        PROVE  LoadoutInv' /\ (owner' # owner => \A v \in Types : Worth(v)' <= Worth(v))
    <2>1. GetUnique(p, t, ForgeCost)
      BY <1>4 DEF Forge
    <2> QED
      BY <1>0, <2>1, GetUniqueKeeps
  <1>5. ASSUME NEW p \in Players, NEW t \in Types, PickUpUnique(p, t)
        PROVE  LoadoutInv' /\ (owner' # owner => \A v \in Types : Worth(v)' <= Worth(v))
    <2>1. CASE sandbox[p] = Empty
      <3>1. GetUnique(p, t, 0)
        BY <1>5, <2>1 DEF PickUpUnique
      <3> QED
        BY <1>0, <3>1, GetUniqueKeeps
    <2>2. CASE sandbox[p] # Empty
      <3>1. owner' = owner
        BY <1>5, <2>2 DEF PickUpUnique, registry
      <3> QED
        BY <1>5, <2>2, <3>1, TryOutKeeps
    <2> QED
      BY <2>1, <2>2
  <1>6. ASSUME NEW p \in Players, NEW s \in Slots, NEW petal \in Petal, Equip(p, s, petal)
        PROVE  LoadoutInv' /\ owner' = owner
    BY <1>6, EquipKeeps DEF Equip, registry
  <1>7. ASSUME NEW p \in Players, NEW s \in Slots, Unequip(p, s) PROVE LoadoutInv' /\ owner' = owner
    BY <1>7, UnequipKeeps DEF Unequip, registry
  <1>8. ASSUME NEW p \in Players, NEW petal \in Petal, SetSecondary(p, petal) PROVE LoadoutInv' /\ owner' = owner
    BY <1>8, SetSecondaryKeeps DEF SetSecondary, registry
  <1>9. ASSUME NEW p \in Players, ClearSecondary(p) PROVE LoadoutInv' /\ owner' = owner
    BY <1>9, ClearSecondaryKeeps DEF ClearSecondary, registry
  <1>10. ASSUME NEW p \in Players, NEW n \in FirstSlots..MaxSlots, LearnSlots(p, n)
         PROVE  LoadoutInv' /\ owner' = owner
    <2>1. UNCHANGED <<room, registry, supply>>
      BY <1>10 DEF LearnSlots
    <2> QED
      BY <1>10, <2>1, LearnSlotsKeeps DEF registry
  <1>11. ASSUME NEW p \in Players, Die(p) PROVE LoadoutInv' /\ owner' = owner
    BY <1>11, DieKeeps DEF Die, registry
  <1>12. ASSUME NEW p \in Players, Revive(p) PROVE LoadoutInv' /\ owner' = owner
    BY <1>12, ReviveKeeps DEF Revive, registry
  <1>13. ASSUME NEW p \in Players, Respawn(p) PROVE LoadoutInv' /\ owner' = owner
    BY <1>13, SpawnKeeps DEF Respawn, registry
  <1>14. ASSUME NEW p \in Players, NEW r \in RoomKinds, Move(p, r)
         PROVE  LoadoutInv' /\ owner' = owner
    BY <1>14, MoveKeeps DEF Move, registry
  <1>15. ASSUME ShutDown \/ Crash PROVE LoadoutInv' /\ owner' = owner
    BY <1>15, OfflineKeeps DEF ShutDown, Crash, Offline
  <1>16. ASSUME UNCHANGED loadoutVars PROVE LoadoutInv' /\ owner' = owner
    <2>1. /\ account' = account /\ sandbox' = sandbox /\ flower' = flower /\ room' = room
          /\ owner' = owner /\ ownerFile' = ownerFile /\ supply' = supply
      BY <1>16 DEF loadoutVars
    <2>2. PlayersInv /\ RegistryOK
      BY InvInParts
    <2>3. PlayersInv'
      BY <2>1, <2>2 DEF PlayersInv, Progress
    <2>4. RegistryOK'
      BY <2>1, <2>2 DEF RegistryOK
    <2> QED
      BY <2>1, <2>3, <2>4, PlaceStep
  <1>17. CASE \E p \in Players :
                \/ Login(p) \/ Logout(p)
                \/ \E petal \in Petal : petal.rank # Unique /\ PickUp(p, petal)
                \/ \E t \in Types : Forge(p, t) \/ PickUpUnique(p, t)
    BY <1>17, <1>1, <1>2, <1>3, <1>4, <1>5
  <1>18. CASE \E p \in Roamers :
                \/ \E s \in Slots, petal \in Petal : Equip(p, s, petal)
                \/ \E s \in Slots : Unequip(p, s)
                \/ \E petal \in Petal : SetSecondary(p, petal)
                \/ ClearSecondary(p)
                \/ \E n \in FirstSlots..MaxSlots : LearnSlots(p, n)
                \/ Die(p) \/ Revive(p) \/ Respawn(p)
                \/ \E r \in RoomKinds : Move(p, r)
    BY <1>0, <1>18, <1>6, <1>7, <1>8, <1>9, <1>10, <1>11, <1>12, <1>13, <1>14
  <1> QED
    BY <1>15, <1>16, <1>17, <1>18 DEF LoadoutNext

\* What players hold and show has its types, and the registry too: an account
\* never goes beyond what a bag holds (player.cpp, account_store.cpp).
THEOREM LoadoutTypeCorrect == LoadoutSpec => []LoadoutTypeOK
  <1>1. LoadoutInv => LoadoutTypeOK
    BY DEF LoadoutInv
  <1> QED
    BY <1>1, LoadoutStarts, LoadoutStep, PTL DEF LoadoutSpec

\* In every kind of room no petal works that neither the account nor the room
\* owns, or twice (player.cpp, flower.cpp, pvp_controller.cpp,
\* ant_kingdom_controller.cpp).
THEOREM SlotsStayTrue == LoadoutSpec => []SlotsAreTrue
  <1>1. LoadoutInv => SlotsAreTrue
    BY DEF LoadoutInv
  <1> QED
    BY <1>1, LoadoutStarts, LoadoutStep, PTL DEF LoadoutSpec

\* No petal is lost or copied on its way between players, rooms and the
\* registry, or by a death that returns it; none is gone but the ones that
\* Equip overwrites and a death gives up or destroys (player.cpp, flower.cpp,
\* account_store.cpp, unique_petal_registry.cpp).
THEOREM PetalsStayAccounted == LoadoutSpec => []PetalsAreAccounted
  <1>1. LoadoutInv => PetalsAreAccounted
    BY DEF LoadoutInv
  <1> QED
    BY <1>1, LoadoutStarts, LoadoutStep, PTL DEF LoadoutSpec

\* Passing a Unique petal on never makes more of the petals it is forged from
\* than there were (unique_petal_registry.cpp, account_store.cpp).
THEOREM RefundsStayPaidFor == LoadoutSpec => RefundsArePaidFor
  <1> DEFINE Paid == owner' # owner => \A t \in Types : Worth(t)' <= Worth(t)
  <1>1. LoadoutInv /\ [LoadoutNext]_loadoutVars => [Paid]_loadoutVars
    BY LoadoutStep
  <1>2. LoadoutInv /\ [LoadoutNext]_loadoutVars => LoadoutInv'
    BY LoadoutStep
  <1>3. RefundsArePaidFor <=> [][Paid]_loadoutVars
    BY DEF RefundsArePaidFor
  <1> QED
    BY <1>1, <1>2, <1>3, LoadoutStarts, PTL DEF LoadoutSpec
=============================================================================
