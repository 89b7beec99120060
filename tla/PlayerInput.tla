---------------------------- MODULE PlayerInput ----------------------------
(* What a player does with the mob it controls (player_controller.cpp): input *)
(* frames carry a sequence number and the tick they are meant for, older     *)
(* packets take effect at the next tick. Both wait in a ring of slots, one   *)
(* for each of the coming ticks of the mob; frames that were meant for later *)
(* may be overtaken by frames sent after them.                               *)
EXTENDS Naturals

CONSTANTS
  INPUT_QUEUE_CAPACITY, MAX_INPUT_DELAY_TICKS,
  MaxTicks,       \* bound: ticks of one controller
  SequenceRange,  \* values of a sequence number, 2^32 in the code
  FirstSequences, \* bound: where the client's numbers start
  MaxInputs,      \* bound: operations of a behaviour
  NoSequence, NoOperate

MIN_INPUT_DELAY_TICKS == 1
Sequences == 0..(SequenceRange - 1)
Fields == {"movement", "chores", "skill"}

ASSUME PlayerInputAssumption ==
  /\ INPUT_QUEUE_CAPACITY \in Nat /\ MAX_INPUT_DELAY_TICKS \in 1..(INPUT_QUEUE_CAPACITY - 1)
  /\ SequenceRange \in Nat \ {0} /\ FirstSequences \subseteq Sequences
  /\ MaxTicks \in Nat /\ MaxInputs \in Nat /\ NoSequence \notin Sequences

VARIABLES
  localTick,  \* m_local_tick
  operates,   \* m_pending_operates
  last,       \* m_last_sequence, m_has_last_sequence
  applied,    \* m_applied_movement_sequence, m_applied_chores_sequence
  sequence,   \* the next number of the client
  inputs,     \* history: operations taken, numbered as they came
  newest,     \* history: for each field, the last operation taken since the reset
  inForce     \* history: for each field, the operation carried out last

inputVars == <<localTick, operates, last, applied, sequence, inputs, newest, inForce>>

Ring == 0..(INPUT_QUEUE_CAPACITY - 1)
TickAfter(n) == localTick + n
SlotOf(tick) == tick % INPUT_QUEUE_CAPACITY

IsNewerSequence(s, previous) ==
  LET distance == (s + SequenceRange - previous) % SequenceRange
  IN distance # 0 /\ 2 * distance < SequenceRange

PendingOperate == [target : Nat, holds : [Fields -> 0..MaxInputs],
                   numbers : [Fields -> Sequences \cup {NoSequence}]]
\* NoOperate stands for a slot that is not occupied.
ASSUME NoOperateAssumption == NoOperate \notin PendingOperate
\* A slot: what it holds for each field (0: nothing) and under which number.
Blank(tick) == [target |-> tick, holds |-> [f \in Fields |-> 0],
                numbers |-> [f \in Fields |-> NoSequence]]

ClearPendingOperates ==
  /\ operates' = [s \in Ring |-> NoOperate]
  /\ last' = NoSequence /\ applied' = [f \in Fields |-> NoSequence]
  /\ newest' = [f \in Fields |-> 0] /\ inForce' = [f \in Fields |-> 0]

-----------------------------------------------------------------------------
\* MergeOperate into the slot of the target tick, which is emptied first when
\* it holds another tick's.
MergeOperate(queue, updated, number, delay) ==
  LET tick == TickAfter(delay)
      old == queue[SlotOf(tick)]
      slot == IF old # NoOperate /\ old.target = tick THEN old ELSE Blank(tick)
  IN [queue EXCEPT ![SlotOf(tick)] =
        [target |-> tick,
         holds |-> [f \in Fields |-> IF f \in updated THEN inputs + 1 ELSE slot.holds[f]],
         numbers |-> [f \in Fields |-> IF f \in updated THEN number ELSE slot.numbers[f]]]]
\* A packet without a number replaces all that waits for the fields it updates.
Fenced(queue, updated) ==
  [s \in Ring |->
     IF queue[s] = NoOperate THEN NoOperate
     ELSE [queue[s] EXCEPT !.holds = [f \in Fields |-> IF f \in updated THEN 0 ELSE @[f]]]]

Taken(updated) ==
  /\ inputs < MaxInputs /\ inputs' = inputs + 1
  /\ newest' = [f \in Fields |-> IF f \in updated THEN inputs + 1 ELSE newest[f]]

\* The numbers a frame is compared with are less than half the range behind it:
\* 2^31 frames are not sent within MAX_INPUT_DELAY_TICKS.
InWindow(number) ==
  \A old \in {applied[f] : f \in Fields} \cup
             {operates[s].numbers[f] : s \in {t \in Ring : operates[t] # NoOperate}, f \in Fields} :
    old \in Sequences => 2 * ((number + SequenceRange - old) % SequenceRange) < SequenceRange

\* HandleInputFrame: the delay to the tick the client asks for, at most
\* MAX_INPUT_DELAY_TICKS, and PushOperate, which refuses what is not newer than
\* the last frame. A client sends its numbers in order, one perhaps twice.
InputFrame(number, delay) ==
  /\ InWindow(number)
  /\ last # NoSequence => IsNewerSequence(number, last)
  /\ Taken({"movement", "chores"})
  /\ operates' = MergeOperate(operates, {"movement", "chores"}, number, delay)
  /\ last' = number
  /\ sequence' = (number + 1) % SequenceRange
  /\ UNCHANGED <<localTick, applied, inForce>>

\* HandleOperate with a packet of one kind.
Operate(field) ==
  LET updated == {field} \ {"skill"}
  IN /\ Taken({field})
     /\ operates' = MergeOperate(Fenced(operates, updated), {field}, NoSequence,
                                 MIN_INPUT_DELAY_TICKS)
     /\ applied' = [f \in Fields |-> IF f \in updated /\ last # NoSequence THEN last ELSE applied[f]]
     /\ UNCHANGED <<localTick, last, sequence, inForce>>

\* A mistake: what was sent before and meant for later is carried out, too.
ExecutesAll(slot, f) == slot.holds[f] # 0

\* Whether a tick carries out what its slot holds for a field.
Executes(slot, f) ==
  /\ slot.holds[f] # 0
  /\ \/ NoSequence \in {slot.numbers[f], applied[f]}
     \/ IsNewerSequence(slot.numbers[f], applied[f])

\* OnTick of the controller: the mob ticks, unless it is frozen or dead.
OnTick ==
  LET slot == operates[SlotOf(TickAfter(1))]
  IN /\ localTick < MaxTicks /\ localTick' = TickAfter(1)
     /\ IF slot # NoOperate /\ slot.target = TickAfter(1)
        THEN /\ operates' = [operates EXCEPT ![SlotOf(TickAfter(1))] = NoOperate]
             /\ inForce' = [f \in Fields |->
                              IF Executes(slot, f) THEN slot.holds[f] ELSE inForce[f]]
             /\ applied' = [f \in Fields |->
                              IF Executes(slot, f) /\ slot.numbers[f] # NoSequence
                              THEN slot.numbers[f] ELSE applied[f]]
        ELSE UNCHANGED <<operates, inForce, applied>>
     /\ UNCHANGED <<last, sequence, inputs, newest>>

\* The player is connected or disconnected or its mob is moved (ResetControlledMob).
ResetOperate ==
  /\ ClearPendingOperates
  /\ UNCHANGED <<localTick, sequence, inputs>>

\* The player takes possession of a mob: a new controller. A restored one is new too.
NewController ==
  /\ ClearPendingOperates
  /\ localTick' = 0
  /\ UNCHANGED <<sequence, inputs>>

-----------------------------------------------------------------------------
PlayerInputInit ==
  /\ localTick = 0
  /\ operates = [s \in Ring |-> NoOperate]
  /\ last = NoSequence /\ applied = [f \in Fields |-> NoSequence]
  /\ sequence \in FirstSequences
  /\ inputs = 0 /\ newest = [f \in Fields |-> 0] /\ inForce = [f \in Fields |-> 0]

PlayerInputNext ==
  \/ \E again \in {0, 1}, delay \in MIN_INPUT_DELAY_TICKS..MAX_INPUT_DELAY_TICKS :
       InputFrame((sequence + SequenceRange - again) % SequenceRange, delay)
  \/ \E field \in Fields : Operate(field)
  \/ OnTick
  \/ ResetOperate
  \/ NewController

PlayerInputSpec == PlayerInputInit /\ [][PlayerInputNext]_inputVars

-----------------------------------------------------------------------------
PlayerInputTypeOK ==
  /\ localTick \in 0..MaxTicks
  /\ operates \in [Ring -> PendingOperate \cup {NoOperate}]
  /\ last \in Sequences \cup {NoSequence}
  /\ applied \in [Fields -> Sequences \cup {NoSequence}]
  /\ sequence \in Sequences /\ inputs \in 0..MaxInputs
  /\ newest \in [Fields -> 0..MaxInputs] /\ inForce \in [Fields -> 0..MaxInputs]

\* What waits for a field and would be carried out if its tick came now.
Due(f) ==
  {operates[s].holds[f] : s \in {t \in Ring : operates[t] # NoOperate /\ Executes(operates[t], f)}}

\* An operation that was overtaken never comes back: whatever is still carried
\* out was sent after what is in force; and none is lost: the last operation on
\* a field is in force or will be (MergeOperate, the fence and the two
\* comparisons of sequence numbers).
InputsAreInOrder ==
  \A f \in Fields :
    /\ \A n \in Due(f) : n > inForce[f]
    /\ newest[f] \in Due(f) \cup {inForce[f]}
=============================================================================
