---------------------------- MODULE SnapshotSync ----------------------------
(***************************************************************************)
(* The delta snapshot protocol between INetworkModule and one player's web *)
(* client.  On every snapshot tick the server captures what the player     *)
(* sees and sends it whole or as the difference to the last snapshot the   *)
(* client acknowledged.  The client rebuilds it from the history it keeps, *)
(* shows the newest of a run and acknowledges that one.  Entering a world  *)
(* sends a scene baseline that starts with a Welcome, after which the      *)
(* client starts over; a change of the world's rules sends one without it. *)
(*                                                                         *)
(* A packet stands for its bytes: buffer and kernel limits count packets,  *)
(* and `partial' says that the first packet of the buffer has partly left. *)
(* Ids are taken modulo Ids instead of 2^32.  Serial comparison makes      *)
(* sense while the ids in use lie within half of the id space; at 30       *)
(* snapshots per second that half is two years, so the model keeps every   *)
(* id in use within Half of the next one, and gives no id again that a     *)
(* side still remembers (`Fresh').  The player has a living flower;        *)
(* without one the server only sends it no snapshots.                      *)
(* `scene' in a snapshot packet is not sent: it records what was captured. *)
(***************************************************************************)
EXTENDS Subsequences, SequencesExt

CONSTANTS
  Entity, Value,   \* what a player can see, and what it can look like
  Place,           \* the maps
  None,
  Ids,             \* how many values an id has
  Limit,           \* snapshot_history_limit, snapshotHistoryLimit
  Backlog,         \* pending packets above which no snapshot is built
  BufferLimit,     \* network_max_send_buffer_size
  NetLimit,        \* bound: packets in the kernel and on the wire
  AckLimit         \* bound: acknowledgements on the wire

ASSUME IdsAssumption == Ids \in Nat /\ Ids >= 4 /\ Ids % 2 = 0
ASSUME LimitAssumption ==
  /\ Limit \in Nat \ {0}
  /\ Backlog \in Nat
  /\ BufferLimit \in Nat \ {0}
  /\ NetLimit \in Nat \ {0}
  /\ AckLimit \in Nat \ {0}

VARIABLES
  world,          \* the map the player is in and what it sees there
  snapshotId,     \* m_snapshot_id
  pending,        \* the player's entry of m_pending_scene_syncs: "none", "state" or "full"
  acked,          \* acked_snapshot_id
  history,        \* the snapshots recorded as sent, oldest first
  buffer,         \* m_send_buffer
  partial,        \* m_send_offset is inside the first packet
  connected,
  net,            \* packets on their way to the client
  acks,           \* acknowledgements on their way to the server
  clientHistory,  \* snapshotHistory
  latest,         \* latestSnapshot of the run of frames being received
  applied,        \* state.snapshotId
  view,           \* the map of the last Welcome and the entities shown
  resetRequested  \* snapshotResetRequested

server == <<snapshotId, pending, acked, history, buffer, partial, connected>>
client == <<clientHistory, latest, applied, view, resetRequested>>
vars == <<world, server, net, acks, client>>

-----------------------------------------------------------------------------
\* Ids and contents

FullBase == Ids - 1
Half == Ids \div 2

\* Mistake: ids are compared as numbers.
NewerAsNumber(a, b) == a > b

\* IsNewerUint32Sequence, on both sides.
Newer(a, b) == (a - b) % Ids \in 1..(Half - 1)

\* Mistake: the id that stands for a full snapshot is used.
NextNumber(i) == (i + 1) % Ids

\* The next id; the one that stands for a full snapshot is never used.
NextId(i) == IF (i + 1) % Ids = FullBase THEN (i + 2) % Ids ELSE (i + 1) % Ids

Id == 0..(Ids - 2)
Entities == UNION {[seen -> Value] : seen \in SUBSET Entity}
Scene == [place : Place, entities : Entities]
Empty == [e \in {} |-> None]

ASSUME NoneAssumption == None \notin Id \cup [id : Id, entities : Entities, scene : Scene]

\* What differs between what is seen now and the base.
Changed(base, now) ==
  LET different == {e \in DOMAIN now : e \notin DOMAIN base \/ base[e] # now[e]}
  IN  [e \in different |-> now[e]]

Removed(base, now) == DOMAIN base \ DOMAIN now

\* The client's side of it.
Patched(base, changed, removed) ==
  [e \in (DOMAIN base \ removed) \cup DOMAIN changed |->
     IF e \in DOMAIN changed THEN changed[e] ELSE base[e]]

Recorded(entries, id) == \E k \in DOMAIN entries : entries[k].id = id

EntryOf(entries, id) ==
  entries[CHOOSE k \in DOMAIN entries : entries[k].id = id].entities

Snapshots == [type : {"snapshot"}, id : Id, base : Id \cup {FullBase}, scene : Scene,
              changed : Entities, removed : SUBSET Entity]
Packets == Snapshots \cup [type : {"welcome"}, place : Place] \cup [type : {"other"}]

IsSnapshot(packet) == packet.type = "snapshot"
Other == [type |-> "other"]

-----------------------------------------------------------------------------
\* Bounds

\* The ids that either side may still compare with a new one.
IdsInUse ==
  LET InPackets(packets) == {packets[k].id : k \in {j \in DOMAIN packets : IsSnapshot(packets[j])}}
  IN  ({acked, applied} \cup ToSet(acks) \cup InPackets(net) \cup InPackets(buffer)
       \cup (IF latest = None THEN {} ELSE {latest.id})) \ {None, FullBase}

Fresh(id) ==
  /\ \A used \in IdsInUse : (id - used) % Ids \in 1..(Half - 1)
  /\ ~Recorded(history, id) /\ ~Recorded(clientHistory, id)

-----------------------------------------------------------------------------
\* The send buffer

\* Mistake: a snapshot that has partly left is dropped too.
WithoutAnySnapshot(packets, begun) ==
  Picked(packets, {k \in DOMAIN packets : ~IsSnapshot(packets[k])})

\* DropQueuedSnapshots: a packet that has partly left stays.
WithoutSnapshots(packets, begun) ==
  Picked(packets, {k \in DOMAIN packets : IsSnapshot(packets[k]) => begun /\ k = 1})

\* FlushSendBuffer: the kernel takes some packets and maybe part of one more.
Flushed(packets, begun) ==
  \E k \in 0..Len(packets) :
    /\ Len(net) + k <= NetLimit
    /\ net' = net \o SubSeq(packets, 1, k)
    /\ buffer' = SubSeq(packets, k + 1, Len(packets))
    /\ partial' \in {p \in BOOLEAN : /\ p => buffer' # <<>>
                                     /\ begun /\ k = 0 => p}

-----------------------------------------------------------------------------
\* The server

ResetSnapshotState == history' = <<>> /\ acked' = None

\* QueuePlayerBaseline: a baseline that cannot be queued stays pending, and one
\* without the Welcome does not replace a full one.
Baseline(kind, place, packets, begun) ==
  LET needed == IF pending = "full" THEN "full" ELSE kind
      kept   == WithoutSnapshots(packets, begun)
      first  == IF needed = "full" THEN [type |-> "welcome", place |-> place] ELSE Other
  IN  IF connected' /\ Len(kept) < BufferLimit
      THEN /\ buffer' = Append(kept, first)
           /\ pending' = "none"
           /\ ResetSnapshotState
      ELSE /\ buffer' = IF connected' THEN kept ELSE packets
           /\ pending' = needed
           /\ UNCHANGED <<history, acked>>

\* PrepareSnapshotForSend: the smaller of the whole scene and the difference.
FullSnapshot ==
  [type |-> "snapshot", id |-> snapshotId, base |-> FullBase, scene |-> world,
   changed |-> world.entities, removed |-> {}]

DeltaSnapshot ==
  LET base == EntryOf(history, acked)
  IN  [type |-> "snapshot", id |-> snapshotId, base |-> acked, scene |-> world,
       changed |-> Changed(base, world.entities), removed |-> Removed(base, world.entities)]

Prepared ==
  {FullSnapshot} \cup
    (IF acked # None /\ Recorded(history, acked) THEN {DeltaSnapshot} ELSE {})

\* RecordSentSnapshot
Kept(entries) == IF Len(entries) > Limit THEN Tail(entries) ELSE entries

RecordSent ==
  /\ history' = Kept(Append(history, [id |-> snapshotId, entities |-> world.entities]))
  /\ acked' = IF acked # None /\ Recorded(history', acked) THEN acked ELSE None

\* Mistake: snapshots are sent while a scene baseline is pending.
MaySendAlways == connected

\* SendSnapshots for this player.  A tick that queues nothing uses up an id too.
MaySend == connected /\ pending = "none"

TickOnly ==
  /\ ~MaySend
  /\ UNCHANGED <<history, acked, buffer, partial, net>>

TickBacklog ==
  /\ MaySend
  /\ LET kept == WithoutSnapshots(buffer, partial)
     IN  Len(kept) > Backlog /\ Flushed(kept, partial)
  /\ UNCHANGED <<history, acked>>

TickSend ==
  /\ MaySend
  /\ LET kept == WithoutSnapshots(buffer, partial)
     IN  /\ Len(kept) <= Backlog
         /\ \E packet \in Prepared :
              IF Len(kept) < BufferLimit
              THEN RecordSent /\ Flushed(Append(kept, packet), partial)
              ELSE /\ Fresh(NextId(snapshotId))
                   /\ Flushed(kept, partial)
                   /\ acked' = IF acked # None /\ Recorded(history, acked) THEN acked ELSE None
                   /\ UNCHANGED history

SendSnapshots ==
  /\ Fresh(snapshotId)
  /\ \/ TickSend
     \/ Fresh(NextId(snapshotId)) /\ (TickOnly \/ TickBacklog)
  /\ snapshotId' = NextId(snapshotId)
  /\ UNCHANGED <<world, pending, connected, acks, client>>

\* ProcessMessages flushes what is queued.
Flush ==
  /\ connected
  /\ buffer # <<>>
  /\ Flushed(buffer, partial)
  /\ UNCHANGED <<world, snapshotId, pending, acked, history, connected, acks, client>>

\* HandleSnapshotAck
KnownAck(id) ==
  IF Recorded(history, id)
  THEN /\ acked' = id
       /\ LET k == CHOOSE j \in DOMAIN history : history[j].id = id
          IN  history' = SubSeq(history, k, Len(history))
  ELSE acked' = None /\ UNCHANGED history

HandleSnapshotAck ==
  /\ acks # <<>>
  /\ LET id == Head(acks)
     IN  IF id = FullBase THEN ResetSnapshotState
         ELSE IF acked # None /\ ~Newer(id, acked) THEN UNCHANGED <<acked, history>>
         ELSE KnownAck(id)
  /\ acks' = Tail(acks)
  /\ UNCHANGED <<world, snapshotId, pending, buffer, partial, connected, net, client>>

\* RetryPendingSceneSyncs: flush, then try again with what is left.
RetryPendingSceneSyncs ==
  /\ connected
  /\ pending # "none"
  /\ \E k \in 0..Len(buffer) :
       /\ Len(net) + k <= NetLimit
       /\ net' = net \o SubSeq(buffer, 1, k)
       /\ LET left == SubSeq(buffer, k + 1, Len(buffer))
          IN  /\ partial' \in {p \in BOOLEAN : (p => left # <<>>) /\ (partial /\ k = 0 => p)}
              /\ UNCHANGED connected
              /\ Baseline(pending, world.place, left, partial')
  /\ UNCHANGED <<world, snapshotId, acks, client>>

\* Anything else the server sends: chat, inventory, terrain, environment.
QueueOther ==
  /\ connected
  /\ Len(buffer) < BufferLimit
  /\ buffer' = Append(buffer, Other)
  /\ UNCHANGED <<world, snapshotId, pending, acked, history, partial, connected, net, acks, client>>

\* What the player sees changes.
Change ==
  /\ \E entities \in Entities : world' = [world EXCEPT !.entities = entities]
  /\ UNCHANGED <<server, net, acks, client>>

\* NotifyPlayerWorldChanged: another map, or a new flower in the same one.
EnterWorld ==
  /\ world' \in Scene
  /\ UNCHANGED <<connected, partial>>
  /\ Baseline("full", world'.place, buffer, partial)
  /\ UNCHANGED <<snapshotId, net, acks, client>>

\* NotifyPlayerRulesChanged
RulesChange ==
  /\ Fresh(snapshotId)
  /\ UNCHANGED <<connected, partial>>
  /\ Baseline("state", world.place, buffer, partial)
  /\ UNCHANGED <<world, snapshotId, net, acks, client>>

\* ApplyAuthentication: the session is new, or goes on with another socket,
\* whose first packet is the AuthResult.
Login ==
  /\ ~connected
  /\ connected' = TRUE
  /\ partial' = FALSE
  /\ Baseline("full", world.place, <<Other>>, FALSE)
  /\ UNCHANGED <<world, snapshotId, net, acks, client>>

-----------------------------------------------------------------------------
\* The web client

\* Mistake: the client remembers one snapshot less than the server.
ClientKeptFewer(entries) == IF Len(entries) >= Limit THEN Tail(entries) ELSE entries

\* resolveSnapshot
ClientKept(entries) == IF Len(entries) > Limit THEN Tail(entries) ELSE entries

Resolvable(packet) == packet.base = FullBase \/ Recorded(clientHistory, packet.base)

Resolved(packet) ==
  IF packet.base = FullBase THEN packet.changed
  ELSE Patched(EntryOf(clientHistory, packet.base), packet.changed, packet.removed)

RequestFullSnapshot ==
  /\ resetRequested' = TRUE
  /\ acks' = IF resetRequested THEN acks ELSE Append(acks, FullBase)

ReceiveSnapshot ==
  /\ net # <<>>
  /\ IsSnapshot(Head(net))
  /\ LET packet == Head(net)
         resolved == [id |-> packet.id, entities |-> Resolved(packet), scene |-> packet.scene]
     IN  IF Resolvable(packet)
         THEN /\ clientHistory' = ClientKept(Append(clientHistory, [id |-> packet.id, entities |-> resolved.entities]))
              /\ latest' = IF latest = None \/ Newer(packet.id, latest.id) THEN resolved ELSE latest
              /\ resetRequested' = (resetRequested /\ packet.base # FullBase)
              /\ UNCHANGED acks
         ELSE /\ RequestFullSnapshot
              /\ UNCHANGED <<clientHistory, latest>>
  /\ net' = Tail(net)
  /\ UNCHANGED <<world, server, applied, view>>

\* applySnapshotAndAck, at the end of what was received or before a packet of
\* another type.
ApplySnapshotAndAck ==
  /\ latest # None
  /\ Len(acks) < AckLimit
  /\ IF applied = None \/ Newer(latest.id, applied)
     THEN /\ applied' = latest.id
          /\ view' = [view EXCEPT !.entities = latest.entities]
          /\ acks' = Append(acks, latest.id)
     ELSE UNCHANGED <<applied, view, acks>>
  /\ latest' = None
  /\ UNCHANGED <<world, server, net, clientHistory, resetRequested>>

\* resetNetworkScene
ResetNetworkScene(place) ==
  /\ clientHistory' = <<>>
  /\ latest' = None
  /\ applied' = None
  /\ view' = [place |-> place, entities |-> Empty]
  /\ resetRequested' = FALSE

ReceiveWelcome ==
  /\ latest = None
  /\ net # <<>>
  /\ Head(net).type = "welcome"
  /\ ResetNetworkScene(Head(net).place)
  /\ net' = Tail(net)
  /\ UNCHANGED <<world, server, acks>>

ReceiveOther ==
  /\ latest = None
  /\ net # <<>>
  /\ Head(net) = Other
  /\ net' = Tail(net)
  /\ UNCHANGED <<world, server, acks, client>>

\* DetachSocket on one side, the close event on the other.  What each side
\* still does alone before it notices has no effect on the other.
LoseConnection ==
  /\ connected
  /\ connected' = FALSE
  /\ buffer' = <<>>
  /\ partial' = FALSE
  /\ net' = <<>>
  /\ acks' = <<>>
  /\ ResetNetworkScene(None)
  /\ UNCHANGED <<world, snapshotId, pending, acked, history>>

-----------------------------------------------------------------------------
Init ==
  /\ world \in Scene
  /\ snapshotId \in Id
  /\ pending = "none"
  /\ acked = None
  /\ history = <<>>
  /\ buffer = <<>>
  /\ partial = FALSE
  /\ connected = FALSE
  /\ net = <<>>
  /\ acks = <<>>
  /\ clientHistory = <<>>
  /\ latest = None
  /\ applied = None
  /\ view = [place |-> None, entities |-> Empty]
  /\ resetRequested = FALSE

ServerNext ==
  \/ SendSnapshots \/ Flush \/ HandleSnapshotAck \/ RetryPendingSceneSyncs \/ QueueOther
  \/ Change \/ EnterWorld \/ RulesChange \/ Login

ClientNext == ReceiveSnapshot \/ ApplySnapshotAndAck \/ ReceiveWelcome \/ ReceiveOther

Next == ServerNext \/ ClientNext \/ LoseConnection

Spec == Init /\ [][Next]_vars

-----------------------------------------------------------------------------
\* Properties

Entry == [id : Id, entities : Entities]

\* The variables keep their shapes; in particular UINT32_MAX, which stands for
\* a full snapshot, is never the id of a snapshot (SendSnapshots).
TypeOK ==
  /\ world \in Scene
  /\ snapshotId \in Id
  /\ pending \in {"none", "state", "full"}
  /\ acked \in Id \cup {None}
  /\ history \in Seq(Entry) /\ Len(history) <= Limit
  /\ buffer \in Seq(Packets) /\ Len(buffer) <= BufferLimit
  /\ partial \in BOOLEAN /\ (partial => buffer # <<>>)
  /\ connected \in BOOLEAN
  /\ net \in Seq(Packets) /\ Len(net) <= NetLimit
  /\ acks \in Seq(Id \cup {FullBase})
  /\ clientHistory \in Seq(Entry) /\ Len(clientHistory) <= Limit
  /\ latest = None \/ latest \in [id : Id, entities : Entities, scene : Scene]
  /\ applied \in Id \cup {None}
  /\ view \in [place : Place \cup {None}, entities : Entities]
  /\ resetRequested \in BOOLEAN

\* Whatever was queued, dropped, half sent or reset in between, the base of a
\* snapshot that reaches the client is still in its history: it never has to
\* ask for a full snapshot.  Both sides keep the same number of snapshots, and
\* the server gives up a base exactly when the client may have forgotten it.
DeltasResolve ==
  net # <<>> /\ IsSnapshot(Head(net)) => Resolvable(Head(net))

\* An id that both sides remember stands for the same entities on both, so a
\* difference computed on one side can be applied on the other.
HistoriesAgree ==
  connected =>
    \A j \in DOMAIN history, k \in DOMAIN clientHistory :
      history[j].id = clientHistory[k].id => history[j].entities = clientHistory[k].entities

\* Both sides of a connection mean the same by what they remember, so a
\* difference that arrives can be applied and gives what the server captured.
SyncsAgree == DeltasResolve /\ HistoriesAgree

\* A packet that has partly left is sent to its end before anything else: no
\* scene baseline, dropped snapshot or overflow breaks the stream's framing.
FramesStayWhole ==
  [][partial /\ connected' =>
       \/ IsPrefix(Append(net, Head(buffer)), net')
       \/ buffer' # <<>> /\ Head(buffer') = Head(buffer)]_vars

\* What the client shows is always a scene the server captured, rebuilt without
\* loss, in the map of the client's last Welcome, and never an older one than
\* the one before.
AsCaptured(packets) ==
  LET snapshots == Picked(packets, {k \in DOMAIN packets : IsSnapshot(packets[k])})
  IN  [k \in DOMAIN snapshots |-> snapshots[k].scene]

Mirrored == INSTANCE Mirror WITH
  Nothing <- None,
  sent <- (IF latest = None THEN <<>> ELSE <<latest.scene>>) \o AsCaptured(net) \o AsCaptured(buffer),
  view <- IF applied = None THEN None ELSE view

IsMirror == Mirrored!Spec

Fairness ==
  /\ WF_vars(SendSnapshots)
  /\ WF_vars(Flush /\ net' # net)
  /\ WF_vars(HandleSnapshotAck)
  /\ WF_vars(RetryPendingSceneSyncs)
  /\ WF_vars(ReceiveSnapshot)
  /\ WF_vars(ApplySnapshotAndAck)
  /\ WF_vars(ReceiveWelcome)
  /\ WF_vars(ReceiveOther)

FairSpec == Spec /\ Fairness

\* Once the world stops changing and the server has nothing else to tell a
\* player that stays connected, the player ends up seeing the world as it is,
\* also across a baseline that did not fit, a history that was given up, and
\* the wrap-around of the ids.
ProtocolOnly ==
  [][SendSnapshots \/ Flush \/ HandleSnapshotAck \/ RetryPendingSceneSyncs \/ ClientNext]_vars

EventuallyMirrors ==
  <>ProtocolOnly /\ <>[]connected => <>[](view = world)
=============================================================================
