---------------------------- MODULE ServerProofs ----------------------------
(* Proofs about the server around the worlds' entities: the reload from one  *)
(* process to the next (HotReload), the review of player reports (Reports),  *)
(* the rooms, which stay apart and leave nobody without a world (Rooms), and *)
(* the squads, which are who agreed to them (Squads).                        *)
EXTENDS HotReload, Reports, Rooms, Squads, FiniteSetTheorems, WellFoundedInduction, TLAPS

-----------------------------------------------------------------------------
(* Hot reload, for any builds and any number of changes.                     *)

\* The process starts under the eyes of the launcher, and changes nothing
\* before it is ready.
Starting ==
  /\ launcher = "launching" => process = "none"
  /\ process \in {"loading", "loaded", "restored"} =>
       launcher = "watching" /\ ~readyFile /\ change = launchedAt
  /\ launchedAt <= change

\* The build before a reload is the author of its snapshot, and the only one
\* that is gone back to.
Succession ==
  /\ handed # NoSnapshot => previous = handed.author
  /\ rollback => handed # NoSnapshot /\ launcher # "serving"
  /\ rollback /\ launcher \in {"launching", "watching"} => build = previous
  /\ launcher = "failed" /\ handed # NoSnapshot => build = previous

IsOf(a, u, snapshot) == a = snapshot.accounts /\ u = snapshot.uniques

\* As long as no process has changed anything the stores on disk, and what was
\* loaded from them, are those of the snapshot.
StoresWait ==
  handed # NoSnapshot /\ ~parted =>
    /\ launcher = "launching" => IsOf(savedAccounts, savedUniques, handed)
    /\ launcher = "watching" /\ change = launchedAt =>
         /\ IsOf(savedAccounts, savedUniques, handed)
         /\ process \in {"loaded", "restored", "ticking", "stopping"} => IsOf(accounts, uniques, handed)

WorldIsRestored == process = "restored" /\ handed # NoSnapshot => world = handed.world

\* A process that stops for a reload has left its request and flushed the
\* accounts.
Parting ==
  process \in {"stopping", "exited"} /\ exitCode = hot_reload_exit_code =>
    /\ request # NoSnapshot
    /\ request.snapshot = [world |-> world, accounts |-> accounts, uniques |-> uniques, author |-> build]
    /\ savedAccounts = accounts

ReloadInv == Starting /\ Succession /\ StoresWait /\ WorldIsRestored /\ Parting

-----------------------------------------------------------------------------
\* Types

\* The process that ticks has a whole world.
WholeWorld == process \in {"loaded", "restored", "ticking"} => world \in Versions

ReloadTyped == HotReloadTypeOK /\ WholeWorld

LEMMA ExitCodesAre ==
  /\ 0 \in ExitCodes /\ 1 \in ExitCodes
  /\ hot_reload_exit_code \in ExitCodes /\ restore_failed_exit_code \in ExitCodes
  BY DEF ExitCodes

LEMMA VersionsAreNat == \A v \in Versions : v \in Nat
  BY HotReloadAssumption DEF Versions

LEMMA ZeroIsVersion == 0 \in Versions
  BY HotReloadAssumption DEF Versions

\* What a tick changes keeps its type.
LEMMA ChangesAreTyped ==
  ASSUME ReloadTyped, world \in Versions, MayChange
  PROVE  /\ world' \in Versions /\ accounts' \in Versions /\ uniques' \in Versions
         /\ change' \in Versions /\ change <= change'
         /\ change' = change => memory' = memory
  <1>1. /\ change \in Versions /\ accounts \in Versions /\ uniques \in Versions
        /\ world \in Versions
    BY DEF ReloadTyped, HotReloadTypeOK
  <1>2. CASE UNCHANGED <<memory, change>>
    <2>1. change <= change
      BY <1>1, HotReloadAssumption DEF Versions
    <2> QED
      BY <1>1, <1>2, <2>1 DEF memory
  <1>3. CASE /\ change < MaxChanges /\ change' = change + 1 /\ world' \in {world, change'}
             /\ accounts' \in {accounts, change'} /\ uniques' \in {uniques, change'}
    <2>1. change' \in Versions /\ change <= change' /\ change' # change
      BY <1>1, <1>3, HotReloadAssumption DEF Versions
    <2> QED
      BY <1>1, <1>3, <2>1
  <1> QED
    BY <1>2, <1>3 DEF MayChange

\* A launch that fails leaves a build to go on with, or the launcher gives up.
LEMMA FailedLaunch ==
  ASSUME HotReloadTypeOK, LaunchFails
  PROVE  /\ launcher' \in {"launching", "failed"} /\ build' \in Builds /\ rollback' \in BOOLEAN
         /\ previous' = previous /\ handed' = handed
  BY DEF HotReloadTypeOK, LaunchFails, RollsBack, BackTo, GivesUp

\* What the launcher does keeps the types.
LEMMA LauncherTyped ==
  ASSUME ReloadTyped, Launch \/ SeeReady \/ NotSeenReady \/ HandOver
  PROVE  ReloadTyped'
  <1> USE ExitCodesAre DEF ReloadTyped, HotReloadTypeOK, WholeWorld
  <1>1. CASE Launch
    BY <1>1, FailedLaunch DEF Launch, memory, disk
  <1>2. CASE SeeReady
    BY <1>2 DEF SeeReady, memory, disk
  <1>3. CASE NotSeenReady
    BY <1>3, FailedLaunch DEF NotSeenReady, memory, disk
  <1>4. CASE HandOver
    <2>1. request # NoSnapshot =>
            request.snapshot \in Snapshot /\ Resolved(request.candidate) \subseteq Builds
      BY DEF ReloadRequest, Resolved
    <2> QED
      BY <1>4, <2>1 DEF HandOver, memory, disk
  <1> QED
    BY <1>1, <1>2, <1>3, <1>4

\* So does the process.
LEMMA ProcessTyped ==
  ASSUME ReloadTyped, Load \/ Restore \/ Publish \/ Tick \/ PersistAccounts \/ ShutDownServer \/ CrashServer
  PROVE  ReloadTyped'
  <1> USE ExitCodesAre DEF ReloadTyped, HotReloadTypeOK, WholeWorld
  <1>1. CASE Load
    BY <1>1, ZeroIsVersion DEF Load, Stops, launcherVars, disk
  <1>2. CASE Restore
    <2>1. handed # NoSnapshot => handed.world \in Versions
      BY DEF Snapshot
    <2> QED
      BY <1>2, <2>1 DEF Restore, Stops, launcherVars, disk
  <1>3. CASE Publish
    <2>1. /\ world' \in Versions /\ accounts' \in Versions /\ uniques' \in Versions
          /\ change' \in Versions /\ candidate' \in Builds \cup {NoSnapshot}
      BY <1>3, ChangesAreTyped DEF Publish, Requests
    <2> QED
      BY <1>3, <2>1 DEF Publish, Stops, launcherVars, disk
  <1>4. CASE Tick
    <2>1. /\ world' \in Versions /\ accounts' \in Versions /\ uniques' \in Versions
          /\ change' \in Versions
      BY <1>4, ChangesAreTyped DEF Tick
    <2>2. PICK c \in Requests :
            \/ c # NoSnapshot /\ HandsOver(c)
            \/ StaysUp /\ (Stops(0) \/ UNCHANGED <<process, exitCode>>)
      BY <1>4 DEF Tick
    <2>3. Captured \in Snapshot
      BY <2>1 DEF Captured, Snapshot
    <2>4. CASE c # NoSnapshot /\ HandsOver(c)
      <3>1. c \in Builds
        BY <2>4 DEF Requests
      <3>2. request' \in ReloadRequest
        BY <2>3, <2>4, <3>1 DEF HandsOver, ReloadRequest
      <3> QED
        BY <1>4, <2>1, <2>4, <3>2 DEF Tick, HandsOver, FlushedAccounts, Stops, launcherVars
    <2>5. CASE StaysUp /\ (Stops(0) \/ UNCHANGED <<process, exitCode>>)
      BY <1>4, <2>1, <2>5 DEF Tick, StaysUp, Stops, launcherVars
    <2> QED
      BY <2>2, <2>4, <2>5
  <1>5. CASE PersistAccounts
    <2>1. savedAccounts' \in Versions /\ UNCHANGED savedUniques
      BY <1>5 DEF PersistAccounts
    <2>2. UNCHANGED <<launcher, build, previous, rollback, handed, process, exitCode, readyFile,
                      candidate, world, accounts, uniques, request, change, launchedAt, parted>>
      BY <1>5 DEF PersistAccounts, launcherVars, memory
    <2>3. HotReloadTypeOK'
      BY <2>1, <2>2
    <2>4. WholeWorld'
      BY <2>2
    <2> QED
      BY <2>3, <2>4
  <1>6. CASE ShutDownServer
    <2>1. savedAccounts' \in Versions /\ savedUniques' \in Versions /\ process' = "exited"
      BY <1>6 DEF ShutDownServer
    <2>2. UNCHANGED <<launcher, build, previous, rollback, handed, exitCode, readyFile, candidate,
                      world, accounts, uniques, request, change, launchedAt, parted>>
      BY <1>6 DEF ShutDownServer, launcherVars, memory
    <2>3. HotReloadTypeOK'
      BY <2>1, <2>2
    <2>4. WholeWorld'
      BY <2>1
    <2> QED
      BY <2>3, <2>4
  <1>7. CASE CrashServer
    BY <1>7 DEF CrashServer, launcherVars, memory, disk
  <1> QED
    BY <1>1, <1>2, <1>3, <1>4, <1>5, <1>6, <1>7

LEMMA ReloadStepTyped ==
  ASSUME ReloadTyped, [ReloadNext]_reloadVars
  PROVE  ReloadTyped'
  <1>1. CASE UNCHANGED reloadVars
    <2>1. /\ launcher' = launcher /\ build' = build /\ previous' = previous /\ rollback' = rollback
          /\ handed' = handed /\ process' = process /\ exitCode' = exitCode /\ readyFile' = readyFile
          /\ candidate' = candidate /\ request' = request /\ change' = change /\ launchedAt' = launchedAt
          /\ parted' = parted /\ world' = world /\ accounts' = accounts /\ uniques' = uniques
          /\ savedAccounts' = savedAccounts /\ savedUniques' = savedUniques
      BY <1>1 DEF reloadVars, launcherVars, memory, disk
    <2>2. HotReloadTypeOK'
      BY <2>1 DEF ReloadTyped, HotReloadTypeOK
    <2>3. WholeWorld'
      BY <2>1 DEF ReloadTyped, WholeWorld
    <2> QED
      BY <2>2, <2>3 DEF ReloadTyped
  <1> QED
    BY <1>1, LauncherTyped, ProcessTyped DEF ReloadNext

LEMMA ReloadInitTyped == HotReloadInit => ReloadTyped
  BY ZeroIsVersion, ExitCodesAre DEF HotReloadInit, ReloadTyped, HotReloadTypeOK, WholeWorld

\* Every variable keeps its type, and a snapshot is only taken of a world that
\* is whole.
THEOREM ReloadTypeCorrect == HotReloadSpec => []HotReloadTypeOK
  <1>1. ReloadTyped => HotReloadTypeOK
    BY DEF ReloadTyped
  <1> QED
    BY <1>1, ReloadInitTyped, ReloadStepTyped, PTL DEF HotReloadSpec

-----------------------------------------------------------------------------
\* Safety

\* What every action of the launcher, and of the process, leaves as it is.
LEMMA LauncherLeaves ==
  ASSUME Launch \/ SeeReady \/ NotSeenReady \/ HandOver
  PROVE  UNCHANGED <<world, accounts, uniques, savedAccounts, savedUniques, change>>
  BY DEF Launch, SeeReady, NotSeenReady, HandOver, memory, disk

LEMMA ProcessLeaves ==
  ASSUME Load \/ Restore \/ Publish \/ Tick \/ PersistAccounts \/ ShutDownServer \/ CrashServer
  PROVE  UNCHANGED <<launcher, build, previous, rollback, handed, launchedAt, parted>>
  BY DEF Load, Restore, Publish, Tick, PersistAccounts, ShutDownServer, CrashServer, launcherVars

\* Only a tick, or a command at the start, changes something.
LEMMA Changes ==
  ASSUME ReloadTyped, Load \/ Restore \/ Publish \/ Tick \/ PersistAccounts \/ ShutDownServer \/ CrashServer
  PROVE  /\ change \in Nat /\ change' \in Nat /\ launchedAt \in Nat /\ change <= change'
         /\ Publish \/ Tick \/ change' = change
  <1>1. change \in Nat /\ launchedAt \in Nat
    BY VersionsAreNat DEF ReloadTyped, HotReloadTypeOK
  <1>2. CASE Publish \/ Tick
    <2>1. change' \in Versions /\ change <= change'
      BY <1>2, ChangesAreTyped DEF Publish, Tick, ReloadTyped, WholeWorld
    <2> QED
      BY <1>1, <1>2, <2>1, HotReloadAssumption DEF Versions
  <1>3. CASE Load \/ Restore \/ PersistAccounts \/ ShutDownServer \/ CrashServer
    BY <1>1, <1>3 DEF Load, Restore, PersistAccounts, ShutDownServer, CrashServer
  <1> QED
    BY <1>2, <1>3

LEMMA LauncherStarts ==
  ASSUME ReloadTyped, ReloadInv, Launch \/ SeeReady \/ NotSeenReady \/ HandOver
  PROVE  Starting'
  <1>1. change \in Nat
    BY VersionsAreNat DEF ReloadTyped, HotReloadTypeOK
  <1>2. UNCHANGED change
    BY LauncherLeaves
  <1>3. CASE Launch
    <2>1. launchedAt' = change /\ readyFile' = FALSE
      BY <1>3 DEF Launch
    <2>2. \/ launcher' = "watching" /\ process' = "loading"
          \/ launcher' \in {"launching", "failed"} /\ process' = process /\ process = "none"
      BY <1>3, FailedLaunch DEF Launch, ReloadInv, Starting, ReloadTyped
    <2>3. change' = launchedAt' /\ launchedAt' <= change'
      BY <1>1, <1>2, <2>1
    <2> QED
      BY <2>1, <2>2, <2>3 DEF Starting
  <1>4. CASE SeeReady
    BY <1>1, <1>2, <1>4 DEF SeeReady, ReloadInv, Starting
  <1>5. CASE NotSeenReady
    BY <1>1, <1>2, <1>5, FailedLaunch DEF NotSeenReady, ReloadInv, Starting, ReloadTyped
  <1>6. CASE HandOver
    BY <1>1, <1>2, <1>6 DEF HandOver, ReloadInv, Starting
  <1> QED
    BY <1>3, <1>4, <1>5, <1>6

LEMMA ProcessStarts ==
  ASSUME ReloadTyped, ReloadInv,
         Load \/ Restore \/ Publish \/ Tick \/ PersistAccounts \/ ShutDownServer \/ CrashServer
  PROVE  Starting'
  <1>1. UNCHANGED <<launcher, launchedAt>>
    BY ProcessLeaves
  <1>2. launchedAt' <= change'
    BY <1>1, Changes DEF ReloadInv, Starting
  <1>3. process # "none" /\ process' # "none"
    BY DEF Load, Restore, Publish, Tick, PersistAccounts, ShutDownServer, CrashServer, IsRunning, Stops,
           HandsOver, StaysUp
  <1>4. ASSUME process' \in {"loading", "loaded", "restored"}
        PROVE  /\ process \in {"loading", "loaded", "restored"}
               /\ UNCHANGED <<readyFile, change>>
    BY <1>4 DEF Load, Restore, Publish, Tick, PersistAccounts, ShutDownServer, CrashServer, Stops, HandsOver,
                StaysUp
  <1> QED
    BY <1>1, <1>2, <1>3, <1>4 DEF ReloadInv, Starting

LEMMA SuccessionKept ==
  ASSUME ReloadTyped, ReloadInv, [ReloadNext]_reloadVars
  PROVE  Succession'
  <1> USE DEF ReloadInv, Succession
  <1>1. ASSUME LaunchFails, launcher \in {"launching", "watching"}
        PROVE  Succession'
    BY <1>1 DEF LaunchFails, RollsBack, BackTo, GivesUp
  <1>2. CASE Launch
    <2>1. CASE LaunchFails
      BY <1>1, <1>2, <2>1 DEF Launch
    <2>2. CASE launcher' = "watching" /\ UNCHANGED <<build, previous, rollback, handed>>
      BY <1>2, <2>2 DEF Launch
    <2> QED
      BY <1>2, <2>1, <2>2 DEF Launch
  <1>3. CASE SeeReady
    BY <1>3 DEF SeeReady
  <1>4. CASE NotSeenReady
    BY <1>1, <1>4 DEF NotSeenReady
  <1>5. CASE HandOver
    <2>1. rollback' = rollback /\ launcher = "serving"
      BY <1>5 DEF HandOver
    <2>2. CASE launcher' = "ended" /\ UNCHANGED <<handed, previous, build>>
      BY <2>1, <2>2
    <2>3. CASE /\ exitCode = hot_reload_exit_code /\ launcher' = "launching"
               /\ handed' = request.snapshot /\ previous' = build
      <3>1. request.snapshot.author = build
        BY <1>5, <2>3 DEF HandOver, Parting
      <3> QED
        BY <2>1, <2>3, <3>1
    <2> QED
      BY <1>5, <2>2, <2>3 DEF HandOver
  <1>6. CASE UNCHANGED <<launcher, build, previous, rollback, handed>>
    BY <1>6
  <1> QED
    BY <1>2, <1>3, <1>4, <1>5, <1>6, ProcessLeaves DEF ReloadNext, reloadVars, launcherVars

\* The launcher finds the stores as the last process left them.
LEMMA LauncherKeepsStores ==
  ASSUME ReloadTyped, ReloadInv, Launch \/ SeeReady \/ NotSeenReady \/ HandOver
  PROVE  StoresWait'
  <1> USE DEF ReloadInv, StoresWait, IsOf
  <1>1. UNCHANGED <<world, accounts, uniques, savedAccounts, savedUniques, change>>
    BY LauncherLeaves
  <1>2. CASE Launch
    BY <1>1, <1>2, FailedLaunch DEF Launch, ReloadTyped
  <1>3. CASE SeeReady
    BY <1>3 DEF SeeReady
  <1>4. CASE NotSeenReady
    BY <1>1, <1>4, FailedLaunch DEF NotSeenReady, ReloadTyped
  <1>5. CASE HandOver
    <2>1. CASE launcher' = "ended"
      BY <2>1
    <2>2. CASE /\ exitCode = hot_reload_exit_code /\ launcher' = "launching"
               /\ handed' = request.snapshot /\ parted' = (savedUniques # uniques)
      <3>1. /\ request.snapshot.accounts = accounts /\ request.snapshot.uniques = uniques
            /\ savedAccounts = accounts
        BY <1>5, <2>2 DEF HandOver, Parting
      <3> QED
        BY <1>1, <2>2, <3>1
    <2> QED
      BY <1>5, <2>1, <2>2 DEF HandOver
  <1> QED
    BY <1>2, <1>3, <1>4, <1>5

\* A process that has changed nothing writes what it has read.
LEMMA ProcessKeepsStores ==
  ASSUME ReloadTyped, ReloadInv,
         Load \/ Restore \/ Publish \/ Tick \/ PersistAccounts \/ ShutDownServer \/ CrashServer
  PROVE  StoresWait'
  <1> USE DEF StoresWait
  <1>1. UNCHANGED <<launcher, handed, launchedAt, parted>>
    BY ProcessLeaves
  <1>2. launcher # "launching"
    BY DEF ReloadInv, Starting, Load, Restore, Publish, Tick, PersistAccounts, ShutDownServer, CrashServer, IsRunning
  <1>3. SUFFICES ASSUME handed # NoSnapshot, ~parted, launcher = "watching", change' = launchedAt
                 PROVE  /\ IsOf(savedAccounts', savedUniques', handed)
                        /\ process' \in {"loaded", "restored", "ticking", "stopping"} =>
                             IsOf(accounts', uniques', handed)
    BY <1>1, <1>2
  <1>4. change = launchedAt
    BY <1>3, Changes DEF ReloadInv, Starting
  <1>5. /\ IsOf(savedAccounts, savedUniques, handed)
        /\ process \in {"loaded", "restored", "ticking", "stopping"} => IsOf(accounts, uniques, handed)
    BY <1>3, <1>4 DEF ReloadInv
  <1>6. ASSUME Publish \/ Tick
        PROVE  UNCHANGED <<accounts, uniques>>
    <2>1. UNCHANGED memory
      BY <1>3, <1>4, <1>6, ChangesAreTyped DEF Publish, Tick, ReloadTyped, WholeWorld
    <2> QED
      BY <2>1 DEF memory
  <1> USE DEF IsOf
  <1>7. CASE Load
    BY <1>5, <1>7 DEF Load, disk
  <1>8. CASE Restore
    BY <1>5, <1>8 DEF Restore, disk
  <1>9. CASE Publish
    BY <1>5, <1>6, <1>9 DEF Publish, disk
  <1>10. CASE Tick
    <2>1. savedUniques' = savedUniques /\ savedAccounts' \in {savedAccounts, accounts'}
      BY <1>10 DEF Tick, HandsOver, FlushedAccounts, StaysUp
    <2> QED
      BY <1>5, <1>6, <1>10, <2>1 DEF Tick
  <1>11. CASE PersistAccounts
    BY <1>5, <1>11 DEF PersistAccounts, IsRunning, memory
  <1>12. CASE ShutDownServer
    BY <1>5, <1>12 DEF ShutDownServer, memory
  <1>13. CASE CrashServer
    BY <1>5, <1>13 DEF CrashServer, memory, disk
  <1> QED
    BY <1>7, <1>8, <1>9, <1>10, <1>11, <1>12, <1>13

LEMMA WorldKept ==
  ASSUME ReloadTyped, ReloadInv, [ReloadNext]_reloadVars
  PROVE  WorldIsRestored'
  <1> USE DEF ReloadInv, WorldIsRestored
  <1>1. CASE Launch \/ SeeReady \/ NotSeenReady \/ HandOver
    <2>1. process' = "restored" => process = "restored" /\ handed' = handed
      BY <1>1, FailedLaunch DEF Launch, SeeReady, NotSeenReady, HandOver, ReloadTyped
    <2> QED
      BY <1>1, <2>1, LauncherLeaves
  <1>2. CASE Restore
    BY <1>2, ProcessLeaves DEF Restore, Stops
  <1>3. CASE Load \/ Publish \/ Tick \/ PersistAccounts \/ ShutDownServer \/ CrashServer
    <2>1. process' = "restored" => process = "restored" /\ world' = world
      BY <1>3 DEF Load, Publish, Tick, PersistAccounts, ShutDownServer, CrashServer, Stops, HandsOver, StaysUp,
                  memory
    <2> QED
      BY <1>3, <2>1, ProcessLeaves
  <1>4. CASE UNCHANGED reloadVars
    BY <1>4 DEF reloadVars, launcherVars, memory
  <1> QED
    BY <1>1, <1>2, <1>3, <1>4 DEF ReloadNext

\* What a process leaves behind stays as it is until the launcher reads it.
LEMMA PartingKept ==
  ASSUME ReloadTyped, ReloadInv, [ReloadNext]_reloadVars
  PROVE  Parting'
  <1> USE DEF ReloadInv, Parting, hot_reload_exit_code
  <1>1. CASE Launch \/ SeeReady \/ NotSeenReady \/ HandOver
    <2>1. process' \in {"stopping", "exited"} => UNCHANGED <<process, exitCode, request, build>>
      BY <1>1 DEF Launch, SeeReady, NotSeenReady, HandOver, Starting
    <2> QED
      BY <1>1, <2>1, LauncherLeaves
  <1>2. CASE Load \/ Restore \/ Publish
    BY <1>2 DEF Load, Restore, Publish, Stops, restore_failed_exit_code
  <1>3. CASE Tick
    <2>1. CASE \E c \in Requests : c # NoSnapshot /\ HandsOver(c)
      <3>1. PICK c \in Requests : c # NoSnapshot /\ HandsOver(c)
        BY <2>1
      <3>2. request' = [snapshot |-> Captured, candidate |-> c] /\ savedAccounts' = accounts'
        BY <3>1 DEF HandsOver, FlushedAccounts
      <3>3. request'.snapshot = Captured /\ build' = build
        BY <1>3, <3>2, ProcessLeaves
      <3>4. request' # NoSnapshot
        <4>1. c \in Builds
          BY <3>1 DEF Requests, ReloadTyped, HotReloadTypeOK
        <4>2. Captured \in Snapshot
          BY <1>3, ChangesAreTyped DEF Tick, Captured, Snapshot, ReloadTyped, WholeWorld, HotReloadTypeOK
        <4> QED
          BY <3>2, <4>1, <4>2, NoSnapshotAssumption DEF ReloadRequest
      <3> QED
        BY <3>2, <3>3, <3>4 DEF Captured
    <2>2. CASE Stops(0) \/ UNCHANGED <<process, exitCode>>
      BY <1>3, <2>2 DEF Tick, Stops
    <2> QED
      BY <1>3, <2>1, <2>2 DEF Tick
  <1>4. CASE PersistAccounts
    BY <1>4 DEF PersistAccounts, launcherVars, memory
  <1>5. CASE ShutDownServer
    BY <1>5 DEF ShutDownServer, launcherVars, memory
  <1>6. CASE CrashServer
    BY <1>6 DEF CrashServer
  <1>7. CASE UNCHANGED reloadVars
    BY <1>7 DEF reloadVars, launcherVars, memory, disk
  <1> QED
    BY <1>1, <1>2, <1>3, <1>4, <1>5, <1>6, <1>7 DEF ReloadNext

LEMMA InvariantKept ==
  ASSUME ReloadTyped, ReloadInv, [ReloadNext]_reloadVars
  PROVE  ReloadInv'
  <1>1. Starting'
    BY LauncherStarts, ProcessStarts DEF ReloadNext, ReloadInv, Starting, reloadVars, launcherVars
  <1>2. StoresWait'
    BY LauncherKeepsStores, ProcessKeepsStores
    DEF ReloadNext, ReloadInv, StoresWait, reloadVars, launcherVars, memory, disk
  <1> QED
    BY <1>1, <1>2, SuccessionKept, WorldKept, PartingKept DEF ReloadInv

LEMMA InitInvariant == HotReloadInit => ReloadInv
  BY DEF HotReloadInit, ReloadInv, Starting, Succession, StoresWait, WorldIsRestored, Parting

\* Whatever process fails, is overlooked or asks for a reload at whatever
\* moment, a server goes on from the world, the accounts and the registry of
\* one moment, and the snapshot is not given up before its author has failed.
THEOREM SoundReloads == HotReloadSpec => []ReloadsAreSound
  <1>1. ReloadInv => ReloadsAreSound
    <2>1. ReloadInv => RestoredIsOneMoment
      BY DEF ReloadInv, Starting, StoresWait, WorldIsRestored, IsOf, RestoredIsOneMoment
    <2>2. ReloadInv => AuthorIsTried
      BY DEF ReloadInv, Succession, AuthorIsTried
    <2>3. ReloadInv => RequestIsFresh
      BY DEF ReloadInv, Parting, RequestIsFresh
    <2> QED
      BY <2>1, <2>2, <2>3 DEF ReloadsAreSound
  <1>2. HotReloadInit => ReloadTyped /\ ReloadInv
    BY ReloadInitTyped, InitInvariant
  <1>3. ReloadTyped /\ ReloadInv /\ [ReloadNext]_reloadVars => (ReloadTyped /\ ReloadInv)'
    BY ReloadStepTyped, InvariantKept
  <1> QED
    BY <1>1, <1>2, <1>3, PTL DEF HotReloadSpec

-----------------------------------------------------------------------------
(* Reports, for any accounts, limits and number of logins.                   *)

By(job) == job.reporter[1]

\* The reports of a sequence are of this epoch, pending, and of different
\* accounts.
Valid(job) == job.epoch = epoch /\ pending[By(job)] = epoch
AllValid(s) == \A i \in DOMAIN s : Valid(s[i])
OneJobEach(s) == \A i, j \in DOMAIN s : By(s[i]) = By(s[j]) => i = j
Apart(s, t) == \A i \in DOMAIN s, j \in DOMAIN t : By(s[i]) # By(t[j])
NotIn(job, s) == \A i \in DOMAIN s : By(s[i]) # By(job)
Has(s, a) == \E i \in DOMAIN s : By(s[i]) = a

ReviewIsValid ==
  /\ reviewing # NoReview => reviewing.epoch <= epoch
  /\ UnderWay => Valid(reviewing) /\ NotIn(reviewing, jobs) /\ NotIn(reviewing, results)

\* Whoever is pending has a report somewhere.
NobodyWaits ==
  \A a \in PendingReports : Has(jobs, a) \/ Has(results, a) \/ (UnderWay /\ By(reviewing) = a)

Bounded == IsFiniteSet(PendingReports) /\ Cardinality(PendingReports) <= MaxReviews

ReportInv ==
  /\ ReportsTypeOK
  /\ AllValid(jobs) /\ AllValid(results)
  /\ OneJobEach(jobs) /\ OneJobEach(results) /\ Apart(jobs, results)
  /\ ReviewIsValid /\ NobodyWaits /\ Bounded

-----------------------------------------------------------------------------
LEMMA JobsHaveReporters == \A job \in Job : By(job) \in Accounts /\ job.epoch \in 1..MaxEpochs
  BY DEF Job, By

\* Fewer accounts with pending reports are no problem for the limit.
LEMMA FewerPending ==
  ASSUME ReportInv, PendingReports' \subseteq PendingReports
  PROVE  Bounded'
  <1>1. IsFiniteSet(PendingReports') /\ Cardinality(PendingReports') <= Cardinality(PendingReports)
    BY FS_Subset DEF ReportInv, Bounded
  <1>2. Cardinality(PendingReports) \in Nat /\ Cardinality(PendingReports') \in Nat
    BY <1>1, FS_CardinalityType DEF ReportInv, Bounded
  <1> QED
    BY <1>1, <1>2, ReportsAssumption DEF ReportInv, Bounded

\* Sequences of reports, by the accounts that made them.
LEMMA Appended ==
  ASSUME NEW s \in Seq(Job), NEW job \in Job
  PROVE  /\ Append(s, job) \in Seq(Job)
         /\ DOMAIN Append(s, job) = DOMAIN s \cup {Len(s) + 1} /\ Len(s) + 1 \notin DOMAIN s
         /\ Append(s, job)[Len(s) + 1] = job
         /\ \A i \in DOMAIN s : Append(s, job)[i] = s[i]
  OBVIOUS

LEMMA AppendedBy ==
  ASSUME NEW s \in Seq(Job), NEW job \in Job
  PROVE  /\ \A a : Has(Append(s, job), a) <=> Has(s, a) \/ By(job) = a
         /\ OneJobEach(s) /\ NotIn(job, s) => OneJobEach(Append(s, job))
         /\ \A other : NotIn(other, s) /\ By(other) # By(job) => NotIn(other, Append(s, job))
  BY Appended DEF Has, OneJobEach, NotIn

LEMMA AppendedApart ==
  ASSUME NEW s \in Seq(Job), NEW t \in Seq(Job), NEW job \in Job, NotIn(job, t)
  PROVE  /\ Apart(s, t) => Apart(Append(s, job), t)
         /\ Apart(t, s) => Apart(t, Append(s, job))
  BY Appended DEF NotIn, Apart

LEMMA TakenOnce ==
  ASSUME NEW s \in Seq(Job), s # <<>>
  PROVE  /\ Head(s) \in Job /\ Tail(s) \in Seq(Job)
         /\ 1 \in DOMAIN s /\ Head(s) = s[1]
         /\ \A i \in DOMAIN Tail(s) : i + 1 \in DOMAIN s /\ i + 1 # 1 /\ Tail(s)[i] = s[i + 1]
         /\ \A i \in DOMAIN s : i = 1 \/ (i - 1 \in DOMAIN Tail(s) /\ Tail(s)[i - 1] = s[i])
         /\ \A i, j \in DOMAIN Tail(s) : i + 1 = j + 1 => i = j
  <1>1. Len(s) \in Nat \ {0} /\ DOMAIN s = 1..Len(s)
    OBVIOUS
  <1>2. DOMAIN Tail(s) = 1..(Len(s) - 1) /\ \A i \in 1..(Len(s) - 1) : Tail(s)[i] = s[i + 1]
    OBVIOUS
  <1>3. Head(s) \in Job /\ Tail(s) \in Seq(Job) /\ Head(s) = s[1]
    OBVIOUS
  <1>4. \A i \in DOMAIN Tail(s) : i \in Nat
    BY <1>2
  <1> QED
    BY <1>1, <1>2, <1>3, <1>4

LEMMA TakenBy ==
  ASSUME NEW s \in Seq(Job), s # <<>>, OneJobEach(s)
  PROVE  /\ \A a : Has(s, a) => Has(Tail(s), a) \/ By(Head(s)) = a
         /\ OneJobEach(Tail(s)) /\ NotIn(Head(s), Tail(s))
         /\ \A t : Apart(s, t) => Apart(Tail(s), t) /\ NotIn(Head(s), t)
  BY TakenOnce DEF Has, OneJobEach, NotIn, Apart

\* Who has a report is pending, who has none is in no sequence.
LEMMA HasIsPending ==
  ASSUME NEW s \in Seq(Job), AllValid(s), epoch \in Nat \ {0}, NEW a, Has(s, a)
  PROVE  a \in PendingReports /\ pending[a] = epoch
  <1>1. PICK i \in DOMAIN s : By(s[i]) = a
    BY DEF Has
  <1>2. s[i] \in Job
    OBVIOUS
  <1> QED
    BY <1>1, <1>2, JobsHaveReporters DEF AllValid, Valid, PendingReports

-----------------------------------------------------------------------------
\* The actions

LEMMA ReportTypes ==
  ASSUME ReportInv
  PROVE  /\ jobs \in Seq(Job) /\ results \in Seq(Job) /\ reviewing \in Job \cup {NoReview}
         /\ epoch \in Nat \ {0} /\ pending \in [Accounts -> 0..MaxEpochs] /\ epoch \in 1..MaxEpochs
  BY ReportsAssumption DEF ReportInv, ReportsTypeOK

\* A report is queued: nobody else waits on its account's behalf.
LEMMA QueuedKeeps ==
  ASSUME ReportInv, NEW a \in Accounts, NEW job \in Job, By(job) = a, job.epoch = epoch,
         MayReport(a), jobs' = Append(jobs, job), pending' = [pending EXCEPT ![a] = epoch],
         cooling' \subseteq Accounts, UNCHANGED <<login, results, reviewing, epoch, stopping>>
  PROVE  ReportInv'
  <1> USE ReportTypes
  <1>1. ReportsTypeOK'
    BY DEF ReportInv, ReportsTypeOK
  <1>2. ~Has(jobs, a) /\ ~Has(results, a) /\ (UnderWay => By(reviewing) # a)
    BY HasIsPending DEF ReportInv, MayReport, ReviewIsValid, Valid
  <1>3. NotIn(job, jobs) /\ NotIn(job, results)
    BY <1>2 DEF Has, NotIn
  <1>4. OneJobEach(jobs') /\ OneJobEach(results') /\ Apart(jobs', results')
    <2>1. OneJobEach(Append(jobs, job)) /\ Apart(Append(jobs, job), results)
      BY <1>3, AppendedBy, AppendedApart DEF ReportInv
    <2> QED
      BY <2>1 DEF ReportInv
  <1>5. \A other \in Job : By(other) # a => pending'[By(other)] = pending[By(other)]
    BY JobsHaveReporters
  <1>6. AllValid(jobs)'
    <2> SUFFICES ASSUME NEW i \in DOMAIN jobs' PROVE Valid(jobs[i])'
      BY DEF AllValid
    <2>1. CASE i \in DOMAIN jobs
      <3>1. jobs'[i] = jobs[i] /\ jobs[i] \in Job /\ By(jobs[i]) # a /\ Valid(jobs[i])
        BY <1>2, <2>1, Appended DEF Has, ReportInv, AllValid
      <3> QED
        BY <1>5, <3>1 DEF Valid
    <2>2. CASE i = Len(jobs) + 1
      BY <2>2, Appended DEF Valid
    <2> QED
      BY <2>1, <2>2, Appended
  <1>7. AllValid(results)'
    <2>1. \A i \in DOMAIN results : results[i] \in Job /\ By(results[i]) # a /\ Valid(results[i])
      BY <1>2 DEF Has, ReportInv, AllValid
    <2> QED
      BY <1>5, <2>1 DEF AllValid, Valid
  <1>8. ReviewIsValid'
    <2>1. UnderWay' => UnderWay /\ reviewing \in Job
      BY DEF UnderWay
    <2>2. UnderWay => NotIn(reviewing, jobs')
      BY <1>2, AppendedBy DEF ReportInv, ReviewIsValid, UnderWay
    <2> QED
      BY <1>2, <1>5, <2>1, <2>2 DEF ReportInv, ReviewIsValid, Valid, UnderWay
  <1>9. PendingReports' = PendingReports \cup {a}
    BY DEF PendingReports
  <1>10. NobodyWaits'
    <2>1. \A x : Has(jobs', x) <=> Has(jobs, x) \/ x = a
      BY AppendedBy
    <2> QED
      BY <1>9, <2>1 DEF ReportInv, NobodyWaits, UnderWay
  <1>11. Bounded'
    <2>1. IsFiniteSet(PendingReports') /\ Cardinality(PendingReports') <= Cardinality(PendingReports) + 1
      <3>1. IsFiniteSet(PendingReports) /\ Cardinality(PendingReports) \in Nat
        BY FS_CardinalityType DEF ReportInv, Bounded
      <3>2. /\ IsFiniteSet(PendingReports \cup {a})
            /\ Cardinality(PendingReports \cup {a}) =
                 IF a \in PendingReports THEN Cardinality(PendingReports) ELSE Cardinality(PendingReports) + 1
        BY <3>1, FS_AddElement
      <3> QED
        BY <1>9, <3>1, <3>2
    <2>2. Cardinality(PendingReports) < MaxReviews /\ Cardinality(PendingReports) \in Nat
      BY FS_CardinalityType DEF MayReport, ReportInv, Bounded
    <2>3. Cardinality(PendingReports') \in Nat
      BY <2>1, FS_CardinalityType
    <2> QED
      BY <2>1, <2>2, <2>3, ReportsAssumption DEF Bounded
  <1> QED
    BY <1>1, <1>4, <1>6, <1>7, <1>8, <1>10, <1>11 DEF ReportInv

\* Sessions and cool-downs matter to none of it.
LEMMA OthersKeep ==
  ASSUME ReportInv, ReportsTypeOK', UNCHANGED <<jobs, results, reviewing, pending, epoch, stopping>>
  PROVE  ReportInv'
  BY DEF ReportInv, AllValid, Valid, OneJobEach, Apart, ReviewIsValid, UnderWay, NotIn, NobodyWaits, PendingReports,
         Bounded, Has, By

LEMMA SubmitKeeps ==
  ASSUME ReportInv, NEW a \in Accounts, NEW b \in Accounts, Submit(a, b)
  PROVE  ReportInv'
  <1>1. cooling' \subseteq Accounts /\ UNCHANGED <<login, results, reviewing, epoch, stopping>> /\ MayReport(a)
    BY DEF Submit, ReportInv, ReportsTypeOK
  <1>2. CASE UNCHANGED <<jobs, pending>>
    BY <1>1, <1>2, OthersKeep DEF ReportInv, ReportsTypeOK
  <1>3. CASE /\ jobs' = Append(jobs, [reporter |-> LoginRef(a), target |-> LoginRef(b), epoch |-> epoch])
             /\ pending' = [pending EXCEPT ![a] = epoch]
    <2> DEFINE job == [reporter |-> LoginRef(a), target |-> LoginRef(b), epoch |-> epoch]
    <2>1. job \in Job /\ By(job) = a /\ job.epoch = epoch
      BY ReportTypes DEF Job, LoginRef, By, ReportInv, ReportsTypeOK
    <2> HIDE DEF job
    <2> QED
      BY <1>1, <1>3, <2>1, QueuedKeeps DEF job
  <1> QED
    BY <1>2, <1>3 DEF Submit

LEMMA TakeJobKeeps ==
  ASSUME ReportInv, TakeJob
  PROVE  ReportInv'
  <1> USE ReportTypes
  <1>1. Head(jobs) \in Job /\ Tail(jobs) \in Seq(Job) /\ Valid(Head(jobs)) /\ AllValid(Tail(jobs))
    BY TakenOnce DEF TakeJob, ReportInv, AllValid
  <1>2. /\ \A a : Has(jobs, a) => Has(Tail(jobs), a) \/ By(Head(jobs)) = a
        /\ OneJobEach(Tail(jobs)) /\ NotIn(Head(jobs), Tail(jobs))
        /\ Apart(Tail(jobs), results) /\ NotIn(Head(jobs), results)
    BY TakenBy DEF TakeJob, ReportInv
  <1>3. Head(jobs) # NoReview /\ ~UnderWay
    BY <1>1, NoReviewAssumption DEF TakeJob, UnderWay
  <1>4. Head(jobs).epoch = epoch
    BY <1>1 DEF Valid
  <1>5. /\ reviewing' = Head(jobs) /\ jobs' = Tail(jobs)
        /\ UNCHANGED <<login, results, pending, cooling, epoch, stopping>> /\ ~stopping
    BY DEF TakeJob
  <1>6. UnderWay'
    BY <1>3, <1>4, <1>5 DEF UnderWay
  <1>7. ReviewIsValid'
    BY <1>1, <1>2, <1>4, <1>5 DEF ReviewIsValid, Valid
  <1>8. NobodyWaits'
    BY <1>2, <1>3, <1>5, <1>6 DEF NobodyWaits, ReportInv, PendingReports
  <1>9. ReportsTypeOK'
    BY <1>1, <1>5 DEF ReportInv, ReportsTypeOK
  <1>10. Bounded'
    BY <1>5 DEF ReportInv, Bounded, PendingReports
  <1> QED
    BY <1>1, <1>2, <1>5, <1>7, <1>8, <1>9, <1>10 DEF ReportInv, AllValid, Valid

LEMMA FinishReviewKeeps ==
  ASSUME ReportInv, FinishReview
  PROVE  ReportInv'
  <1> USE ReportTypes
  <1>1. /\ reviewing # NoReview /\ reviewing' = NoReview /\ reviewing \in Job
        /\ UNCHANGED <<login, jobs, pending, cooling, epoch, stopping>>
    BY DEF FinishReview
  <1>2. UnderWay <=> CurrentResult(reviewing)
    BY <1>1 DEF UnderWay, CurrentResult
  <1>3. ~UnderWay' /\ ReviewIsValid' /\ Bounded'
    BY <1>1 DEF ReviewIsValid, UnderWay, ReportInv, Bounded, PendingReports
  <1>4. CASE ~UnderWay
    <2>1. results' = results
      BY <1>2, <1>4 DEF FinishReview
    <2>2. NobodyWaits'
      BY <1>1, <1>4, <2>1 DEF ReportInv, NobodyWaits, PendingReports
    <2>3. ReportsTypeOK'
      BY <1>1, <2>1 DEF ReportInv, ReportsTypeOK
    <2> QED
      BY <1>1, <1>3, <2>1, <2>2, <2>3 DEF ReportInv, AllValid, Valid
  <1>5. CASE UnderWay
    <2>1. results' = Append(results, reviewing)
      BY <1>2, <1>5 DEF FinishReview
    <2>2. OneJobEach(results') /\ Apart(jobs, results')
      <3>1. OneJobEach(Append(results, reviewing)) /\ Apart(jobs, Append(results, reviewing))
        BY <1>1, <1>5, AppendedBy, AppendedApart DEF ReportInv, ReviewIsValid
      <3> QED
        BY <2>1, <3>1
    <2>3. AllValid(results)'
      BY <1>1, <1>5, <2>1, Appended DEF ReportInv, ReviewIsValid, AllValid, Valid
    <2>4. \A a : Has(results', a) <=> Has(results, a) \/ By(reviewing) = a
      BY <1>1, <2>1, AppendedBy
    <2>5. NobodyWaits'
      BY <1>1, <1>5, <2>4 DEF ReportInv, NobodyWaits, PendingReports
    <2>6. ReportsTypeOK'
      BY <1>1, <2>1, Appended DEF ReportInv, ReportsTypeOK
    <2> QED
      BY <1>1, <1>3, <2>2, <2>3, <2>5, <2>6 DEF ReportInv, AllValid, Valid
  <1> QED
    BY <1>4, <1>5

LEMMA ReportersHave ==
  ASSUME NEW s \in Seq(Job)
  PROVE  \A a : a \in Reporters(s) <=> Has(s, a)
  BY DEF Reporters, ToSet, Has, By

LEMMA ProcessKeeps ==
  ASSUME ReportInv, Process
  PROVE  ReportInv'
  <1> USE ReportTypes
  <1>1. /\ results' = <<>> /\ pending' = Unpend(Reporters(results))
        /\ UNCHANGED <<login, jobs, reviewing, cooling, epoch, stopping>>
    BY DEF Process
  <1>2. /\ pending' \in [Accounts -> 0..MaxEpochs]
        /\ \A a \in Accounts : pending'[a] = IF Has(results, a) THEN 0 ELSE pending[a]
    BY <1>1, ReportersHave, ReportsAssumption DEF Unpend
  <1>3. \A i \in DOMAIN jobs : jobs[i] \in Job /\ pending'[By(jobs[i])] = pending[By(jobs[i])]
    BY <1>2, JobsHaveReporters DEF Has, ReportInv, Apart
  <1>4. AllValid(jobs)'
    BY <1>1, <1>3 DEF ReportInv, AllValid, Valid
  <1>5. /\ AllValid(results)' /\ OneJobEach(results') /\ Apart(jobs', results')
        /\ \A a : ~Has(results', a)
    BY <1>1 DEF AllValid, OneJobEach, Apart, Has
  <1>6. UnderWay => reviewing \in Job /\ pending'[By(reviewing)] = pending[By(reviewing)]
    BY <1>2, JobsHaveReporters DEF Has, ReportInv, ReviewIsValid, NotIn, UnderWay
  <1>7. ReviewIsValid'
    BY <1>1, <1>6 DEF ReportInv, ReviewIsValid, Valid, UnderWay, NotIn
  <1>8. PendingReports' = {a \in PendingReports : ~Has(results, a)}
    BY <1>2 DEF PendingReports
  <1>9. NobodyWaits'
    BY <1>1, <1>8 DEF ReportInv, NobodyWaits, UnderWay
  <1>10. Bounded'
    BY <1>8, FewerPending
  <1>11. ReportsTypeOK'
    BY <1>1, <1>2 DEF ReportInv, ReportsTypeOK
  <1> QED
    BY <1>1, <1>4, <1>5, <1>7, <1>9, <1>10, <1>11 DEF ReportInv

\* A new epoch: what the worker still has belongs to the old one.
LEMMA CancelKeeps ==
  ASSUME ReportInv, CancelPending \/ StopReviews
  PROVE  ReportInv'
  <1> USE ReportTypes
  <1>1. /\ jobs' = <<>> /\ results' = <<>> /\ pending' = [a \in Accounts |-> 0]
        /\ epoch' = epoch + 1 /\ epoch < MaxEpochs /\ reviewing' = reviewing
    BY DEF CancelPending, StopReviews
  <1>2. PendingReports' = {}
    BY <1>1 DEF PendingReports
  <1>3. ReportsTypeOK'
    <2>1. 0 \in 0..MaxEpochs /\ epoch + 1 \in 1..MaxEpochs
      BY <1>1, ReportsAssumption
    <2>2. pending' \in [Accounts -> 0..MaxEpochs] /\ epoch' \in 1..MaxEpochs
      BY <1>1, <2>1
    <2>3. jobs' \in Seq(Job) /\ results' \in Seq(Job)
      BY <1>1
    <2>4. login' = login /\ cooling' \subseteq Accounts /\ stopping' \in BOOLEAN
      BY DEF CancelPending, StopReviews, ReportInv, ReportsTypeOK
    <2> QED
      BY <1>1, <2>2, <2>3, <2>4 DEF ReportInv, ReportsTypeOK
  <1>4. ~UnderWay' /\ ReviewIsValid'
    <2>1. reviewing # NoReview => reviewing \in Job /\ reviewing.epoch \in Nat
      BY JobsHaveReporters, ReportsAssumption
    <2>2. reviewing # NoReview => reviewing.epoch <= epoch' /\ reviewing.epoch # epoch'
      BY <1>1, <2>1 DEF ReportInv, ReviewIsValid
    <2> QED
      BY <1>1, <2>2 DEF ReviewIsValid, UnderWay
  <1>5. Bounded' /\ NobodyWaits'
    BY <1>2, FewerPending DEF NobodyWaits
  <1> QED
    BY <1>1, <1>3, <1>4, <1>5 DEF ReportInv, AllValid, OneJobEach, Apart

LEMMA ReportStepKeeps ==
  ASSUME ReportInv, [ReportsNext]_reportVars
  PROVE  ReportInv'
  <1>1. CASE UNCHANGED reportVars
    BY <1>1, OthersKeep DEF reportVars, ReportInv, ReportsTypeOK
  <1>2. ASSUME NEW a \in Accounts, CoolDown(a) PROVE ReportInv'
    BY <1>2, OthersKeep DEF CoolDown, ReportInv, ReportsTypeOK
  <1>3. ASSUME NEW a \in Accounts, Relog(a) PROVE ReportInv'
    <2>1. login' \in [Accounts -> 1..MaxLogins]
      BY <1>3, ReportsAssumption DEF Relog, ReportInv, ReportsTypeOK
    <2> QED
      BY <1>3, <2>1, OthersKeep DEF Relog, ReportInv, ReportsTypeOK
  <1> QED
    BY <1>1, <1>2, <1>3, SubmitKeeps, TakeJobKeeps, FinishReviewKeeps, ProcessKeeps, CancelKeeps
    DEF ReportsNext

LEMMA ReportInitKeeps == ReportsInit => ReportInv
  <1> SUFFICES ASSUME ReportsInit PROVE ReportInv
    OBVIOUS
  <1>1. ReportsTypeOK
    <2>1. 1 \in 1..MaxLogins /\ 1 \in 1..MaxEpochs /\ 0 \in 0..MaxEpochs
      BY ReportsAssumption
    <2>2. <<>> \in Seq(Job)
      OBVIOUS
    <2> QED
      BY <2>1, <2>2 DEF ReportsInit, ReportsTypeOK
  <1>2. PendingReports = {}
    BY DEF ReportsInit, PendingReports
  <1>3. Bounded
    BY <1>2, FS_EmptySet, ReportsAssumption DEF Bounded
  <1>4. ReviewIsValid /\ NobodyWaits
    BY <1>2 DEF ReportsInit, ReviewIsValid, UnderWay, NobodyWaits
  <1> QED
    BY <1>1, <1>3, <1>4 DEF ReportsInit, ReportInv, AllValid, OneJobEach, Apart

\* Every variable keeps its type.
THEOREM ReportTypeCorrect == ReportsSpec => []ReportsTypeOK
  <1>1. ReportInv => ReportsTypeOK
    BY DEF ReportInv
  <1> QED
    BY <1>1, ReportInitKeeps, ReportStepKeeps, PTL DEF ReportsSpec

-----------------------------------------------------------------------------
\* The reports that are pending are those under way.

LEMMA JoinedJobs ==
  ASSUME NEW s \in Seq(Job), NEW t \in Seq(Job)
  PROVE  /\ s \o t \in Seq(Job)
         /\ \A i \in DOMAIN s : i \in DOMAIN (s \o t) /\ (s \o t)[i] = s[i]
         /\ \A j \in DOMAIN t : Len(s) + j \in DOMAIN (s \o t) /\ (s \o t)[Len(s) + j] = t[j]
         /\ \A i \in DOMAIN (s \o t) :
              i \in DOMAIN s \/ \E j \in DOMAIN t : i = Len(s) + j
         /\ \A i \in DOMAIN s, j \in DOMAIN t : i # Len(s) + j
         /\ \A i, j \in DOMAIN t : Len(s) + i = Len(s) + j => i = j
  <1>1. /\ Len(s) \in Nat /\ DOMAIN s = 1..Len(s) /\ Len(t) \in Nat /\ DOMAIN t = 1..Len(t)
        /\ s \o t \in Seq(Job) /\ DOMAIN (s \o t) = 1..(Len(s) + Len(t))
    OBVIOUS
  <1>2. /\ \A i \in 1..Len(s) : (s \o t)[i] = s[i]
        /\ \A j \in 1..Len(t) : (s \o t)[Len(s) + j] = t[j]
    OBVIOUS
  <1>3. ASSUME NEW i \in DOMAIN (s \o t), i \notin DOMAIN s
        PROVE  \E j \in DOMAIN t : i = Len(s) + j
    <2>1. i - Len(s) \in DOMAIN t /\ i = Len(s) + (i - Len(s))
      BY <1>1, <1>3
    <2> QED
      BY <2>1
  <1> QED
    BY <1>1, <1>2, <1>3

LEMMA JoinedBy ==
  ASSUME NEW s \in Seq(Job), NEW t \in Seq(Job), OneJobEach(s), OneJobEach(t), Apart(s, t)
  PROVE  /\ OneJobEach(s \o t)
         /\ \A a : Has(s \o t, a) <=> Has(s, a) \/ Has(t, a)
  <1> DEFINE n == Len(s)
             u == s \o t
  <1>1. /\ \A i \in DOMAIN s : i \in DOMAIN u /\ u[i] = s[i]
        /\ \A j \in DOMAIN t : n + j \in DOMAIN u /\ u[n + j] = t[j]
        /\ \A i \in DOMAIN u : i \in DOMAIN s \/ \E j \in DOMAIN t : i = n + j
    BY JoinedJobs
  <1> HIDE DEF n, u
  <1>2. \A a : Has(u, a) <=> Has(s, a) \/ Has(t, a)
    BY <1>1 DEF Has
  <1>3. OneJobEach(u)
    BY <1>1 DEF OneJobEach, Apart
  <1> QED
    BY <1>2, <1>3 DEF u

LEMMA JoinedApart ==
  ASSUME NEW s \in Seq(Job), NEW t \in Seq(Job), NEW u \in Seq(Job), Apart(s, u), Apart(t, u)
  PROVE  Apart(s \o t, u)
  <1> DEFINE n == Len(s)
             both == s \o t
  <1>1. /\ \A i \in DOMAIN s : both[i] = s[i]
        /\ \A j \in DOMAIN t : both[n + j] = t[j]
        /\ \A i \in DOMAIN both : i \in DOMAIN s \/ \E j \in DOMAIN t : i = n + j
    BY JoinedJobs
  <1> HIDE DEF n, both
  <1>2. Apart(both, u)
    BY <1>1 DEF Apart
  <1> QED
    BY <1>2 DEF both

\* As many as accounts with a report pending.
LEMMA CountedByReporters ==
  ASSUME NEW s \in Seq(Job), OneJobEach(s), NEW S, \A a : a \in S <=> Has(s, a)
  PROVE  Cardinality(S) = Len(s)
  <1> DEFINE f == [i \in 1..Len(s) |-> By(s[i])]
  <1>1. Len(s) \in Nat /\ DOMAIN s = 1..Len(s)
    OBVIOUS
  <1>2. f \in Bijection(1..Len(s), S)
    <2>1. f \in [1..Len(s) -> S] /\ \A a \in S : \E i \in 1..Len(s) : f[i] = a
      BY <1>1 DEF Has
    <2>2. \A i, j \in 1..Len(s) : f[i] = f[j] => i = j
      BY <1>1 DEF OneJobEach
    <2> QED
      BY <2>1, <2>2 DEF Bijection, Injection, Surjection, IsInjective
  <1>3. IsFiniteSet(1..Len(s)) /\ Cardinality(1..Len(s)) = Len(s)
    BY <1>1, FS_Interval
  <1> QED
    BY <1>2, <1>3, FS_Bijection DEF ExistsBijection

\* At most one report of an account is under way, as many as are counted
\* against the limit, and an account is kept waiting only by a report of this
\* epoch that is queued, reviewed or answered.
THEOREM TrackedReports == ReportsSpec => []ReportsAreTracked
  <1>1. ASSUME ReportInv PROVE ReportsAreTracked
    <2> USE ReportTypes
    <2> DEFINE mid == IF UnderWay THEN <<reviewing>> ELSE <<>>
               all == jobs \o mid \o results
    <2>1. /\ mid \in Seq(Job) /\ OneJobEach(mid) /\ Apart(jobs, mid) /\ Apart(mid, results)
          /\ \A a : Has(mid, a) <=> UnderWay /\ By(reviewing) = a
      <3>1. CASE UnderWay
        <4>1. mid = <<reviewing>> /\ reviewing \in Job
          BY <1>1, <3>1 DEF UnderWay
        <4>2. DOMAIN mid = {1} /\ mid[1] = reviewing
          BY <4>1
        <4>3. NotIn(reviewing, jobs) /\ NotIn(reviewing, results)
          BY <3>1, <1>1 DEF ReportInv, ReviewIsValid
        <4>4. mid \in Seq(Job)
          BY <4>1
        <4> HIDE DEF mid
        <4> QED
          BY <3>1, <4>1, <4>2, <4>3, <4>4 DEF OneJobEach, Apart, Has, NotIn
      <3>2. CASE ~UnderWay
        BY <3>2 DEF OneJobEach, Apart, Has
      <3> QED
        BY <3>1, <3>2
    <2> HIDE DEF mid
    <2>2. /\ jobs \o mid \in Seq(Job) /\ OneJobEach(jobs \o mid)
          /\ \A a : Has(jobs \o mid, a) <=> Has(jobs, a) \/ Has(mid, a)
      BY <1>1, <2>1, JoinedJobs, JoinedBy DEF ReportInv
    <2>3. Apart(jobs \o mid, results)
      BY <1>1, <2>1, JoinedApart DEF ReportInv
    <2>4. /\ all \in Seq(Job) /\ OneJobEach(all)
          /\ \A a : Has(all, a) <=> Has(jobs \o mid, a) \/ Has(results, a)
      BY <1>1, <2>2, <2>3, JoinedJobs, JoinedBy DEF ReportInv
    <2>5. \A a : a \in PendingReports <=> Has(all, a)
      <3>1. \A a : Has(jobs, a) \/ Has(results, a) => a \in PendingReports
        BY <1>1, HasIsPending DEF ReportInv
      <3>2. UnderWay => By(reviewing) \in PendingReports
        BY <1>1, JobsHaveReporters DEF ReportInv, ReviewIsValid, Valid, PendingReports, UnderWay
      <3>3. \A a \in PendingReports : Has(jobs, a) \/ Has(results, a) \/ Has(mid, a)
        BY <1>1, <2>1 DEF ReportInv, NobodyWaits
      <3> QED
        BY <2>1, <2>2, <2>4, <3>1, <3>2, <3>3
    <2> HIDE DEF all
    <2>6. Reporters(all) = PendingReports
      BY <2>4, <2>5, ReportersHave
    <2>7. Cardinality(PendingReports) = Len(all)
      BY <2>4, <2>5, CountedByReporters
    <2>8. \A job \in ToSet(jobs \o results) : job.epoch = epoch /\ pending[job.reporter[1]] = epoch
      <3> DEFINE n == Len(jobs)
                 both == jobs \o results
      <3>1. /\ \A i \in DOMAIN jobs : both[i] = jobs[i]
            /\ \A j \in DOMAIN results : both[n + j] = results[j]
            /\ \A i \in DOMAIN both : i \in DOMAIN jobs \/ \E j \in DOMAIN results : i = n + j
        BY <1>1, JoinedJobs
      <3> HIDE DEF n, both
      <3>2. \A i \in DOMAIN both : both[i].epoch = epoch /\ pending[both[i].reporter[1]] = epoch
        BY <1>1, <3>1 DEF ReportInv, AllValid, Valid, By
      <3> QED
        BY <3>2 DEF ToSet, both
    <2> QED
      BY <1>1, <2>6, <2>7, <2>8 DEF ReportsAreTracked, all, mid, ReportInv, Bounded
  <1> QED
    BY <1>1, ReportInitKeeps, ReportStepKeeps, PTL DEF ReportsSpec

-----------------------------------------------------------------------------
(* Rooms.                                                                  *)

\* A room without a game has no waiting world either.
RoomsHaveGames == \A c \in Codes : rooms[c].active = NoWorld => rooms[c].waiting = NoWorld

\* Nobody has two moves waiting for the end of the tick.
OneMoveEach == \A d, e \in deferred : d[1] = e[1] => d = e

\* The worlds still to tick exist.
UntickedLive == Simulating => \A id \in unticked : id \in WorldIds /\ worlds[id] # NoWorld

RoomsInv == RoomsTypeOK /\ RoomsAreSound /\ RoomsHaveGames /\ OneMoveEach /\ UntickedLive

-----------------------------------------------------------------------------
\* A world that exists has one reference.
LEMMA OneRefPerWorld ==
  ASSUME NEW w, NEW r \in WorldRefs, NEW s \in WorldRefs, Exists(w, r), Exists(w, s), r[1] = s[1]
  PROVE  r = s
  BY DEF Exists, WorldRefs

\* The reference of a world that exists names it.
LEMMA RefNames ==
  ASSUME RoomsInv, NEW id \in WorldIds, worlds[id] # NoWorld
  PROVE  /\ Ref(worlds, id) \in WorldRefs /\ Exists(worlds, Ref(worlds, id))
         /\ Ref(worlds, id)[1] = id /\ Ref(worlds, id) # NoWorld
         /\ \A r \in WorldRefs : Exists(worlds, r) /\ r[1] = id => r = Ref(worlds, id)
  <1>1. worlds[id] \in WorldRecords
    BY DEF RoomsInv, RoomsTypeOK
  <1>2. Ref(worlds, id) \in WorldRefs
    BY <1>1 DEF Ref, WorldRefs, WorldRecords
  <1>3. Ref(worlds, id) # NoWorld
    BY <1>2, RoomsAssumption
  <1>4. Exists(worlds, Ref(worlds, id))
    BY <1>3 DEF Exists, Ref
  <1> QED
    BY <1>2, <1>3, <1>4, OneRefPerWorld DEF Ref

\* Steps that give and take no world and change controllers only keep what
\* every reference names.
LEMMA SameWorldsExist ==
  ASSUME NEW w, NEW v,
         \A id \in WorldIds : /\ w[id] = NoWorld <=> v[id] = NoWorld
                              /\ w[id] # NoWorld => v[id].generation = w[id].generation
  PROVE  \A r \in WorldRefs : Exists(v, r) <=> Exists(w, r)
  BY DEF Exists, WorldRefs

\* There is a world, so there is a largest id.
LEMMA GreatestOf ==
  ASSUME NEW S \in SUBSET WorldIds, S # {}
  PROVE  Max(S) \in S /\ \A x \in S : x <= Max(S)
  <1>1. WorldIds \subseteq Nat /\ MaxWorldId \in Nat /\ \A x \in WorldIds : x <= MaxWorldId
    BY RoomsAssumption DEF WorldIds
  <1> DEFINE T == {n \in Nat : \E x \in S : n = MaxWorldId - x}
  <1>2. T \subseteq Nat /\ T # {}
    <2>1. PICK x \in S : TRUE
      OBVIOUS
    <2>2. MaxWorldId - x \in Nat
      BY <1>1, <2>1
    <2> QED
      BY <2>1, <2>2
  <1>3. PICK n \in T : \A m \in T : ~ (<<m, n>> \in OpToRel(<, Nat))
    BY <1>2, NatLessThanWellFounded, WFMin
  <1>4. \A m \in T : ~ (m < n)
    BY <1>3 DEF OpToRel
  <1>5. PICK x \in S : n = MaxWorldId - x
    BY <1>3
  <1>6. \A y \in S : x >= y
    <2> SUFFICES ASSUME NEW y \in S PROVE x >= y
      OBVIOUS
    <2>1. MaxWorldId - y \in T
      BY <1>1
    <2> HIDE DEF T
    <2> QED
      BY <1>1, <1>4, <1>5, <2>1
  <1>7. \E z \in S : \A y \in S : z >= y
    BY <1>6
  <1>8. Max(S) \in S /\ \A y \in S : Max(S) >= y
    BY <1>7 DEF Max
  <1> QED
    BY <1>1, <1>8

\* CreateWorld gives an id that no world has.
LEMMA NextIdIsFree ==
  ASSUME RoomsInv, CanBuild
  PROVE  /\ NextId \in WorldIds /\ worlds[NextId] = NoWorld
         /\ built + 1 \in 1..MaxBuilt /\ <<NextId, built + 1>> \in WorldRefs
         /\ <<NextId, built + 1>> # NoWorld
  <1> DEFINE living == {id \in WorldIds : worlds[id] # NoWorld}
  <1>1. mainRef[1] \in living
    BY DEF RoomsInv, RoomsTypeOK, RoomsAreSound, RoomsAreApart, Exists, WorldRefs
  <1>2. Max(living) \in living /\ \A x \in living : x <= Max(living)
    BY <1>1, GreatestOf
  <1>3. NextId = 1 + Max(living) /\ NextId <= MaxWorldId /\ built < MaxBuilt
    BY DEF NextId, CanBuild
  <1>4. NextId \in WorldIds
    <2>1. Max(living) \in 0..MaxWorldId
      BY <1>2 DEF WorldIds
    <2> HIDE DEF living
    <2> QED
      BY <1>3, <2>1, RoomsAssumption DEF WorldIds
  <1>5. NextId \notin living
    <2>1. Max(living) \in 0..MaxWorldId
      BY <1>2 DEF WorldIds
    <2> HIDE DEF living
    <2> QED
      BY <1>2, <1>3, <2>1, RoomsAssumption
  <1>6. built + 1 \in 1..MaxBuilt
    BY <1>3, RoomsAssumption DEF RoomsInv, RoomsTypeOK
  <1>7. <<NextId, built + 1>> \in WorldRefs
    BY <1>4, <1>6 DEF WorldRefs
  <1> QED
    BY <1>4, <1>5, <1>6, <1>7, RoomsAssumption

\* A world is built beside the others.
LEMMA BuiltBeside ==
  ASSUME RoomsInv, CanBuild, NEW ctl \in Controllers
  PROVE  LET w == Built(worlds, ctl) IN
         /\ w \in [WorldIds -> WorldRecords \cup {NoWorld}]
         /\ w[NextId] # NoWorld /\ w[NextId].generation = built + 1 /\ w[NextId].by = ctl
         /\ \A id \in WorldIds \ {NextId} : w[id] = worlds[id]
         /\ \A r \in WorldRefs : Exists(worlds, r) => Exists(w, r) /\ r[1] # NextId
         /\ Exists(w, <<NextId, built + 1>>)
         /\ \A id \in WorldIds : w[id] # NoWorld => w[id].generation <= built + 1
  <1> DEFINE w == Built(worlds, ctl)
             new == [generation |-> built + 1, by |-> ctl]
  <1>0. /\ NextId \in WorldIds /\ worlds[NextId] = NoWorld /\ built + 1 \in 1..MaxBuilt
        /\ <<NextId, built + 1>> # NoWorld
    BY NextIdIsFree
  <1>t. worlds \in [WorldIds -> WorldRecords \cup {NoWorld}] /\ built \in 1..MaxBuilt
    BY DEF RoomsInv, RoomsTypeOK
  <1>1. new \in WorldRecords
    BY <1>0 DEF WorldRecords
  <1>2. new # NoWorld
    BY <1>1, RoomsAssumption
  <1>3. w = [worlds EXCEPT ![NextId] = new]
    BY DEF Built
  <1>4. new.generation = built + 1 /\ new.by = ctl
    OBVIOUS
  <1> HIDE DEF w, new
  <1>5. w \in [WorldIds -> WorldRecords \cup {NoWorld}]
    BY <1>t, <1>1, <1>3
  <1>6. w[NextId] = new
    BY <1>t, <1>0, <1>3
  <1>7. \A id \in WorldIds \ {NextId} : w[id] = worlds[id]
    BY <1>t, <1>3
  <1>8. \A r \in WorldRefs : Exists(worlds, r) => Exists(w, r) /\ r[1] # NextId
    BY <1>0, <1>7 DEF Exists, WorldRefs
  <1>9. Exists(w, <<NextId, built + 1>>)
    BY <1>0, <1>2, <1>4, <1>6 DEF Exists
  <1>10. \A id \in WorldIds : w[id] # NoWorld => w[id].generation <= built + 1
    <2> SUFFICES ASSUME NEW id \in WorldIds, w[id] # NoWorld PROVE w[id].generation <= built + 1
      OBVIOUS
    <2>1. CASE id = NextId
      BY <1>0, <1>4, <1>6, <2>1
    <2>2. CASE id # NextId
      <3>1. w[id] = worlds[id] /\ worlds[id] \in WorldRecords
        BY <1>t, <1>7, <2>2
      <3>2. worlds[id].generation \in Nat /\ worlds[id].generation <= built
        BY <3>1 DEF WorldRecords, RoomsInv, RoomsTypeOK
      <3> QED
        BY <1>t, <3>1, <3>2
    <2> QED
      BY <2>1, <2>2
  <1> QED
    BY <1>2, <1>4, <1>5, <1>6, <1>7, <1>8, <1>9, <1>10 DEF w

\* Where players are, and moves that wait.
PlaceType == [Guests -> [ref : WorldRefs \cup {NoWorld}, is : {"alive", "dead", "marked", "removed", "due"}]]
DeferredType == SUBSET (Guests \X WorldRefs \X WorldRefs)

LEMMA RoomsInvInit == RoomsInit => RoomsInv
  <1> SUFFICES ASSUME RoomsInit PROVE RoomsInv
    OBVIOUS
  <1>0. 0 \in WorldIds /\ 1 \in 1..MaxBuilt /\ <<0, 1>> \in WorldRefs /\ <<0, 1>> # NoWorld
    BY RoomsAssumption DEF WorldIds, WorldRefs
  <1> DEFINE first == [generation |-> 1, by |-> Open]
  <1>1. first \in WorldRecords /\ first # NoWorld
    <2>1. Open \in Controllers
      BY DEF Open, Controllers
    <2> QED
      BY <1>0, <2>1, RoomsAssumption DEF WorldRecords
  <1>2. /\ worlds = [id \in WorldIds |-> IF id = 0 THEN first ELSE NoWorld]
        /\ first.generation = 1 /\ first.by.code = NoCode
    BY DEF RoomsInit, Open
  <1> HIDE DEF first
  <1>3. worlds[0] = first /\ \A id \in WorldIds : id # 0 => worlds[id] = NoWorld
    BY <1>0, <1>2
  <1>4. Exists(worlds, <<0, 1>>)
    BY <1>0, <1>1, <1>2, <1>3 DEF Exists
  <1>5. RoomsTypeOK
    <2>1. worlds \in [WorldIds -> WorldRecords \cup {NoWorld}]
      BY <1>1, <1>2
    <2>2. \A id \in WorldIds : worlds[id] # NoWorld => worlds[id].generation <= built
      BY <1>2, <1>3 DEF RoomsInit
    <2>3. rooms \in [Codes -> [active : WorldRefs \cup {NoWorld}, waiting : WorldRefs \cup {NoWorld}, idle : 0..IdleLimit]]
      BY RoomsAssumption DEF RoomsInit, NoRoom
    <2>4. place \in PlaceType
      BY <1>0 DEF RoomsInit, PlaceType
    <2> QED
      BY <1>0, <2>1, <2>2, <2>3, <2>4 DEF RoomsTypeOK, RoomsInit, PlaceType
  <1>6. RoomsAreApart
    <2>1. \A c \in Codes : rooms[c].active = NoWorld
      BY DEF RoomsInit, NoRoom
    <2>2. \A id \in WorldIds : worlds[id] # NoWorld => worlds[id].by.code = NoCode
      BY <1>2, <1>3
    <2> QED
      BY <1>4, <2>1, <2>2 DEF RoomsAreApart, RoomsInit
  <1>7. NobodyIsNowhere
    BY <1>4 DEF RoomsInit, NobodyIsNowhere
  <1>8. RoomsHaveGames
    BY DEF RoomsHaveGames, RoomsInit, NoRoom
  <1>9. OneMoveEach /\ UntickedLive
    BY DEF OneMoveEach, UntickedLive, Simulating, RoomsInit
  <1> QED
    BY <1>5, <1>6, <1>7, <1>8, <1>9 DEF RoomsInv, RoomsAreSound

-----------------------------------------------------------------------------
\* Steps that move or change players only.
LEMMA PlaceChanges ==
  ASSUME RoomsInv, UNCHANGED <<worlds, built, mainRef, rooms, unticked, deferred>>,
         place' \in PlaceType, NobodyIsNowhere'
  PROVE  RoomsInv'
  <1>1. RoomsTypeOK'
    BY DEF RoomsInv, RoomsTypeOK, PlaceType
  <1>2. RoomsAreApart'
    <2>1. RoomsAreApart
      BY DEF RoomsInv, RoomsAreSound
    <2> QED
      BY <2>1 DEF RoomsAreApart
  <1>3. RoomsHaveGames' /\ OneMoveEach' /\ UntickedLive'
    BY DEF RoomsInv, RoomsHaveGames, OneMoveEach, UntickedLive, Simulating
  <1> QED
    BY <1>1, <1>2, <1>3 DEF RoomsInv, RoomsAreSound

\* Steps that change controllers, and no link of one to a room but to cut it.
LEMMA ControllersChange ==
  ASSUME RoomsInv, UNCHANGED <<built, mainRef, rooms, place>>,
         worlds' \in [WorldIds -> WorldRecords \cup {NoWorld}],
         \A id \in WorldIds :
           /\ worlds[id] = NoWorld <=> worlds'[id] = NoWorld
           /\ worlds[id] # NoWorld =>
                /\ worlds'[id].generation = worlds[id].generation
                /\ worlds'[id].by.code = NoCode \/
                   (worlds'[id].by.code = worlds[id].by.code /\ worlds'[id].by.goal = worlds[id].by.goal),
         deferred' \in DeferredType, OneMoveEach', UntickedLive'
  PROVE  RoomsInv'
  <1>0. \A r \in WorldRefs : Exists(worlds', r) <=> Exists(worlds, r)
    BY SameWorldsExist
  <1>t. /\ rooms \in [Codes -> [active : WorldRefs \cup {NoWorld}, waiting : WorldRefs \cup {NoWorld}, idle : 0..IdleLimit]]
        /\ place \in PlaceType /\ mainRef \in WorldRefs
    BY DEF RoomsInv, RoomsTypeOK, PlaceType
  <1>e. ~Exists(worlds, NoWorld) /\ ~Exists(worlds', NoWorld)
    BY DEF Exists
  <1>1. RoomsTypeOK'
    <2>1. \A id \in WorldIds : worlds'[id] # NoWorld => worlds'[id].generation <= built'
      BY DEF RoomsInv, RoomsTypeOK
    <2> QED
      BY <2>1 DEF RoomsInv, RoomsTypeOK, DeferredType
  <1>2. RoomsAreApart'
    <2>a. RoomsAreApart
      BY DEF RoomsInv, RoomsAreSound
    <2>1. Exists(worlds, mainRef)'
      BY <1>0, <1>t, <2>a DEF RoomsAreApart
    <2>2. ASSUME NEW c \in Codes, rooms[c].active # NoWorld
          PROVE  /\ Exists(worlds', rooms[c].active)
                 /\ rooms[c].waiting # NoWorld => Exists(worlds', rooms[c].waiting)
      BY <1>0, <1>t, <2>2, <2>a DEF RoomsAreApart
    <2>3. ASSUME NEW id \in WorldIds, worlds'[id] # NoWorld, worlds'[id].by.code # NoCode
          PROVE  /\ worlds'[id].by.goal # id
                 /\ rooms[worlds'[id].by.code].waiting = Ref(worlds', id)
                 /\ worlds'[id].by.goal # NoWorld => rooms[worlds'[id].by.code].active = Ref(worlds', worlds'[id].by.goal)
      <3>1. /\ worlds[id] # NoWorld /\ worlds'[id].by.code = worlds[id].by.code
            /\ worlds'[id].by.goal = worlds[id].by.goal /\ Ref(worlds', id) = Ref(worlds, id)
        BY <2>3 DEF Ref
      <3> DEFINE c == worlds[id].by.code  g == worlds[id].by.goal
      <3>2. g # id /\ rooms[c].waiting = Ref(worlds, id) /\ (g # NoWorld => rooms[c].active = Ref(worlds, g))
        BY <2>3, <2>a, <3>1 DEF RoomsAreApart
      <3>3. ASSUME g # NoWorld PROVE Ref(worlds', g) = Ref(worlds, g)
        <4>1. c \in Codes /\ g \in WorldIds
          BY <2>3, <3>1, <3>3 DEF RoomsInv, RoomsTypeOK, WorldRecords, Controllers
        <4>2. rooms[c].active # NoWorld
          BY <3>2, <4>1, RefNames, <3>1 DEF RoomsInv, RoomsHaveGames
        <4>3. Exists(worlds, rooms[c].active)
          BY <4>1, <4>2, <2>a DEF RoomsAreApart
        <4>4. worlds[g] # NoWorld
          <5>1. Exists(worlds, Ref(worlds, g))
            BY <4>3, <3>2, <3>3
          <5> QED
            BY <5>1 DEF Exists, Ref
        <4> QED
          BY <4>1, <4>4 DEF Ref
      <3> QED
        BY <3>1, <3>2, <3>3
    <2> QED
      BY <2>1, <2>2, <2>3, <2>a DEF RoomsAreApart
  <1>3. NobodyIsNowhere'
    <2>1. NobodyIsNowhere
      BY DEF RoomsInv, RoomsAreSound
    <2>2. \A p \in Guests : place[p].ref \in WorldRefs \cup {NoWorld}
      BY <1>t DEF PlaceType
    <2> QED
      BY <1>0, <1>e, <2>1, <2>2 DEF NobodyIsNowhere
  <1>4. RoomsHaveGames'
    BY DEF RoomsInv, RoomsHaveGames
  <1> QED
    BY <1>1, <1>2, <1>3, <1>4 DEF RoomsInv, RoomsAreSound

\* Whoever has no move waiting may have one.
LEMMA DeferredOnce ==
  ASSUME RoomsInv, NEW people \in SUBSET Guests, NEW from \in WorldRefs, NEW to \in WorldRefs,
         deferred' = Deferred(people, from, to)
  PROVE  deferred' \in DeferredType /\ OneMoveEach'
  <1>1. deferred \in DeferredType /\ OneMoveEach
    BY DEF RoomsInv, RoomsTypeOK, DeferredType
  <1>2. \A d \in deferred' : d \in deferred \/ \E p \in people : d = <<p, from, to>> /\ \A e \in deferred : e[1] # p
    BY DEF Deferred
  <1>3. deferred' \in DeferredType
    BY <1>1, <1>2 DEF DeferredType
  <1>4. OneMoveEach'
    BY <1>1, <1>2 DEF OneMoveEach
  <1> QED
    BY <1>3, <1>4

-----------------------------------------------------------------------------
\* RoomsAreApart, in parts.
MainExists == Exists(worlds, mainRef)
RoomsOwnWorlds ==
  \A c \in Codes : rooms[c].active # NoWorld =>
    /\ Exists(worlds, rooms[c].active) /\ rooms[c].active # mainRef
    /\ rooms[c].waiting # NoWorld => Exists(worlds, rooms[c].waiting) /\ rooms[c].waiting # mainRef
    /\ \A d \in Codes \ {c} : {rooms[c].active, rooms[c].waiting} \cap
                              {rooms[d].active, rooms[d].waiting} \subseteq {NoWorld}
WaitingLeadsOn ==
  \A id \in WorldIds : worlds[id] # NoWorld /\ worlds[id].by.code # NoCode =>
    /\ worlds[id].by.goal # id
    /\ rooms[worlds[id].by.code].waiting = Ref(worlds, id)
    /\ worlds[id].by.goal # NoWorld => rooms[worlds[id].by.code].active = Ref(worlds, worlds[id].by.goal)
RoomType == [active : WorldRefs \cup {NoWorld}, waiting : WorldRefs \cup {NoWorld}, idle : 0..IdleLimit]

LEMMA ApartParts == RoomsAreApart <=> MainExists /\ RoomsOwnWorlds /\ WaitingLeadsOn
  BY DEF RoomsAreApart, MainExists, RoomsOwnWorlds, WaitingLeadsOn

\* What the proofs below use of the invariant.
LEMMA RoomsFacts ==
  ASSUME RoomsInv
  PROVE  /\ worlds \in [WorldIds -> WorldRecords \cup {NoWorld}]
         /\ built \in 1..MaxBuilt /\ mainRef \in WorldRefs
         /\ rooms \in [Codes -> RoomType] /\ place \in PlaceType /\ deferred \in DeferredType
         /\ MainExists /\ RoomsOwnWorlds /\ WaitingLeadsOn /\ NobodyIsNowhere
         /\ RoomsHaveGames /\ OneMoveEach /\ UntickedLive
         /\ \A p \in Guests : place[p].is # "due" => place[p].ref \in WorldRefs /\ Exists(worlds, place[p].ref)
         /\ \A c \in Codes : /\ rooms[c].active # NoWorld =>
                                  rooms[c].active \in WorldRefs /\ Exists(worlds, rooms[c].active)
                             /\ rooms[c].waiting # NoWorld =>
                                  /\ rooms[c].active # NoWorld /\ rooms[c].waiting \in WorldRefs
                                  /\ Exists(worlds, rooms[c].waiting) /\ rooms[c].waiting # mainRef
  <1>1. /\ worlds \in [WorldIds -> WorldRecords \cup {NoWorld}]
        /\ built \in 1..MaxBuilt /\ mainRef \in WorldRefs
        /\ rooms \in [Codes -> RoomType] /\ place \in PlaceType /\ deferred \in DeferredType
    BY DEF RoomsInv, RoomsTypeOK, RoomType, PlaceType, DeferredType
  <1>2. /\ MainExists /\ RoomsOwnWorlds /\ WaitingLeadsOn /\ NobodyIsNowhere
        /\ RoomsHaveGames /\ OneMoveEach /\ UntickedLive
    BY ApartParts DEF RoomsInv, RoomsAreSound
  <1>3. \A p \in Guests : place[p].is # "due" => place[p].ref \in WorldRefs /\ Exists(worlds, place[p].ref)
    BY <1>1, <1>2 DEF PlaceType, NobodyIsNowhere, Exists
  <1>4. ASSUME NEW c \in Codes
        PROVE  /\ rooms[c].active # NoWorld => rooms[c].active \in WorldRefs /\ Exists(worlds, rooms[c].active)
               /\ rooms[c].waiting # NoWorld => /\ rooms[c].active # NoWorld /\ rooms[c].waiting \in WorldRefs
                                                /\ Exists(worlds, rooms[c].waiting) /\ rooms[c].waiting # mainRef
    BY <1>1, <1>2 DEF RoomType, RoomsOwnWorlds, RoomsHaveGames
  <1> QED
    BY <1>1, <1>2, <1>3, <1>4

\* How a step that builds or closes worlds keeps the invariant.
LEMMA RoomsInvIntro ==
  ASSUME worlds' \in [WorldIds -> WorldRecords \cup {NoWorld}],
         \A id \in WorldIds : worlds'[id] # NoWorld => worlds'[id].generation <= built',
         built' \in 1..MaxBuilt, mainRef' \in WorldRefs, rooms' \in [Codes -> RoomType],
         place' \in PlaceType, deferred' \in DeferredType,
         MainExists', RoomsOwnWorlds', WaitingLeadsOn', NobodyIsNowhere',
         RoomsHaveGames', OneMoveEach', UntickedLive'
  PROVE  RoomsInv'
  <1>1. RoomsTypeOK'
    BY DEF RoomsTypeOK, RoomType, PlaceType, DeferredType
  <1>2. RoomsAreApart'
    BY ApartParts, PTL
  <1> QED
    BY <1>1, <1>2 DEF RoomsInv, RoomsAreSound

\* What world_create and world_controller make.
LEMMA FreshControllers ==
  /\ Open \in Controllers /\ Open.code = NoCode /\ Open.goal = NoWorld
  /\ Waits \in Controllers /\ Waits.code = NoCode /\ Waits.goal = NoWorld
  <1>1. Open \in Controllers /\ Open.code = NoCode /\ Open.goal = NoWorld
    BY DEF Open, Controllers
  <1>2. Waits \in Controllers /\ Waits.code = NoCode /\ Waits.goal = NoWorld
    BY <1>1 DEF Waits, Controllers
  <1> QED
    BY <1>1, <1>2

-----------------------------------------------------------------------------
\* One lemma per action.
LEMMA JoinRoomKeeps == ASSUME RoomsInv, NEW p \in Guests, NEW c \in Codes, JoinRoom(p, c) PROVE RoomsInv'
  <1> DEFINE ref == rooms[c].active
  <1>1. Exists(worlds, ref) /\ Movable(p) /\ place' = Moves(place, {p}, ref)
        /\ UNCHANGED <<worlds, built, mainRef, rooms, unticked, deferred>>
    BY DEF JoinRoom
  <1>2. ref \in WorldRefs /\ place \in PlaceType /\ NobodyIsNowhere
    BY <1>1, RoomsFacts DEF Exists
  <1> HIDE DEF ref
  <1>3. place' \in PlaceType
    BY <1>1, <1>2 DEF Moves, PlaceType
  <1>4. NobodyIsNowhere'
    <2> SUFFICES ASSUME NEW q \in Guests
                 PROVE (IF place[q].is = "due" THEN place[q].ref = NoWorld ELSE Exists(worlds, place[q].ref))'
      BY DEF NobodyIsNowhere
    <2>1. CASE q = p
      BY <1>1, <1>2, <2>1 DEF Moves, Movable, PlaceType
    <2>2. CASE q # p
      BY <1>1, <1>2, <2>2 DEF Moves, NobodyIsNowhere
    <2> QED
      BY <2>1, <2>2
  <1> QED
    BY <1>1, <1>3, <1>4, PlaceChanges

LEMMA BecomesKeeps ==
  ASSUME RoomsInv, NEW p \in Guests, NEW before,
         NEW after \in {"alive", "dead", "marked", "removed"}, "due" \notin before, Becomes(p, before, after)
  PROVE  RoomsInv'
  <1>1. place \in PlaceType /\ NobodyIsNowhere
    BY RoomsFacts
  <1>2. place' = [place EXCEPT ![p].is = after] /\ place[p].is \in before
        /\ UNCHANGED <<worlds, built, mainRef, rooms, unticked, deferred>>
    BY DEF Becomes
  <1>3. place' \in PlaceType
    BY <1>1, <1>2 DEF PlaceType
  <1>4. NobodyIsNowhere'
    BY <1>1, <1>2 DEF PlaceType, NobodyIsNowhere
  <1> QED
    BY <1>2, <1>3, <1>4, PlaceChanges

LEMMA RespawnKeeps == ASSUME RoomsInv, NEW p \in Guests, RespawnPlayer(p) PROVE RoomsInv'
  <1>1. place \in PlaceType /\ NobodyIsNowhere /\ mainRef \in WorldRefs /\ Exists(worlds, mainRef)
    BY RoomsFacts DEF MainExists
  <1> DEFINE ref == IF place[p].is = "due" THEN mainRef ELSE place[p].ref
  <1>2. place' = [place EXCEPT ![p] = [ref |-> ref, is |-> "alive"]]
        /\ UNCHANGED <<worlds, built, mainRef, rooms, unticked, deferred>>
    BY DEF RespawnPlayer
  <1>3. ref \in WorldRefs /\ Exists(worlds, ref)
    BY <1>1, RoomsFacts
  <1> HIDE DEF ref
  <1>4. place' \in PlaceType
    BY <1>1, <1>2, <1>3 DEF PlaceType
  <1>5. NobodyIsNowhere'
    BY <1>1, <1>2, <1>3 DEF PlaceType, NobodyIsNowhere
  <1> QED
    BY <1>2, <1>4, <1>5, PlaceChanges

\* One controller changes, its link to a room is kept or cut.
LEMMA ControllerChanges ==
  ASSUME RoomsInv, NEW id \in WorldIds, worlds[id] # NoWorld, NEW ctl \in Controllers,
         worlds' = [worlds EXCEPT ![id].by = ctl],
         ctl.code = NoCode \/ (ctl.code = worlds[id].by.code /\ ctl.goal = worlds[id].by.goal),
         UNCHANGED <<built, mainRef, rooms, place>>,
         deferred' \in DeferredType, OneMoveEach',
         Simulating' => unticked' \subseteq unticked /\ Simulating
  PROVE  RoomsInv'
  <1>1. worlds \in [WorldIds -> WorldRecords \cup {NoWorld}] /\ UntickedLive
    BY RoomsFacts
  <1>2. worlds' \in [WorldIds -> WorldRecords \cup {NoWorld}]
    BY <1>1 DEF WorldRecords
  <1>3. worlds[id] \in WorldRecords /\ worlds'[id] = [worlds[id] EXCEPT !.by = ctl]
    BY <1>1
  <1>4. /\ worlds'[id] \in WorldRecords /\ worlds'[id].generation = worlds[id].generation
        /\ worlds'[id].by = ctl
    BY <1>3 DEF WorldRecords
  <1>5. worlds'[id] # NoWorld
    BY <1>4, RoomsAssumption
  <1>6. \A i \in WorldIds : i # id => worlds'[i] = worlds[i]
    BY <1>1
  <1>7. ASSUME NEW i \in WorldIds
        PROVE  /\ worlds[i] = NoWorld <=> worlds'[i] = NoWorld
               /\ worlds[i] # NoWorld =>
                    /\ worlds'[i].generation = worlds[i].generation
                    /\ worlds'[i].by.code = NoCode \/
                       (worlds'[i].by.code = worlds[i].by.code /\ worlds'[i].by.goal = worlds[i].by.goal)
    BY <1>4, <1>5, <1>6
  <1>8. UntickedLive'
    BY <1>1, <1>7 DEF UntickedLive
  <1> QED
    BY <1>2, <1>7, <1>8, ControllersChange

LEMMA SetPolicyKeeps ==
  ASSUME RoomsInv, NEW p \in Guests, NEW auto \in BOOLEAN, SetPolicy(p, auto) PROVE RoomsInv'
  <1> DEFINE id == place[p].ref[1]
             ctl == [worlds[id].by EXCEPT !.auto = auto]
  <1>1. id \in WorldIds /\ worlds[id] # NoWorld
    BY RoomsFacts DEF SetPolicy, WorldRefs, Exists
  <1>2. worlds[id].by \in Controllers /\ deferred \in DeferredType /\ OneMoveEach
    BY <1>1, RoomsFacts DEF WorldRecords
  <1>3. ctl \in Controllers /\ ctl.code = worlds[id].by.code /\ ctl.goal = worlds[id].by.goal
    BY <1>2 DEF Controllers
  <1>4. worlds' = [worlds EXCEPT ![id].by = ctl] /\ UNCHANGED <<built, mainRef, rooms, place, unticked, deferred>>
    BY DEF SetPolicy
  <1>5. ~Simulating'
    BY <1>4 DEF SetPolicy, Simulating
  <1>6. OneMoveEach' /\ deferred' \in DeferredType
    BY <1>2, <1>4 DEF OneMoveEach
  <1> HIDE DEF id, ctl
  <1> QED
    BY <1>1, <1>3, <1>4, <1>5, <1>6, ControllerChanges

LEMMA SetControllerKeeps ==
  ASSUME RoomsInv, NEW id \in WorldIds, NEW ctl \in {Open, Waits}, SetController(id, ctl) PROVE RoomsInv'
  <1>1. ctl \in Controllers /\ ctl.code = NoCode
    BY FreshControllers
  <1>2. worlds' = [worlds EXCEPT ![id].by = ctl] /\ worlds[id] # NoWorld /\ ~Simulating
        /\ UNCHANGED <<built, mainRef, rooms, place, unticked, deferred>>
    BY DEF SetController
  <1>3. OneMoveEach' /\ deferred' \in DeferredType /\ ~Simulating'
    BY <1>2, RoomsFacts DEF OneMoveEach, Simulating
  <1> QED
    BY <1>1, <1>2, <1>3, ControllerChanges

LEMMA SetMainWorldKeeps == ASSUME RoomsInv, NEW id \in WorldIds, SetMainWorld(id) PROVE RoomsInv'
  <1> DEFINE ref == Ref(worlds, id)
  <1>1. /\ worlds[id] # NoWorld /\ mainRef' = ref /\ UNCHANGED <<worlds, built, rooms, place, unticked, deferred>>
        /\ \A c \in Codes : rooms[c].active # ref /\ rooms[c].waiting # ref
    BY DEF SetMainWorld
  <1>2. ref \in WorldRefs /\ Exists(worlds, ref)
    BY <1>1, RefNames
  <1> HIDE DEF ref
  <1>3. RoomsTypeOK'
    BY <1>1, <1>2 DEF RoomsInv, RoomsTypeOK
  <1>4. RoomsAreApart'
    <2>1. MainExists'
      BY <1>1, <1>2 DEF MainExists
    <2>2. RoomsOwnWorlds'
      BY <1>1, RoomsFacts DEF RoomsOwnWorlds
    <2>3. WaitingLeadsOn'
      <3>1. WaitingLeadsOn
        BY RoomsFacts
      <3> QED
        BY <1>1, <3>1 DEF WaitingLeadsOn
    <2> QED
      BY <2>1, <2>2, <2>3, ApartParts, PTL
  <1>5. NobodyIsNowhere'
    BY <1>1, RoomsFacts DEF NobodyIsNowhere
  <1>6. RoomsHaveGames' /\ OneMoveEach' /\ UntickedLive'
    BY <1>1 DEF RoomsInv, RoomsHaveGames, OneMoveEach, UntickedLive, Simulating
  <1> QED
    BY <1>3, <1>4, <1>5, <1>6 DEF RoomsInv, RoomsAreSound

LEMMA BeginTickKeeps == ASSUME RoomsInv, BeginTick PROVE RoomsInv'
  <1>1. UNCHANGED <<worlds, built, mainRef, rooms, place, deferred>>
    BY DEF BeginTick
  <1>2. UntickedLive'
    BY DEF BeginTick, UntickedLive
  <1>3. RoomsTypeOK' /\ RoomsAreSound' /\ RoomsHaveGames' /\ OneMoveEach'
    BY <1>1 DEF RoomsInv, RoomsTypeOK, RoomsAreSound, RoomsAreApart, NobodyIsNowhere, RoomsHaveGames, OneMoveEach
  <1> QED
    BY <1>2, <1>3 DEF RoomsInv

LEMMA PortalKeeps == ASSUME RoomsInv, NEW p \in Guests, NEW id \in WorldIds, Portal(p, id) PROVE RoomsInv'
  <1>1. UNCHANGED <<worlds, built, mainRef, rooms, place, unticked>>
    BY DEF Portal
  <1>2. place[p].ref \in WorldRefs
    BY RoomsFacts DEF Portal
  <1>3. Ref(worlds, id) \in WorldRefs /\ deferred' = Deferred({p}, place[p].ref, Ref(worlds, id))
    BY RefNames DEF Portal
  <1>4. deferred' \in DeferredType /\ OneMoveEach'
    BY <1>2, <1>3, DeferredOnce
  <1>5. RoomsTypeOK' /\ RoomsAreSound' /\ RoomsHaveGames' /\ UntickedLive'
    BY <1>1, <1>4 DEF RoomsInv, RoomsTypeOK, RoomsAreSound, RoomsAreApart, NobodyIsNowhere, RoomsHaveGames,
         UntickedLive, Simulating, DeferredType
  <1> QED
    BY <1>4, <1>5 DEF RoomsInv

\* Players stay where they are, in worlds that stay.
LEMMA WhereTheyAre ==
  ASSUME RoomsInv, \A r \in WorldRefs : Exists(worlds, r) => Exists(worlds', r), place' = place
  PROVE  NobodyIsNowhere'
  BY RoomsFacts DEF NobodyIsNowhere

LEMMA CreateWorldKeeps ==
  ASSUME RoomsInv, NEW ctl \in {Open, Waits}, CreateWorld(ctl) PROVE RoomsInv'
  <1>1. ctl \in Controllers /\ ctl.code = NoCode
    BY FreshControllers
  <1>2. /\ CanBuild /\ ~Simulating /\ worlds' = Built(worlds, ctl) /\ built' = built + 1
        /\ UNCHANGED <<mainRef, rooms, place, unticked, deferred>>
    BY DEF CreateWorld
  <1> DEFINE new == NextId
  <1>3. /\ worlds' \in [WorldIds -> WorldRecords \cup {NoWorld}]
        /\ worlds'[new].by = ctl
        /\ \A id \in WorldIds \ {new} : worlds'[id] = worlds[id]
        /\ \A r \in WorldRefs : Exists(worlds, r) => Exists(worlds', r) /\ r[1] # new
        /\ \A id \in WorldIds : worlds'[id] # NoWorld => worlds'[id].generation <= built'
    BY <1>1, <1>2, BuiltBeside
  <1>4. built' \in 1..MaxBuilt
    BY <1>2, NextIdIsFree
  <1> HIDE DEF new
  <1>5. MainExists'
    BY <1>2, <1>3, RoomsFacts DEF MainExists
  <1>6. RoomsOwnWorlds'
    <2>1. \A c \in Codes : rooms'[c] = rooms[c]
      BY <1>2
    <2> QED
      BY <1>2, <1>3, <2>1, RoomsFacts DEF RoomsOwnWorlds
  <1>7. WaitingLeadsOn'
    <2> SUFFICES ASSUME NEW id \in WorldIds, worlds'[id] # NoWorld, worlds'[id].by.code # NoCode
                 PROVE  /\ worlds'[id].by.goal # id
                        /\ rooms'[worlds'[id].by.code].waiting = Ref(worlds', id)
                        /\ worlds'[id].by.goal # NoWorld =>
                             rooms'[worlds'[id].by.code].active = Ref(worlds', worlds'[id].by.goal)
      BY DEF WaitingLeadsOn
    <2>1. worlds'[id] = worlds[id] /\ id # new
      BY <1>1, <1>3
    <2> DEFINE c == worlds[id].by.code  g == worlds[id].by.goal
    <2>2. c \in Codes /\ (g # NoWorld => g \in WorldIds)
      BY <2>1, RoomsFacts DEF WorldRecords, Controllers
    <2>3. g # id /\ rooms[c].waiting = Ref(worlds, id) /\ (g # NoWorld => rooms[c].active = Ref(worlds, g))
      BY <2>1, RoomsFacts DEF WaitingLeadsOn
    <2>4. rooms[c].active # NoWorld
      BY <2>1, <2>2, <2>3, RefNames, RoomsFacts
    <2>5. g # NoWorld => g # new
      <3>1. rooms[c].active \in WorldRefs /\ Exists(worlds, rooms[c].active)
        BY <2>2, <2>4, RoomsFacts
      <3> QED
        BY <1>3, <2>3, <3>1 DEF Ref
    <2> QED
      BY <1>2, <1>3, <2>1, <2>2, <2>3, <2>5 DEF Ref
  <1>8. NobodyIsNowhere'
    BY <1>2, <1>3, WhereTheyAre
  <1>9. RoomsHaveGames' /\ OneMoveEach' /\ UntickedLive'
    BY <1>2, RoomsFacts DEF RoomsHaveGames, OneMoveEach, UntickedLive, Simulating
  <1>10. mainRef' \in WorldRefs /\ rooms' \in [Codes -> RoomType] /\ place' \in PlaceType /\ deferred' \in DeferredType
    BY <1>2, RoomsFacts
  <1> QED
    BY <1>3, <1>4, <1>5, <1>6, <1>7, <1>8, <1>9, <1>10, RoomsInvIntro

LEMMA CreateRoomKeeps ==
  ASSUME RoomsInv, NEW p \in Guests, NEW c \in Codes, CreateRoom(p, c) PROVE RoomsInv'
  <1> DEFINE new == NextId
             ref == <<NextId, built + 1>>
             ctl == [Waits EXCEPT !.code = c]
  <1>1. ctl \in Controllers /\ ctl.code = c /\ ctl.goal = NoWorld
    BY FreshControllers DEF Controllers
  <1>2. /\ CanBuild /\ ~Simulating /\ rooms[c].active = NoWorld
        /\ worlds' = Built(worlds, ctl) /\ built' = built + 1
        /\ rooms' = [rooms EXCEPT ![c].active = ref, ![c].waiting = ref]
        /\ place' = (IF Movable(p) THEN Moves(place, {p}, ref) ELSE place)
        /\ UNCHANGED <<mainRef, unticked, deferred>>
    BY DEF CreateRoom
  <1>3. /\ worlds' \in [WorldIds -> WorldRecords \cup {NoWorld}]
        /\ worlds'[new].by = ctl /\ worlds'[new].generation = built + 1
        /\ \A id \in WorldIds \ {new} : worlds'[id] = worlds[id]
        /\ \A r \in WorldRefs : Exists(worlds, r) => Exists(worlds', r) /\ r[1] # new
        /\ Exists(worlds', ref)
        /\ \A id \in WorldIds : worlds'[id] # NoWorld => worlds'[id].generation <= built'
    BY <1>1, <1>2, BuiltBeside
  <1>4. built' \in 1..MaxBuilt /\ ref \in WorldRefs /\ new \in WorldIds /\ ref # NoWorld
    BY <1>2, NextIdIsFree
  <1>5. ref[1] = new /\ ref = <<new, built + 1>>
    OBVIOUS
  <1> HIDE DEF new, ref, ctl
  <1>6. /\ rooms \in [Codes -> RoomType] /\ place \in PlaceType /\ mainRef \in WorldRefs
        /\ rooms[c].waiting = NoWorld
    BY <1>2, RoomsFacts DEF RoomsHaveGames
  <1>7. rooms' \in [Codes -> RoomType]
    BY <1>2, <1>4, <1>6 DEF RoomType
  <1>8. rooms'[c].active = ref /\ rooms'[c].waiting = ref
    BY <1>2, <1>6 DEF RoomType
  <1>9. \A d \in Codes \ {c} : rooms'[d] = rooms[d]
    BY <1>2, <1>6
  <1>10. MainExists'
    BY <1>2, <1>3, RoomsFacts DEF MainExists
  <1>11. \A d \in Codes : ref \notin {rooms[d].active, rooms[d].waiting}
    BY <1>3, <1>4, <1>5, RoomsFacts
  <1>12. ref # mainRef
    BY <1>3, <1>5, RoomsFacts DEF MainExists
  <1>13. RoomsOwnWorlds'
    <2> SUFFICES ASSUME NEW e \in Codes, rooms'[e].active # NoWorld
                 PROVE  /\ Exists(worlds', rooms'[e].active) /\ rooms'[e].active # mainRef
                        /\ rooms'[e].waiting # NoWorld => Exists(worlds', rooms'[e].waiting) /\ rooms'[e].waiting # mainRef
                        /\ \A d \in Codes \ {e} : {rooms'[e].active, rooms'[e].waiting} \cap
                              {rooms'[d].active, rooms'[d].waiting} \subseteq {NoWorld}
      BY <1>2 DEF RoomsOwnWorlds
    <2>1. CASE e = c
      BY <1>3, <1>8, <1>9, <1>11, <1>12, <2>1
    <2>2. CASE e # c
      <3>1. rooms'[e] = rooms[e] /\ rooms[e].active # NoWorld
        BY <1>9, <2>2
      <3>2. /\ Exists(worlds, rooms[e].active) /\ rooms[e].active # mainRef
            /\ rooms[e].waiting # NoWorld => Exists(worlds, rooms[e].waiting) /\ rooms[e].waiting # mainRef
            /\ \A d \in Codes \ {e} : {rooms[e].active, rooms[e].waiting} \cap
                              {rooms[d].active, rooms[d].waiting} \subseteq {NoWorld}
        BY <3>1, RoomsFacts DEF RoomsOwnWorlds
      <3>3. \A d \in Codes \ {e} : {rooms'[e].active, rooms'[e].waiting} \cap
                              {rooms'[d].active, rooms'[d].waiting} \subseteq {NoWorld}
        BY <3>1, <3>2, <1>8, <1>9, <1>11
      <3>4. rooms[e].active \in WorldRefs /\ (rooms[e].waiting # NoWorld => rooms[e].waiting \in WorldRefs)
        BY <3>1, RoomsFacts
      <3> QED
        BY <1>3, <3>1, <3>2, <3>3, <3>4
    <2> QED
      BY <2>1, <2>2
  <1>14. WaitingLeadsOn'
    <2> SUFFICES ASSUME NEW id \in WorldIds, worlds'[id] # NoWorld, worlds'[id].by.code # NoCode
                 PROVE  /\ worlds'[id].by.goal # id
                        /\ rooms'[worlds'[id].by.code].waiting = Ref(worlds', id)
                        /\ worlds'[id].by.goal # NoWorld =>
                             rooms'[worlds'[id].by.code].active = Ref(worlds', worlds'[id].by.goal)
      BY DEF WaitingLeadsOn
    <2>1. CASE id = new
      <3>1. ctl.goal # new
        BY <1>1, <1>4, RoomsAssumption
      <3> QED
        BY <1>1, <1>3, <1>5, <1>8, <2>1, <3>1 DEF Ref
    <2>2. CASE id # new
      <3>1. worlds'[id] = worlds[id]
        BY <1>3, <2>2
      <3> DEFINE d == worlds[id].by.code  g == worlds[id].by.goal
      <3>2. d \in Codes /\ (g # NoWorld => g \in WorldIds)
        BY <2>2, <3>1, RoomsFacts DEF WorldRecords, Controllers
      <3>3. g # id /\ rooms[d].waiting = Ref(worlds, id) /\ (g # NoWorld => rooms[d].active = Ref(worlds, g))
        BY <3>1, RoomsFacts DEF WaitingLeadsOn
      <3>4. rooms[d].waiting # NoWorld
        BY <3>1, <3>3, RefNames
      <3>5. d # c /\ rooms[d].active # NoWorld
        BY <1>6, <3>2, <3>4, RoomsFacts
      <3>6. g # NoWorld => g # new
        <4>1. rooms[d].active \in WorldRefs /\ Exists(worlds, rooms[d].active)
          BY <3>2, <3>5, RoomsFacts
        <4> QED
          BY <1>3, <3>3, <4>1 DEF Ref
      <3> QED
        BY <1>3, <1>9, <2>2, <3>1, <3>2, <3>3, <3>5, <3>6 DEF Ref
    <2> QED
      BY <2>1, <2>2
  <1>15. NobodyIsNowhere' /\ place' \in PlaceType
    <2>1. CASE Movable(p)
      <3>1. place' = Moves(place, {p}, ref)
        BY <1>2, <2>1
      <3>2. place' \in PlaceType
        BY <1>4, <1>6, <3>1 DEF Moves, PlaceType
      <3>3. place'[p].ref = ref /\ place'[p].is # "due" /\ \A q \in Guests \ {p} : place'[q] = place[q]
        BY <1>6, <2>1, <3>1 DEF Moves, Movable, PlaceType
      <3> QED
        BY <1>3, <3>2, <3>3, RoomsFacts DEF NobodyIsNowhere
    <2>2. CASE ~Movable(p)
      BY <1>2, <1>3, <1>6, <2>2, WhereTheyAre
    <2> QED
      BY <2>1, <2>2
  <1>16. RoomsHaveGames'
    BY <1>4, <1>8, <1>9, RoomsFacts DEF RoomsHaveGames
  <1>17. OneMoveEach' /\ UntickedLive' /\ deferred' \in DeferredType
    BY <1>2, RoomsFacts DEF OneMoveEach, UntickedLive, Simulating
  <1>18. mainRef' \in WorldRefs
    BY <1>2, <1>6
  <1> QED
    BY <1>3, <1>4, <1>7, <1>10, <1>13, <1>14, <1>15, <1>16, <1>17, <1>18, RoomsInvIntro

\* A waiting world makes the game of its room, which no other world leads to.
LEMMA GameBuiltKeeps ==
  ASSUME RoomsInv, NEW id \in WorldIds, worlds[id] # NoWorld, CanBuildGame(id),
         NEW start \in BOOLEAN, GameBuilt(id, start), UNCHANGED <<mainRef, place>>,
         deferred' \in DeferredType, OneMoveEach',
         Simulating' => \A i \in unticked' : i = NextId \/ (i \in WorldIds /\ worlds[i] # NoWorld)
  PROVE  RoomsInv'
  <1> DEFINE new == NextId
             ref == <<NextId, built + 1>>
             ctl == [worlds[id].by EXCEPT !.goal = NextId, !.start = start]
             w == Built(worlds, Open)
             c == worlds[id].by.code
  <1>0. CanBuild /\ c # NoCode /\ Exists(worlds, rooms[c].active)
    BY DEF CanBuildGame
  <1>1. /\ worlds' = [w EXCEPT ![id].by = ctl] /\ built' = built + 1
        /\ rooms' = [rooms EXCEPT ![c].active = <<NextId, built'>>]
    BY DEF GameBuilt
  <1>2. /\ w \in [WorldIds -> WorldRecords \cup {NoWorld}]
        /\ w[new] # NoWorld /\ w[new].by = Open /\ w[new].generation = built + 1
        /\ \A i \in WorldIds \ {new} : w[i] = worlds[i]
        /\ \A r \in WorldRefs : Exists(worlds, r) => Exists(w, r) /\ r[1] # new
        /\ Exists(w, ref)
        /\ \A i \in WorldIds : w[i] # NoWorld => w[i].generation <= built + 1
    BY <1>0, BuiltBeside, FreshControllers
  <1>3. built' \in 1..MaxBuilt /\ ref \in WorldRefs /\ new \in WorldIds /\ ref # NoWorld /\ worlds[new] = NoWorld
    BY <1>0, <1>1, NextIdIsFree
  <1>4. ref[1] = new /\ ref = <<new, built + 1>> /\ rooms' = [rooms EXCEPT ![c].active = ref]
    BY <1>1
  <1>5. worlds[id].by \in Controllers /\ c \in Codes
    BY <1>0, RoomsFacts DEF WorldRecords, Controllers
  <1>6. ctl \in Controllers /\ ctl.code = c /\ ctl.goal = new
    BY <1>3, <1>5 DEF Controllers
  <1> HIDE DEF new, ref, ctl, w, c
  <1>7. id # new /\ w[id] = worlds[id] /\ w[id] \in WorldRecords
    BY <1>2, <1>3
  <1>8. worlds' \in [WorldIds -> WorldRecords \cup {NoWorld}]
    BY <1>1, <1>2, <1>6, <1>7 DEF WorldRecords
  <1>9. /\ worlds'[id] \in WorldRecords /\ worlds'[id].by = ctl /\ worlds'[id].generation = worlds[id].generation
        /\ \A i \in WorldIds : i # id => worlds'[i] = w[i]
    <2>1. worlds'[id] = [w[id] EXCEPT !.by = ctl]
      BY <1>1, <1>2
    <2> QED
      BY <1>1, <1>2, <1>6, <1>7, <2>1 DEF WorldRecords
  <1>10. worlds'[id] # NoWorld
    BY <1>9, RoomsAssumption
  <1>11. \A r \in WorldRefs : Exists(worlds', r) <=> Exists(w, r)
    <2>1. \A i \in WorldIds : /\ w[i] = NoWorld <=> worlds'[i] = NoWorld
                              /\ w[i] # NoWorld => worlds'[i].generation = w[i].generation
      BY <1>7, <1>9, <1>10
    <2> QED
      BY <2>1, SameWorldsExist
  <1>12. \A r \in WorldRefs : Exists(worlds, r) => Exists(worlds', r) /\ r[1] # new
    BY <1>2, <1>11
  <1>13. \A i \in WorldIds : worlds'[i] # NoWorld => worlds'[i].generation <= built'
    BY <1>1, <1>2, <1>7, <1>9
  <1>14. /\ rooms \in [Codes -> RoomType] /\ place \in PlaceType /\ mainRef \in WorldRefs
         /\ rooms[c].active # NoWorld /\ rooms[c].waiting = Ref(worlds, id)
    BY <1>0, <1>5, RoomsFacts DEF Exists, WaitingLeadsOn, c
  <1>15. rooms' \in [Codes -> RoomType]
    BY <1>3, <1>4, <1>5, <1>14 DEF RoomType
  <1>16. rooms'[c].active = ref /\ rooms'[c].waiting = rooms[c].waiting
    BY <1>4, <1>5, <1>14 DEF RoomType
  <1>17. \A d \in Codes \ {c} : rooms'[d] = rooms[d]
    BY <1>4, <1>14
  <1>18. MainExists'
    BY <1>12, RoomsFacts DEF MainExists
  <1>19. \A d \in Codes : ref \notin {rooms[d].active, rooms[d].waiting}
    BY <1>3, <1>4, <1>12, RoomsFacts
  <1>20. ref # mainRef
    BY <1>4, <1>12, RoomsFacts DEF MainExists
  <1>21. RoomsOwnWorlds'
    <2> SUFFICES ASSUME NEW e \in Codes, rooms'[e].active # NoWorld
                 PROVE  /\ Exists(worlds', rooms'[e].active) /\ rooms'[e].active # mainRef
                        /\ rooms'[e].waiting # NoWorld => Exists(worlds', rooms'[e].waiting) /\ rooms'[e].waiting # mainRef
                        /\ \A d \in Codes \ {e} : {rooms'[e].active, rooms'[e].waiting} \cap
                              {rooms'[d].active, rooms'[d].waiting} \subseteq {NoWorld}
      BY DEF RoomsOwnWorlds
    <2>0. rooms[e].active # NoWorld /\ rooms'[e].waiting = rooms[e].waiting
      BY <1>14, <1>16, <1>17
    <2>1. /\ Exists(worlds, rooms[e].active) /\ rooms[e].active # mainRef
          /\ rooms[e].waiting # NoWorld => Exists(worlds, rooms[e].waiting) /\ rooms[e].waiting # mainRef
          /\ \A d \in Codes \ {e} : {rooms[e].active, rooms[e].waiting} \cap
                            {rooms[d].active, rooms[d].waiting} \subseteq {NoWorld}
      BY <2>0, RoomsFacts DEF RoomsOwnWorlds
    <2>2. rooms[e].active \in WorldRefs /\ (rooms[e].waiting # NoWorld => rooms[e].waiting \in WorldRefs)
      BY <2>0, RoomsFacts
    <2>3. Exists(worlds', rooms'[e].active) /\ rooms'[e].active # mainRef
      BY <1>2, <1>3, <1>11, <1>12, <1>16, <1>17, <1>20, <2>1, <2>2
    <2>4. rooms'[e].waiting # NoWorld => Exists(worlds', rooms'[e].waiting) /\ rooms'[e].waiting # mainRef
      BY <1>12, <2>0, <2>1, <2>2
    <2>5. ASSUME NEW d \in Codes \ {e}
          PROVE {rooms'[e].active, rooms'[e].waiting} \cap {rooms'[d].active, rooms'[d].waiting} \subseteq {NoWorld}
      <3>1. \A f \in Codes : /\ rooms'[f].active \in {rooms[f].active, ref}
                             /\ rooms'[f].waiting = rooms[f].waiting
                             /\ rooms'[f].active = ref => f = c
        BY <1>16, <1>17, <1>19
      <3>2. d \in Codes /\ d # e
        OBVIOUS
      <3> QED
        BY <1>19, <2>1, <3>1, <3>2
    <2> QED
      BY <2>3, <2>4, <2>5
  <1>22. WaitingLeadsOn'
    <2> SUFFICES ASSUME NEW i \in WorldIds, worlds'[i] # NoWorld, worlds'[i].by.code # NoCode
                 PROVE  /\ worlds'[i].by.goal # i
                        /\ rooms'[worlds'[i].by.code].waiting = Ref(worlds', i)
                        /\ worlds'[i].by.goal # NoWorld =>
                             rooms'[worlds'[i].by.code].active = Ref(worlds', worlds'[i].by.goal)
      BY DEF WaitingLeadsOn
    <2>1. CASE i = id
      <3>1. worlds'[i].by.code = c /\ worlds'[i].by.goal = new /\ Ref(worlds', i) = Ref(worlds, i)
        BY <1>6, <1>9, <2>1 DEF Ref
      <3>2. Ref(worlds', new) = ref
        BY <1>2, <1>3, <1>4, <1>7, <1>9 DEF Ref
      <3> QED
        BY <1>7, <1>14, <1>16, <2>1, <3>1, <3>2
    <2>2. CASE i # id
      <3>1. worlds'[i] = worlds[i] /\ i # new
        BY <1>2, <1>9, <2>2, FreshControllers
      <3> DEFINE d == worlds[i].by.code  g == worlds[i].by.goal
      <3>2. d \in Codes /\ (g # NoWorld => g \in WorldIds)
        BY <3>1, RoomsFacts DEF WorldRecords, Controllers
      <3>3. g # i /\ rooms[d].waiting = Ref(worlds, i) /\ (g # NoWorld => rooms[d].active = Ref(worlds, g))
        BY <3>1, RoomsFacts DEF WaitingLeadsOn
      <3>4. rooms[d].waiting # NoWorld /\ rooms[d].active # NoWorld
        BY <3>1, <3>2, <3>3, RefNames, RoomsFacts
      <3>5. d # c
        BY <1>14, <2>2, <3>3 DEF Ref
      <3>6. g # NoWorld => Ref(worlds', g) = Ref(worlds, g)
        <4>1. rooms[d].active \in WorldRefs /\ Exists(worlds, rooms[d].active)
          BY <3>2, <3>4, RoomsFacts
        <4>2. g # NoWorld => g # new
          BY <1>12, <3>3, <4>1 DEF Ref
        <4> QED
          BY <1>2, <1>7, <1>9, <3>2, <4>2 DEF Ref
      <3> QED
        BY <1>17, <3>1, <3>2, <3>3, <3>5, <3>6 DEF Ref
    <2> QED
      BY <2>1, <2>2
  <1>23. NobodyIsNowhere' /\ place' \in PlaceType /\ mainRef' \in WorldRefs
    BY <1>12, <1>14, WhereTheyAre
  <1>24. RoomsHaveGames'
    BY <1>3, <1>16, <1>17, RoomsFacts DEF RoomsHaveGames
  <1>25. UntickedLive'
    <2>1. worlds'[new] # NoWorld
      BY <1>2, <1>3, <1>7, <1>9
    <2>2. \A i \in WorldIds : worlds[i] # NoWorld => worlds'[i] # NoWorld
      BY <1>2, <1>3, <1>9, <1>10
    <2> QED
      BY <1>3, <2>1, <2>2 DEF UntickedLive, new
  <1> QED
    BY <1>3, <1>8, <1>13, <1>15, <1>18, <1>21, <1>22, <1>23, <1>24, <1>25, RoomsInvIntro

LEMMA StartKeeps == ASSUME RoomsInv, NEW p \in Guests, Start(p) PROVE RoomsInv'
  <1> DEFINE id == place[p].ref[1]
             ctl == [worlds[id].by EXCEPT !.start = TRUE]
  <1>1. id \in WorldIds /\ worlds[id] # NoWorld
    BY RoomsFacts DEF Start, WorldRefs, Exists
  <1>2. worlds[id].by \in Controllers
    BY <1>1, RoomsFacts DEF WorldRecords
  <1>3. ctl \in Controllers /\ ctl.code = worlds[id].by.code /\ ctl.goal = worlds[id].by.goal
    BY <1>2 DEF Controllers
  <1>4. ~Simulating /\ UNCHANGED <<mainRef, place, unticked, deferred>>
    BY DEF Start
  <1>5. ~Simulating' /\ OneMoveEach' /\ deferred' \in DeferredType
    BY <1>4, RoomsFacts DEF Simulating, OneMoveEach
  <1>6. \/ worlds' = [worlds EXCEPT ![id].by = ctl] /\ UNCHANGED <<built, rooms>>
        \/ CanBuildGame(id) /\ GameBuilt(id, TRUE)
    BY DEF Start
  <1> HIDE DEF id, ctl
  <1>7. CASE worlds' = [worlds EXCEPT ![id].by = ctl] /\ UNCHANGED <<built, rooms>>
    BY <1>1, <1>3, <1>4, <1>5, <1>7, ControllerChanges
  <1>8. CASE CanBuildGame(id) /\ GameBuilt(id, TRUE)
    BY <1>1, <1>4, <1>5, <1>8, GameBuiltKeeps
  <1> QED
    BY <1>6, <1>7, <1>8

LEMMA TickWorldKeeps == ASSUME RoomsInv, NEW id \in WorldIds, TickWorld(id) PROVE RoomsInv'
  <1>1. Simulating /\ id \in unticked /\ UNCHANGED <<mainRef, place>>
    BY DEF TickWorld
  <1>2. worlds[id] # NoWorld /\ \A i \in unticked : i \in WorldIds /\ worlds[i] # NoWorld
    BY <1>1, RoomsFacts DEF UntickedLive
  <1>3. /\ Waiting(id) \in SUBSET Guests /\ Ref(worlds, id) \in WorldRefs
    BY <1>2, RefNames DEF Waiting
  <1>4. CASE unticked' = unticked \ {id} /\ UNCHANGED <<worlds, built, rooms, deferred>>
    <2>1. UntickedLive'
      BY <1>2, <1>4 DEF UntickedLive
    <2>2. RoomsTypeOK' /\ RoomsAreSound' /\ RoomsHaveGames' /\ OneMoveEach'
      BY <1>1, <1>4 DEF RoomsInv, RoomsTypeOK, RoomsAreSound, RoomsAreApart, NobodyIsNowhere, RoomsHaveGames, OneMoveEach
    <2> QED
      BY <2>1, <2>2 DEF RoomsInv
  <1>5. CASE /\ Goal(id) # NoWorld /\ unticked' = unticked \ {id}
             /\ worlds' = [worlds EXCEPT ![id].by.start = FALSE]
             /\ deferred' = Deferred(Waiting(id), Ref(worlds, id), Ref(worlds, Goal(id)))
             /\ UNCHANGED <<built, rooms>>
    <2> DEFINE ctl == [worlds[id].by EXCEPT !.start = FALSE]
    <2>1. worlds[id].by \in Controllers
      BY <1>2, RoomsFacts DEF WorldRecords
    <2>2. ctl \in Controllers /\ ctl.code = worlds[id].by.code /\ ctl.goal = worlds[id].by.goal
      BY <2>1 DEF Controllers
    <2>3. worlds' = [worlds EXCEPT ![id].by = ctl]
      BY <1>5
    <2>4. Goal(id) \in WorldIds /\ worlds[Goal(id)] # NoWorld
      BY <1>5, <2>1 DEF Goal, Controllers
    <2>5. deferred' \in DeferredType /\ OneMoveEach'
      BY <1>3, <1>5, <2>4, RefNames, DeferredOnce
    <2> HIDE DEF ctl
    <2> QED
      BY <1>1, <1>2, <1>5, <2>2, <2>3, <2>5, ControllerChanges
  <1>6. CASE /\ CanBuildGame(id) /\ GameBuilt(id, FALSE)
             /\ unticked' = (unticked \ {id}) \cup {NextId}
             /\ deferred' = Deferred(Waiting(id), Ref(worlds, id), <<NextId, built'>>)
    <2>1. <<NextId, built'>> \in WorldRefs
      BY <1>6, NextIdIsFree DEF CanBuildGame, GameBuilt
    <2>2. deferred' \in DeferredType /\ OneMoveEach'
      BY <1>3, <1>6, <2>1, DeferredOnce
    <2> QED
      BY <1>1, <1>2, <1>6, <2>2, GameBuiltKeeps
  <1> QED
    BY <1>4, <1>5, <1>6 DEF TickWorld

\* Closing worlds that are not the main world, together with what the rooms
\* say of them, keeps the rooms apart.
LEMMA ClosingKeeps ==
  ASSUME RoomsInv, NEW doomed, mainRef[1] \notin doomed,
         worlds' = Without(worlds, doomed), UNCHANGED <<built, mainRef>>,
         rooms' \in [Codes -> RoomType],
         \A c \in Codes : /\ rooms'[c].active \in {rooms[c].active, NoWorld}
                          /\ rooms'[c].waiting \in {rooms[c].waiting, NoWorld}
                          /\ rooms'[c].active = NoWorld => rooms'[c].waiting = NoWorld
                          /\ rooms'[c].active # NoWorld => rooms'[c].active[1] \notin doomed
                          /\ rooms'[c].waiting # NoWorld => rooms'[c].waiting[1] \notin doomed
                          /\ rooms'[c].active # rooms[c].active /\ rooms[c].waiting # NoWorld =>
                               rooms[c].waiting[1] \in doomed
                          /\ rooms'[c].waiting # rooms[c].waiting => rooms[c].waiting[1] \in doomed,
         place' \in PlaceType,
         \A p \in Guests : IF place'[p].is = "due" THEN place'[p].ref = NoWorld
                           ELSE Exists(worlds, place'[p].ref) /\ place'[p].ref[1] \notin doomed,
         deferred' \in DeferredType, OneMoveEach', UntickedLive'
  PROVE  RoomsInv'
  <1>1. /\ \A id \in WorldIds : id \in doomed => worlds'[id] = NoWorld
        /\ \A id \in WorldIds : id \notin doomed => worlds'[id] = worlds[id]
    BY DEF Without
  <1>2. worlds' \in [WorldIds -> WorldRecords \cup {NoWorld}]
    BY RoomsFacts DEF Without
  <1>3. \A id \in WorldIds : worlds'[id] # NoWorld => worlds'[id].generation <= built'
    BY <1>1 DEF RoomsInv, RoomsTypeOK
  <1>4. \A r \in WorldRefs : Exists(worlds, r) /\ r[1] \notin doomed => Exists(worlds', r)
    BY <1>1 DEF Exists, WorldRefs
  <1>5. MainExists'
    BY <1>4, RoomsFacts DEF MainExists
  <1>6. RoomsOwnWorlds'
    <2> SUFFICES ASSUME NEW c \in Codes, rooms'[c].active # NoWorld
                 PROVE  /\ Exists(worlds', rooms'[c].active) /\ rooms'[c].active # mainRef
                        /\ rooms'[c].waiting # NoWorld => Exists(worlds', rooms'[c].waiting) /\ rooms'[c].waiting # mainRef
                        /\ \A d \in Codes \ {c} : {rooms'[c].active, rooms'[c].waiting} \cap
                              {rooms'[d].active, rooms'[d].waiting} \subseteq {NoWorld}
      BY DEF RoomsOwnWorlds
    <2>1. rooms[c].active # NoWorld /\ rooms'[c].active = rooms[c].active
      OBVIOUS
    <2>2. /\ Exists(worlds, rooms[c].active) /\ rooms[c].active # mainRef
          /\ rooms[c].waiting # NoWorld => Exists(worlds, rooms[c].waiting) /\ rooms[c].waiting # mainRef
          /\ \A d \in Codes \ {c} : {rooms[c].active, rooms[c].waiting} \cap
                            {rooms[d].active, rooms[d].waiting} \subseteq {NoWorld}
      BY <2>1, RoomsFacts DEF RoomsOwnWorlds
    <2>3. rooms[c].active \in WorldRefs /\ (rooms[c].waiting # NoWorld => rooms[c].waiting \in WorldRefs)
      BY <2>1, RoomsFacts
    <2>4. Exists(worlds', rooms'[c].active) /\ rooms'[c].active # mainRef
      BY <1>4, <2>1, <2>2, <2>3
    <2>5. rooms'[c].waiting # NoWorld => Exists(worlds', rooms'[c].waiting) /\ rooms'[c].waiting # mainRef
      BY <1>4, <2>2, <2>3
    <2>6. ASSUME NEW d \in Codes \ {c}
          PROVE {rooms'[c].active, rooms'[c].waiting} \cap {rooms'[d].active, rooms'[d].waiting} \subseteq {NoWorld}
      <3>1. /\ rooms'[c].active \in {rooms[c].active, NoWorld} /\ rooms'[c].waiting \in {rooms[c].waiting, NoWorld}
            /\ rooms'[d].active \in {rooms[d].active, NoWorld} /\ rooms'[d].waiting \in {rooms[d].waiting, NoWorld}
        OBVIOUS
      <3>2. {rooms[c].active, rooms[c].waiting} \cap {rooms[d].active, rooms[d].waiting} \subseteq {NoWorld}
        BY <2>2
      <3> QED
        BY <3>1, <3>2
    <2> QED
      BY <2>4, <2>5, <2>6
  <1>7. WaitingLeadsOn'
    <2> SUFFICES ASSUME NEW id \in WorldIds, worlds'[id] # NoWorld, worlds'[id].by.code # NoCode
                 PROVE  /\ worlds'[id].by.goal # id
                        /\ rooms'[worlds'[id].by.code].waiting = Ref(worlds', id)
                        /\ worlds'[id].by.goal # NoWorld =>
                             rooms'[worlds'[id].by.code].active = Ref(worlds', worlds'[id].by.goal)
      BY DEF WaitingLeadsOn
    <2>1. worlds'[id] = worlds[id] /\ id \notin doomed
      BY <1>1
    <2> DEFINE c == worlds[id].by.code  g == worlds[id].by.goal
    <2>2. c \in Codes /\ (g # NoWorld => g \in WorldIds)
      BY <2>1, RoomsFacts DEF WorldRecords, Controllers
    <2>3. g # id /\ rooms[c].waiting = Ref(worlds, id) /\ (g # NoWorld => rooms[c].active = Ref(worlds, g))
      BY <2>1, RoomsFacts DEF WaitingLeadsOn
    <2>4. rooms[c].waiting # NoWorld /\ rooms[c].waiting[1] \notin doomed
      BY <2>1, <2>3, RefNames DEF Ref
    <2> HIDE DEF c, g
    <2>5. rooms'[c] = [active |-> rooms[c].active, waiting |-> rooms[c].waiting, idle |-> rooms'[c].idle]
      BY <2>2, <2>4 DEF RoomType
    <2>6. rooms'[c].active = rooms[c].active /\ rooms'[c].waiting = rooms[c].waiting
      BY <2>5
    <2>7. rooms[c].active # NoWorld /\ rooms[c].active[1] \notin doomed
      BY <2>2, <2>4, <2>6, RoomsFacts
    <2>8. g # NoWorld => Ref(worlds', g) = Ref(worlds, g)
      BY <1>1, <2>2, <2>3, <2>7 DEF Ref
    <2> QED
      BY <2>1, <2>3, <2>6, <2>8 DEF Ref, c, g
  <1>8. NobodyIsNowhere'
    <2>1. \A p \in Guests : place'[p].is # "due" => place'[p].ref \in WorldRefs
      BY DEF PlaceType, Exists
    <2> QED
      BY <1>4, <2>1 DEF NobodyIsNowhere
  <1>9. RoomsHaveGames'
    BY DEF RoomsHaveGames
  <1>10. built' \in 1..MaxBuilt /\ mainRef' \in WorldRefs
    BY RoomsFacts
  <1> QED
    BY <1>2, <1>3, <1>5, <1>6, <1>7, <1>8, <1>9, <1>10, RoomsInvIntro

\* The rooms are nobody else's: references of two rooms, or of a room and the
\* main world, name different worlds.
LEMMA OtherRooms ==
  ASSUME RoomsInv, NEW c \in Codes, NEW d \in Codes, c # d,
         NEW r \in {rooms[c].active, rooms[c].waiting} \ {NoWorld},
         NEW s \in {rooms[d].active, rooms[d].waiting} \ {NoWorld}
  PROVE  r[1] # s[1]
  <1>1. /\ r \in WorldRefs /\ s \in WorldRefs /\ Exists(worlds, r) /\ Exists(worlds, s)
        /\ rooms[c].active # NoWorld
    BY RoomsFacts
  <1>2. {rooms[c].active, rooms[c].waiting} \cap {rooms[d].active, rooms[d].waiting} \subseteq {NoWorld}
    BY <1>1, RoomsFacts DEF RoomsOwnWorlds
  <1> QED
    BY <1>1, <1>2, OneRefPerWorld

LEMMA NotTheMainWorld ==
  ASSUME RoomsInv, NEW c \in Codes, NEW r \in {rooms[c].active, rooms[c].waiting} \ {NoWorld}
  PROVE  r[1] # mainRef[1]
  <1>1. /\ r \in WorldRefs /\ Exists(worlds, r) /\ r # mainRef /\ mainRef \in WorldRefs
        /\ Exists(worlds, mainRef)
    BY RoomsFacts DEF MainExists, RoomsOwnWorlds
  <1> QED
    BY <1>1, OneRefPerWorld

\* Whoever is not sent away stays in a world that is not closed.
Whereabouts == [ref : WorldRefs \cup {NoWorld}, is : {"alive", "dead", "marked", "removed", "due"}]

LEMMA EvictionKeeps ==
  ASSUME NEW at, NEW doomed, place' = Evicted(at, doomed),
         \A p \in Guests : /\ at[p] \in Whereabouts
                           /\ IF at[p].is = "due" THEN at[p].ref = NoWorld ELSE Exists(worlds, at[p].ref)
  PROVE  /\ place' \in PlaceType
         /\ \A p \in Guests : IF place'[p].is = "due" THEN place'[p].ref = NoWorld
                               ELSE Exists(worlds, place'[p].ref) /\ place'[p].ref[1] \notin doomed
  <1>1. ASSUME NEW p \in Guests
        PROVE  /\ place'[p] \in Whereabouts
               /\ IF place'[p].is = "due" THEN place'[p].ref = NoWorld
                  ELSE Exists(worlds, place'[p].ref) /\ place'[p].ref[1] \notin doomed
    <2> DEFINE due == [ref |-> NoWorld, is |-> "due"]
    <2>1. due \in Whereabouts /\ due.is = "due" /\ due.ref = NoWorld
      BY DEF Whereabouts
    <2> HIDE DEF due
    <2>2. CASE at[p].ref # NoWorld /\ at[p].ref[1] \in doomed
      <3>1. place'[p] = due
        BY <2>2 DEF Evicted, due
      <3> QED
        BY <2>1, <3>1
    <2>3. CASE ~(at[p].ref # NoWorld /\ at[p].ref[1] \in doomed)
      <3>1. place'[p] = at[p]
        BY <2>3 DEF Evicted
      <3> QED
        BY <2>3, <3>1 DEF Exists
    <2> QED
      BY <2>2, <2>3
  <1>2. place' = [p \in Guests |-> place'[p]]
    BY DEF Evicted
  <1>3. place' \in PlaceType
    BY <1>1, <1>2 DEF PlaceType, Whereabouts
  <1> QED
    BY <1>1, <1>3

LEMMA DestroyKeeps == ASSUME RoomsInv, NEW id \in WorldIds, DestroyWorldById(id) PROVE RoomsInv'
  <1> DEFINE ref == Ref(worlds, id)
             doomed == Companions(ref)
             saved == {p \in Guests : place[p].ref # NoWorld /\ place[p].ref[1] \in doomed /\ Movable(p)}
  <1>1. /\ worlds[id] # NoWorld /\ ref # mainRef /\ ~Simulating
        /\ worlds' = Without(worlds, doomed)
        /\ place' = Evicted(Moves(place, saved, mainRef), doomed)
        /\ rooms' = [c \in Codes |-> IF rooms[c].active = ref THEN NoRoom
                                     ELSE IF rooms[c].waiting = ref THEN [rooms[c] EXCEPT !.waiting = NoWorld]
                                     ELSE rooms[c]]
        /\ UNCHANGED <<built, mainRef, unticked, deferred>>
    BY DEF DestroyWorldById
  <1>2. /\ ref \in WorldRefs /\ Exists(worlds, ref) /\ ref[1] = id /\ ref # NoWorld
        /\ \A r \in WorldRefs : Exists(worlds, r) /\ r[1] = id => r = ref
    BY <1>1, RefNames
  <1>3. \A i : i \in doomed <=> i = id \/ \E c \in Codes : rooms[c].active = ref /\ rooms[c].waiting # NoWorld /\ i = rooms[c].waiting[1]
    BY <1>2 DEF Companions
  <1> HIDE DEF ref, doomed
  <1>4. mainRef[1] \notin doomed
    <2>1. mainRef[1] # id
      BY <1>1, <1>2, RoomsFacts DEF MainExists
    <2>2. \A c \in Codes : rooms[c].waiting # NoWorld => rooms[c].waiting[1] # mainRef[1]
      BY NotTheMainWorld
    <2> QED
      BY <1>3, <2>1, <2>2
  <1>5. rooms \in [Codes -> RoomType] /\ place \in PlaceType /\ deferred \in DeferredType /\ mainRef \in WorldRefs
    BY RoomsFacts
  <1>6. rooms' \in [Codes -> RoomType]
    <2>1. NoRoom \in RoomType
      BY RoomsAssumption DEF NoRoom, RoomType
    <2>2. \A c \in Codes : [rooms[c] EXCEPT !.waiting = NoWorld] \in RoomType
      BY <1>5 DEF RoomType
    <2> QED
      BY <1>1, <1>5, <2>1, <2>2
  <1>7. ASSUME NEW c \in Codes
        PROVE /\ rooms'[c].active \in {rooms[c].active, NoWorld}
              /\ rooms'[c].waiting \in {rooms[c].waiting, NoWorld}
              /\ rooms'[c].active = NoWorld => rooms'[c].waiting = NoWorld
              /\ rooms'[c].active # NoWorld => rooms'[c].active[1] \notin doomed
              /\ rooms'[c].waiting # NoWorld => rooms'[c].waiting[1] \notin doomed
              /\ rooms'[c].active # rooms[c].active /\ rooms[c].waiting # NoWorld =>
                               rooms[c].waiting[1] \in doomed
              /\ rooms'[c].waiting # rooms[c].waiting => rooms[c].waiting[1] \in doomed
    <2>1. \A d \in Codes : /\ rooms[d].active # NoWorld => rooms[d].active \in WorldRefs /\ Exists(worlds, rooms[d].active)
                           /\ rooms[d].waiting # NoWorld =>
                                /\ rooms[d].active # NoWorld /\ rooms[d].waiting \in WorldRefs
                                /\ Exists(worlds, rooms[d].waiting)
      BY RoomsFacts
    <2>2. CASE rooms[c].active = ref
      <3>1. rooms'[c].active = NoWorld /\ rooms'[c].waiting = NoWorld
        BY <1>1, <2>2 DEF NoRoom
      <3> QED
        BY <1>3, <2>2, <3>1
    <2>3. CASE rooms[c].active # ref
      <3>1. /\ rooms'[c].active = rooms[c].active
            /\ rooms'[c].waiting = IF rooms[c].waiting = ref THEN NoWorld ELSE rooms[c].waiting
        BY <1>1, <1>5, <2>3 DEF RoomType
      <3>2. ASSUME NEW r \in {rooms[c].active, rooms[c].waiting} \ {NoWorld}, r # ref PROVE r[1] \notin doomed
        <4>1. r[1] # id
          BY <1>2, <2>1, <3>2
        <4>2. ASSUME NEW d \in Codes, rooms[d].active = ref, rooms[d].waiting # NoWorld
              PROVE  r[1] # rooms[d].waiting[1]
          BY <2>3, <4>2, OtherRooms
        <4> QED
          BY <1>3, <4>1, <4>2
      <3> QED
        BY <1>2, <1>3, <2>1, <2>3, <3>1, <3>2
    <2> QED
      BY <2>2, <2>3
  <1> DEFINE at == Moves(place, saved, mainRef)
  <1>8. \A p \in Guests : at[p] = IF p \in saved THEN [place[p] EXCEPT !.ref = mainRef] ELSE place[p]
    BY DEF Moves
  <1>9. place' = Evicted(at, doomed)
    BY <1>1
  <1>10. \A p \in Guests : p \in saved => place[p].is # "due" /\ place[p].ref # NoWorld
    BY DEF Movable
  <1> HIDE DEF at, saved
  <1>11. \A p \in Guests : /\ at[p] \in Whereabouts
                           /\ IF at[p].is = "due" THEN at[p].ref = NoWorld ELSE Exists(worlds, at[p].ref)
    <2> SUFFICES ASSUME NEW p \in Guests
                 PROVE  /\ at[p] \in Whereabouts
                        /\ IF at[p].is = "due" THEN at[p].ref = NoWorld ELSE Exists(worlds, at[p].ref)
      OBVIOUS
    <2>1. /\ place[p] \in Whereabouts
          /\ IF place[p].is = "due" THEN place[p].ref = NoWorld ELSE Exists(worlds, place[p].ref)
      BY <1>5, RoomsFacts DEF PlaceType, NobodyIsNowhere, Whereabouts
    <2>2. CASE p \in saved
      <3>1. at[p] = [place[p] EXCEPT !.ref = mainRef] /\ place[p].is # "due" /\ Exists(worlds, mainRef)
        BY <1>8, <1>10, <2>2, RoomsFacts DEF MainExists
      <3> QED
        BY <1>5, <2>1, <3>1 DEF Whereabouts
    <2>3. CASE p \notin saved
      BY <1>8, <2>1, <2>3
    <2> QED
      BY <2>2, <2>3
  <1>12. /\ place' \in PlaceType
         /\ \A p \in Guests : IF place'[p].is = "due" THEN place'[p].ref = NoWorld
                               ELSE Exists(worlds, place'[p].ref) /\ place'[p].ref[1] \notin doomed
    BY <1>9, <1>11, EvictionKeeps
  <1>14. deferred' \in DeferredType /\ OneMoveEach' /\ UntickedLive'
    BY <1>1, RoomsFacts DEF OneMoveEach, UntickedLive, Simulating
  <1> QED
    BY <1>1, <1>4, <1>6, <1>7, <1>12, <1>14, ClosingKeeps

-----------------------------------------------------------------------------
\* CommitWorldTransfers leaves everybody in a world that exists, as it was.
LEMMA TransfersArrive ==
  ASSUME RoomsInv, NEW p \in Guests
  PROVE  /\ Transferred[p] \in Whereabouts
         /\ Transferred[p].is = place[p].is
         /\ IF place[p].is = "due" THEN Transferred[p].ref = NoWorld
            ELSE Transferred[p].ref \in WorldRefs /\ Exists(worlds, Transferred[p].ref)
  <1> DEFINE chosen == CHOOSE d \in deferred : d[1] = p
  <1>1. /\ place[p] \in Whereabouts
        /\ IF place[p].is = "due" THEN place[p].ref = NoWorld ELSE place[p].ref \in WorldRefs /\ Exists(worlds, place[p].ref)
    BY RoomsFacts DEF PlaceType, NobodyIsNowhere, Whereabouts
  <1>2. Transferred[p] = IF Granted(p) THEN [place[p] EXCEPT !.ref = chosen[3]] ELSE place[p]
    BY DEF Transferred
  <1>3. CASE Granted(p)
    <2>1. PICK d \in deferred : d[1] = p /\ Movable(p) /\ Exists(worlds, d[3])
      BY <1>3 DEF Granted
    <2>2. chosen \in deferred /\ chosen[1] = p
      BY <2>1
    <2>3. chosen = d
      BY <2>1, <2>2, RoomsFacts DEF OneMoveEach
    <2>4. chosen[3] \in WorldRefs /\ Exists(worlds, chosen[3]) /\ place[p].is # "due"
      BY <2>1, <2>3, RoomsFacts DEF DeferredType, Movable
    <2> HIDE DEF chosen
    <2>5. Transferred[p] = [place[p] EXCEPT !.ref = chosen[3]]
      BY <1>2, <1>3
    <2> QED
      BY <1>1, <2>4, <2>5 DEF Whereabouts
  <1>4. CASE ~Granted(p)
    BY <1>1, <1>2, <1>4
  <1> QED
    BY <1>3, <1>4

\* The worlds that a tick closes.
Closed(at) ==
  ({rooms[c].waiting[1] : c \in {c \in Retired(at) \cup Abandoned(at) : rooms[c].waiting # NoWorld}}
     \cup {rooms[c].active[1] : c \in Abandoned(at)}) \ {mainRef[1]}

\* They are the worlds of rooms, and nobody alive or dead is in them.
LEMMA ClosedAreEmpty ==
  ASSUME RoomsInv, NEW i \in Closed(Transferred)
  PROVE  \E c \in Codes, r \in WorldRefs :
           /\ r \in {rooms[c].active, rooms[c].waiting} /\ r # NoWorld /\ r[1] = i
           /\ Exists(worlds, r) /\ Present(Transferred, r) = {}
           /\ c \in Abandoned(Transferred) \/ (c \in Retired(Transferred) /\ r = rooms[c].waiting)
  <1>1. PICK c \in Codes : \/ c \in Abandoned(Transferred) /\ rooms[c].active # NoWorld /\ i = rooms[c].active[1]
                           \/ c \in Abandoned(Transferred) /\ rooms[c].waiting # NoWorld /\ i = rooms[c].waiting[1]
                           \/ c \in Retired(Transferred) /\ rooms[c].waiting # NoWorld /\ i = rooms[c].waiting[1]
    BY DEF Closed, Abandoned, Retired
  <1>2. /\ rooms[c].active # NoWorld => rooms[c].active \in WorldRefs /\ Exists(worlds, rooms[c].active)
        /\ rooms[c].waiting # NoWorld => rooms[c].waiting \in WorldRefs /\ Exists(worlds, rooms[c].waiting)
    BY RoomsFacts
  <1>3. CASE c \in Retired(Transferred) /\ rooms[c].waiting # NoWorld /\ i = rooms[c].waiting[1]
    <2>1. Present(Transferred, rooms[c].waiting) = {}
      BY <1>3 DEF Retired
    <2> QED
      BY <1>2, <1>3, <2>1
  <1>4. CASE c \in Abandoned(Transferred)
    <2>1. PlayersInRoom(Transferred, c) = {}
      <3>1. Idle(Transferred, c) >= IdleLimit
        BY <1>4 DEF Abandoned
      <3> QED
        BY <3>1, RoomsAssumption DEF Idle
    <2>2. Present(Transferred, rooms[c].active) = {} /\ Present(Transferred, rooms[c].waiting) = {}
      BY <2>1 DEF PlayersInRoom
    <2> QED
      BY <1>1, <1>2, <1>4, <2>2
  <1> QED
    BY <1>1, <1>3, <1>4

LEMMA EndTickFacts ==
  ASSUME EndTick
  PROVE  /\ worlds' = Without(worlds, Closed(Transferred))
         /\ place' = Evicted(Transferred, Closed(Transferred))
         /\ rooms' = [c \in Codes |-> Updated(Transferred, c)]
         /\ unticked' = NoWorld /\ deferred' = {} /\ UNCHANGED <<built, mainRef>>
  BY DEF EndTick, Closed

LEMMA EndTickKeeps == ASSUME RoomsInv, EndTick PROVE RoomsInv'
  <1> DEFINE at == Transferred
             doomed == Closed(at)
  <1>1. /\ worlds' = Without(worlds, doomed) /\ place' = Evicted(at, doomed)
        /\ rooms' = [c \in Codes |-> Updated(at, c)]
        /\ unticked' = NoWorld /\ deferred' = {} /\ UNCHANGED <<built, mainRef>>
    BY EndTickFacts
  <1>2. mainRef[1] \notin doomed
    BY DEF Closed
  <1>3. /\ place' \in PlaceType
        /\ \A p \in Guests : IF place'[p].is = "due" THEN place'[p].ref = NoWorld
                             ELSE Exists(worlds, place'[p].ref) /\ place'[p].ref[1] \notin doomed
    <2>1. \A p \in Guests : /\ at[p] \in Whereabouts
                            /\ IF at[p].is = "due" THEN at[p].ref = NoWorld ELSE Exists(worlds, at[p].ref)
      BY TransfersArrive
    <2> HIDE DEF at, doomed
    <2> QED
      BY <1>1, <2>1, EvictionKeeps
  <1>4. \A i \in doomed : \E c \in Codes, r \in WorldRefs :
           /\ r \in {rooms[c].active, rooms[c].waiting} /\ r # NoWorld /\ r[1] = i
           /\ Exists(worlds, r)
           /\ c \in Abandoned(at) \/ (c \in Retired(at) /\ r = rooms[c].waiting)
    BY ClosedAreEmpty
  <1>5. \A c \in Codes : /\ c \in Abandoned(at) => /\ rooms[c].active # NoWorld /\ rooms[c].active[1] \in doomed
                                                   /\ rooms[c].waiting # NoWorld => rooms[c].waiting[1] \in doomed
                         /\ c \in Retired(at) => /\ rooms[c].waiting # NoWorld /\ rooms[c].waiting # rooms[c].active
                                                 /\ rooms[c].waiting[1] \in doomed
    <2> SUFFICES ASSUME NEW c \in Codes
                 PROVE /\ c \in Abandoned(at) => /\ rooms[c].active # NoWorld /\ rooms[c].active[1] \in doomed
                                                 /\ rooms[c].waiting # NoWorld => rooms[c].waiting[1] \in doomed
                       /\ c \in Retired(at) => /\ rooms[c].waiting # NoWorld /\ rooms[c].waiting # rooms[c].active
                                               /\ rooms[c].waiting[1] \in doomed
      OBVIOUS
    <2>1. /\ rooms[c].active # NoWorld => rooms[c].active[1] # mainRef[1]
          /\ rooms[c].waiting # NoWorld => rooms[c].waiting[1] # mainRef[1]
      BY NotTheMainWorld
    <2>2. c \in Abandoned(at) => rooms[c].active # NoWorld
      BY DEF Abandoned
    <2>3. c \in Retired(at) => rooms[c].waiting # NoWorld /\ rooms[c].waiting # rooms[c].active
      BY DEF Retired, Separate
    <2> QED
      BY <2>1, <2>2, <2>3 DEF Closed
  <1>6. ASSUME NEW c \in Codes
        PROVE  /\ Updated(at, c) \in RoomType
               /\ rooms[c].active = NoWorld => Updated(at, c) = rooms[c] /\ rooms[c].waiting = NoWorld
               /\ rooms[c].active # NoWorld /\ c \in Abandoned(at) => Updated(at, c) = NoRoom
               /\ rooms[c].active # NoWorld /\ c \notin Abandoned(at) =>
                    /\ Updated(at, c).active = rooms[c].active
                    /\ Updated(at, c).waiting = IF c \in Retired(at) THEN NoWorld ELSE rooms[c].waiting
    <2>1. rooms[c] \in RoomType /\ (rooms[c].active = NoWorld => rooms[c].waiting = NoWorld)
      BY RoomsFacts DEF RoomsHaveGames
    <2>2. NoRoom \in RoomType
      BY RoomsAssumption DEF NoRoom, RoomType
    <2>3. ASSUME rooms[c].active # NoWorld, c \notin Abandoned(at)
          PROVE  Idle(at, c) \in 0..IdleLimit
      <3>1. ~(Idle(at, c) >= IdleLimit)
        BY <2>3 DEF Abandoned
      <3>2. Idle(at, c) \in Nat
        BY <2>1, RoomsAssumption DEF Idle, RoomType
      <3> QED
        BY <3>1, <3>2, RoomsAssumption
    <2> HIDE DEF at
    <2>4. CASE rooms[c].active # NoWorld /\ c \notin Abandoned(at)
      <3>1. Updated(at, c) = [rooms[c] EXCEPT !.idle = Idle(at, c),
                                              !.waiting = IF c \in Retired(at) THEN NoWorld ELSE @]
        BY <2>4 DEF Updated
      <3> QED
        BY <2>1, <2>3, <2>4, <3>1 DEF RoomType
    <2>5. CASE ~(rooms[c].active # NoWorld /\ c \notin Abandoned(at))
      BY <2>1, <2>2, <2>5 DEF Updated
    <2> QED
      BY <2>4, <2>5
  <1>7. rooms' \in [Codes -> RoomType]
    BY <1>1, <1>6
  <1> HIDE DEF at, doomed
  <1>8. ASSUME NEW c \in Codes
        PROVE /\ rooms'[c].active \in {rooms[c].active, NoWorld}
              /\ rooms'[c].waiting \in {rooms[c].waiting, NoWorld}
              /\ rooms'[c].active = NoWorld => rooms'[c].waiting = NoWorld
              /\ rooms'[c].active # NoWorld => rooms'[c].active[1] \notin doomed
              /\ rooms'[c].waiting # NoWorld => rooms'[c].waiting[1] \notin doomed
              /\ rooms'[c].active # rooms[c].active /\ rooms[c].waiting # NoWorld =>
                               rooms[c].waiting[1] \in doomed
              /\ rooms'[c].waiting # rooms[c].waiting => rooms[c].waiting[1] \in doomed
    <2>0. rooms'[c] = Updated(at, c)
      BY <1>1
    <2>1. CASE rooms[c].active = NoWorld
      BY <1>6, <2>0, <2>1
    <2>2. CASE rooms[c].active # NoWorld /\ c \in Abandoned(at)
      <3>1. rooms'[c].active = NoWorld /\ rooms'[c].waiting = NoWorld
        BY <1>6, <2>0, <2>2 DEF NoRoom
      <3> QED
        BY <1>5, <2>2, <3>1
    <2>3. CASE rooms[c].active # NoWorld /\ c \notin Abandoned(at)
      <3>1. /\ rooms'[c].active = rooms[c].active
            /\ rooms'[c].waiting = IF c \in Retired(at) THEN NoWorld ELSE rooms[c].waiting
        BY <1>6, <2>0, <2>3
      <3>2. ASSUME NEW r \in {rooms[c].active, rooms[c].waiting} \ {NoWorld}, c \in Retired(at) => r # rooms[c].waiting
            PROVE  r[1] \notin doomed
        <4> SUFFICES ASSUME r[1] \in doomed PROVE FALSE
          OBVIOUS
        <4>1. PICK d \in Codes, s \in WorldRefs :
                /\ s \in {rooms[d].active, rooms[d].waiting} /\ s # NoWorld /\ s[1] = r[1]
                /\ Exists(worlds, s)
                /\ d \in Abandoned(at) \/ (d \in Retired(at) /\ s = rooms[d].waiting)
          BY <1>4
        <4>2. d = c
          BY <4>1, OtherRooms
        <4>3. s = rooms[c].waiting /\ c \in Retired(at)
          BY <2>3, <4>1, <4>2
        <4>4. r = s
          <5>1. r \in WorldRefs /\ Exists(worlds, r)
            BY RoomsFacts
          <5> QED
            BY <4>1, <5>1, OneRefPerWorld
        <4> QED
          BY <3>2, <4>3, <4>4
      <3>3. rooms'[c].active[1] \notin doomed
        BY <1>5, <2>3, <3>1, <3>2
      <3>4. rooms'[c].waiting # NoWorld => rooms'[c].waiting[1] \notin doomed
        BY <3>1, <3>2
      <3> QED
        BY <1>5, <2>3, <3>1, <3>3, <3>4
    <2> QED
      BY <2>1, <2>2, <2>3
  <1>9. deferred' \in DeferredType /\ OneMoveEach' /\ UntickedLive'
    BY <1>1 DEF DeferredType, OneMoveEach, UntickedLive, Simulating
  <1> QED
    BY <1>1, <1>2, <1>3, <1>7, <1>8, <1>9, ClosingKeeps

LEMMA RoomsInvStep == RoomsInv /\ [RoomsNext]_roomVars => RoomsInv'
  <1> SUFFICES ASSUME RoomsInv, [RoomsNext]_roomVars PROVE RoomsInv'
    OBVIOUS
  <1>1. ASSUME NEW p \in Guests, NEW c \in Codes, CreateRoom(p, c) \/ JoinRoom(p, c) PROVE RoomsInv'
    BY <1>1, CreateRoomKeeps, JoinRoomKeeps
  <1>2. ASSUME NEW p \in Guests, Start(p) \/ RespawnPlayer(p) PROVE RoomsInv'
    BY <1>2, StartKeeps, RespawnKeeps
  <1>3. ASSUME NEW p \in Guests, NEW auto \in BOOLEAN, SetPolicy(p, auto) PROVE RoomsInv'
    BY <1>3, SetPolicyKeeps
  <1>4. ASSUME NEW p \in Guests, NEW id \in WorldIds, Portal(p, id) PROVE RoomsInv'
    BY <1>4, PortalKeeps
  <1>5. ASSUME NEW p \in Guests, FlowerDies(p) \/ MarkEntity(p) \/ RemoveMarked(p) PROVE RoomsInv'
    BY <1>5, BecomesKeeps DEF FlowerDies, MarkEntity, RemoveMarked
  <1>6. ASSUME NEW id \in WorldIds, SetMainWorld(id) \/ DestroyWorldById(id) \/ TickWorld(id) PROVE RoomsInv'
    BY <1>6, SetMainWorldKeeps, DestroyKeeps, TickWorldKeeps
  <1>7. ASSUME NEW id \in WorldIds, SetController(id, Open) \/ SetController(id, Waits) PROVE RoomsInv'
    BY <1>7, SetControllerKeeps
  <1>8. CASE CreateWorld(Open) \/ CreateWorld(Waits)
    BY <1>8, CreateWorldKeeps
  <1>9. CASE BeginTick \/ EndTick
    BY <1>9, BeginTickKeeps, EndTickKeeps
  <1>10. CASE UNCHANGED roomVars
    BY <1>10 DEF roomVars, RoomsInv, RoomsTypeOK, RoomsAreSound, RoomsAreApart, NobodyIsNowhere, RoomsHaveGames,
         OneMoveEach, UntickedLive, Simulating
  <1> QED
    BY <1>1, <1>2, <1>3, <1>4, <1>5, <1>6, <1>7, <1>8, <1>9, <1>10 DEF RoomsNext

\* The worlds, the rooms and the players are what they are declared to be, at
\* every moment and for any numbers of rooms, worlds and players.
THEOREM RoomsTypeCorrect == RoomsSpec => []RoomsTypeOK
  <1>1. RoomsInv => RoomsTypeOK
    BY DEF RoomsInv
  <1> QED
    BY <1>1, RoomsInvInit, RoomsInvStep, PTL DEF RoomsSpec

\* Every room has its worlds for itself and the waiting world of a room leads to
\* that room's game, although ids are used again; nobody is in a world that
\* does not exist (ValidateTopology of what CaptureTopology writes).
THEOREM RoomsStaySound == RoomsSpec => []RoomsAreSound
  <1>1. RoomsInv => RoomsAreSound
    BY DEF RoomsInv
  <1> QED
    BY <1>1, RoomsInvInit, RoomsInvStep, PTL DEF RoomsSpec

\* A tick takes the world from under nobody: what it closes is empty, after the
\* moves that waited for its end (UpdateRoomLifecycle after
\* CommitWorldTransfers).
THEOREM TicksKeepPlayers == RoomsSpec => PlayersKeepTheirWorld
  <1>1. RoomsInv /\ [RoomsNext]_roomVars =>
          [Simulating => \A p \in Guests : place'[p].is = "due" => place[p].is \notin {"alive", "dead"}]_roomVars
    <2> SUFFICES ASSUME RoomsInv, RoomsNext, Simulating, NEW p \in Guests, place'[p].is = "due"
                 PROVE  place[p].is \notin {"alive", "dead"}
      OBVIOUS
    <2>1. CASE EndTick
      <3> SUFFICES ASSUME place[p].is \in {"alive", "dead"} PROVE FALSE
        OBVIOUS
      <3> DEFINE at == Transferred
      <3>1. /\ at[p].is = place[p].is /\ at[p].ref \in WorldRefs /\ Exists(worlds, at[p].ref)
        BY TransfersArrive
      <3>2. place' = Evicted(at, Closed(at))
        BY <2>1, EndTickFacts
      <3>3. \A r \in WorldRefs : Exists(worlds, r) /\ r[1] \in Closed(at) => Present(at, r) = {}
        BY ClosedAreEmpty, OneRefPerWorld
      <3> HIDE DEF at
      <3>4. at[p].ref[1] \in Closed(at)
        BY <2>1, <3>1, <3>2 DEF Evicted
      <3>5. p \in Present(at, at[p].ref)
        BY <3>1, RoomsAssumption DEF Present
      <3> QED
        BY <3>1, <3>3, <3>4, <3>5
    <2>2. CASE ~EndTick
      <3>1. \/ place' = place
            \/ \E q \in Guests, after \in {"dead", "marked", "removed"} :
                 place' = [place EXCEPT ![q].is = after] /\ (place[p].is = "due" => q # p)
        BY <2>2 DEF RoomsNext, CreateRoom, JoinRoom, Start, RespawnPlayer, SetPolicy, Portal, FlowerDies, MarkEntity,
             RemoveMarked, Becomes, SetMainWorld, DestroyWorldById, TickWorld, SetController, CreateWorld, BeginTick
      <3>2. place \in PlaceType
        BY RoomsFacts
      <3> QED
        BY <3>1, <3>2 DEF PlaceType
    <2> QED
      BY <2>1, <2>2
  <1> QED
    BY <1>1, RoomsInvInit, RoomsInvStep, PTL DEF RoomsSpec, PlayersKeepTheirWorld

-----------------------------------------------------------------------------
(* Squads. The squads that the index shows to those in it are kept, through   *)
(* every command, as the bands that players agreed on; an index nobody has    *)
(* refreshed shows of each squad only those who are still who they were.      *)

\* The session that an entry of the index was made for, who shares a root, and
\* the sessions of all entries.
Record(m, id) == <<id, m[id].generation>>
InSquad(m, r) == {id \in PlayerIds : m[id] # NoSquad /\ m[id].root = r}
Group(m, r) == {Record(m, id) : id \in InSquad(m, r)}
Recorded(m) == {Record(m, id) : id \in {id \in PlayerIds : m[id] # NoSquad}}

\* The root of a squad is in it, and squads are small.
RootsAreMembers(m) == \A id \in PlayerIds : m[id] # NoSquad => m[id].root \in InSquad(m, m[id].root)
SquadsAreSmall(m) == \A r \in PlayerIds : IsFiniteSet(InSquad(m, r)) /\ Cardinality(InSquad(m, r)) <= maxSquad

\* Every band is a squad of the index, and every squad of more than one a band.
BandsAreSquads(m, b) == \A band \in b : \E id \in PlayerIds : m[id] # NoSquad /\ band = Group(m, m[id].root)
SquadsAreBands(m, b) == \A id \in PlayerIds : m[id] # NoSquad => Group(m, m[id].root) \in b \cup {{Record(m, id)}}

MembershipType == [PlayerIds -> Memberships \cup {NoSquad}]
Agreed(m, b) ==
  /\ m \in MembershipType /\ RootsAreMembers(m) /\ SquadsAreSmall(m)
  /\ BandsAreSquads(m, b) /\ SquadsAreBands(m, b)

\* What was agreed on is in the index, and the cache is that of the index.
SquadInv ==
  /\ SquadsTypeOK /\ Agreed(membership, bands)
  /\ lastActive # NoSquad => lastActive = Recorded(membership)

\* An index that has just been refreshed.
Current(m) ==
  \A id \in PlayerIds : /\ m[id] # NoSquad <=> InWorld(id)
                        /\ m[id] # NoSquad => m[id].generation = session[id].generation

-----------------------------------------------------------------------------
\* Min of a nonempty set of numbers is in it.
LEMMA LeastOf ==
  ASSUME NEW S \in SUBSET PlayerIds, S # {}
  PROVE  Min(S) \in S
  <1>0. S \subseteq Nat
    BY SquadsAssumption
  <1>1. PICK x \in S : \A y \in S : ~ (<<y, x>> \in OpToRel(<, Nat))
    BY <1>0, NatLessThanWellFounded, WFMin
  <1>2. \A y \in S : ~ (y < x)
    BY <1>0, <1>1 DEF OpToRel
  <1>3. \A y \in S : x <= y
    BY <1>0, <1>2
  <1> QED
    BY <1>3 DEF Min

LEMMA RecordsDiffer ==
  ASSUME NEW m, NEW n, NEW p, NEW q, Record(m, p) = Record(n, q)
  PROVE  p = q
  BY DEF Record

\* A session of a record belongs to the squad of its id only.
LEMMA InGroup ==
  ASSUME NEW m, NEW n, NEW r, NEW id
  PROVE  Record(n, id) \in Group(m, r) <=> id \in InSquad(m, r) /\ Record(n, id) = Record(m, id)
  BY RecordsDiffer DEF Group

\* The squads that an index shows are the bands its players agreed on.
LEMMA BandIsSquad ==
  ASSUME NEW m, NEW b, Agreed(m, b), NEW id \in PlayerIds, m[id] # NoSquad
  PROVE  BandOf(b, Record(m, id)) = Group(m, m[id].root)
  <1> DEFINE s == Record(m, id)  g == Group(m, m[id].root)
  <1>1. s \in g
    BY InGroup DEF InSquad
  <1>2. g \in b \/ g = {s}
    BY DEF Agreed, SquadsAreBands
  <1>3. \A band \in b : s \in band => band = g
    <2> SUFFICES ASSUME NEW band \in b, s \in band PROVE band = g
      OBVIOUS
    <2>1. PICK q \in PlayerIds : m[q] # NoSquad /\ band = Group(m, m[q].root)
      BY DEF Agreed, BandsAreSquads
    <2>2. id \in InSquad(m, m[q].root)
      BY <2>1, InGroup
    <2> QED
      BY <2>1, <2>2 DEF InSquad
  <1> HIDE DEF s, g
  <1>4. BandOf(b, s) = g
    BY <1>1, <1>2, <1>3 DEF BandOf
  <1> QED
    BY <1>4 DEF s, g

\* Who is not in the index as it is now is in no band.
LEMMA NoBand ==
  ASSUME NEW m, NEW b, Agreed(m, b), NEW id \in PlayerIds,
         m[id] = NoSquad \/ Record(m, id) # Session(id)
  PROVE  BandOf(b, Session(id)) = {Session(id)}
  <1>1. ASSUME NEW band \in b, Session(id) \in band PROVE FALSE
    <2>1. PICK q \in PlayerIds : m[q] # NoSquad /\ band = Group(m, m[q].root)
      BY DEF Agreed, BandsAreSquads
    <2>2. PICK p \in InSquad(m, m[q].root) : Session(id) = Record(m, p)
      BY <1>1, <2>1 DEF Group
    <2>3. p = id /\ m[p] # NoSquad
      BY <2>2 DEF Session, Record, InSquad
    <2> QED
      BY <2>2, <2>3
  <1> QED
    BY <1>1 DEF BandOf

-----------------------------------------------------------------------------
\* The members of a player's squad, and the root they answer to.
LEMMA MembersAre ==
  ASSUME SquadInv, NEW id \in PlayerIds, InWorld(id)
  PROVE  /\ Members(id) = IF membership[id] # NoSquad /\ Record(membership, id) = Session(id)
                            THEN {p \in InSquad(membership, membership[id].root) :
                                    InWorld(p) /\ Record(membership, p) = Session(p)}
                            ELSE {id}
         /\ RootId(id) \in Members(id)
  <1> DEFINE m == membership
  <1>a. Agreed(m, bands) /\ membership \in MembershipType
    BY DEF SquadInv, Agreed
  <1>b. \A p \in PlayerIds : (m[p] # NoSquad /\ m[p].generation = session[p].generation) <=>
                             (m[p] # NoSquad /\ Record(m, p) = Session(p))
    BY DEF Record, Session
  <1>1. ASSUME NEW r PROVE MemberIds(m, r) = {p \in InSquad(m, r) : InWorld(p) /\ Record(m, p) = Session(p)}
    BY <1>b DEF MemberIds, InSquad, ResolvesId, Root
  <1>2. CASE m[id] # NoSquad /\ Record(m, id) = Session(id)
    <2> DEFINE r == m[id].root
    <2>1. ResolvesId(m, id) /\ Root(m, id) = r
      BY <1>b, <1>2 DEF ResolvesId, Root
    <2>2. id \in InSquad(m, r)
      BY <1>2 DEF InSquad
    <2>3. Members(id) = MemberIds(m, r)
      BY <1>2, <2>1 DEF Members
    <2>4. id \in MemberIds(m, r) /\ MemberIds(m, r) \in SUBSET PlayerIds
      BY <1>1, <1>2, <2>2 DEF InSquad
    <2>5. RootId(id) = IF r \in MemberIds(m, r) THEN r ELSE Min(MemberIds(m, r))
      BY <2>1, <2>4 DEF RootId
    <2>6. Min(MemberIds(m, r)) \in MemberIds(m, r)
      BY <2>4, LeastOf
    <2> QED
      BY <1>1, <1>2, <2>3, <2>5, <2>6
  <1>3. CASE m[id] # NoSquad /\ Record(m, id) # Session(id)
    <2>1. ~ResolvesId(m, id)
      BY <1>b, <1>3 DEF ResolvesId
    <2> QED
      BY <1>3, <2>1 DEF Members, RootId
  <1>4. CASE m[id] = NoSquad
    <2>1. Root(m, id) = id /\ Members(id) = {id}
      BY <1>4 DEF Root, Members
    <2>2. InSquad(m, id) = {}
      BY <1>4, <1>a DEF InSquad, Agreed, RootsAreMembers
    <2>3. MemberIds(m, id) = {}
      BY <1>1, <2>2
    <2>4. RootId(id) = id
      BY <2>1, <2>3 DEF RootId
    <2> QED
      BY <1>4, <2>1, <2>4
  <1> QED
    BY <1>2, <1>3, <1>4

\* Whoever answers to the same root is in the same squad.
LEMMA RootsTellSquads ==
  ASSUME SquadInv, NEW id \in PlayerIds, InWorld(id), NEW p \in PlayerIds, InWorld(p)
  PROVE  RootId(p) = RootId(id) <=> p \in Members(id)
  <1> DEFINE m == membership
             Found(x) == m[x] # NoSquad /\ Record(m, x) = Session(x)
             Of(r) == {x \in InSquad(m, r) : InWorld(x) /\ Record(m, x) = Session(x)}
  <1>1. \A x \in {p, id} : /\ RootId(x) \in Members(x)
                           /\ Found(x) => Members(x) = Of(m[x].root)
                           /\ ~Found(x) => Members(x) = {x}
    BY MembersAre
  <1>2. \A r, x : x \in Of(r) => x \in PlayerIds /\ Found(x) /\ m[x].root = r
    BY DEF InSquad
  <1>3. ASSUME RootId(p) = RootId(id) PROVE p \in Members(id)
    <2> DEFINE x == RootId(p)
    <2>1. x \in Members(p) /\ x \in Members(id)
      BY <1>1, <1>3
    <2>2. CASE Found(p) /\ Found(id)
      <3>1. m[p].root = m[id].root
        BY <1>1, <1>2, <2>1, <2>2
      <3> QED
        BY <1>1, <2>2, <3>1 DEF InSquad
    <2>3. CASE ~Found(p)
      BY <1>1, <2>1, <2>3
    <2>4. CASE ~Found(id) /\ Found(p)
      BY <1>1, <1>2, <2>1, <2>4
    <2> QED
      BY <2>2, <2>3, <2>4
  <1>4. ASSUME p \in Members(id) PROVE RootId(p) = RootId(id)
    <2>1. CASE Found(id)
      <3>1. Found(p) /\ m[p].root = m[id].root
        BY <1>1, <1>2, <1>4, <2>1
      <3>2. ResolvesId(m, p) /\ ResolvesId(m, id) /\ Root(m, p) = Root(m, id)
        BY <2>1, <3>1 DEF ResolvesId, Root, Record, Session
      <3>3. MemberIds(m, Root(m, id)) # {}
        BY <2>1, <3>2 DEF MemberIds
      <3> QED
        BY <3>2, <3>3 DEF RootId
    <2>2. CASE ~Found(id)
      BY <1>1, <1>4, <2>2
    <2> QED
      BY <2>1, <2>2
  <1> QED
    BY <1>3, <1>4

\* The invariant is strong enough.
LEMMA SquadsFollow == SquadInv => SquadsAreAgreedOn
  <1> SUFFICES ASSUME SquadInv, NEW id \in PlayerIds, InWorld(id)
               PROVE  /\ Members(id) = {p \in PlayerIds : InWorld(p) /\ Session(p) \in BandOf(bands, Session(id))}
                      /\ Cardinality(Members(id)) <= maxSquad
                      /\ \A p \in PlayerIds : InWorld(p) => (RootId(p) = RootId(id) <=> p \in Members(id))
    BY DEF SquadsAreAgreedOn
  <1> DEFINE m == membership
  <1>a. Agreed(m, bands) /\ maxSquad \in Nat \ {0}
    BY SquadsAssumption DEF SquadInv, SquadsTypeOK
  <1>1. CASE m[id] # NoSquad /\ Record(m, id) = Session(id)
    <2> DEFINE r == m[id].root
    <2>1. BandOf(bands, Session(id)) = Group(m, r)
      BY <1>a, <1>1, BandIsSquad
    <2>2. Members(id) = {p \in InSquad(m, r) : InWorld(p) /\ Record(m, p) = Session(p)}
      BY <1>1, MembersAre
    <2>3. \A p \in PlayerIds : Session(p) \in Group(m, r) <=> p \in InSquad(m, r) /\ Session(p) = Record(m, p)
      BY DEF Group, InSquad, Session, Record
    <2>4. r \in PlayerIds
      BY <1>a, <1>1 DEF Agreed, MembershipType, Memberships
    <2>5. IsFiniteSet(InSquad(m, r)) /\ Cardinality(InSquad(m, r)) <= maxSquad
      BY <1>a, <2>4 DEF Agreed, SquadsAreSmall
    <2>6. Members(id) \in SUBSET InSquad(m, r) /\ InSquad(m, r) \subseteq PlayerIds
      BY <2>2 DEF InSquad
    <2>7. /\ Cardinality(Members(id)) <= Cardinality(InSquad(m, r))
          /\ Cardinality(Members(id)) \in Nat /\ Cardinality(InSquad(m, r)) \in Nat
      BY <2>5, <2>6, FS_Subset, FS_CardinalityType
    <2>8. Cardinality(Members(id)) <= maxSquad
      BY <1>a, <2>5, <2>7
    <2>9. Members(id) = {p \in PlayerIds : InWorld(p) /\ Session(p) \in BandOf(bands, Session(id))}
      BY <2>1, <2>2, <2>3, <2>6
    <2> QED
      BY <2>8, <2>9, RootsTellSquads
  <1>2. CASE ~(m[id] # NoSquad /\ Record(m, id) = Session(id))
    <2>1. BandOf(bands, Session(id)) = {Session(id)}
      BY <1>a, <1>2, NoBand
    <2>2. Members(id) = {id}
      BY <1>2, MembersAre
    <2>3. Cardinality(Members(id)) = 1
      BY <2>2, FS_Singleton
    <2>4. \A p \in PlayerIds : Session(p) = Session(id) => p = id
      BY DEF Session
    <2>5. Members(id) = {p \in PlayerIds : InWorld(p) /\ Session(p) \in BandOf(bands, Session(id))}
      BY <2>1, <2>2, <2>4
    <2> QED
      BY <1>a, <2>3, <2>5, RootsTellSquads
  <1> QED
    BY <1>1, <1>2

\* What the invariant says, ready to use.
LEMMA SquadFacts ==
  ASSUME SquadInv
  PROVE  /\ maxSquad \in SquadLimits /\ maxSquad \in Nat \ {0}
         /\ session \in [PlayerIds -> [generation : 1..MaxSessions, here : BOOLEAN]]
         /\ membership \in MembershipType /\ Agreed(membership, bands)
         /\ invites \subseteq [inviter : Sessions, invitee : Sessions]
         /\ \A id \in PlayerIds : Session(id) \in Sessions
         /\ Active \subseteq Sessions /\ NoSquad # Active
  <1>1. /\ maxSquad \in SquadLimits /\ maxSquad \in Nat \ {0}
        /\ session \in [PlayerIds -> [generation : 1..MaxSessions, here : BOOLEAN]]
        /\ membership \in MembershipType /\ Agreed(membership, bands)
        /\ invites \subseteq [inviter : Sessions, invitee : Sessions]
    BY SquadsAssumption DEF SquadInv, SquadsTypeOK, MembershipType
  <1>2. \A id \in PlayerIds : Session(id) \in Sessions
    BY <1>1 DEF Session, Sessions
  <1>3. Active \in SUBSET Sessions
    BY <1>2 DEF Active
  <1> QED
    BY <1>1, <1>2, <1>3, SquadsAssumption

\* What the index and the bands say of sessions is typed.
LEMMA AgreedBandsTyped ==
  ASSUME NEW m, NEW b, Agreed(m, b)
  PROVE  \A band \in b : band \subseteq Sessions
  <1>1. \A id \in PlayerIds : m[id] # NoSquad => Record(m, id) \in Sessions
    BY DEF Agreed, MembershipType, Memberships, Record, Sessions
  <1>2. \A r : Group(m, r) \subseteq Sessions
    BY <1>1 DEF Group, InSquad
  <1> QED
    BY <1>2 DEF Agreed, BandsAreSquads

\* A refreshed index shows exactly who is in the world.
LEMMA CurrentIsActive ==
  ASSUME NEW m, Current(m) PROVE Recorded(m) = Active
  BY DEF Current, Recorded, Active, Record, Session

LEMMA ActiveIsCurrent ==
  ASSUME NEW m, Recorded(m) = Active PROVE Current(m)
  <1> SUFFICES ASSUME NEW id \in PlayerIds
               PROVE  /\ m[id] # NoSquad <=> InWorld(id)
                      /\ m[id] # NoSquad => m[id].generation = session[id].generation
    BY DEF Current
  <1>1. m[id] # NoSquad => InWorld(id) /\ m[id].generation = session[id].generation
    <2> SUFFICES ASSUME m[id] # NoSquad PROVE InWorld(id) /\ m[id].generation = session[id].generation
      OBVIOUS
    <2>1. Record(m, id) \in Active
      BY DEF Recorded
    <2>2. PICK q \in PlayerIds : InWorld(q) /\ Record(m, id) = Session(q)
      BY <2>1 DEF Active
    <2> QED
      BY <2>2 DEF Record, Session
  <1>2. InWorld(id) => m[id] # NoSquad
    <2> SUFFICES ASSUME InWorld(id) PROVE m[id] # NoSquad
      OBVIOUS
    <2>1. Session(id) \in Recorded(m)
      BY DEF Active
    <2>2. PICK q \in PlayerIds : m[q] # NoSquad /\ Record(m, q) = Session(id)
      BY <2>1 DEF Recorded
    <2> QED
      BY <2>2 DEF Record, Session
  <1> QED
    BY <1>1, <1>2

-----------------------------------------------------------------------------
\* Refresh regroups who is still there, each squad under a root of its own, and
\* takes the others from their bands.
LEMMA RegroupedRoots ==
  ASSUME SquadInv
  PROVE  /\ \A id \in PlayerIds : Known(id) => id \in Component(Root(membership, id))
         /\ \A r : Component(r) # {} => NewRoot(r) \in Component(r)
         /\ \A r : Component(r) \in SUBSET PlayerIds
         /\ \A r, id : id \in Component(r) => Known(id) /\ membership[id].root = r /\ id \in PlayerIds
                                              /\ membership[id] # NoSquad
  <1>1. \A r : Component(r) \in SUBSET PlayerIds
    BY DEF Component
  <1>2. \A r : Component(r) # {} => Min(Component(r)) \in Component(r)
    BY <1>1, LeastOf
  <1> QED
    BY <1>1, <1>2 DEF Component, NewRoot, Known, Root

LEMMA RegroupedIs ==
  ASSUME SquadInv, NEW id \in PlayerIds
  PROVE  /\ ~InWorld(id) => Regrouped[id] = NoSquad
         /\ InWorld(id) =>
              /\ Regrouped[id] # NoSquad /\ Regrouped[id] \in Memberships
              /\ Regrouped[id].generation = session[id].generation
              /\ Record(Regrouped, id) = Session(id)
              /\ Regrouped[id].root = IF Known(id) THEN NewRoot(membership[id].root) ELSE id
  <1>1. CASE ~InWorld(id)
    BY <1>1 DEF Regrouped
  <1>2. CASE InWorld(id)
    <2> DEFINE root == IF Known(id) THEN NewRoot(membership[id].root) ELSE id
               entry == [root |-> root, generation |-> session[id].generation]
    <2>1. root \in PlayerIds
      BY RegroupedRoots DEF Known, Root
    <2>2. Regrouped[id] = entry
      BY <1>2 DEF Regrouped, Single, Known, Root
    <2>3. entry \in Memberships
      BY <2>1, SquadFacts DEF Memberships
    <2>4. entry # NoSquad
      BY <2>3, SquadsAssumption
    <2>5. entry.root = root /\ entry.generation = session[id].generation
      OBVIOUS
    <2> HIDE DEF entry, root
    <2>6. Record(Regrouped, id) = Session(id)
      BY <2>2, <2>5 DEF Record, Session
    <2> QED
      BY <1>2, <2>2, <2>3, <2>4, <2>5, <2>6 DEF root
  <1> QED
    BY <1>1, <1>2

\* A squad goes on with those of it who are there; a new player is alone.
LEMMA RegroupedSquads ==
  ASSUME SquadInv, NEW id \in PlayerIds, InWorld(id)
  PROVE  LET new == Regrouped[id].root IN
         /\ Known(id) => InSquad(Regrouped, new) = Component(membership[id].root)
         /\ ~Known(id) => InSquad(Regrouped, new) = {id}
  <1> DEFINE new == Regrouped[id].root
  <1>0. \A q \in PlayerIds : Regrouped[q] # NoSquad <=> InWorld(q)
    BY RegroupedIs
  <1>k. \A q \in PlayerIds : Known(q) => InWorld(q) /\ q \in Component(membership[q].root)
    BY RegroupedRoots DEF Known, Root
  <1>1. CASE Known(id)
    <2> DEFINE r == membership[id].root
    <2>1. new = NewRoot(r) /\ new \in Component(r)
      BY <1>1, <1>k, RegroupedIs, RegroupedRoots
    <2>2. ASSUME NEW q \in InSquad(Regrouped, new) PROVE q \in Component(r)
      <3>1. q \in PlayerIds /\ InWorld(q) /\ Regrouped[q].root = new
        BY <1>0 DEF InSquad
      <3>2. CASE Known(q)
        <4>1. new = NewRoot(membership[q].root)
          BY <3>1, <3>2, RegroupedIs
        <4>2. new \in Component(membership[q].root) /\ q \in Component(membership[q].root)
          BY <1>k, <3>1, <3>2, <4>1, RegroupedRoots
        <4>3. membership[q].root = r
          BY <2>1, <4>2, RegroupedRoots
        <4> QED
          BY <4>2, <4>3
      <3>3. CASE ~Known(q)
        BY <2>1, <3>1, <3>3, RegroupedIs, RegroupedRoots
      <3> QED
        BY <3>2, <3>3
    <2>3. ASSUME NEW q \in Component(r) PROVE q \in InSquad(Regrouped, new)
      <3>1. q \in PlayerIds /\ Known(q) /\ membership[q].root = r /\ InWorld(q)
        BY RegroupedRoots, <1>k
      <3>2. Regrouped[q].root = NewRoot(r) /\ Regrouped[q] # NoSquad
        BY <3>1, RegroupedIs
      <3> QED
        BY <2>1, <3>1, <3>2 DEF InSquad
    <2> QED
      BY <1>1, <2>2, <2>3
  <1>2. CASE ~Known(id)
    <2>1. new = id /\ id \in InSquad(Regrouped, new)
      BY <1>2, RegroupedIs DEF InSquad
    <2>2. ASSUME NEW q \in InSquad(Regrouped, new) PROVE q = id
      <3>1. q \in PlayerIds /\ InWorld(q) /\ Regrouped[q].root = id
        BY <1>0, <2>1 DEF InSquad
      <3>2. CASE Known(q)
        <4>1. id = NewRoot(membership[q].root)
          BY <3>1, <3>2, RegroupedIs
        <4>2. id \in Component(membership[q].root)
          BY <1>k, <3>1, <3>2, <4>1, RegroupedRoots
        <4> QED
          BY <1>2, <4>2, RegroupedRoots
      <3>3. CASE ~Known(q)
        BY <3>1, <3>3, RegroupedIs
      <3> QED
        BY <3>2, <3>3
    <2> QED
      BY <1>2, <2>1, <2>2
  <1> QED
    BY <1>1, <1>2

LEMMA RegroupedGroups ==
  ASSUME SquadInv, NEW id \in PlayerIds, InWorld(id)
  PROVE  /\ Known(id) => /\ Group(Regrouped, Regrouped[id].root) = Group(membership, membership[id].root) \cap Active
                         /\ Session(id) \in Group(membership, membership[id].root)
         /\ ~Known(id) => Group(Regrouped, Regrouped[id].root) = {Session(id)}
  <1>1. CASE Known(id)
    <2> DEFINE r == membership[id].root
    <2>1. InSquad(Regrouped, Regrouped[id].root) = Component(r)
      BY <1>1, RegroupedSquads
    <2>2. \A q \in Component(r) : Record(Regrouped, q) = Session(q) /\ Record(membership, q) = Session(q)
                                  /\ q \in InSquad(membership, r) /\ InWorld(q) /\ q \in PlayerIds
      BY RegroupedIs DEF Component, Known, Record, Session, InSquad, Root
    <2>3. Group(Regrouped, Regrouped[id].root) = {Session(q) : q \in Component(r)}
      BY <2>1, <2>2 DEF Group
    <2>4. ASSUME NEW s \in Group(membership, r) \cap Active PROVE s \in {Session(q) : q \in Component(r)}
      <3>1. PICK q \in InSquad(membership, r) : s = Record(membership, q)
        BY DEF Group
      <3>2. PICK p \in PlayerIds : InWorld(p) /\ s = Session(p)
        BY DEF Active
      <3>3. p = q /\ membership[q].generation = session[q].generation
        BY <3>1, <3>2 DEF Record, Session
      <3>4. q \in Component(r)
        BY <3>1, <3>2, <3>3 DEF Component, Known, InSquad, Root
      <3> QED
        BY <3>2, <3>3, <3>4
    <2>5. ASSUME NEW q \in Component(r) PROVE Session(q) \in Group(membership, r) \cap Active
      BY <2>2 DEF Group, Active
    <2>6. id \in Component(r)
      BY <1>1, RegroupedRoots DEF Known, Root
    <2> QED
      BY <1>1, <2>3, <2>4, <2>5, <2>6
  <1>2. CASE ~Known(id)
    <2>1. InSquad(Regrouped, Regrouped[id].root) = {id} /\ Record(Regrouped, id) = Session(id)
      BY <1>2, RegroupedSquads, RegroupedIs
    <2> QED
      BY <1>2, <2>1 DEF Group
  <1> QED
    BY <1>1, <1>2

\* The regrouped index shows the bands of those who are still there.
LEMMA RegroupedAgreed ==
  ASSUME SquadInv
  PROVE  Agreed(Regrouped, {band \cap Active : band \in bands} \ {{}}) /\ Current(Regrouped)
  <1> DEFINE n == Regrouped
             b == {band \cap Active : band \in bands} \ {{}}
  <1>0. /\ Agreed(membership, bands) /\ maxSquad \in Nat \ {0}
        /\ \A id \in PlayerIds : InWorld(id) => Session(id) \in Active
    BY SquadFacts DEF Active
  <1>1. Current(n)
    BY RegroupedIs DEF Current
  <1>2. n \in MembershipType
    <2>1. \A id \in PlayerIds : n[id] \in Memberships \cup {NoSquad}
      BY RegroupedIs
    <2>2. n = [id \in PlayerIds |-> n[id]]
      BY DEF Regrouped
    <2> HIDE DEF n
    <2> QED
      BY <2>1, <2>2 DEF MembershipType
  <1>3. \A id \in PlayerIds : n[id] # NoSquad <=> InWorld(id)
    BY <1>1 DEF Current
  <1>4. \A id \in PlayerIds : InWorld(id) => Record(n, id) = Session(id)
    BY RegroupedIs
  <1>k. \A id \in PlayerIds : Known(id) => /\ InWorld(id) /\ membership[id] # NoSquad
                                           /\ id \in Component(membership[id].root)
    BY RegroupedRoots DEF Known, Root
  <1>5. RootsAreMembers(n)
    <2> SUFFICES ASSUME NEW id \in PlayerIds, InWorld(id) PROVE n[id].root \in InSquad(n, n[id].root)
      BY <1>3 DEF RootsAreMembers
    <2>1. CASE Known(id)
      <3>1. n[id].root = NewRoot(membership[id].root) /\ InSquad(n, n[id].root) = Component(membership[id].root)
        BY <2>1, RegroupedIs, RegroupedSquads
      <3> QED
        BY <1>k, <2>1, <3>1, RegroupedRoots
    <2>2. CASE ~Known(id)
      BY <2>2, RegroupedIs, RegroupedSquads
    <2> QED
      BY <2>1, <2>2
  <1>6. SquadsAreSmall(n)
    <2> SUFFICES ASSUME NEW r \in PlayerIds
                 PROVE IsFiniteSet(InSquad(n, r)) /\ Cardinality(InSquad(n, r)) <= maxSquad
      BY DEF SquadsAreSmall
    <2>1. CASE InSquad(n, r) = {}
      BY <1>0, <2>1, FS_EmptySet
    <2>2. ASSUME NEW q \in InSquad(n, r)
          PROVE  IsFiniteSet(InSquad(n, r)) /\ Cardinality(InSquad(n, r)) <= maxSquad
      <3>1. q \in PlayerIds /\ InWorld(q) /\ n[q].root = r
        BY <1>3 DEF InSquad
      <3>2. CASE Known(q)
        <4> DEFINE old == InSquad(membership, membership[q].root)
        <4>1. InSquad(n, r) = Component(membership[q].root)
          BY <3>1, <3>2, RegroupedSquads
        <4>2. InSquad(n, r) \in SUBSET old
          BY <4>1, RegroupedRoots DEF InSquad
        <4>3. membership[q].root \in PlayerIds
          BY <1>0, <1>k, <3>1, <3>2 DEF Agreed, MembershipType, Memberships
        <4>4. IsFiniteSet(old) /\ Cardinality(old) <= maxSquad
          BY <1>0, <4>3 DEF Agreed, SquadsAreSmall
        <4> HIDE DEF old
        <4>5. /\ IsFiniteSet(InSquad(n, r)) /\ Cardinality(InSquad(n, r)) <= Cardinality(old)
              /\ Cardinality(InSquad(n, r)) \in Nat /\ Cardinality(old) \in Nat
          BY <4>2, <4>4, FS_Subset, FS_CardinalityType
        <4> QED
          BY <1>0, <4>4, <4>5
      <3>3. CASE ~Known(q)
        <4>1. InSquad(n, r) = {q}
          BY <3>1, <3>3, RegroupedSquads
        <4>2. IsFiniteSet(InSquad(n, r)) /\ Cardinality(InSquad(n, r)) = 1
          BY <4>1, FS_Singleton
        <4> QED
          BY <1>0, <4>2
      <3> QED
        BY <3>2, <3>3
    <2> QED
      BY <2>1, <2>2
  <1>7. BandsAreSquads(n, b)
    <2> SUFFICES ASSUME NEW band \in bands, band \cap Active # {}
                 PROVE  \E id \in PlayerIds : n[id] # NoSquad /\ band \cap Active = Group(n, n[id].root)
      BY DEF BandsAreSquads
    <2>1. PICK id \in PlayerIds : membership[id] # NoSquad /\ band = Group(membership, membership[id].root)
      BY <1>0 DEF Agreed, BandsAreSquads
    <2>2. PICK q \in InSquad(membership, membership[id].root) : Record(membership, q) \in Active
      BY <2>1 DEF Group
    <2>3. PICK p \in PlayerIds : InWorld(p) /\ Record(membership, q) = Session(p)
      BY <2>2 DEF Active
    <2>4. p = q /\ membership[q].generation = session[q].generation /\ membership[q] # NoSquad
          /\ membership[q].root = membership[id].root /\ q \in PlayerIds
      BY <2>2, <2>3 DEF Record, Session, InSquad
    <2>5. Known(q)
      BY <2>3, <2>4 DEF Known
    <2>6. Group(n, n[q].root) = band \cap Active /\ n[q] # NoSquad
      BY <1>3, <2>1, <2>3, <2>4, <2>5, RegroupedGroups
    <2> QED
      BY <2>4, <2>6
  <1>8. SquadsAreBands(n, b)
    <2> SUFFICES ASSUME NEW id \in PlayerIds, InWorld(id)
                 PROVE  Group(n, n[id].root) \in b \cup {{Record(n, id)}}
      BY <1>3 DEF SquadsAreBands
    <2>1. CASE Known(id)
      <3> DEFINE old == Group(membership, membership[id].root)
      <3>1. Group(n, n[id].root) = old \cap Active /\ Session(id) \in old
        BY <2>1, RegroupedGroups
      <3>2. Record(membership, id) = Session(id)
        BY <2>1 DEF Known, Record, Session
      <3>3. old \in bands \/ old = {Session(id)}
        BY <1>0, <1>k, <2>1, <3>2 DEF Agreed, SquadsAreBands
      <3> HIDE DEF old
      <3>4. Session(id) \in Active /\ Record(n, id) = Session(id)
        BY <1>0, <1>4
      <3> QED
        BY <3>1, <3>3, <3>4
    <2>2. CASE ~Known(id)
      BY <1>4, <2>2, RegroupedGroups
    <2> QED
      BY <2>1, <2>2
  <1> HIDE DEF n, b
  <1>9. Agreed(n, b) /\ Current(n)
    BY <1>1, <1>2, <1>5, <1>6, <1>7, <1>8 DEF Agreed
  <1> QED
    BY <1>9 DEF n, b

\* What every command starts from.
LEMMA RefreshedAgreed ==
  ASSUME SquadInv
  PROVE  Agreed(Refreshed, AgreedNow) /\ Current(Refreshed)
  <1>1. CASE Fresh
    <2>1. lastActive = Active /\ lastActive # NoSquad
      BY <1>1, SquadFacts DEF Fresh
    <2>2. Recorded(membership) = Active
      BY <2>1 DEF SquadInv
    <2> QED
      BY <1>1, <2>2, ActiveIsCurrent DEF Refreshed, AgreedNow, SquadInv
  <1>2. CASE ~Fresh
    BY <1>2, RegroupedAgreed DEF Refreshed, AgreedNow
  <1> QED
    BY <1>1, <1>2

\* Ensure has nothing to add to a refreshed index.
LEMMA NothingToEnsure ==
  ASSUME SquadInv, NEW ids, \A id \in ids : id \in PlayerIds => InWorld(id)
  PROVE  Ensured(Refreshed, ids) = Refreshed
  <1> DEFINE m == Refreshed
  <1>1. m \in MembershipType /\ Current(m)
    BY RefreshedAgreed DEF Agreed
  <1> HIDE DEF m
  <1>2. ASSUME NEW id \in PlayerIds, id \in ids
        PROVE  m[id] # NoSquad /\ [m[id] EXCEPT !.generation = session[id].generation] = m[id]
    <2>1. m[id] # NoSquad /\ m[id].generation = session[id].generation /\ m[id] \in Memberships
      BY <1>1, <1>2 DEF Current, MembershipType
    <2> DEFINE e == m[id]
    <2>2. e \in Memberships /\ e.generation = session[id].generation
      BY <2>1
    <2> HIDE DEF e
    <2>3. [e EXCEPT !.generation = e.generation] = e
      BY <2>2 DEF Memberships
    <2> QED
      BY <2>1, <2>2, <2>3 DEF e
  <1>3. \A id \in PlayerIds : (IF id \notin ids THEN m[id]
     ELSE IF m[id] = NoSquad THEN Single(id) ELSE [m[id] EXCEPT !.generation = session[id].generation]) = m[id]
    BY <1>2
  <1>4. Ensured(m, ids) = [id \in PlayerIds |-> m[id]]
    BY <1>3 DEF Ensured
  <1>5. m = [id \in PlayerIds |-> m[id]]
    BY <1>1 DEF MembershipType
  <1>6. Ensured(m, ids) = m
    BY <1>4, <1>5
  <1> QED
    BY <1>6 DEF m

\* In a refreshed index a squad is all who share its root.
LEMMA CurrentMembers ==
  ASSUME NEW m, Current(m)
  PROVE  /\ \A r : MemberIds(m, r) = InSquad(m, r)
         /\ \A id \in PlayerIds : InWorld(id) => /\ m[id] # NoSquad /\ Root(m, id) = m[id].root
                                                 /\ Record(m, id) = Session(id)
  <1>1. \A id \in PlayerIds : m[id] # NoSquad => Root(m, id) = m[id].root /\ ResolvesId(m, id)
                                                 /\ Record(m, id) = Session(id)
    BY DEF Current, Root, ResolvesId, Record, Session
  <1>2. \A id \in PlayerIds : InWorld(id) => m[id] # NoSquad
    BY DEF Current
  <1>3. \A r : MemberIds(m, r) = InSquad(m, r)
    BY <1>1 DEF MemberIds, InSquad
  <1> QED
    BY <1>1, <1>2, <1>3

\* The index once a squad has joined the one of a root.
JoinedTo(m, joining, root) ==
  [id \in PlayerIds |-> IF id \in joining THEN [m[id] EXCEPT !.root = root] ELSE m[id]]

\* The bands once some have become one.
BandsWith(b, one) == {band \in b : band \cap one = {}} \cup {one}

\* Accept: the squads of a and c become one, and so do their bands.
LEMMA Joined ==
  ASSUME NEW m, NEW b, Agreed(m, b), maxSquad \in Nat,
         NEW a \in PlayerIds, NEW c \in PlayerIds, m[a] # NoSquad, m[c] # NoSquad, m[a].root # m[c].root,
         Cardinality(InSquad(m, m[c].root)) + Cardinality(InSquad(m, m[a].root)) <= maxSquad,
         NEW n, n = JoinedTo(m, InSquad(m, m[c].root), m[a].root),
         NEW one, one = BandOf(b, Record(m, a)) \cup BandOf(b, Record(m, c))
  PROVE  /\ Agreed(n, BandsWith(b, one))
         /\ Current(m) => Current(n)
  <1> DEFINE ra == m[a].root  rc == m[c].root
             all == {band \in b : band \cap one = {}} \cup {one}
             joining == InSquad(m, rc)
  <1>0. /\ m \in MembershipType /\ ra \in PlayerIds /\ rc \in PlayerIds
        /\ a \in InSquad(m, ra) /\ c \in joining
        /\ RootsAreMembers(m) /\ SquadsAreSmall(m) /\ BandsAreSquads(m, b) /\ SquadsAreBands(m, b)
    BY DEF Agreed, MembershipType, Memberships, InSquad
  <1>1. \A id \in PlayerIds : /\ n[id] \in Memberships \cup {NoSquad}
                              /\ n[id] # NoSquad <=> m[id] # NoSquad
                              /\ m[id] # NoSquad => /\ n[id].generation = m[id].generation
                                                    /\ Record(n, id) = Record(m, id)
                                                    /\ id \in joining => n[id].root = ra
                                                    /\ id \notin joining => n[id].root = m[id].root
    <2> SUFFICES ASSUME NEW id \in PlayerIds
                 PROVE  /\ n[id] \in Memberships \cup {NoSquad}
                        /\ n[id] # NoSquad <=> m[id] # NoSquad
                        /\ m[id] # NoSquad => /\ n[id].generation = m[id].generation
                                              /\ Record(n, id) = Record(m, id)
                                              /\ id \in joining => n[id].root = ra
                                              /\ id \notin joining => n[id].root = m[id].root
      OBVIOUS
    <2>1. CASE id \in joining
      <3> DEFINE e == m[id]
      <3>1. e \in Memberships /\ e # NoSquad
        BY <1>0, <2>1 DEF InSquad, MembershipType
      <3>2. n[id] = [e EXCEPT !.root = ra]
        BY <2>1 DEF JoinedTo
      <3> HIDE DEF e
      <3>3. n[id] \in Memberships /\ n[id].generation = e.generation /\ n[id].root = ra
        BY <1>0, <3>1, <3>2 DEF Memberships
      <3> QED
        BY <2>1, <3>1, <3>3, SquadsAssumption DEF e, Record
    <2>2. CASE id \notin joining
      <3>1. n[id] = m[id]
        BY <2>2 DEF JoinedTo
      <3> QED
        BY <1>0, <2>2, <3>1 DEF MembershipType, Record
    <2> QED
      BY <2>1, <2>2
  <1>2. n \in MembershipType
    <2>1. n = [id \in PlayerIds |-> n[id]]
      BY DEF JoinedTo
    <2> QED
      BY <1>1, <2>1 DEF MembershipType
  <1>3. Current(m) => Current(n)
    BY <1>1 DEF Current
  <1>s. /\ InSquad(n, ra) = InSquad(m, ra) \cup joining
        /\ \A r : r # ra /\ r # rc => InSquad(n, r) = InSquad(m, r)
    BY <1>1 DEF InSquad
  <1>r. \A id \in PlayerIds : m[id] # NoSquad =>
           /\ n[id].root = ra \/ (n[id].root = m[id].root /\ n[id].root # ra /\ n[id].root # rc)
           /\ id \in InSquad(m, m[id].root)
    BY <1>1 DEF InSquad
  <1>g. /\ Group(n, ra) = Group(m, ra) \cup Group(m, rc)
        /\ \A r : r # ra /\ r # rc => Group(n, r) = Group(m, r)
    <2>1. \A r : \A id \in InSquad(m, r) : Record(n, id) = Record(m, id)
      BY <1>1 DEF InSquad
    <2> QED
      BY <1>s, <2>1 DEF Group
  <1>o. one = Group(n, ra)
    BY <1>g, BandIsSquad
  <1>e. \A r : r # ra /\ r # rc => Group(m, r) \cap one = {}
    <2> SUFFICES ASSUME NEW r, r # ra, r # rc, NEW id \in InSquad(m, r), Record(m, id) \in one PROVE FALSE
      BY DEF Group
    <2>1. id \in InSquad(m, ra) \/ id \in InSquad(m, rc)
      BY <1>o, <1>g, InGroup
    <2> QED
      BY <2>1 DEF InSquad
  <1> HIDE DEF ra, rc, joining
  <1>5. RootsAreMembers(n)
    <2> SUFFICES ASSUME NEW id \in PlayerIds, m[id] # NoSquad PROVE n[id].root \in InSquad(n, n[id].root)
      BY <1>1 DEF RootsAreMembers
    <2>1. ra \in InSquad(m, ra)
      BY <1>0 DEF RootsAreMembers, ra
    <2>2. m[id].root \in InSquad(m, m[id].root)
      BY <1>0 DEF RootsAreMembers
    <2> QED
      BY <1>r, <1>s, <2>1, <2>2
  <1>6. SquadsAreSmall(n)
    <2> SUFFICES ASSUME NEW r \in PlayerIds
                 PROVE IsFiniteSet(InSquad(n, r)) /\ Cardinality(InSquad(n, r)) <= maxSquad
      BY DEF SquadsAreSmall
    <2>0. \A q \in PlayerIds : IsFiniteSet(InSquad(m, q)) /\ Cardinality(InSquad(m, q)) <= maxSquad
      BY <1>0 DEF SquadsAreSmall
    <2>1. CASE r = ra
      <3> DEFINE X == InSquad(m, ra)  Y == joining
      <3>1. IsFiniteSet(X) /\ IsFiniteSet(Y) /\ Cardinality(X) + Cardinality(Y) <= maxSquad
        <4>1. IsFiniteSet(X) /\ IsFiniteSet(Y)
          BY <1>0, <2>0 DEF joining
        <4>2. Cardinality(X) \in Nat /\ Cardinality(Y) \in Nat
          BY <4>1, FS_CardinalityType
        <4> QED
          BY <4>1, <4>2 DEF joining, ra, rc
      <3>2. InSquad(n, r) = X \cup Y
        BY <1>s, <2>1
      <3> HIDE DEF X, Y
      <3>3. /\ IsFiniteSet(X \cup Y) /\ IsFiniteSet(X \cap Y)
            /\ Cardinality(X \cup Y) = Cardinality(X) + Cardinality(Y) - Cardinality(X \cap Y)
        BY <3>1, FS_Union, FS_Intersection
      <3>4. Cardinality(X) \in Nat /\ Cardinality(Y) \in Nat /\ Cardinality(X \cap Y) \in Nat
        BY <3>1, <3>3, FS_CardinalityType
      <3>5. Cardinality(X \cup Y) <= maxSquad
        BY <3>1, <3>3, <3>4
      <3> QED
        BY <3>2, <3>3, <3>5
    <2>2. CASE r = rc
      <3>1. InSquad(n, r) = {}
        BY <1>1, <1>r, <2>2 DEF InSquad, ra, rc
      <3> QED
        BY <3>1, FS_EmptySet
    <2>3. CASE r # ra /\ r # rc
      BY <1>s, <2>0, <2>3
    <2> QED
      BY <2>1, <2>2, <2>3
  <1>7. BandsAreSquads(n, all)
    <2>1. n[a] # NoSquad /\ one = Group(n, n[a].root)
      BY <1>0, <1>1, <1>o, <1>r DEF ra, rc
    <2>2. ASSUME NEW band \in b, band \cap one = {}
          PROVE  \E id \in PlayerIds : n[id] # NoSquad /\ band = Group(n, n[id].root)
      <3>1. PICK q \in PlayerIds : m[q] # NoSquad /\ band = Group(m, m[q].root)
        BY <1>0 DEF BandsAreSquads
      <3>2. Record(m, q) \in band
        BY <1>r, <3>1 DEF Group
      <3>3. m[q].root # ra /\ m[q].root # rc
        BY <1>g, <1>o, <2>2, <3>1, <3>2
      <3>4. n[q].root = m[q].root
        BY <1>1, <3>1, <3>3 DEF joining, InSquad
      <3> QED
        BY <1>1, <1>g, <3>1, <3>3, <3>4
    <2> QED
      BY <2>1, <2>2 DEF BandsAreSquads
  <1>8. SquadsAreBands(n, all)
    <2> SUFFICES ASSUME NEW id \in PlayerIds, m[id] # NoSquad
                 PROVE  Group(n, n[id].root) \in all \cup {{Record(n, id)}}
      BY <1>1 DEF SquadsAreBands
    <2>1. CASE n[id].root = ra
      BY <1>o, <2>1
    <2>2. CASE n[id].root = m[id].root /\ n[id].root # ra /\ n[id].root # rc
      <3>1. Group(n, n[id].root) = Group(m, m[id].root) /\ Group(m, m[id].root) \cap one = {}
        BY <1>e, <1>g, <2>2
      <3>2. Group(m, m[id].root) \in b \cup {{Record(m, id)}} /\ Record(n, id) = Record(m, id)
        BY <1>0, <1>1 DEF SquadsAreBands
      <3> QED
        BY <3>1, <3>2
    <2> QED
      BY <1>r, <2>1, <2>2
  <1> QED
    BY <1>2, <1>3, <1>5, <1>6, <1>7, <1>8 DEF Agreed, BandsWith

\* The index once id has left the others, who go on under succ.
LeftTo(m, id, others, succ) ==
  [p \in PlayerIds |-> IF p \in others THEN [m[p] EXCEPT !.root = succ]
                       ELSE IF p = id THEN [m[p] EXCEPT !.root = id] ELSE m[p]]

\* The bands once one has left.
BandsWithout(b, s) == {band \ {s} : band \in b} \ {{}}

\* Leave: one leaves, the others go on under a root of theirs.
LEMMA LeftOne ==
  ASSUME NEW m, NEW b, Agreed(m, b), maxSquad \in Nat \ {0},
         NEW id \in PlayerIds, m[id] # NoSquad,
         NEW others, others = InSquad(m, m[id].root) \ {id}, NEW succ \in others,
         NEW n, n = LeftTo(m, id, others, succ)
  PROVE  /\ Agreed(n, BandsWithout(b, Record(m, id)))
         /\ Current(m) => Current(n)
  <1> DEFINE r == m[id].root
             all == {band \ {Record(m, id)} : band \in b} \ {{}}
  <1>0. /\ m \in MembershipType /\ r \in PlayerIds /\ id \in InSquad(m, r)
        /\ succ \in PlayerIds /\ succ # id /\ m[succ] # NoSquad /\ m[succ].root = r
        /\ InSquad(m, r) = others \cup {id} /\ others \subseteq PlayerIds /\ id \notin others
        /\ RootsAreMembers(m) /\ SquadsAreSmall(m) /\ BandsAreSquads(m, b) /\ SquadsAreBands(m, b)
    BY DEF Agreed, MembershipType, Memberships, InSquad
  <1>a. \A q \in PlayerIds : m[q] # NoSquad => q \in InSquad(m, m[q].root)
    BY DEF InSquad
  <1>1. \A p \in PlayerIds : /\ n[p] \in Memberships \cup {NoSquad}
                             /\ n[p] # NoSquad <=> m[p] # NoSquad
                             /\ m[p] # NoSquad => /\ n[p].generation = m[p].generation
                                                  /\ Record(n, p) = Record(m, p)
                                                  /\ p \in others => n[p].root = succ
                                                  /\ p = id => n[p].root = id
                                                  /\ p \notin InSquad(m, r) => n[p].root = m[p].root
    <2> SUFFICES ASSUME NEW p \in PlayerIds
                 PROVE  /\ n[p] \in Memberships \cup {NoSquad}
                        /\ n[p] # NoSquad <=> m[p] # NoSquad
                        /\ m[p] # NoSquad => /\ n[p].generation = m[p].generation
                                             /\ Record(n, p) = Record(m, p)
                                             /\ p \in others => n[p].root = succ
                                             /\ p = id => n[p].root = id
                                             /\ p \notin InSquad(m, r) => n[p].root = m[p].root
      OBVIOUS
    <2>1. CASE p \in InSquad(m, r)
      <3> DEFINE e == m[p]
                 to == IF p \in others THEN succ ELSE id
      <3>1. e \in Memberships /\ e # NoSquad /\ to \in PlayerIds
        BY <1>0, <2>1 DEF InSquad, MembershipType
      <3>2. n[p] = [e EXCEPT !.root = to]
        BY <1>0, <2>1 DEF LeftTo
      <3> HIDE DEF e, to
      <3>3. n[p] \in Memberships /\ n[p].generation = e.generation /\ n[p].root = to
        BY <1>0, <3>1, <3>2 DEF Memberships
      <3> QED
        BY <1>0, <2>1, <3>1, <3>3, SquadsAssumption DEF e, to, Record
    <2>2. CASE p \notin InSquad(m, r)
      <3>1. n[p] = m[p] /\ p \notin others /\ p # id
        BY <1>0, <2>2 DEF LeftTo
      <3> QED
        BY <1>0, <2>2, <3>1 DEF MembershipType, Record
    <2> QED
      BY <2>1, <2>2
  <1>2. n \in MembershipType
    <2>1. n = [p \in PlayerIds |-> n[p]]
      BY DEF LeftTo
    <2> QED
      BY <1>1, <2>1 DEF MembershipType
  <1>3. Current(m) => Current(n)
    BY <1>1 DEF Current
  <1>b. \A p \in PlayerIds : m[p] # NoSquad =>
           \/ p \in others /\ n[p].root = succ
           \/ p = id /\ n[p].root = id
           \/ p \notin InSquad(m, r) /\ n[p].root = m[p].root /\ m[p].root # r
    BY <1>0, <1>1, <1>a
  <1>c. ASSUME NEW p \in PlayerIds, m[p] # NoSquad, p \notin InSquad(m, r)
        PROVE  m[p].root # succ /\ m[p].root # id
    <2>1. m[p].root \in InSquad(m, m[p].root)
      BY <1>0, <1>c DEF RootsAreMembers
    <2>2. \A q \in {succ, id} : m[p].root = q => m[q].root = q /\ m[q].root = r
      BY <1>0, <2>1 DEF InSquad
    <2> QED
      BY <1>0, <1>b, <1>c, <2>2
  <1> HIDE DEF r
  <1>s1. InSquad(n, succ) = others
    <2>1. ASSUME NEW p \in InSquad(n, succ) PROVE p \in others
      BY <1>0, <1>1, <1>b, <1>c DEF InSquad
    <2>2. ASSUME NEW p \in others PROVE p \in InSquad(n, succ)
      <3>1. p \in PlayerIds /\ m[p] # NoSquad
        BY <1>0 DEF InSquad
      <3> QED
        BY <1>1, <3>1 DEF InSquad
    <2> QED
      BY <2>1, <2>2
  <1>s2. InSquad(n, id) = {id}
    <2>1. ASSUME NEW p \in InSquad(n, id) PROVE p = id
      BY <1>0, <1>1, <1>b, <1>c DEF InSquad
    <2>2. id \in InSquad(n, id)
      BY <1>1 DEF InSquad
    <2> QED
      BY <2>1, <2>2
  <1>s3. ASSUME NEW q \in PlayerIds, m[q] # NoSquad, q \notin InSquad(m, r)
         PROVE  InSquad(n, n[q].root) = InSquad(m, m[q].root) /\ n[q].root = m[q].root
    <2> DEFINE t == m[q].root
    <2>1. n[q].root = t /\ t # r /\ t # succ /\ t # id
      BY <1>b, <1>c, <1>s3, <1>0
    <2> HIDE DEF t
    <2>2. ASSUME NEW p \in InSquad(n, t) PROVE p \in InSquad(m, t)
      <3>1. p \in PlayerIds /\ m[p] # NoSquad /\ n[p].root = t
        BY <1>1 DEF InSquad
      <3>2. m[p].root = t
        BY <1>b, <2>1, <3>1
      <3> QED
        BY <3>1, <3>2 DEF InSquad
    <2>3. ASSUME NEW p \in InSquad(m, t) PROVE p \in InSquad(n, t)
      <3>1. p \in PlayerIds /\ m[p] # NoSquad /\ m[p].root = t
        BY DEF InSquad
      <3>2. p \notin InSquad(m, r)
        BY <2>1, <3>1 DEF InSquad
      <3>3. n[p].root = t /\ n[p] # NoSquad
        BY <1>1, <3>1, <3>2
      <3> QED
        BY <3>1, <3>3 DEF InSquad
    <2>4. InSquad(n, t) = InSquad(m, t)
      BY <2>2, <2>3
    <2> QED
      BY <2>1, <2>4 DEF t
  <1>rec. \A q : \A p \in InSquad(m, q) : Record(n, p) = Record(m, p)
    BY <1>1 DEF InSquad
  <1>g1. Group(n, succ) = Group(m, r) \ {Record(m, id)}
    <2>1. Group(n, succ) = {Record(m, p) : p \in others}
      BY <1>s1, <1>rec, <1>0 DEF Group
    <2>2. \A p \in others : Record(m, p) # Record(m, id)
      BY <1>0, RecordsDiffer
    <2> QED
      BY <2>1, <2>2, <1>0 DEF Group
  <1>g2. Group(n, id) = {Record(n, id)} /\ Record(n, id) = Record(m, id)
    BY <1>0, <1>s2, <1>1 DEF Group, InSquad
  <1>g3. ASSUME NEW q \in PlayerIds, m[q] # NoSquad, q \notin InSquad(m, r)
         PROVE  Group(n, n[q].root) = Group(m, m[q].root) \ {Record(m, id)}
    <2> DEFINE t == m[q].root
    <2>0. n[q].root = t /\ InSquad(n, t) = InSquad(m, t)
      BY <1>s3, <1>g3
    <2> HIDE DEF t
    <2>a. \A p \in InSquad(m, t) : Record(n, p) = Record(m, p)
      BY <1>rec
    <2>b. Group(n, t) = Group(m, t)
      BY <2>0, <2>a DEF Group
    <2>1. Group(n, n[q].root) = Group(m, m[q].root)
      BY <2>0, <2>b DEF t
    <2>2. id \notin InSquad(m, m[q].root)
      BY <1>0, <1>b, <1>g3 DEF InSquad
    <2> QED
      BY <2>1, <2>2, InGroup
  <1>ne. Group(n, succ) # {} /\ Group(m, r) # {Record(m, id)}
    <2>1. Record(n, succ) \in Group(n, succ)
      BY <1>s1 DEF Group
    <2> QED
      BY <2>1, <1>g1
  <1>5. RootsAreMembers(n)
    <2> SUFFICES ASSUME NEW p \in PlayerIds, m[p] # NoSquad PROVE n[p].root \in InSquad(n, n[p].root)
      BY <1>1 DEF RootsAreMembers
    <2>1. CASE p \in others \/ p = id
      BY <1>b, <1>s1, <1>s2, <2>1, <1>0
    <2>2. CASE p \notin InSquad(m, r)
      BY <1>s3, <2>2, <1>0 DEF RootsAreMembers
    <2> QED
      BY <1>0, <2>1, <2>2
  <1>6. SquadsAreSmall(n)
    <2> SUFFICES ASSUME NEW t \in PlayerIds
                 PROVE IsFiniteSet(InSquad(n, t)) /\ Cardinality(InSquad(n, t)) <= maxSquad
      BY DEF SquadsAreSmall
    <2>1. CASE InSquad(n, t) = {}
      BY <2>1, FS_EmptySet
    <2>2. ASSUME NEW q \in InSquad(n, t)
          PROVE  IsFiniteSet(InSquad(n, t)) /\ Cardinality(InSquad(n, t)) <= maxSquad
      <3>1. q \in PlayerIds /\ m[q] # NoSquad /\ n[q].root = t
        BY <1>1, <2>2 DEF InSquad
      <3>2. InSquad(n, t) \in SUBSET InSquad(m, m[q].root)
        <4>1. CASE q \in others
          BY <1>0, <1>b, <1>s1, <3>1, <4>1 DEF InSquad
        <4>2. CASE q = id
          <5>1. t = id /\ id \in InSquad(m, m[q].root)
            BY <1>a, <1>b, <1>0, <3>1, <4>2
          <5>2. InSquad(n, t) = {id}
            BY <1>s2, <5>1
          <5> QED
            BY <5>1, <5>2
        <4>3. CASE q \notin InSquad(m, r)
          BY <1>s3, <3>1, <4>3
        <4> QED
          BY <1>0, <4>1, <4>2, <4>3
      <3> DEFINE X == InSquad(n, t)  Y == InSquad(m, m[q].root)
      <3>3. IsFiniteSet(Y) /\ Cardinality(Y) <= maxSquad
        <4>1. m[q].root \in PlayerIds
          BY <1>0, <3>1 DEF MembershipType, Memberships
        <4> QED
          BY <1>0, <4>1 DEF SquadsAreSmall
      <3>4. X \in SUBSET Y
        BY <3>2
      <3> HIDE DEF X, Y
      <3>5. /\ IsFiniteSet(X) /\ Cardinality(X) <= Cardinality(Y)
            /\ Cardinality(X) \in Nat /\ Cardinality(Y) \in Nat
        BY <3>3, <3>4, FS_Subset, FS_CardinalityType
      <3>6. IsFiniteSet(X) /\ Cardinality(X) <= maxSquad
        BY <3>3, <3>5
      <3> QED
        BY <3>6 DEF X
    <2> QED
      BY <2>1, <2>2
  <1>7. BandsAreSquads(n, all)
    <2> SUFFICES ASSUME NEW left \in all
                 PROVE  \E p \in PlayerIds : n[p] # NoSquad /\ left = Group(n, n[p].root)
      BY DEF BandsAreSquads
    <2>0. PICK band \in b : left = band \ {Record(m, id)}
      OBVIOUS
    <2>1. PICK q \in PlayerIds : m[q] # NoSquad /\ band = Group(m, m[q].root)
      BY <1>0 DEF BandsAreSquads
    <2>2. CASE m[q].root = r
      <3>1. n[succ] # NoSquad /\ n[succ].root = succ
        BY <1>0, <1>1
      <3> QED
        BY <1>0, <1>g1, <2>0, <2>1, <2>2, <3>1
    <2>3. CASE m[q].root # r
      <3>1. q \notin InSquad(m, r)
        BY <2>3 DEF InSquad
      <3> QED
        BY <1>1, <1>g3, <2>0, <2>1, <3>1
    <2> QED
      BY <2>2, <2>3
  <1>8. SquadsAreBands(n, all)
    <2> SUFFICES ASSUME NEW p \in PlayerIds, m[p] # NoSquad
                 PROVE  Group(n, n[p].root) \in all \cup {{Record(n, p)}}
      BY <1>1 DEF SquadsAreBands
    <2>1. CASE p = id
      BY <1>b, <1>g2, <2>1, <1>0
    <2>2. CASE p \in others
      <3>1. Group(m, r) \in b
        BY <1>0, <1>ne DEF SquadsAreBands, r
      <3>2. n[p].root = succ
        BY <1>1, <2>2
      <3> QED
        BY <1>g1, <1>ne, <3>1, <3>2
    <2>3. CASE p \notin InSquad(m, r)
      <3>1. Group(m, m[p].root) \in b \cup {{Record(m, p)}} /\ Record(n, p) = Record(m, p)
        BY <1>0, <1>1 DEF SquadsAreBands
      <3>2. Group(n, n[p].root) = Group(m, m[p].root) \ {Record(m, id)}
        BY <1>g3, <2>3
      <3>3. Record(m, p) \in Group(m, m[p].root) /\ Record(m, p) # Record(m, id)
        BY <1>a, <1>0, <2>3, RecordsDiffer DEF Group
      <3> QED
        BY <3>1, <3>2, <3>3
    <2> QED
      BY <1>0, <2>1, <2>2, <2>3
  <1> QED
    BY <1>2, <1>3, <1>5, <1>6, <1>7, <1>8 DEF Agreed, BandsWithout

LEMMA PrunedTyped ==
  ASSUME SquadInv PROVE Pruned \subseteq [inviter : Sessions, invitee : Sessions]
  BY SquadFacts DEF Pruned

\* Whatever a command makes of the refreshed index, the cache is that of it.
LEMMA CommandKeeps ==
  ASSUME SquadInv, NEW STATE m, NEW STATE b, Agreed(m, b), Current(m),
         membership' = m, bands' = b, lastActive' = Active,
         invites' \subseteq [inviter : Sessions, invitee : Sessions],
         UNCHANGED <<maxSquad, session>>
  PROVE  SquadInv'
  <1>1. Agreed(membership, bands)'
    BY DEF Agreed, RootsAreMembers, SquadsAreSmall, BandsAreSquads, SquadsAreBands
  <1>2. \A band \in bands' : band \subseteq Sessions
    BY AgreedBandsTyped
  <1>3. membership' \in [PlayerIds -> Memberships \cup {NoSquad}]
    BY DEF Agreed, MembershipType
  <1>4. SquadsTypeOK'
    BY <1>2, <1>3 DEF SquadsTypeOK, SquadInv
  <1>5. lastActive' = Recorded(membership')
    BY CurrentIsActive
  <1>6. (lastActive # NoSquad => lastActive = Recorded(membership))'
    BY <1>5 DEF Recorded, Record
  <1> QED
    BY <1>1, <1>4, <1>6 DEF SquadInv

\* One lemma per action.
LEMMA RefreshKeeps ==
  ASSUME SquadInv, Refresh PROVE SquadInv'
  BY RefreshedAgreed, PrunedTyped, CommandKeeps DEF Refresh

LEMMA InviteKeeps ==
  ASSUME SquadInv, NEW a \in PlayerIds, NEW b \in PlayerIds, Invite(a, b) PROVE SquadInv'
  <1>1. InWorld(a) /\ InWorld(b)
    BY DEF Invite
  <1>2. Ensured(Refreshed, {a, b}) = Refreshed
    BY <1>1, NothingToEnsure
  <1>3. Session(a) \in Sessions /\ Session(b) \in Sessions
    BY SquadFacts
  <1>4. invites' \subseteq [inviter : Sessions, invitee : Sessions]
    BY <1>3, PrunedTyped DEF Invite
  <1> QED
    BY <1>2, <1>4, RefreshedAgreed, CommandKeeps DEF Invite

LEMMA AcceptKeeps ==
  ASSUME SquadInv, NEW i \in invites, Accept(i) PROVE SquadInv'
  <1> DEFINE a == i.inviter[1]  c == i.invitee[1]
             m == Refreshed
             accepted == /\ Root(m, a) # Root(m, c)
                         /\ Cardinality(MemberIds(m, Root(m, c))) + Cardinality(MemberIds(m, Root(m, a))) <= maxSquad
             one == BandOf(AgreedNow, Session(a)) \cup BandOf(AgreedNow, Session(c))
  <1>1. a \in PlayerIds /\ c \in PlayerIds /\ InWorld(a) /\ InWorld(c)
    <2>1. a \in PlayerIds /\ c \in PlayerIds
      BY SquadFacts DEF Sessions
    <2> QED
      BY <2>1 DEF Accept, Consumable, ResolvesId
  <1>2. Ensured(m, {a, c}) = m
    BY <1>1, NothingToEnsure
  <1>3. Agreed(m, AgreedNow) /\ Current(m)
    BY RefreshedAgreed
  <1>4. invites' \subseteq [inviter : Sessions, invitee : Sessions]
    BY PrunedTyped DEF Accept
  <1>5. /\ membership' = IF accepted THEN JoinedTo(m, MemberIds(m, Root(m, c)), Root(m, a)) ELSE m
        /\ bands' = IF accepted THEN BandsWith(AgreedNow, one) ELSE AgreedNow
        /\ lastActive' = Active /\ UNCHANGED <<maxSquad, session>>
    BY <1>2 DEF Accept, JoinedTo, BandsWith
  <1>6. /\ m[a] # NoSquad /\ Root(m, a) = m[a].root /\ Record(m, a) = Session(a)
        /\ m[c] # NoSquad /\ Root(m, c) = m[c].root /\ Record(m, c) = Session(c)
        /\ \A r : MemberIds(m, r) = InSquad(m, r)
    BY <1>1, <1>3, CurrentMembers
  <1> HIDE DEF a, c, m
  <1>7. CASE accepted
    <2> DEFINE n == JoinedTo(m, InSquad(m, m[c].root), m[a].root)
               all == BandsWith(AgreedNow, one)
    <2>1. membership' = n /\ bands' = all
      BY <1>5, <1>6, <1>7
    <2>2. /\ m[a].root # m[c].root
          /\ Cardinality(InSquad(m, m[c].root)) + Cardinality(InSquad(m, m[a].root)) <= maxSquad
      BY <1>6, <1>7
    <2>3. one = BandOf(AgreedNow, Record(m, a)) \cup BandOf(AgreedNow, Record(m, c))
      BY <1>6
    <2> HIDE DEF one, accepted
    <2>4. maxSquad \in Nat
      BY SquadFacts
    <2>n. n = JoinedTo(m, InSquad(m, m[c].root), m[a].root)
      OBVIOUS
    <2> HIDE DEF n
    <2>5. Agreed(n, all) /\ (Current(m) => Current(n))
      BY <1>1, <1>3, <1>6, <2>2, <2>3, <2>4, <2>n, Joined
    <2> HIDE DEF all
    <2> QED
      BY <1>3, <1>4, <1>5, <2>1, <2>5, CommandKeeps
  <1>8. CASE ~accepted
    BY <1>3, <1>4, <1>5, <1>8, CommandKeeps
  <1> QED
    BY <1>7, <1>8

LEMMA RefuseKeeps ==
  ASSUME SquadInv, NEW i \in invites, Refuse(i) PROVE SquadInv'
  <1>1. /\ UNCHANGED squadVars \/ UNCHANGED <<maxSquad, session, membership, lastActive, bands>>
        /\ invites' \subseteq invites
    BY DEF Refuse
  <1>2. SquadsTypeOK'
    BY DEF Refuse, SquadInv, SquadsTypeOK
  <1>3. Agreed(membership, bands)'
    BY DEF Refuse, SquadInv, Agreed, RootsAreMembers, SquadsAreSmall, BandsAreSquads, SquadsAreBands
  <1>4. (lastActive # NoSquad => lastActive = Recorded(membership))'
    BY DEF Refuse, SquadInv, Recorded, Record
  <1> QED
    BY <1>2, <1>3, <1>4 DEF SquadInv

LEMMA LeaveKeeps ==
  ASSUME SquadInv, NEW id \in PlayerIds, Leave(id) PROVE SquadInv'
  <1> DEFINE m == Refreshed
             others == MemberIds(m, Root(m, id)) \ {id}
             succ == Successor(id, Root(m, id), others)
  <1>1. InWorld(id) /\ Ensured(m, {id}) = m
    BY NothingToEnsure DEF Leave
  <1>3. Agreed(m, AgreedNow) /\ Current(m)
    BY RefreshedAgreed
  <1>4. invites' \subseteq [inviter : Sessions, invitee : Sessions]
    BY PrunedTyped DEF Leave
  <1>5. /\ others # {} /\ membership' = LeftTo(m, id, others, succ)
        /\ bands' = BandsWithout(AgreedNow, Session(id))
        /\ lastActive' = Active /\ UNCHANGED <<maxSquad, session>>
    BY <1>1 DEF Leave, LeftTo, BandsWithout
  <1>6. /\ m[id] # NoSquad /\ Root(m, id) = m[id].root /\ Record(m, id) = Session(id)
        /\ \A r : MemberIds(m, r) = InSquad(m, r)
    BY <1>1, <1>3, CurrentMembers
  <1>7. others = InSquad(m, m[id].root) \ {id} /\ others \in SUBSET PlayerIds
    BY <1>6 DEF InSquad
  <1>8. succ \in others
    <2>1. CASE id = Root(m, id)
      BY <1>5, <1>7, <2>1, LeastOf DEF Successor
    <2>2. CASE id # Root(m, id)
      <3>1. m[id].root \in InSquad(m, m[id].root)
        BY <1>3, <1>6 DEF Agreed, RootsAreMembers
      <3> QED
        BY <1>6, <1>7, <2>2, <3>1 DEF Successor
    <2> QED
      BY <2>1, <2>2
  <1> DEFINE n == LeftTo(m, id, others, succ)
             all == BandsWithout(AgreedNow, Session(id))
  <1>n. membership' = n /\ bands' = all
    BY <1>5
  <1>t. maxSquad \in Nat \ {0}
    BY SquadFacts
  <1> HIDE DEF m, others, succ
  <1>d. n = LeftTo(m, id, others, succ) /\ all = BandsWithout(AgreedNow, Record(m, id))
    BY <1>6
  <1> HIDE DEF n, all
  <1>9. Agreed(n, all) /\ (Current(m) => Current(n))
    BY <1>3, <1>6, <1>7, <1>8, <1>t, <1>d, LeftOne
  <1> QED
    BY <1>3, <1>4, <1>5, <1>n, <1>9, CommandKeeps

\* Who comes and goes is not the index's business.
LEMMA SessionsKeep ==
  ASSUME SquadInv, session' \in [PlayerIds -> [generation : 1..MaxSessions, here : BOOLEAN]],
         UNCHANGED <<maxSquad, membership, invites, lastActive, bands>>
  PROVE  SquadInv'
  <1>2. SquadsTypeOK'
    BY DEF SquadInv, SquadsTypeOK
  <1>3. Agreed(membership, bands)'
    BY DEF SquadInv, Agreed, RootsAreMembers, SquadsAreSmall, BandsAreSquads, SquadsAreBands
  <1>4. (lastActive # NoSquad => lastActive = Recorded(membership))'
    BY DEF SquadInv, Recorded, Record
  <1> QED
    BY <1>2, <1>3, <1>4 DEF SquadInv

LEMMA ComeAndGoKeeps ==
  ASSUME SquadInv, NEW id \in PlayerIds, Depart(id) \/ Return(id) \/ (\E here \in BOOLEAN : Recycle(id, here))
  PROVE  SquadInv'
  <1>0. session \in [PlayerIds -> [generation : 1..MaxSessions, here : BOOLEAN]] /\ MaxSessions \in Nat \ {0}
    BY SquadFacts, SquadsAssumption
  <1>1. CASE Depart(id)
    <2>1. session' \in [PlayerIds -> [generation : 1..MaxSessions, here : BOOLEAN]]
      BY <1>0, <1>1 DEF Depart
    <2> QED
      BY <1>1, <2>1, SessionsKeep DEF Depart
  <1>2. CASE Return(id)
    <2>1. session' \in [PlayerIds -> [generation : 1..MaxSessions, here : BOOLEAN]]
      BY <1>0, <1>2 DEF Return
    <2> QED
      BY <1>2, <2>1, SessionsKeep DEF Return
  <1>3. ASSUME NEW here \in BOOLEAN, Recycle(id, here) PROVE SquadInv'
    <2>1. session[id].generation + 1 \in 1..MaxSessions
      BY <1>0, <1>3 DEF Recycle
    <2>2. session' \in [PlayerIds -> [generation : 1..MaxSessions, here : BOOLEAN]]
      BY <1>0, <1>3, <2>1 DEF Recycle
    <2> QED
      BY <1>3, <2>2, SessionsKeep DEF Recycle
  <1> QED
    BY <1>1, <1>2, <1>3

\* The capture keeps the index; who was there is not part of it.
LEMMA ReloadKeeps ==
  ASSUME SquadInv, ReloadSquads PROVE SquadInv'
  <1>0. membership \in MembershipType
    BY SquadFacts
  <1>1. \A id \in PlayerIds : (IF membership[id] = NoSquad THEN NoSquad
                               ELSE [membership[id] EXCEPT !.root = Root(membership, id)]) = membership[id]
    <2> SUFFICES ASSUME NEW id \in PlayerIds, membership[id] # NoSquad
                 PROVE  [membership[id] EXCEPT !.root = Root(membership, id)] = membership[id]
      OBVIOUS
    <2> DEFINE e == membership[id]
    <2>1. e \in Memberships /\ Root(membership, id) = e.root
      BY <1>0 DEF MembershipType, Root
    <2> HIDE DEF e
    <2>2. [e EXCEPT !.root = e.root] = e
      BY <2>1 DEF Memberships
    <2> QED
      BY <2>1, <2>2 DEF e
  <1>2. membership' = [id \in PlayerIds |-> membership[id]]
    BY <1>1 DEF ReloadSquads
  <1>3. membership' = membership
    BY <1>0, <1>2 DEF MembershipType
  <1>4. invites' = {} /\ lastActive' = NoSquad /\ UNCHANGED <<maxSquad, session, bands>>
    BY DEF ReloadSquads
  <1>5. SquadsTypeOK'
    BY <1>3, <1>4 DEF SquadInv, SquadsTypeOK
  <1>6. Agreed(membership, bands)'
    BY <1>3, <1>4 DEF SquadInv, Agreed, RootsAreMembers, SquadsAreSmall, BandsAreSquads, SquadsAreBands
  <1> QED
    BY <1>4, <1>5, <1>6 DEF SquadInv

\* The invariant holds at the start.
LEMMA SquadsStart == SquadsInit => SquadInv
  <1> SUFFICES ASSUME SquadsInit PROVE SquadInv
    OBVIOUS
  <1>1. \A id \in PlayerIds : membership[id] = NoSquad
    BY DEF SquadsInit
  <1>2. SquadsTypeOK
    BY SquadsAssumption DEF SquadsInit, SquadsTypeOK
  <1>3. SquadsAreSmall(membership)
    <2>1. \A r : InSquad(membership, r) = {}
      BY <1>1 DEF InSquad
    <2>2. IsFiniteSet({}) /\ Cardinality({}) = 0 /\ maxSquad \in Nat
      BY FS_EmptySet, SquadsAssumption DEF SquadsInit
    <2>3. 0 <= maxSquad
      BY <2>2
    <2> QED
      BY <2>1, <2>2, <2>3 DEF SquadsAreSmall
  <1>4. Agreed(membership, bands)
    BY <1>1, <1>2, <1>3 DEF SquadsInit, SquadsTypeOK, Agreed, MembershipType, RootsAreMembers, BandsAreSquads, SquadsAreBands
  <1> QED
    BY <1>2, <1>4 DEF SquadInv, SquadsInit

\* Every step keeps the invariant.
LEMMA SquadsStep == SquadInv /\ [SquadsNext]_squadVars => SquadInv'
  <1> SUFFICES ASSUME SquadInv, [SquadsNext]_squadVars PROVE SquadInv'
    OBVIOUS
  <1>1. CASE UNCHANGED squadVars
    <2>1. session' \in [PlayerIds -> [generation : 1..MaxSessions, here : BOOLEAN]]
      BY <1>1, SquadFacts DEF squadVars
    <2> QED
      BY <1>1, <2>1, SessionsKeep DEF squadVars
  <1>2. CASE Refresh
    BY <1>2, RefreshKeeps
  <1>3. CASE ReloadSquads
    BY <1>3, ReloadKeeps
  <1>4. CASE \E a, b \in PlayerIds : Invite(a, b)
    BY <1>4, InviteKeeps
  <1>5. CASE \E i \in invites : Accept(i) \/ Refuse(i)
    BY <1>5, AcceptKeeps, RefuseKeeps
  <1>6. CASE \E id \in PlayerIds : Leave(id) \/ Depart(id) \/ Return(id) \/ Recycle(id, TRUE)
    BY <1>6, LeaveKeeps, ComeAndGoKeeps
  <1> QED
    BY <1>1, <1>2, <1>3, <1>4, <1>5, <1>6 DEF SquadsNext

\* The index, the invitations and the cache always have their types.
THEOREM SquadsTypeCorrect == SquadsSpec => []SquadsTypeOK
  <1>1. SquadInv => SquadsTypeOK
    BY DEF SquadInv
  <1> QED
    BY <1>1, SquadsStart, SquadsStep, PTL DEF SquadsSpec

\* Whoever asks, and whenever: a squad is the players in the world who agreed to
\* be in it, under one root, and not too many (Members, RootId, Accept, Leave,
\* Refresh); a new player does not inherit the squad of its id.
THEOREM SquadsStayAgreed == SquadsSpec => []SquadsAreAgreedOn
  BY SquadsStart, SquadsStep, SquadsFollow, PTL DEF SquadsSpec
=============================================================================
