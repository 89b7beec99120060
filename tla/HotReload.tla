----------------------------- MODULE HotReload -----------------------------
(* The launcher, the server processes it runs one after the other, and what  *)
(* passes between them: the snapshot of the world, the accounts, the         *)
(* registry of Unique petals, the reload request and the readiness file      *)
(* (Launcher/main.cpp, server.cpp, hot_reload_snapshot.cpp). The three       *)
(* stores are versions: the number of the last change made to them.          *)
EXTENDS Naturals

CONSTANTS
  Builds,       \* server executables
  Half,         \* the world after a restore that failed and was not undone
  NoSnapshot,   \* also: no request
  MaxChanges    \* bound: changes of the stores

ASSUME HotReloadAssumption == MaxChanges \in Nat /\ Half \notin Nat

VARIABLES
  launcher,     \* "launching", "watching", "serving", "failed" or "ended"
  build,        \* server_executable
  previous,     \* previous_executable
  rollback,     \* rollback_attempt
  handed,        \* snapshot, the one of --restore
  process,      \* how far the process of build is
  exitCode,     \* of the process
  readyFile,    \* the readiness file of this launch exists
  candidate,    \* of a requested reload; NoSnapshot when none is requested
  world, accounts, uniques,       \* in the memory of the process
  savedAccounts, savedUniques,    \* on disk
  request,      \* the reload request on disk: the snapshot and the candidate
  change,       \* counts the changes of the stores
  launchedAt,   \* history: change, when this process was launched
  parted        \* history: the stores on disk are not those of handed: the
                \* registry's last write failed, or a process changed a store
                \* and was then taken for one that did not start

memory == <<world, accounts, uniques>>
disk == <<savedAccounts, savedUniques>>
launcherVars == <<launcher, build, previous, rollback, handed>>
reloadVars == <<launcherVars, process, exitCode, readyFile, candidate, memory, disk, request,
                change, launchedAt, parted>>

Versions == 0..MaxChanges
\* A snapshot holds the world. When, beside which stores and by which build
\* it was taken is history.
Snapshot == [world : Versions, accounts : Versions, uniques : Versions, author : Builds]
ReloadRequest == [snapshot : Snapshot, candidate : Builds]
\* NoSnapshot is none of the values it stands in for.
ASSUME NoSnapshotAssumption == NoSnapshot \notin Builds \cup Snapshot \cup ReloadRequest

IsRunning == process \in {"loading", "loaded", "restored", "ticking", "stopping"}
hot_reload_exit_code == 42
restore_failed_exit_code == 43
ExitCodes == {0, 1, hot_reload_exit_code, restore_failed_exit_code}

HotReloadInit ==
  /\ launcher = "launching" /\ build \in Builds /\ previous = build
  /\ rollback = FALSE /\ handed = NoSnapshot
  /\ process = "none" /\ exitCode = 0 /\ readyFile = FALSE /\ candidate = NoSnapshot
  /\ world = 0 /\ accounts = 0 /\ uniques = 0 /\ savedAccounts = 0 /\ savedUniques = 0
  /\ request = NoSnapshot /\ change = 0 /\ launchedAt = 0
  /\ parted = FALSE

------------------------------------------------------------------------------
\* The launcher.

\* The main loop, after a launch that failed.
BackTo(b) == /\ launcher' = "launching" /\ build' = b /\ rollback' = TRUE
GivesUp == launcher' = "failed" /\ UNCHANGED <<build, rollback>>
RollsBack == handed # NoSnapshot /\ ~rollback /\ build # previous
LaunchFails ==
  /\ IF RollsBack THEN BackTo(previous) ELSE GivesUp
  /\ UNCHANGED <<previous, handed>>

\* RunServer: what a new process finds; it may not start at all.
Launch ==
  /\ launcher = "launching"
  /\ readyFile' = FALSE /\ launchedAt' = change
  /\ \/ /\ launcher' = "watching" /\ process' = "loading" /\ exitCode' = 0 /\ candidate' = NoSnapshot
        /\ UNCHANGED <<build, previous, rollback, handed>>
     \/ /\ LaunchFails
        /\ UNCHANGED <<process, exitCode, candidate>>
  /\ UNCHANGED <<memory, disk, request, change, parted>>

SeeReady ==
  /\ launcher = "watching" /\ readyFile
  /\ launcher' = "serving" /\ rollback' = FALSE
  /\ UNCHANGED <<build, previous, handed, process, exitCode, readyFile, candidate, memory, disk, request, change,
                 launchedAt, parted>>

\* The process ended, or the deadline passed and it is terminated, before the
\* launcher looked for the file again, which may be there by now.
NotSeenReady ==
  /\ launcher = "watching"
  /\ LaunchFails
  /\ process' = "none" /\ exitCode' = IF IsRunning THEN 1 ELSE exitCode
  /\ readyFile' = FALSE /\ parted' = (parted \/ change # launchedAt)
  /\ UNCHANGED <<candidate, memory, disk, request, change, launchedAt>>

\* ResolveCandidate: a build that is not there, or none, is the current one.
Resolved(c) == {build, c}

\* The process that was ready ended: the launcher ends with it, or hands its
\* snapshot to the candidate.
HandOver ==
  /\ launcher = "serving" /\ process = "exited"
  /\ process' = "none"
  /\ \/ /\ exitCode = hot_reload_exit_code /\ request # NoSnapshot
        /\ launcher' = "launching" /\ handed' = request.snapshot /\ request' = NoSnapshot
        /\ parted' = (savedUniques # uniques)
        /\ previous' = build /\ build' \in Resolved(request.candidate)
     \/ /\ launcher' = "ended"
        /\ UNCHANGED <<handed, request, previous, build, parted>>
  /\ UNCHANGED <<rollback, exitCode, readyFile, candidate, memory, disk, change, launchedAt>>

------------------------------------------------------------------------------
\* The server process.

Stops(code) == process' = "stopping" /\ exitCode' = code

\* Init, before the snapshot: content, maps, the data stores, the modules.
Load ==
  /\ process = "loading"
  /\ \/ /\ process' = "loaded" /\ UNCHANGED exitCode
     \/ Stops(0)
  /\ world' = 0 /\ accounts' = savedAccounts /\ uniques' = savedUniques
  /\ UNCHANGED <<launcherVars, readyFile, candidate, disk, request, change, launchedAt, parted>>

\* RestoreConfiguredSnapshot: refused or failed, with or without the live
\* state of before, the process stops.
Restore ==
  /\ process = "loaded"
  /\ \/ /\ process' = "restored" /\ UNCHANGED exitCode
        /\ world' = IF handed = NoSnapshot THEN world ELSE handed.world
     \/ /\ handed # NoSnapshot
        /\ Stops(restore_failed_exit_code)
        /\ world' \in {world, Half}
  /\ UNCHANGED <<launcherVars, readyFile, candidate, accounts, uniques, disk, request, change, launchedAt,
                 parted>>

\* What a tick or a command changes: the world, and often an account or the
\* registry with it.
MayChange ==
  \/ /\ change < MaxChanges /\ change' = change + 1
     /\ world' \in {world, change'} /\ accounts' \in {accounts, change'} /\ uniques' \in {uniques, change'}
     /\ memory' # memory
  \/ UNCHANGED <<memory, change>>
\* RequestHotReload, ignored while a reload is pending.
Requests == IF candidate = NoSnapshot THEN Builds \cup {NoSnapshot} ELSE {candidate}

\* ExecuteStartupCommands, which may stop the server, and PublishReadyFile.
Publish ==
  /\ process = "restored"
  /\ MayChange /\ candidate' \in Requests
  /\ \/ readyFile' = TRUE /\ process' = "ticking" /\ UNCHANGED exitCode
     \/ readyFile' = TRUE /\ Stops(0)
     \/ Stops(1) /\ UNCHANGED readyFile
  /\ UNCHANGED <<launcherVars, disk, request, launchedAt, parted>>

\* Capture, whose first step is the Flush of the accounts, and the request
\* for the launcher. Mistake: the accounts are left to their worker.
UnflushedAccounts == savedAccounts
FlushedAccounts == accounts'
Captured == [world |-> world', accounts |-> accounts', uniques |-> uniques', author |-> build]
HandsOver(c) ==
  /\ savedAccounts' = FlushedAccounts
  /\ request' = [snapshot |-> Captured, candidate |-> c]
  /\ Stops(hot_reload_exit_code)
\* A capture is refused or fails, perhaps behind the flush.
StaysUp ==
  /\ savedAccounts' \in {savedAccounts, accounts'}
  /\ UNCHANGED <<request>>

\* A tick of Run. RequestStop is asked for in it, or something throws; the
\* end of the tick processes a reload that was requested all the same.
Tick ==
  /\ process = "ticking"
  /\ MayChange
  /\ \E c \in Requests :
       \/ c # NoSnapshot /\ HandsOver(c)
       \/ StaysUp /\ (Stops(0) \/ UNCHANGED <<process, exitCode>>)
  /\ candidate' = NoSnapshot
  /\ UNCHANGED <<launcherVars, readyFile, savedUniques, launchedAt, parted>>

\* The account store's worker.
PersistAccounts ==
  /\ IsRunning /\ savedAccounts' = accounts
  /\ process # "loading"
  /\ UNCHANGED <<launcherVars, process, exitCode, readyFile, candidate, memory, savedUniques, request, change,
                 launchedAt, parted>>

\* ShutDown: the accounts, then the registry; a write that fails is logged.
ShutDownServer ==
  /\ process = "stopping" /\ process' = "exited"
  /\ savedAccounts' \in {accounts, savedAccounts} /\ savedUniques' \in {uniques, savedUniques}
  /\ UNCHANGED <<launcherVars, exitCode, readyFile, candidate, memory, request, change, launchedAt, parted>>

CrashServer ==
  /\ IsRunning /\ process' = "exited" /\ exitCode' = 1
  /\ UNCHANGED <<launcherVars, readyFile, candidate, memory, disk, request, change, launchedAt, parted>>

ReloadNext ==
  \/ Launch \/ SeeReady \/ NotSeenReady \/ HandOver
  \/ Load \/ Restore \/ Publish \/ Tick \/ PersistAccounts \/ ShutDownServer \/ CrashServer

HotReloadSpec == HotReloadInit /\ [][ReloadNext]_reloadVars

------------------------------------------------------------------------------
HotReloadTypeOK ==
  /\ launcher \in {"launching", "watching", "serving", "failed", "ended"}
  /\ build \in Builds /\ previous \in Builds /\ rollback \in BOOLEAN
  /\ handed \in Snapshot \cup {NoSnapshot}
  /\ process \in {"none", "loading", "loaded", "restored", "ticking", "stopping", "exited"}
  /\ exitCode \in ExitCodes
  /\ readyFile \in BOOLEAN /\ candidate \in Builds \cup {NoSnapshot}
  /\ world \in Versions \cup {Half} /\ accounts \in Versions /\ uniques \in Versions
  /\ savedAccounts \in Versions /\ savedUniques \in Versions
  /\ request \in ReloadRequest \cup {NoSnapshot}
  /\ change \in Versions /\ launchedAt \in Versions /\ parted \in BOOLEAN

\* A server that restored a snapshot has the world of the snapshot, and the
\* accounts and the registry of the moment it was taken at: nothing is both
\* on the ground and in a bag. The exceptions are a process that the launcher
\* gave up after it had changed something, and a registry not written.
RestoredIsOneMoment ==
  process = "restored" /\ handed # NoSnapshot =>
    /\ world = handed.world
    /\ <<accounts, uniques>> = <<handed.accounts, handed.uniques>> \/ parted

\* Only the build that took the snapshot is gone back to, and the launcher
\* does not give up a snapshot before that build has failed on it.
AuthorIsTried ==
  /\ rollback /\ launcher \in {"launching", "watching"} => build = handed.author
  /\ launcher = "failed" /\ handed # NoSnapshot => build = handed.author

\* The request that the launcher reads is the one of the process that just
\* ended, whatever an overlooked one left behind.
RequestIsFresh ==
  launcher = "serving" /\ process = "exited" /\ exitCode = hot_reload_exit_code =>
    request # NoSnapshot /\ request.snapshot =
      [world |-> world, accounts |-> accounts, uniques |-> uniques, author |-> build]

\* The three parts of a hand-over from one process to the next.
ReloadsAreSound == RestoredIsOneMoment /\ AuthorIsTried /\ RequestIsFresh
=============================================================================
