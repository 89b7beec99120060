---------------------------- MODULE AccountStore ----------------------------
(***************************************************************************)
(* The account store of the game server                                    *)
(* (Server/Persistence/account_store.cpp): the game thread mutates the     *)
(* accounts in memory and queues immutable snapshots of them; one worker   *)
(* thread publishes the newest queued snapshot by an atomic file rename    *)
(* (or one SQL transaction).  The process may crash at any point and is    *)
(* then loaded again from the published file.                              *)
(*                                                                         *)
(* An account's content is a member of Content, None when the account does *)
(* not exist.  MaxGeneration stands for the largest std::uint64_t, which   *)
(* the code checks before it increments.                                   *)
(*                                                                         *)
(* An operator that no other definition uses is a plausible mistake in the *)
(* code modelled by the operator after it; PROJECT.json pairs each with    *)
(* the property that rules it out.                                         *)
(***************************************************************************)
EXTENDS Integers, FiniteSets

CONSTANTS
  Account,        \* names of accounts, the sandbox keys included
  Sandbox,        \* the "@sandbox:" keys, which never reach the disk
  Content,        \* what an existing account may hold
  None,           \* the absent account
  NoSave,         \* the empty std::optional<SAccountSaveSnapshot>
  MaxGeneration,  \* the largest save generation
  MaxBatchDepth,  \* how deep CSaveBatch objects nest (tick > player operation)
  FlushAttempts   \* shutdown_flush_attempts

Entry == Content \cup {None}
Image == [Account -> Entry]
Snapshot == [gen : 0..MaxGeneration, accounts : Image]

ASSUME StoreAssumption ==
  /\ Sandbox \subseteq Account
  /\ None \notin Content
  /\ NoSave \notin Snapshot
  /\ MaxGeneration \in Nat
  /\ MaxBatchDepth \in Nat
  /\ FlushAttempts \in Nat \ {0}

VARIABLES
  accounts,    \* g_accounts
  cache,       \* g_snapshot_cache.m_values
  dirty,       \* g_snapshot_cache.m_dirty
  batchDepth,  \* g_save_batch_depth
  batchDirty,  \* g_save_batch_dirty
  pending,     \* g_pending_save
  next,        \* g_next_save_generation
  finished,    \* g_finished_save_generation
  persisted,   \* g_persisted_save_generation
  flushGen,    \* g_flush_generation
  accept,      \* g_accept_saves
  stop,        \* g_stop_save_worker
  running,     \* g_save_worker_running
  worker,      \* where the save worker is
  writing,     \* the snapshot the worker moved out of g_pending_save
  main,        \* where the game thread is
  caller,      \* which function called the Flush in progress
  waitGen,     \* the generation the game thread waits for
  attempt,     \* flush attempts of ShutDown so far
  flushed,     \* result of the last Flush or ShutDown
  file,        \* the published account file
  fileExists

gameVars   == <<accounts, cache, dirty, batchDepth, batchDirty>>
genVars    == <<next, finished, persisted, flushGen>>
flagVars   == <<accept, stop, running>>
workerVars == <<worker, writing>>
callVars   == <<main, caller, waitGen, attempt, flushed>>
diskVars   == <<file, fileExists>>
vars == <<gameVars, pending, genVars, flagVars, workerVars, callVars, diskVars>>

NoAccounts == [a \in Account |-> None]

\* What of an image of memory belongs on disk: no sandbox account.
Durable(image) == [a \in Account |-> IF a \in Sandbox THEN None ELSE image[a]]

-----------------------------------------------------------------------------
(* Saving, on the game thread                                              *)

Accepting == accept /\ running /\ next < MaxGeneration

\* FindAccount marks the key it looks up: the keys that are dirty afterwards.
FindAccountUnmarked(a) == dirty
FindAccount(a) == dirty \cup {a}

\* ImmutableSnapshotCache::Capture: an account whose key is not dirty is
\* taken from the cache, whatever memory holds by now.
Capture(image, marked) ==
  [a \in Account |->
     IF Durable(image)[a] = None THEN None
     ELSE IF cache[a] = None \/ a \in marked THEN image[a] ELSE cache[a]]

\* The capture happens, and clears the dirty keys, before the generation is
\* known to be available.
QueueAccountSave(image, marked) ==
  /\ cache' = Capture(image, marked)
  /\ dirty' = {}
  /\ IF Accepting
     THEN /\ next' = next + 1
          /\ pending' = [gen |-> next + 1, accounts |-> Capture(image, marked)]
     ELSE UNCHANGED <<next, pending>>

\* Inside a CSaveBatch, Save only notes that a save is due and succeeds.
Save(image, marked) ==
  IF batchDepth > 0
  THEN /\ batchDirty' = TRUE
       /\ dirty' = marked
       /\ UNCHANGED <<cache, next, pending>>
  ELSE QueueAccountSave(image, marked) /\ UNCHANGED batchDirty

SaveSucceeds == batchDepth > 0 \/ Accepting

-----------------------------------------------------------------------------
(* Operations of the game thread                                           *)

Playing == main = "run"

gameFrame == UNCHANGED <<batchDepth, finished, persisted, flushGen, flagVars,
                         workerVars, callVars, diskVars>>

\* CSaveBatch(): the server tick, and the player operations nested in it.
BeginBatch ==
  /\ Playing
  /\ batchDepth < MaxBatchDepth
  /\ batchDepth' = batchDepth + 1
  /\ UNCHANGED <<accounts, cache, dirty, batchDirty, pending, genVars,
                 flagVars, workerVars, callVars, diskVars>>

\* ~CSaveBatch(): the outermost one saves once; the save's result is dropped.
BatchSaveDueAtEveryLevel == batchDirty
BatchSaveDue == batchDepth = 1 /\ batchDirty
EndBatch ==
  /\ Playing
  /\ batchDepth > 0
  /\ batchDepth' = batchDepth - 1
  /\ IF BatchSaveDue
     THEN batchDirty' = FALSE /\ QueueAccountSave(accounts, dirty)
     ELSE UNCHANGED <<batchDirty, cache, dirty, next, pending>>
  /\ UNCHANGED <<accounts, finished, persisted, flushGen, flagVars,
                 workerVars, callVars, diskVars>>

\* SetProgress, SetTalents, AddCodexKill, SetSlot, TakeItem, AddItem,
\* CraftItem...: FindAccount marks the key, the content changes, and the
\* result of Save is ignored.
Mutate(a, c) ==
  /\ Playing
  /\ accounts[a] # None
  /\ accounts' = [accounts EXCEPT ![a] = c]
  /\ Save(accounts', FindAccount(a))
  /\ gameFrame

\* CommitTrustedIp, ConfirmEmail: as Mutate, undone when Save fails; an
\* unchanged value returns early, which is what CommitLogin does here.
Commit(a, c) ==
  /\ Playing
  /\ a \notin Sandbox
  /\ accounts[a] \notin {None, c}
  /\ LET changed == [accounts EXCEPT ![a] = c]
     IN /\ Save(changed, FindAccount(a))
        /\ accounts' = IF SaveSucceeds THEN changed ELSE accounts
  /\ gameFrame

\* CommitRegistrationInternal: the new account is appended without marking
\* its key, and popped again when Save fails.
CommitRegistration(a, c) ==
  /\ Playing
  /\ a \notin Sandbox
  /\ accounts[a] = None
  /\ LET added == [accounts EXCEPT ![a] = c]
     IN /\ Save(added, dirty)
        /\ accounts' = IF SaveSucceeds THEN added ELSE accounts
  /\ gameFrame

\* CommitLogin looks the account up mutably but changes nothing.
CommitLogin(a) ==
  /\ Playing
  /\ a \notin Sandbox
  /\ accounts[a] # None
  /\ dirty' = FindAccount(a)
  /\ UNCHANGED <<accounts, cache, batchDirty, next, pending>>
  /\ gameFrame

\* RestoreSandboxAccount copies the progress of an account to a sandbox key;
\* nothing is saved.
RestoreSandboxAccount(s, a) ==
  /\ Playing
  /\ s \in Sandbox
  /\ accounts[a] # None
  /\ accounts' = [accounts EXCEPT ![s] = accounts[a]]
  /\ dirty' = IF accounts[s] # None THEN FindAccount(s) ELSE dirty
  /\ UNCHANGED <<cache, batchDirty, next, pending>>
  /\ gameFrame

RemoveSandboxAccount(s) ==
  /\ Playing
  /\ s \in Sandbox
  /\ accounts[s] # None
  /\ accounts' = [accounts EXCEPT ![s] = None]
  /\ UNCHANGED <<cache, dirty, batchDirty, next, pending>>
  /\ gameFrame

\* ImportAccounts (the migration tool): the list is replaced and the cache
\* forgotten before the save.
ImportAccounts(image) ==
  /\ Playing
  /\ batchDepth = 0
  /\ running
  /\ accounts' = image
  /\ cache' = Durable(image)
  /\ dirty' = {}
  /\ IF Accepting
     THEN next' = next + 1 /\ pending' = [gen |-> next + 1, accounts |-> cache']
     ELSE UNCHANGED <<next, pending>>
  /\ UNCHANGED batchDirty
  /\ gameFrame

-----------------------------------------------------------------------------
(* Flush and ShutDown, on the game thread                                  *)

callFrame == UNCHANGED <<accounts, batchDepth, batchDirty, finished, persisted,
                         workerVars, diskVars>>

\* Flush returns res to the function that called it.
FlushReturns(res) ==
  /\ flushed' = res
  /\ \/ /\ caller = "game" \/ (caller = "fresh" /\ res)
        /\ main' = "run"
        /\ UNCHANGED <<caller, attempt>>
     \/ /\ caller = "fresh" /\ ~res      \* Load gives up through ShutDown
        /\ main' = "flush"
        /\ caller' = "shutdown"
        /\ attempt' = 0
     \/ /\ caller = "shutdown"           \* the retry loop of ShutDown
        /\ attempt' = attempt + 1
        /\ main' = IF res \/ attempt + 1 = FlushAttempts THEN "stopping" ELSE "flush"
        /\ UNCHANGED caller

\* Hot reload and the migration tool wait for durability.
CallFlush ==
  /\ Playing
  /\ batchDepth = 0
  /\ main' = "flush"
  /\ caller' = "game"
  /\ UNCHANGED <<waitGen, attempt, flushed, cache, dirty, next, pending,
                 flushGen, flagVars>>
  /\ callFrame

CallShutDown ==
  /\ Playing
  /\ batchDepth = 0
  /\ main' = "flush"
  /\ caller' = "shutdown"
  /\ attempt' = 0
  /\ UNCHANGED <<waitGen, flushed, cache, dirty, next, pending, flushGen,
                 flagVars>>
  /\ callFrame

\* Flush, first half: queue a snapshot of the current state.
FlushQueue ==
  /\ main = "flush"
  /\ QueueAccountSave(accounts, dirty)
  /\ IF Accepting
     THEN /\ main' = "flushQueued"
          /\ waitGen' = next + 1
          /\ UNCHANGED <<caller, attempt, flushed>>
     ELSE FlushReturns(FALSE) /\ UNCHANGED waitGen
  /\ UNCHANGED <<flushGen, flagVars>>
  /\ callFrame

\* Flush, second half: ask the worker to skip its coalescing window...
RequestNothing == flushGen
RequestedGeneration == IF waitGen > flushGen THEN waitGen ELSE flushGen
FlushRequest ==
  /\ main = "flushQueued"
  /\ flushGen' = RequestedGeneration
  /\ main' = "flushWait"
  /\ UNCHANGED <<caller, waitGen, attempt, flushed, cache, dirty, next,
                 pending, flagVars>>
  /\ callFrame

\* ...and wait until the generation is finished or the worker is gone.
FlushFinished == finished >= waitGen
FlushSucceeded == persisted >= waitGen
FlushDone ==
  /\ main = "flushWait"
  /\ finished >= waitGen \/ ~running
  /\ FlushReturns(FlushSucceeded)
  /\ UNCHANGED <<waitGen, cache, dirty, next, pending, flushGen, flagVars>>
  /\ callFrame

\* ShutDown: refuse further saves and stop the worker...
StopWorker ==
  /\ main = "stopping"
  /\ accept' = FALSE
  /\ stop' = TRUE
  /\ waitGen' = next
  /\ main' = "stopWait"
  /\ UNCHANGED <<caller, attempt, flushed, cache, dirty, next, pending,
                 flushGen, running>>
  /\ callFrame

\* ...wait for the last generation...
StopDone ==
  /\ main = "stopWait"
  /\ finished >= waitGen \/ ~running
  /\ flushed' = (flushed /\ persisted >= waitGen)
  /\ main' = "join"
  /\ UNCHANGED <<caller, waitGen, attempt, cache, dirty, next, pending,
                 flushGen, flagVars>>
  /\ callFrame

\* ...and join the thread.
JoinWorker ==
  /\ main = "join"
  /\ worker = "stopped"
  /\ main' = "down"
  /\ UNCHANGED <<caller, waitGen, attempt, flushed, cache, dirty, next,
                 pending, flushGen, flagVars>>
  /\ callFrame

-----------------------------------------------------------------------------
(* The save worker                                                         *)

workerFrame == UNCHANGED <<gameVars, next, flushGen, accept, stop, callVars>>

\* The wait at the top of the loop ends with a save to do...
WorkerWake ==
  /\ worker = "wait"
  /\ pending # NoSave
  /\ worker' = "coalesce"
  /\ UNCHANGED <<pending, finished, persisted, running, writing, diskVars>>
  /\ workerFrame

\* ...or with nothing left to write and a request to stop.
WorkerStop ==
  /\ worker = "wait"
  /\ pending = NoSave
  /\ stop
  /\ worker' = "stopped"
  /\ running' = FALSE
  /\ UNCHANGED <<pending, finished, persisted, writing, diskVars>>
  /\ workerFrame

TakePending ==
  /\ worker = "coalesce"
  /\ pending # NoSave
  /\ writing' = pending
  /\ pending' = NoSave
  /\ worker' = IF pending.gen <= persisted THEN "published" ELSE "write"
  /\ UNCHANGED <<finished, persisted, running, diskVars>>
  /\ workerFrame

\* A stop or a flush of this generation cuts the coalescing window short.
CoalesceInterrupted ==
  /\ pending # NoSave
  /\ stop \/ flushGen >= pending.gen
  /\ TakePending

\* save_coalesce_delay of quiet, or save_max_coalesce_delay in all.
CoalesceTimeout ==
  /\ pending # NoSave
  /\ ~stop /\ flushGen < pending.gen
  /\ TakePending

\* WriteAccountData, unlocked: the rename (the SQL commit) replaces the file
\* as a whole.
PublishFile ==
  /\ worker = "write"
  /\ file' = writing
  /\ fileExists' = TRUE
  /\ worker' = "published"
  /\ UNCHANGED <<pending, finished, persisted, running, writing>>
  /\ workerFrame

\* Any step before the rename, or the rename itself, may fail; the published
\* file stays as it was and the snapshot is not queued again.
WriteFails ==
  /\ worker = "write"
  /\ worker' = "failed"
  /\ UNCHANGED <<pending, finished, persisted, running, writing, diskVars>>
  /\ workerFrame

\* Back under the mutex: account for the generation.
FinishedIfWritten == IF worker = "published" THEN writing.gen ELSE finished
FinishedGeneration == IF writing.gen > finished THEN writing.gen ELSE finished
PersistedAnyway == writing.gen
PersistedGeneration ==
  IF worker = "published" /\ writing.gen > persisted THEN writing.gen ELSE persisted
WorkerFinish ==
  /\ worker \in {"published", "failed"}
  /\ finished' = FinishedGeneration
  /\ persisted' = PersistedGeneration
  /\ writing' = NoSave
  /\ worker' = "wait"
  /\ UNCHANGED <<pending, running, diskVars>>
  /\ workerFrame

-----------------------------------------------------------------------------
(* Crash and restart                                                       *)

\* Everything but the published file is lost; temporary files are ignored by
\* Load and truncated by the next write.
Crash ==
  /\ main # "dead"
  /\ main' = "dead"
  /\ accounts' = NoAccounts
  /\ cache' = NoAccounts
  /\ dirty' = {}
  /\ batchDepth' = 0
  /\ batchDirty' = FALSE
  /\ pending' = NoSave
  /\ next' = 0 /\ finished' = 0 /\ persisted' = 0 /\ flushGen' = 0
  /\ accept' = FALSE /\ stop' = FALSE /\ running' = FALSE
  /\ worker' = "stopped"
  /\ writing' = NoSave
  /\ caller' = "game" /\ waitGen' = 0 /\ attempt' = 0 /\ flushed' = FALSE
  /\ UNCHANGED diskVars

\* Load and StartSaveWorker; without a file, Load flushes a fresh one before
\* it returns.
GenerationsRestart == 0
LoadedGeneration == file.gen
Load ==
  /\ main = "dead"
  /\ accounts' = file.accounts
  /\ next' = LoadedGeneration
  /\ finished' = LoadedGeneration
  /\ persisted' = LoadedGeneration
  /\ flushGen' = LoadedGeneration
  /\ accept' = TRUE
  /\ running' = TRUE
  /\ worker' = "wait"
  /\ IF fileExists
     THEN main' = "run" /\ UNCHANGED caller
     ELSE main' = "flush" /\ caller' = "fresh"
  /\ UNCHANGED <<cache, dirty, batchDepth, batchDirty, pending, stop, writing,
                 waitGen, attempt, flushed, diskVars>>

-----------------------------------------------------------------------------

Init ==
  /\ accounts = NoAccounts
  /\ cache = NoAccounts
  /\ dirty = {}
  /\ batchDepth = 0
  /\ batchDirty = FALSE
  /\ pending = NoSave
  /\ next = 0 /\ finished = 0 /\ persisted = 0 /\ flushGen = 0
  /\ accept = FALSE /\ stop = FALSE /\ running = FALSE
  /\ worker = "stopped"
  /\ writing = NoSave
  /\ main = "dead"
  /\ caller = "game" /\ waitGen = 0 /\ attempt = 0 /\ flushed = FALSE
  /\ file = [gen |-> 0, accounts |-> NoAccounts]
  /\ fileExists = FALSE

Operate ==
  \/ BeginBatch
  \/ EndBatch
  \/ \E a \in Account, c \in Content : Mutate(a, c)
  \/ \E a \in Account, c \in Content : Commit(a, c)
  \/ \E a \in Account, c \in Content : CommitRegistration(a, c)
  \/ \E a \in Account : CommitLogin(a)
  \/ \E s \in Sandbox, a \in Account \ Sandbox : RestoreSandboxAccount(s, a)
  \/ \E s \in Sandbox : RemoveSandboxAccount(s)
  \/ \E image \in {Durable(i) : i \in Image} : ImportAccounts(image)

FlushSteps == FlushQueue \/ FlushRequest \/ FlushDone
ShutDownSteps == StopWorker \/ StopDone \/ JoinWorker

Worker ==
  \/ WorkerWake
  \/ WorkerStop
  \/ CoalesceInterrupted
  \/ CoalesceTimeout
  \/ PublishFile
  \/ WriteFails
  \/ WorkerFinish

Next ==
  \/ Operate
  \/ CallFlush
  \/ CallShutDown
  \/ FlushSteps
  \/ ShutDownSteps
  \/ Worker
  \/ Crash
  \/ Load

Spec == Init /\ [][Next]_vars

\* The threads are scheduled and file calls return.  Nothing obliges the
\* game thread to call anything, and CoalesceTimeout is left out: Flush and
\* ShutDown must not depend on the coalescing timer.
ThreadFairness ==
  /\ WF_vars(FlushSteps)
  /\ WF_vars(ShutDownSteps)
  /\ WF_vars(WorkerWake)
  /\ WF_vars(WorkerStop)
  /\ WF_vars(CoalesceInterrupted)
  /\ WF_vars(PublishFile \/ WriteFails)
  /\ WF_vars(WorkerFinish)

FlushSpec == Spec /\ ThreadFairness

-----------------------------------------------------------------------------
(* Properties                                                              *)

TypeOK ==
  /\ accounts \in Image /\ cache \in Image /\ dirty \subseteq Account
  /\ batchDepth \in 0..MaxBatchDepth /\ batchDirty \in BOOLEAN
  /\ pending \in Snapshot \cup {NoSave}
  /\ writing \in Snapshot \cup {NoSave}
  /\ next \in 0..MaxGeneration /\ finished \in 0..MaxGeneration
  /\ persisted \in 0..MaxGeneration /\ flushGen \in 0..MaxGeneration
  /\ waitGen \in 0..MaxGeneration
  /\ accept \in BOOLEAN /\ stop \in BOOLEAN /\ running \in BOOLEAN
  /\ flushed \in BOOLEAN /\ fileExists \in BOOLEAN
  /\ worker \in {"wait", "coalesce", "write", "published", "failed", "stopped"}
  /\ main \in {"run", "flush", "flushQueued", "flushWait", "stopping",
               "stopWait", "join", "down", "dead"}
  /\ caller \in {"game", "fresh", "shutdown"}
  /\ attempt \in 0..FlushAttempts
  /\ file \in Snapshot

\* Every generation handed out is accounted for: it is finished, in the
\* worker's hands, or superseded by the one pending, which is the newest.
\* Were one to slip through, the Flush that waits for it would hang.
GenerationsAccounted ==
  /\ persisted <= finished /\ finished <= next
  /\ writing # NoSave => finished < writing.gen
  /\ pending # NoSave =>
       /\ pending.gen = next /\ finished < next
       /\ writing # NoSave => writing.gen < next
  /\ pending = NoSave => next = IF writing = NoSave THEN finished ELSE writing.gen

\* g_persisted_save_generation never claims more than the file holds, and the
\* file is ahead only between the rename and the worker's bookkeeping.
FileMatchesPersisted ==
  main # "dead" =>
    IF worker = "published" THEN file = writing ELSE file.gen = persisted

\* A key absent from the dirty set has a cached copy equal to memory, as long
\* as a later save can still use that copy.
CachedIsCurrent ==
  Accepting =>
    \A a \in Account \ Sandbox :
      a \notin dirty /\ cache[a] # None => cache[a] = accounts[a]

\* A queued snapshot is memory exactly as it is when the save returns, never
\* mixed with stale cached accounts, and never in the middle of a batch.
SnapshotIsExact ==
  [][pending' \notin {pending, NoSave} =>
       /\ pending'.accounts = Durable(accounts')
       /\ batchDepth' = 0]_vars

\* Flush returns true only when the file holds the accounts of memory.
FlushIsDurable ==
  [][main = "flushWait" /\ main' \notin {"flushWait", "dead"} /\ flushed' =>
       file.accounts = Durable(accounts)]_vars

\* ShutDown returns true only when the file holds the final state of memory,
\* whatever writes failed on the way.
ShutDownIsDurable ==
  main = "down" /\ flushed => file.accounts = Durable(accounts)

\* The store implements its abstract specification.
Captured ==
  {s \in {pending} : s # NoSave} \cup {s \in {writing} : worker = "write"}

D == INSTANCE DurableAccounts WITH
       current  <- IF main = "dead" THEN file.accounts ELSE Durable(accounts),
       inflight <- Captured,
       durable  <- file

ImplementsDurable == D!Spec

\* Flush and ShutDown return, whether or not the writes succeed.
FlushTerminates ==
  main \in {"flush", "flushQueued", "flushWait", "stopping", "stopWait", "join"}
    ~> main \in {"run", "down", "dead"}

\* If the timed wait of the coalescing window ends, a queued generation is
\* written, superseded or known to have failed without anyone asking for it.
QueuedIsFinished ==
  WF_vars(CoalesceTimeout) => \A g \in 1..MaxGeneration : next >= g ~> finished >= g \/ main = "dead"

\* CommitRegistrationInternal: "The account is not visible as committed unless
\* its state was accepted by the persistence pipeline."
RegisteredIsAccepted ==
  \A a \in Account \ Sandbox :
    accounts[a] # None => cache[a] # None \/ file.accounts[a] # None
=============================================================================
