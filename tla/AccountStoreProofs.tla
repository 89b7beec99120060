------------------------- MODULE AccountStoreProofs -------------------------
(***************************************************************************)
(* Proofs about AccountStore, for any accounts, contents, batch depth,     *)
(* number of shutdown attempts and largest generation.                     *)
(***************************************************************************)
EXTENDS AccountStore, TLAPS

Flushing == main \in {"flush", "flushQueued", "flushWait"}

\* The retry loop of ShutDown calls Flush only while it has attempts left.
AttemptsLeft == Flushing /\ caller = "shutdown" => attempt < FlushAttempts

\* The mutex-protected flags and the worker's position agree.
WorkerPhase ==
  /\ running <=> worker # "stopped"
  /\ accept => running /\ ~stop
  /\ writing # NoSave <=> worker \in {"write", "published", "failed"}
  /\ worker = "coalesce" => pending # NoSave
  /\ worker = "stopped" => pending = NoSave

\* A process that is not running holds nothing.
DeadIsEmpty ==
  main = "dead" =>
    /\ accounts = NoAccounts /\ cache = NoAccounts /\ dirty = {}
    /\ ~accept /\ ~stop /\ worker = "stopped"
    /\ next = 0 /\ finished = 0 /\ persisted = 0
    /\ batchDepth = 0

\* While Flush waits, its generation is the newest, and whoever holds that
\* generation holds the accounts of memory.
FlushedStateIsCurrent ==
  /\ Flushing => batchDepth = 0
  /\ main \in {"flushQueued", "flushWait"} =>
       /\ waitGen = next
       /\ pending # NoSave => pending.accounts = Durable(accounts)
       /\ writing # NoSave /\ writing.gen = next => writing.accounts = Durable(accounts)
       /\ file.gen = next => file.accounts = Durable(accounts)

\* Once ShutDown knows of a durable final state, nothing is left to write.
StoppingIsSettled ==
  main \in {"stopping", "stopWait", "join", "down"} /\ flushed =>
    /\ pending = NoSave /\ writing = NoSave
    /\ persisted = next
    /\ file.accounts = Durable(accounts)

IInv ==
  /\ TypeOK
  /\ AttemptsLeft
  /\ WorkerPhase
  /\ DeadIsEmpty
  /\ GenerationsAccounted
  /\ FileMatchesPersisted
  /\ CachedIsCurrent
  /\ FlushedStateIsCurrent
  /\ StoppingIsSettled

-----------------------------------------------------------------------------

LEMMA Images == NoAccounts \in Image /\ \A i \in Image : Durable(i) \in Image
  BY DEF NoAccounts, Image, Entry, Durable

LEMMA NoSaveIsNone == \A s \in Snapshot : s # NoSave
  BY StoreAssumption

LEMMA SnapshotFields ==
  \A s \in Snapshot : s.gen \in 0..MaxGeneration /\ s.accounts \in Image
  BY DEF Snapshot

\* Whatever the cache holds, a capture is an image of accounts.
LEMMA CaptureType ==
  ASSUME TypeOK, NEW image \in Image, NEW marked
  PROVE  Capture(image, marked) \in Image
  <1> DEFINE entry(a) == IF Durable(image)[a] = None THEN None
                         ELSE IF cache[a] = None \/ a \in marked THEN image[a]
                         ELSE cache[a]
  <1>1. \A a \in Account : entry(a) \in Entry
    BY DEF TypeOK, Image, Entry
  <1> QED
    BY <1>1 DEF Capture, Image

\* A capture is exact as soon as every unmarked cached copy is.
LEMMA CaptureExact ==
  ASSUME TypeOK, NEW image \in Image, NEW marked,
         \A a \in Account \ Sandbox :
           a \notin marked /\ cache[a] # None => cache[a] = image[a]
  PROVE  Capture(image, marked) = Durable(image)
  <1>1. \A a \in Account :
          (IF Durable(image)[a] = None THEN None
           ELSE IF cache[a] = None \/ a \in marked THEN image[a] ELSE cache[a])
          = (IF a \in Sandbox THEN None ELSE image[a])
    BY DEF Durable
  <1> QED
    BY <1>1 DEF Capture, Durable

\* What a save does to the queue, for any new state of memory whose unmarked
\* cached copies are current.
LEMMA QueueStep ==
  ASSUME TypeOK, GenerationsAccounted, NEW image \in Image, NEW marked \in SUBSET Account,
         QueueAccountSave(image, marked),
         Accepting => \A a \in Account \ Sandbox :
           a \notin marked /\ cache[a] # None => cache[a] = image[a]
  PROVE  /\ cache' \in Image /\ dirty' = {}
         /\ Accepting =>
              /\ next' = next + 1 /\ next' \in 0..MaxGeneration
              /\ pending' = [gen |-> next', accounts |-> Durable(image)]
              /\ pending' \in Snapshot /\ pending' # NoSave
              /\ pending'.gen = next' /\ pending'.accounts = Durable(image)
              /\ cache' = Durable(image)
         /\ ~Accepting => next' = next /\ pending' = pending
  <1>1. cache' \in Image /\ dirty' = {}
    BY CaptureType DEF QueueAccountSave
  <1>2. CASE Accepting
    <2>1. Capture(image, marked) = Durable(image)
      BY <1>2, CaptureExact
    <2>2. next' = next + 1 /\ pending' = [gen |-> next + 1, accounts |-> Durable(image)]
          /\ cache' = Durable(image)
      BY <1>2, <2>1 DEF QueueAccountSave
    <2>3. next + 1 \in 0..MaxGeneration
      BY <1>2, StoreAssumption DEF Accepting, TypeOK
    <2>4. Durable(image) \in Image
      BY Images
    <2>5. [gen |-> next + 1, accounts |-> Durable(image)] \in Snapshot
      BY <2>3, <2>4 DEF Snapshot
    <2> QED
      BY <1>1, <1>2, <2>2, <2>3, <2>5, NoSaveIsNone
  <1>3. CASE ~Accepting
    BY <1>1, <1>3 DEF QueueAccountSave
  <1> QED
    BY <1>2, <1>3

-----------------------------------------------------------------------------
(* IInv is inductive                                                       *)

LEMMA ZeroInBounds ==
  /\ 0 \in 0..MaxGeneration /\ 0 \in 0..MaxBatchDepth /\ 0 \in 0..FlushAttempts
  BY StoreAssumption

LEMMA InitInv == Init => IInv
  <1> SUFFICES ASSUME Init PROVE IInv
    OBVIOUS
  <1>1. file \in Snapshot
    BY Images, ZeroInBounds DEF Init, Snapshot
  <1>2. TypeOK
    BY <1>1, Images, ZeroInBounds DEF Init, TypeOK
  <1> QED
    BY <1>2
    DEF Init, IInv, AttemptsLeft, WorkerPhase, DeadIsEmpty,
        GenerationsAccounted, FileMatchesPersisted, CachedIsCurrent,
        Accepting, FlushedStateIsCurrent, StoppingIsSettled, Flushing

\* Steps of the worker leave the accounts of memory alone.
LEMMA WorkerInv ==
  ASSUME IInv, Worker
  PROVE  IInv'
  <1> USE SnapshotFields, NoSaveIsNone
      DEF IInv, TypeOK, AttemptsLeft, WorkerPhase, DeadIsEmpty,
          GenerationsAccounted, FileMatchesPersisted, CachedIsCurrent,
          Accepting, FlushedStateIsCurrent, StoppingIsSettled, Flushing,
          Durable, workerFrame, gameVars, callVars, diskVars
  <1>1. CASE WorkerWake
    BY <1>1 DEF WorkerWake
  <1>2. CASE WorkerStop
    <2>1. ~accept /\ writing = NoSave
      BY <1>2 DEF WorkerStop
    <2>2. FlushedStateIsCurrent' /\ StoppingIsSettled' /\ CachedIsCurrent'
      BY <1>2, <2>1 DEF WorkerStop
    <2>3. TypeOK' /\ WorkerPhase' /\ GenerationsAccounted' /\ FileMatchesPersisted'
      BY <1>2, <2>1 DEF WorkerStop
    <2> QED
      BY <1>2, <2>1, <2>2, <2>3 DEF WorkerStop
  <1>3. CASE TakePending
    <2>1. writing = NoSave /\ finished < pending.gen /\ pending.gen = next
          /\ persisted < pending.gen /\ pending \in Snapshot
      BY <1>3 DEF TakePending
    <2>2. worker' = "write"
      BY <1>3, <2>1 DEF TakePending
    <2> QED
      BY <1>3, <2>1, <2>2 DEF TakePending
  <1>4. CASE PublishFile
    BY <1>4 DEF PublishFile
  <1>5. CASE WriteFails
    BY <1>5 DEF WriteFails
  <1>6. CASE WorkerFinish
    BY <1>6 DEF WorkerFinish, FinishedGeneration, PersistedGeneration
  <1> QED
    BY <1>1, <1>2, <1>3, <1>4, <1>5, <1>6
    DEF Worker, CoalesceInterrupted, CoalesceTimeout

\* Calls and waits of the game thread that queue nothing.
LEMMA CallInv ==
  ASSUME IInv,
         CallFlush \/ CallShutDown \/ FlushRequest \/ FlushDone \/ ShutDownSteps
  PROVE  IInv'
  <1> USE SnapshotFields, NoSaveIsNone, StoreAssumption
      DEF IInv, TypeOK, AttemptsLeft, WorkerPhase, DeadIsEmpty,
          GenerationsAccounted, FileMatchesPersisted, CachedIsCurrent,
          Accepting, FlushedStateIsCurrent, StoppingIsSettled, Flushing,
          Playing, Durable, callFrame, flagVars, workerVars, diskVars
  <1>1. CASE CallFlush
    BY <1>1 DEF CallFlush
  <1>2. CASE CallShutDown
    BY <1>2 DEF CallShutDown
  <1>3. CASE FlushRequest
    BY <1>3 DEF FlushRequest, RequestedGeneration
  <1>4. CASE FlushDone
    <2> USE <1>4 DEF FlushDone, FlushSucceeded
    <2>1. FlushSucceeded =>
            /\ pending = NoSave /\ writing = NoSave /\ persisted = next
            /\ file.accounts = Durable(accounts)
      OBVIOUS
    <2>2. /\ flushed' = FlushSucceeded
          /\ main' \in {"run", "flush", "stopping"}
          /\ main' = "flush" => caller' = "shutdown" /\ attempt' < FlushAttempts
          /\ caller' \in {"game", "fresh", "shutdown"}
          /\ attempt' \in 0..FlushAttempts
      BY DEF FlushReturns
    <2>3. flushed' \in BOOLEAN
      BY <2>2
    <2> HIDE DEF FlushSucceeded
    <2>4. TypeOK'
      BY <2>2, <2>3
    <2>5. FlushedStateIsCurrent' /\ StoppingIsSettled'
      BY <2>1, <2>2
    <2> QED
      BY <2>2, <2>4, <2>5
  <1>5. CASE StopWorker
    BY <1>5 DEF StopWorker
  <1>6. CASE StopDone
    BY <1>6 DEF StopDone
  <1>7. CASE JoinWorker
    BY <1>7 DEF JoinWorker
  <1> QED
    BY <1>1, <1>2, <1>3, <1>4, <1>5, <1>6, <1>7 DEF ShutDownSteps

LEMMA RestartInv ==
  ASSUME IInv, Crash \/ Load
  PROVE  IInv'
  <1> USE SnapshotFields
      DEF IInv, AttemptsLeft, WorkerPhase, DeadIsEmpty,
          GenerationsAccounted, FileMatchesPersisted, CachedIsCurrent,
          Accepting, FlushedStateIsCurrent, StoppingIsSettled, Flushing,
          diskVars
  <1>1. CASE Crash
    <2>1. TypeOK'
      BY <1>1, Images, ZeroInBounds DEF Crash, TypeOK
    <2> QED
      BY <1>1, <2>1 DEF Crash
  <1>2. CASE Load
    <2>1. TypeOK'
      BY <1>2, ZeroInBounds DEF Load, LoadedGeneration, TypeOK
    <2> QED
      BY <1>2, <2>1 DEF Load, LoadedGeneration, NoAccounts, TypeOK
  <1> QED
    BY <1>1, <1>2

\* Flush queues the state of memory under a new generation.
LEMMA FlushQueueInv ==
  ASSUME IInv, FlushQueue
  PROVE  IInv'
  <1> USE DEF FlushQueue, callFrame, flagVars, workerVars, diskVars
  <1>1. /\ cache' \in Image /\ dirty' = {}
        /\ Accepting =>
             /\ next' = next + 1 /\ next' \in 0..MaxGeneration
             /\ pending' \in Snapshot /\ pending' # NoSave
             /\ pending'.gen = next' /\ pending'.accounts = Durable(accounts)
             /\ cache' = Durable(accounts)
        /\ ~Accepting => next' = next /\ pending' = pending
    BY QueueStep DEF IInv, TypeOK, CachedIsCurrent
  <1> USE SnapshotFields, NoSaveIsNone
      DEF IInv, TypeOK, AttemptsLeft, WorkerPhase, DeadIsEmpty,
          GenerationsAccounted, FileMatchesPersisted, CachedIsCurrent,
          FlushedStateIsCurrent, StoppingIsSettled, Flushing, Accepting
  <1>2. CASE Accepting
    BY <1>1, <1>2 DEF Durable
  <1>3. CASE ~Accepting
    <2>1. /\ flushed' = FALSE
          /\ main' \in {"run", "flush", "stopping"}
          /\ main' = "flush" => caller' = "shutdown" /\ attempt' < FlushAttempts
          /\ caller' \in {"game", "fresh", "shutdown"}
          /\ attempt' \in 0..FlushAttempts
      BY <1>3, StoreAssumption DEF FlushReturns
    <2>2. TypeOK' /\ GenerationsAccounted' /\ CachedIsCurrent'
      BY <1>1, <1>3, <2>1
    <2>3. FlushedStateIsCurrent' /\ StoppingIsSettled' /\ FileMatchesPersisted'
      BY <1>1, <1>3, <2>1
    <2> QED
      BY <1>1, <1>3, <2>1, <2>2, <2>3
  <1> QED
    BY <1>2, <1>3

\* The cache fits an image of memory: what is cached and unmarked is current.
Fits(image, copies, marked) ==
  \A a \in Account \ Sandbox :
    a \notin marked /\ copies[a] # None => copies[a] = image[a]

\* All that an operation of the game can do to the queue: nothing, or capture
\* an image exactly, under the next generation.
QueueEffect(image) ==
  /\ cache' \in Image /\ dirty' \in SUBSET Account
  /\ \/ next' = next /\ pending' = pending
     \/ /\ Accepting
        /\ next' = next + 1 /\ next' \in 0..MaxGeneration
        /\ pending' = [gen |-> next', accounts |-> Durable(image)]
        /\ pending' \in Snapshot /\ pending'.gen = next'

LEMMA QueueAccountSaveStep ==
  ASSUME TypeOK, GenerationsAccounted, NEW image \in Image,
         NEW marked \in SUBSET Account, QueueAccountSave(image, marked),
         UNCHANGED <<accept, running>>, Accepting => Fits(image, cache, marked)
  PROVE  /\ QueueEffect(image)
         /\ Accepting' => Fits(image, cache', dirty')
         /\ ~Accepting => ~Accepting' /\ next' = next
  <1>1. CASE Accepting
    BY <1>1, QueueStep DEF Fits, QueueEffect, Durable
  <1>2. CASE ~Accepting
    BY <1>2, QueueStep DEF QueueEffect, Accepting
  <1> QED
    BY <1>1, <1>2

LEMMA SaveStep ==
  ASSUME TypeOK, GenerationsAccounted, NEW image \in Image,
         NEW marked \in SUBSET Account, Save(image, marked),
         UNCHANGED <<accept, running>>, Accepting => Fits(image, cache, marked)
  PROVE  /\ QueueEffect(image) /\ batchDirty' \in BOOLEAN
         /\ Accepting' => Fits(image, cache', dirty')
         /\ ~SaveSucceeds => ~Accepting' /\ next' = next
         /\ next' # next => batchDepth = 0
  <1>1. CASE batchDepth > 0
    BY <1>1 DEF Save, SaveSucceeds, QueueEffect, TypeOK, Accepting
  <1>2. CASE ~(batchDepth > 0)
    BY <1>2, QueueAccountSaveStep DEF Save, SaveSucceeds, TypeOK
  <1> QED
    BY <1>1, <1>2

\* An operation that keeps the accounts typed, affects the queue as above and
\* leaves a fitting cache keeps IInv.
LEMMA GameStep ==
  ASSUME IInv, Playing, QueueEffect(accounts'),
         accounts' \in Image, batchDirty' \in BOOLEAN,
         batchDepth' \in 0..MaxBatchDepth,
         Accepting' => Fits(accounts', cache', dirty'),
         UNCHANGED <<finished, persisted, flushGen, flagVars, workerVars,
                     callVars, diskVars>>
  PROVE  IInv'
  <1> USE DEF IInv, Playing, flagVars, workerVars, callVars, diskVars
  <1>1. TypeOK'
    BY DEF TypeOK, QueueEffect
  <1>2. /\ AttemptsLeft' /\ DeadIsEmpty' /\ FileMatchesPersisted'
        /\ FlushedStateIsCurrent' /\ StoppingIsSettled'
    BY DEF AttemptsLeft, DeadIsEmpty, FileMatchesPersisted, Flushing,
           FlushedStateIsCurrent, StoppingIsSettled
  <1>3. CachedIsCurrent'
    BY DEF CachedIsCurrent, Fits
  <1>4. WorkerPhase' /\ GenerationsAccounted'
    <2>1. CASE next' = next /\ pending' = pending
      BY <2>1 DEF WorkerPhase, GenerationsAccounted
    <2>2. CASE /\ Accepting
               /\ next' = next + 1
               /\ pending' \in Snapshot /\ pending'.gen = next'
      BY <2>2, NoSaveIsNone, SnapshotFields
      DEF WorkerPhase, GenerationsAccounted, TypeOK, Accepting
    <2> QED
      BY <2>1, <2>2 DEF QueueEffect
  <1> QED
    BY <1>1, <1>2, <1>3, <1>4

\* An operation of the game keeps IInv, and what it queues is memory as it is
\* afterwards, outside any batch.
LEMMA OperateInv ==
  ASSUME IInv, Operate
  PROVE  /\ IInv'
         /\ QueueEffect(accounts')
         /\ next' # next => batchDepth' = 0
  <1> DEFINE Kept == /\ IInv'
                     /\ QueueEffect(accounts')
                     /\ next' # next => batchDepth' = 0
  <1> USE DEF gameFrame, genVars, flagVars
  <1>a. TypeOK /\ GenerationsAccounted /\ CachedIsCurrent
    BY DEF IInv
  <1>b. \A a \in Account, c \in Entry : [accounts EXCEPT ![a] = c] \in Image
    BY <1>a DEF TypeOK, Image
  <1>c. \A a \in Account : FindAccount(a) \in SUBSET Account
    BY <1>a DEF TypeOK, FindAccount
  <1>d. Accepting => Fits(accounts, cache, dirty)
    BY <1>a DEF CachedIsCurrent, Fits
  \* A change of one account, its key marked, leaves a fitting cache.
  <1>e. \A a \in Account, c \in Entry :
          Accepting => Fits([accounts EXCEPT ![a] = c], cache, FindAccount(a))
    BY <1>a, <1>d DEF Fits, FindAccount, TypeOK, Image
  <1>f. UNCHANGED <<accept, running>>
    BY DEF Operate, BeginBatch, EndBatch, Mutate, Commit, CommitRegistration,
           CommitLogin, RestoreSandboxAccount, RemoveSandboxAccount, ImportAccounts
  <1>1. CASE BeginBatch
    <2>1. QueueEffect(accounts') /\ batchDepth' \in 0..MaxBatchDepth /\ batchDirty' \in BOOLEAN
      BY <1>1, <1>a, StoreAssumption DEF BeginBatch, QueueEffect, TypeOK
    <2> QED
      BY <1>1, <1>a, <1>d, <2>1, GameStep DEF BeginBatch, TypeOK, Accepting
  <1>2. CASE EndBatch
    <2>1. QueueEffect(accounts') /\ batchDirty' \in BOOLEAN
          /\ (Accepting' => Fits(accounts', cache', dirty'))
          /\ (next' # next => batchDepth' = 0)
      <3>1. CASE BatchSaveDue
        <4>1. /\ QueueAccountSave(accounts, dirty) /\ accounts' = accounts
              /\ batchDirty' = FALSE /\ batchDepth' = batchDepth - 1
              /\ batchDepth = 1
          BY <1>2, <3>1 DEF EndBatch, BatchSaveDue
        <4>2. accounts \in Image /\ dirty \in SUBSET Account
          BY <1>a DEF TypeOK
        <4>3. /\ QueueEffect(accounts)
              /\ Accepting' => Fits(accounts, cache', dirty')
          BY <4>1, <4>2, <1>a, <1>d, <1>f, QueueAccountSaveStep
        <4>4. batchDirty' \in BOOLEAN
          BY <4>1
        <4>5. batchDepth' = 0
          BY <4>1
        <4>6. QueueEffect(accounts') /\ (Accepting' => Fits(accounts', cache', dirty'))
          BY <4>1, <4>3 DEF QueueEffect, Fits
        <4> QED
          BY <4>4, <4>5, <4>6
      <3>2. CASE ~BatchSaveDue
        BY <1>2, <3>2, <1>a, <1>d DEF EndBatch, QueueEffect, TypeOK, Accepting
      <3> QED
        BY <3>1, <3>2
    <2>2. batchDepth' \in 0..MaxBatchDepth
      BY <1>2, <1>a, StoreAssumption DEF EndBatch, TypeOK
    <2>3. /\ Playing /\ accounts' \in Image
          /\ UNCHANGED <<finished, persisted, flushGen, flagVars, workerVars,
                         callVars, diskVars>>
      BY <1>2, <1>a DEF EndBatch, TypeOK
    <2>4. IInv'
      BY <2>1, <2>2, <2>3, GameStep
    <2> QED
      BY <2>1, <2>4
  <1>3. ASSUME NEW a \in Account, NEW c \in Content, Mutate(a, c)
        PROVE  Kept
    <2>1. accounts' \in Image /\ (Accepting => Fits(accounts', cache, FindAccount(a)))
      BY <1>3, <1>b, <1>e DEF Mutate, Entry
    <2>2. QueueEffect(accounts') /\ batchDirty' \in BOOLEAN
          /\ (Accepting' => Fits(accounts', cache', dirty'))
          /\ (next' # next => batchDepth' = 0)
      BY <1>3, <1>a, <1>c, <1>f, <2>1, SaveStep DEF Mutate
    <2> QED
      BY <1>3, <1>a, <2>1, <2>2, GameStep DEF Mutate, TypeOK
  <1>4. ASSUME NEW a \in Account, NEW c \in Content, Commit(a, c)
        PROVE  Kept
    <2> DEFINE changed == [accounts EXCEPT ![a] = c]
    <2>1. changed \in Image /\ (Accepting => Fits(changed, cache, FindAccount(a)))
      BY <1>b, <1>e DEF Entry
    <2>2. QueueEffect(changed) /\ batchDirty' \in BOOLEAN
          /\ (Accepting' => Fits(changed, cache', dirty'))
          /\ (~SaveSucceeds => ~Accepting' /\ next' = next)
          /\ (next' # next => batchDepth' = 0)
      BY <1>4, <1>a, <1>c, <1>f, <2>1, SaveStep DEF Commit
    <2>3. /\ accounts' \in Image
          /\ Accepting' => Fits(accounts', cache', dirty')
          /\ QueueEffect(accounts')
      <3>1. CASE SaveSucceeds
        BY <1>4, <2>1, <2>2, <3>1 DEF Commit
      <3>2. CASE ~SaveSucceeds
        BY <1>4, <1>a, <1>c, <2>2, <3>2, StoreAssumption
        DEF Commit, TypeOK, QueueEffect
      <3> QED
        BY <3>1, <3>2
    <2> QED
      BY <1>4, <1>a, <2>2, <2>3, GameStep DEF Commit, TypeOK
  <1>5. ASSUME NEW a \in Account, NEW c \in Content, CommitRegistration(a, c)
        PROVE  Kept
    <2> DEFINE added == [accounts EXCEPT ![a] = c]
    <2>1. added \in Image
      BY <1>b DEF Entry
    \* An absent account has no clean cached copy, so its key need not be marked.
    <2>2. Accepting => Fits(added, cache, dirty)
      BY <1>5, <1>a, <1>d DEF CommitRegistration, Fits, TypeOK, Image
    <2>3. QueueEffect(added) /\ batchDirty' \in BOOLEAN
          /\ (Accepting' => Fits(added, cache', dirty'))
          /\ (~SaveSucceeds => ~Accepting' /\ next' = next)
          /\ (next' # next => batchDepth' = 0)
      BY <1>5, <1>a, <1>f, <2>1, <2>2, SaveStep DEF CommitRegistration, TypeOK
    <2>4. /\ accounts' \in Image
          /\ Accepting' => Fits(accounts', cache', dirty')
          /\ QueueEffect(accounts')
      <3>1. CASE SaveSucceeds
        BY <1>5, <2>1, <2>3, <3>1 DEF CommitRegistration
      <3>2. CASE ~SaveSucceeds
        BY <1>5, <1>a, <2>3, <3>2, StoreAssumption
        DEF CommitRegistration, TypeOK, QueueEffect
      <3> QED
        BY <3>1, <3>2
    <2> QED
      BY <1>5, <1>a, <2>3, <2>4, GameStep DEF CommitRegistration, TypeOK
  <1>6. ASSUME NEW a \in Account, CommitLogin(a)
        PROVE  Kept
    <2>1. QueueEffect(accounts') /\ (Accepting' => Fits(accounts', cache', dirty'))
      BY <1>6, <1>a, <1>c, <1>d
      DEF CommitLogin, QueueEffect, Accepting, Fits, FindAccount, TypeOK
    <2> QED
      BY <1>6, <1>a, <2>1, GameStep DEF CommitLogin, TypeOK
  <1>7. ASSUME NEW s \in Sandbox, NEW a \in Account \ Sandbox,
               RestoreSandboxAccount(s, a)
        PROVE  Kept
    <2>0. s \in Account /\ accounts[a] \in Entry
      BY <1>a, StoreAssumption DEF TypeOK, Image
    <2>1. accounts' \in Image /\ dirty' \in SUBSET Account
      BY <1>7, <1>a, <1>b, <1>c, <2>0 DEF RestoreSandboxAccount, TypeOK
    <2>2. Accepting' => Fits(accounts', cache', dirty')
      BY <1>7, <1>a, <1>d, <2>0
      DEF RestoreSandboxAccount, Fits, FindAccount, TypeOK, Image, Accepting
    <2> QED
      BY <1>7, <1>a, <2>1, <2>2, GameStep
      DEF RestoreSandboxAccount, TypeOK, QueueEffect
  <1>8. ASSUME NEW s \in Sandbox, RemoveSandboxAccount(s)
        PROVE  Kept
    <2>1. accounts' \in Image
      BY <1>8, <1>b, StoreAssumption DEF RemoveSandboxAccount, Entry
    <2>2. Accepting' => Fits(accounts', cache', dirty')
      BY <1>8, <1>a, <1>d, StoreAssumption
      DEF RemoveSandboxAccount, Fits, TypeOK, Image, Accepting
    <2> QED
      BY <1>8, <1>a, <2>1, <2>2, GameStep
      DEF RemoveSandboxAccount, TypeOK, QueueEffect
  <1>9. ASSUME NEW image \in {Durable(i) : i \in Image}, ImportAccounts(image)
        PROVE  Kept
    <2>1. image \in Image /\ Durable(image) \in Image
      BY Images
    <2>2. QueueEffect(accounts')
      <3>1. CASE Accepting
        <4>1. next + 1 \in 0..MaxGeneration
          BY <3>1, <1>a, StoreAssumption DEF Accepting, TypeOK
        <4> QED
          BY <1>9, <3>1, <4>1, <2>1 DEF ImportAccounts, QueueEffect, Snapshot
      <3>2. CASE ~Accepting
        BY <1>9, <3>2, <2>1 DEF ImportAccounts, QueueEffect
      <3> QED
        BY <3>1, <3>2
    <2>3. Fits(accounts', cache', dirty')
      BY <1>9 DEF ImportAccounts, Fits, Durable
    <2> QED
      BY <1>9, <1>a, <2>1, <2>2, <2>3, GameStep DEF ImportAccounts, TypeOK
  <1> QED
    BY <1>1, <1>2, <1>3, <1>4, <1>5, <1>6, <1>7, <1>8, <1>9 DEF Operate

-----------------------------------------------------------------------------
(* Theorems                                                                *)

LEMMA StepInv == IInv /\ [Next]_vars => IInv'
  <1> SUFFICES ASSUME IInv, [Next]_vars PROVE IInv'
    OBVIOUS
  <1>1. CASE Operate
    BY <1>1, OperateInv
  <1>2. CASE CallFlush \/ CallShutDown \/ FlushRequest \/ FlushDone \/ ShutDownSteps
    BY <1>2, CallInv
  <1>3. CASE FlushQueue
    BY <1>3, FlushQueueInv
  <1>4. CASE Worker
    BY <1>4, WorkerInv
  <1>5. CASE Crash \/ Load
    BY <1>5, RestartInv
  <1>6. CASE UNCHANGED vars
    BY <1>6
    DEF vars, gameVars, genVars, flagVars, workerVars, callVars, diskVars, IInv,
        TypeOK, AttemptsLeft, WorkerPhase, DeadIsEmpty, GenerationsAccounted,
        FileMatchesPersisted, CachedIsCurrent, FlushedStateIsCurrent,
        StoppingIsSettled, Flushing, Accepting
  <1> QED
    BY <1>1, <1>2, <1>3, <1>4, <1>5, <1>6 DEF Next, FlushSteps

\* The inductive invariant holds in every reachable state.
THEOREM Invariance == Spec => []IInv
  BY InitInv, StepInv, PTL DEF Spec

\* Every variable of the store keeps its type.
THEOREM TypeCorrect == Spec => []TypeOK
  <1>1. IInv => TypeOK
    BY DEF IInv
  <1> QED
    BY <1>1, Invariance, PTL

\* No generation that was handed out is ever forgotten.
THEOREM Accounted == Spec => []GenerationsAccounted
  <1>1. IInv => GenerationsAccounted
    BY DEF IInv
  <1> QED
    BY <1>1, Invariance, PTL

\* What the store believes persisted is what the file holds.
THEOREM Persistence == Spec => []FileMatchesPersisted
  <1>1. IInv => FileMatchesPersisted
    BY DEF IInv
  <1> QED
    BY <1>1, Invariance, PTL

\* The snapshot cache is never stale while it can still be used.
THEOREM CacheCoherence == Spec => []CachedIsCurrent
  <1>1. IInv => CachedIsCurrent
    BY DEF IInv
  <1> QED
    BY <1>1, Invariance, PTL

\* A successful ShutDown leaves the final accounts on disk.
THEOREM ShutDownDurability == Spec => []ShutDownIsDurable
  <1>1. IInv => ShutDownIsDurable
    BY DEF IInv, StoppingIsSettled, ShutDownIsDurable
  <1> QED
    BY <1>1, Invariance, PTL

-----------------------------------------------------------------------------
(* What a step may never do                                                *)

\* The only steps that queue a snapshot are operations of the game and
\* Flush.
LEMMA QueuedExactly ==
  ASSUME IInv, Next, pending' \notin {pending, NoSave}
  PROVE  /\ pending' = [gen |-> next', accounts |-> Durable(accounts')]
         /\ accounts' \in Image /\ next' = next + 1 /\ next' \in 1..MaxGeneration
         /\ batchDepth' = 0 /\ main # "dead" /\ main' # "dead"
         /\ UNCHANGED <<workerVars, diskVars>>
  <1>1. CASE Operate
    <2>1. IInv' /\ QueueEffect(accounts') /\ (next' # next => batchDepth' = 0)
      BY <1>1, OperateInv
    <2>2. UNCHANGED <<main, workerVars, diskVars>> /\ main = "run"
      BY <1>1
      DEF Operate, BeginBatch, EndBatch, Mutate, Commit, CommitRegistration,
          CommitLogin, RestoreSandboxAccount, RemoveSandboxAccount,
          ImportAccounts, gameFrame, Playing, callVars
    <2>3. next' = next + 1 /\ next \in 0..MaxGeneration /\ next' \in 0..MaxGeneration
          /\ pending' = [gen |-> next', accounts |-> Durable(accounts')]
      BY <2>1 DEF QueueEffect, IInv, TypeOK
    <2>4. accounts' \in Image
      BY <2>1 DEF IInv, TypeOK
    <2> QED
      BY <2>1, <2>2, <2>3, <2>4
  <1>2. CASE FlushQueue
    <2>1. /\ Accepting /\ next' = next + 1 /\ next' \in 0..MaxGeneration
          /\ pending' = [gen |-> next', accounts |-> Durable(accounts)]
      BY <1>2, QueueStep DEF FlushQueue, IInv, TypeOK, CachedIsCurrent
    <2>2. batchDepth = 0 /\ accounts \in Image /\ next \in 0..MaxGeneration
      BY <1>2 DEF FlushQueue, IInv, TypeOK, FlushedStateIsCurrent, Flushing
    <2> QED
      BY <1>2, <2>1, <2>2 DEF FlushQueue, callFrame
  <1>3. CASE CallFlush \/ CallShutDown \/ FlushRequest \/ FlushDone \/ ShutDownSteps
    BY <1>3
    DEF CallFlush, CallShutDown, FlushRequest, FlushDone, ShutDownSteps,
        StopWorker, StopDone, JoinWorker
  <1>4. CASE Worker \/ Crash \/ Load
    BY <1>4
    DEF Worker, WorkerWake, WorkerStop, CoalesceInterrupted, CoalesceTimeout,
        TakePending, PublishFile, WriteFails, WorkerFinish, Crash, Load
  <1> QED
    BY <1>1, <1>2, <1>3, <1>4 DEF Next, FlushSteps

\* Every snapshot queued is the memory of one moment, outside any batch.
THEOREM SnapshotExactness == Spec => SnapshotIsExact
  <1>1. IInv /\ [Next]_vars =>
          [pending' \notin {pending, NoSave} =>
             /\ pending'.accounts = Durable(accounts')
             /\ batchDepth' = 0]_vars
    <2> SUFFICES ASSUME IInv, Next, pending' \notin {pending, NoSave}
                 PROVE  pending'.accounts = Durable(accounts') /\ batchDepth' = 0
      OBVIOUS
    <2> QED
      BY QueuedExactly
  <1> QED
    BY <1>1, Invariance, PTL DEF Spec, SnapshotIsExact

\* A Flush that returns true leaves the accounts of memory in the file.
THEOREM FlushDurability == Spec => FlushIsDurable
  <1>1. IInv /\ [Next]_vars =>
          [main = "flushWait" /\ main' \notin {"flushWait", "dead"} /\ flushed' =>
             file.accounts = Durable(accounts)]_vars
    <2> SUFFICES ASSUME IInv, Next, main = "flushWait",
                        main' \notin {"flushWait", "dead"}, flushed'
                 PROVE  file.accounts = Durable(accounts)
      OBVIOUS
    <2>1. FlushDone
      BY DEF Next, Operate, BeginBatch, EndBatch, Mutate, Commit,
             CommitRegistration, CommitLogin, RestoreSandboxAccount,
             RemoveSandboxAccount, ImportAccounts, Playing, CallFlush,
             CallShutDown, FlushSteps, FlushQueue, FlushRequest, ShutDownSteps,
             StopWorker, StopDone, JoinWorker, Worker, WorkerWake, WorkerStop,
             CoalesceInterrupted, CoalesceTimeout, TakePending, PublishFile,
             WriteFails, WorkerFinish, workerFrame, callVars, Crash, Load
    <2>2. FlushSucceeded
      BY <2>1 DEF FlushDone, FlushReturns
    <2> QED
      BY <2>2, SnapshotFields
      DEF FlushSucceeded, IInv, TypeOK, WorkerPhase, GenerationsAccounted,
          FileMatchesPersisted, FlushedStateIsCurrent
  <1> QED
    BY <1>1, Invariance, PTL DEF Spec, FlushIsDurable

-----------------------------------------------------------------------------
(* The store implements DurableAccounts                                    *)

Pure(image) == image = Durable(image)

\* No sandbox account reaches the queue, the worker or the file.
NoSandboxOnDisk ==
  /\ Pure(file.accounts)
  /\ pending # NoSave => Pure(pending.accounts)
  /\ writing # NoSave => Pure(writing.accounts)

LEMMA DurableIsPure == \A image : Pure(Durable(image))
  BY DEF Pure, Durable

LEMMA NoSandboxInit == Init => NoSandboxOnDisk
  BY DEF Init, NoSandboxOnDisk, Pure, Durable, NoAccounts

LEMMA NoSandboxStep == IInv /\ NoSandboxOnDisk /\ [Next]_vars => NoSandboxOnDisk'
  <1> SUFFICES ASSUME IInv, NoSandboxOnDisk, [Next]_vars
               PROVE  NoSandboxOnDisk'
    OBVIOUS
  <1>1. CASE Next /\ pending' \notin {pending, NoSave}
    <2>1. /\ pending' = [gen |-> next', accounts |-> Durable(accounts')]
          /\ UNCHANGED <<workerVars, diskVars>>
      BY <1>1, QueuedExactly
    <2> QED
      BY <2>1, DurableIsPure DEF NoSandboxOnDisk, workerVars, diskVars, Pure
  <1>2. CASE Next /\ pending' \in {pending, NoSave}
    <2>1. /\ file' \in {file, writing}
          /\ file' # file => worker = "write"
          /\ writing' \in {writing, NoSave, pending}
      BY <1>2
      DEF Next, Operate, BeginBatch, EndBatch, Mutate, Commit,
          CommitRegistration, CommitLogin, RestoreSandboxAccount,
          RemoveSandboxAccount, ImportAccounts, gameFrame, CallFlush,
          CallShutDown, FlushSteps, FlushQueue, FlushRequest, FlushDone,
          ShutDownSteps, StopWorker, StopDone, JoinWorker, callFrame, Worker,
          WorkerWake, WorkerStop, CoalesceInterrupted, CoalesceTimeout,
          TakePending, PublishFile, WriteFails, WorkerFinish, Crash, Load,
          workerVars, diskVars
    <2> QED
      BY <1>2, <2>1 DEF NoSandboxOnDisk, IInv, WorkerPhase, Pure
  <1>3. CASE UNCHANGED vars
    BY <1>3 DEF vars, workerVars, diskVars, NoSandboxOnDisk, Pure
  <1> QED
    BY <1>1, <1>2, <1>3

\* The abstract memory of a running and of a stopped process.
Memory == IF main = "dead" THEN file.accounts ELSE Durable(accounts)

LEMMA AbstractInit == Init => D!Init
  BY DEF Init, D!Init, Captured, NoAccounts

LEMMA AbstractStep ==
  IInv /\ NoSandboxOnDisk /\ NoSandboxOnDisk' /\ IInv' /\ [Next]_vars => [D!Next]_D!vars
  <1> SUFFICES ASSUME IInv, NoSandboxOnDisk, NoSandboxOnDisk', IInv', [Next]_vars
               PROVE  [D!Next]_D!vars
    OBVIOUS
  <1>a. Memory \in Image /\ Memory' \in Image
    BY Images, SnapshotFields DEF Memory, IInv, TypeOK
  <1> USE DEF Captured
  \* A save captures the new memory; what the worker is writing stays captured.
  <1>1. CASE Next /\ pending' \notin {pending, NoSave}
    <2>1. /\ pending' = [gen |-> next', accounts |-> Durable(accounts')]
          /\ next' = next + 1 /\ next' \in 1..MaxGeneration
          /\ main # "dead" /\ main' # "dead"
          /\ UNCHANGED <<worker, writing, file>>
      BY <1>1, QueuedExactly DEF workerVars, diskVars
    <2> DEFINE kept == {s \in {writing} : worker = "write"}
    <2>2. kept \in SUBSET Captured
      OBVIOUS
    <2>3. Captured' = kept \cup {[gen |-> next', accounts |-> Memory']}
      BY <1>1, <2>1 DEF Memory
    <2>4. next' > file.gen /\ \A s \in Captured : next' > s.gen
      BY <2>1, SnapshotFields
      DEF IInv, TypeOK, GenerationsAccounted, FileMatchesPersisted, WorkerPhase
    <2>5. D!Capture
      BY <1>a, <2>1, <2>2, <2>3, <2>4 DEF D!Capture, Memory
    <2> QED
      BY <2>5 DEF D!Next
  <1>2. CASE Operate /\ pending' \in {pending, NoSave}
    <2>1. UNCHANGED <<main, worker, writing, file>> /\ main = "run"
      BY <1>2
      DEF Operate, BeginBatch, EndBatch, Mutate, Commit, CommitRegistration,
          CommitLogin, RestoreSandboxAccount, RemoveSandboxAccount,
          ImportAccounts, gameFrame, Playing, callVars, workerVars, diskVars
    <2>2. pending' = pending
      <3>1. IInv' /\ QueueEffect(accounts')
        BY <1>2, OperateInv
      <3> QED
        BY <1>2, <3>1, NoSaveIsNone DEF QueueEffect
    <2>3. D!Update
      BY <1>a, <2>1, <2>2 DEF D!Update, Memory
    <2> QED
      BY <2>3 DEF D!Next
  <1>3. CASE (FlushSteps \/ CallFlush \/ CallShutDown \/ ShutDownSteps)
             /\ pending' \in {pending, NoSave}
    <2>1. UNCHANGED <<accounts, worker, writing, file>> /\ main # "dead" /\ main' # "dead"
      BY <1>3
      DEF FlushSteps, FlushQueue, FlushRequest, FlushDone, FlushReturns,
          CallFlush, CallShutDown, ShutDownSteps, StopWorker, StopDone,
          JoinWorker, callFrame, Playing, workerVars, diskVars
    <2>2. pending' = pending
      <3>1. CASE FlushQueue
        BY <1>3, <3>1, QueueStep DEF FlushQueue, IInv, TypeOK, CachedIsCurrent
      <3>2. CASE ~FlushQueue
        BY <1>3, <3>2
        DEF FlushSteps, FlushRequest, FlushDone, CallFlush, CallShutDown,
            ShutDownSteps, StopWorker, StopDone, JoinWorker
      <3> QED
        BY <3>1, <3>2
    <2> QED
      BY <2>1, <2>2 DEF D!vars
  <1>4. CASE Worker /\ pending' \in {pending, NoSave}
    <2> USE <1>4 DEF workerFrame, gameVars, callVars, diskVars
    <2>0. main # "dead"
      BY DEF Worker, WorkerWake, WorkerStop, CoalesceInterrupted, CoalesceTimeout,
             TakePending, PublishFile, WriteFails, WorkerFinish, IInv, DeadIsEmpty
    <2>1. CASE WorkerWake \/ WorkerStop \/ WorkerFinish
      BY <2>1 DEF WorkerWake, WorkerStop, WorkerFinish, D!vars
    <2>2. CASE TakePending
      <3>1. worker' = "write" /\ writing' = pending /\ pending' = NoSave
        BY <2>2, SnapshotFields
        DEF TakePending, IInv, TypeOK, GenerationsAccounted
      <3>2. Captured' = Captured /\ UNCHANGED <<file, main, accounts>>
        BY <2>2, <3>1 DEF TakePending
      <3> QED
        BY <3>2 DEF D!vars
    <2>3. CASE PublishFile
      <3>1. /\ writing \in Captured /\ file' = writing /\ writing # NoSave
            /\ Captured' = {s \in {pending} : s # NoSave} /\ main' = main
            /\ accounts' = accounts
        BY <2>3 DEF PublishFile, IInv, WorkerPhase
      <3>2. /\ writing.gen > file.gen
            /\ pending # NoSave => pending.gen > writing.gen
        BY <2>0, <2>3, <3>1, SnapshotFields
        DEF PublishFile, IInv, TypeOK, GenerationsAccounted, FileMatchesPersisted
      <3>3. Captured' = {t \in Captured : t.gen > writing.gen}
        BY <3>1, <3>2, SnapshotFields DEF IInv, TypeOK
      <3>4. D!Publish
        BY <2>0, <3>1, <3>2, <3>3 DEF D!Publish
      <3> QED
        BY <3>4 DEF D!Next
    <2>4. CASE WriteFails
      <3>1. writing \in Captured /\ Captured' = {s \in {pending} : s # NoSave}
            /\ UNCHANGED <<file, main, accounts>>
        BY <2>4 DEF WriteFails
      <3>2. pending # writing
        BY <2>4 DEF WriteFails, IInv, WorkerPhase, GenerationsAccounted, TypeOK
      <3>3. Captured' = Captured \ {writing}
        BY <3>1, <3>2
      <3>4. D!Lose
        BY <3>1, <3>3 DEF D!Lose
      <3> QED
        BY <3>4 DEF D!Next
    <2> QED
      BY <2>1, <2>2, <2>3, <2>4 DEF Worker, CoalesceInterrupted, CoalesceTimeout
  <1>5. CASE (Crash \/ Load) /\ pending' \in {pending, NoSave}
    <2>1. Captured' = {} /\ Memory' = file.accounts /\ file' = file
      BY <1>5 DEF Crash, Load, Memory, IInv, DeadIsEmpty, WorkerPhase,
                  NoSandboxOnDisk, Pure, diskVars
    <2>2. D!Restart
      BY <2>1 DEF D!Restart, Memory
    <2> QED
      BY <2>2 DEF D!Next
  <1>6. CASE UNCHANGED vars
    BY <1>6 DEF vars, gameVars, workerVars, callVars, diskVars, D!vars
  <1> QED
    BY <1>1, <1>2, <1>3, <1>4, <1>5, <1>6 DEF Next

\* The store implements its abstract specification: what is durable is always
\* one whole state memory has been in, and never goes back.
THEOREM Implementation == Spec => ImplementsDurable
  BY InitInv, StepInv, NoSandboxInit, NoSandboxStep, AbstractInit, AbstractStep, PTL
  DEF Spec, ImplementsDurable, D!Spec
=============================================================================
