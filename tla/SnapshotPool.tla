---------------------------- MODULE SnapshotPool ----------------------------
(***************************************************************************)
(* CSnapshotBuildWorkerPool (Server/Module/network_module.cpp): the game   *)
(* thread hands the worlds of a tick to a fixed set of threads and blocks  *)
(* until every thread has seen the call.  Everything but a job itself runs *)
(* under one mutex, so a step here is one critical section.                *)
(*                                                                         *)
(* A job is the index of a world group; what it builds is abstracted to    *)
(* whether it threw.  The generation wraps, as a std::uint64_t does.       *)
(*                                                                         *)
(* An operator that no other definition uses is a plausible mistake in the *)
(* code, kept beside the one it would replace.                             *)
(***************************************************************************)
EXTENDS Integers, FiniteSets

CONSTANTS
  Worker,       \* m_workers
  MaxJobs,      \* most world groups in a call
  Generations   \* number of values of m_generation

ASSUME PoolAssumption ==
  /\ IsFiniteSet(Worker)
  /\ Worker # {}
  /\ MaxJobs \in Nat
  /\ Generations \in Nat /\ Generations >= 2

VARIABLES
  caller,          \* where the game thread is
  generation,      \* m_generation
  jobCount,        \* m_job_count
  nextJob,         \* m_next_job
  workersPending,  \* m_workers_pending
  threw,           \* m_exception holds an exception
  stopping,        \* m_stopping
  place,           \* where each worker is
  observed,        \* observed_generation of each worker
  holding,         \* job_index of each worker that runs a job
  ran              \* history: the jobs of this call that have run

callVars == <<caller, generation, jobCount, stopping>>
poolVars == <<callVars, nextJob, workersPending, threw, place, observed, holding, ran>>

Job == 0..(MaxJobs - 1)

PoolInit ==
  /\ caller = "idle"
  /\ generation = 0 /\ jobCount = 0 /\ nextJob = 0 /\ workersPending = 0
  /\ threw = FALSE /\ stopping = FALSE
  /\ place = [w \in Worker |-> "waiting"]
  /\ observed = [w \in Worker |-> 0]
  /\ holding = [w \in Worker |-> 0]
  /\ ran = {}

Bump == generation' = (generation + 1) % Generations

-----------------------------------------------------------------------------
(* The game thread                                                         *)

\* How many workers a call waits for.
OneWorkerPerJob(n) == IF n < Cardinality(Worker) THEN n ELSE Cardinality(Worker)
WorkersToWaitFor(n) == Cardinality(Worker)

Run(n) ==
  /\ caller = "idle"
  /\ caller' = "run"
  /\ Bump
  /\ jobCount' = n
  /\ nextJob' = 0
  /\ workersPending' = WorkersToWaitFor(n)
  /\ threw' = FALSE
  /\ ran' = {}
  /\ UNCHANGED <<stopping, place, observed, holding>>

\* The wait on m_done_condition ends; an exception is rethrown.
ReturnFromRun ==
  /\ caller = "run"
  /\ workersPending = 0
  /\ caller' = "idle"
  /\ UNCHANGED <<generation, jobCount, nextJob, workersPending, threw, stopping,
                 place, observed, holding, ran>>

ShutDown ==
  /\ caller = "idle"
  /\ caller' = "stopping"
  /\ stopping' = TRUE
  /\ Bump
  /\ UNCHANGED <<jobCount, nextJob, workersPending, threw, place, observed, holding, ran>>

Join ==
  /\ caller = "stopping"
  /\ \A w \in Worker : place[w] = "left"
  /\ caller' = "joined"
  /\ UNCHANGED <<generation, jobCount, nextJob, workersPending, threw, stopping,
                 place, observed, holding, ran>>

-----------------------------------------------------------------------------
(* The workers                                                             *)

\* Take the next job and unlock, or be done with this call.
NextJob == nextJob + 1
TakeOrFinish(w) ==
  \/ /\ nextJob < jobCount
     /\ nextJob' = NextJob
     /\ holding' = [holding EXCEPT ![w] = nextJob]
     /\ place' = [place EXCEPT ![w] = "job"]
     /\ UNCHANGED workersPending
  \/ /\ nextJob >= jobCount
     /\ workersPending' = workersPending - 1
     /\ place' = [place EXCEPT ![w] = "waiting"]
     /\ UNCHANGED <<nextJob, holding>>

\* The wait on m_start_condition ends with a new call...
Observe(w) == generation
Wake(w) ==
  /\ place[w] = "waiting"
  /\ ~stopping
  /\ generation # observed[w]
  /\ observed' = [observed EXCEPT ![w] = Observe(w)]
  /\ TakeOrFinish(w)
  /\ UNCHANGED <<callVars, threw, ran>>

\* ...or with the pool going away.
StopIfNothingNew(w) == stopping /\ observed[w] = generation
SeesStop(w) == stopping
Leave(w) ==
  /\ place[w] = "waiting"
  /\ SeesStop(w)
  /\ place' = [place EXCEPT ![w] = "left"]
  /\ UNCHANGED <<callVars, nextJob, workersPending, threw, observed, holding, ran>>

\* A job returns or throws; a worker whose job threw goes on with the rest.
ThrowLeaves(w, ok) ==
  IF ok THEN TakeOrFinish(w)
  ELSE place' = [place EXCEPT ![w] = "left"] /\ UNCHANGED <<nextJob, workersPending, holding>>
AfterJob(w, ok) == TakeOrFinish(w)
FinishJob(w, ok) ==
  /\ place[w] = "job"
  /\ ran' = ran \cup {holding[w]}
  /\ threw' = (threw \/ ~ok)
  /\ AfterJob(w, ok)
  /\ UNCHANGED <<callVars, observed>>

WorkerStep(w) == Wake(w) \/ Leave(w) \/ \E ok \in BOOLEAN : FinishJob(w, ok)

PoolNext ==
  \/ \E n \in 1..MaxJobs : Run(n)
  \/ ReturnFromRun
  \/ ShutDown
  \/ Join
  \/ \E w \in Worker : WorkerStep(w)

PoolSpec == PoolInit /\ [][PoolNext]_poolVars

\* Threads are scheduled and jobs return.
FairPoolSpec ==
  /\ PoolSpec
  /\ WF_poolVars(ReturnFromRun)
  /\ WF_poolVars(Join)
  /\ \A w \in Worker : WF_poolVars(WorkerStep(w))

-----------------------------------------------------------------------------
(* Properties                                                              *)

PoolTypeOK ==
  /\ caller \in {"idle", "run", "stopping", "joined"}
  /\ generation \in 0..(Generations - 1)
  /\ jobCount \in 0..MaxJobs
  /\ nextJob \in 0..MaxJobs
  /\ workersPending \in 0..Cardinality(Worker)
  /\ threw \in BOOLEAN
  /\ stopping \in BOOLEAN
  /\ place \in [Worker -> {"waiting", "job", "left"}]
  /\ observed \in [Worker -> 0..(Generations - 1)]
  /\ holding \in [Worker -> Nat]
  /\ ran \subseteq Job

\* Jobs are never run twice, by two workers or one: world groups are built
\* without a lock on what they hold.
NoJobTwice ==
  /\ \A w \in Worker : place[w] = "job" => holding[w] \notin ran
  /\ \A v, w \in Worker :
       place[v] = "job" /\ place[w] = "job" /\ v # w => holding[v] # holding[w]

\* The workers that still have something to do with the current call.
Engaged == {w \in Worker : place[w] = "job" \/ observed[w] # generation}

\* m_workers_pending counts them, so no worker can sleep through a call and
\* mistake the next one for it, whatever the generation wraps to.
PendingIsEngaged ==
  /\ caller = "run" => workersPending = Cardinality(Engaged)
  /\ caller = "idle" => Engaged = {}

\* The pool implements a parallel loop.
P == INSTANCE ParallelFor WITH
       busy <- caller = "run",
       left <- 0..(jobCount - 1) \ ran

ImplementsParallelFor == P!Spec

\* Run returns, and the pool can be taken down.
RunReturns == caller = "run" ~> caller = "idle"
ShutDownReturns == caller = "stopping" ~> caller = "joined"
=============================================================================
