------------------------------ MODULE Reports ------------------------------
(* Reviews of reported players (report.cpp): the game thread queues a report *)
(* and applies what came back, one worker thread asks the reviewer without   *)
(* holding the lock, a hot reload cancels what is pending. Everything is     *)
(* guarded by one mutex; the sessions of players change meanwhile.           *)
EXTENDS Naturals, Sequences, FiniteSets, SequencesExt

CONSTANTS
  Accounts,
  MaxReviews,    \* reports pending at a time (32 in the code)
  MaxCooling,    \* accounts remembered for the rate limit (4096 in the code)
  MaxLogins,     \* bound: sessions of an account
  MaxEpochs,     \* bound: cancellations
  NoReview

ASSUME ReportsAssumption ==
  /\ MaxReviews \in Nat /\ MaxCooling \in Nat /\ MaxLogins \in Nat \ {0} /\ MaxEpochs \in Nat \ {0}

VARIABLES
  login,      \* the session of each account
  jobs, results,
  reviewing,  \* the job of the worker, or NoReview
  pending,    \* by account, the epoch of its report, or 0
  cooling,    \* cooldowns: the accounts that have just reported
  epoch, stopping

reportVars == <<login, jobs, results, reviewing, pending, cooling, epoch, stopping>>

LoginRef(a) == <<a, login[a]>>
Job == [reporter : Accounts \X (1..MaxLogins), target : Accounts \X (1..MaxLogins), epoch : 1..MaxEpochs]
\* NoReview stands for no job.
ASSUME NoReviewAssumption == NoReview \notin Job
PendingReports == {a \in Accounts : pending[a] # 0}
Reporters(s) == {job.reporter[1] : job \in ToSet(s)}
Unpend(accounts) == [a \in Accounts |-> IF a \in accounts THEN 0 ELSE pending[a]]

ReportsInit ==
  /\ login = [a \in Accounts |-> 1]
  /\ jobs = <<>> /\ results = <<>> /\ reviewing = NoReview
  /\ pending = [a \in Accounts |-> 0]
  /\ cooling = {} /\ epoch = 1 /\ stopping = FALSE

MayReport(a) ==
  /\ ~stopping /\ pending[a] = 0 /\ a \notin cooling
  /\ Cardinality(PendingReports) < MaxReviews /\ Cardinality(cooling) < MaxCooling

\* Submit. Without a reviewer, or when its thread cannot be started, nothing
\* is queued.
Submit(a, b) ==
  /\ MayReport(a)
  /\ cooling' = cooling \cup {a}
  /\ \/ /\ jobs' = Append(jobs, [reporter |-> LoginRef(a), target |-> LoginRef(b), epoch |-> epoch])
        /\ pending' = [pending EXCEPT ![a] = epoch]
     \/ UNCHANGED <<jobs, pending>>
  /\ UNCHANGED <<login, results, reviewing, epoch, stopping>>

\* Run, with and without the lock. Mistake: late results are kept.
AnyResult(job) == TRUE
CurrentResult(job) == ~stopping /\ job.epoch = epoch
TakeJob ==
  /\ ~stopping /\ jobs # <<>> /\ reviewing = NoReview
  /\ reviewing' = Head(jobs) /\ jobs' = Tail(jobs)
  /\ UNCHANGED <<login, results, pending, cooling, epoch, stopping>>
FinishReview ==
  /\ reviewing # NoReview
  /\ results' = IF CurrentResult(reviewing) THEN Append(results, reviewing) ELSE results
  /\ reviewing' = NoReview
  /\ UNCHANGED <<login, jobs, pending, cooling, epoch, stopping>>

\* Process: verdicts reach only the sessions that the report was about.
Process ==
  /\ results # <<>>
  /\ results' = <<>> /\ pending' = Unpend(Reporters(results))
  /\ UNCHANGED <<login, jobs, reviewing, cooling, epoch, stopping>>

\* CancelPending, in a hot reload.
CancelPending ==
  /\ epoch < MaxEpochs
  /\ epoch' = epoch + 1 /\ jobs' = <<>> /\ results' = <<>>
  /\ pending' = [a \in Accounts |-> 0] /\ cooling' = {}
  /\ UNCHANGED <<login, reviewing, stopping>>
StopReviews ==
  /\ ~stopping /\ epoch < MaxEpochs
  /\ stopping' = TRUE /\ epoch' = epoch + 1 /\ jobs' = <<>> /\ results' = <<>>
  /\ pending' = [a \in Accounts |-> 0]
  /\ UNCHANGED <<login, reviewing, cooling>>

\* Five seconds later; a new session.
CoolDown(a) ==
  /\ a \in cooling /\ cooling' = cooling \ {a}
  /\ UNCHANGED <<login, jobs, results, reviewing, pending, epoch, stopping>>
Relog(a) ==
  /\ login[a] < MaxLogins /\ login' = [login EXCEPT ![a] = @ + 1]
  /\ UNCHANGED <<jobs, results, reviewing, pending, cooling, epoch, stopping>>

ReportsNext ==
  \/ \E a, b \in Accounts : Submit(a, b)
  \/ TakeJob \/ FinishReview \/ Process \/ CancelPending \/ StopReviews
  \/ \E a \in Accounts : CoolDown(a) \/ Relog(a)

ReportsSpec == ReportsInit /\ [][ReportsNext]_reportVars
-----------------------------------------------------------------------------
ReportsTypeOK ==
  /\ login \in [Accounts -> 1..MaxLogins]
  /\ jobs \in Seq(Job) /\ results \in Seq(Job) /\ reviewing \in Job \cup {NoReview}
  /\ pending \in [Accounts -> 0..MaxEpochs] /\ cooling \subseteq Accounts
  /\ epoch \in 1..MaxEpochs /\ stopping \in BOOLEAN

\* What is pending is exactly what is queued, under review or answered in this
\* epoch, one report of an account at a time: no report is lost or judged
\* twice, no verdict survives a hot reload, and no account waits for ever
\* behind a report that nobody has.
UnderWay == reviewing # NoReview /\ reviewing.epoch = epoch /\ ~stopping
ReportsAreTracked ==
  LET all == jobs \o (IF UnderWay THEN <<reviewing>> ELSE <<>>) \o results
  IN /\ Reporters(all) = PendingReports
     /\ Cardinality(PendingReports) = Len(all) /\ Len(all) <= MaxReviews
     /\ \A job \in ToSet(jobs \o results) : job.epoch = epoch /\ pending[job.reporter[1]] = epoch
=============================================================================
