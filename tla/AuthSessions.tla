---------------------------- MODULE AuthSessions ----------------------------
(***************************************************************************)
(* Connections, logins and sessions of the game server                     *)
(* (Server/Module/network_module.cpp): a connection is accepted, given a   *)
(* player id, asks to log in or register, and waits while one worker       *)
(* thread hashes passwords.  When the answer comes back the player may be  *)
(* gone, its id may belong to someone else, the account may be online,     *)
(* offline or banned.  A session outlives its connection for a while and   *)
(* is then resumed by the next login.                                      *)
(*                                                                         *)
(* A step of the game thread is one iteration of the loop the code runs in *)
(* a phase of the tick, and any phase may follow any other. Time is left   *)
(* out: whatever has a deadline may expire, and an offline session whose   *)
(* timeout (assumed positive) runs out is dropped in that step. A Conn is  *)
(* a socket, and requests carry the one they came over, which the code     *)
(* does not record, so that the properties can compare it with the one     *)
(* that is answered. Passwords, the login rate limit and email codes only  *)
(* decide whether a step may fail.                                         *)
(* Request ids and sockets are taken from those not in use, as unbounded   *)
(* counters never repeat.                                                  *)
(* An operator that no other definition uses is a plausible mistake, kept  *)
(* beside the one it would replace to show that a property notices it.     *)
(***************************************************************************)
EXTENDS Integers, Sequences, FiniteSets, FiniteSetsExt, SequencesExt

CONSTANTS
  MaxId,       \* player ids are 1..MaxId; the code stops below INT_MAX
  Conn,        \* sockets
  Account,     \* account names
  Request,     \* request ids
  QueueLimit,  \* auth_queue_limit
  UnauthenticatedLimit,  \* unauthenticated_connection_limit
  None         \* no socket, account, request, session, login or job

Id == 1..MaxId
Player == [conn : Conn \cup {None}, account : Account \cup {None}]
Work == [request : Request, id : Id, conn : Conn, account : Account, register : BOOLEAN]
Login == [account : Account, conn : Conn]

ASSUME SessionsAssumption ==
  /\ MaxId \in Nat
  /\ QueueLimit \in Nat
  /\ UnauthenticatedLimit \in Nat
  /\ None \notin Conn \cup Account \cup Request \cup Work

VARIABLES
  accepted,    \* sockets in m_pending_connections
  players,     \* m_players by id; an authenticated one without socket is a
               \* session waiting to be resumed
  nextId,      \* m_next_player_id
  freeIds,     \* m_free_player_ids
  deadlines,   \* ids with an entry in m_auth_deadlines
  requests,    \* m_player_auth_requests
  queue,       \* m_pending_auth_requests
  active,      \* m_active_auth_accounts
  verified,    \* m_pending_verified_logins
  jobs,        \* m_jobs of the worker
  running,     \* the job the worker hashes for
  done,        \* m_completions, then those ProcessAuthenticationResults took
  registered,  \* the accounts of the account store
  banned       \* m_name_bans

idVars     == <<nextId, freeIds>>
workerVars == <<jobs, running, done>>
vars == <<accepted, players, idVars, deadlines, requests, queue, active, verified,
          workerVars, registered, banned>>

Free == [conn |-> None, account |-> None]

Used(i)    == players[i] # Free
Online(i)  == players[i].conn # None
Authenticated(i) == players[i].account # None

\* Everything the auth worker has, or has answered.
InFlight == Range(jobs) \cup Range(done) \cup ({running} \ {None})
Requests == Range(queue) \cup InFlight

Connected == {players[i].conn : i \in Id} \ {None}
ConnsInUse == accepted \cup Connected \cup {w.conn : w \in Requests}
RequestsInUse == {w.request : w \in Requests}

\* SelectSeq, for a set of entries and with a definition the provers know: the
\* entries of s that are in good, in their order.
Only(s, good) ==
  LET kept == {k \in DOMAIN s : s[k] \in good}
      Place(k) == Cardinality({j \in kept : j <= k})
  IN [n \in 1..Cardinality(kept) |-> s[CHOOSE k \in kept : Place(k) = n]]

-----------------------------------------------------------------------------
(* Connections                                                             *)

\* AcceptConnections
Unauthenticated == Cardinality(deadlines) + Cardinality(accepted)
Accept(c) ==
  /\ c \notin ConnsInUse
  /\ Unauthenticated < UnauthenticatedLimit
  /\ accepted' = accepted \cup {c}
  /\ UNCHANGED <<players, idVars, deadlines, requests, queue, active, verified,
                 workerVars, registered, banned>>

\* ClassifyPendingConnections: closed, too late, a banned address, or handed
\* to the debug service.
Reject(c) ==
  /\ c \in accepted
  /\ accepted' = accepted \ {c}
  /\ UNCHANGED <<players, idVars, deadlines, requests, queue, active, verified,
                 workerVars, registered, banned>>

\* GetNewPlayerId: the smallest freed id, or the next one nobody has.
NewId ==
  IF freeIds # {} THEN Min(freeIds)
  ELSE Min({i \in nextId..MaxId : ~Used(i)})
FreeIdsLeft == freeIds \ {NewId}

\* ClassifyPendingConnections: the connection of a player.
Classify(c) ==
  /\ c \in accepted
  /\ freeIds # {} \/ \E i \in nextId..MaxId : ~Used(i)
  /\ accepted' = accepted \ {c}
  /\ players' = [players EXCEPT ![NewId] = [conn |-> c, account |-> None]]
  /\ deadlines' = deadlines \cup {NewId}
  /\ IF freeIds # {}
     THEN freeIds' = FreeIdsLeft /\ UNCHANGED nextId
     ELSE nextId' = NewId + 1 /\ UNCHANGED freeIds
  /\ UNCHANGED <<requests, queue, active, verified, workerVars, registered, banned>>

\* DropPlayer, with CancelAuthenticationRequest and FreePlayerId.
StillAwaited(gone) == requests
NoLongerAwaited(gone) == [i \in Id |-> IF i \in gone THEN None ELSE requests[i]]
Drop(gone) ==
  /\ players' = [i \in Id |-> IF i \in gone THEN Free ELSE players[i]]
  /\ queue' = Only(queue, {w \in Range(queue) : \A i \in gone : w.request # requests[i]})
  /\ requests' = NoLongerAwaited(gone)
  /\ verified' = [i \in Id |-> IF i \in gone THEN None ELSE verified[i]]
  /\ deadlines' = deadlines \ gone
  /\ freeIds' = freeIds \cup gone

dropFrame == UNCHANGED <<accepted, nextId, active, workerVars, registered>>

\* A player is kicked, asks to leave, sends rubbish, or runs into its
\* authentication deadline or the timeout of an offline session.
Leave(i) ==
  /\ Used(i)
  /\ Drop({i})
  /\ dropFrame
  /\ UNCHANGED banned

\* The socket fails: a session stays without it.
LoseConnection(i) ==
  /\ Online(i)
  /\ Authenticated(i)
  /\ players' = [players EXCEPT ![i].conn = None]
  /\ UNCHANGED <<accepted, idVars, deadlines, requests, queue, active, verified,
                 workerVars, registered, banned>>

\* A player that is moving between worlds is not dropped.
BanName(a) ==
  /\ a \notin banned
  /\ banned' = banned \cup {a}
  /\ \E gone \in SUBSET {i \in Id : players[i].account = a} : Drop(gone)
  /\ dropFrame

\* TickBans, or the unban command.
Unban(a) ==
  /\ a \in banned
  /\ banned' = banned \ {a}
  /\ UNCHANGED <<accepted, players, idVars, deadlines, requests, queue, active,
                 verified, workerVars, registered>>

-----------------------------------------------------------------------------
(* Requests                                                                *)

\* ProcessMessages: only connections are heard.
MayAskOffline(i) == ~Authenticated(i)
MayAsk(i) == Online(i) /\ ~Authenticated(i)

\* HandleAuthRequest, Login and Register.  A login that waits for its email
\* code is forgotten first if it expired.
AskToAuthenticate(i, a, register) ==
  /\ MayAsk(i)
  /\ requests[i] = None
  /\ a \notin banned
  /\ Cardinality({j \in Id : requests[j] # None}) < QueueLimit
  /\ register => a \notin active /\ a \notin registered
  /\ \E r \in Request \ RequestsInUse :
       /\ requests' = [requests EXCEPT ![i] = r]
       /\ queue' = Append(queue, [request |-> r, id |-> i, conn |-> players[i].conn,
                                  account |-> a, register |-> register])
  /\ \E login \in {verified[i], None} : verified' = [verified EXCEPT ![i] = login]
  /\ UNCHANGED <<accepted, players, idVars, deadlines, active, workerVars,
                 registered, banned>>

\* HandleAuthRequest: a request that finds the login expired and is refused.
ForgetLogin(i) ==
  /\ Online(i)
  /\ requests[i] = None
  /\ verified[i] # None
  /\ verified' = [verified EXCEPT ![i] = None]
  /\ UNCHANGED <<accepted, players, idVars, deadlines, requests, queue, active,
                 workerVars, registered, banned>>

\* The account whose email address a player may bind.
BindingAccount(i) ==
  IF Authenticated(i) THEN players[i].account
  ELSE IF verified[i] # None THEN verified[i].account ELSE None

\* HandleAuthRequest, RequestBindingCode: RequestVerificationCode extends the
\* deadline of the player.
AskForCode(i) ==
  /\ Online(i)
  /\ requests[i] = None
  /\ BindingAccount(i) \notin banned \cup {None}
  /\ deadlines' = deadlines \cup {i}
  /\ UNCHANGED <<accepted, players, idVars, requests, queue, active, verified,
                 workerVars, registered, banned>>

\* ApplyAuthentication, for a player with no request.  A session of the
\* account is online, or is resumed over the socket of the player, or a new
\* one begins; entering the world, storing the trusted address or sending the
\* answer may fail.
OnlineAs(a, i) == \E j \in Id \ {i} : players[j].account = a /\ Online(j)
Offline(a, i) == {j \in Id \ {i} : players[j].account = a /\ ~Online(j)}
NobodyOffline(a, i) == {}
Resumable(a, i) == Offline(a, i)
Apply(i, a) ==
  \/ /\ OnlineAs(a, i)
     /\ verified' = [verified EXCEPT ![i] = None]
     /\ UNCHANGED <<players, deadlines, freeIds>>
  \/ /\ ~OnlineAs(a, i)
     /\ \E j \in Resumable(a, i), conn \in {players[i].conn, None} :
          players' = [players EXCEPT ![i] = Free, ![j].conn = conn]
     /\ verified' = [verified EXCEPT ![i] = None]
     /\ deadlines' = deadlines \ {i}
     /\ freeIds' = freeIds \cup {i}
  \/ /\ ~OnlineAs(a, i)
     /\ Resumable(a, i) = {}
     /\ verified' = [verified EXCEPT ![i] = None]
     /\ deadlines' = deadlines \ {i}
     /\ \/ /\ players' = [players EXCEPT ![i].account = a]
           /\ UNCHANGED freeIds
        \/ /\ players' = [players EXCEPT ![i] = Free]
           /\ freeIds' = freeIds \cup {i}

applyFrame == UNCHANGED <<accepted, nextId, jobs, running, banned>>

\* HandleAuthRequest, ConfirmBinding: the code was right.
ConfirmCode(i) ==
  /\ Online(i)
  /\ requests[i] = None
  /\ BindingAccount(i) \notin banned \cup {None}
  /\ IF Authenticated(i)
     THEN /\ verified' = [verified EXCEPT ![i] = None]
          /\ UNCHANGED <<players, deadlines, freeIds>>
     ELSE Apply(i, verified[i].account)
  /\ UNCHANGED <<requests, queue, active, done, registered>>
  /\ applyFrame

-----------------------------------------------------------------------------
(* Dispatch and answer                                                     *)

DispatchFrame == UNCHANGED <<accepted, players, idVars, deadlines, verified,
                             running, done, registered, banned>>

\* DispatchAuthenticationRequests walks the queue from the front, and passes
\* over requests for an account that is being worked on.
MayDispatch(k) ==
  /\ queue[k].account \notin active
  /\ \A j \in 1..(k - 1) : queue[j].account # queue[k].account

\* The player that asked still waits for this request.
Awaited(w) == requests[w.id] = w.request /\ Online(w.id) /\ ~Authenticated(w.id)

\* Nobody waits for it any more; or the account is banned, taken (Register) or
\* unknown (Login), or the password is missing.
Refuse(k) ==
  /\ Awaited(queue[k]) => MayDispatch(k)
  /\ requests' = [i \in Id |-> IF i = queue[k].id /\ requests[i] = queue[k].request
                              THEN None ELSE requests[i]]
  /\ queue' = RemoveAt(queue, k)
  /\ UNCHANGED <<active, jobs>>
  /\ DispatchFrame

Submit(k) ==
  /\ Awaited(queue[k])
  /\ MayDispatch(k)
  /\ queue[k].account \notin banned
  /\ queue[k].register <=> queue[k].account \notin registered
  /\ active' = active \cup {queue[k].account}
  /\ jobs' = Append(jobs, queue[k])
  /\ queue' = RemoveAt(queue, k)
  /\ UNCHANGED requests
  /\ DispatchFrame

WorkerFrame == UNCHANGED <<accepted, players, idVars, deadlines, requests, queue,
                           active, verified, registered, banned>>

\* CAccountAuthWorker::WorkerMain
TakeJob ==
  /\ running = None
  /\ jobs # <<>>
  /\ running' = Head(jobs)
  /\ jobs' = Tail(jobs)
  /\ UNCHANGED done
  /\ WorkerFrame

FinishJob ==
  /\ running # None
  /\ done' = Append(done, running)
  /\ running' = None
  /\ UNCHANGED jobs
  /\ WorkerFrame

\* ProcessAuthenticationResults, one completion: the request it answers must
\* still be the one its player waits for.
AnswersAnyone(w) == Online(w.id)
Answers(w) == requests[w.id] = w.request
InactiveIfAnswered(w) == IF Answers(w) THEN active \ {w.account} ELSE active
Inactive(w) == active \ {w.account}
ResultFrame ==
  /\ active' = Inactive(Head(done))
  /\ done' = Tail(done)
  /\ UNCHANGED queue
  /\ applyFrame

DiscardResult ==
  /\ done # <<>>
  /\ ~Answers(Head(done))
  /\ UNCHANGED <<players, freeIds, deadlines, requests, verified, registered>>
  /\ ResultFrame

\* What CommitRegistration and CommitLogin do to the accounts.
Committed(w) == IF w.register THEN registered \cup {w.account} ELSE registered

\* The password is wrong, the account was banned or registered meanwhile, or
\* its credentials changed.
FailResult ==
  /\ done # <<>>
  /\ Answers(Head(done))
  /\ requests' = [requests EXCEPT ![Head(done).id] = None]
  /\ UNCHANGED <<players, freeIds, deadlines, verified, registered>>
  /\ ResultFrame

AnyoneMayEnter(a) == TRUE
MayEnter(a) == a \notin banned
CommitResult(w) ==
  /\ done # <<>> /\ w = Head(done)
  /\ Answers(w)
  /\ Online(w.id) /\ ~Authenticated(w.id)
  /\ MayEnter(w.account)
  /\ w.register => w.account \notin registered
  /\ requests' = [requests EXCEPT ![w.id] = None]
  /\ registered' = Committed(w)
  /\ \/ \* The email address has to be verified first.
        /\ verified' = [verified EXCEPT ![w.id] = [account |-> w.account, conn |-> w.conn]]
        /\ deadlines' = deadlines \cup {w.id}
        /\ UNCHANGED <<players, freeIds>>
     \/ Apply(w.id, w.account)
  /\ ResultFrame

-----------------------------------------------------------------------------

\* The server starts empty, or with sessions restored from a hot reload
\* snapshot, all without sockets (RestorePlayers, FinalizePlayerRestore).
Init ==
  /\ accepted = {}
  /\ \E session \in [Id -> Account \cup {None}] :
       /\ \A i, j \in Id : i # j /\ session[i] # None => session[i] # session[j]
       /\ players = [i \in Id |-> [conn |-> None, account |-> session[i]]]
       /\ registered = Range(session) \ {None}
  /\ nextId = 1
  /\ freeIds = {}
  /\ deadlines = {}
  /\ requests = [i \in Id |-> None]
  /\ queue = <<>>
  /\ active = {}
  /\ verified = [i \in Id |-> None]
  /\ jobs = <<>> /\ running = None /\ done = <<>>
  /\ banned = {}

Connections ==
  \/ \E c \in Conn : Accept(c) \/ Reject(c) \/ Classify(c)
  \/ \E i \in Id : Leave(i) \/ LoseConnection(i)
  \/ \E a \in Account : BanName(a) \/ Unban(a)

Messages ==
  \E i \in Id :
    \/ \E a \in Account, register \in BOOLEAN : AskToAuthenticate(i, a, register)
    \/ ForgetLogin(i)
    \/ AskForCode(i)
    \/ ConfirmCode(i)

Dispatch == \E k \in 1..Len(queue) : Refuse(k) \/ Submit(k)

Worker == TakeJob \/ FinishJob

Results == DiscardResult \/ FailResult \/ \E w \in Range(done) : CommitResult(w)

Next == Connections \/ Messages \/ Dispatch \/ Worker \/ Results

Spec == Init /\ [][Next]_vars

\* The queue is walked and the completions are taken every tick, and hashing
\* ends.  Nothing obliges a client to do anything.
DispatchFor(i) ==
  \E k \in 1..Len(queue) : queue[k].id = i /\ (Refuse(k) \/ Submit(k))

FairSpec ==
  /\ Spec
  /\ \A i \in Id : WF_vars(DispatchFor(i))
  /\ WF_vars(TakeJob) /\ WF_vars(FinishJob)
  /\ WF_vars(Results)

-----------------------------------------------------------------------------
(* Properties                                                              *)

TypeOK ==
  /\ accepted \subseteq Conn
  /\ players \in [Id -> Player]
  /\ nextId \in 1..(MaxId + 1)
  /\ freeIds \subseteq Id
  /\ deadlines \subseteq Id
  /\ requests \in [Id -> Request \cup {None}]
  /\ queue \in Seq(Work) /\ jobs \in Seq(Work) /\ done \in Seq(Work)
  /\ running \in Work \cup {None}
  /\ active \subseteq Account
  /\ verified \in [Id -> Login \cup {None}]
  /\ registered \subseteq Account
  /\ banned \subseteq Account

\* However logins, reconnects and timeouts interleave, an account never has
\* two sessions.
OneSession ==
  \A i, j \in Id : i # j /\ Authenticated(i) => players[i].account # players[j].account

\* An answer that is still awaited is awaited by the connection that asked:
\* a reused id never inherits the login of the one before.
AnswersGoHome ==
  /\ \A w \in Requests : w.request = requests[w.id] => players[w.id].conn = w.conn
  /\ \A i \in Id : verified[i] # None => players[i].conn = verified[i].conn

\* A player that waits for an answer will get one: its request is in the queue
\* or with the worker.
AwaitedIsTracked ==
  \A i \in Id : requests[i] # None => \E w \in Requests : w.request = requests[i]

\* An account is marked as being worked on exactly while one job for it is in
\* flight: a mark left behind would lock the account out for ever.
ActiveIsInFlight ==
  /\ active = {w.account : w \in InFlight}
  /\ \A v, w \in InFlight : v.account = w.account => v = w

\* Every connection that has not logged in has a deadline, so that the limit
\* on unauthenticated connections holds.
LimitHolds ==
  Cardinality(accepted) + Cardinality({i \in Id : Online(i) /\ ~Authenticated(i)})
    <= UnauthenticatedLimit

\* An id is not handed out while it is in use.
FreeIdsAreFree == \A i \in freeIds : ~Used(i)

\* The books of the network module are exact: nothing that was asked for or
\* taken is forgotten, and nothing is kept that nobody works on.
RequestsAreTracked == AwaitedIsTracked /\ ActiveIsInFlight /\ LimitHolds /\ FreeIdsAreFree

\* Nobody comes online with a banned account, whatever was verified before.
NoBannedLogin ==
  [][\A i \in Id :
       players[i]' # players[i] /\ players[i].account' # None /\ players[i].conn' # None =>
         players[i].account' \notin banned]_vars

\* A request is eventually answered, or its player is gone.
RequestsAreAnswered ==
  \A i \in Id, r \in Request : requests[i] = r ~> requests[i] # r

\* "unauthenticated connection limit reached": the limit counts connections
\* that have not authenticated.
LimitCountsUnauthenticated == \A i \in deadlines : ~Authenticated(i)
=============================================================================
