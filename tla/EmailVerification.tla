------------------------- MODULE EmailVerification -------------------------
(***************************************************************************)
(* Binding an email address to an account: CEmailVerificationService, the  *)
(* worker thread that sends its mails, and the parts of INetworkModule and *)
(* CAccountDataStore that ask for codes, check them and store the address. *)
(*                                                                         *)
(* A step is one message of a player, one delivery result, one step of the *)
(* worker, or one unit of time.  How players log in is AuthSessions; here  *)
(* a player id holds a session that may bind the address of one account.   *)
(* Codes are always requested for binding, so a challenge is known by its  *)
(* account and address.  The cooldown per client address, the mail server  *)
(* and the configuration only decide whether a request is refused.  Times  *)
(* count down, which replaces the comparison of time points; request ids   *)
(* are reused when nothing refers to them any more.                        *)
(***************************************************************************)
EXTENDS Integers, Sequences, FiniteSets

CONSTANTS
  Id,           \* player ids
  Session,      \* CPlayer objects, which may reuse an id
  Account, Email, Request,
  Unregistered, \* stands for the address of an account that does not exist
  None,
  QueueLimit,   \* email_verification_queue_limit
  MaxAttempts,  \* email_verification_max_attempts
  Cooldown,     \* email_verification_resend_cooldown_seconds
  Ttl,          \* email_verification_ttl_seconds
  SendTimeout   \* email_send_timeout_seconds

ASSUME LimitsAssumption ==
  /\ QueueLimit \in Nat \ {0}
  /\ MaxAttempts \in Nat \ {0}
  /\ Cooldown \in Nat
  /\ Ttl \in Nat \ {0}
  /\ SendTimeout \in Nat \ {0}

VARIABLES
  player,       \* the session of an id and the account it may bind
  email,        \* the address of an account, None without one
  verified,     \* accounts whose address is verified
  challenges,   \* m_challenges
  emailWait,    \* time left in m_email_request_times
  accountWait,  \* time left in m_account_request_times
  deliveries,   \* m_email_delivery_requests
  jobs,         \* m_jobs
  sending,      \* the job the worker has taken
  results,      \* m_delivery_results, whose order does not matter
  delivered     \* history: addresses that got a code for an account

gameVars == <<player, email, verified, challenges, emailWait, accountWait, deliveries>>
vars == <<gameVars, jobs, sending, results, delivered>>

Key == Account \X Email

\* A challenge is pending until its mail is delivered: `left' is then the time
\* until it is given up, and afterwards the time the code is good for.
Challenge == [request : Request, ready : BOOLEAN, attempts : 0..(MaxAttempts - 1),
              left : 0..(SendTimeout + Ttl)]

\* The session that asked is history: the code knows its player id only.
Job == [id : Id, session : Session, request : Request, account : Account, email : Email]
Result == [id : Id, session : Session, request : Request, success : BOOLEAN]

\* None and Unregistered are none of the values they stand in for.
ASSUME NoneAssumption ==
  /\ None \notin Account \cup Email \cup Request \cup Job
  /\ Unregistered \notin Email \cup {None}

Challenged == {key \in Key : challenges[key] # None}

RequestsInUse ==
  {jobs[k].request : k \in DOMAIN jobs} \cup {result.request : result \in results}
  \cup (IF sending = None THEN {} ELSE {sending.request})
  \cup {challenges[key].request : key \in Challenged}
  \cup {deliveries[i] : i \in Id}

SessionsInUse ==
  {player[i].session : i \in {j \in Id : player[j] # None}}
  \cup {jobs[k].session : k \in DOMAIN jobs} \cup {result.session : result \in results}
  \cup (IF sending = None THEN {} ELSE {sending.session})

Init ==
  /\ player = [i \in Id |-> None]
  /\ email = [a \in Account |-> Unregistered]
  /\ verified = {}
  /\ challenges = [key \in Key |-> None]
  /\ emailWait = [e \in Email |-> 0]
  /\ accountWait = [a \in Account |-> 0]
  /\ deliveries = [i \in Id |-> None]
  /\ jobs = <<>>
  /\ sending = None
  /\ results = {}
  /\ delivered = {}

-----------------------------------------------------------------------------
\* Sessions and accounts

\* Mistake: the request outlives the session that made it.
NothingCleared(i) == deliveries

\* ClearPendingEmailAuthentication
Cleared(i) == [deliveries EXCEPT ![i] = None]

MailFrame == UNCHANGED <<jobs, sending, results, delivered>>

Enter(i, s, a) ==
  /\ player[i] = None
  /\ s \notin SessionsInUse
  /\ email[a] # Unregistered
  /\ player' = [player EXCEPT ![i] = [session |-> s, account |-> a]]
  /\ UNCHANGED <<email, verified, challenges, emailWait, accountWait, deliveries>>
  /\ MailFrame

\* Another login of the same connection, or one that has expired.
Relogin(i, a) ==
  /\ player[i] # None
  /\ a # None => email[a] # Unregistered
  /\ player' = [player EXCEPT ![i].account = a]
  /\ deliveries' = Cleared(i)
  /\ UNCHANGED <<email, verified, challenges, emailWait, accountWait>>
  /\ MailFrame

\* DropPlayer
Leave(i) ==
  /\ player[i] # None
  /\ player' = [player EXCEPT ![i] = None]
  /\ deliveries' = Cleared(i)
  /\ UNCHANGED <<email, verified, challenges, emailWait, accountWait>>
  /\ MailFrame

\* Mistake: addresses are not compared.
TakenFreely(e, a) == FALSE

\* FindAccountByEmail
Taken(e, a) == \E other \in Account \ {a} : email[other] = e

\* CommitRegistration; the address need not be given.
Register(a, e) ==
  /\ email[a] = Unregistered
  /\ e # None => ~Taken(e, a)
  /\ email' = [email EXCEPT ![a] = e]
  /\ UNCHANGED <<player, verified, challenges, emailWait, accountWait, deliveries>>
  /\ MailFrame

-----------------------------------------------------------------------------
\* Asking for a code

\* HandleAuthRequest, RequestBindingCode: ValidateEmailForBinding
MayBind(a, e) == a # None /\ ~Taken(e, a) /\ a \notin verified

\* RequestCode forgets what has expired...
Expired(challenge) == challenge.left = 0

Pruned ==
  [key \in Key |-> IF key \in Challenged /\ Expired(challenges[key]) THEN None ELSE challenges[key]]

\* ...and refuses an address that another account is verifying.
Unrivalled(a, e) == \A other \in Account \ {a} : Pruned[<<other, e>>] = None

RequestRefused ==
  /\ \E i \in Id, e \in Email : player[i] # None /\ MayBind(player[i].account, e)
  /\ challenges' = Pruned
  /\ UNCHANGED <<player, email, verified, emailWait, accountWait, deliveries>>
  /\ MailFrame

\* RequestCode and RequestVerificationCode
RequestCode(i, e) ==
  /\ player[i] # None
  /\ LET a == player[i].account
     IN  /\ MayBind(a, e)
         /\ Unrivalled(a, e)
         /\ emailWait[e] = 0
         /\ accountWait[a] = 0
         /\ Len(jobs) < QueueLimit
         /\ \E r \in Request \ RequestsInUse :
              /\ jobs' = Append(jobs, [id |-> i, session |-> player[i].session, request |-> r,
                                       account |-> a, email |-> e])
              /\ challenges' = [Pruned EXCEPT ![<<a, e>>] =
                   [request |-> r, ready |-> FALSE, attempts |-> 0, left |-> SendTimeout + Ttl]]
              /\ deliveries' = [deliveries EXCEPT ![i] = r]
         /\ emailWait' = [emailWait EXCEPT ![e] = Cooldown]
         /\ accountWait' = [accountWait EXCEPT ![a] = Cooldown]
  /\ UNCHANGED <<player, email, verified, sending, results, delivered>>

-----------------------------------------------------------------------------
\* Sending

\* WorkerLoop
TakeJob ==
  /\ sending = None
  /\ jobs # <<>>
  /\ sending' = Head(jobs)
  /\ jobs' = Tail(jobs)
  /\ UNCHANGED <<gameVars, results, delivered>>

\* SendMail; a mail that is sent is seen before the game hears of it.
Reported(result) == results \cup {result}

SendMail(success) ==
  /\ sending # None
  /\ results' = Reported([id |-> sending.id, session |-> sending.session,
                          request |-> sending.request, success |-> success])
  /\ delivered' = IF success THEN delivered \cup {<<sending.account, sending.email>>} ELSE delivered
  /\ sending' = None
  /\ UNCHANGED <<gameVars, jobs>>

\* TakeDeliveryResults and ProcessEmailDeliveryResults.  A result whose
\* challenge is gone is dropped; the player is told if it still waits.
ResultsFor(key) == {result \in results : key \in Challenged /\ challenges[key].request = result.request}

\* Mistake: a challenge whose mail failed is kept.
FailureIgnored(key, result) ==
  IF result.success THEN [challenges[key] EXCEPT !.ready = TRUE, !.left = Ttl] ELSE challenges[key]

Settled(key, result) ==
  IF result.success THEN [challenges[key] EXCEPT !.ready = TRUE, !.left = Ttl] ELSE None

ProcessDeliveryResults ==
  /\ results # {}
  /\ challenges' = [key \in Key |->
       IF ResultsFor(key) = {} THEN challenges[key]
       ELSE Settled(key, CHOOSE result \in ResultsFor(key) : TRUE)]
  /\ deliveries' = [i \in Id |->
       IF \E key \in Key : \E result \in ResultsFor(key) :
            result.id = i /\ result.request = deliveries[i]
       THEN None ELSE deliveries[i]]
  /\ results' = {}
  /\ UNCHANGED <<player, email, verified, emailWait, accountWait, jobs, sending, delivered>>

-----------------------------------------------------------------------------
\* Checking a code: HandleAuthRequest, ConfirmBinding

\* Mistake: a code counts before its mail is sent.
ReadyOrNot(key) == challenges[key] # None

MayTry(key) == challenges[key] # None /\ challenges[key].ready

ConfirmFrame ==
  /\ UNCHANGED <<player, emailWait, accountWait>>
  /\ MailFrame

Forgotten(key) == [challenges EXCEPT ![key] = None]

Exhausted(attempts) == attempts >= MaxAttempts

\* VerifyCode
CodeExpired(i, e) ==
  /\ player[i] # None /\ player[i].account # None
  /\ MayTry(<<player[i].account, e>>)
  /\ Expired(challenges[<<player[i].account, e>>])
  /\ challenges' = Forgotten(<<player[i].account, e>>)
  /\ UNCHANGED <<email, verified, deliveries>>
  /\ ConfirmFrame

WrongCode(i, e) ==
  /\ player[i] # None /\ player[i].account # None
  /\ LET key == <<player[i].account, e>>
     IN  /\ MayTry(key)
         /\ ~Expired(challenges[key])
         /\ challenges' =
              IF Exhausted(challenges[key].attempts + 1) THEN Forgotten(key)
              ELSE [challenges EXCEPT ![key].attempts = @ + 1]
  /\ UNCHANGED <<email, verified, deliveries>>
  /\ ConfirmFrame

\* Mistake: a verified address may be replaced.
MayReplace(a, e) == ~Taken(e, a)

\* ConfirmEmail; a save may fail, and then nothing is changed.
MayConfirm(a, e) == ~Taken(e, a) /\ (a \in verified => email[a] = e)

RightCode(i, e) ==
  /\ player[i] # None /\ player[i].account # None
  /\ LET a == player[i].account
     IN  /\ MayTry(<<a, e>>)
         /\ ~Expired(challenges[<<a, e>>])
         /\ MayConfirm(a, e)
         /\ email' = [email EXCEPT ![a] = e]
         /\ verified' = verified \cup {a}
         /\ challenges' = Forgotten(<<a, e>>)
  /\ deliveries' = Cleared(i)
  /\ ConfirmFrame

-----------------------------------------------------------------------------
\* Time

Less(t) == IF t > 0 THEN t - 1 ELSE 0

Clock ==
  /\ emailWait' = [e \in Email |-> Less(emailWait[e])]
  /\ accountWait' = [a \in Account |-> Less(accountWait[a])]
  /\ challenges' = [key \in Key |->
       IF challenges[key] = None THEN None
       ELSE [challenges[key] EXCEPT !.left = Less(@)]]
  /\ UNCHANGED <<player, email, verified, deliveries>>
  /\ MailFrame

Next ==
  \/ \E i \in Id :
       \/ \E s \in Session, a \in Account : Enter(i, s, a)
       \/ \E a \in Account \cup {None} : Relogin(i, a)
       \/ Leave(i)
       \/ \E e \in Email : RequestCode(i, e) \/ CodeExpired(i, e) \/ WrongCode(i, e) \/ RightCode(i, e)
  \/ \E a \in Account, e \in Email \cup {None} : Register(a, e)
  \/ RequestRefused
  \/ TakeJob
  \/ \E success \in BOOLEAN : SendMail(success)
  \/ ProcessDeliveryResults
  \/ Clock

Spec == Init /\ [][Next]_vars

-----------------------------------------------------------------------------
\* Properties

\* The variables keep their types; a challenge is gone when its last attempt is
\* used up, and the mail queue keeps its limit.
TypeOK ==
  /\ player \in [Id -> [session : Session, account : Account \cup {None}] \cup {None}]
  /\ email \in [Account -> Email \cup {None, Unregistered}]
  /\ verified \subseteq Account
  /\ challenges \in [Key -> Challenge \cup {None}]
  /\ emailWait \in [Email -> 0..Cooldown]
  /\ accountWait \in [Account -> 0..Cooldown]
  /\ deliveries \in [Id -> Request \cup {None}]
  /\ jobs \in Seq(Job) /\ Len(jobs) <= QueueLimit
  /\ sending \in Job \cup {None}
  /\ results \subseteq Result
  /\ delivered \subseteq Key

\* Two accounts never have the same address, although an address is checked
\* when a code is asked for, when it is confirmed and when an account is
\* registered, at different times.
AddressesAreUnique ==
  \A a, b \in Account : email[a] \in Email /\ email[a] = email[b] => a = b

\* A verified address belongs to somebody who could read a mail that was sent
\* to it for this account.
VerifiedWasMailed ==
  \A a \in verified : <<a, email[a]>> \in delivered

\* An address is being verified for one account at a time, whatever the delay
\* of the mails.
OneAccountPerAddress ==
  \A a, b \in Account, e \in Email :
    challenges[<<a, e>>] # None /\ challenges[<<b, e>>] # None => a = b

\* No two accounts share an address, or are on their way to.
AddressesAreExclusive == AddressesAreUnique /\ OneAccountPerAddress

\* The answer to a request goes to the session that made it, never to the next
\* one that got its player id (ProcessEmailDeliveryResults).
OnItsWay(request) ==
  \/ \E k \in DOMAIN jobs : jobs[k].request = request
  \/ sending # None /\ sending.request = request
  \/ \E result \in results : result.request = request

AnswersGoHome ==
  /\ \A k \in DOMAIN jobs : deliveries[jobs[k].id] = jobs[k].request =>
       player[jobs[k].id] # None /\ player[jobs[k].id].session = jobs[k].session
  /\ \A result \in results : deliveries[result.id] = result.request =>
       player[result.id] # None /\ player[result.id].session = result.session

\* A challenge that waits for its mail has a mail under way: it is not left
\* over when the mail failed, was overtaken by another, or was lost.
PendingIsOnItsWay ==
  \A key \in Challenged : ~challenges[key].ready => OnItsWay(challenges[key].request)

\* A player may wait for an answer that does not come: its challenge is given
\* up before its mail is reported.  Then nothing is left of the request, neither
\* a challenge to fail nor one that keeps the address from others.
OverdueIsForgotten ==
  \A i \in Id : deliveries[i] # None /\ ~OnItsWay(deliveries[i]) =>
    \A key \in Challenged : challenges[key].request # deliveries[i]

\* Challenges, mails and waiting players keep together, however slow the worker.
MailsAreTracked == PendingIsOnItsWay /\ OverdueIsForgotten

\* A verified address is for good.
VerifiedIsFinal ==
  [][\A a \in verified : a \in verified' /\ email'[a] = email[a]]_vars
=============================================================================
