---------------------- MODULE EmailVerificationProofs ----------------------
(***************************************************************************)
(* Proofs about EmailVerification, for any numbers of players, accounts,   *)
(* addresses and requests in flight, and for all limits and times.         *)
(***************************************************************************)
EXTENDS EmailVerification, TLAPS

\* The mails that are queued or being sent.
Mails == {jobs[k] : k \in DOMAIN jobs} \cup ({sending} \ {None})

\* Verified accounts have an address.
VerifiedHasAddress == \A a \in verified : email[a] \in Email

\* A mail was asked for the account and the address of the challenge that waits
\* for it, and a result that reports a success is known to have reached that
\* address: so a code can be used only if it was mailed.
MailInv ==
  /\ \A key \in Key : challenges[key] # None =>
       /\ \A mail \in Mails : mail.request = challenges[key].request =>
            key = <<mail.account, mail.email>>
       /\ \A result \in results :
            result.success /\ result.request = challenges[key].request => key \in delivered
       /\ challenges[key].ready => key \in delivered
  /\ VerifiedWasMailed

\* AnswersGoHome, also for the mail the worker is sending.
HomeInv ==
  \A m \in Mails \cup results : deliveries[m.id] = m.request =>
    player[m.id] # None /\ player[m.id].session = m.session

-----------------------------------------------------------------------------
\* Type correctness

\* The limits are natural numbers in every use the types make of them.
LEMMA LimitsAreNat ==
  /\ 0 \in 0..(MaxAttempts - 1)
  /\ 0 \in 0..Cooldown /\ Cooldown \in 0..Cooldown
  /\ Ttl \in 0..(SendTimeout + Ttl) /\ (SendTimeout + Ttl) \in 0..(SendTimeout + Ttl)
  /\ QueueLimit \in Nat
  BY LimitsAssumption

\* Counting down stays within the range.
LEMMA LessInRange ==
  ASSUME NEW n \in Nat, NEW t \in 0..n
  PROVE  Less(t) \in 0..n
  BY DEF Less

\* Forgetting what has expired gives challenges again.
LEMMA PrunedType ==
  ASSUME TypeOK
  PROVE  /\ Pruned \in [Key -> Challenge \cup {None}]
         /\ \A key \in Key : Pruned[key] # None => Pruned[key] = challenges[key]
  BY DEF Pruned, TypeOK

\* A challenge whose mail was sent is a challenge.
LEMMA MailedType ==
  ASSUME NEW c \in Challenge
  PROVE  [c EXCEPT !.ready = TRUE, !.left = Ttl] \in Challenge
  BY LimitsAreNat DEF Challenge

\* Counting a wrong code that is not the last one allowed gives a challenge.
LEMMA AttemptCounted ==
  ASSUME NEW c \in Challenge, ~Exhausted(c.attempts + 1)
  PROVE  [c EXCEPT !.attempts = @ + 1] \in Challenge
  <1>1. c.attempts + 1 \in 0..(MaxAttempts - 1)
    BY LimitsAssumption DEF Exhausted, Challenge
  <1> QED
    BY <1>1 DEF Challenge

\* Every variable keeps its type; an attempt is counted only while another is
\* left, and the queue never outgrows its limit.
THEOREM TypeCorrect == Spec => []TypeOK
  <1>1. Init => TypeOK
    BY LimitsAreNat DEF Init, TypeOK
  <1>2. TypeOK /\ [Next]_vars => TypeOK'
    <2> SUFFICES ASSUME TypeOK, [Next]_vars PROVE TypeOK'
      OBVIOUS
    <2> USE DEF TypeOK
    <2>1. ASSUME NEW i \in Id, NEW s \in Session, NEW a \in Account, Enter(i, s, a) PROVE TypeOK'
      BY <2>1 DEF Enter, MailFrame
    <2>2. ASSUME NEW i \in Id, NEW a \in Account \cup {None}, Relogin(i, a) PROVE TypeOK'
      BY <2>2 DEF Relogin, Cleared, MailFrame
    <2>3. ASSUME NEW i \in Id, Leave(i) PROVE TypeOK'
      BY <2>3 DEF Leave, Cleared, MailFrame
    <2>4. ASSUME NEW i \in Id, NEW e \in Email, RequestCode(i, e) PROVE TypeOK'
      <3>1. player[i].account \in Account
        BY <2>4 DEF RequestCode, MayBind
      <3> DEFINE a == player[i].account
                 job(r) == [id |-> i, session |-> player[i].session, request |-> r,
                            account |-> a, email |-> e]
                 fresh(r) == [request |-> r, ready |-> FALSE, attempts |-> 0,
                              left |-> SendTimeout + Ttl]
      <3>2. PICK r \in Request :
              /\ jobs' = Append(jobs, job(r))
              /\ challenges' = [Pruned EXCEPT ![<<a, e>>] = fresh(r)]
              /\ deliveries' = [deliveries EXCEPT ![i] = r]
        BY <2>4 DEF RequestCode
      <3>3. job(r) \in Job
        BY <2>4, <3>1 DEF RequestCode, Job
      <3>4. fresh(r) \in Challenge
        BY LimitsAreNat DEF Challenge
      <3>5. challenges' \in [Key -> Challenge \cup {None}]
        BY <3>2, <3>4, PrunedType
      <3>6. jobs' \in Seq(Job) /\ Len(jobs') <= QueueLimit
        BY <2>4, <3>2, <3>3, LimitsAreNat DEF RequestCode
      <3>7. emailWait' \in [Email -> 0..Cooldown] /\ accountWait' \in [Account -> 0..Cooldown]
        BY <2>4, LimitsAreNat DEF RequestCode
      <3>8. deliveries' \in [Id -> Request \cup {None}]
        BY <3>2
      <3> HIDE DEF a, job, fresh
      <3> QED
        BY <2>4, <3>2, <3>5, <3>6, <3>7, <3>8 DEF RequestCode
    <2>5. ASSUME NEW i \in Id, NEW e \in Email, CodeExpired(i, e) PROVE TypeOK'
      BY <2>5 DEF CodeExpired, Forgotten, ConfirmFrame, MailFrame, Key
    <2>6. ASSUME NEW i \in Id, NEW e \in Email, WrongCode(i, e) PROVE TypeOK'
      <3> DEFINE key == <<player[i].account, e>>
      <3>1. key \in Key /\ challenges[key] \in Challenge
        BY <2>6 DEF WrongCode, MayTry, Key
      <3>2. CASE Exhausted(challenges[key].attempts + 1)
        BY <2>6, <3>1, <3>2 DEF WrongCode, Forgotten, ConfirmFrame, MailFrame
      <3>3. CASE ~Exhausted(challenges[key].attempts + 1)
        <4>1. [challenges[key] EXCEPT !.attempts = @ + 1] \in Challenge
          BY <3>1, <3>3, AttemptCounted
        <4>2. challenges' = [challenges EXCEPT ![key] = [challenges[key] EXCEPT !.attempts = @ + 1]]
          BY <2>6, <3>1, <3>3 DEF WrongCode
        <4> QED
          BY <2>6, <3>1, <4>1, <4>2 DEF WrongCode, ConfirmFrame, MailFrame
      <3> QED
        BY <3>2, <3>3
    <2>7. ASSUME NEW i \in Id, NEW e \in Email, RightCode(i, e) PROVE TypeOK'
      BY <2>7 DEF RightCode, Forgotten, Cleared, ConfirmFrame, MailFrame, Key
    <2>8. ASSUME NEW a \in Account, NEW e \in Email \cup {None}, Register(a, e) PROVE TypeOK'
      BY <2>8 DEF Register, MailFrame
    <2>9. ASSUME RequestRefused PROVE TypeOK'
      BY <2>9, PrunedType DEF RequestRefused, MailFrame
    <2>10. ASSUME TakeJob PROVE TypeOK'
      <3>1. Head(jobs) \in Job /\ Tail(jobs) \in Seq(Job) /\ Len(Tail(jobs)) <= QueueLimit
        BY <2>10, LimitsAreNat DEF TakeJob
      <3> QED
        BY <2>10, <3>1 DEF TakeJob, gameVars
    <2>11. ASSUME NEW success \in BOOLEAN, SendMail(success) PROVE TypeOK'
      <3>1. [id |-> sending.id, session |-> sending.session,
             request |-> sending.request, success |-> success] \in Result
        BY <2>11 DEF SendMail, Job, Result
      <3>2. <<sending.account, sending.email>> \in Key
        BY <2>11 DEF SendMail, Job, Key
      <3> QED
        BY <2>11, <3>1, <3>2 DEF SendMail, Reported, gameVars
    <2>12. ASSUME ProcessDeliveryResults PROVE TypeOK'
      <3>1. ASSUME NEW key \in Key, NEW result \in ResultsFor(key)
            PROVE  Settled(key, result) \in Challenge \cup {None}
        <4>1. challenges[key] \in Challenge /\ result.success \in BOOLEAN
          BY DEF ResultsFor, Challenged, Result
        <4>2. [challenges[key] EXCEPT !.ready = TRUE, !.left = Ttl] \in Challenge
          BY <4>1, MailedType
        <4> QED
          BY <4>2 DEF Settled
      <3>2. challenges' \in [Key -> Challenge \cup {None}]
        BY <2>12, <3>1 DEF ProcessDeliveryResults
      <3> QED
        BY <2>12, <3>2 DEF ProcessDeliveryResults
    <2>13. ASSUME Clock PROVE TypeOK'
      <3>1. emailWait' \in [Email -> 0..Cooldown] /\ accountWait' \in [Account -> 0..Cooldown]
        BY <2>13, LessInRange, LimitsAssumption DEF Clock
      <3>2. ASSUME NEW c \in Challenge PROVE [c EXCEPT !.left = Less(@)] \in Challenge
        <4>1. Less(c.left) \in 0..(SendTimeout + Ttl)
          BY LessInRange, LimitsAssumption DEF Challenge
        <4> QED
          BY <4>1 DEF Challenge
      <3>3. challenges' \in [Key -> Challenge \cup {None}]
        BY <2>13, <3>2 DEF Clock
      <3> QED
        BY <2>13, <3>1, <3>3 DEF Clock, MailFrame
    <2>14. CASE UNCHANGED vars
      BY <2>14 DEF vars, gameVars
    <2> QED
      BY <2>1, <2>2, <2>3, <2>4, <2>5, <2>6, <2>7, <2>8, <2>9, <2>10, <2>11, <2>12, <2>13, <2>14
      DEF Next
  <1> QED
    BY <1>1, <1>2, PTL DEF Spec

-----------------------------------------------------------------------------
\* Addresses

\* Only a registration and a confirmation give an address to an account.
LEMMA OnlyTwoActionsAddress ==
  ASSUME [Next]_vars,
         ~ \E a \in Account, e \in Email \cup {None} : Register(a, e),
         ~ \E i \in Id, e \in Email : RightCode(i, e)
  PROVE  email' = email /\ verified' = verified
  BY DEF Next, vars, gameVars, Enter, Relogin, Leave, RequestCode, CodeExpired, WrongCode,
         RequestRefused, TakeJob, SendMail, ProcessDeliveryResults, Clock, MailFrame, ConfirmFrame

\* Whatever happens between the three checks of an address, it never belongs to
\* two accounts.
THEOREM UniqueAddresses == Spec => []AddressesAreUnique
  <1>1. Init => AddressesAreUnique
    BY NoneAssumption DEF Init, AddressesAreUnique
  <1>2. TypeOK /\ AddressesAreUnique /\ [Next]_vars => AddressesAreUnique'
    <2> SUFFICES ASSUME TypeOK, AddressesAreUnique, [Next]_vars PROVE AddressesAreUnique'
      OBVIOUS
    <2>1. ASSUME NEW a \in Account, NEW e \in Email \cup {None}, Register(a, e)
          PROVE  AddressesAreUnique'
      BY <2>1, NoneAssumption DEF Register, Taken, TypeOK, AddressesAreUnique
    <2>2. ASSUME NEW i \in Id, NEW e \in Email, RightCode(i, e) PROVE AddressesAreUnique'
      <3>1. player[i].account \in Account
        BY <2>2 DEF RightCode, TypeOK
      <3> QED
        BY <2>2, <3>1 DEF RightCode, MayConfirm, Taken, TypeOK, AddressesAreUnique
    <2> QED
      BY <2>1, <2>2, OnlyTwoActionsAddress DEF AddressesAreUnique
  <1> QED
    BY <1>1, <1>2, TypeCorrect, PTL DEF Spec

\* Verified accounts have an address, since registering comes first.
LEMMA VerifiedHaveAddresses == Spec => []VerifiedHasAddress
  <1>1. Init => VerifiedHasAddress
    BY DEF Init, VerifiedHasAddress
  <1>2. TypeOK /\ VerifiedHasAddress /\ [Next]_vars => VerifiedHasAddress'
    <2> SUFFICES ASSUME TypeOK, VerifiedHasAddress, [Next]_vars PROVE VerifiedHasAddress'
      OBVIOUS
    <2>1. ASSUME NEW a \in Account, NEW e \in Email \cup {None}, Register(a, e)
          PROVE  VerifiedHasAddress'
      BY <2>1, NoneAssumption DEF Register, TypeOK, VerifiedHasAddress
    <2>2. ASSUME NEW i \in Id, NEW e \in Email, RightCode(i, e) PROVE VerifiedHasAddress'
      BY <2>2 DEF RightCode, TypeOK, VerifiedHasAddress
    <2> QED
      BY <2>1, <2>2, OnlyTwoActionsAddress DEF VerifiedHasAddress
  <1> QED
    BY <1>1, <1>2, TypeCorrect, PTL DEF Spec

\* No step takes a verified address away or replaces it: a challenge that was
\* under way for another address of the account comes too late.
THEOREM VerifiedForGood == Spec => VerifiedIsFinal
  <1>1. TypeOK /\ VerifiedHasAddress /\ [Next]_vars =>
          [\A a \in verified : a \in verified' /\ email'[a] = email[a]]_vars
    <2> SUFFICES ASSUME TypeOK, VerifiedHasAddress, [Next]_vars, NEW a \in verified
                 PROVE  a \in verified' /\ email'[a] = email[a]
      OBVIOUS
    <2>1. ASSUME NEW b \in Account, NEW e \in Email \cup {None}, Register(b, e)
          PROVE  a \in verified' /\ email'[a] = email[a]
      BY <2>1, NoneAssumption DEF Register, TypeOK, VerifiedHasAddress
    <2>2. ASSUME NEW i \in Id, NEW e \in Email, RightCode(i, e)
          PROVE  a \in verified' /\ email'[a] = email[a]
      BY <2>2 DEF RightCode, MayConfirm, TypeOK
    <2> QED
      BY <2>1, <2>2, OnlyTwoActionsAddress
  <1> QED
    BY <1>1, TypeCorrect, VerifiedHaveAddresses, PTL DEF Spec, VerifiedIsFinal

-----------------------------------------------------------------------------
\* Challenges

\* A step that starts no challenge leaves those there are with their requests,
\* and only a delivery result makes one ready.
LEMMA ChallengesAppearOnRequest ==
  ASSUME TypeOK, [Next]_vars,
         ~ \E i \in Id, e \in Email : RequestCode(i, e),
         NEW key \in Key, challenges'[key] # None
  PROVE  /\ challenges[key] # None /\ challenges'[key].request = challenges[key].request
         /\ ~ProcessDeliveryResults => challenges'[key].ready = challenges[key].ready
  <1> USE DEF TypeOK
  <1>1. ASSUME NEW i \in Id, NEW e \in Email, CodeExpired(i, e) \/ RightCode(i, e)
        PROVE  /\ challenges[key] # None /\ challenges'[key].request = challenges[key].request
               /\ challenges'[key].ready = challenges[key].ready
    BY <1>1 DEF CodeExpired, RightCode, Forgotten
  <1>2. ASSUME NEW i \in Id, NEW e \in Email, WrongCode(i, e)
        PROVE  /\ challenges[key] # None /\ challenges'[key].request = challenges[key].request
               /\ challenges'[key].ready = challenges[key].ready
    <2>1. <<player[i].account, e>> \in Key
      BY <1>2 DEF WrongCode, Key
    <2> QED
      BY <1>2, <2>1 DEF WrongCode, MayTry, Forgotten, Challenge
  <1>3. ASSUME RequestRefused
        PROVE  /\ challenges[key] # None /\ challenges'[key].request = challenges[key].request
               /\ challenges'[key].ready = challenges[key].ready
    BY <1>3, PrunedType DEF RequestRefused
  <1>4. ASSUME ProcessDeliveryResults
        PROVE  challenges[key] # None /\ challenges'[key].request = challenges[key].request
    <2>1. CASE ResultsFor(key) = {}
      BY <1>4, <2>1 DEF ProcessDeliveryResults
    <2>2. CASE ResultsFor(key) # {}
      <3>1. challenges[key] \in Challenge
        BY <2>2 DEF ResultsFor, Challenged
      <3> QED
        BY <1>4, <2>2, <3>1, NoneAssumption
        DEF ProcessDeliveryResults, Settled, ResultsFor, Challenged, Challenge
    <2> QED
      BY <2>1, <2>2
  <1>5. ASSUME Clock
        PROVE  /\ challenges[key] # None /\ challenges'[key].request = challenges[key].request
               /\ challenges'[key].ready = challenges[key].ready
    BY <1>5 DEF Clock, Challenge
  <1> QED
    BY <1>1, <1>2, <1>3, <1>4, <1>5
    DEF Next, vars, gameVars, Enter, Relogin, Leave, Register, TakeJob, SendMail, MailFrame

\* However long mails take, one account at a time is verifying an address.
THEOREM OneAccountVerifies == Spec => []OneAccountPerAddress
  <1>1. Init => OneAccountPerAddress
    BY DEF Init, OneAccountPerAddress, Key
  <1>2. TypeOK /\ OneAccountPerAddress /\ [Next]_vars => OneAccountPerAddress'
    <2> SUFFICES ASSUME TypeOK, OneAccountPerAddress, [Next]_vars,
                        NEW a \in Account, NEW b \in Account, NEW e \in Email,
                        challenges'[<<a, e>>] # None, challenges'[<<b, e>>] # None
                 PROVE  a = b
      BY DEF OneAccountPerAddress
    <2>1. <<a, e>> \in Key /\ <<b, e>> \in Key
      BY DEF Key
    <2>2. ASSUME NEW i \in Id, NEW e2 \in Email, RequestCode(i, e2) PROVE a = b
      <3>1. player[i].account \in Account
        BY <2>2 DEF RequestCode, MayBind, TypeOK
      <3>2. \A key \in Key : key # <<player[i].account, e2>> => challenges'[key] = Pruned[key]
        BY <2>2, PrunedType DEF RequestCode
      <3>3. \A other \in Account : other # player[i].account => Pruned[<<other, e2>>] = None
        BY <2>2 DEF RequestCode, Unrivalled
      <3> QED
        BY <2>1, <3>1, <3>2, <3>3, PrunedType DEF OneAccountPerAddress
    <2> QED
      BY <2>1, <2>2, ChallengesAppearOnRequest DEF OneAccountPerAddress
  <1> QED
    BY <1>1, <1>2, TypeCorrect, PTL DEF Spec

\* Neither what accounts have nor what they are verifying is ever shared.
THEOREM ExclusiveAddresses == Spec => []AddressesAreExclusive
  BY UniqueAddresses, OneAccountVerifies, PTL DEF AddressesAreExclusive

-----------------------------------------------------------------------------
\* Mails

\* Queued mails are mails, and the worker takes one of them.
LEMMA MailsAreJobs == TypeOK => Mails \subseteq Job
  BY DEF TypeOK, Mails

LEMMA TakingMovesAMail ==
  ASSUME TypeOK, TakeJob
  PROVE  Mails' = Mails
  <1>1. jobs \in Seq(Job) /\ jobs # <<>> /\ sending = None
    BY DEF TypeOK, TakeJob
  <1>2. 1 \in DOMAIN jobs /\ Head(jobs) = jobs[1] /\ jobs[1] \in Job
    BY <1>1
  <1>3. /\ \A k \in DOMAIN Tail(jobs) : k + 1 \in DOMAIN jobs /\ Tail(jobs)[k] = jobs[k + 1]
        /\ \A k \in DOMAIN jobs : k # 1 => k - 1 \in DOMAIN Tail(jobs) /\ Tail(jobs)[k - 1] = jobs[k]
    BY <1>1
  <1>4. {jobs[k] : k \in DOMAIN jobs} = {Tail(jobs)[k] : k \in DOMAIN Tail(jobs)} \cup {Head(jobs)}
    <2>1. ASSUME NEW k \in DOMAIN jobs
          PROVE  jobs[k] \in {Tail(jobs)[n] : n \in DOMAIN Tail(jobs)} \cup {Head(jobs)}
      <3>1. CASE k = 1
        BY <3>1, <1>2
      <3>2. CASE k # 1
        <4>1. k - 1 \in DOMAIN Tail(jobs) /\ jobs[k] = Tail(jobs)[k - 1]
          BY <3>2, <1>3
        <4> QED
          BY <4>1
      <3> QED
        BY <3>1, <3>2
    <2>2. ASSUME NEW n \in DOMAIN Tail(jobs)
          PROVE  Tail(jobs)[n] \in {jobs[k] : k \in DOMAIN jobs}
      BY <1>3
    <2> QED
      BY <2>1, <2>2, <1>2
  <1> QED
    BY <1>1, <1>2, <1>4, NoneAssumption DEF TakeJob, Mails

LEMMA SendingRemovesAMail ==
  ASSUME TypeOK, NEW success \in BOOLEAN, SendMail(success)
  PROVE  sending \in Job /\ Mails = Mails' \cup {sending}
  BY DEF TypeOK, SendMail, Mails, gameVars

\* What asking for a code changes, with r the new request and a the account.
Asked(i, e, r, a) ==
  LET job == [id |-> i, session |-> player[i].session, request |-> r, account |-> a, email |-> e]
  IN  /\ \A m \in Mails \cup results : m.request # r
      /\ \A key \in Key : challenges[key] # None => challenges[key].request # r
      /\ \A j \in Id : deliveries[j] # r
      /\ Mails' = Mails \cup {job}
      /\ challenges'[<<a, e>>].request = r /\ ~challenges'[<<a, e>>].ready
      /\ \A key \in Key : key # <<a, e>> /\ challenges'[key] # None =>
           challenges'[key] = challenges[key] /\ challenges[key] # None
      /\ deliveries' = [deliveries EXCEPT ![i] = r]
      /\ results' = results /\ player' = player
      /\ email' = email /\ verified' = verified /\ delivered' = delivered

\* A request is new when its code is asked for.
LEMMA RequestIsFresh ==
  ASSUME TypeOK, NEW i \in Id, NEW e \in Email, RequestCode(i, e)
  PROVE  \E r \in Request, a \in Account : Asked(i, e, r, a)
  <1> DEFINE a == player[i].account
  <1>1. a \in Account /\ <<a, e>> \in Key
    BY DEF RequestCode, MayBind, TypeOK, Key
  <1>2. PICK r \in Request \ RequestsInUse :
          /\ jobs' = Append(jobs, [id |-> i, session |-> player[i].session, request |-> r,
                                   account |-> a, email |-> e])
          /\ challenges' = [Pruned EXCEPT ![<<a, e>>] =
               [request |-> r, ready |-> FALSE, attempts |-> 0, left |-> SendTimeout + Ttl]]
          /\ deliveries' = [deliveries EXCEPT ![i] = r]
    BY DEF RequestCode
  <1>3. /\ \A m \in Mails \cup results : m.request # r
        /\ \A key \in Key : challenges[key] # None => challenges[key].request # r
        /\ \A j \in Id : deliveries[j] # r
    BY <1>2 DEF RequestsInUse, Mails, Challenged
  <1> DEFINE job == [id |-> i, session |-> player[i].session, request |-> r,
                     account |-> a, email |-> e]
  <1>4. jobs \in Seq(Job) /\ jobs' = Append(jobs, job) /\ sending' = sending
    BY <1>2 DEF TypeOK, RequestCode
  <1>5. Mails' = Mails \cup {job}
    <2> HIDE DEF job
    <2>1. /\ DOMAIN jobs' = DOMAIN jobs \cup {Len(jobs) + 1}
          /\ jobs'[Len(jobs) + 1] = job
          /\ \A k \in DOMAIN jobs : jobs'[k] = jobs[k]
      BY <1>4
    <2>2. {jobs'[k] : k \in DOMAIN jobs'} = {jobs[k] : k \in DOMAIN jobs} \cup {job}
      BY <2>1
    <2> QED
      BY <1>4, <2>2 DEF Mails
  <1>6. /\ challenges'[<<a, e>>].request = r /\ ~challenges'[<<a, e>>].ready
        /\ \A key \in Key : key # <<a, e>> /\ challenges'[key] # None =>
             challenges'[key] = challenges[key] /\ challenges[key] # None
    BY <1>1, <1>2, PrunedType
  <1>7. /\ results' = results /\ player' = player
        /\ email' = email /\ verified' = verified /\ delivered' = delivered
    BY DEF RequestCode
  <1> QED
    BY <1>1, <1>2, <1>3, <1>5, <1>6, <1>7 DEF Asked

\* Only asking, taking, sending and the results touch mails.
LEMMA OtherStepsLeaveMails ==
  ASSUME [Next]_vars,
         ~ \E i \in Id, e \in Email : RequestCode(i, e),
         ~TakeJob,
         ~ \E success \in BOOLEAN : SendMail(success),
         ~ProcessDeliveryResults
  PROVE  Mails' = Mails /\ results' = results /\ delivered' = delivered
  <1>1. jobs' = jobs /\ sending' = sending /\ results' = results /\ delivered' = delivered
    BY DEF Next, vars, gameVars, Enter, Relogin, Leave, Register, CodeExpired, WrongCode,
           RightCode, RequestRefused, Clock, MailFrame, ConfirmFrame
  <1> QED
    BY <1>1 DEF Mails

\* Whoever has a verified address was sent a code for it, although a right code
\* is all that is asked for: a challenge is ready only after its own mail.
THEOREM VerifiedWereMailed == Spec => []VerifiedWasMailed
  <1>1. Init => MailInv
    BY DEF Init, MailInv, VerifiedWasMailed
  <1>2. TypeOK /\ VerifiedHasAddress /\ MailInv /\ [Next]_vars => MailInv'
    <2> SUFFICES ASSUME TypeOK, VerifiedHasAddress, MailInv, [Next]_vars PROVE MailInv'
      OBVIOUS
    <2>1. ASSUME NEW i \in Id, NEW e \in Email, RequestCode(i, e) PROVE MailInv'
      <3>1. VerifiedWasMailed'
        BY <2>1 DEF RequestCode, MailInv, VerifiedWasMailed
      <3>2. PICK r \in Request, a \in Account : Asked(i, e, r, a)
        BY <2>1, RequestIsFresh
      <3>3. ASSUME NEW key \in Key, challenges'[key] # None
            PROVE  /\ \A mail \in Mails' : mail.request = challenges'[key].request =>
                        key = <<mail.account, mail.email>>
                   /\ \A result \in results' :
                        result.success /\ result.request = challenges'[key].request => key \in delivered'
                   /\ challenges'[key].ready => key \in delivered'
        <4>1. CASE key = <<a, e>>
          BY <3>2, <4>1 DEF Asked
        <4>2. CASE key # <<a, e>>
          BY <3>2, <3>3, <4>2 DEF Asked, MailInv
        <4> QED
          BY <4>1, <4>2
      <3> QED
        BY <3>1, <3>3 DEF MailInv
    <2>2. ASSUME TakeJob PROVE MailInv'
      BY <2>2, TakingMovesAMail DEF MailInv, VerifiedWasMailed, TakeJob, gameVars
    <2>3. ASSUME NEW success \in BOOLEAN, SendMail(success) PROVE MailInv'
      <3> DEFINE new == [id |-> sending.id, session |-> sending.session,
                         request |-> sending.request, success |-> success]
      <3>1. Mails = Mails' \cup {sending} /\ sending \in Job
        BY <2>3, SendingRemovesAMail
      <3>2. /\ results' = results \cup {new}
            /\ delivered \subseteq delivered'
            /\ success => <<sending.account, sending.email>> \in delivered'
            /\ challenges' = challenges /\ email' = email /\ verified' = verified
        BY <2>3 DEF SendMail, Reported, gameVars
      <3>3. ASSUME NEW key \in Key, challenges[key] # None,
                   success, sending.request = challenges[key].request
            PROVE  key \in delivered'
        BY <3>1, <3>2, <3>3 DEF MailInv
      <3> QED
        BY <3>1, <3>2, <3>3 DEF MailInv, VerifiedWasMailed
    <2>4. ASSUME ProcessDeliveryResults PROVE MailInv'
      <3>1. /\ Mails' = Mails /\ results' = {} /\ delivered' = delivered
            /\ email' = email /\ verified' = verified
        BY <2>4 DEF ProcessDeliveryResults, Mails
      <3>2. ASSUME NEW key \in Key, challenges'[key] # None
            PROVE  challenges[key] # None /\ challenges'[key].request = challenges[key].request
        <4>1. ~ \E i \in Id, e \in Email : RequestCode(i, e)
          BY <2>4 DEF ProcessDeliveryResults, RequestCode
        <4> QED
          BY <3>2, <4>1, ChallengesAppearOnRequest
      <3>3. ASSUME NEW key \in Key, challenges'[key] # None, challenges'[key].ready
            PROVE  key \in delivered
        <4>1. CASE ResultsFor(key) = {}
          BY <2>4, <3>3, <4>1, <3>2 DEF ProcessDeliveryResults, TypeOK, MailInv
        <4>2. CASE ResultsFor(key) # {}
          <5>1. PICK result \in ResultsFor(key) : challenges'[key] = Settled(key, result)
            BY <2>4, <4>2 DEF ProcessDeliveryResults, TypeOK
          <5>2. result.success
            BY <5>1, <3>3 DEF Settled
          <5> QED
            BY <5>1, <5>2 DEF ResultsFor, Challenged, MailInv
        <4> QED
          BY <4>1, <4>2
      <3> QED
        BY <3>1, <3>2, <3>3 DEF MailInv, VerifiedWasMailed
    <2>5. ASSUME ~ \E i \in Id, e \in Email : RequestCode(i, e), ~TakeJob,
                 ~ \E success \in BOOLEAN : SendMail(success), ~ProcessDeliveryResults
          PROVE  MailInv'
      <3>1. Mails' = Mails /\ results' = results /\ delivered' = delivered
        BY <2>5, OtherStepsLeaveMails
      <3>2. \A key \in Key : challenges'[key] # None =>
              /\ challenges[key] # None /\ challenges'[key].request = challenges[key].request
              /\ challenges'[key].ready = challenges[key].ready
        BY <2>5, ChallengesAppearOnRequest
      <3>3. VerifiedWasMailed'
        <4>1. ASSUME NEW a \in Account, NEW e \in Email \cup {None}, Register(a, e)
              PROVE  VerifiedWasMailed'
          BY <3>1, <4>1, NoneAssumption
          DEF Register, MailInv, VerifiedWasMailed, VerifiedHasAddress, TypeOK
        <4>2. ASSUME NEW i \in Id, NEW e \in Email, RightCode(i, e) PROVE VerifiedWasMailed'
          <5>1. <<player[i].account, e>> \in delivered
            BY <4>2 DEF RightCode, MayTry, MailInv, TypeOK, Key
          <5>2. /\ email' = [email EXCEPT ![player[i].account] = e]
                /\ verified' = verified \cup {player[i].account}
                /\ player[i].account \in Account
            BY <4>2 DEF RightCode, TypeOK
          <5> QED
            BY <3>1, <5>1, <5>2 DEF MailInv, VerifiedWasMailed, TypeOK
        <4> QED
          BY <3>1, <4>1, <4>2, OnlyTwoActionsAddress DEF MailInv, VerifiedWasMailed
      <3> QED
        BY <3>1, <3>2, <3>3 DEF MailInv
    <2> QED
      BY <2>1, <2>2, <2>3, <2>4, <2>5
  <1>3. MailInv => VerifiedWasMailed
    BY DEF MailInv
  <1> QED
    BY <1>1, <1>2, <1>3, TypeCorrect, VerifiedHaveAddresses, PTL DEF Spec

\* A challenge whose mail failed, was overtaken or came late is not left over: a
\* pending one has its own mail queued, with the worker, or reported.
THEOREM PendingHaveMails == Spec => []PendingIsOnItsWay
  <1> DEFINE Pending ==
        \A key \in Key : challenges[key] # None /\ ~challenges[key].ready =>
          \E m \in Mails \cup results : m.request = challenges[key].request
  <1>1. Init => Pending
    BY DEF Init
  <1>2. TypeOK /\ Pending /\ [Next]_vars => Pending'
    <2> SUFFICES ASSUME TypeOK, Pending, [Next]_vars PROVE Pending'
      OBVIOUS
    <2>1. ASSUME NEW i \in Id, NEW e \in Email, RequestCode(i, e) PROVE Pending'
      <3>1. PICK r \in Request, a \in Account : Asked(i, e, r, a)
        BY <2>1, RequestIsFresh
      <3>2. ASSUME NEW key \in Key, challenges'[key] # None, ~challenges'[key].ready
            PROVE  \E m \in Mails' \cup results' : m.request = challenges'[key].request
        <4>1. CASE key = <<a, e>>
          <5> DEFINE job == [id |-> i, session |-> player[i].session, request |-> r,
                             account |-> a, email |-> e]
          <5>1. job \in Mails' /\ job.request = r /\ challenges'[key].request = r
            BY <3>1, <4>1 DEF Asked
          <5> QED
            BY <5>1
        <4>2. CASE key # <<a, e>>
          <5>1. challenges'[key] = challenges[key] /\ challenges[key] # None
            BY <3>1, <3>2, <4>2 DEF Asked
          <5>2. PICK m \in Mails \cup results : m.request = challenges[key].request
            BY <3>2, <5>1
          <5>3. m \in Mails' \cup results'
            BY <3>1 DEF Asked
          <5> QED
            BY <5>1, <5>2, <5>3
        <4> QED
          BY <4>1, <4>2
      <3> QED
        BY <3>2
    <2>2. ASSUME TakeJob PROVE Pending'
      BY <2>2, TakingMovesAMail DEF TakeJob, gameVars
    <2>3. ASSUME NEW success \in BOOLEAN, SendMail(success) PROVE Pending'
      BY <2>3, SendingRemovesAMail DEF SendMail, Reported, gameVars
    <2>4. ASSUME ProcessDeliveryResults PROVE Pending'
      <3> SUFFICES ASSUME NEW key \in Key, challenges'[key] # None, ~challenges'[key].ready
                   PROVE  \E m \in Mails' : m.request = challenges'[key].request
        OBVIOUS
      <3>1. ResultsFor(key) = {}
        <4> SUFFICES ASSUME ResultsFor(key) # {} PROVE FALSE
          OBVIOUS
        <4>1. PICK result \in ResultsFor(key) : challenges'[key] = Settled(key, result)
          BY <2>4 DEF ProcessDeliveryResults
        <4>2. challenges[key] \in Challenge
          BY DEF ResultsFor, Challenged, TypeOK
        <4> QED
          BY <4>1, <4>2 DEF Settled, Challenge
      <3>2. challenges'[key] = challenges[key]
        BY <2>4, <3>1 DEF ProcessDeliveryResults
      <3>3. PICK m \in Mails \cup results : m.request = challenges[key].request
        BY <3>2
      <3>4. m \notin results
        BY <3>1, <3>2, <3>3 DEF ResultsFor, Challenged
      <3>5. Mails' = Mails
        BY <2>4 DEF ProcessDeliveryResults, Mails
      <3> QED
        BY <3>2, <3>3, <3>4, <3>5
    <2>5. ASSUME ~ \E i \in Id, e \in Email : RequestCode(i, e), ~TakeJob,
                 ~ \E success \in BOOLEAN : SendMail(success), ~ProcessDeliveryResults
          PROVE  Pending'
      BY <2>5, OtherStepsLeaveMails, ChallengesAppearOnRequest
    <2> QED
      BY <2>1, <2>2, <2>3, <2>4, <2>5
  <1>3. Pending => PendingIsOnItsWay
    <2> SUFFICES ASSUME Pending, NEW key \in Challenged, ~challenges[key].ready
                 PROVE  OnItsWay(challenges[key].request)
      BY DEF PendingIsOnItsWay
    <2>1. PICK m \in Mails \cup results : m.request = challenges[key].request
      BY DEF Challenged
    <2> QED
      BY <2>1 DEF Mails, OnItsWay
  <1> QED
    BY <1>1, <1>2, <1>3, TypeCorrect, PTL DEF Spec

\* A player that waits has a mail of its own on its way, or nothing of its
\* request is left: the two ends of a request are never apart.
THEOREM OverdueAreForgotten == Spec => []OverdueIsForgotten
  <1> DEFINE Coming(i) == \E m \in Mails \cup results : m.id = i /\ m.request = deliveries[i]
             Gone(i) == \A key \in Key : challenges[key] # None => challenges[key].request # deliveries[i]
             Waiting == \A i \in Id : deliveries[i] # None => Coming(i) \/ Gone(i)
  <1>1. Init => Waiting
    BY DEF Init
  <1>2. TypeOK /\ Waiting /\ [Next]_vars => Waiting'
    <2> SUFFICES ASSUME TypeOK, Waiting, [Next]_vars PROVE Waiting'
      OBVIOUS
    <2>1. ASSUME NEW i \in Id, NEW e \in Email, RequestCode(i, e) PROVE Waiting'
      <3>1. PICK r \in Request, a \in Account : Asked(i, e, r, a)
        BY <2>1, RequestIsFresh
      <3>2. deliveries'[i] = r /\ \A j \in Id : j # i => deliveries'[j] = deliveries[j]
        BY <3>1 DEF Asked, TypeOK
      <3>3. Coming(i)'
        <4> DEFINE job == [id |-> i, session |-> player[i].session, request |-> r,
                           account |-> a, email |-> e]
        <4>1. job \in Mails' /\ job.id = i /\ job.request = deliveries'[i]
          BY <3>1, <3>2 DEF Asked
        <4> QED
          BY <4>1
      <3>4. ASSUME NEW j \in Id, j # i, deliveries'[j] # None PROVE Coming(j)' \/ Gone(j)'
        <4>1. deliveries'[j] = deliveries[j] /\ deliveries[j] # r
          BY <3>1, <3>2, <3>4 DEF Asked
        <4>2. CASE Coming(j)
          BY <3>1, <4>1, <4>2 DEF Asked
        <4>3. CASE Gone(j)
          BY <3>1, <4>1, <4>3 DEF Asked
        <4> QED
          BY <3>4, <4>1, <4>2, <4>3
      <3> QED
        BY <3>3, <3>4
    <2>2. ASSUME TakeJob PROVE Waiting'
      BY <2>2, TakingMovesAMail DEF TakeJob, gameVars
    <2>3. ASSUME NEW success \in BOOLEAN, SendMail(success) PROVE Waiting'
      <3> DEFINE report == [id |-> sending.id, session |-> sending.session,
                            request |-> sending.request, success |-> success]
      <3>1. /\ Mails = Mails' \cup {sending} /\ results' = results \cup {report}
            /\ deliveries' = deliveries /\ challenges' = challenges
        BY <2>3, SendingRemovesAMail DEF SendMail, Reported, gameVars
      <3>2. report \in results' /\ report.id = sending.id /\ report.request = sending.request
        BY <3>1
      <3> HIDE DEF report
      <3>3. \A i \in Id : Coming(i) => Coming(i)'
        BY <3>1, <3>2
      <3> QED
        BY <3>1, <3>3
    <2>4. ASSUME ProcessDeliveryResults PROVE Waiting'
      <3> SUFFICES ASSUME NEW i \in Id, deliveries'[i] # None PROVE (Coming(i) \/ Gone(i))'
        OBVIOUS
      <3>1. /\ deliveries'[i] = deliveries[i]
            /\ ~ \E key \in Key : \E result \in ResultsFor(key) :
                 result.id = i /\ result.request = deliveries[i]
        BY <2>4 DEF ProcessDeliveryResults
      <3>2. Mails' = Mails
        BY <2>4 DEF ProcessDeliveryResults, Mails
      <3>3. \A key \in Key : challenges'[key] # None =>
              challenges[key] # None /\ challenges'[key].request = challenges[key].request
        <4> SUFFICES ASSUME NEW key \in Key, challenges'[key] # None
                     PROVE  challenges[key] # None /\ challenges'[key].request = challenges[key].request
          OBVIOUS
        <4>1. CASE ResultsFor(key) = {}
          BY <2>4, <4>1 DEF ProcessDeliveryResults
        <4>2. CASE ResultsFor(key) # {}
          <5>1. PICK result \in ResultsFor(key) : challenges'[key] = Settled(key, result)
            BY <2>4, <4>2 DEF ProcessDeliveryResults
          <5>2. challenges[key] # None /\ challenges[key] \in Challenge
            BY <4>2 DEF ResultsFor, Challenged, TypeOK
          <5> QED
            BY <5>1, <5>2 DEF Settled, Challenge
        <4> QED
          BY <4>1, <4>2
      <3>4. CASE Gone(i)
        BY <3>1, <3>3, <3>4
      <3>5. ASSUME NEW m \in Mails, m.id = i, m.request = deliveries[i] PROVE Coming(i)'
        BY <3>1, <3>2, <3>5
      <3>6. ASSUME NEW m \in results, m.id = i, m.request = deliveries[i] PROVE Gone(i)
        BY <3>1, <3>6 DEF ResultsFor, Challenged
      <3> QED
        BY <3>1, <3>4, <3>5, <3>6
    <2>5. ASSUME ~ \E i \in Id, e \in Email : RequestCode(i, e), ~TakeJob,
                 ~ \E success \in BOOLEAN : SendMail(success), ~ProcessDeliveryResults
          PROVE  Waiting'
      <3>1. Mails' = Mails /\ results' = results
        BY <2>5, OtherStepsLeaveMails
      <3>2. \A j \in Id : deliveries'[j] = None \/ deliveries'[j] = deliveries[j]
        BY <2>5 DEF Next, vars, gameVars, Enter, Relogin, Leave, Cleared, Register, CodeExpired,
             WrongCode, RightCode, RequestRefused, Clock, MailFrame, ConfirmFrame, TypeOK
      <3>3. \A key \in Key : challenges'[key] # None =>
              challenges[key] # None /\ challenges'[key].request = challenges[key].request
        BY <2>5, ChallengesAppearOnRequest
      <3> QED
        BY <3>1, <3>2, <3>3
    <2> QED
      BY <2>1, <2>2, <2>3, <2>4, <2>5
  <1>3. Waiting => OverdueIsForgotten
    BY DEF OverdueIsForgotten, OnItsWay, Mails, Challenged
  <1> QED
    BY <1>1, <1>2, <1>3, TypeCorrect, PTL DEF Spec

\* Challenges, mails and waiting players keep together.
THEOREM TrackedMails == Spec => []MailsAreTracked
  BY PendingHaveMails, OverdueAreForgotten, PTL DEF MailsAreTracked

\* A late answer reaches the session that asked or nobody, however player ids
\* are reused meanwhile.
THEOREM AnswersReachWhoAsked == Spec => []AnswersGoHome
  <1>1. Init => HomeInv
    BY DEF Init, HomeInv, Mails
  <1>2. TypeOK /\ HomeInv /\ [Next]_vars => HomeInv'
    <2> SUFFICES ASSUME TypeOK, HomeInv, [Next]_vars PROVE HomeInv'
      OBVIOUS
    <2>0. \A m \in Mails \cup results : m.id \in Id /\ m.request \in Request
      BY MailsAreJobs DEF TypeOK, Job, Result
    <2>1. ASSUME NEW i \in Id, NEW e \in Email, RequestCode(i, e) PROVE HomeInv'
      <3>1. player[i] # None
        BY <2>1 DEF RequestCode
      <3>2. PICK r \in Request, a \in Account : Asked(i, e, r, a)
        BY <2>1, RequestIsFresh
      <3>3. deliveries'[i] = r /\ \A j \in Id : j # i => deliveries'[j] = deliveries[j]
        BY <3>2 DEF Asked, TypeOK
      <3> QED
        BY <2>0, <3>1, <3>2, <3>3 DEF HomeInv, Asked
    <2>2. ASSUME TakeJob PROVE HomeInv'
      BY <2>2, TakingMovesAMail DEF HomeInv, TakeJob, gameVars
    <2>3. ASSUME NEW success \in BOOLEAN, SendMail(success) PROVE HomeInv'
      BY <2>3, SendingRemovesAMail DEF HomeInv, SendMail, Reported, gameVars
    <2>4. ASSUME ProcessDeliveryResults PROVE HomeInv'
      <3>1. Mails' = Mails /\ results' = {} /\ player' = player
        BY <2>4 DEF ProcessDeliveryResults, Mails
      <3>2. \A i \in Id : deliveries'[i] = deliveries[i] \/ deliveries'[i] = None
        BY <2>4 DEF ProcessDeliveryResults
      <3> QED
        BY <2>0, <3>1, <3>2, NoneAssumption DEF HomeInv
    <2>5. ASSUME ~ \E i \in Id, e \in Email : RequestCode(i, e), ~TakeJob,
                 ~ \E success \in BOOLEAN : SendMail(success), ~ProcessDeliveryResults
          PROVE  HomeInv'
      <3>1. Mails' = Mails /\ results' = results
        BY <2>5, OtherStepsLeaveMails
      <3>2. \A j \in Id :
              \/ deliveries'[j] = None
              \/ deliveries'[j] = deliveries[j] /\ player'[j] = player[j]
              \/ deliveries'[j] = deliveries[j] /\ player[j] = None
        BY <2>5 DEF Next, vars, gameVars, Enter, Relogin, Leave, Cleared, Register, CodeExpired,
             WrongCode, RightCode, RequestRefused, Clock, MailFrame, ConfirmFrame, TypeOK
      <3> QED
        BY <2>0, <3>1, <3>2, NoneAssumption DEF HomeInv
    <2> QED
      BY <2>1, <2>2, <2>3, <2>4, <2>5
  <1>3. HomeInv => AnswersGoHome
    BY DEF HomeInv, AnswersGoHome, Mails, TypeOK
  <1> QED
    BY <1>1, <1>2, <1>3, TypeCorrect, PTL DEF Spec
=============================================================================
