------------------------ MODULE AuthSessionsProofs ------------------------
(***************************************************************************)
(* Proofs about AuthSessions, for any numbers of player ids, sockets,      *)
(* accounts and requests, and whatever the queues contain.                 *)
(***************************************************************************)
EXTENDS AuthSessions, FiniteSetTheorems, FunctionTheorems, WellFoundedInduction, TLAPS

\* The players are a table of sockets and accounts.  Nothing more is needed
\* about their values: an id or account that comes from a queue cannot give an
\* account a second session even if it were wrong.
PlayersAreRecords ==
  players = [i \in Id |-> [conn |-> players[i].conn, account |-> players[i].account]]

SessionInv == PlayersAreRecords /\ OneSession

\* Steps of the queues, of the worker and of accepting leave the players alone.
LEMMA OtherStepsLeavePlayers ==
  ASSUME [Next]_vars,
         ~ \E c \in Conn : Classify(c),
         ~ \E i \in Id : Leave(i) \/ LoseConnection(i) \/ ConfirmCode(i),
         ~ \E a \in Account : BanName(a),
         ~ \E w \in Range(done) : CommitResult(w)
  PROVE  players' = players
  BY DEF Next, vars, idVars, workerVars, Connections, Messages, Dispatch, Worker, Results, Accept,
         Reject, Unban, AskToAuthenticate, ForgetLogin, AskForCode, Refuse, Submit, DispatchFrame,
         TakeJob, FinishJob, WorkerFrame, DiscardResult, FailResult

\* Dropping players ends sessions and begins none.
LEMMA DropEndsSessions ==
  ASSUME SessionInv, NEW gone, Drop(gone)
  PROVE  /\ SessionInv'
         /\ \A i \in Id : players'[i] # players[i] => players'[i].account = None
  BY DEF SessionInv, PlayersAreRecords, OneSession, Authenticated, Drop, Free

\* A login gives its account a session only if it has none; it resumes the one
\* that is offline and refuses to join the one that is online.
LEMMA ApplyKeepsOneSession ==
  ASSUME SessionInv, NEW i, NEW a, Apply(i, a)
  PROVE  /\ SessionInv'
         /\ \A j \in Id : players'[j] # players[j] => players'[j].account \in {a, None}
  <1> USE DEF SessionInv, PlayersAreRecords, OneSession, Authenticated
  <1>1. CASE players' = players
    BY <1>1
  <1>2. CASE \E j \in Resumable(a, i), conn \in {players[i].conn, None} :
               players' = [players EXCEPT ![i] = Free, ![j].conn = conn]
    <2>1. PICK j \in Resumable(a, i), conn \in {players[i].conn, None} :
            players' = [players EXCEPT ![i] = Free, ![j].conn = conn]
      BY <1>2
    <2>2. j \in Id \ {i} /\ players[j].account = a
      BY DEF Resumable, Offline
    <2>3. \A k \in Id : players'[k] = IF k = j THEN [conn |-> conn, account |-> a]
                                     ELSE IF k = i THEN Free ELSE players[k]
      BY <2>1, <2>2
    <2>4. \A k \in Id : players[k] = [conn |-> players[k].conn, account |-> players[k].account]
      OBVIOUS
    <2>5. \A k \in Id : players'[k] = [conn |-> players'[k].conn, account |-> players'[k].account]
      BY <2>3, <2>4 DEF Free
    <2>6. players' = [k \in Id |-> players'[k]]
      BY <2>1
    <2>7. PlayersAreRecords'
      BY <2>5, <2>6
    <2>8. \A k \in Id : players'[k].account \in {players[k].account, None}
      <3>1. ASSUME NEW k \in Id PROVE players'[k].account \in {players[k].account, None}
        <4>1. CASE k = j
          BY <2>2, <2>3, <4>1
        <4>2. CASE k # j /\ k = i
          BY <2>3, <4>2 DEF Free
        <4>3. CASE k # j /\ k # i
          BY <2>3, <4>3
        <4> QED
          BY <4>1, <4>2, <4>3
      <3> QED
        BY <3>1
    <2>9. OneSession'
      BY <2>8
    <2>10. \A k \in Id : players'[k] # players[k] => players'[k].account \in {a, None}
      BY <2>3 DEF Free
    <2> QED
      BY <2>7, <2>9, <2>10
  <1>3. CASE /\ ~OnlineAs(a, i) /\ Resumable(a, i) = {}
             /\ \/ players' = [players EXCEPT ![i].account = a]
                \/ players' = [players EXCEPT ![i] = Free]
    <2>1. \A j \in Id \ {i} : players[j].account # a
      BY <1>3 DEF OnlineAs, Resumable, Offline, Online
    <2> QED
      BY <1>3, <2>1 DEF Free
  <1> QED
    BY <1>1, <1>2, <1>3 DEF Apply

\* The players start, and stay, with one session per account.
LEMMA SessionInvInit == Init => SessionInv
  BY DEF Init, SessionInv, PlayersAreRecords, OneSession, Authenticated

LEMMA SessionInvStep == SessionInv /\ [Next]_vars => SessionInv'
  <1> SUFFICES ASSUME SessionInv, [Next]_vars PROVE SessionInv'
    OBVIOUS
  <1>1. ASSUME NEW c \in Conn, Classify(c) PROVE SessionInv'
    BY <1>1 DEF Classify, SessionInv, PlayersAreRecords, OneSession, Authenticated
  <1>2. ASSUME NEW i \in Id, Leave(i) PROVE SessionInv'
    BY <1>2, DropEndsSessions DEF Leave
  <1>3. ASSUME NEW i \in Id, LoseConnection(i) PROVE SessionInv'
    BY <1>3 DEF LoseConnection, SessionInv, PlayersAreRecords, OneSession, Authenticated
  <1>4. ASSUME NEW a \in Account, BanName(a) PROVE SessionInv'
    BY <1>4, DropEndsSessions DEF BanName
  <1>5. ASSUME NEW i \in Id, ConfirmCode(i) PROVE SessionInv'
    <2>1. CASE Authenticated(i)
      BY <1>5, <2>1 DEF ConfirmCode, SessionInv, PlayersAreRecords, OneSession, Authenticated
    <2>2. CASE ~Authenticated(i)
      BY <1>5, <2>2, ApplyKeepsOneSession DEF ConfirmCode
    <2> QED
      BY <2>1, <2>2
  <1>6. ASSUME NEW w \in Range(done), CommitResult(w) PROVE SessionInv'
    <2>1. CASE players' = players
      BY <2>1 DEF SessionInv, PlayersAreRecords, OneSession, Authenticated
    <2>2. CASE Apply(w.id, w.account)
      BY <2>2, ApplyKeepsOneSession
    <2> QED
      BY <1>6, <2>1, <2>2 DEF CommitResult
  <1>7. CASE players' = players
    BY <1>7 DEF SessionInv, PlayersAreRecords, OneSession, Authenticated
  <1> QED
    BY <1>1, <1>2, <1>3, <1>4, <1>5, <1>6, <1>7, OtherStepsLeavePlayers

\* However logins, reconnects, bans and timeouts interleave, no account ever
\* has two sessions.
THEOREM OneSessionEach == Spec => []OneSession
  <1>1. SessionInv => OneSession
    BY DEF SessionInv
  <1> QED
    BY <1>1, SessionInvInit, SessionInvStep, PTL DEF Spec

\* A login that was verified before the ban, or hashed during it, does not
\* bring the account online.
THEOREM BannedStayOut == Spec => NoBannedLogin
  <1> DEFINE Entry == \A i \in Id :
        players[i]' # players[i] /\ players[i].account' # None /\ players[i].conn' # None =>
          players[i].account' \notin banned
  <1>1. SessionInv /\ [Next]_vars => [Entry]_vars
    <2> SUFFICES ASSUME SessionInv, [Next]_vars PROVE Entry
      OBVIOUS
    <2>1. ASSUME NEW c \in Conn, Classify(c) PROVE Entry
      BY <2>1 DEF Classify, SessionInv, PlayersAreRecords
    <2>2. ASSUME NEW i \in Id, Leave(i) PROVE Entry
      BY <2>2, DropEndsSessions DEF Leave
    <2>3. ASSUME NEW i \in Id, LoseConnection(i) PROVE Entry
      BY <2>3 DEF LoseConnection, SessionInv, PlayersAreRecords
    <2>4. ASSUME NEW a \in Account, BanName(a) PROVE Entry
      BY <2>4, DropEndsSessions DEF BanName
    <2>5. ASSUME NEW i \in Id, ConfirmCode(i) PROVE Entry
      <3>1. CASE Authenticated(i)
        BY <2>5, <3>1 DEF ConfirmCode
      <3>2. CASE ~Authenticated(i)
        <4>1. verified[i].account \notin banned
          BY <2>5, <3>2 DEF ConfirmCode, BindingAccount
        <4> QED
          BY <2>5, <3>2, <4>1, ApplyKeepsOneSession DEF ConfirmCode
      <3> QED
        BY <3>1, <3>2
    <2>6. ASSUME NEW w \in Range(done), CommitResult(w) PROVE Entry
      BY <2>6, ApplyKeepsOneSession DEF CommitResult, MayEnter
    <2>7. CASE players' = players
      BY <2>7
    <2> QED
      BY <2>1, <2>2, <2>3, <2>4, <2>5, <2>6, <2>7, OtherStepsLeavePlayers
  <1> QED
    BY <1>1, SessionInvInit, SessionInvStep, PTL DEF Spec, NoBannedLogin

-----------------------------------------------------------------------------
(* Requests, answers and the limits.                                       *)

\* Two requests never have the same id.
DistinctRequests == \A v, w \in Requests : v.request = w.request => v = w
\* Whoever waits has a request somewhere, under its own id.
TrackedById ==
  \A i \in Id : requests[i] # None => \E w \in Requests : w.request = requests[i] /\ w.id = i
\* Answers and logins wait for sockets that have not logged in.
OnlyNewcomersWait ==
  \A i \in Id : requests[i] # None \/ verified[i] # None => Online(i) /\ ~Authenticated(i)
\* ActiveIsInFlight, with every place in the queues counted.
OneJobEach ==
  /\ active = {w.account : w \in InFlight}
  /\ \A j, k \in DOMAIN jobs : jobs[j].account = jobs[k].account => j = k
  /\ \A j, k \in DOMAIN done : done[j].account = done[k].account => j = k
  /\ \A j \in DOMAIN jobs, k \in DOMAIN done : jobs[j].account # done[k].account
  /\ running # None =>
       /\ \A k \in DOMAIN jobs : jobs[k].account # running.account
       /\ \A k \in DOMAIN done : done[k].account # running.account
\* Whom LimitHolds counts.
Newcomers == {i \in Id : Online(i) /\ ~Authenticated(i)}

\* Why an answer goes where it was asked for, or nowhere.
WaitInv == DistinctRequests /\ TrackedById /\ OnlyNewcomersWait /\ AnswersGoHome

\* Why the limit and the free ids are right: every newcomer has a deadline, and
\* when it comes it takes the place of an accepted socket.
RoomInv == Newcomers \subseteq deadlines /\ LimitHolds /\ FreeIdsAreFree /\ IsFiniteSet(accepted)

IInv == TypeOK /\ WaitInv /\ OneJobEach /\ RoomInv

\* What Only leaves of a sequence, and that it is one.
LEMMA OnlyKeeps ==
  ASSUME NEW S, NEW s \in Seq(S), NEW good
  PROVE  Only(s, good) \in Seq(S) /\ Range(Only(s, good)) = Range(s) \cap good
  <1> DEFINE kept == {k \in DOMAIN s : s[k] \in good}
             Place(k) == Cardinality({j \in kept : j <= k})
             place == [k \in kept |-> Place(k)]
             total == Cardinality(kept)
  <1>1. kept \subseteq 1..Len(s) /\ Len(s) \in Nat /\ DOMAIN s = 1..Len(s)
    <2>1. Len(s) \in Nat /\ DOMAIN s = 1..Len(s)
      OBVIOUS
    <2> QED
      BY <2>1
  <1>2. IsFiniteSet(kept) /\ total \in Nat
    <2>1. IsFiniteSet(1..Len(s)) /\ kept \in SUBSET (1..Len(s))
      BY <1>1, FS_Interval
    <2>2. IsFiniteSet(kept)
      BY <2>1, FS_Subset
    <2> QED
      BY <2>2, FS_CardinalityType
  <1>3. ASSUME NEW k \in kept
        PROVE  /\ Place(k) \in 1..total
               /\ \A j \in kept : j < k => Place(j) < Place(k)
    <2> DEFINE upto == {i \in kept : i <= k}
    <2>1. IsFiniteSet(upto) /\ Cardinality(upto) <= total
      BY <1>2, FS_Subset
    <2>2. k \in upto
      BY <1>1
    <2>3. Cardinality(upto) \in Nat /\ Cardinality(upto) # 0
      BY <2>1, <2>2, FS_CardinalityType, FS_EmptySet
    <2>4. ASSUME NEW j \in kept, j < k PROVE Place(j) < Place(k)
      <3> DEFINE low == {i \in kept : i <= j}
      <3>1. low \subseteq upto /\ low # upto
        BY <2>2, <2>4, <1>1
      <3>2. Cardinality(low) <= Cardinality(upto) /\ Cardinality(low) # Cardinality(upto)
        BY <3>1, <2>1, FS_Subset
      <3>3. Cardinality(low) \in Nat
        BY <3>1, <2>1, FS_Subset, FS_CardinalityType
      <3> QED
        BY <3>2, <3>3, <2>3
    <2> QED
      BY <2>1, <2>3, <2>4, <1>2
  <1>4. place \in Injection(kept, 1..total)
    <2>1. ASSUME NEW j \in kept, NEW k \in kept, j # k PROVE place[j] # place[k]
      <3>1. j < k \/ k < j
        BY <2>1, <1>1
      <3>2. Place(j) < Place(k) \/ Place(k) < Place(j)
        BY <3>1, <1>3
      <3>3. Place(j) \in 1..total /\ Place(k) \in 1..total
        BY <1>3
      <3> HIDE DEF Place, total, kept
      <3> QED
        BY <3>2, <3>3
    <2> QED
      BY <2>1, <1>3 DEF Injection, IsInjective
  <1>5. IsFiniteSet(1..total) /\ Cardinality(1..total) = total
    BY <1>2, FS_Interval
  <1>6. place \in Surjection(kept, 1..total)
    BY <1>4, <1>5, <1>2, FS_Injection
  <1>7. \A n \in 1..total : \E k \in kept : Place(k) = n
    BY <1>6 DEF Surjection
  <1>8. \A n \in 1..total : (CHOOSE k \in kept : Place(k) = n) \in kept
    BY <1>7
  <1> DEFINE pick == [n \in 1..total |-> CHOOSE k \in kept : Place(k) = n]
  <1>9. pick \in [1..total -> kept]
    BY <1>8
  <1>10. Only(s, good) = [n \in 1..total |-> s[pick[n]]]
    BY DEF Only
  <1>11. Only(s, good) \in Seq(S)
    <2>1. \A k \in kept : s[k] \in S
      BY <1>1
    <2>2. [n \in 1..total |-> s[pick[n]]] \in [1..total -> S]
      BY <2>1, <1>9
    <2> HIDE DEF total, pick, kept
    <2> QED
      BY <2>2, <1>10, <1>2
  <1>12. \A k \in kept : pick[Place(k)] = k
    <2> SUFFICES ASSUME NEW k \in kept PROVE pick[Place(k)] = k
      OBVIOUS
    <2>1. Place(k) \in 1..total
      BY <1>3
    <2>2. \E j \in kept : Place(j) = Place(k)
      BY ZenonT(20)
    <2>3. pick[Place(k)] \in kept /\ Place(pick[Place(k)]) = Place(k)
      BY <2>1, <2>2
    <2>4. place[pick[Place(k)]] = place[k]
      BY <2>3
    <2> QED
      BY <2>3, <2>4, <1>4 DEF Injection, IsInjective
  <1>13. Range(s) \cap good \subseteq Range(Only(s, good))
    <2> SUFFICES ASSUME NEW x \in Range(s) \cap good PROVE x \in Range(Only(s, good))
      OBVIOUS
    <2>1. PICK k \in kept : x = s[k]
      BY DEF Range
    <2>2. Place(k) \in 1..total /\ pick[Place(k)] = k
      BY <1>3, <1>12
    <2> QED
      BY <2>1, <2>2, <1>10 DEF Range
  <1>14. Range(Only(s, good)) \subseteq Range(s) \cap good
    <2> HIDE DEF pick
    <2>1. \A k \in kept : s[k] \in Range(s) \cap good
      BY DEF Range
    <2> QED
      BY <2>1, <1>9, <1>10 DEF Range
  <1> QED
    BY <1>11, <1>13, <1>14

\* What the usual operations on a queue do to what is in it.
LEMMA AppendRange ==
  ASSUME NEW S, NEW s \in Seq(S), NEW x \in S
  PROVE  Append(s, x) \in Seq(S) /\ Range(Append(s, x)) = Range(s) \cup {x}
  <1>1. Append(s, x) \in Seq(S) /\ DOMAIN Append(s, x) = DOMAIN s \cup {Len(s) + 1}
    OBVIOUS
  <1>2. Append(s, x)[Len(s) + 1] = x /\ \A k \in DOMAIN s : Append(s, x)[k] = s[k]
    OBVIOUS
  <1> QED
    BY <1>1, <1>2 DEF Range

LEMMA TailRange ==
  ASSUME NEW S, NEW s \in Seq(S), s # <<>>
  PROVE  /\ Tail(s) \in Seq(S) /\ Head(s) \in S /\ Head(s) \in Range(s)
         /\ Range(s) = Range(Tail(s)) \cup {Head(s)}
         /\ \A k \in DOMAIN Tail(s) : k + 1 \in DOMAIN s \ {1} /\ Tail(s)[k] = s[k + 1]
         /\ 1 \in DOMAIN s /\ Head(s) = s[1]
  <1>1. /\ Tail(s) \in Seq(S) /\ Head(s) \in S /\ 1 \in DOMAIN s /\ Head(s) = s[1]
        /\ \A k \in DOMAIN Tail(s) : k + 1 \in DOMAIN s \ {1} /\ Tail(s)[k] = s[k + 1]
    OBVIOUS
  <1>2. \A k \in DOMAIN s \ {1} : k - 1 \in DOMAIN Tail(s) /\ Tail(s)[k - 1] = s[k]
    OBVIOUS
  <1> DEFINE t == Tail(s)  h == Head(s)
  <1> HIDE DEF t, h
  <1>3. /\ h = s[1] /\ 1 \in DOMAIN s
        /\ \A k \in DOMAIN t : k + 1 \in DOMAIN s /\ t[k] = s[k + 1]
        /\ \A k \in DOMAIN s \ {1} : k - 1 \in DOMAIN t /\ t[k - 1] = s[k]
    BY <1>1, <1>2 DEF t, h
  <1>4. Range(t) \subseteq Range(s) /\ h \in Range(s)
    BY <1>3 DEF Range
  <1>5. Range(s) \subseteq Range(t) \cup {h}
    BY <1>3 DEF Range
  <1> QED
    BY <1>1, <1>4, <1>5 DEF t, h

LEMMA RemoveAtRange ==
  ASSUME NEW S, NEW s \in Seq(S), NEW k \in 1..Len(s)
  PROVE  /\ RemoveAt(s, k) \in Seq(S)
         /\ Range(RemoveAt(s, k)) \subseteq Range(s)
         /\ Range(s) \subseteq Range(RemoveAt(s, k)) \cup {s[k]}
         /\ s[k] \in S /\ s[k] \in Range(s)
  <1> DEFINE r == RemoveAt(s, k)
  <1>1. /\ r \in Seq(S) /\ Len(r) = Len(s) - 1 /\ DOMAIN r = 1..(Len(s) - 1) /\ DOMAIN s = 1..Len(s)
        /\ \A j \in 1..(Len(s) - 1) : r[j] = IF j < k THEN s[j] ELSE s[j + 1]
    <2> DEFINE a == SubSeq(s, 1, k - 1)  b == SubSeq(s, k + 1, Len(s))
    <2>1. /\ a \in Seq(S) /\ Len(a) = k - 1 /\ \A j \in 1..(k - 1) : a[j] = s[j]
      OBVIOUS
    <2>2. /\ b \in Seq(S) /\ Len(b) = Len(s) - k /\ \A j \in 1..(Len(s) - k) : b[j] = s[k + j]
      OBVIOUS
    <2>3. r = a \o b
      BY DEF RemoveAt
    <2> HIDE DEF a, b, r
    <2>4. r \in Seq(S) /\ Len(r) = Len(s) - 1 /\ DOMAIN r = 1..(Len(s) - 1) /\ DOMAIN s = 1..Len(s)
      BY <2>1, <2>2, <2>3
    <2>5. ASSUME NEW j \in 1..(Len(s) - 1) PROVE r[j] = IF j < k THEN s[j] ELSE s[j + 1]
      <3>1. CASE j < k
        BY <3>1, <2>1, <2>2, <2>3
      <3>2. CASE ~(j < k)
        <4>1. r[j] = b[j - (k - 1)] /\ j - (k - 1) \in 1..(Len(s) - k)
          BY <3>2, <2>1, <2>2, <2>3
        <4> QED
          BY <3>2, <4>1, <2>2
      <3> QED
        BY <3>1, <3>2
    <2> QED
      BY <2>4, <2>5
  <1> HIDE DEF r
  <1>2. \A j \in 1..(Len(s) - 1) : r[j] \in Range(s)
    BY <1>1 DEF Range
  <1>3. \A j \in DOMAIN s : j # k => s[j] \in Range(r)
    <2> SUFFICES ASSUME NEW j \in DOMAIN s, j # k PROVE s[j] \in Range(r)
      OBVIOUS
    <2>1. CASE j < k
      <3>1. j \in DOMAIN r /\ r[j] = s[j]
        BY <2>1, <1>1
      <3> QED
        BY <3>1 DEF Range
    <2>2. CASE ~(j < k)
      <3>1. j - 1 \in DOMAIN r /\ r[j - 1] = s[j]
        BY <2>2, <1>1
      <3> QED
        BY <3>1 DEF Range
    <2> QED
      BY <2>1, <2>2
  <1>4. Range(r) \subseteq Range(s) /\ s[k] \in S /\ s[k] \in Range(s)
    <2>1. Range(r) = {r[j] : j \in 1..(Len(s) - 1)}
      BY <1>1 DEF Range
    <2>2. Range(r) \subseteq Range(s)
      BY <1>2, <2>1
    <2>3. k \in DOMAIN s /\ s[k] \in S
      OBVIOUS
    <2>4. s[k] \in Range(s)
      BY <2>3 DEF Range
    <2> QED
      BY <2>2, <2>3, <2>4
  <1>5. Range(s) \subseteq Range(r) \cup {s[k]}
    BY <1>3 DEF Range
  <1> QED
    BY <1>1, <1>4, <1>5 DEF r

\* Everything that was asked for is a request over a socket.
LEMMA RequestsAreWork == ASSUME TypeOK PROVE Requests \subseteq Work
  <1>1. \A s \in Seq(Work) : Range(s) \subseteq Work
    BY DEF Range
  <1>2. queue \in Seq(Work) /\ jobs \in Seq(Work) /\ done \in Seq(Work) /\ running \in Work \cup {None}
    BY DEF TypeOK
  <1> QED BY <1>1, <1>2 DEF Requests, InFlight

\* The server starts with nobody waiting.
LEMMA IInvInit == Init => IInv
  <1> SUFFICES ASSUME Init PROVE IInv
    OBVIOUS
  <1>1. Requests = {} /\ InFlight = {}
    BY DEF Init, Requests, InFlight, Range
  <1>2. PICK session \in [Id -> Account \cup {None}] :
          /\ players = [i \in Id |-> [conn |-> None, account |-> session[i]]]
          /\ registered = Range(session) \ {None}
    BY DEF Init
  <1>3. TypeOK
    BY <1>2, SessionsAssumption DEF Init, TypeOK, Player, Range, Id
  <1>4. \A i \in Id : ~Online(i)
    BY <1>2 DEF Online
  <1>5. Newcomers = {} /\ accepted = {}
    BY <1>4 DEF Newcomers, Init
  <1>6. LimitHolds /\ IsFiniteSet(accepted)
    BY <1>5, FS_EmptySet, SessionsAssumption DEF LimitHolds, Newcomers
  <1>7. OneJobEach
    BY <1>1 DEF Init, OneJobEach
  <1>8. WaitInv
    BY <1>1 DEF Init, WaitInv, DistinctRequests, TrackedById, OnlyNewcomersWait, AnswersGoHome
  <1> QED
    BY <1>3, <1>5, <1>6, <1>7, <1>8 DEF IInv, RoomInv, FreeIdsAreFree, Init

\* What waits stays as it is when nothing is asked or answered and those who
\* wait keep their sockets.
LEMMA WaitingStays ==
  ASSUME IInv, Requests' = Requests, requests' = requests,
         \A i \in Id : verified'[i] \in {verified[i], None},
         \A i \in Id : Online(i) /\ ~Authenticated(i) => players'[i] = players[i]
  PROVE  WaitInv'
  <1>1. DistinctRequests' /\ TrackedById'
    BY DEF IInv, WaitInv, DistinctRequests, TrackedById
  <1>2. OnlyNewcomersWait'
    BY DEF IInv, WaitInv, OnlyNewcomersWait, Online, Authenticated
  <1>3. AnswersGoHome'
    <2>1. \A w \in Requests : w.id \in Id /\ w.request # None
      BY RequestsAreWork, SessionsAssumption DEF IInv, Work
    <2>2. \A w \in Requests : w.request = requests[w.id] => players'[w.id] = players[w.id]
      BY <2>1 DEF IInv, WaitInv, OnlyNewcomersWait
    <2>3. \A i \in Id : verified'[i] # None => players'[i] = players[i] /\ verified'[i] = verified[i]
      BY DEF IInv, WaitInv, OnlyNewcomersWait
    <2> QED
      BY <2>1, <2>2, <2>3 DEF IInv, WaitInv, AnswersGoHome
  <1> QED
    BY <1>1, <1>2, <1>3 DEF WaitInv

\* The requests are those in the queues.
LEMMA SameQueues ==
  ASSUME queue' = queue, jobs' = jobs, running' = running, done' = done
  PROVE  Requests' = Requests /\ InFlight' = InFlight
  BY DEF Requests, InFlight

\* The worker is not touched by most steps.
LEMMA JobsStay ==
  ASSUME IInv, jobs' = jobs, running' = running, done' = done, active' = active
  PROVE  OneJobEach'
  BY DEF IInv, OneJobEach, InFlight

\* Nobody new without a login, and nobody is given a new id.
LEMMA RoomStays ==
  ASSUME IInv, accepted' \subseteq accepted, Newcomers' \subseteq Newcomers \cap deadlines', FreeIdsAreFree'
  PROVE  RoomInv'
  <1>1. IsFiniteSet(Id)
    BY FS_Interval, SessionsAssumption DEF Id
  <1>2. IsFiniteSet(Newcomers) /\ IsFiniteSet(accepted) /\ IsFiniteSet(Newcomers') /\ IsFiniteSet(accepted')
    <2>1. Newcomers \in SUBSET Id
      BY DEF Newcomers
    <2>2. Newcomers' \in SUBSET Newcomers
      OBVIOUS
    <2> QED
      BY <1>1, <2>1, <2>2, FS_Subset DEF IInv, RoomInv
  <1>3. Cardinality(Newcomers') <= Cardinality(Newcomers) /\ Cardinality(accepted') <= Cardinality(accepted)
    BY <1>2, FS_Subset
  <1>4. Cardinality(Newcomers) \in Nat /\ Cardinality(accepted) \in Nat
        /\ Cardinality(Newcomers') \in Nat /\ Cardinality(accepted') \in Nat
    BY <1>2, FS_CardinalityType
  <1>5. Cardinality(accepted) + Cardinality(Newcomers) <= UnauthenticatedLimit
    BY DEF IInv, RoomInv, LimitHolds, Newcomers
  <1>6. Cardinality(accepted') + Cardinality(Newcomers') <= UnauthenticatedLimit
    BY <1>3, <1>4, <1>5, SessionsAssumption
  <1>7. LimitHolds'
    BY <1>6 DEF LimitHolds, Newcomers
  <1> QED
    BY <1>2, <1>7 DEF RoomInv

\* Accepting a socket leaves room for it.
LEMMA AcceptInv == ASSUME IInv, NEW c \in Conn, Accept(c) PROVE IInv'
  <1> USE DEF Accept, idVars, workerVars
  <1>1. TypeOK'
    BY DEF IInv, TypeOK
  <1>2. WaitInv'
    BY WaitingStays, SameQueues
  <1>3. OneJobEach'
    BY JobsStay
  <1>4. Newcomers' = Newcomers /\ Newcomers \subseteq deadlines /\ Newcomers \subseteq Id
    BY DEF Newcomers, Online, Authenticated, IInv, RoomInv
  <1>5. IsFiniteSet(Id)
    BY FS_Interval, SessionsAssumption DEF Id
  <1>6. IsFiniteSet(deadlines) /\ deadlines \in SUBSET Id
    BY <1>5, FS_Subset DEF IInv, TypeOK
  <1>7. Cardinality(Newcomers) <= Cardinality(deadlines) /\ Cardinality(deadlines) \in Nat /\ Cardinality(Newcomers) \in Nat
    <2>1. Newcomers \in SUBSET deadlines
      BY <1>4
    <2> QED
      BY <1>6, <2>1, FS_Subset, FS_CardinalityType
  <1>8. IsFiniteSet(accepted') /\ Cardinality(accepted') <= Cardinality(accepted) + 1
        /\ Cardinality(accepted) \in Nat /\ Cardinality(accepted') \in Nat
    <2>1. IsFiniteSet(accepted)
      BY DEF IInv, RoomInv
    <2>2. Cardinality(accepted) \in Nat
      BY <2>1, FS_CardinalityType
    <2>3. IsFiniteSet(accepted \cup {c})
          /\ Cardinality(accepted \cup {c}) = IF c \in accepted THEN Cardinality(accepted) ELSE Cardinality(accepted) + 1
      BY <2>1, FS_AddElement
    <2> QED
      BY <2>2, <2>3
  <1>9. Cardinality(accepted') + Cardinality(Newcomers) <= UnauthenticatedLimit
    BY <1>7, <1>8, SessionsAssumption DEF Unauthenticated
  <1>10. LimitHolds'
    BY <1>4, <1>9 DEF LimitHolds, Newcomers
  <1> QED
    BY <1>1, <1>2, <1>3, <1>4, <1>8, <1>10 DEF IInv, RoomInv, FreeIdsAreFree, Used

LEMMA RejectInv == ASSUME IInv, NEW c \in Conn, Reject(c) PROVE IInv'
  <1> USE DEF Reject, idVars, workerVars
  <1>1. TypeOK'
    BY DEF IInv, TypeOK
  <1>2. WaitInv'
    BY WaitingStays, SameQueues
  <1>3. OneJobEach'
    BY JobsStay
  <1>4. RoomInv'
    <2>1. Newcomers' \subseteq Newcomers \cap deadlines'
      BY DEF Newcomers, Online, Authenticated, IInv, RoomInv
    <2>2. FreeIdsAreFree'
      BY DEF FreeIdsAreFree, Used, IInv, RoomInv
    <2> QED
      BY <2>1, <2>2, RoomStays
  <1> QED
    BY <1>1, <1>2, <1>3, <1>4 DEF IInv

\* A set of naturals that is not empty has a least member.
LEMMA LeastOf ==
  ASSUME NEW S \in SUBSET Nat, S # {}
  PROVE  Min(S) \in S
  <1>1. PICK x \in S : \A y \in S : ~ (<<y, x>> \in OpToRel(<, Nat))
    BY NatLessThanWellFounded, WFMin
  <1>2. \A y \in S : ~ (y < x)
    BY <1>1 DEF OpToRel
  <1>3. \A y \in S : x <= y
    BY <1>2
  <1> QED
    BY <1>3 DEF Min

\* A new id is not in use.
LEMMA NewIdIsFree ==
  ASSUME IInv, freeIds # {} \/ \E i \in nextId..MaxId : ~Used(i)
  PROVE  NewId \in Id /\ ~Used(NewId) /\ (freeIds # {} => NewId \in freeIds)
  <1>1. freeIds \subseteq Id /\ nextId \in 1..(MaxId + 1)
    BY DEF IInv, TypeOK
  <1>2. CASE freeIds # {}
    <2>1. Min(freeIds) \in freeIds
      BY <1>1, <1>2, LeastOf DEF Id
    <2> QED
      BY <1>1, <1>2, <2>1 DEF NewId, IInv, RoomInv, FreeIdsAreFree
  <1>3. CASE freeIds = {}
    <2> DEFINE unused == {i \in nextId..MaxId : ~Used(i)}
    <2>1. unused \in SUBSET Nat /\ unused # {}
      BY <1>1, <1>3, SessionsAssumption
    <2>2. Min(unused) \in unused
      BY <2>1, LeastOf
    <2>3. NewId = Min(unused)
      BY <1>3 DEF NewId
    <2> QED
      BY <1>1, <1>3, <2>2, <2>3, SessionsAssumption DEF Id
  <1> QED
    BY <1>2, <1>3

\* A new player takes the place of an accepted socket, and an id nobody has.
LEMMA ClassifyInv == ASSUME IInv, NEW c \in Conn, Classify(c) PROVE IInv'
  <1> DEFINE new == NewId
  <1>0. new \in Id /\ ~Used(new)
    BY NewIdIsFree DEF Classify
  <1>1. /\ c \in accepted /\ accepted' = accepted \ {c}
        /\ players' = [players EXCEPT ![new] = [conn |-> c, account |-> None]]
        /\ deadlines' = deadlines \cup {new}
        /\ freeIds' = freeIds \ {new}
        /\ nextId' = nextId \/ nextId' = new + 1
        /\ UNCHANGED <<requests, queue, active, verified, workerVars, registered, banned>>
    BY DEF Classify, FreeIdsLeft
  <1> HIDE DEF new
  <1> USE DEF workerVars
  <1>2. \A i \in Id : players'[i] = IF i = new THEN [conn |-> c, account |-> None] ELSE players[i]
    BY <1>1 DEF IInv, TypeOK
  <1>3. c # None
    BY SessionsAssumption
  <1>4. ~Online(new) /\ ~Authenticated(new)
    BY <1>0 DEF Used, Free, Online, Authenticated
  <1>5. TypeOK'
    <2>1. players' \in [Id -> Player]
      BY <1>0, <1>1 DEF IInv, TypeOK, Player
    <2>2. nextId' \in 1..(MaxId + 1)
      BY <1>0, <1>1, SessionsAssumption DEF IInv, TypeOK, Id
    <2> QED
      BY <1>0, <1>1, <2>1, <2>2 DEF IInv, TypeOK
  <1>6. WaitInv'
    <2>1. Requests' = Requests
      BY <1>1, SameQueues
    <2>2. requests[new] = None /\ verified[new] = None
      BY <1>0, <1>4 DEF IInv, WaitInv, OnlyNewcomersWait
    <2>3. DistinctRequests' /\ TrackedById'
      BY <1>1, <2>1 DEF IInv, WaitInv, DistinctRequests, TrackedById
    <2>4. OnlyNewcomersWait'
      BY <1>1, <1>2, <2>2 DEF IInv, WaitInv, OnlyNewcomersWait, Online, Authenticated
    <2>5. AnswersGoHome'
      <3>1. \A w \in Requests : w.id \in Id /\ w.request # None
        BY RequestsAreWork, SessionsAssumption DEF IInv, Work
      <3> QED
        BY <1>1, <1>2, <2>1, <2>2, <3>1 DEF IInv, WaitInv, AnswersGoHome
    <2> QED
      BY <2>3, <2>4, <2>5 DEF WaitInv
  <1>7. OneJobEach'
    BY <1>1, JobsStay
  <1>8. RoomInv'
    <2>1. Newcomers' = Newcomers \cup {new} /\ new \notin Newcomers
      BY <1>0, <1>2, <1>3, <1>4 DEF Newcomers, Online, Authenticated
    <2>2. IsFiniteSet(Newcomers) /\ IsFiniteSet(accepted)
      <3>1. IsFiniteSet(Id) /\ Newcomers \in SUBSET Id
        BY FS_Interval, SessionsAssumption DEF Id, Newcomers
      <3> QED
        BY <3>1, FS_Subset DEF IInv, RoomInv
    <2>3. Cardinality(Newcomers') = Cardinality(Newcomers) + 1
      BY <2>1, <2>2, FS_AddElement
    <2>4. IsFiniteSet(accepted') /\ Cardinality(accepted') = Cardinality(accepted) - 1
      BY <1>1, <2>2, FS_RemoveElement
    <2>5. Cardinality(Newcomers) \in Nat /\ Cardinality(accepted) \in Nat
      BY <2>2, FS_CardinalityType
    <2>6. Cardinality(accepted) + Cardinality(Newcomers) <= UnauthenticatedLimit
      BY DEF IInv, RoomInv, LimitHolds, Newcomers
    <2>7. Cardinality(accepted') + Cardinality(Newcomers') <= UnauthenticatedLimit
      BY <2>3, <2>4, <2>5, <2>6, SessionsAssumption
    <2>8. LimitHolds'
      BY <2>7 DEF LimitHolds, Newcomers
    <2>9. FreeIdsAreFree'
      BY <1>1, <1>2 DEF FreeIdsAreFree, Used, IInv, RoomInv, TypeOK
    <2>10. Newcomers' \subseteq deadlines'
      BY <1>1, <2>1 DEF IInv, RoomInv
    <2> QED
      BY <2>4, <2>8, <2>9, <2>10 DEF RoomInv
  <1> QED
    BY <1>5, <1>6, <1>7, <1>8 DEF IInv

\* Dropped players wait for nothing, and nobody else stops waiting.
LEMMA DropInv ==
  ASSUME IInv, NEW gone \in SUBSET Id, Drop(gone), dropFrame, banned' \subseteq Account
  PROVE  IInv'
  <1> DEFINE stays == {w \in Range(queue) : \A i \in gone : w.request # requests[i]}
  <1>1. queue' \in Seq(Work) /\ Range(queue') = stays
    <2>1. queue \in Seq(Work)
      BY DEF IInv, TypeOK
    <2>2. queue' = Only(queue, stays)
      BY DEF Drop
    <2> QED
      BY <2>1, <2>2, OnlyKeeps
  <1>2. /\ \A i \in Id : /\ players'[i] = IF i \in gone THEN Free ELSE players[i]
                         /\ requests'[i] = IF i \in gone THEN None ELSE requests[i]
                         /\ verified'[i] = IF i \in gone THEN None ELSE verified[i]
        /\ deadlines' = deadlines \ gone /\ freeIds' = freeIds \cup gone
        /\ UNCHANGED <<accepted, nextId, active, jobs, running, done, registered>>
    BY DEF Drop, NoLongerAwaited, dropFrame, workerVars
  <1>3. TypeOK'
    <2>1. Free \in Player
      BY DEF Free, Player
    <2>2. players' \in [Id -> Player] /\ requests' \in [Id -> Request \cup {None}]
          /\ verified' \in [Id -> Login \cup {None}]
      BY <2>1 DEF Drop, NoLongerAwaited, IInv, TypeOK
    <2> QED
      BY <1>1, <1>2, <2>2 DEF IInv, TypeOK
  <1>4. InFlight' = InFlight /\ Requests' \subseteq Requests
    BY <1>1, <1>2 DEF InFlight, Requests
  <1>5. WaitInv'
    <2>1. \A w \in Requests : w.id \in Id /\ w.request # None
      BY RequestsAreWork, SessionsAssumption DEF IInv, Work
    <2>2. DistinctRequests'
      BY <1>4 DEF IInv, WaitInv, DistinctRequests
    <2>3. TrackedById'
      <3> SUFFICES ASSUME NEW i \in Id, requests'[i] # None
                   PROVE  \E w \in Requests' : w.request = requests'[i] /\ w.id = i
        BY DEF TrackedById
      <3>1. i \notin gone /\ requests'[i] = requests[i]
        BY <1>2
      <3>2. PICK w \in Requests : w.request = requests[i] /\ w.id = i
        BY <3>1 DEF IInv, WaitInv, TrackedById
      <3>3. \A j \in gone : requests[j] # w.request
        <4> SUFFICES ASSUME NEW j \in gone, requests[j] = w.request PROVE FALSE
          OBVIOUS
        <4>1. PICK v \in Requests : v.request = requests[j] /\ v.id = j
          BY <2>1 DEF IInv, WaitInv, TrackedById
        <4>2. v = w
          BY <4>1 DEF IInv, WaitInv, DistinctRequests
        <4> QED
          BY <3>1, <3>2, <4>1, <4>2
      <3>4. w \in Requests'
        BY <1>1, <1>4, <3>3 DEF Requests
      <3> QED
        BY <3>1, <3>2, <3>4
    <2>4. OnlyNewcomersWait'
      BY <1>2 DEF IInv, WaitInv, OnlyNewcomersWait, Online, Authenticated
    <2>5. AnswersGoHome'
      BY <1>2, <1>4, <2>1 DEF IInv, WaitInv, AnswersGoHome
    <2> QED
      BY <2>2, <2>3, <2>4, <2>5 DEF WaitInv
  <1>6. OneJobEach'
    BY <1>2, JobsStay
  <1>7. RoomInv'
    <2>1. Newcomers' \subseteq Newcomers \cap deadlines'
      BY <1>2 DEF Newcomers, Online, Authenticated, Free, IInv, RoomInv
    <2>2. FreeIdsAreFree'
      BY <1>2 DEF FreeIdsAreFree, Used, IInv, RoomInv, TypeOK
    <2> QED
      BY <1>2, <2>1, <2>2, RoomStays
  <1> QED
    BY <1>3, <1>5, <1>6, <1>7 DEF IInv

LEMMA LeaveInv == ASSUME IInv, NEW i \in Id, Leave(i) PROVE IInv'
  <1>1. Drop({i}) /\ dropFrame /\ banned' \subseteq Account
    BY DEF Leave, IInv, TypeOK
  <1> QED
    BY <1>1, DropInv

LEMMA BanNameInv == ASSUME IInv, NEW a \in Account, BanName(a) PROVE IInv'
  <1>1. PICK gone \in SUBSET {i \in Id : players[i].account = a} : Drop(gone)
    BY DEF BanName
  <1>2. dropFrame /\ banned' \subseteq Account
    BY DEF BanName, IInv, TypeOK
  <1>3. gone \in SUBSET Id
    OBVIOUS
  <1> QED
    BY <1>1, <1>2, <1>3, DropInv

LEMMA UnbanInv == ASSUME IInv, NEW a \in Account, Unban(a) PROVE IInv'
  <1> USE DEF Unban, idVars, workerVars
  <1>1. TypeOK'
    BY DEF IInv, TypeOK
  <1>2. WaitInv'
    BY WaitingStays, SameQueues
  <1>3. OneJobEach'
    BY JobsStay
  <1>4. Newcomers' \subseteq Newcomers \cap deadlines' /\ FreeIdsAreFree'
    BY DEF Newcomers, Online, Authenticated, IInv, RoomInv, FreeIdsAreFree, Used
  <1>5. RoomInv'
    BY <1>4, RoomStays
  <1> QED
    BY <1>1, <1>2, <1>3, <1>5 DEF IInv

\* A session without its socket waits for nothing.
LEMMA LoseConnectionInv == ASSUME IInv, NEW i \in Id, LoseConnection(i) PROVE IInv'
  <1> USE DEF LoseConnection, idVars, workerVars
  <1>1. TypeOK'
    BY DEF IInv, TypeOK, Player
  <1>2. \A k \in Id : players'[k] = IF k = i THEN [players[i] EXCEPT !.conn = None] ELSE players[k]
    BY DEF IInv, TypeOK
  <1>3. players[i] \in Player
    BY DEF IInv, TypeOK
  <1>4. \A k \in Id : (Online(k) /\ ~Authenticated(k) => players'[k] = players[k])
    BY <1>2 DEF Online, Authenticated
  <1>5. WaitInv'
    BY <1>4, WaitingStays, SameQueues
  <1>6. OneJobEach'
    BY JobsStay
  <1>7. Newcomers' \subseteq Newcomers \cap deadlines'
    BY <1>2, <1>3 DEF Newcomers, Online, Authenticated, IInv, RoomInv, Player
  <1>8. FreeIdsAreFree'
    BY <1>2 DEF IInv, RoomInv, FreeIdsAreFree, Used, Online, Free, TypeOK
  <1>9. RoomInv'
    BY <1>7, <1>8, RoomStays
  <1> QED
    BY <1>1, <1>5, <1>6, <1>9 DEF IInv

\* What a newcomer asks for is tracked under its id and socket.
LEMMA AskToAuthenticateInv ==
  ASSUME IInv, NEW i \in Id, NEW a \in Account, NEW register \in BOOLEAN, AskToAuthenticate(i, a, register)
  PROVE  IInv'
  <1>1. PICK r \in Request \ RequestsInUse :
          /\ requests' = [requests EXCEPT ![i] = r]
          /\ queue' = Append(queue, [request |-> r, id |-> i, conn |-> players[i].conn,
                                     account |-> a, register |-> register])
    BY DEF AskToAuthenticate
  <1> DEFINE w == [request |-> r, id |-> i, conn |-> players[i].conn, account |-> a, register |-> register]
  <1>2. /\ Online(i) /\ ~Authenticated(i) /\ requests[i] = None
        /\ \E login \in {verified[i], None} : verified' = [verified EXCEPT ![i] = login]
        /\ UNCHANGED <<accepted, players, nextId, freeIds, deadlines, active, jobs, running, done,
                       registered, banned>>
    BY DEF AskToAuthenticate, MayAsk, idVars, workerVars
  <1>3. w \in Work
    BY <1>1, <1>2 DEF Work, IInv, TypeOK, Online, Player
  <1>4. queue' \in Seq(Work) /\ Range(queue') = Range(queue) \cup {w}
    BY <1>1, <1>3, AppendRange DEF IInv, TypeOK
  <1>5. Requests' = Requests \cup {w} /\ InFlight' = InFlight
    BY <1>2, <1>4 DEF Requests, InFlight
  <1>6. \A k \in Id : /\ requests'[k] = IF k = i THEN r ELSE requests[k]
                      /\ verified'[k] \in {verified[k], None}
    BY <1>1, <1>2 DEF IInv, TypeOK
  <1>7. \A v \in Requests : v.request # r /\ v.id \in Id
    BY <1>1, RequestsAreWork DEF RequestsInUse, IInv, Work
  <1>8. w.request = r /\ w.id = i /\ w.conn = players[i].conn
    OBVIOUS
  <1>9. TypeOK'
    <2>1. verified' \in [Id -> Login \cup {None}] /\ requests' \in [Id -> Request \cup {None}]
      BY <1>1, <1>2 DEF IInv, TypeOK
    <2> QED
      BY <1>2, <1>4, <2>1 DEF IInv, TypeOK
  <1> HIDE DEF w
  <1>10. WaitInv'
    <2>1. DistinctRequests'
      BY <1>5, <1>7, <1>8 DEF IInv, WaitInv, DistinctRequests
    <2>2. TrackedById'
      BY <1>5, <1>6, <1>8 DEF IInv, WaitInv, TrackedById
    <2>3. OnlyNewcomersWait'
      BY <1>2, <1>6 DEF IInv, WaitInv, OnlyNewcomersWait, Online, Authenticated
    <2>4. AnswersGoHome'
      <3>1. \A v \in Requests' : v.request = requests'[v.id] => players'[v.id].conn = v.conn
        BY <1>2, <1>5, <1>6, <1>7, <1>8 DEF IInv, WaitInv, AnswersGoHome
      <3> QED
        BY <1>2, <1>6, <3>1 DEF IInv, WaitInv, AnswersGoHome
    <2> QED
      BY <2>1, <2>2, <2>3, <2>4 DEF WaitInv
  <1>11. OneJobEach'
    BY <1>2, JobsStay
  <1>12. Newcomers' \subseteq Newcomers \cap deadlines' /\ FreeIdsAreFree'
    BY <1>2 DEF Newcomers, Online, Authenticated, IInv, RoomInv, FreeIdsAreFree, Used
  <1>13. RoomInv'
    BY <1>2, <1>12, RoomStays
  <1> QED
    BY <1>9, <1>10, <1>11, <1>13 DEF IInv

LEMMA ForgetLoginInv == ASSUME IInv, NEW i \in Id, ForgetLogin(i) PROVE IInv'
  <1> USE DEF ForgetLogin, idVars, workerVars
  <1>1. TypeOK'
    BY DEF IInv, TypeOK
  <1>2. WaitInv'
    <2>1. \A k \in Id : verified'[k] \in {verified[k], None}
      BY DEF IInv, TypeOK
    <2> QED
      BY <2>1, WaitingStays, SameQueues
  <1>3. OneJobEach'
    BY JobsStay
  <1>4. Newcomers' \subseteq Newcomers \cap deadlines' /\ FreeIdsAreFree'
    BY DEF Newcomers, Online, Authenticated, IInv, RoomInv, FreeIdsAreFree, Used
  <1>5. RoomInv'
    BY <1>4, RoomStays
  <1> QED
    BY <1>1, <1>2, <1>3, <1>5 DEF IInv

LEMMA AskForCodeInv == ASSUME IInv, NEW i \in Id, AskForCode(i) PROVE IInv'
  <1> USE DEF AskForCode, idVars, workerVars
  <1>1. TypeOK'
    BY DEF IInv, TypeOK
  <1>2. WaitInv'
    BY WaitingStays, SameQueues
  <1>3. OneJobEach'
    BY JobsStay
  <1>4. Newcomers' \subseteq Newcomers \cap deadlines' /\ FreeIdsAreFree'
    BY DEF Newcomers, Online, Authenticated, IInv, RoomInv, FreeIdsAreFree, Used
  <1>5. RoomInv'
    BY <1>4, RoomStays
  <1> QED
    BY <1>1, <1>2, <1>3, <1>5 DEF IInv

\* What a login changes: the newcomer is gone, has a session, or stays as it
\* is; sessions stay sessions; other newcomers are not touched.
LEMMA ApplyChanges ==
  ASSUME IInv, NEW i \in Id, NEW a \in Account, Online(i), ~Authenticated(i), Apply(i, a)
  PROVE  /\ players' \in [Id -> Player] /\ verified' \in [Id -> Login \cup {None}]
         /\ verified'[i] = None /\ \A k \in Id \ {i} : verified'[k] = verified[k]
         /\ deadlines' \subseteq Id /\ freeIds' \subseteq Id
         /\ \A k \in Id \ {i} : Online(k) /\ ~Authenticated(k) => players'[k] = players[k]
         /\ Newcomers' \subseteq Newcomers \cap deadlines' /\ FreeIdsAreFree'
  <1> USE DEF IInv, TypeOK
  <1>1. verified' = [verified EXCEPT ![i] = None]
    BY DEF Apply
  <1>2. /\ verified' \in [Id -> Login \cup {None}]
        /\ verified'[i] = None /\ \A k \in Id \ {i} : verified'[k] = verified[k]
    BY <1>1
  <1>3. CASE UNCHANGED <<players, deadlines, freeIds>>
    BY <1>2, <1>3 DEF Newcomers, Online, Authenticated, RoomInv, FreeIdsAreFree, Used
  <1>4. CASE /\ \E j \in Resumable(a, i), conn \in {players[i].conn, None} :
                   players' = [players EXCEPT ![i] = Free, ![j].conn = conn]
             /\ deadlines' = deadlines \ {i}
             /\ freeIds' = freeIds \cup {i}
    <2>1. PICK j \in Resumable(a, i), conn \in {players[i].conn, None} :
             players' = [players EXCEPT ![i] = Free, ![j].conn = conn]
      BY <1>4
    <2>2. j \in Id \ {i} /\ players[j].account = a /\ a # None
      BY SessionsAssumption DEF Resumable, Offline
    <2>3. \A k \in Id : players'[k] = IF k = j THEN [players[j] EXCEPT !.conn = conn]
                                     ELSE IF k = i THEN Free ELSE players[k]
      BY <2>1, <2>2
    <2>4. players[j] \in Player /\ players[i] \in Player /\ Free \in Player
      BY <2>2 DEF Free, Player
    <2>5. [players[j] EXCEPT !.conn = conn] \in Player /\ [players[j] EXCEPT !.conn = conn].account = a
      BY <2>2, <2>4 DEF Player
    <2>6. players' \in [Id -> Player]
      <3>1. \A k \in Id : players'[k] \in Player
        BY <2>3, <2>4, <2>5
      <3>2. players' = [k \in Id |-> players'[k]]
        BY <2>1
      <3> QED
        BY <3>1, <3>2
    <2>7. \A k \in Id \ {i} : Online(k) /\ ~Authenticated(k) => players'[k] = players[k]
      BY <2>2, <2>3 DEF Online, Authenticated
    <2>8. \A k \in Newcomers' : k \in Newcomers /\ k # i
      <3> SUFFICES ASSUME NEW k \in Newcomers' PROVE k \in Newcomers /\ k # i
        OBVIOUS
      <3>1. k \in Id /\ players'[k].conn # None /\ players'[k].account = None
        BY DEF Newcomers, Online, Authenticated
      <3>2. k # j
        BY <2>2, <2>3, <2>5, <3>1
      <3>3. k # i
        BY <2>3, <3>1, <3>2 DEF Free
      <3> QED
        BY <2>3, <3>1, <3>2, <3>3 DEF Newcomers, Online, Authenticated
    <2>9. j \notin freeIds
      BY <2>2 DEF RoomInv, FreeIdsAreFree, Used, Free
    <2>10. FreeIdsAreFree'
      BY <1>4, <2>2, <2>3, <2>9 DEF RoomInv, FreeIdsAreFree, Used
    <2>11. Newcomers' \subseteq Newcomers \cap deadlines'
      BY <1>4, <2>8 DEF RoomInv
    <2> QED
      BY <1>2, <1>4, <2>6, <2>7, <2>10, <2>11
  <1>5. CASE /\ deadlines' = deadlines \ {i}
             /\ \/ players' = [players EXCEPT ![i].account = a] /\ freeIds' = freeIds
                \/ players' = [players EXCEPT ![i] = Free] /\ freeIds' = freeIds \cup {i}
    <2>1. a # None /\ Free \in Player /\ players[i] \in Player
      BY SessionsAssumption DEF Free, Player
    <2>2. \/ players'[i] = [players[i] EXCEPT !.account = a] /\ freeIds' = freeIds
          \/ players'[i] = Free /\ freeIds' = freeIds \cup {i}
      BY <1>5
    <2>3. \A k \in Id \ {i} : players'[k] = players[k]
      BY <1>5
    <2>4. players' \in [Id -> Player]
      BY <1>5, <2>1 DEF Player
    <2>5. i \notin Newcomers'
      BY <2>1, <2>2 DEF Newcomers, Online, Authenticated, Free, Player
    <2>6. Newcomers' \subseteq Newcomers \cap deadlines'
      BY <1>5, <2>3, <2>5 DEF Newcomers, Online, Authenticated, RoomInv
    <2>7. i \notin freeIds
      BY DEF RoomInv, FreeIdsAreFree, Used, Online, Free
    <2>8. FreeIdsAreFree'
      BY <2>2, <2>3, <2>7 DEF RoomInv, FreeIdsAreFree, Used
    <2> QED
      BY <1>2, <1>5, <2>3, <2>4, <2>6, <2>8
  <1> QED
    BY <1>3, <1>4, <1>5 DEF Apply

\* A confirmed code may be a login.
LEMMA ConfirmCodeInv == ASSUME IInv, NEW i \in Id, ConfirmCode(i) PROVE IInv'
  <1> USE DEF ConfirmCode, applyFrame
  <1>1. requests[i] = None /\ Online(i)
        /\ UNCHANGED <<requests, queue, active, done, registered, accepted, nextId, jobs, running, banned>>
    OBVIOUS
  <1>2. OneJobEach'
    BY <1>1, JobsStay
  <1>3. CASE Authenticated(i)
    <2>1. verified' = [verified EXCEPT ![i] = None] /\ UNCHANGED <<players, deadlines, freeIds>>
      BY <1>3
    <2>2. TypeOK'
      BY <1>1, <2>1 DEF IInv, TypeOK
    <2>3. \A k \in Id : verified'[k] \in {verified[k], None}
      BY <2>1 DEF IInv, TypeOK
    <2>4. WaitInv'
      BY <1>1, <2>1, <2>3, WaitingStays, SameQueues
    <2>5. Newcomers' \subseteq Newcomers \cap deadlines' /\ FreeIdsAreFree'
      BY <2>1 DEF Newcomers, Online, Authenticated, IInv, RoomInv, FreeIdsAreFree, Used
    <2>6. RoomInv'
      BY <1>1, <2>5, RoomStays
    <2> QED
      BY <1>2, <2>2, <2>4, <2>6 DEF IInv
  <1>4. CASE ~Authenticated(i)
    <2>1. verified[i].account \in Account /\ Apply(i, verified[i].account)
      BY <1>4 DEF BindingAccount, IInv, TypeOK, Login
    <2>2. TypeOK'
      BY <1>1, <1>4, <2>1, ApplyChanges DEF IInv, TypeOK
    <2>3. WaitInv'
      <3>1. Requests' = Requests
        BY <1>1, SameQueues
      <3>2. \A w \in Requests : w.id \in Id /\ w.request # None
        BY RequestsAreWork, SessionsAssumption DEF IInv, Work
      <3>3. \A k \in Id \ {i} : Online(k) /\ ~Authenticated(k) => players'[k] = players[k]
        BY <1>1, <1>4, <2>1, ApplyChanges
      <3>4. verified'[i] = None /\ \A k \in Id \ {i} : verified'[k] = verified[k]
        BY <1>1, <1>4, <2>1, ApplyChanges
      <3>5. DistinctRequests' /\ TrackedById'
        BY <1>1, <3>1 DEF IInv, WaitInv, DistinctRequests, TrackedById
      <3>6. OnlyNewcomersWait'
        BY <1>1, <3>3, <3>4 DEF IInv, WaitInv, OnlyNewcomersWait, Online, Authenticated
      <3>7. \A w \in Requests : w.request = requests[w.id] => players'[w.id] = players[w.id]
        BY <1>1, <3>2, <3>3 DEF IInv, WaitInv, OnlyNewcomersWait
      <3>8. \A k \in Id : verified'[k] # None => players'[k] = players[k] /\ verified'[k] = verified[k]
        BY <3>3, <3>4 DEF IInv, WaitInv, OnlyNewcomersWait
      <3>9. AnswersGoHome'
        BY <1>1, <3>1, <3>7, <3>8 DEF IInv, WaitInv, AnswersGoHome
      <3> QED
        BY <3>5, <3>6, <3>9 DEF WaitInv
    <2>4. Newcomers' \subseteq Newcomers \cap deadlines' /\ FreeIdsAreFree'
      BY <1>1, <1>4, <2>1, ApplyChanges
    <2>5. RoomInv'
      BY <1>1, <2>4, RoomStays
    <2> QED
      BY <1>2, <2>2, <2>3, <2>5 DEF IInv
  <1> QED
    BY <1>3, <1>4

\* A refused request is not awaited any more.
LEMMA RefuseInv == ASSUME IInv, NEW k \in 1..Len(queue), Refuse(k) PROVE IInv'
  <1>1. /\ queue' = RemoveAt(queue, k)
        /\ \A i \in Id : requests'[i] = IF i = queue[k].id /\ requests[i] = queue[k].request
                                          THEN None ELSE requests[i]
        /\ UNCHANGED <<accepted, players, nextId, freeIds, deadlines, active, verified, jobs, running,
                       done, registered, banned>>
    BY DEF Refuse, DispatchFrame, idVars
  <1>2. /\ queue' \in Seq(Work) /\ Range(queue') \subseteq Range(queue)
        /\ Range(queue) \subseteq Range(queue') \cup {queue[k]}
    BY <1>1, RemoveAtRange DEF IInv, TypeOK
  <1>3. InFlight' = InFlight /\ Requests' \subseteq Requests /\ Requests \subseteq Requests' \cup {queue[k]}
    BY <1>1, <1>2 DEF InFlight, Requests
  <1>4. TypeOK'
    <2>1. requests' \in [Id -> Request \cup {None}]
      BY DEF Refuse, IInv, TypeOK
    <2> QED
      BY <1>1, <1>2, <2>1 DEF IInv, TypeOK
  <1>5. WaitInv'
    <2>1. DistinctRequests'
      BY <1>3 DEF IInv, WaitInv, DistinctRequests
    <2>2. TrackedById'
      BY <1>1, <1>3 DEF IInv, WaitInv, TrackedById
    <2>3. OnlyNewcomersWait'
      BY <1>1 DEF IInv, WaitInv, OnlyNewcomersWait, Online, Authenticated
    <2>4. \A w \in Requests : w.id \in Id /\ w.request # None
      BY RequestsAreWork, SessionsAssumption DEF IInv, Work
    <2>5. AnswersGoHome'
      BY <1>1, <1>3, <2>4 DEF IInv, WaitInv, AnswersGoHome
    <2> QED
      BY <2>1, <2>2, <2>3, <2>5 DEF WaitInv
  <1>6. OneJobEach'
    BY <1>1, JobsStay
  <1>7. Newcomers' \subseteq Newcomers \cap deadlines' /\ FreeIdsAreFree'
    BY <1>1 DEF Newcomers, Online, Authenticated, IInv, RoomInv, FreeIdsAreFree, Used
  <1>8. RoomInv'
    BY <1>1, <1>7, RoomStays
  <1> QED
    BY <1>4, <1>5, <1>6, <1>8 DEF IInv

\* A job is submitted only while no other one for its account is in flight.
LEMMA SubmitInv == ASSUME IInv, NEW k \in 1..Len(queue), Submit(k) PROVE IInv'
  <1> DEFINE w == queue[k]
  <1>1. /\ queue' = RemoveAt(queue, k) /\ jobs' = Append(jobs, w)
        /\ active' = active \cup {w.account} /\ w.account \notin active
        /\ UNCHANGED <<accepted, players, nextId, freeIds, deadlines, verified, running,
                       requests, done, registered, banned>>
    BY DEF Submit, DispatchFrame, idVars, MayDispatch
  <1>2. /\ queue' \in Seq(Work) /\ Range(queue') \subseteq Range(queue)
        /\ Range(queue) \subseteq Range(queue') \cup {w} /\ w \in Work /\ w \in Range(queue)
    BY <1>1, RemoveAtRange DEF IInv, TypeOK
  <1> HIDE DEF w
  <1>3. jobs \in Seq(Work) /\ jobs' \in Seq(Work) /\ Range(jobs') = Range(jobs) \cup {w}
    BY <1>1, <1>2, AppendRange DEF IInv, TypeOK
  <1>4. InFlight' = InFlight \cup {w} /\ Requests' = Requests
    BY <1>1, <1>2, <1>3 DEF InFlight, Requests
  <1>5. TypeOK'
    BY <1>1, <1>2, <1>3 DEF IInv, TypeOK, Work
  <1>6. WaitInv'
    BY <1>1, <1>4, WaitingStays
  <1>7. OneJobEach'
    <2>1. \A v \in InFlight : v.account # w.account
      BY <1>1 DEF IInv, OneJobEach
    <2>2. /\ \A j \in DOMAIN jobs : jobs[j].account # w.account
          /\ \A j \in DOMAIN done : done[j].account # w.account
          /\ running # None => running.account # w.account
      BY <2>1 DEF InFlight, Range
    <2>3. /\ DOMAIN jobs' = DOMAIN jobs \cup {Len(jobs) + 1} /\ jobs'[Len(jobs) + 1] = w
          /\ \A j \in DOMAIN jobs : jobs'[j] = jobs[j]
      BY <1>1, <1>2, <1>3
    <2>4. active' = {v.account : v \in InFlight'}
      BY <1>1, <1>4 DEF IInv, OneJobEach
    <2>5. /\ \A j, l \in DOMAIN jobs : jobs[j].account = jobs[l].account => j = l
          /\ \A j, l \in DOMAIN done : done[j].account = done[l].account => j = l
          /\ \A j \in DOMAIN jobs, l \in DOMAIN done : jobs[j].account # done[l].account
          /\ running # None => /\ \A l \in DOMAIN jobs : jobs[l].account # running.account
                              /\ \A l \in DOMAIN done : done[l].account # running.account
      BY DEF IInv, OneJobEach
    <2>6. \A j, l \in DOMAIN jobs' : jobs'[j].account = jobs'[l].account => j = l
      BY <2>2, <2>3, <2>5
    <2>7. \A j \in DOMAIN jobs', l \in DOMAIN done : jobs'[j].account # done[l].account
      BY <2>2, <2>3, <2>5
    <2>8. running # None => \A l \in DOMAIN jobs' : jobs'[l].account # running.account
      BY <2>2, <2>3, <2>5
    <2> QED
      BY <1>1, <2>4, <2>5, <2>6, <2>7, <2>8 DEF OneJobEach
  <1>8. Newcomers' \subseteq Newcomers \cap deadlines' /\ FreeIdsAreFree'
    BY <1>1 DEF Newcomers, Online, Authenticated, IInv, RoomInv, FreeIdsAreFree, Used
  <1>9. RoomInv'
    BY <1>1, <1>8, RoomStays
  <1> QED
    BY <1>5, <1>6, <1>7, <1>9 DEF IInv

\* The worker takes a job from the queue to what is running ...
LEMMA TakeJobInv == ASSUME IInv, TakeJob PROVE IInv'
  <1>1. /\ running = None /\ jobs # <<>> /\ running' = Head(jobs) /\ jobs' = Tail(jobs) /\ done' = done
        /\ UNCHANGED <<accepted, players, nextId, freeIds, deadlines, requests, queue, active, verified,
                       registered, banned>>
    BY DEF TakeJob, WorkerFrame, idVars
  <1>2. /\ jobs' \in Seq(Work) /\ running' \in Work
        /\ Range(jobs) = Range(jobs') \cup {running'}
        /\ \A k \in DOMAIN jobs' : k + 1 \in DOMAIN jobs \ {1} /\ jobs'[k] = jobs[k + 1]
        /\ 1 \in DOMAIN jobs /\ running' = jobs[1]
    BY <1>1, TailRange DEF IInv, TypeOK
  <1> HIDE DEF InFlight
  <1>3. running' # None
    BY <1>2, SessionsAssumption
  <1>4. InFlight' = InFlight /\ Requests' = Requests
    BY <1>1, <1>2, <1>3 DEF InFlight, Requests
  <1>5. TypeOK'
    BY <1>1, <1>2 DEF IInv, TypeOK
  <1>6. WaitInv'
    BY <1>1, <1>4, WaitingStays
  <1>7. OneJobEach'
    <2>1. /\ active' = {w.account : w \in InFlight'}
          /\ \A j, l \in DOMAIN jobs : jobs[j].account = jobs[l].account => j = l
          /\ \A j, l \in DOMAIN done' : done'[j].account = done'[l].account => j = l
          /\ \A j \in DOMAIN jobs, l \in DOMAIN done' : jobs[j].account # done'[l].account
      BY <1>1, <1>4 DEF IInv, OneJobEach
    <2>2. \A j, l \in DOMAIN jobs' : jobs'[j].account = jobs'[l].account => j = l
      <3> SUFFICES ASSUME NEW j \in DOMAIN jobs', NEW l \in DOMAIN jobs', jobs'[j].account = jobs'[l].account
                   PROVE  j = l
        OBVIOUS
      <3>1. j + 1 = l + 1 /\ j \in Nat /\ l \in Nat
        BY <1>2, <2>1
      <3> QED
        BY <3>1
    <2>3. \A j \in DOMAIN jobs', l \in DOMAIN done' : jobs'[j].account # done'[l].account
      BY <1>2, <2>1
    <2>4. \A l \in DOMAIN jobs' : jobs'[l].account # running'.account
      BY <1>2, <2>1
    <2>5. \A l \in DOMAIN done' : done'[l].account # running'.account
      BY <1>2, <2>1
    <2> QED
      BY <2>1, <2>2, <2>3, <2>4, <2>5 DEF OneJobEach
  <1>8. Newcomers' \subseteq Newcomers \cap deadlines' /\ FreeIdsAreFree'
    BY <1>1 DEF Newcomers, Online, Authenticated, IInv, RoomInv, FreeIdsAreFree, Used
  <1>9. RoomInv'
    BY <1>1, <1>8, RoomStays
  <1> QED
    BY <1>5, <1>6, <1>7, <1>9 DEF IInv

\* ... and from there to the completions.
LEMMA FinishJobInv == ASSUME IInv, FinishJob PROVE IInv'
  <1>1. /\ running # None /\ running' = None /\ done' = Append(done, running) /\ jobs' = jobs
        /\ UNCHANGED <<accepted, players, nextId, freeIds, deadlines, requests, queue, active, verified,
                       registered, banned>>
    BY DEF FinishJob, WorkerFrame, idVars
  <1>2. /\ running \in Work /\ done \in Seq(Work) /\ done' \in Seq(Work)
        /\ Range(done') = Range(done) \cup {running}
    BY <1>1, AppendRange DEF IInv, TypeOK
  <1>3. /\ DOMAIN done' = DOMAIN done \cup {Len(done) + 1} /\ done'[Len(done) + 1] = running
        /\ \A j \in DOMAIN done : done'[j] = done[j]
    BY <1>1, <1>2
  <1>4. InFlight' = InFlight /\ Requests' = Requests
    BY <1>1, <1>2 DEF InFlight, Requests
  <1>5. TypeOK'
    BY <1>1, <1>2 DEF IInv, TypeOK
  <1>6. WaitInv'
    BY <1>1, <1>4, WaitingStays
  <1>7. OneJobEach'
    <2>1. /\ active' = {w.account : w \in InFlight'}
          /\ \A j, l \in DOMAIN jobs' : jobs'[j].account = jobs'[l].account => j = l
          /\ \A j, l \in DOMAIN done : done[j].account = done[l].account => j = l
          /\ \A j \in DOMAIN jobs', l \in DOMAIN done : jobs'[j].account # done[l].account
          /\ \A l \in DOMAIN jobs' : jobs'[l].account # running.account
          /\ \A l \in DOMAIN done : done[l].account # running.account
      BY <1>1, <1>4 DEF IInv, OneJobEach
    <2>2. \A j, l \in DOMAIN done' : done'[j].account = done'[l].account => j = l
      BY <1>3, <2>1
    <2>3. \A j \in DOMAIN jobs', l \in DOMAIN done' : jobs'[j].account # done'[l].account
      BY <1>3, <2>1
    <2> QED
      BY <1>1, <2>1, <2>2, <2>3 DEF OneJobEach
  <1>8. Newcomers' \subseteq Newcomers \cap deadlines' /\ FreeIdsAreFree'
    BY <1>1 DEF Newcomers, Online, Authenticated, IInv, RoomInv, FreeIdsAreFree, Used
  <1>9. RoomInv'
    BY <1>1, <1>8, RoomStays
  <1> QED
    BY <1>5, <1>6, <1>7, <1>9 DEF IInv

\* Taking a completion ends the work on its account, and only on that.
LEMMA CompletionTaken ==
  ASSUME IInv, done # <<>>, ResultFrame
  PROVE  /\ done' \in Seq(Work) /\ active' \subseteq Account /\ Head(done) \in Work /\ Head(done) \in Requests
         /\ Requests' \subseteq Requests /\ Requests \subseteq Requests' \cup {Head(done)}
         /\ OneJobEach'
  <1> DEFINE w == Head(done)
  <1>1. /\ active' = active \ {w.account} /\ done' = Tail(done)
        /\ UNCHANGED <<queue, accepted, nextId, jobs, running, banned>>
    BY DEF ResultFrame, applyFrame, Inactive
  <1>2. /\ done' \in Seq(Work) /\ w \in Work /\ w \in Range(done)
        /\ Range(done) = Range(done') \cup {w}
        /\ \A k \in DOMAIN done' : k + 1 \in DOMAIN done \ {1} /\ done'[k] = done[k + 1]
        /\ 1 \in DOMAIN done /\ w = done[1]
    BY <1>1, TailRange DEF IInv, TypeOK
  <1> HIDE DEF w
  <1>3. InFlight' \subseteq InFlight /\ InFlight = InFlight' \cup {w} /\ w \in InFlight
    BY <1>1, <1>2 DEF InFlight
  <1>4. w \in Requests /\ Requests' \subseteq Requests /\ Requests \subseteq Requests' \cup {w}
    BY <1>1, <1>3 DEF Requests
  <1>5. /\ active = {v.account : v \in InFlight}
        /\ \A j, l \in DOMAIN jobs' : jobs'[j].account = jobs'[l].account => j = l
        /\ \A j, l \in DOMAIN done : done[j].account = done[l].account => j = l
        /\ \A j \in DOMAIN jobs', l \in DOMAIN done : jobs'[j].account # done[l].account
        /\ running' # None => /\ \A l \in DOMAIN jobs' : jobs'[l].account # running'.account
                             /\ \A l \in DOMAIN done : done[l].account # running'.account
    BY <1>1 DEF IInv, OneJobEach
  <1>6. \A j, l \in DOMAIN done' : done'[j].account = done'[l].account => j = l
    <2> SUFFICES ASSUME NEW j \in DOMAIN done', NEW l \in DOMAIN done', done'[j].account = done'[l].account
                 PROVE  j = l
      OBVIOUS
    <2>1. j + 1 = l + 1 /\ j \in Nat /\ l \in Nat
      BY <1>2, <1>5
    <2> QED
      BY <2>1
  <1>7. /\ \A j \in DOMAIN jobs', l \in DOMAIN done' : jobs'[j].account # done'[l].account
        /\ running' # None => \A l \in DOMAIN done' : done'[l].account # running'.account
    BY <1>2, <1>5
  <1>8. \A v \in InFlight' : v.account # w.account
    <2>1. \A k \in DOMAIN done' : done'[k].account # w.account
      BY <1>2, <1>5
    <2>2. \A k \in DOMAIN jobs' : jobs'[k].account # w.account
      BY <1>2, <1>5
    <2>3. running' # None => running'.account # w.account
      BY <1>2, <1>5
    <2> QED
      BY <2>1, <2>2, <2>3 DEF InFlight, Range
  <1>9. active' = {v.account : v \in InFlight'}
    BY <1>1, <1>3, <1>5, <1>8
  <1>10. OneJobEach'
    BY <1>5, <1>6, <1>7, <1>9 DEF OneJobEach
  <1> QED
    BY <1>1, <1>2, <1>4, <1>10 DEF w, IInv, TypeOK

\* What waits when a completion was taken and whoever waited for it waits no
\* more.
LEMMA WaitingGoesOn ==
  ASSUME IInv, NEW w \in Requests,
         Requests' \subseteq Requests, Requests \subseteq Requests' \cup {w},
         requests' \in [Id -> Request \cup {None}],
         \A k \in Id : requests'[k] \in {requests[k], None},
         \A k \in Id : requests[k] # None /\ requests'[k] = None => k = w.id,
         requests'[w.id] # w.request,
         \A k \in Id : requests'[k] # None \/ verified'[k] # None => Online(k)' /\ ~Authenticated(k)',
         \A k \in Id : requests'[k] # None => players'[k].conn = players[k].conn,
         \A k \in Id : verified'[k] # None => players'[k].conn = verified'[k].conn
  PROVE  WaitInv'
  <1>1. \A v \in Requests : v.id \in Id /\ v.request # None
    BY RequestsAreWork, SessionsAssumption DEF IInv, Work
  <1>2. DistinctRequests'
    BY DEF IInv, WaitInv, DistinctRequests
  <1>3. TrackedById'
    <2> SUFFICES ASSUME NEW k \in Id, requests'[k] # None
                 PROVE  \E v \in Requests' : v.request = requests'[k] /\ v.id = k
      BY DEF TrackedById
    <2>1. requests'[k] = requests[k]
      OBVIOUS
    <2>2. PICK v \in Requests : v.request = requests[k] /\ v.id = k
      BY <2>1 DEF IInv, WaitInv, TrackedById
    <2>3. v # w
      BY <2>1, <2>2
    <2> QED
      BY <2>1, <2>2, <2>3
  <1>4. OnlyNewcomersWait'
    BY DEF OnlyNewcomersWait
  <1>5. \A v \in Requests' : v.request = requests'[v.id] => players'[v.id].conn = v.conn
    BY <1>1 DEF IInv, WaitInv, AnswersGoHome
  <1>6. AnswersGoHome'
    BY <1>5 DEF AnswersGoHome
  <1> QED
    BY <1>2, <1>3, <1>4, <1>6 DEF WaitInv

LEMMA DiscardResultInv == ASSUME IInv, DiscardResult PROVE IInv'
  <1> DEFINE w == Head(done)
  <1>1. /\ ResultFrame /\ done # <<>> /\ requests[w.id] # w.request
        /\ UNCHANGED <<players, freeIds, deadlines, requests, verified, registered>>
        /\ UNCHANGED <<queue, accepted, nextId, jobs, running, banned>>
    BY DEF DiscardResult, Answers, ResultFrame, applyFrame
  <1>2. /\ done' \in Seq(Work) /\ active' \subseteq Account /\ w \in Work /\ w \in Requests
        /\ Requests' \subseteq Requests /\ Requests \subseteq Requests' \cup {w} /\ OneJobEach'
    BY <1>1, CompletionTaken
  <1> HIDE DEF w
  <1>3. TypeOK'
    BY <1>1, <1>2 DEF IInv, TypeOK
  <1>4. WaitInv'
    <2>1. \A k \in Id : requests'[k] # None \/ verified'[k] # None => Online(k)' /\ ~Authenticated(k)'
      BY <1>1 DEF IInv, WaitInv, OnlyNewcomersWait, Online, Authenticated
    <2>2. \A k \in Id : verified'[k] # None => players'[k].conn = verified'[k].conn
      BY <1>1 DEF IInv, WaitInv, AnswersGoHome
    <2>3. requests' \in [Id -> Request \cup {None}]
      BY <1>3 DEF TypeOK
    <2> QED
      BY <1>1, <1>2, <2>1, <2>2, <2>3, WaitingGoesOn
  <1>5. Newcomers' \subseteq Newcomers \cap deadlines' /\ FreeIdsAreFree'
    BY <1>1 DEF Newcomers, Online, Authenticated, IInv, RoomInv, FreeIdsAreFree, Used
  <1>6. RoomInv'
    BY <1>1, <1>5, RoomStays
  <1> QED
    BY <1>2, <1>3, <1>4, <1>6 DEF IInv

LEMMA FailResultInv == ASSUME IInv, FailResult PROVE IInv'
  <1> DEFINE w == Head(done)
  <1>1. /\ ResultFrame /\ done # <<>> /\ requests[w.id] = w.request
        /\ requests' = [requests EXCEPT ![w.id] = None]
        /\ UNCHANGED <<players, freeIds, deadlines, verified, registered>>
        /\ UNCHANGED <<queue, accepted, nextId, jobs, running, banned>>
    BY DEF FailResult, Answers, ResultFrame, applyFrame
  <1>2. /\ done' \in Seq(Work) /\ active' \subseteq Account /\ w \in Work /\ w \in Requests
        /\ Requests' \subseteq Requests /\ Requests \subseteq Requests' \cup {w} /\ OneJobEach'
    BY <1>1, CompletionTaken
  <1> HIDE DEF w
  <1>3. TypeOK'
    BY <1>1, <1>2 DEF IInv, TypeOK
  <1>4. w.id \in Id /\ w.request # None
    BY <1>2, SessionsAssumption DEF Work
  <1>5. requests' \in [Id -> Request \cup {None}] /\ requests'[w.id] = None
        /\ \A k \in Id : k # w.id => requests'[k] = requests[k]
    BY <1>1, <1>4 DEF IInv, TypeOK
  <1>6. WaitInv'
    <2>1. \A k \in Id : requests'[k] # None \/ verified'[k] # None => Online(k)' /\ ~Authenticated(k)'
      BY <1>1, <1>5 DEF IInv, WaitInv, OnlyNewcomersWait, Online, Authenticated
    <2>2. \A k \in Id : verified'[k] # None => players'[k].conn = verified'[k].conn
      BY <1>1 DEF IInv, WaitInv, AnswersGoHome
    <2> QED
      BY <1>1, <1>2, <1>4, <1>5, <2>1, <2>2, WaitingGoesOn
  <1>7. Newcomers' \subseteq Newcomers \cap deadlines' /\ FreeIdsAreFree'
    BY <1>1 DEF Newcomers, Online, Authenticated, IInv, RoomInv, FreeIdsAreFree, Used
  <1>8. RoomInv'
    BY <1>1, <1>7, RoomStays
  <1> QED
    BY <1>2, <1>3, <1>6, <1>8 DEF IInv

LEMMA CommitResultInv == ASSUME IInv, NEW w \in Range(done), CommitResult(w) PROVE IInv'
  <1>1. /\ ResultFrame /\ done # <<>> /\ w = Head(done) /\ requests[w.id] = w.request
        /\ Online(w.id) /\ ~Authenticated(w.id)
        /\ requests' = [requests EXCEPT ![w.id] = None]
        /\ registered' \in {registered, registered \cup {w.account}}
        /\ UNCHANGED <<queue, accepted, nextId, jobs, running, banned>>
    BY DEF CommitResult, Answers, Committed, ResultFrame, applyFrame
  <1>2. /\ done' \in Seq(Work) /\ active' \subseteq Account /\ w \in Work /\ w \in Requests
        /\ Requests' \subseteq Requests /\ Requests \subseteq Requests' \cup {w} /\ OneJobEach'
    BY <1>1, CompletionTaken
  <1>3. w.id \in Id /\ w.request # None /\ w.account \in Account /\ w.conn \in Conn
    BY <1>2, SessionsAssumption DEF Work
  <1>4. requests' \in [Id -> Request \cup {None}] /\ requests'[w.id] = None
        /\ \A k \in Id : k # w.id => requests'[k] = requests[k]
    BY <1>1, <1>3 DEF IInv, TypeOK
  <1>5. CASE /\ verified' = [verified EXCEPT ![w.id] = [account |-> w.account, conn |-> w.conn]]
             /\ deadlines' = deadlines \cup {w.id}
             /\ UNCHANGED <<players, freeIds>>
    <2>1. [account |-> w.account, conn |-> w.conn] \in Login
      BY <1>3 DEF Login
    <2>2. TypeOK'
      BY <1>1, <1>2, <1>3, <1>4, <1>5, <2>1 DEF IInv, TypeOK
    <2>3. \A k \in Id : verified'[k] = IF k = w.id THEN [account |-> w.account, conn |-> w.conn] ELSE verified[k]
      BY <1>5 DEF IInv, TypeOK
    <2>4. \A k \in Id : requests'[k] # None \/ verified'[k] # None => Online(k)' /\ ~Authenticated(k)'
      BY <1>1, <1>4, <1>5, <2>3 DEF IInv, WaitInv, OnlyNewcomersWait, Online, Authenticated
    <2>5. players[w.id].conn = w.conn
      BY <1>1, <1>2 DEF IInv, WaitInv, AnswersGoHome
    <2>6. \A k \in Id : verified'[k] # None => players'[k].conn = verified'[k].conn
      BY <1>5, <2>3, <2>5 DEF IInv, WaitInv, AnswersGoHome
    <2>7. WaitInv'
      BY <1>2, <1>3, <1>4, <1>5, <2>4, <2>6, WaitingGoesOn
    <2>8. Newcomers' \subseteq Newcomers \cap deadlines' /\ FreeIdsAreFree'
      BY <1>5 DEF Newcomers, Online, Authenticated, IInv, RoomInv, FreeIdsAreFree, Used
    <2>9. RoomInv'
      BY <1>1, <2>8, RoomStays
    <2> QED
      BY <1>2, <2>2, <2>7, <2>9 DEF IInv
  <1>6. CASE Apply(w.id, w.account)
    <2>1. /\ players' \in [Id -> Player] /\ verified' \in [Id -> Login \cup {None}]
          /\ verified'[w.id] = None /\ \A k \in Id \ {w.id} : verified'[k] = verified[k]
          /\ deadlines' \subseteq Id /\ freeIds' \subseteq Id
          /\ \A k \in Id \ {w.id} : Online(k) /\ ~Authenticated(k) => players'[k] = players[k]
          /\ Newcomers' \subseteq Newcomers \cap deadlines' /\ FreeIdsAreFree'
      BY <1>1, <1>3, <1>6, ApplyChanges
    <2>2. TypeOK'
      BY <1>1, <1>2, <1>3, <1>4, <2>1 DEF IInv, TypeOK
    <2>3. \A k \in Id : requests'[k] # None \/ verified'[k] # None =>
            /\ k # w.id /\ Online(k) /\ ~Authenticated(k) /\ players'[k] = players[k]
      BY <1>4, <2>1 DEF IInv, WaitInv, OnlyNewcomersWait
    <2>4. \A k \in Id : requests'[k] # None \/ verified'[k] # None => Online(k)' /\ ~Authenticated(k)'
      BY <2>3 DEF Online, Authenticated
    <2>5. \A k \in Id : verified'[k] # None => players'[k].conn = verified'[k].conn
      BY <2>1, <2>3 DEF IInv, WaitInv, AnswersGoHome
    <2>6. WaitInv'
      BY <1>2, <1>3, <1>4, <2>3, <2>4, <2>5, WaitingGoesOn
    <2>7. RoomInv'
      BY <1>1, <2>1, RoomStays
    <2> QED
      BY <1>2, <2>2, <2>6, <2>7 DEF IInv
  <1> QED
    BY <1>5, <1>6 DEF CommitResult

LEMMA StutterInv == ASSUME IInv, UNCHANGED vars PROVE IInv'
  <1> USE DEF vars, idVars, workerVars
  <1>1. TypeOK'
    BY DEF IInv, TypeOK
  <1>2. WaitInv'
    BY WaitingStays, SameQueues
  <1>3. OneJobEach'
    BY JobsStay
  <1>4. Newcomers' \subseteq Newcomers \cap deadlines' /\ FreeIdsAreFree'
    BY DEF Newcomers, Online, Authenticated, IInv, RoomInv, FreeIdsAreFree, Used
  <1>5. RoomInv'
    BY <1>4, RoomStays
  <1> QED
    BY <1>1, <1>2, <1>3, <1>5 DEF IInv

\* Every step keeps the invariant.
LEMMA IInvStep == IInv /\ [Next]_vars => IInv'
  <1> SUFFICES ASSUME IInv, [Next]_vars PROVE IInv'
    OBVIOUS
  <1>1. CASE Connections
    BY <1>1, AcceptInv, RejectInv, ClassifyInv, LeaveInv, LoseConnectionInv, BanNameInv, UnbanInv
    DEF Connections
  <1>2. CASE Messages
    BY <1>2, AskToAuthenticateInv, ForgetLoginInv, AskForCodeInv, ConfirmCodeInv DEF Messages
  <1>3. CASE Dispatch
    BY <1>3, RefuseInv, SubmitInv DEF Dispatch
  <1>4. CASE Worker
    BY <1>4, TakeJobInv, FinishJobInv DEF Worker
  <1>5. CASE Results
    BY <1>5, DiscardResultInv, FailResultInv, CommitResultInv DEF Results
  <1>6. CASE UNCHANGED vars
    BY <1>6, StutterInv
  <1> QED
    BY <1>1, <1>2, <1>3, <1>4, <1>5, <1>6 DEF Next

\* The inductive invariant holds in every behaviour.
THEOREM InvHolds == Spec => []IInv
  <1> QED
    BY IInvInit, IInvStep, PTL DEF Spec

\* Every variable keeps its type, for any number of sockets, accounts and requests.
THEOREM TypeCorrect == Spec => []TypeOK
  <1>1. IInv => TypeOK
    BY DEF IInv
  <1> QED
    BY <1>1, InvHolds, PTL

\* Whatever is dropped, reused, resumed or answered late, an answer that is still
\* awaited is awaited by the socket that asked, and a login that waits for its
\* email code belongs to the socket it was made over.
THEOREM AnswersReachWhoAsked == Spec => []AnswersGoHome
  <1>1. IInv => AnswersGoHome
    BY DEF IInv, WaitInv
  <1> QED
    BY <1>1, InvHolds, PTL

\* Nobody waits for a request that was lost, an account is marked as being worked
\* on exactly while one job for it is in flight, the limit on connections that
\* have not logged in holds, and no id is handed out twice.
THEOREM TrackedRequests == Spec => []RequestsAreTracked
  <1>1. ASSUME IInv PROVE RequestsAreTracked
    <2>1. AwaitedIsTracked
      BY <1>1 DEF IInv, WaitInv, TrackedById, AwaitedIsTracked
    <2>2. ActiveIsInFlight
      <3>1. /\ \A j, l \in DOMAIN jobs : jobs[j].account = jobs[l].account => j = l
            /\ \A j, l \in DOMAIN done : done[j].account = done[l].account => j = l
            /\ \A j \in DOMAIN jobs, l \in DOMAIN done : jobs[j].account # done[l].account
            /\ running # None => /\ \A l \in DOMAIN jobs : jobs[l].account # running.account
                                 /\ \A l \in DOMAIN done : done[l].account # running.account
        BY <1>1 DEF IInv, OneJobEach
      <3>2. \A v, w \in InFlight : v.account = w.account => v = w
        BY <3>1 DEF InFlight, Range
      <3> QED
        BY <1>1, <3>2 DEF IInv, OneJobEach, ActiveIsInFlight
    <2> QED
      BY <1>1, <2>1, <2>2 DEF IInv, RoomInv, RequestsAreTracked
  <1> QED
    BY <1>1, InvHolds, PTL
=============================================================================
