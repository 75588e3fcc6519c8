---------------------------- MODULE SessionsProofs ----------------------------
(* What holds of the sessions for any users, requests, limits and times. *)
EXTENDS Sessions, TLAPS

\* A thread is about to end this session among others.
WillEnd(s) ==
  \E r \in Requests : /\ requests[r].at \in {"clear factor", "revoke"}
                      /\ requests[r].user = sessions[s].user
                      /\ requests[r].keep # s

\* Stronger than LiveSessionsProveCredentials, and inductive: a session that does
\* not prove what its account asks for will not be spared.
Settled ==
  \A s \in DOMAIN sessions :
    SessionActive(s) =>
      sessions[s].late \/ Proves(sessions[s].proof, accounts[sessions[s].user]) \/ WillEnd(s)

\* What a thread keeps refers to rows of the same account.
Refers(q) ==
  /\ q.at # "idle" => accounts[q.user] # NoAccount
  /\ q.at \in {"answer", "renewed", "drop", "session", "admitted"} =>
       q.sid \in DOMAIN sessions /\ sessions[q.sid].user = q.user
  /\ q.at \in {"new password", "enable"} =>
       q.keep \in DOMAIN sessions /\ sessions[q.keep].user = q.user
  /\ q.at \in {"reset", "clear factor"} => q.keep = 0

AInv == ATypeOK /\ (\A r \in Requests : Refers(requests[r])) /\ Settled

-----------------------------------------------------------------------------
(* What a thread at a certain step keeps. *)

LEMMA Labels ==
  /\ Idle.at = "idle"
  /\ \A q \in SignIn : q.at \in {"failed", "code", "clear", "open"}
  /\ \A q \in Answering : q.at \in {"answer", "renewed", "drop"}
  /\ \A q \in Principal : q.at \in {"session", "admitted"}
  /\ \A q \in Changing : q.at \in {"new password", "set up", "enable", "disable", "active", "role",
                                   "reset", "clear factor", "revoke"}
<1>1. Idle.at = "idle" BY DEF Idle
<1>2. \A q \in SignIn : q.at \in {"failed", "code", "clear", "open"} BY DEF SignIn
<1>3. \A q \in Answering : q.at \in {"answer", "renewed", "drop"} BY DEF Answering
<1>4. \A q \in Principal : q.at \in {"session", "admitted"} BY DEF Principal
<1>5. ASSUME NEW q \in Changing
      PROVE  q.at \in {"new password", "set up", "enable", "disable", "active", "role",
                       "reset", "clear factor", "revoke"}
  BY DEF Changing
<1> QED BY <1>1, <1>2, <1>3, <1>4, <1>5

LEMMA RequestTyped ==
  ASSUME ATypeOK, NEW r \in Requests
  PROVE  requests[r] \in {Idle} \cup SignIn \cup Answering \cup Principal \cup Changing
BY DEF ATypeOK

LEMMA AtSignIn ==
  ASSUME ATypeOK, NEW r \in Requests, requests[r].at \in {"failed", "code", "clear", "open"}
  PROVE  requests[r] \in SignIn
BY Labels, RequestTyped

LEMMA AtAnswering ==
  ASSUME ATypeOK, NEW r \in Requests, requests[r].at \in {"answer", "renewed", "drop"}
  PROVE  requests[r] \in Answering
BY Labels, RequestTyped

LEMMA AtPrincipal ==
  ASSUME ATypeOK, NEW r \in Requests, requests[r].at \in {"session", "admitted"}
  PROVE  requests[r] \in Principal
BY Labels, RequestTyped

LEMMA AtChanging ==
  ASSUME ATypeOK, NEW r \in Requests,
         requests[r].at \in {"new password", "set up", "enable", "disable", "active", "role",
                             "reset", "clear factor", "revoke"}
  PROVE  requests[r] \in Changing
BY Labels, RequestTyped

LEMMA AtLabel ==
  ASSUME NEW q \in Changing
  PROVE  /\ q.at \in {"new password", "set up"} =>
              q \in [at : {"new password", "set up"}, user : Users, keep : Nat, number : Nat]
         /\ q.at = "enable" => q \in [at : {"enable"}, user : Users, keep : Nat, secret : Nat, code : Int]
         /\ q.at = "disable" => q \in [at : {"disable"}, user : Users, lastStep : Int]
         /\ q.at = "active" => q \in [at : {"active"}, user : Users, keep : Nat, value : BOOLEAN, revoke : BOOLEAN]
         /\ q.at = "role" => q \in [at : {"role"}, user : Users, keep : Nat, value : USER_ROLES, revoke : BOOLEAN]
         /\ q.at = "reset" => q \in [at : {"reset"}, user : Users, keep : Nat, number : Nat, cli : BOOLEAN]
         /\ q.at = "clear factor" => q \in [at : {"clear factor"}, user : Users, keep : Nat, cli : BOOLEAN]
         /\ q.at = "revoke" => q \in [at : {"revoke"}, user : Users, keep : Nat]
BY DEF Changing

-----------------------------------------------------------------------------
(* Steps that leave the credentials and the sessions alone. *)

RequestType == {Idle} \cup SignIn \cup Answering \cup Principal \cup Changing

\* Refers, of the next state.
RefersNext(q) ==
  /\ q.at # "idle" => accounts'[q.user] # NoAccount
  /\ q.at \in {"answer", "renewed", "drop", "session", "admitted"} =>
       q.sid \in DOMAIN sessions' /\ sessions'[q.sid].user = q.user
  /\ q.at \in {"new password", "enable"} =>
       q.keep \in DOMAIN sessions' /\ sessions'[q.keep].user = q.user
  /\ q.at \in {"reset", "clear factor"} => q.keep = 0

\* Whoever is about to end sessions goes on to.
Carries(p, q) ==
  p.at \in {"clear factor", "revoke"} =>
    q.at \in {"clear factor", "revoke"} /\ q.user = p.user /\ q.keep = p.keep

\* What is live was live, with the same proof.
NoneComesAlive ==
  \A s \in DOMAIN sessions' :
    ~sessions'[s].revoked /\ sessions'[s].expires > now' =>
      /\ s \in DOMAIN sessions /\ SessionActive(s)
      /\ sessions'[s].user = sessions[s].user /\ sessions'[s].late = sessions[s].late
      /\ sessions'[s].proof = sessions[s].proof

\* Accounts stay.
AccountsStay ==
  /\ accounts' \in [Users -> AccountRow \cup {NoAccount}]
  /\ \A u \in Users : Exists(u) => accounts'[u] # NoAccount

\* So do their passwords, and their second factors unless they are dropped.
SameCredentials ==
  /\ AccountsStay
  /\ \A u \in Users : Exists(u) =>
       /\ accounts'[u].password = accounts[u].password
       /\ accounts'[u].secret \in {NoFactor, accounts[u].secret}

\* Sessions stay those of their users.
SessionsStay ==
  /\ sessions' \in Seq(SessionRow)
  /\ \A s \in DOMAIN sessions : s \in DOMAIN sessions' /\ sessions'[s].user = sessions[s].user
  /\ \A s \in DOMAIN sessions' : accounts'[sessions'[s].user] # NoAccount

LEMMA UserOfRequest ==
  \A q \in SignIn \cup Answering \cup Principal \cup Changing : q.user \in Users
<1>1. \A q \in SignIn : q.user \in Users BY DEF SignIn
<1>2. \A q \in Answering : q.user \in Users BY DEF Answering
<1>3. \A q \in Principal : q.user \in Users BY DEF Principal
<1>4. ASSUME NEW q \in Changing PROVE q.user \in Users BY DEF Changing
<1> QED BY <1>1, <1>2, <1>3, <1>4

LEMMA SessionTyped ==
  ASSUME ATypeOK, NEW s \in DOMAIN sessions
  PROVE  sessions[s] \in SessionRow /\ sessions[s].user \in Users /\ Exists(sessions[s].user)
         /\ s \in Nat \ {0} /\ sessions[s].proof \in Proof
<1>1. sessions[s] \in SessionRow /\ s \in Nat \ {0} /\ Exists(sessions[s].user) BY DEF ATypeOK
<1> QED BY <1>1 DEF SessionRow

LEMMA SessionsUnchangedStay ==
  ASSUME ATypeOK, AccountsStay, UNCHANGED sessions
  PROVE  SessionsStay
<1>1. \A s \in DOMAIN sessions : accounts'[sessions[s].user] # NoAccount
  BY SessionTyped DEF AccountsStay
<1> QED BY <1>1 DEF SessionsStay, ATypeOK

\* What one thread keeps goes on to refer to what is there.
LEMMA RefersStays ==
  ASSUME ATypeOK, AccountsStay, SessionsStay, NEW q \in RequestType, Refers(q)
  PROVE  RefersNext(q)
<1>1. q.at # "idle" => q.user \in Users BY UserOfRequest, Labels DEF RequestType
<1>2. q.at # "idle" => accounts'[q.user] # NoAccount
  BY <1>1 DEF Refers, AccountsStay, Exists
<1>3. \A s : s \in DOMAIN sessions /\ sessions[s].user = q.user =>
              s \in DOMAIN sessions' /\ sessions'[s].user = q.user
  BY DEF SessionsStay
<1> QED BY <1>2, <1>3 DEF Refers, RefersNext

\* A step of one thread that leaves accounts and sessions in place.
LEMMA OneThreadSteps ==
  ASSUME ATypeOK, \A p \in Requests : Refers(requests[p]),
         AccountsStay, SessionsStay, NEW r \in Requests, NEW q \in RequestType,
         Becomes(r, q), RefersNext(q)
  PROVE  /\ requests' \in [Requests -> RequestType]
         /\ requests'[r] = q
         /\ \A p \in Requests : p # r => requests'[p] = requests[p]
         /\ \A p \in Requests : Refers(requests[p])'
<1>1. /\ requests' \in [Requests -> RequestType] /\ requests'[r] = q
      /\ \A p \in Requests : p # r => requests'[p] = requests[p]
  BY DEF ATypeOK, Becomes, RequestType
<1>2. ASSUME NEW p \in Requests PROVE RefersNext(requests'[p])
  <2>1. CASE p = r BY <1>1, <2>1
  <2>2. CASE p # r
    <3>1. requests[p] \in RequestType BY DEF ATypeOK, RequestType
    <3>2. RefersNext(requests[p]) BY <3>1, RefersStays
    <3> QED BY <1>1, <2>2, <3>2
  <2> QED BY <2>1, <2>2
<1>3. \A p \in Requests : Refers(requests[p])' BY <1>2 DEF Refers, RefersNext
<1> QED BY <1>1, <1>3

\* Tokens and access tokens go on to belong to sessions that are there.
LEMMA TypeKept ==
  ASSUME ATypeOK, AccountsStay, SessionsStay, now' \in Nat, operations' \in Nat,
         tokens' \in Seq(TokenRow), \A t \in DOMAIN tokens' : tokens'[t].sid \in DOMAIN sessions',
         jwts' \subseteq Jwt,
         \A j \in jwts' : j.sid \in DOMAIN sessions' /\ j.user = sessions'[j.sid].user,
         requests' \in [Requests -> RequestType]
  PROVE  ATypeOK'
BY DEF ATypeOK, AccountsStay, SessionsStay, Exists, RequestType

LEMMA TokensKept ==
  ASSUME ATypeOK, SessionsStay, UNCHANGED tokens
  PROVE  tokens' \in Seq(TokenRow) /\ \A t \in DOMAIN tokens' : tokens'[t].sid \in DOMAIN sessions'
BY DEF ATypeOK, SessionsStay

LEMMA JwtsKept ==
  ASSUME ATypeOK, SessionsStay, jwts' \subseteq jwts
  PROVE  jwts' \subseteq Jwt /\ \A j \in jwts' : j.sid \in DOMAIN sessions' /\ j.user = sessions'[j.sid].user
BY DEF ATypeOK, SessionsStay

LEMMA WillEndKept ==
  ASSUME \A p \in Requests : Carries(requests[p], requests'[p]), NEW s, WillEnd(s),
         sessions'[s].user = sessions[s].user
  PROVE  WillEnd(s)'
<1>1. PICK p \in Requests : /\ requests[p].at \in {"clear factor", "revoke"}
                            /\ requests[p].user = sessions[s].user
                            /\ requests[p].keep # s
  BY DEF WillEnd
<1>2. /\ requests'[p].at \in {"clear factor", "revoke"}
      /\ requests'[p].user = sessions'[s].user /\ requests'[p].keep # s
  BY <1>1 DEF Carries
<1> QED BY <1>2 DEF WillEnd

\* A step that does not bring sessions to life, nor takes from what they proved.
LEMMA SettledKept ==
  ASSUME ATypeOK, Settled, NoneComesAlive, SameCredentials,
         \A p \in Requests : Carries(requests[p], requests'[p])
  PROVE  Settled'
<1>1. ASSUME NEW s \in DOMAIN sessions', ~sessions'[s].revoked, sessions'[s].expires > now'
      PROVE  \/ sessions'[s].late
             \/ Proves(sessions'[s].proof, accounts'[sessions'[s].user])
             \/ WillEnd(s)'
  <2>1. /\ s \in DOMAIN sessions /\ SessionActive(s)
        /\ sessions'[s].user = sessions[s].user /\ sessions'[s].late = sessions[s].late
        /\ sessions'[s].proof = sessions[s].proof
    BY <1>1 DEF NoneComesAlive
  <2>2. CASE WillEnd(s) BY <2>1, <2>2, WillEndKept
  <2>3. CASE Proves(sessions[s].proof, accounts[sessions[s].user])
    BY <2>1, <2>3, SessionTyped DEF Proves, SameCredentials
  <2> QED BY <2>1, <2>2, <2>3 DEF Settled
<1> QED BY <1>1 DEF Settled, SessionActive

LEMMA SameSessions ==
  ASSUME ATypeOK, UNCHANGED sessions, now' \in Nat, now' >= now
  PROVE  NoneComesAlive
<1>1. ASSUME NEW s \in DOMAIN sessions, sessions[s].expires > now' PROVE sessions[s].expires > now
  BY <1>1, SessionTyped DEF SessionRow, ATypeOK
<1> QED BY <1>1 DEF NoneComesAlive, SessionActive

\* A step of one thread.
LEMMA StepKeeps ==
  ASSUME AInv, AccountsStay, SessionsStay, NEW r \in Requests, NEW q \in RequestType,
         Becomes(r, q), RefersNext(q), now' = now, operations' \in Nat,
         tokens' \in Seq(TokenRow), \A t \in DOMAIN tokens' : tokens'[t].sid \in DOMAIN sessions',
         jwts' \subseteq Jwt,
         \A j \in jwts' : j.sid \in DOMAIN sessions' /\ j.user = sessions'[j.sid].user,
         Settled'
  PROVE  AInv'
<1>1. ATypeOK /\ \A p \in Requests : Refers(requests[p]) BY DEF AInv
<1>2. requests' \in [Requests -> RequestType] /\ \A p \in Requests : Refers(requests[p])'
  BY <1>1, OneThreadSteps
<1>3. now' \in Nat BY <1>1 DEF ATypeOK
<1>4. ATypeOK' BY <1>1, <1>2, <1>3, TypeKept
<1> QED BY <1>2, <1>4 DEF AInv

LEMMA CarriesOn ==
  ASSUME ATypeOK, NEW r \in Requests, NEW q \in RequestType, Becomes(r, q),
         Carries(requests[r], q)
  PROVE  \A p \in Requests : Carries(requests[p], requests'[p])
<1>1. requests'[r] = q /\ \A p \in Requests : p # r => requests'[p] = requests[p]
  BY DEF ATypeOK, Becomes
<1>2. \A p \in Requests : Carries(requests[p], requests[p]) BY DEF Carries
<1> QED BY <1>1, <1>2

\* A step of one thread that changes neither credentials nor sessions.
LEMMA QuietStep ==
  ASSUME AInv, SameCredentials, NEW r \in Requests, NEW q \in RequestType,
         Becomes(r, q), Refers(q), Carries(requests[r], q),
         UNCHANGED <<now, sessions, tokens, jwts>>, operations' \in Nat
  PROVE  AInv'
<1>1. ATypeOK /\ Settled /\ AccountsStay BY DEF AInv, SameCredentials
<1>2. SessionsStay BY <1>1, SessionsUnchangedStay
<1>3. RefersNext(q) BY <1>1, <1>2, RefersStays
<1>4. now' \in Nat /\ now' >= now BY <1>1 DEF ATypeOK
<1>5. NoneComesAlive BY <1>1, <1>4, SameSessions
<1>6. Settled' BY <1>1, <1>5, CarriesOn, SettledKept
<1>7. tokens' = tokens /\ jwts' \subseteq jwts OBVIOUS
<1> QED BY <1>1, <1>2, <1>3, <1>6, <1>7, StepKeeps, TokensKept, JwtsKept

-----------------------------------------------------------------------------
(* Each action. *)

LEMMA UserExists ==
  ASSUME AInv, NEW r \in Requests, requests[r].at # "idle"
  PROVE  requests[r].user \in Users /\ Exists(requests[r].user)
         /\ accounts[requests[r].user] \in AccountRow
<1>1. requests[r].user \in Users BY UserOfRequest, RequestTyped, Labels DEF AInv
<1>2. Exists(requests[r].user) BY DEF AInv, Refers, Exists
<1> QED BY <1>1, <1>2 DEF AInv, ATypeOK, Exists

(* Rows of accounts. *)

LEMMA RowIsAccount == \A a \in AccountRow : a # NoAccount
BY DEF AccountRow, NoAccount, USER_ROLES

LEMMA RowFailures ==
  ASSUME NEW a \in AccountRow, NEW f \in 0..(MAX_FAILED_LOGINS - 1), NEW until \in Nat
  PROVE  /\ [a EXCEPT !.failed = f, !.lockedUntil = until] \in AccountRow
         /\ [a EXCEPT !.failed = f, !.lockedUntil = until].password = a.password
         /\ [a EXCEPT !.failed = f, !.lockedUntil = until].secret = a.secret
<1> DEFINE b == [a EXCEPT !.failed = f]
           c == [b EXCEPT !.lockedUntil = until]
<1>1. b \in AccountRow /\ b.password = a.password /\ b.secret = a.secret BY DEF AccountRow
<1> HIDE DEF b
<1>2. c \in AccountRow /\ c.password = b.password /\ c.secret = b.secret BY <1>1 DEF AccountRow
<1> QED BY <1>1, <1>2 DEF b

LEMMA NoFailures == 0 \in 0..(MAX_FAILED_LOGINS - 1)
BY SettingsAssumption

LEMMA RowCleared ==
  ASSUME NEW a \in AccountRow
  PROVE  /\ [a EXCEPT !.failed = 0, !.lockedUntil = 0] \in AccountRow
         /\ [a EXCEPT !.failed = 0, !.lockedUntil = 0].password = a.password
         /\ [a EXCEPT !.failed = 0, !.lockedUntil = 0].secret = a.secret
<1>1. 0 \in Nat OBVIOUS
<1> QED BY <1>1, NoFailures, RowFailures

LEMMA RowFailure ==
  ASSUME NEW a \in AccountRow, now \in Nat
  PROVE  /\ RegisterFailure(a) \in AccountRow
         /\ RegisterFailure(a).password = a.password /\ RegisterFailure(a).secret = a.secret
<1>1. a.failed \in 0..(MAX_FAILED_LOGINS - 1) BY DEF AccountRow
<1>2. now + LOCKOUT_S \in Nat BY SettingsAssumption
<1>3. CASE a.failed + 1 >= MAX_FAILED_LOGINS
  BY <1>2, <1>3, NoFailures, RowFailures DEF RegisterFailure
<1>4. CASE ~(a.failed + 1 >= MAX_FAILED_LOGINS)
  <2>1. a.failed + 1 \in 0..(MAX_FAILED_LOGINS - 1) BY <1>1, <1>4, SettingsAssumption
  <2> QED BY <1>4, <2>1, RowFailures DEF RegisterFailure
<1> QED BY <1>3, <1>4

LEMMA RowFields ==
  ASSUME NEW a \in AccountRow
  PROVE  /\ \A n \in Int : /\ [a EXCEPT !.lastStep = n] \in AccountRow
                           /\ [a EXCEPT !.lastStep = n].password = a.password
                           /\ [a EXCEPT !.lastStep = n].secret = a.secret
         /\ \A n \in Nat : /\ [a EXCEPT !.pending = n] \in AccountRow
                           /\ [a EXCEPT !.pending = n].password = a.password
                           /\ [a EXCEPT !.pending = n].secret = a.secret
         /\ \A b \in BOOLEAN : /\ [a EXCEPT !.active = b] \in AccountRow
                               /\ [a EXCEPT !.active = b].password = a.password
                               /\ [a EXCEPT !.active = b].secret = a.secret
         /\ \A role \in USER_ROLES : /\ [a EXCEPT !.role = role] \in AccountRow
                                     /\ [a EXCEPT !.role = role].password = a.password
                                     /\ [a EXCEPT !.role = role].secret = a.secret
<1>1. ASSUME NEW n \in Int
      PROVE  /\ [a EXCEPT !.lastStep = n] \in AccountRow
             /\ [a EXCEPT !.lastStep = n].password = a.password
             /\ [a EXCEPT !.lastStep = n].secret = a.secret
  BY DEF AccountRow
<1>2. ASSUME NEW n \in Nat
      PROVE  /\ [a EXCEPT !.pending = n] \in AccountRow
             /\ [a EXCEPT !.pending = n].password = a.password
             /\ [a EXCEPT !.pending = n].secret = a.secret
  BY DEF AccountRow
<1>3. ASSUME NEW b \in BOOLEAN
      PROVE  /\ [a EXCEPT !.active = b] \in AccountRow
             /\ [a EXCEPT !.active = b].password = a.password
             /\ [a EXCEPT !.active = b].secret = a.secret
  BY DEF AccountRow
<1>4. ASSUME NEW role \in USER_ROLES
      PROVE  /\ [a EXCEPT !.role = role] \in AccountRow
             /\ [a EXCEPT !.role = role].password = a.password
             /\ [a EXCEPT !.role = role].secret = a.secret
  BY DEF AccountRow
<1> QED BY <1>1, <1>2, <1>3, <1>4

\* What is written with a second factor, or with none.
WithFactor(a, secret, step) ==
  [a EXCEPT !.secret = secret, !.pending = NoFactor, !.lastStep = step]

LEMMA RowFactor ==
  ASSUME NEW a \in AccountRow, NEW secret \in Nat, NEW step \in Int
  PROVE  /\ WithFactor(a, secret, step) \in AccountRow
         /\ WithFactor(a, secret, step).password = a.password
         /\ WithFactor(a, secret, step).secret = secret
<1> DEFINE b == [a EXCEPT !.secret = secret]
           c == [b EXCEPT !.pending = NoFactor]
           d == [c EXCEPT !.lastStep = step]
<1>1. b \in AccountRow /\ b.password = a.password /\ b.secret = secret BY DEF AccountRow
<1> HIDE DEF b
<1>2. c \in AccountRow /\ c.password = b.password /\ c.secret = b.secret BY <1>1 DEF AccountRow, NoFactor
<1> HIDE DEF c
<1>3. d \in AccountRow /\ d.password = c.password /\ d.secret = c.secret BY <1>2 DEF AccountRow
<1>4. WithFactor(a, secret, step) = d BY DEF WithFactor, b, c
<1> QED BY <1>1, <1>2, <1>3, <1>4

LEMMA RowPassword ==
  ASSUME NEW a \in AccountRow, NEW password \in Nat, NEW mustChange \in BOOLEAN
  PROVE  /\ WithPassword(a, password, mustChange) \in AccountRow
         /\ WithPassword(a, password, mustChange).password = password
         /\ WithPassword(a, password, mustChange).secret = a.secret
<1> DEFINE b == [a EXCEPT !.password = password]
           c == [b EXCEPT !.mustChange = mustChange]
           d == [c EXCEPT !.failed = 0, !.lockedUntil = 0]
<1>1. b \in AccountRow /\ b.password = password /\ b.secret = a.secret BY DEF AccountRow
<1> HIDE DEF b
<1>2. c \in AccountRow /\ c.password = b.password /\ c.secret = b.secret BY <1>1 DEF AccountRow
<1> HIDE DEF c
<1>3. d \in AccountRow /\ d.password = c.password /\ d.secret = c.secret
  BY <1>2, RowCleared
<1>4. WithPassword(a, password, mustChange) = d BY DEF WithPassword, b, c
<1> QED BY <1>1, <1>2, <1>3, <1>4

LEMMA RowNew ==
  ASSUME NEW role \in USER_ROLES, NEW password \in Nat, NEW mustChange \in BOOLEAN, NEW secret \in Nat
  PROVE  Account(role, password, mustChange, secret) \in AccountRow
BY NoFailures DEF Account, AccountRow, NoFactor

-----------------------------------------------------------------------------
(* Signing in. *)

LEMMA AccountsAlone ==
  ASSUME AInv, UNCHANGED accounts
  PROVE  SameCredentials
BY DEF AInv, ATypeOK, SameCredentials, AccountsStay, Exists

LEMMA AccountUpdated ==
  ASSUME AInv, NEW u \in Users, NEW a \in AccountRow, Updates(u, a),
         Exists(u) => a.password = accounts[u].password /\ a.secret \in {NoFactor, accounts[u].secret}
  PROVE  SameCredentials
BY RowIsAccount DEF AInv, ATypeOK, SameCredentials, AccountsStay, Exists, Updates

LEMMA ReadKeeps ==
  ASSUME AInv, NEW r \in Requests, NEW u \in Users, NEW right \in BOOLEAN, LoginRead(r, u, right)
  PROVE  AInv'
<1> DEFINE step == IF ~right THEN "failed" ELSE IF accounts[u].secret # NoFactor THEN "code" ELSE "clear"
           q    == Attempt(u, step)
<1>1. accounts[u] \in AccountRow /\ accounts[u] # NoAccount
  BY DEF AInv, ATypeOK, LoginRead, Exists
<1>2. q \in SignIn
  BY <1>1 DEF Attempt, SignIn, AccountRow
<1>3. Refers(q)
  BY <1>1 DEF Refers, Attempt
<1>4. Becomes(r, q) /\ UNCHANGED <<now, sessions, tokens, jwts>> /\ UNCHANGED accounts
  BY DEF LoginRead
<1>5. operations' \in Nat BY DEF LoginRead, Begins, AInv, ATypeOK
<1>6. Carries(requests[r], q) BY DEF LoginRead, At, Carries
<1> HIDE DEF q
<1> QED BY <1>2, <1>3, <1>4, <1>5, <1>6, AccountsAlone, QuietStep DEF RequestType

LEMMA IdleRequest == Idle \in RequestType /\ Refers(Idle)
BY DEF RequestType, Idle, Refers

LEMMA FailsKeeps ==
  ASSUME AInv, NEW r \in Requests, LoginFails(r)
  PROVE  AInv'
<1> DEFINE u == requests[r].user
<1>1. u \in Users /\ Exists(u) /\ accounts[u] \in AccountRow
  BY UserExists DEF LoginFails, At
<1>2. now \in Nat /\ operations' \in Nat BY DEF AInv, ATypeOK, LoginFails
<1>3. Updates(u, RegisterFailure(accounts[u])) /\ Becomes(r, Idle)
      /\ UNCHANGED <<now, sessions, tokens, jwts>>
  BY DEF LoginFails, Ends
<1>4. Carries(requests[r], Idle) BY DEF LoginFails, At, Carries
<1> HIDE DEF u
<1>5. SameCredentials BY <1>1, <1>2, <1>3, RowFailure, AccountUpdated
<1> QED BY <1>2, <1>3, <1>4, <1>5, IdleRequest, QuietStep

LEMMA TakesCodeKeeps ==
  ASSUME AInv, NEW r \in Requests, NEW code \in Steps, LoginTakesCode(r, code)
  PROVE  AInv'
<1> DEFINE u == requests[r].user
           a == [accounts[u] EXCEPT !.lastStep = code]
           q == [requests[r] EXCEPT !.at = "clear"]
<1>1. u \in Users /\ Exists(u) /\ accounts[u] \in AccountRow
  BY UserExists DEF LoginTakesCode, At
<1>2. code \in Int /\ operations' \in Nat
  BY DEF AInv, ATypeOK, LoginTakesCode, Steps
<1>3. requests[r] \in SignIn BY AtSignIn DEF AInv, LoginTakesCode, At
<1>4. q \in SignIn /\ q.at = "clear" /\ q.user = u BY <1>3 DEF SignIn
<1>5. Refers(q) BY <1>1, <1>4 DEF Refers, Exists
<1>6. Updates(u, a) /\ Becomes(r, q) /\ UNCHANGED <<now, sessions, tokens, jwts>>
  BY DEF LoginTakesCode, Goes
<1>7. Carries(requests[r], q) BY DEF LoginTakesCode, At, Carries
<1>8. a \in AccountRow /\ a.password = accounts[u].password /\ a.secret = accounts[u].secret
  BY <1>1, <1>2, RowFields
<1> HIDE DEF u, a, q
<1>9. SameCredentials BY <1>1, <1>6, <1>8, AccountUpdated
<1> QED BY <1>2, <1>4, <1>5, <1>6, <1>7, <1>9, QuietStep DEF RequestType

LEMMA ClearsKeeps ==
  ASSUME AInv, NEW r \in Requests, LoginClears(r)
  PROVE  AInv'
<1> DEFINE u == requests[r].user
           a == [accounts[u] EXCEPT !.failed = 0, !.lockedUntil = 0]
           q == [requests[r] EXCEPT !.at = "open"]
<1>1. u \in Users /\ Exists(u) /\ accounts[u] \in AccountRow
  BY UserExists DEF LoginClears, At
<1>2. operations' \in Nat BY DEF AInv, ATypeOK, LoginClears
<1>3. requests[r] \in SignIn BY AtSignIn DEF AInv, LoginClears, At
<1>4. q \in SignIn /\ q.at = "open" /\ q.user = u BY <1>3 DEF SignIn
<1>5. Refers(q) BY <1>1, <1>4 DEF Refers, Exists
<1>6. Updates(u, a) /\ Becomes(r, q) /\ UNCHANGED <<now, sessions, tokens, jwts>>
  BY DEF LoginClears, Goes
<1>7. Carries(requests[r], q) BY DEF LoginClears, At, Carries
<1>8. a \in AccountRow /\ a.password = accounts[u].password /\ a.secret = accounts[u].secret
  BY <1>1, RowCleared
<1> HIDE DEF u, a, q
<1>9. SameCredentials BY <1>1, <1>6, <1>8, AccountUpdated
<1> QED BY <1>2, <1>4, <1>5, <1>6, <1>7, <1>9, QuietStep DEF RequestType

\* create_session for a sign-in that is through: it proves what it proved, or is late.
LEMMA OpensKeeps ==
  ASSUME AInv, NEW r \in Requests, LoginOpens(r)
  PROVE  AInv'
<1> DEFINE u     == requests[r].user
           proof == [password |-> requests[r].password, secret |-> requests[r].secret]
           row   == NewSession(u, proof, ~Proves(proof, accounts[u]))
           token == NewToken(Len(sessions) + 1, now + REFRESH_TTL_S)
           q     == [at |-> "answer", user |-> u, sid |-> Len(sessions) + 1, token |-> Len(tokens) + 1]
<1>1. ATypeOK /\ Settled /\ sessions \in Seq(SessionRow) /\ tokens \in Seq(TokenRow)
      /\ now \in Nat /\ now + REFRESH_TTL_S \in Nat
  BY SettingsAssumption DEF AInv, ATypeOK
<1>2. u \in Users /\ Exists(u) BY UserExists DEF LoginOpens, At
<1>3. requests[r] \in SignIn BY AtSignIn DEF AInv, LoginOpens, At
<1>4. proof \in Proof BY <1>3 DEF SignIn, Proof
<1>5. /\ row \in SessionRow /\ row.user = u /\ row.proof = proof
      /\ row.late = ~Proves(proof, accounts[u])
  BY <1>1, <1>2, <1>4 DEF NewSession, SessionRow
<1>6. token \in TokenRow /\ token.sid = Len(sessions) + 1
  BY <1>1 DEF NewToken, TokenRow
<1>7. q \in Answering /\ q.at = "answer" /\ q.user = u /\ q.sid = Len(sessions) + 1
  BY <1>1, <1>2 DEF Answering
<1>8. /\ sessions' = Append(sessions, row) /\ tokens' = Append(tokens, token)
      /\ Becomes(r, q) /\ UNCHANGED <<now, accounts, jwts, operations>>
  BY DEF LoginOpens
<1>9. Carries(requests[r], q) BY DEF LoginOpens, At, Carries
<1> HIDE DEF u, proof, row, token, q
<1>10. AccountsStay BY <1>8, AccountsAlone DEF SameCredentials, AInv
<1>11. /\ sessions' \in Seq(SessionRow) /\ DOMAIN sessions' = 1..(Len(sessions) + 1)
       /\ DOMAIN sessions = 1..Len(sessions) /\ Len(sessions) \in Nat
       /\ sessions'[Len(sessions) + 1] = row
       /\ \A s \in DOMAIN sessions : sessions'[s] = sessions[s]
  BY <1>1, <1>5, <1>8
<1>12. \A s \in DOMAIN sessions' : s \in DOMAIN sessions \/ s = Len(sessions) + 1 BY <1>11
<1>13. SessionsStay
  <2>1. \A s \in DOMAIN sessions : s \in DOMAIN sessions' BY <1>11
  <2>2. ASSUME NEW s \in DOMAIN sessions' PROVE accounts'[sessions'[s].user] # NoAccount
    BY <1>2, <1>5, <1>8, <1>11, <1>12, <1>1, SessionTyped DEF Exists
  <2> QED BY <1>11, <2>1, <2>2 DEF SessionsStay
<1>14. Settled'
  <2>1. ASSUME NEW s \in DOMAIN sessions', ~sessions'[s].revoked, sessions'[s].expires > now'
        PROVE  \/ sessions'[s].late
               \/ Proves(sessions'[s].proof, accounts'[sessions'[s].user])
               \/ WillEnd(s)'
    <3>1. CASE s = Len(sessions) + 1 BY <1>5, <1>8, <1>11, <3>1
    <3>2. CASE s \in DOMAIN sessions
      <4>1. sessions'[s] = sessions[s] /\ SessionActive(s)
        BY <1>8, <1>11, <2>1, <3>2 DEF SessionActive
      <4>2. CASE WillEnd(s)
        <5>1. \A p \in Requests : Carries(requests[p], requests'[p])
          BY <1>1, <1>7, <1>8, <1>9, CarriesOn DEF RequestType
        <5> QED BY <4>1, <4>2, <5>1, WillEndKept
      <4> QED BY <1>1, <1>8, <3>2, <4>1, <4>2 DEF Settled
    <3> QED BY <1>12, <3>1, <3>2
  <2> QED BY <2>1 DEF Settled, SessionActive
<1>15. RefersNext(q)
  <2>1. accounts'[u] # NoAccount BY <1>2, <1>8 DEF Exists
  <2>2. Len(sessions) + 1 \in DOMAIN sessions' BY <1>11
  <2> QED BY <1>5, <1>7, <1>11, <2>1, <2>2 DEF RefersNext
<1>16. tokens' \in Seq(TokenRow) /\ \A t \in DOMAIN tokens' : tokens'[t].sid \in DOMAIN sessions'
  <2>1. tokens' \in Seq(TokenRow) BY <1>1, <1>6, <1>8
  <2>2. ASSUME NEW t \in DOMAIN tokens' PROVE tokens'[t].sid \in DOMAIN sessions'
    <3>1. CASE t \in DOMAIN tokens
      <4>1. tokens'[t] = tokens[t] BY <1>1, <1>6, <1>8, <3>1
      <4>2. tokens[t].sid \in DOMAIN sessions BY <1>1, <3>1 DEF ATypeOK
      <4> QED BY <1>11, <4>1, <4>2
    <3>2. CASE t \notin DOMAIN tokens
      <4>1. tokens'[t] = token BY <1>1, <1>6, <1>8, <2>2, <3>2
      <4> QED BY <1>6, <1>11, <4>1
    <3> QED BY <3>1, <3>2
  <2> QED BY <2>1, <2>2
<1>17. jwts' \subseteq Jwt /\ \A j \in jwts' : j.sid \in DOMAIN sessions' /\ j.user = sessions'[j.sid].user
  BY <1>1, <1>8, <1>13, JwtsKept
<1>18. operations' \in Nat BY <1>1, <1>8 DEF ATypeOK
<1> QED BY <1>7, <1>8, <1>10, <1>13, <1>14, <1>15, <1>16, <1>17, <1>18, StepKeeps DEF RequestType

LEMMA AnswersKeeps ==
  ASSUME AInv, NEW r \in Requests, Answers(r)
  PROVE  AInv'
<1> DEFINE u == requests[r].user
           j == AccessToken(u, accounts[u].role, requests[r].sid)
<1>1. ATypeOK /\ Settled /\ now \in Nat /\ now' = now /\ operations' \in Nat
  BY DEF AInv, ATypeOK, Answers
<1>2. u \in Users /\ accounts[u] \in AccountRow BY UserExists DEF Answers, At
<1>3. requests[r] \in Answering BY <1>1, AtAnswering DEF Answers, At
<1>4. requests[r].sid \in DOMAIN sessions /\ sessions[requests[r].sid].user = u
  BY DEF AInv, Refers, Answers, At
<1>5. j \in Jwt /\ j.sid = requests[r].sid /\ j.user = u
  BY <1>1, <1>2, <1>3, SettingsAssumption DEF AccessToken, Jwt, AccountRow, Answering
<1>6. jwts' = jwts \cup {j} /\ Becomes(r, Idle) /\ UNCHANGED <<accounts, sessions, tokens>>
  BY DEF Answers, Ends
<1>7. Carries(requests[r], Idle) BY DEF Answers, At, Carries
<1> HIDE DEF u, j
<1>8. SameCredentials /\ AccountsStay BY <1>6, AccountsAlone DEF SameCredentials
<1>9. SessionsStay BY <1>1, <1>6, <1>8, SessionsUnchangedStay
<1>10. jwts' \subseteq Jwt /\ \A i \in jwts' : i.sid \in DOMAIN sessions' /\ i.user = sessions'[i.sid].user
  BY <1>1, <1>4, <1>5, <1>6 DEF ATypeOK
<1>11. NoneComesAlive BY <1>1, <1>6, SameSessions
<1>12. Settled' BY <1>1, <1>6, <1>7, <1>8, <1>11, IdleRequest, CarriesOn, SettledKept
<1>13. RefersNext(Idle) BY Labels DEF RefersNext
<1> QED BY <1>1, <1>6, <1>8, <1>9, <1>10, <1>12, <1>13, IdleRequest, TokensKept, StepKeeps

LEMMA StutterKeeps ==
  ASSUME AInv, UNCHANGED avars
  PROVE  AInv'
BY DEF avars, AInv, ATypeOK, Exists, Refers, Settled, SessionActive, Proves, WillEnd

LEMMA SignsInKeeps ==
  ASSUME AInv, NEW r \in Requests, SignsIn(r)
  PROVE  AInv'
<1>1. CASE LoginRefused(r)
  <2>1. UNCHANGED avars BY <1>1 DEF LoginRefused
  <2> QED BY <2>1, StutterKeeps
<1> QED BY <1>1, ReadKeeps, TakesCodeKeeps, FailsKeeps, ClearsKeeps, OpensKeeps, AnswersKeeps DEF SignsIn

-----------------------------------------------------------------------------
(* Renewing and ending sessions. *)

\* One session is ended; the threads are where they were, or one is done.
LEMMA RevokeSessionStays ==
  ASSUME ATypeOK, UNCHANGED <<now, accounts>>, NEW s \in DOMAIN sessions, RevokeSession(s)
  PROVE  SessionsStay /\ NoneComesAlive /\ SameCredentials
<1>1. sessions \in Seq(SessionRow) BY DEF ATypeOK
<1>2. [sessions[s] EXCEPT !.revoked = TRUE] \in SessionRow BY SessionTyped DEF SessionRow
<1>3. sessions' = [sessions EXCEPT ![s] = [sessions[s] EXCEPT !.revoked = TRUE]]
  BY DEF RevokeSession
<1>4. sessions' \in Seq(SessionRow) /\ DOMAIN sessions' = DOMAIN sessions
  BY <1>1, <1>2, <1>3
<1>5. ASSUME NEW t \in DOMAIN sessions
      PROVE  /\ sessions'[t].user = sessions[t].user /\ sessions'[t].late = sessions[t].late
             /\ sessions'[t].proof = sessions[t].proof /\ sessions'[t].expires = sessions[t].expires
             /\ ~sessions'[t].revoked => ~sessions[t].revoked
  <2>1. CASE t = s
    <3>1. sessions'[t] = [sessions[s] EXCEPT !.revoked = TRUE] BY <1>1, <1>3, <2>1
    <3> QED BY <2>1, <3>1, SessionTyped DEF SessionRow
  <2>2. CASE t # s
    <3>1. sessions'[t] = sessions[t] BY <1>1, <1>3, <2>2
    <3> QED BY <3>1
  <2> QED BY <2>1, <2>2
<1>6. SameCredentials
  BY DEF ATypeOK, SameCredentials, AccountsStay, Exists
<1>7. SessionsStay
  BY <1>4, <1>5, SessionTyped DEF SessionsStay, Exists
<1>8. NoneComesAlive
  BY <1>4, <1>5 DEF NoneComesAlive, SessionActive
<1> QED BY <1>6, <1>7, <1>8

LEMMA EndsSession ==
  ASSUME AInv, NEW s \in DOMAIN sessions, RevokeSession(s),
         UNCHANGED <<now, accounts, tokens, jwts, requests, operations>>
  PROVE  AInv'
<1>1. ATypeOK /\ Settled /\ \A p \in Requests : Refers(requests[p]) BY DEF AInv
<1>2. SessionsStay /\ NoneComesAlive /\ SameCredentials /\ AccountsStay
  BY <1>1, RevokeSessionStays DEF SameCredentials
<1>3. \A p \in Requests : requests'[p] = requests[p] /\ Carries(requests[p], requests'[p])
  BY DEF Carries
<1>4. Settled' BY <1>1, <1>2, <1>3, SettledKept
<1>5. \A p \in Requests : requests[p] \in RequestType BY <1>1 DEF ATypeOK, RequestType
<1>6. \A p \in Requests : RefersNext(requests[p]) BY <1>1, <1>2, <1>5, RefersStays
<1>7. \A p \in Requests : Refers(requests[p])' BY <1>3, <1>6 DEF Refers, RefersNext
<1>8. requests' \in [Requests -> RequestType] /\ now' \in Nat /\ operations' \in Nat
      /\ jwts' \subseteq jwts /\ tokens' = tokens
  BY <1>1 DEF ATypeOK, RequestType
<1>9. ATypeOK' BY <1>1, <1>2, <1>8, TypeKept, TokensKept, JwtsKept
<1> QED BY <1>4, <1>7, <1>9 DEF AInv

LEMMA ReusedKeeps ==
  ASSUME AInv, NEW t \in DOMAIN tokens, RefreshReused(t)
  PROVE  AInv'
<1>1. tokens[t].sid \in DOMAIN sessions BY DEF AInv, ATypeOK
<1> QED BY <1>1, EndsSession DEF RefreshReused

LEMMA LogoutKeeps ==
  ASSUME AInv, NEW s \in DOMAIN sessions, Logout(s)
  PROVE  AInv'
BY EndsSession DEF Logout

LEMMA DropsKeeps ==
  ASSUME AInv, NEW r \in Requests, RefreshDrops(r)
  PROVE  AInv'
<1> DEFINE s == requests[r].sid
<1>1. ATypeOK /\ Settled /\ operations' \in Nat /\ now' = now
  BY DEF AInv, ATypeOK, RefreshDrops
<1>2. s \in DOMAIN sessions BY DEF AInv, Refers, RefreshDrops, At
<1>3. RevokeSession(s) /\ Becomes(r, Idle) /\ UNCHANGED <<now, accounts, tokens, jwts>>
  BY DEF RefreshDrops, Ends
<1>4. Carries(requests[r], Idle) BY DEF RefreshDrops, At, Carries
<1> HIDE DEF s
<1>5. SessionsStay /\ NoneComesAlive /\ SameCredentials /\ AccountsStay
  BY <1>1, <1>2, <1>3, RevokeSessionStays DEF SameCredentials
<1>6. Settled' BY <1>1, <1>3, <1>4, <1>5, IdleRequest, CarriesOn, SettledKept
<1>7. RefersNext(Idle) BY Labels DEF RefersNext
<1>8. jwts' \subseteq jwts /\ tokens' = tokens BY <1>3
<1> QED BY <1>1, <1>3, <1>5, <1>6, <1>7, <1>8, IdleRequest, TokensKept, JwtsKept, StepKeeps

LEMMA FindsDisabledKeeps ==
  ASSUME AInv, NEW r \in Requests, RefreshFindsDisabled(r)
  PROVE  AInv'
<1> DEFINE q == [requests[r] EXCEPT !.at = "drop"]
<1>1. requests[r] \in Answering BY AtAnswering DEF AInv, RefreshFindsDisabled, At
<1>2. q \in Answering /\ q.at = "drop" /\ q.user = requests[r].user /\ q.sid = requests[r].sid
  BY <1>1 DEF Answering
<1>3. Refers(requests[r]) /\ requests[r].at = "renewed" BY DEF AInv, RefreshFindsDisabled, At
<1>4. Refers(q) BY <1>2, <1>3 DEF Refers
<1>5. Becomes(r, q) /\ UNCHANGED <<now, accounts, sessions, tokens, jwts>>
  BY DEF RefreshFindsDisabled, Goes
<1>6. operations' \in Nat BY DEF AInv, ATypeOK, RefreshFindsDisabled
<1> HIDE DEF q
<1>7. Carries(requests[r], q) BY <1>3 DEF Carries
<1> QED BY <1>2, <1>4, <1>5, <1>6, <1>7, AccountsAlone, QuietStep DEF RequestType

LEMMA TokenRows ==
  ASSUME NEW token \in TokenRow, now \in Nat
  PROVE  MarkUsed(token) \in TokenRow /\ MarkUsed(token).sid = token.sid
<1> DEFINE b == [token EXCEPT !.used = TRUE]
           c == [b EXCEPT !.usedAt = IF token.used THEN token.usedAt ELSE now]
           d == [c EXCEPT !.first = IF token.used THEN token.first ELSE now]
           e == [d EXCEPT !.last = now]
<1>1. token.first \in Nat /\ token.usedAt \in Nat BY DEF TokenRow
<1>2. b \in TokenRow /\ b.sid = token.sid BY DEF TokenRow
<1> HIDE DEF b
<1>3. c \in TokenRow /\ c.sid = token.sid BY <1>1, <1>2 DEF TokenRow
<1> HIDE DEF c
<1>4. d \in TokenRow /\ d.sid = token.sid BY <1>1, <1>3 DEF TokenRow
<1> HIDE DEF d
<1>5. e \in TokenRow /\ e.sid = token.sid BY <1>4 DEF TokenRow
<1>6. MarkUsed(token) = e BY DEF MarkUsed, b, c, d
<1> QED BY <1>5, <1>6

LEMMA RotatesKeeps ==
  ASSUME AInv, NEW r \in Requests, NEW t \in DOMAIN tokens, RefreshRotates(r, t)
  PROVE  AInv'
<1> DEFINE s     == tokens[t].sid
           token == NewToken(s, sessions[s].expires)
           q     == [at |-> "renewed", user |-> sessions[s].user, sid |-> s, token |-> Len(tokens) + 1]
<1>1. ATypeOK /\ Settled /\ now \in Nat /\ now' = now /\ operations' \in Nat /\ tokens \in Seq(TokenRow)
  BY DEF AInv, ATypeOK, RefreshRotates, Begins
<1>2. s \in DOMAIN sessions /\ s \in Nat /\ sessions[s] \in SessionRow /\ sessions[s].user \in Users
      /\ Exists(sessions[s].user)
  <2>1. s \in DOMAIN sessions BY <1>1 DEF ATypeOK
  <2> QED BY <1>1, <2>1, SessionTyped
<1>3. token \in TokenRow /\ token.sid = s BY <1>2 DEF NewToken, TokenRow, SessionRow
<1>4. q \in Answering /\ q.at = "renewed" /\ q.user = sessions[s].user /\ q.sid = s
  BY <1>1, <1>2 DEF Answering
<1>5. Refers(q) BY <1>2, <1>4 DEF Refers, Exists
<1>6. /\ tokens' = Append([tokens EXCEPT ![t] = MarkUsed(tokens[t])], token)
      /\ Becomes(r, q) /\ UNCHANGED <<accounts, sessions, jwts>>
  BY DEF RefreshRotates
<1>7. Carries(requests[r], q) BY DEF RefreshRotates, At, Carries
<1> HIDE DEF s, token, q
<1>8. SameCredentials /\ AccountsStay BY <1>6, AccountsAlone DEF SameCredentials
<1>9. SessionsStay BY <1>1, <1>6, <1>8, SessionsUnchangedStay
<1>10. NoneComesAlive BY <1>1, <1>6, SameSessions
<1>11. Settled' BY <1>1, <1>4, <1>6, <1>7, <1>8, <1>10, CarriesOn, SettledKept DEF RequestType
<1>12. RefersNext(q) BY <1>1, <1>4, <1>5, <1>8, <1>9, RefersStays DEF RequestType
<1>13. tokens' \in Seq(TokenRow) /\ \A i \in DOMAIN tokens' : tokens'[i].sid \in DOMAIN sessions'
  <2> DEFINE marked == [tokens EXCEPT ![t] = MarkUsed(tokens[t])]
  <2>1. MarkUsed(tokens[t]) \in TokenRow /\ MarkUsed(tokens[t]).sid = tokens[t].sid
    BY <1>1, TokenRows
  <2>2. /\ marked \in Seq(TokenRow) /\ DOMAIN marked = DOMAIN tokens
        /\ \A i \in DOMAIN tokens : marked[i] = IF i = t THEN MarkUsed(tokens[t]) ELSE tokens[i]
    BY <1>1, <2>1
  <2> HIDE DEF marked
  <2>3. \A i \in DOMAIN marked : marked[i].sid \in DOMAIN sessions
    BY <1>1, <2>1, <2>2 DEF ATypeOK
  <2>4. tokens' = Append(marked, token) BY <1>6 DEF marked
  <2>5. /\ tokens' \in Seq(TokenRow)
        /\ \A i \in DOMAIN tokens' : (i \in DOMAIN marked /\ tokens'[i] = marked[i]) \/ tokens'[i] = token
    BY <1>3, <2>2, <2>4
  <2>6. s \in DOMAIN sessions' BY <1>2, <1>6
  <2> QED BY <1>3, <1>6, <2>3, <2>5, <2>6
<1>14. jwts' \subseteq jwts BY <1>6
<1> QED BY <1>1, <1>4, <1>6, <1>8, <1>9, <1>11, <1>12, <1>13, <1>14, JwtsKept, StepKeeps DEF RequestType

LEMMA RenewsKeeps ==
  ASSUME AInv, NEW r \in Requests, Renews(r)
  PROVE  AInv'
BY RotatesKeeps, FindsDisabledKeeps, DropsKeeps DEF Renews

-----------------------------------------------------------------------------
(* Requests of a user. *)

LEMMA ArrivesKeeps ==
  ASSUME AInv, NEW r \in Requests, NEW j \in jwts, Arrives(r, j)
  PROVE  AInv'
<1> DEFINE q == [at |-> "session", user |-> j.user, role |-> j.role, sid |-> j.sid,
                 mustChange |-> accounts[j.user].mustChange, ended |-> ~SessionActive(j.sid)]
<1>1. j \in Jwt /\ j.sid \in DOMAIN sessions /\ j.user = sessions[j.sid].user
      /\ operations' \in Nat
  BY DEF AInv, ATypeOK, Arrives
<1>2. j.user \in Users /\ Exists(j.user) BY <1>1, SessionTyped DEF AInv
<1>3. accounts[j.user] \in AccountRow BY <1>2 DEF AInv, ATypeOK, Exists
<1>4. accounts[j.user].mustChange \in BOOLEAN BY <1>3 DEF AccountRow
<1>5. j.role \in USER_ROLES /\ j.sid \in Nat BY <1>1 DEF Jwt
<1>6. q \in Principal /\ q.at = "session" /\ q.user = j.user /\ q.sid = j.sid
  BY <1>2, <1>4, <1>5 DEF Principal
<1>7. Refers(q) BY <1>1, <1>2, <1>6 DEF Refers, Exists
<1>8. Becomes(r, q) /\ UNCHANGED <<now, accounts, sessions, tokens, jwts>> BY DEF Arrives
<1>9. Carries(requests[r], q) BY DEF Arrives, At, Carries
<1> HIDE DEF q
<1> QED BY <1>1, <1>6, <1>7, <1>8, <1>9, AccountsAlone, QuietStep DEF RequestType

LEMMA AdmittedKeeps ==
  ASSUME AInv, NEW r \in Requests, Admitted(r)
  PROVE  AInv'
<1> DEFINE q == [requests[r] EXCEPT !.at = "admitted"]
<1>1. requests[r] \in Principal BY AtPrincipal DEF AInv, Admitted, At
<1>2. q \in Principal /\ q.at = "admitted" /\ q.user = requests[r].user /\ q.sid = requests[r].sid
  BY <1>1 DEF Principal
<1>3. Refers(requests[r]) /\ requests[r].at = "session" BY DEF AInv, Admitted, At
<1>4. Refers(q) BY <1>2, <1>3 DEF Refers
<1>5. Becomes(r, q) /\ UNCHANGED <<now, accounts, sessions, tokens, jwts>> BY DEF Admitted, Goes
<1>6. operations' \in Nat BY DEF AInv, ATypeOK, Admitted
<1> HIDE DEF q
<1>7. Carries(requests[r], q) BY <1>3 DEF Carries
<1> QED BY <1>2, <1>4, <1>5, <1>6, <1>7, AccountsAlone, QuietStep DEF RequestType

\* Whatever ends without having changed anything.
LEMMA EndsKeeps ==
  ASSUME AInv, NEW r \in Requests, ~(requests[r].at \in {"clear factor", "revoke"}), Ends(r),
         UNCHANGED <<now, accounts, sessions, tokens, jwts, operations>>
  PROVE  AInv'
<1>1. operations' \in Nat BY DEF AInv, ATypeOK
<1>2. Carries(requests[r], Idle) BY DEF Carries
<1> QED BY <1>1, <1>2, AccountsAlone, IdleRequest, QuietStep DEF Ends

\* Whatever an admitted request goes on to do that it has only read for.
LEMMA GoesOn ==
  ASSUME AInv, NEW r \in Requests, At(r, "admitted"), NEW q \in RequestType, Becomes(r, q),
         Refers(q), Begins, UNCHANGED <<now, accounts, sessions, tokens, jwts>>
  PROVE  AInv'
<1>1. operations' \in Nat BY DEF AInv, ATypeOK, Begins
<1>2. Carries(requests[r], q) BY DEF Carries, At
<1> QED BY <1>1, <1>2, AccountsAlone, QuietStep

LEMMA AdmittedRefers ==
  ASSUME AInv, NEW r \in Requests, At(r, "admitted")
  PROVE  /\ requests[r].user \in Users /\ Exists(requests[r].user)
         /\ accounts[requests[r].user] \in AccountRow
         /\ requests[r].sid \in DOMAIN sessions /\ requests[r].sid \in Nat
         /\ sessions[requests[r].sid].user = requests[r].user
         /\ operations + 1 \in Nat
<1>1. requests[r].at # "idle" BY DEF At
<1>2. requests[r].sid \in DOMAIN sessions /\ sessions[requests[r].sid].user = requests[r].user
  BY DEF AInv, Refers, At
<1>3. requests[r].sid \in Nat BY <1>2, SessionTyped DEF AInv
<1>4. operations + 1 \in Nat BY DEF AInv, ATypeOK
<1> QED BY <1>1, <1>2, <1>3, <1>4, UserExists

LEMMA VerifiesKeeps ==
  ASSUME AInv, NEW r \in Requests, PasswordVerify(r) \/ MfaSetup(r)
  PROVE  AInv'
<1>1. PICK step \in {"new password", "set up"} :
        At(r, "admitted") /\ Change(r, step, requests[r].user, requests[r].sid)
  BY DEF PasswordVerify, MfaSetup
<1> DEFINE q == [at |-> step, user |-> requests[r].user, keep |-> requests[r].sid,
                 number |-> operations + 1]
<1>2. q \in [at : {"new password", "set up"}, user : Users, keep : Nat, number : Nat]
  BY <1>1, AdmittedRefers
<1>3. q.at = step /\ q.user = requests[r].user /\ q.keep = requests[r].sid OBVIOUS
<1>4. Becomes(r, q) /\ Begins /\ UNCHANGED <<now, accounts, sessions, tokens, jwts>>
  BY <1>1 DEF Change
<1> HIDE DEF q
<1>5. Refers(q) BY <1>1, <1>3, AdmittedRefers DEF Refers, Exists
<1>6. q \in RequestType BY <1>2 DEF RequestType, Changing
<1> QED BY <1>1, <1>4, <1>5, <1>6, GoesOn

LEMMA EnableKeeps ==
  ASSUME AInv, NEW r \in Requests, NEW code \in Steps, MfaEnable(r, code)
  PROVE  AInv'
<1> DEFINE q == [at |-> "enable", user |-> requests[r].user, keep |-> requests[r].sid,
                 secret |-> Own(r).pending, code |-> code]
<1>1. At(r, "admitted") /\ Becomes(r, q) /\ Begins /\ UNCHANGED <<now, accounts, sessions, tokens, jwts>>
  BY DEF MfaEnable
<1>2. Own(r).pending \in Nat BY <1>1, AdmittedRefers DEF Own, AccountRow
<1>3. code \in Int BY DEF AInv, ATypeOK, Steps
<1>4. q \in [at : {"enable"}, user : Users, keep : Nat, secret : Nat, code : Int]
  BY <1>1, <1>2, <1>3, AdmittedRefers
<1>5. q.at = "enable" /\ q.user = requests[r].user /\ q.keep = requests[r].sid OBVIOUS
<1> HIDE DEF q
<1>6. Refers(q) BY <1>1, <1>5, AdmittedRefers DEF Refers, Exists
<1>7. q \in RequestType BY <1>4 DEF RequestType, Changing
<1> QED BY <1>1, <1>6, <1>7, GoesOn

LEMMA DisableKeeps ==
  ASSUME AInv, NEW r \in Requests, MfaDisable(r)
  PROVE  AInv'
<1> DEFINE q == [at |-> "disable", user |-> requests[r].user, lastStep |-> Own(r).lastStep]
<1>1. At(r, "admitted") /\ Becomes(r, q) /\ Begins /\ UNCHANGED <<now, accounts, sessions, tokens, jwts>>
  BY DEF MfaDisable
<1>2. Own(r).lastStep \in Int BY <1>1, AdmittedRefers DEF Own, AccountRow
<1>3. q \in [at : {"disable"}, user : Users, lastStep : Int] BY <1>1, <1>2, AdmittedRefers
<1>4. q.at = "disable" /\ q.user = requests[r].user OBVIOUS
<1> HIDE DEF q
<1>5. Refers(q) BY <1>1, <1>4, AdmittedRefers DEF Refers, Exists
<1>6. q \in RequestType BY <1>3 DEF RequestType, Changing
<1> QED BY <1>1, <1>5, <1>6, GoesOn

\* An account is written, its credentials stay or a factor goes, and the request ends.
LEMMA WritesAndEnds ==
  ASSUME AInv, NEW r \in Requests, NEW a \in AccountRow, At(r, "set up") \/ At(r, "disable"),
         Updates(requests[r].user, a), Ends(r), UNCHANGED <<now, sessions, tokens, jwts, operations>>,
         a.password = accounts[requests[r].user].password,
         a.secret \in {NoFactor, accounts[requests[r].user].secret}
  PROVE  AInv'
<1>1. requests[r].user \in Users BY UserExists DEF At
<1>2. SameCredentials BY <1>1, AccountUpdated
<1>3. operations' \in Nat BY DEF AInv, ATypeOK
<1>4. Carries(requests[r], Idle) BY DEF Carries, At
<1> QED BY <1>2, <1>3, <1>4, IdleRequest, QuietStep DEF Ends

LEMMA PendingKeeps ==
  ASSUME AInv, NEW r \in Requests, MfaPending(r)
  PROVE  AInv'
<1>1. requests[r] \in Changing BY AtChanging DEF AInv, MfaPending, At
<1>2. requests[r].at = "set up" BY DEF MfaPending, At
<1>3. requests[r].number \in Nat BY <1>1, <1>2, AtLabel
<1>4. accounts[requests[r].user] \in AccountRow BY <1>2, UserExists
<1> QED BY <1>2, <1>3, <1>4, RowFields, WritesAndEnds DEF MfaPending

LEMMA DisabledKeeps ==
  ASSUME AInv, NEW r \in Requests, NEW code \in Steps, MfaDisabled(r, code)
  PROVE  AInv'
<1> DEFINE a == WithFactor(accounts[requests[r].user], NoFactor, -1)
<1>1. requests[r].at = "disable" BY DEF MfaDisabled, At
<1>2. accounts[requests[r].user] \in AccountRow BY <1>1, UserExists
<1>3. NoFactor \in Nat /\ -1 \in Int BY DEF NoFactor
<1>4. a \in AccountRow /\ a.password = accounts[requests[r].user].password /\ a.secret = NoFactor
  BY <1>2, <1>3, RowFactor
<1>5. Updates(requests[r].user, a) /\ At(r, "disable") /\ Ends(r)
      /\ UNCHANGED <<now, sessions, tokens, jwts, operations>>
  BY DEF MfaDisabled, WithFactor
<1> HIDE DEF a
<1> QED BY <1>4, <1>5, WritesAndEnds

\* A session comes to prove something else; nothing else of it changes.
LEMMA ProofReplaced ==
  ASSUME ATypeOK, AccountsStay, now' = now, NEW s \in DOMAIN sessions, NEW proof \in Proof,
         sessions' = [sessions EXCEPT ![s] = [sessions[s] EXCEPT !.proof = proof]]
  PROVE  /\ SessionsStay /\ DOMAIN sessions' = DOMAIN sessions /\ sessions'[s].proof = proof
         /\ \A t \in DOMAIN sessions :
              /\ sessions'[t].user = sessions[t].user /\ sessions'[t].late = sessions[t].late
              /\ ~sessions'[t].revoked /\ sessions'[t].expires > now' => SessionActive(t)
              /\ t # s => sessions'[t].proof = sessions[t].proof
<1> DEFINE row == [sessions[s] EXCEPT !.proof = proof]
<1>1. sessions \in Seq(SessionRow) BY DEF ATypeOK
<1>2. /\ row \in SessionRow /\ row.user = sessions[s].user /\ row.late = sessions[s].late
      /\ row.revoked = sessions[s].revoked /\ row.expires = sessions[s].expires
      /\ row.proof = proof
  BY SessionTyped DEF SessionRow
<1>3. sessions' = [sessions EXCEPT ![s] = row] OBVIOUS
<1> HIDE DEF row
<1>4. /\ sessions' \in Seq(SessionRow) /\ DOMAIN sessions' = DOMAIN sessions
      /\ sessions'[s] = row /\ \A t \in DOMAIN sessions : t # s => sessions'[t] = sessions[t]
  BY <1>1, <1>2, <1>3
<1>5. ASSUME NEW t \in DOMAIN sessions
      PROVE  /\ sessions'[t].user = sessions[t].user /\ sessions'[t].late = sessions[t].late
             /\ ~sessions'[t].revoked /\ sessions'[t].expires > now' => SessionActive(t)
             /\ t # s => sessions'[t].proof = sessions[t].proof
  <2>1. CASE t = s BY <1>2, <1>4, <2>1 DEF SessionActive
  <2>2. CASE t # s
    <3>1. sessions'[t] = sessions[t] BY <1>4, <2>2
    <3> QED BY <3>1 DEF SessionActive
  <2> QED BY <2>1, <2>2
<1>6. SessionsStay
  <2>1. ASSUME NEW t \in DOMAIN sessions PROVE accounts'[sessions'[t].user] # NoAccount
    BY <1>5, SessionTyped DEF AccountsStay
  <2> QED BY <1>4, <1>5, <2>1 DEF SessionsStay
<1> QED BY <1>2, <1>4, <1>5, <1>6

\* A thread replaces a password or a factor from a session, goes on to end the others,
\* and leaves that one with what it proved, the new one included.
LEMMA Replaces ==
  ASSUME AInv, NEW r \in Requests, requests[r].at \in {"new password", "enable"},
         NEW a \in AccountRow, Updates(requests[r].user, a), GoesOnToRevoke(r),
         NEW proof \in Proof,
         sessions' = [sessions EXCEPT ![requests[r].keep] =
                        [sessions[requests[r].keep] EXCEPT !.proof = proof]],
         Proves(sessions[requests[r].keep].proof, accounts[requests[r].user]) => Proves(proof, a),
         UNCHANGED <<now, tokens, jwts, operations>>
  PROVE  AInv'
<1> DEFINE u == requests[r].user
           k == requests[r].keep
           q == [at |-> "revoke", user |-> u, keep |-> k]
<1>1. ATypeOK /\ Settled /\ operations' \in Nat BY DEF AInv, ATypeOK
<1>2. u \in Users /\ Exists(u) BY UserExists
<1>3. k \in DOMAIN sessions /\ sessions[k].user = u BY DEF AInv, Refers
<1>4. k \in Nat BY <1>1, <1>3, SessionTyped
<1>5. q \in [at : {"revoke"}, user : Users, keep : Nat] /\ q.at = "revoke" /\ q.user = u /\ q.keep = k
  BY <1>2, <1>4
<1>6. Becomes(r, q) /\ accounts' = [accounts EXCEPT ![u] = a] BY DEF GoesOnToRevoke, Updates
<1>7. ~(requests[r].at \in {"clear factor", "revoke"}) OBVIOUS
<1>8. /\ sessions' = [sessions EXCEPT ![k] = [sessions[k] EXCEPT !.proof = proof]]
      /\ Proves(sessions[k].proof, accounts[u]) => Proves(proof, a)
  OBVIOUS
<1> HIDE DEF u, k, q
<1>9. q \in RequestType BY <1>5 DEF RequestType, Changing
<1>10. /\ \A v \in Users : v # u => accounts'[v] = accounts[v]
       /\ accounts'[u] = a /\ AccountsStay
  BY <1>1, <1>2, <1>6, RowIsAccount DEF ATypeOK, AccountsStay, Exists
<1>11. /\ SessionsStay /\ DOMAIN sessions' = DOMAIN sessions /\ sessions'[k].proof = proof
       /\ \A t \in DOMAIN sessions :
            /\ sessions'[t].user = sessions[t].user /\ sessions'[t].late = sessions[t].late
            /\ ~sessions'[t].revoked /\ sessions'[t].expires > now' => SessionActive(t)
            /\ t # k => sessions'[t].proof = sessions[t].proof
  BY <1>1, <1>3, <1>8, <1>10, ProofReplaced
<1>12. requests'[r] = q /\ \A p \in Requests : Carries(requests[p], requests'[p])
  <2>1. Carries(requests[r], q) BY <1>7 DEF Carries
  <2> QED BY <1>1, <1>6, <1>9, <2>1, CarriesOn DEF ATypeOK, Becomes
<1>13. ASSUME NEW s \in DOMAIN sessions', ~sessions'[s].revoked, sessions'[s].expires > now'
       PROVE  \/ sessions'[s].late
              \/ Proves(sessions'[s].proof, accounts'[sessions'[s].user])
              \/ WillEnd(s)'
  <2>1. s \in DOMAIN sessions /\ SessionActive(s) /\ sessions'[s].user = sessions[s].user
        /\ sessions'[s].late = sessions[s].late
    BY <1>11, <1>13
  <2>2. CASE WillEnd(s) BY <1>12, <2>1, <2>2, WillEndKept
  <2>3. CASE sessions[s].user = u /\ s # k
    <3>1. /\ requests'[r].at \in {"clear factor", "revoke"}
          /\ requests'[r].user = sessions'[s].user /\ requests'[r].keep # s
      BY <1>5, <1>12, <2>1, <2>3
    <3> QED BY <3>1 DEF WillEnd
  <2>4. CASE sessions[s].user # u
    <3>1. accounts'[sessions[s].user] = accounts[sessions[s].user] /\ s # k
      BY <1>1, <1>3, <1>10, <2>1, <2>4, SessionTyped
    <3> QED BY <1>1, <1>11, <2>1, <2>2, <3>1 DEF Settled
  <2>5. CASE s = k
    BY <1>1, <1>3, <1>8, <1>10, <1>11, <2>1, <2>2, <2>5 DEF Settled
  <2> QED BY <2>3, <2>4, <2>5
<1>14. Settled' BY <1>13 DEF Settled, SessionActive
<1>15. RefersNext(q) BY <1>1, <1>2, <1>5, <1>10 DEF RefersNext, AccountsStay
<1>16. now' = now /\ tokens' = tokens /\ jwts' \subseteq jwts OBVIOUS
<1> QED BY <1>1, <1>6, <1>9, <1>10, <1>11, <1>14, <1>15, <1>16, TokensKept, JwtsKept, StepKeeps

LEMMA PasswordSetKeeps ==
  ASSUME AInv, NEW r \in Requests, PasswordSet(r)
  PROVE  AInv'
<1> DEFINE u == requests[r].user
           k == requests[r].keep
           n == requests[r].number
           a == WithPassword(accounts[u], n, FALSE)
           proof == [sessions[k].proof EXCEPT !.password = n]
<1>1. requests[r] \in Changing BY AtChanging DEF AInv, PasswordSet, At
<1>2. requests[r].at = "new password" BY DEF PasswordSet, At
<1>3. n \in Nat BY <1>1, <1>2, AtLabel
<1>4. u \in Users /\ accounts[u] \in AccountRow BY <1>2, UserExists
<1>5. a \in AccountRow /\ a.password = n /\ a.secret = accounts[u].secret BY <1>3, <1>4, RowPassword
<1>6. k \in DOMAIN sessions BY <1>2 DEF AInv, Refers
<1>7. sessions[k] \in SessionRow /\ sessions[k].proof \in Proof BY <1>6, SessionTyped DEF AInv
<1>8. proof \in Proof /\ proof.password = n /\ proof.secret = sessions[k].proof.secret
  BY <1>3, <1>7 DEF Proof
<1>9. sessions' = [sessions EXCEPT ![k] = [sessions[k] EXCEPT !.proof = proof]]
  BY DEF PasswordSet
<1>10. Proves(sessions[k].proof, accounts[u]) => Proves(proof, a) BY <1>5, <1>8 DEF Proves
<1>11. Updates(u, a) /\ GoesOnToRevoke(r) /\ UNCHANGED <<now, tokens, jwts, operations>>
  BY DEF PasswordSet
<1> HIDE DEF a, proof
<1> QED BY <1>2, <1>5, <1>8, <1>9, <1>10, <1>11, Replaces

LEMMA EnabledKeeps ==
  ASSUME AInv, NEW r \in Requests, MfaEnabled(r)
  PROVE  AInv'
<1> DEFINE u == requests[r].user
           k == requests[r].keep
           n == requests[r].secret
           a == WithFactor(accounts[u], n, requests[r].code)
           proof == [sessions[k].proof EXCEPT !.secret = n]
<1>1. requests[r] \in Changing BY AtChanging DEF AInv, MfaEnabled, At
<1>2. requests[r].at = "enable" BY DEF MfaEnabled, At
<1>3. n \in Nat /\ requests[r].code \in Int BY <1>1, <1>2, AtLabel
<1>4. u \in Users /\ accounts[u] \in AccountRow BY <1>2, UserExists
<1>5. a \in AccountRow /\ a.password = accounts[u].password /\ a.secret = n
  BY <1>3, <1>4, RowFactor
<1>6. k \in DOMAIN sessions BY <1>2 DEF AInv, Refers
<1>7. sessions[k] \in SessionRow /\ sessions[k].proof \in Proof BY <1>6, SessionTyped DEF AInv
<1>8. proof \in Proof /\ proof.password = sessions[k].proof.password /\ proof.secret = n
  BY <1>3, <1>7 DEF Proof
<1>9. sessions' = [sessions EXCEPT ![k] = [sessions[k] EXCEPT !.proof = proof]]
  BY DEF MfaEnabled
<1>10. Proves(sessions[k].proof, accounts[u]) => Proves(proof, a) BY <1>5, <1>8 DEF Proves
<1>11. Updates(u, a) /\ GoesOnToRevoke(r) /\ UNCHANGED <<now, tokens, jwts, operations>>
  BY DEF MfaEnabled, WithFactor
<1> HIDE DEF a, proof
<1> QED BY <1>2, <1>5, <1>8, <1>9, <1>10, <1>11, Replaces

\* revoke_user_sessions: what is left alive is not what this thread was to end.
LEMMA RevokesKeeps ==
  ASSUME AInv, NEW r \in Requests, RevokesSessions(r)
  PROVE  AInv'
<1> DEFINE u == requests[r].user
           k == requests[r].keep
<1>1. ATypeOK /\ Settled /\ operations' \in Nat /\ now' = now /\ sessions \in Seq(SessionRow)
  BY DEF AInv, ATypeOK, RevokesSessions
<1>2. requests[r].at = "revoke" /\ Becomes(r, Idle) /\ sessions' = Revoked(u, k)
      /\ UNCHANGED <<accounts, tokens, jwts>>
  BY DEF RevokesSessions, At, Ends
<1>3. SameCredentials /\ AccountsStay BY <1>2, AccountsAlone DEF SameCredentials
<1>4. /\ DOMAIN sessions' = DOMAIN sessions
      /\ \A s \in DOMAIN sessions :
           sessions'[s] = IF sessions[s].user = u /\ s # k
                            THEN [sessions[s] EXCEPT !.revoked = TRUE] ELSE sessions[s]
  BY <1>2 DEF Revoked
<1>5. ASSUME NEW s \in DOMAIN sessions
      PROVE  /\ sessions'[s] \in SessionRow /\ sessions'[s].user = sessions[s].user
             /\ ~sessions'[s].revoked => ~(sessions[s].user = u /\ s # k) /\ sessions'[s] = sessions[s]
  <2>1. sessions[s] \in SessionRow BY <1>1, SessionTyped
  <2>2. CASE sessions[s].user = u /\ s # k
    <3>1. sessions'[s] = [sessions[s] EXCEPT !.revoked = TRUE] BY <1>4, <2>2
    <3> QED BY <2>1, <3>1 DEF SessionRow
  <2>3. CASE ~(sessions[s].user = u /\ s # k)
    <3>1. sessions'[s] = sessions[s] BY <1>4, <2>3
    <3> QED BY <2>1, <2>3, <3>1
  <2> QED BY <2>2, <2>3
<1>6. SessionsStay
  <2>1. sessions' \in Seq(SessionRow)
    <3>1. sessions' = [s \in 1..Len(sessions) |-> sessions'[s]] /\ Len(sessions) \in Nat
          /\ DOMAIN sessions = 1..Len(sessions)
      BY <1>1, <1>2 DEF Revoked
    <3> QED BY <1>5, <3>1
  <2>2. \A s \in DOMAIN sessions : accounts'[sessions[s].user] # NoAccount
    BY <1>1, <1>3, SessionTyped DEF AccountsStay
  <2> QED BY <1>4, <1>5, <2>1, <2>2 DEF SessionsStay
<1>7. ASSUME NEW s \in DOMAIN sessions', ~sessions'[s].revoked, sessions'[s].expires > now'
      PROVE  \/ sessions'[s].late
             \/ Proves(sessions'[s].proof, accounts'[sessions'[s].user])
             \/ WillEnd(s)'
  <2>1. s \in DOMAIN sessions /\ sessions'[s] = sessions[s] /\ SessionActive(s)
        /\ ~(sessions[s].user = u /\ s # k)
    BY <1>1, <1>4, <1>5, <1>7 DEF SessionActive
  <2>2. CASE WillEnd(s)
    <3>1. PICK p \in Requests : /\ requests[p].at \in {"clear factor", "revoke"}
                                /\ requests[p].user = sessions[s].user
                                /\ requests[p].keep # s
      BY <2>2 DEF WillEnd
    <3>2. p # r BY <2>1, <3>1
    <3>3. requests'[p] = requests[p] BY <1>1, <1>2, <3>2 DEF ATypeOK, Becomes
    <3> QED BY <2>1, <3>1, <3>3 DEF WillEnd
  <2> QED BY <1>1, <1>2, <2>1, <2>2 DEF Settled
<1>8. Settled' BY <1>7 DEF Settled, SessionActive
<1>9. RefersNext(Idle) BY Labels DEF RefersNext
<1>10. jwts' \subseteq jwts /\ tokens' = tokens BY <1>2
<1> QED BY <1>1, <1>2, <1>3, <1>6, <1>8, <1>9, <1>10, IdleRequest, TokensKept, JwtsKept, StepKeeps

LEMMA ActsAsUserKeeps ==
  ASSUME AInv, NEW r \in Requests, ActsAsUser(r)
  PROVE  AInv'
<1>1. CASE Leaves(r)
  BY <1>1, EndsKeeps DEF Leaves, At
<1>2. CASE MfaStays(r)
  BY <1>2, EndsKeeps DEF MfaStays, At
<1> QED BY <1>1, <1>2, ArrivesKeeps, AdmittedKeeps, VerifiesKeeps, PasswordSetKeeps, RevokesKeeps,
           PendingKeeps, EnabledKeeps, DisableKeeps, EnableKeeps, DisabledKeeps
    DEF ActsAsUser

-----------------------------------------------------------------------------
(* Administration. *)

\* An account is created where there was none.
LEMMA CreateKeeps ==
  ASSUME AInv, NEW r \in Requests, NEW u \in Users, NEW role \in USER_ROLES,
         CreateUser(r, u, role)
  PROVE  AInv'
<1> DEFINE a == Account(role, operations + 1, TRUE, NoFactor)
<1>1. operations + 1 \in Nat /\ operations' \in Nat /\ NoFactor \in Nat /\ TRUE \in BOOLEAN
  BY DEF AInv, ATypeOK, CreateUser, Begins, NoFactor
<1>2. a \in AccountRow BY <1>1, RowNew
<1>3. Updates(u, a) /\ ~Exists(u) /\ Becomes(r, Idle) /\ UNCHANGED <<now, sessions, tokens, jwts>>
  BY DEF CreateUser, Ends
<1>4. Carries(requests[r], Idle) BY DEF CreateUser, OrgAdmin, At, Carries
<1> HIDE DEF a
<1>5. SameCredentials BY <1>2, <1>3, AccountUpdated
<1> QED BY <1>1, <1>3, <1>4, <1>5, IdleRequest, QuietStep

LEMMA CliCreateKeeps ==
  ASSUME AInv, NEW r \in Requests, NEW u \in Users, NEW role \in USER_ROLES,
         NEW mustChange \in BOOLEAN, CliCreateUser(r, u, role, mustChange)
  PROVE  AInv'
<1> DEFINE a == Account(role, operations + 1, mustChange, NoFactor)
<1>1. operations + 1 \in Nat /\ operations' \in Nat /\ NoFactor \in Nat
  BY DEF AInv, ATypeOK, CliCreateUser, Begins, NoFactor
<1>2. a \in AccountRow BY <1>1, RowNew
<1>3. Updates(u, a) /\ ~Exists(u) /\ UNCHANGED <<now, sessions, tokens, jwts, requests>>
  BY DEF CliCreateUser
<1>4. Becomes(r, requests[r]) /\ requests[r] \in RequestType /\ Refers(requests[r])
  BY <1>3 DEF AInv, ATypeOK, Becomes, RequestType
<1>5. Carries(requests[r], requests[r]) BY DEF Carries
<1> HIDE DEF a
<1>6. SameCredentials BY <1>2, <1>3, AccountUpdated
<1> QED BY <1>1, <1>3, <1>4, <1>5, <1>6, QuietStep

\* What is only read for, by an official or from the command line.
LEMMA AdminGoesOn ==
  ASSUME AInv, NEW r \in Requests, At(r, "admitted") \/ At(r, "idle"), NEW q \in RequestType,
         Becomes(r, q), Refers(q), Begins, UNCHANGED <<now, accounts, sessions, tokens, jwts>>
  PROVE  AInv'
<1>1. operations' \in Nat BY DEF AInv, ATypeOK, Begins
<1>2. Carries(requests[r], q) BY DEF Carries, At
<1> QED BY <1>1, <1>2, AccountsAlone, QuietStep

LEMMA UpdateActiveKeeps ==
  ASSUME AInv, NEW r \in Requests, NEW u \in Users, NEW value \in BOOLEAN,
         UpdateUser(r, u, "active", value)
  PROVE  AInv'
<1> DEFINE q == [at |-> "active", user |-> u, keep |-> 0, value |-> value,
                 revoke |-> ~Harmless(u, "active", value)]
<1>1. /\ At(r, "admitted") /\ Exists(u) /\ Becomes(r, q) /\ Begins
      /\ UNCHANGED <<now, accounts, sessions, tokens, jwts>>
  BY DEF UpdateUser, OrgAdmin, Member
<1>2. (~Harmless(u, "active", value)) \in BOOLEAN BY DEF Harmless
<1>3. q \in [at : {"active"}, user : Users, keep : Nat, value : BOOLEAN, revoke : BOOLEAN]
  BY <1>2
<1>4. q.at = "active" /\ q.user = u OBVIOUS
<1> HIDE DEF q
<1>5. Refers(q) BY <1>1, <1>4 DEF Refers, Exists
<1>6. q \in RequestType BY <1>3 DEF RequestType, Changing
<1> QED BY <1>1, <1>5, <1>6, AdminGoesOn

LEMMA UpdateRoleKeeps ==
  ASSUME AInv, NEW r \in Requests, NEW u \in Users, NEW value \in USER_ROLES,
         UpdateUser(r, u, "role", value)
  PROVE  AInv'
<1> DEFINE q == [at |-> "role", user |-> u, keep |-> 0, value |-> value,
                 revoke |-> ~Harmless(u, "role", value)]
<1>1. /\ At(r, "admitted") /\ Exists(u) /\ Becomes(r, q) /\ Begins
      /\ UNCHANGED <<now, accounts, sessions, tokens, jwts>>
  BY DEF UpdateUser, OrgAdmin, Member
<1>2. (~Harmless(u, "role", value)) \in BOOLEAN BY DEF Harmless
<1>3. q \in [at : {"role"}, user : Users, keep : Nat, value : USER_ROLES, revoke : BOOLEAN]
  BY <1>2
<1>4. q.at = "role" /\ q.user = u OBVIOUS
<1> HIDE DEF q
<1>5. Refers(q) BY <1>1, <1>4 DEF Refers, Exists
<1>6. q \in RequestType BY <1>3 DEF RequestType, Changing
<1> QED BY <1>1, <1>5, <1>6, AdminGoesOn

LEMMA ResetKeeps ==
  ASSUME AInv, NEW r \in Requests, NEW u \in Users, ResetUser(r, u) \/ CliResetUser(r, u)
  PROVE  AInv'
<1>1. PICK cli \in BOOLEAN :
        /\ At(r, "admitted") \/ At(r, "idle")
        /\ Exists(u)
        /\ Becomes(r, [at |-> "reset", user |-> u, keep |-> 0, number |-> operations + 1, cli |-> cli])
        /\ Begins
        /\ UNCHANGED <<now, accounts, sessions, tokens, jwts>>
  BY DEF ResetUser, CliResetUser, OrgAdmin, Member
<1> DEFINE q == [at |-> "reset", user |-> u, keep |-> 0, number |-> operations + 1, cli |-> cli]
<1>2. operations + 1 \in Nat BY DEF AInv, ATypeOK
<1>3. q \in [at : {"reset"}, user : Users, keep : Nat, number : Nat, cli : BOOLEAN] BY <1>2
<1>4. q.at = "reset" /\ q.user = u /\ q.keep = 0 OBVIOUS
<1>5. Becomes(r, q) BY <1>1
<1> HIDE DEF q
<1>6. Refers(q) BY <1>1, <1>4 DEF Refers, Exists
<1>7. q \in RequestType BY <1>3 DEF RequestType, Changing
<1> QED BY <1>1, <1>5, <1>6, <1>7, AdminGoesOn

\* What a request becomes that goes on to end sessions.
LEMMA RevokeRequest ==
  ASSUME NEW u \in Users, Exists(u), NEW k \in Nat
  PROVE  /\ [at |-> "revoke", user |-> u, keep |-> k] \in RequestType
         /\ Refers([at |-> "revoke", user |-> u, keep |-> k])
<1> DEFINE q == [at |-> "revoke", user |-> u, keep |-> k]
<1>1. q \in [at : {"revoke"}, user : Users, keep : Nat] /\ q.at = "revoke" /\ q.user = u OBVIOUS
<1> HIDE DEF q
<1>2. q \in RequestType BY <1>1 DEF RequestType, Changing
<1>3. Refers(q) BY <1>1 DEF Refers, Exists
<1> QED BY <1>2, <1>3 DEF q

LEMMA UpdatesKeeps ==
  ASSUME AInv, NEW r \in Requests, UpdatesUser(r)
  PROVE  AInv'
<1> DEFINE u == requests[r].user
<1>1. requests[r].at \in {"active", "role"} BY DEF UpdatesUser, At
<1>2. requests[r] \in Changing BY <1>1, AtChanging DEF AInv
<1>3. requests[r].keep \in Nat BY <1>1, <1>2, AtLabel
<1>4. u \in Users /\ Exists(u) /\ accounts[u] \in AccountRow BY <1>1, UserExists
<1>5. SameCredentials
  <2>1. CASE At(r, "active")
    <3> DEFINE a == [accounts[u] EXCEPT !.active = requests[r].value]
    <3>1. requests[r].value \in BOOLEAN BY <1>2, <2>1, AtLabel DEF At
    <3>2. a \in AccountRow /\ a.password = accounts[u].password /\ a.secret = accounts[u].secret
      BY <1>4, <3>1, RowFields
    <3>3. Updates(u, a) BY <2>1 DEF UpdatesUser, At
    <3> HIDE DEF a, u
    <3> QED BY <1>4, <3>2, <3>3, AccountUpdated
  <2>2. CASE At(r, "role")
    <3> DEFINE a == [accounts[u] EXCEPT !.role = requests[r].value]
    <3>1. requests[r].value \in USER_ROLES BY <1>2, <2>2, AtLabel DEF At
    <3>2. a \in AccountRow /\ a.password = accounts[u].password /\ a.secret = accounts[u].secret
      BY <1>4, <3>1, RowFields
    <3>3. Updates(u, a) BY <2>2 DEF UpdatesUser, At
    <3> HIDE DEF a, u
    <3> QED BY <1>4, <3>2, <3>3, AccountUpdated
  <2> QED BY <2>1, <2>2 DEF UpdatesUser
<1>6. operations' \in Nat /\ UNCHANGED <<now, sessions, tokens, jwts>>
  BY DEF AInv, ATypeOK, UpdatesUser
<1>7. GoesOnToRevoke(r) \/ Ends(r) BY DEF UpdatesUser
<1>8. CASE GoesOnToRevoke(r)
  <2> DEFINE q == [at |-> "revoke", user |-> u, keep |-> requests[r].keep]
  <2>1. q \in RequestType /\ Refers(q) BY <1>3, <1>4, RevokeRequest
  <2>2. Carries(requests[r], q) BY <1>1 DEF Carries
  <2>3. Becomes(r, q) BY <1>8 DEF GoesOnToRevoke
  <2> HIDE DEF q
  <2> QED BY <1>5, <1>6, <2>1, <2>2, <2>3, QuietStep
<1>9. CASE Ends(r)
  <2>1. Carries(requests[r], Idle) BY <1>1 DEF Carries
  <2> QED BY <1>5, <1>6, <1>9, <2>1, IdleRequest, QuietStep DEF Ends
<1> QED BY <1>7, <1>8, <1>9

LEMMA ClearsFactorKeeps ==
  ASSUME AInv, NEW r \in Requests, ClearsFactor(r)
  PROVE  AInv'
<1> DEFINE u      == requests[r].user
           active == requests[r].cli \/ accounts[u].active
           b      == WithFactor(accounts[u], NoFactor, -1)
           a      == [b EXCEPT !.active = active]
           q      == [at |-> "revoke", user |-> u, keep |-> requests[r].keep]
<1>1. requests[r].at = "clear factor" BY DEF ClearsFactor, At
<1>2. requests[r] \in Changing BY <1>1, AtChanging DEF AInv
<1>3. requests[r].keep \in Nat BY <1>1, <1>2, AtLabel
<1>4. u \in Users /\ Exists(u) /\ accounts[u] \in AccountRow BY <1>1, UserExists
<1>5. NoFactor \in Nat /\ -1 \in Int /\ active \in BOOLEAN BY DEF NoFactor
<1>6. b \in AccountRow /\ b.password = accounts[u].password /\ b.secret = NoFactor
  BY <1>4, <1>5, RowFactor
<1>7. Updates(u, a) BY DEF ClearsFactor, WithFactor
<1>8. q \in RequestType /\ Refers(q) BY <1>3, <1>4, RevokeRequest
<1>9. Carries(requests[r], q) BY DEF Carries
<1>10. Becomes(r, q) /\ UNCHANGED <<now, sessions, tokens, jwts>> /\ operations' \in Nat
  BY DEF AInv, ATypeOK, ClearsFactor, GoesOnToRevoke
<1> HIDE DEF u, active, b, q
<1>11. a \in AccountRow /\ a.password = b.password /\ a.secret = b.secret BY <1>5, <1>6, RowFields
<1> HIDE DEF a
<1>12. SameCredentials BY <1>4, <1>6, <1>7, <1>11, AccountUpdated
<1> QED BY <1>8, <1>9, <1>10, <1>12, QuietStep

\* reset_user: with the new password comes the thread that will end every session.
LEMMA ResetsPasswordKeeps ==
  ASSUME AInv, NEW r \in Requests, ResetsPassword(r)
  PROVE  AInv'
<1> DEFINE u == requests[r].user
           a == WithPassword(accounts[u], requests[r].number, TRUE)
           q == [at |-> "clear factor", user |-> u, keep |-> requests[r].keep, cli |-> requests[r].cli]
<1>1. ATypeOK /\ Settled /\ operations' \in Nat /\ now' = now /\ now \in Nat
  BY DEF AInv, ATypeOK, ResetsPassword
<1>2. requests[r].at = "reset" BY DEF ResetsPassword, At
<1>3. requests[r] \in Changing BY <1>1, <1>2, AtChanging
<1>4. requests[r].number \in Nat /\ requests[r].cli \in BOOLEAN BY <1>2, <1>3, AtLabel
<1>5. requests[r].keep = 0 BY <1>2 DEF AInv, Refers
<1>6. u \in Users /\ Exists(u) /\ accounts[u] \in AccountRow BY <1>2, UserExists
<1>7. a \in AccountRow BY <1>4, <1>6, RowPassword
<1>8. q \in [at : {"clear factor"}, user : Users, keep : Nat, cli : BOOLEAN]
      /\ q.at = "clear factor" /\ q.user = u /\ q.keep = 0
  BY <1>4, <1>5, <1>6
<1>9. Updates(u, a) /\ Becomes(r, q) /\ UNCHANGED <<now, sessions, tokens, jwts>>
  BY DEF ResetsPassword
<1> HIDE DEF u, a, q
<1>10. q \in RequestType BY <1>8 DEF RequestType, Changing
<1>11. Refers(q) BY <1>6, <1>8 DEF Refers, Exists
<1>12. /\ \A v \in Users : v # u => accounts'[v] = accounts[v]
       /\ AccountsStay
  BY <1>1, <1>6, <1>7, <1>9, RowIsAccount DEF ATypeOK, AccountsStay, Exists, Updates
<1>13. SessionsStay BY <1>1, <1>9, <1>12, SessionsUnchangedStay
<1>14. RefersNext(q) BY <1>1, <1>10, <1>11, <1>12, <1>13, RefersStays
<1>15. requests'[r] = q BY <1>1, <1>9 DEF ATypeOK, Becomes
<1>16. \A p \in Requests : Carries(requests[p], requests'[p])
  <2>1. Carries(requests[r], q) BY <1>2 DEF Carries
  <2> QED BY <1>1, <1>9, <1>10, <2>1, CarriesOn
<1>17. ASSUME NEW s \in DOMAIN sessions', ~sessions'[s].revoked, sessions'[s].expires > now'
       PROVE  \/ sessions'[s].late
              \/ Proves(sessions'[s].proof, accounts'[sessions'[s].user])
              \/ WillEnd(s)'
  <2>1. s \in DOMAIN sessions /\ SessionActive(s) /\ sessions'[s] = sessions[s]
    BY <1>9, <1>17 DEF SessionActive
  <2>2. sessions[s].user \in Users /\ s # 0 BY <1>1, <2>1, SessionTyped
  <2>3. CASE sessions[s].user = u
    <3>1. /\ requests'[r].at \in {"clear factor", "revoke"}
          /\ requests'[r].user = sessions'[s].user /\ requests'[r].keep # s
      BY <1>8, <1>15, <2>1, <2>2, <2>3
    <3> QED BY <3>1 DEF WillEnd
  <2>4. CASE sessions[s].user # u
    <3>1. accounts'[sessions[s].user] = accounts[sessions[s].user] BY <1>12, <2>2, <2>4
    <3>2. CASE WillEnd(s) BY <1>16, <2>1, <3>2, WillEndKept
    <3> QED BY <1>1, <2>1, <3>1, <3>2 DEF Settled
  <2> QED BY <2>3, <2>4
<1>18. Settled' BY <1>17 DEF Settled, SessionActive
<1>19. jwts' \subseteq jwts /\ tokens' = tokens BY <1>9
<1> QED BY <1>1, <1>9, <1>10, <1>12, <1>13, <1>14, <1>18, <1>19, TokensKept, JwtsKept, StepKeeps

LEMMA AdministersKeeps ==
  ASSUME AInv, NEW r \in Requests, Administers(r)
  PROVE  AInv'
<1>1. \A u \in Users, role \in USER_ROLES : CliSeedUser(r, u, role) => CliCreateUser(r, u, role, TRUE)
  BY DEF CliSeedUser
<1> QED BY <1>1, CreateKeeps, CliCreateKeeps, UpdateActiveKeeps, UpdateRoleKeeps, ResetKeeps,
           UpdatesKeeps, ResetsPasswordKeeps, ClearsFactorKeeps
    DEF Administers

-----------------------------------------------------------------------------
(* Time, and all together. *)

LEMMA TickKeeps ==
  ASSUME AInv, Tick
  PROVE  AInv'
<1>1. ATypeOK /\ Settled /\ \A p \in Requests : Refers(requests[p]) BY DEF AInv
<1>2. now' \in Nat /\ now' >= now BY <1>1 DEF ATypeOK, Tick
<1>3. UNCHANGED <<accounts, sessions, tokens, requests, operations>> /\ jwts' \subseteq jwts
  BY DEF Tick
<1>4. SameCredentials /\ AccountsStay BY <1>3, AccountsAlone DEF SameCredentials
<1>5. SessionsStay BY <1>1, <1>3, <1>4, SessionsUnchangedStay
<1>6. NoneComesAlive BY <1>1, <1>2, <1>3, SameSessions
<1>7. \A p \in Requests : Carries(requests[p], requests'[p]) BY <1>3 DEF Carries
<1>8. Settled' BY <1>1, <1>4, <1>6, <1>7, SettledKept
<1>9. \A p \in Requests : Refers(requests[p])' BY <1>1, <1>3 DEF Refers
<1>10. requests' \in [Requests -> RequestType] /\ operations' \in Nat
  BY <1>1, <1>3 DEF ATypeOK, RequestType
<1>11. ATypeOK' BY <1>1, <1>2, <1>3, <1>4, <1>5, <1>10, TypeKept, TokensKept, JwtsKept
<1> QED BY <1>8, <1>9, <1>11 DEF AInv

LEMMA StepInvariant ==
  ASSUME AInv, [ANext]_avars
  PROVE  AInv'
BY SignsInKeeps, RenewsKeeps, ActsAsUserKeeps, AdministersKeeps, ReusedKeeps, LogoutKeeps,
   TickKeeps, StutterKeeps DEF ANext

LEMMA Initially ==
  ASSUME AInit
  PROVE  AInv
<1> DEFINE secret(u) == Enrolment(Enrolled, u)
<1>1. SignedIn \in Seq(DOMAIN Staff) /\ DOMAIN Staff \subseteq Users
      /\ \A u \in DOMAIN Staff : Staff[u] \in USER_ROLES
  BY StaffAssumption
<1>2. \A u : secret(u) \in Nat BY DEF Enrolment, NoFactor
<1>3. /\ now = 0 /\ operations = 1 /\ requests = [r \in Requests |-> Idle]
      /\ accounts = [u \in Users |->
           IF u \in DOMAIN Staff THEN Account(Staff[u], 0, FALSE, secret(u)) ELSE NoAccount]
      /\ sessions = [s \in DOMAIN SignedIn |->
           NewSession(SignedIn[s], [password |-> 0, secret |-> secret(SignedIn[s])], FALSE)]
      /\ tokens = [s \in DOMAIN SignedIn |-> NewToken(s, REFRESH_TTL_S)]
      /\ jwts = {AccessToken(SignedIn[s], Staff[SignedIn[s]], s) : s \in DOMAIN SignedIn}
  BY DEF AInit, Starts
<1>4. DOMAIN SignedIn = 1..Len(SignedIn) /\ Len(SignedIn) \in Nat
      /\ \A s \in DOMAIN SignedIn : SignedIn[s] \in DOMAIN Staff /\ SignedIn[s] \in Users
  BY <1>1
<1>5. REFRESH_TTL_S \in Nat /\ ACCESS_TTL_S \in Nat BY SettingsAssumption
<1> HIDE DEF secret
<1>6. \A u \in DOMAIN Staff : /\ accounts[u] \in AccountRow /\ accounts[u] # NoAccount
                              /\ accounts[u].password = 0 /\ accounts[u].secret = secret(u)
  <2> TAKE u \in DOMAIN Staff
  <2>1. accounts[u] = Account(Staff[u], 0, FALSE, secret(u)) BY <1>1, <1>3
  <2>2. accounts[u] \in AccountRow BY <1>1, <1>2, <2>1, RowNew
  <2>3. accounts[u].password = 0 /\ accounts[u].secret = secret(u) BY <2>1 DEF Account
  <2> QED BY <2>2, <2>3, RowIsAccount
<1>7. accounts \in [Users -> AccountRow \cup {NoAccount}] BY <1>3, <1>6
<1>8. \A s \in DOMAIN SignedIn :
        /\ sessions[s] \in SessionRow /\ sessions[s].user = SignedIn[s]
        /\ sessions[s].proof.password = 0 /\ sessions[s].proof.secret = secret(SignedIn[s])
  <2> TAKE s \in DOMAIN SignedIn
  <2> DEFINE proof == [password |-> 0, secret |-> secret(SignedIn[s])]
  <2>1. proof \in Proof /\ proof.password = 0 /\ proof.secret = secret(SignedIn[s])
    BY <1>2 DEF Proof
  <2>2. sessions[s] = NewSession(SignedIn[s], proof, FALSE) BY <1>3
  <2>3. now + REFRESH_TTL_S \in Nat BY <1>3, <1>5
  <2> HIDE DEF proof
  <2>4. /\ sessions[s] \in SessionRow /\ sessions[s].user = SignedIn[s]
        /\ sessions[s].proof = proof
    BY <1>4, <2>1, <2>2, <2>3 DEF NewSession, SessionRow
  <2> QED BY <2>1, <2>4
<1>9. sessions \in Seq(SessionRow) /\ DOMAIN sessions = DOMAIN SignedIn
  <2>1. sessions = [s \in 1..Len(SignedIn) |-> sessions[s]] /\ DOMAIN sessions = DOMAIN SignedIn
    BY <1>3, <1>4
  <2>2. \A s \in 1..Len(SignedIn) : sessions[s] \in SessionRow BY <1>4, <1>8
  <2> HIDE <1>8
  <2> QED BY <1>4, <2>1, <2>2
<1>10. tokens \in Seq(TokenRow) /\ DOMAIN tokens = DOMAIN SignedIn
       /\ \A t \in DOMAIN tokens : tokens[t].sid = t
  <2>1. \A s \in DOMAIN SignedIn : NewToken(s, REFRESH_TTL_S) \in TokenRow
                                   /\ NewToken(s, REFRESH_TTL_S).sid = s
    BY <1>4, <1>5 DEF NewToken, TokenRow
  <2> QED BY <1>3, <1>4, <2>1
<1>11. \A j \in jwts : j \in Jwt /\ j.sid \in DOMAIN sessions /\ j.user = sessions[j.sid].user
  <2> TAKE j \in jwts
  <2>1. PICK s \in DOMAIN SignedIn : j = AccessToken(SignedIn[s], Staff[SignedIn[s]], s)
    BY <1>3
  <2>2. j \in Jwt /\ j.sid = s /\ j.user = SignedIn[s]
    BY <1>1, <1>3, <1>4, <1>5, <2>1 DEF AccessToken, Jwt
  <2> QED BY <1>8, <1>9, <2>2
<1>12. ATypeOK
  BY <1>3, <1>4, <1>6, <1>7, <1>8, <1>9, <1>10, <1>11 DEF ATypeOK, Exists
<1>13. Settled
  <2> SUFFICES ASSUME NEW s \in DOMAIN sessions
               PROVE  Proves(sessions[s].proof, accounts[sessions[s].user])
    BY DEF Settled
  <2>1. s \in DOMAIN SignedIn /\ SignedIn[s] \in DOMAIN Staff BY <1>4, <1>9
  <2>2. /\ sessions[s].proof.password = 0
        /\ sessions[s].proof.secret = secret(SignedIn[s]) /\ sessions[s].user = SignedIn[s]
    BY <1>8, <2>1
  <2>3. accounts[SignedIn[s]].password = 0 /\ accounts[SignedIn[s]].secret = secret(SignedIn[s])
    BY <1>6, <2>1
  <2> QED BY <2>2, <2>3 DEF Proves
<1>14. \A r \in Requests : Refers(requests[r]) BY <1>3, IdleRequest
<1> QED BY <1>12, <1>13, <1>14 DEF AInv

\* The tables, the tokens and what every thread keeps are as the handlers expect
\* them, for any users, threads, settings and times.
THEOREM SessionsAreTyped == ASpec => []ATypeOK
<1>1. AInit => AInv BY Initially
<1>2. AInv /\ [ANext]_avars => AInv' BY StepInvariant
<1>3. AInv => ATypeOK BY DEF AInv
<1> QED BY <1>1, <1>2, <1>3, PTL DEF ASpec

\* change_password, mfa_enable and reset_user leave no session alive that was
\* opened with what they replaced, whatever else happens between their calls of
\* the store: until they have ended it they are about to.
THEOREM CredentialChangesEndSessions == ASpec => []LiveSessionsProveCredentials
<1>1. AInit => AInv BY Initially
<1>2. AInv /\ [ANext]_avars => AInv' BY StepInvariant
<1>3. AInv => LiveSessionsProveCredentials
  BY DEF AInv, Settled, LiveSessionsProveCredentials, WillEnd, Ending
<1> QED BY <1>1, <1>2, <1>3, PTL DEF ASpec

-----------------------------------------------------------------------------
(* Refresh tokens. *)

\* usedAt is the first time a token was honoured, and the last is within the grace.
Fits(token) ==
  IF token.used THEN token.first = token.usedAt /\ token.last - token.first <= REFRESH_REUSE_GRACE_S
                ELSE token.first = 0 /\ token.last = 0

TokensFit == \A t \in DOMAIN tokens : Fits(tokens[t])

LEMMA NewFits ==
  ASSUME NEW s \in Nat, NEW expires \in Nat
  PROVE  NewToken(s, expires) \in TokenRow /\ Fits(NewToken(s, expires))
BY DEF NewToken, TokenRow, Fits

LEMMA MarkedFits ==
  ASSUME NEW token \in TokenRow, now \in Nat, Fits(token),
         ~(token.used /\ now - token.usedAt > REFRESH_REUSE_GRACE_S)
  PROVE  Fits(MarkUsed(token))
<1> DEFINE b == [token EXCEPT !.used = TRUE]
           c == [b EXCEPT !.usedAt = IF token.used THEN token.usedAt ELSE now]
           d == [c EXCEPT !.first = IF token.used THEN token.first ELSE now]
           e == [d EXCEPT !.last = now]
<1>1. token.first \in Nat /\ token.usedAt \in Nat BY DEF TokenRow
<1>2. REFRESH_REUSE_GRACE_S \in Nat BY SettingsAssumption
<1>3. b \in TokenRow /\ b.used = TRUE BY DEF TokenRow
<1> HIDE DEF b
<1>4. c \in TokenRow /\ c.used = TRUE /\ c.usedAt = IF token.used THEN token.usedAt ELSE now
  BY <1>1, <1>3 DEF TokenRow
<1> HIDE DEF c
<1>5. d \in TokenRow /\ d.used = TRUE /\ d.usedAt = c.usedAt
      /\ d.first = IF token.used THEN token.first ELSE now
  BY <1>1, <1>4 DEF TokenRow
<1> HIDE DEF d
<1>6. e.used = TRUE /\ e.usedAt = d.usedAt /\ e.first = d.first /\ e.last = now
  BY <1>5 DEF TokenRow
<1>7. MarkUsed(token) = e BY DEF MarkUsed, b, c, d
<1> HIDE DEF e
<1>8. e.last - e.first <= REFRESH_REUSE_GRACE_S /\ e.first = e.usedAt
  BY <1>1, <1>2, <1>4, <1>5, <1>6 DEF Fits
<1> QED BY <1>6, <1>7, <1>8 DEF Fits

LEMMA AppendFits ==
  ASSUME NEW rows \in Seq(TokenRow), NEW token \in TokenRow, Fits(token),
         \A i \in DOMAIN rows : Fits(rows[i]), tokens' = Append(rows, token)
  PROVE  TokensFit'
<1>1. \A i \in DOMAIN tokens' : (i \in DOMAIN rows /\ tokens'[i] = rows[i]) \/ tokens'[i] = token
  OBVIOUS
<1>2. \A i \in DOMAIN tokens' : Fits(tokens'[i]) BY <1>1
<1> QED BY <1>2 DEF TokensFit, Fits

LEMMA OpensFits ==
  ASSUME AInv, TokensFit, NEW r \in Requests, LoginOpens(r)
  PROVE  TokensFit'
<1>1. /\ tokens \in Seq(TokenRow) /\ Len(sessions) + 1 \in Nat /\ now + REFRESH_TTL_S \in Nat
      /\ tokens' = Append(tokens, NewToken(Len(sessions) + 1, now + REFRESH_TTL_S))
  BY SettingsAssumption DEF AInv, ATypeOK, LoginOpens
<1> QED BY <1>1, NewFits, AppendFits DEF TokensFit

LEMMA RotatesFits ==
  ASSUME AInv, TokensFit, NEW r \in Requests, NEW t \in DOMAIN tokens, RefreshRotates(r, t)
  PROVE  TokensFit'
<1> DEFINE s      == tokens[t].sid
           marked == [tokens EXCEPT ![t] = MarkUsed(tokens[t])]
<1>1. ATypeOK /\ now \in Nat /\ tokens \in Seq(TokenRow) /\ tokens[t] \in TokenRow /\ s \in DOMAIN sessions
  BY DEF AInv, ATypeOK
<1>2. s \in Nat /\ sessions[s] \in SessionRow BY <1>1, SessionTyped
<1>3. sessions[s].expires \in Nat BY <1>2 DEF SessionRow
<1>4. MarkUsed(tokens[t]) \in TokenRow BY <1>1, TokenRows
<1>5. Fits(MarkUsed(tokens[t])) BY <1>1, MarkedFits DEF TokensFit, RefreshRotates, Reused
<1>6. /\ marked \in Seq(TokenRow) /\ DOMAIN marked = DOMAIN tokens
      /\ \A i \in DOMAIN tokens : marked[i] = IF i = t THEN MarkUsed(tokens[t]) ELSE tokens[i]
  BY <1>1, <1>4
<1>7. tokens' = Append(marked, NewToken(s, sessions[s].expires)) BY DEF RefreshRotates
<1> HIDE DEF s, marked
<1>8. \A i \in DOMAIN marked : Fits(marked[i]) BY <1>5, <1>6 DEF TokensFit
<1> QED BY <1>2, <1>3, <1>6, <1>7, <1>8, NewFits, AppendFits

LEMMA TokensAlone ==
  ASSUME TokensFit, UNCHANGED tokens
  PROVE  TokensFit'
BY DEF TokensFit, Fits

LEMMA StepFits ==
  ASSUME AInv, TokensFit, [ANext]_avars
  PROVE  TokensFit'
<1>1. ASSUME NEW r \in Requests, SignsIn(r) PROVE TokensFit'
  BY <1>1, OpensFits, TokensAlone
  DEF SignsIn, LoginRead, LoginTakesCode, LoginRefused, LoginFails, LoginClears, Answers, avars
<1>2. ASSUME NEW r \in Requests, Renews(r) PROVE TokensFit'
  BY <1>2, RotatesFits, TokensAlone DEF Renews, RefreshFindsDisabled, RefreshDrops
<1>3. ASSUME NEW r \in Requests, ActsAsUser(r) PROVE UNCHANGED tokens
  BY <1>3 DEF ActsAsUser, Arrives, Admitted, Leaves, PasswordVerify, Change, PasswordSet,
              RevokesSessions, MfaSetup, MfaPending, MfaEnable, MfaEnabled, MfaDisable,
              MfaDisabled, MfaStays
<1>4. ASSUME NEW r \in Requests, Administers(r) PROVE UNCHANGED tokens
  BY <1>4 DEF Administers, CreateUser, CliCreateUser, CliSeedUser, UpdateUser, UpdatesUser,
              ResetUser, CliResetUser, ResetsPassword, ClearsFactor
<1>5. CASE \/ \E t \in DOMAIN tokens : RefreshReused(t)
           \/ \E s \in DOMAIN sessions : Logout(s)
           \/ Tick
           \/ UNCHANGED avars
  BY <1>5, TokensAlone DEF RefreshReused, Logout, Tick, avars
<1> QED BY <1>1, <1>2, <1>3, <1>4, <1>5, TokensAlone DEF ANext

\* A rotated refresh token is honoured within the grace of its first use and never
\* after, for any grace, any number of tabs and any order of their requests.
THEOREM GraceIsFromFirstUse == ASpec => []GraceDoesNotSlide
<1>1. AInit => AInv /\ TokensFit
  <2> SUFFICES ASSUME AInit PROVE TokensFit BY Initially
  <2>1. tokens = [s \in DOMAIN SignedIn |-> NewToken(s, REFRESH_TTL_S)] BY DEF AInit, Starts
  <2>2. \A s \in DOMAIN SignedIn : tokens[s].used = FALSE /\ tokens[s].first = 0 /\ tokens[s].last = 0
    BY <2>1 DEF NewToken
  <2> QED BY <2>1, <2>2 DEF TokensFit, Fits
<1>2. AInv /\ TokensFit /\ [ANext]_avars => (AInv /\ TokensFit)' BY StepInvariant, StepFits
<1>3. AInv /\ TokensFit => GraceDoesNotSlide
  BY SettingsAssumption DEF TokensFit, Fits, GraceDoesNotSlide
<1> QED BY <1>1, <1>2, <1>3, PTL DEF ASpec

-----------------------------------------------------------------------------
(* Sessions that are over. *)

\* SessionActive, of the next state.
ActiveNext(s) == ~sessions'[s].revoked /\ sessions'[s].expires > now'

\* A session that is over stays over.
StaysOver == \A s \in DOMAIN sessions : ActiveNext(s) => SessionActive(s)

\* What a request whose session was over when it came may be at.
Bars(q) ==
  /\ q.at = "session" => (q.ended => ~SessionActive(q.sid))
  /\ q.at = "admitted" => ~q.ended

EndedAreBarred == \A r \in Requests : Bars(requests[r])

LEMMA SameStaysOver ==
  ASSUME ATypeOK, now' \in Nat, now' >= now, UNCHANGED sessions
  PROVE  StaysOver
<1>1. NoneComesAlive BY SameSessions
<1> QED BY <1>1 DEF StaysOver, ActiveNext, NoneComesAlive

LEMMA EndedStaysOver ==
  ASSUME AInv, NEW s \in DOMAIN sessions, RevokeSession(s), now' = now
  PROVE  StaysOver
<1>1. sessions \in Seq(SessionRow) BY DEF AInv, ATypeOK
<1>2. ASSUME NEW t \in DOMAIN sessions
      PROVE  sessions'[t].expires = sessions[t].expires /\ (~sessions'[t].revoked => ~sessions[t].revoked)
  <2>1. CASE t = s
    <3>1. sessions'[t] = [sessions[s] EXCEPT !.revoked = TRUE] BY <1>1, <2>1 DEF RevokeSession
    <3> QED BY <2>1, <3>1, SessionTyped DEF AInv, SessionRow
  <2>2. CASE t # s
    <3>1. sessions'[t] = sessions[t] BY <1>1, <2>2 DEF RevokeSession
    <3> QED BY <3>1
  <2> QED BY <2>1, <2>2
<1> QED BY <1>2 DEF StaysOver, ActiveNext, SessionActive

LEMMA ProofStaysOver ==
  ASSUME AInv, NEW k \in DOMAIN sessions, NEW proof, now' = now,
         sessions' = [sessions EXCEPT ![k] = [sessions[k] EXCEPT !.proof = proof]]
  PROVE  StaysOver
<1>1. sessions \in Seq(SessionRow) BY DEF AInv, ATypeOK
<1>2. ASSUME NEW t \in DOMAIN sessions
      PROVE  sessions'[t].expires = sessions[t].expires /\ sessions'[t].revoked = sessions[t].revoked
  <2>1. CASE t = k
    <3>1. sessions'[t] = [sessions[k] EXCEPT !.proof = proof] BY <1>1, <2>1
    <3> QED BY <2>1, <3>1, SessionTyped DEF AInv, SessionRow
  <2>2. CASE t # k
    <3>1. sessions'[t] = sessions[t] BY <1>1, <2>2
    <3> QED BY <3>1
  <2> QED BY <2>1, <2>2
<1> QED BY <1>2 DEF StaysOver, ActiveNext, SessionActive

LEMMA RevokedStaysOver ==
  ASSUME AInv, NEW u, NEW k, sessions' = Revoked(u, k), now' = now
  PROVE  StaysOver
<1>1. sessions \in Seq(SessionRow) BY DEF AInv, ATypeOK
<1>2. ASSUME NEW t \in DOMAIN sessions
      PROVE  sessions'[t].expires = sessions[t].expires /\ (~sessions'[t].revoked => ~sessions[t].revoked)
  <2>1. CASE sessions[t].user = u /\ t # k
    <3>1. sessions'[t] = [sessions[t] EXCEPT !.revoked = TRUE] BY <2>1 DEF Revoked
    <3> QED BY <3>1, SessionTyped DEF AInv, SessionRow
  <2>2. CASE ~(sessions[t].user = u /\ t # k)
    <3>1. sessions'[t] = sessions[t] BY <2>2 DEF Revoked
    <3> QED BY <3>1
  <2> QED BY <2>1, <2>2
<1> QED BY <1>2 DEF StaysOver, ActiveNext, SessionActive

LEMMA OpenedStaysOver ==
  ASSUME AInv, NEW row \in SessionRow, sessions' = Append(sessions, row), now' = now
  PROVE  StaysOver
<1>1. sessions \in Seq(SessionRow) BY DEF AInv, ATypeOK
<1>2. \A s \in DOMAIN sessions : sessions'[s] = sessions[s] BY <1>1
<1> QED BY <1>2 DEF StaysOver, ActiveNext, SessionActive

\* A thread is where it was, or comes to something that is not before a session's
\* check, or comes with what the check will find, or passes it.
Passes(p, q) ==
  \/ q = p
  \/ q.at \notin {"session", "admitted"}
  \/ q.at = "session" /\ q.ended = ~SessionActive(q.sid) /\ q.sid \in DOMAIN sessions
  \/ p.at = "session" /\ SessionActive(p.sid) /\ q.at = "admitted" /\ q.ended = p.ended

LEMMA BarsKept ==
  ASSUME AInv, EndedAreBarred, StaysOver, \A r \in Requests : Passes(requests[r], requests'[r])
  PROVE  EndedAreBarred'
<1>1. ASSUME NEW r \in Requests
      PROVE  /\ requests'[r].at = "session" => (requests'[r].ended => ~ActiveNext(requests'[r].sid))
             /\ requests'[r].at = "admitted" => ~requests'[r].ended
  <2>1. requests[r].at = "session" => requests[r].sid \in DOMAIN sessions BY DEF AInv, Refers
  <2>2. Passes(requests[r], requests'[r]) /\ Bars(requests[r]) BY DEF EndedAreBarred
  <2> QED BY <2>1, <2>2 DEF Bars, StaysOver, Passes
<1> QED BY <1>1 DEF EndedAreBarred, Bars, ActiveNext, SessionActive

\* A step of one thread.
LEMMA OnePasses ==
  ASSUME AInv, EndedAreBarred, StaysOver, NEW r \in Requests, NEW q, Becomes(r, q),
         Passes(requests[r], q)
  PROVE  EndedAreBarred'
<1>1. requests'[r] = q /\ \A p \in Requests : p # r => requests'[p] = requests[p]
  BY DEF AInv, ATypeOK, Becomes
<1>2. \A p \in Requests : Passes(requests[p], requests'[p]) BY <1>1 DEF Passes
<1> QED BY <1>2, BarsKept

\* A step of one thread that leaves the sessions and the clock alone, and does not
\* come to a session's check.
LEMMA OneMovesOn ==
  ASSUME AInv, EndedAreBarred, NEW r \in Requests, NEW q, Becomes(r, q),
         q.at \notin {"session", "admitted"}, UNCHANGED <<now, sessions>>
  PROVE  EndedAreBarred'
<1>1. StaysOver BY SameStaysOver DEF AInv, ATypeOK
<1> QED BY <1>1, OnePasses DEF Passes

LEMMA NobodyMoves ==
  ASSUME AInv, EndedAreBarred, StaysOver, UNCHANGED requests
  PROVE  EndedAreBarred'
BY BarsKept DEF Passes

LEMMA SignsInBars ==
  ASSUME AInv, EndedAreBarred, NEW r \in Requests, SignsIn(r)
  PROVE  EndedAreBarred'
<1>1. ASSUME NEW u \in Users, NEW right \in BOOLEAN, LoginRead(r, u, right) PROVE EndedAreBarred'
  <2> DEFINE step == IF ~right THEN "failed" ELSE IF accounts[u].secret # NoFactor THEN "code" ELSE "clear"
             q    == Attempt(u, step)
  <2>1. q.at \notin {"session", "admitted"} BY DEF Attempt
  <2>2. Becomes(r, q) /\ UNCHANGED <<now, sessions>> BY <1>1 DEF LoginRead
  <2> HIDE DEF q
  <2> QED BY <2>1, <2>2, OneMovesOn
<1>2. ASSUME NEW q, q = [requests[r] EXCEPT !.at = "clear"] \/ q = [requests[r] EXCEPT !.at = "open"],
             requests[r] \in SignIn
      PROVE  q.at \notin {"session", "admitted"}
  BY <1>2 DEF SignIn
<1>3. ASSUME NEW code \in Steps, LoginTakesCode(r, code) PROVE EndedAreBarred'
  <2>1. requests[r] \in SignIn BY <1>3, AtSignIn DEF AInv, LoginTakesCode, At
  <2> QED BY <1>2, <1>3, <2>1, OneMovesOn DEF LoginTakesCode, Goes
<1>4. ASSUME LoginClears(r) PROVE EndedAreBarred'
  <2>1. requests[r] \in SignIn BY <1>4, AtSignIn DEF AInv, LoginClears, At
  <2> QED BY <1>2, <1>4, <2>1, OneMovesOn DEF LoginClears, Goes
<1>5. ASSUME LoginFails(r) \/ Answers(r) PROVE EndedAreBarred'
  <2>1. Ends(r) /\ UNCHANGED <<now, sessions>> BY <1>5 DEF LoginFails, Answers
  <2> QED BY <2>1, Labels, OneMovesOn DEF Ends
<1>6. ASSUME LoginRefused(r) PROVE EndedAreBarred'
  <2>1. UNCHANGED <<now, sessions, requests>> BY <1>6 DEF LoginRefused, avars
  <2> QED BY <2>1, SameStaysOver, NobodyMoves DEF AInv, ATypeOK
<1>7. ASSUME LoginOpens(r) PROVE EndedAreBarred'
  <2> DEFINE u     == requests[r].user
             proof == [password |-> requests[r].password, secret |-> requests[r].secret]
             row   == NewSession(u, proof, ~Proves(proof, accounts[u]))
             q     == [at |-> "answer", user |-> u, sid |-> Len(sessions) + 1, token |-> Len(tokens) + 1]
  <2>1. u \in Users BY <1>7, UserExists DEF LoginOpens, At
  <2>2. requests[r] \in SignIn BY <1>7, AtSignIn DEF AInv, LoginOpens, At
  <2>3. proof \in Proof BY <2>2 DEF SignIn, Proof
  <2>4. now + REFRESH_TTL_S \in Nat BY SettingsAssumption DEF AInv, ATypeOK
  <2>5. row \in SessionRow BY <2>1, <2>3, <2>4 DEF NewSession, SessionRow
  <2>6. sessions' = Append(sessions, row) /\ now' = now /\ Becomes(r, q) BY <1>7 DEF LoginOpens
  <2>7. q.at \notin {"session", "admitted"} OBVIOUS
  <2> HIDE DEF row, q
  <2>8. StaysOver BY <2>5, <2>6, OpenedStaysOver
  <2> QED BY <2>6, <2>7, <2>8, OnePasses DEF Passes
<1> QED BY <1>1, <1>3, <1>4, <1>5, <1>6, <1>7 DEF SignsIn

LEMMA RenewsBars ==
  ASSUME AInv, EndedAreBarred, NEW r \in Requests, Renews(r)
  PROVE  EndedAreBarred'
<1>1. ASSUME NEW t \in DOMAIN tokens, RefreshRotates(r, t) PROVE EndedAreBarred'
  <2> DEFINE q == [at |-> "renewed", user |-> sessions[tokens[t].sid].user, sid |-> tokens[t].sid,
                   token |-> Len(tokens) + 1]
  <2>1. q.at \notin {"session", "admitted"} OBVIOUS
  <2>2. Becomes(r, q) /\ UNCHANGED <<now, sessions>> BY <1>1 DEF RefreshRotates
  <2> HIDE DEF q
  <2> QED BY <2>1, <2>2, OneMovesOn
<1>2. ASSUME RefreshFindsDisabled(r) PROVE EndedAreBarred'
  <2> DEFINE q == [requests[r] EXCEPT !.at = "drop"]
  <2>1. requests[r] \in Answering BY <1>2, AtAnswering DEF AInv, RefreshFindsDisabled, At
  <2>2. q.at \notin {"session", "admitted"} BY <2>1 DEF Answering
  <2>3. Becomes(r, q) /\ UNCHANGED <<now, sessions>> BY <1>2 DEF RefreshFindsDisabled, Goes
  <2> HIDE DEF q
  <2> QED BY <2>2, <2>3, OneMovesOn
<1>3. ASSUME RefreshDrops(r) PROVE EndedAreBarred'
  <2>1. requests[r].sid \in DOMAIN sessions BY <1>3 DEF AInv, Refers, RefreshDrops, At
  <2>2. StaysOver BY <1>3, <2>1, EndedStaysOver DEF RefreshDrops
  <2>3. Becomes(r, Idle) /\ Idle.at = "idle" BY <1>3, Labels DEF RefreshDrops, Ends
  <2> QED BY <2>2, <2>3, OnePasses DEF Passes
<1> QED BY <1>1, <1>2, <1>3 DEF Renews

LEMMA ArrivesBars ==
  ASSUME AInv, EndedAreBarred, NEW r \in Requests, NEW j \in jwts, Arrives(r, j)
  PROVE  EndedAreBarred'
<1> DEFINE q == [at |-> "session", user |-> j.user, role |-> j.role, sid |-> j.sid,
                 mustChange |-> accounts[j.user].mustChange, ended |-> ~SessionActive(j.sid)]
<1>1. j.sid \in DOMAIN sessions BY DEF AInv, ATypeOK
<1>2. q.at = "session" /\ q.ended = ~SessionActive(q.sid) /\ q.sid \in DOMAIN sessions BY <1>1
<1>3. Becomes(r, q) /\ UNCHANGED <<now, sessions>> BY DEF Arrives
<1> HIDE DEF q
<1>4. StaysOver BY <1>3, SameStaysOver DEF AInv, ATypeOK
<1> QED BY <1>2, <1>3, <1>4, OnePasses DEF Passes

LEMMA AdmittedBars ==
  ASSUME AInv, EndedAreBarred, NEW r \in Requests, Admitted(r)
  PROVE  EndedAreBarred'
<1> DEFINE q == [requests[r] EXCEPT !.at = "admitted"]
<1>1. requests[r] \in Principal BY AtPrincipal DEF AInv, Admitted, At
<1>2. q.at = "admitted" /\ q.ended = requests[r].ended BY <1>1 DEF Principal
<1>3. requests[r].at = "session" /\ SessionActive(requests[r].sid) BY DEF Admitted, At
<1>4. Becomes(r, q) /\ UNCHANGED <<now, sessions>> BY DEF Admitted, Goes
<1> HIDE DEF q
<1>5. StaysOver BY <1>4, SameStaysOver DEF AInv, ATypeOK
<1> QED BY <1>2, <1>3, <1>4, <1>5, OnePasses DEF Passes

\* Whatever becomes of a request that is not a principal's.
LEMMA MovesOn ==
  ASSUME AInv, EndedAreBarred, NEW r \in Requests, UNCHANGED <<now, sessions>>,
         \/ Ends(r) \/ GoesOnToRevoke(r)
         \/ \E q : Becomes(r, q) /\ q.at \notin {"session", "admitted"}
  PROVE  EndedAreBarred'
<1>1. [at |-> "revoke", user |-> requests[r].user, keep |-> requests[r].keep].at
        \notin {"session", "admitted"}
  OBVIOUS
<1> QED BY <1>1, Labels, OneMovesOn DEF Ends, GoesOnToRevoke

\* A thread that replaces a credential goes on to end sessions.
LEMMA ReplacesBars ==
  ASSUME AInv, EndedAreBarred, NEW r \in Requests, StaysOver, GoesOnToRevoke(r)
  PROVE  EndedAreBarred'
<1> DEFINE q == [at |-> "revoke", user |-> requests[r].user, keep |-> requests[r].keep]
<1>1. q.at \notin {"session", "admitted"} OBVIOUS
<1>2. Becomes(r, q) BY DEF GoesOnToRevoke
<1> HIDE DEF q
<1> QED BY <1>1, <1>2, OnePasses DEF Passes

LEMMA ActsAsUserBars ==
  ASSUME AInv, EndedAreBarred, NEW r \in Requests, ActsAsUser(r)
  PROVE  EndedAreBarred'
<1>1. ASSUME PasswordVerify(r) \/ MfaSetup(r) PROVE EndedAreBarred'
  <2>1. PICK step \in {"new password", "set up"} : Change(r, step, requests[r].user, requests[r].sid)
    BY <1>1 DEF PasswordVerify, MfaSetup
  <2> DEFINE q == [at |-> step, user |-> requests[r].user, keep |-> requests[r].sid,
                   number |-> operations + 1]
  <2>2. q.at \notin {"session", "admitted"} OBVIOUS
  <2>3. Becomes(r, q) /\ UNCHANGED <<now, sessions>> BY <2>1 DEF Change
  <2> HIDE DEF q
  <2> QED BY <2>2, <2>3, MovesOn
<1>2. ASSUME NEW code \in Steps, MfaEnable(r, code) PROVE EndedAreBarred'
  BY <1>2, MovesOn DEF MfaEnable
<1>3. ASSUME MfaDisable(r) PROVE EndedAreBarred'
  BY <1>3, MovesOn DEF MfaDisable
<1>4. ASSUME Leaves(r) \/ MfaPending(r) \/ MfaStays(r) \/ \E code \in Steps : MfaDisabled(r, code)
      PROVE  EndedAreBarred'
  BY <1>4, MovesOn DEF Leaves, MfaPending, MfaStays, MfaDisabled
<1>5. ASSUME PasswordSet(r) PROVE EndedAreBarred'
  <2> DEFINE k     == requests[r].keep
             proof == [sessions[k].proof EXCEPT !.password = requests[r].number]
  <2>1. k \in DOMAIN sessions BY <1>5 DEF AInv, Refers, PasswordSet, At
  <2>2. sessions' = [sessions EXCEPT ![k] = [sessions[k] EXCEPT !.proof = proof]]
        /\ now' = now /\ GoesOnToRevoke(r)
    BY <1>5 DEF PasswordSet
  <2> HIDE DEF proof
  <2>3. StaysOver BY <2>1, <2>2, ProofStaysOver
  <2> QED BY <2>2, <2>3, ReplacesBars
<1>6. ASSUME MfaEnabled(r) PROVE EndedAreBarred'
  <2> DEFINE k     == requests[r].keep
             proof == [sessions[k].proof EXCEPT !.secret = requests[r].secret]
  <2>1. k \in DOMAIN sessions BY <1>6 DEF AInv, Refers, MfaEnabled, At
  <2>2. sessions' = [sessions EXCEPT ![k] = [sessions[k] EXCEPT !.proof = proof]]
        /\ now' = now /\ GoesOnToRevoke(r)
    BY <1>6 DEF MfaEnabled
  <2> HIDE DEF proof
  <2>3. StaysOver BY <2>1, <2>2, ProofStaysOver
  <2> QED BY <2>2, <2>3, ReplacesBars
<1>7. ASSUME RevokesSessions(r) PROVE EndedAreBarred'
  <2>1. StaysOver BY <1>7, RevokedStaysOver DEF RevokesSessions
  <2>2. Becomes(r, Idle) /\ Idle.at = "idle" BY <1>7, Labels DEF RevokesSessions, Ends
  <2> QED BY <2>1, <2>2, OnePasses DEF Passes
<1> QED BY <1>1, <1>2, <1>3, <1>4, <1>5, <1>6, <1>7, ArrivesBars, AdmittedBars DEF ActsAsUser

LEMMA AdministersBars ==
  ASSUME AInv, EndedAreBarred, NEW r \in Requests, Administers(r)
  PROVE  EndedAreBarred'
<1>1. ASSUME NEW u \in Users, NEW role \in USER_ROLES, CreateUser(r, u, role) PROVE EndedAreBarred'
  BY <1>1, MovesOn DEF CreateUser
<1>2. ASSUME NEW u \in Users, NEW role \in USER_ROLES, NEW mustChange \in BOOLEAN,
             CliCreateUser(r, u, role, mustChange)
      PROVE  EndedAreBarred'
  <2>1. UNCHANGED <<now, sessions, requests>> BY <1>2 DEF CliCreateUser
  <2> QED BY <2>1, SameStaysOver, NobodyMoves DEF AInv, ATypeOK
<1>3. ASSUME NEW u \in Users, NEW value, UpdateUser(r, u, "active", value) \/ UpdateUser(r, u, "role", value)
      PROVE  EndedAreBarred'
  BY <1>3, MovesOn DEF UpdateUser
<1>4. ASSUME NEW u \in Users, ResetUser(r, u) \/ CliResetUser(r, u) PROVE EndedAreBarred'
  BY <1>4, MovesOn DEF ResetUser, CliResetUser
<1>5. ASSUME UpdatesUser(r) \/ ResetsPassword(r) \/ ClearsFactor(r) PROVE EndedAreBarred'
  <2>1. CASE UpdatesUser(r)
    <3>1. GoesOnToRevoke(r) \/ Ends(r) BY <2>1 DEF UpdatesUser
    <3>2. UNCHANGED <<now, sessions>> BY <2>1 DEF UpdatesUser
    <3> QED BY <3>1, <3>2, MovesOn
  <2>2. CASE ResetsPassword(r)
    <3> DEFINE q == [at |-> "clear factor", user |-> requests[r].user, keep |-> requests[r].keep,
                     cli |-> requests[r].cli]
    <3>1. q.at \notin {"session", "admitted"} OBVIOUS
    <3>2. Becomes(r, q) /\ UNCHANGED <<now, sessions>> BY <2>2 DEF ResetsPassword
    <3> HIDE DEF q
    <3> QED BY <3>1, <3>2, MovesOn
  <2>3. CASE ClearsFactor(r) BY <2>3, MovesOn DEF ClearsFactor
  <2> QED BY <1>5, <2>1, <2>2, <2>3
<1> QED BY <1>1, <1>2, <1>3, <1>4, <1>5 DEF Administers, CliSeedUser

LEMMA StepBars ==
  ASSUME AInv, EndedAreBarred, [ANext]_avars
  PROVE  EndedAreBarred'
<1>1. ASSUME NEW t \in DOMAIN tokens, RefreshReused(t) PROVE EndedAreBarred'
  <2>1. tokens[t].sid \in DOMAIN sessions BY DEF AInv, ATypeOK
  <2>2. StaysOver BY <1>1, <2>1, EndedStaysOver DEF RefreshReused
  <2> QED BY <1>1, <2>2, NobodyMoves DEF RefreshReused
<1>2. ASSUME NEW s \in DOMAIN sessions, Logout(s) PROVE EndedAreBarred'
  <2>1. StaysOver BY <1>2, EndedStaysOver DEF Logout
  <2> QED BY <1>2, <2>1, NobodyMoves DEF Logout
<1>3. CASE Tick \/ UNCHANGED avars
  <2>1. now' \in Nat /\ now' >= now /\ UNCHANGED <<sessions, requests>>
    BY <1>3 DEF AInv, ATypeOK, Tick, avars
  <2> QED BY <2>1, SameStaysOver, NobodyMoves DEF AInv
<1> QED BY <1>1, <1>2, <1>3, SignsInBars, RenewsBars, ActsAsUserBars, AdministersBars DEF ANext

\* A request whose session was over when it came is never admitted, though its
\* account and its session are looked up one after the other.
THEOREM EndedSessionsAreBarred == ASpec => []EndedSessionsStayEnded
<1>1. AInit => AInv /\ EndedAreBarred
  <2> SUFFICES ASSUME AInit PROVE EndedAreBarred BY Initially
  <2>1. \A r \in Requests : requests[r] = Idle BY DEF AInit, Starts
  <2> QED BY <2>1, Labels DEF EndedAreBarred, Bars
<1>2. AInv /\ EndedAreBarred /\ [ANext]_avars => (AInv /\ EndedAreBarred)'
  BY StepInvariant, StepBars
<1>3. AInv /\ EndedAreBarred => EndedSessionsStayEnded
  BY DEF EndedAreBarred, Bars, EndedSessionsStayEnded, At
<1> QED BY <1>1, <1>2, <1>3, PTL DEF ASpec

-----------------------------------------------------------------------------
(* Locks. *)

Reading  == {"failed", "code", "clear"}
Numbered == {"new password", "reset"}

\* A sign-in had found the account unlocked; and the number that a thread is about to
\* make a password of is no account's password and no other thread's.
Fresh ==
  /\ \A r \in Requests : requests[r].at \in Reading => requests[r].lockedUntil <= now
  /\ \A u \in Users : Exists(u) => accounts[u].password <= operations
  /\ \A r \in Requests : requests[r].at \in Numbered =>
       /\ requests[r].number \in 1..operations
       /\ \A u \in Users : Exists(u) => accounts[u].password # requests[r].number
       /\ \A p \in Requests : p # r /\ requests[p].at \in Numbered =>
            requests[p].number # requests[r].number

\* LockOutlastsNewSignIns, of one step.
LockStep ==
  \A u \in Users :
    /\ Exists(u)
    /\ accounts[u].lockedUntil > now
    /\ accounts'[u].lockedUntil # accounts[u].lockedUntil
    => \/ accounts'[u].password # accounts[u].password
       \/ \E r \in Requests : /\ requests'[r] # requests[r]
                               /\ requests[r].at \in Reading
                               /\ requests[r].user = u
                               /\ requests[r].lockedUntil # accounts[u].lockedUntil

\* What a thread comes to: a sign-in that has just found the account unlocked, a
\* change with a number of its own, or neither.
Enters(q) ==
  \/ q.at \notin Reading \cup Numbered
  \/ q.at \in Reading /\ q.lockedUntil <= now
  \/ q.at \in Numbered /\ operations' = operations + 1 /\ q.number = operations + 1

\* What becomes of an account when a thread goes from p to q: it stays, or is made,
\* or is written without its password, by a sign-in if its lock is, or gets the
\* password of this thread.
Moves(p, q, u) ==
  \/ accounts'[u] = accounts[u]
  \/ /\ ~Exists(u) /\ q.at \notin Numbered
     /\ operations' = operations + 1 /\ accounts'[u].password = operations + 1
  \/ /\ Exists(u) /\ accounts'[u].password = accounts[u].password
     /\ \/ accounts'[u].lockedUntil = accounts[u].lockedUntil
        \/ p.at \in Reading /\ p.user = u /\ q # p
  \/ /\ Exists(u) /\ p.at \in Numbered /\ q.at \notin Numbered
     /\ accounts'[u].password = p.number

\* A step of one thread.
LEMMA OneThreadLocks ==
  ASSUME AInv, Fresh, NEW r \in Requests, NEW q, Becomes(r, q), now' = now,
         operations' = operations \/ operations' = operations + 1,
         Enters(q), \A u \in Users : Moves(requests[r], q, u)
  PROVE  Fresh' /\ LockStep
<1>1. requests'[r] = q /\ \A p \in Requests : p # r => requests'[p] = requests[p]
  BY DEF AInv, ATypeOK, Becomes
<1>2. operations \in Nat /\ operations' \in Nat /\ now \in Nat BY DEF AInv, ATypeOK
<1>3. \A u \in Users : Exists(u) => accounts[u] \in AccountRow
  BY DEF AInv, ATypeOK, Exists
<1>4. \A u \in Users : Exists(u) =>
        accounts[u].password \in Nat /\ accounts[u].lockedUntil \in Nat
  BY <1>3 DEF AccountRow
<1>5. ASSUME NEW u \in Users, accounts'[u] # NoAccount
      PROVE  /\ accounts'[u].password <= operations'
             /\ \A p \in Requests : p # r /\ requests[p].at \in Numbered =>
                  accounts'[u].password # requests[p].number
             /\ q.at \in Numbered => accounts'[u].password # q.number
  <2> DEFINE new == accounts'[u].password  old == accounts[u].password
  <2>1. Moves(requests[r], q, u) OBVIOUS
  <2>2. Exists(u) => old \in Nat /\ old <= operations
    BY <1>4 DEF Fresh
  <2>3. \A p \in Requests : requests[p].at \in Numbered =>
          /\ requests[p].number \in 1..operations /\ (Exists(u) => old # requests[p].number)
          /\ (p # r /\ requests[r].at \in Numbered => requests[p].number # requests[r].number)
    BY DEF Fresh
  <2>4. q.at \in Numbered => q.number = operations + 1 /\ operations' = operations + 1
    BY DEF Enters, Reading, Numbered
  <2>5. CASE Exists(u) /\ new = old BY <1>2, <2>2, <2>3, <2>4, <2>5
  <2>6. CASE /\ ~Exists(u) /\ q.at \notin Numbered
             /\ operations' = operations + 1 /\ new = operations + 1
    BY <1>2, <2>3, <2>6
  <2>7. CASE Exists(u) /\ requests[r].at \in Numbered /\ q.at \notin Numbered
             /\ new = requests[r].number
    BY <1>2, <2>3, <2>7
  <2>8. accounts'[u] = accounts[u] => Exists(u) /\ new = old BY <1>5 DEF Exists
  <2> QED BY <2>1, <2>5, <2>6, <2>7, <2>8 DEF Moves
<1>6. ASSUME NEW p \in Requests, requests'[p].at \in Reading
      PROVE  requests'[p].lockedUntil <= now'
  BY <1>1, <1>6 DEF Fresh, Enters, Reading, Numbered
<1>7. ASSUME NEW p \in Requests, requests'[p].at \in Numbered
      PROVE  /\ requests'[p].number \in 1..operations'
             /\ \A o \in Requests : o # p /\ requests'[o].at \in Numbered =>
                  requests'[o].number # requests'[p].number
  <2>1. \A o \in Requests : requests[o].at \in Numbered =>
          requests[o].number \in 1..operations
    BY DEF Fresh
  <2>2. q.at \in Numbered => q.number = operations + 1 /\ operations' = operations + 1
    BY DEF Enters, Reading, Numbered
  <2>3. \A o \in Requests : o # p /\ requests[o].at \in Numbered /\ requests[p].at \in Numbered =>
          requests[o].number # requests[p].number
    BY DEF Fresh
  <2>4. CASE p = r BY <1>1, <1>2, <1>7, <2>1, <2>2, <2>4
  <2>5. CASE p # r BY <1>1, <1>2, <1>7, <2>1, <2>2, <2>3, <2>5
  <2> QED BY <2>4, <2>5
<1>8. ASSUME NEW p \in Requests, requests'[p].at \in Numbered,
             NEW u \in Users, accounts'[u] # NoAccount
      PROVE  accounts'[u].password # requests'[p].number
  BY <1>1, <1>5, <1>8
<1>9. Fresh' BY <1>5, <1>6, <1>7, <1>8 DEF Fresh, Exists
<1>10. ASSUME NEW u \in Users, Exists(u), accounts[u].lockedUntil > now,
              accounts'[u].lockedUntil # accounts[u].lockedUntil
       PROVE  \/ accounts'[u].password # accounts[u].password
              \/ /\ requests'[r] # requests[r] /\ requests[r].at \in Reading
                 /\ requests[r].user = u
                 /\ requests[r].lockedUntil # accounts[u].lockedUntil
  <2>1. Moves(requests[r], q, u) OBVIOUS
  <2>2. CASE requests[r].at \in Numbered /\ accounts'[u].password = requests[r].number
    BY <1>10, <2>2 DEF Fresh
  <2>3. CASE requests[r].at \in Reading /\ requests[r].user = u /\ q # requests[r]
    <3>1. requests[r].lockedUntil <= now BY <2>3 DEF Fresh
    <3>2. requests[r].lockedUntil # accounts[u].lockedUntil
      BY <1>2, <1>4, <1>10, <3>1
    <3> QED BY <1>1, <2>3, <3>2
  <2> QED BY <1>10, <2>1, <2>2, <2>3 DEF Moves
<1>11. LockStep BY <1>10 DEF LockStep
<1> QED BY <1>9, <1>11

\* A step of one thread that writes no account and does not begin or go on with a
\* sign-in or a change of password.
LEMMA QuietThreadLocks ==
  ASSUME AInv, Fresh, NEW r \in Requests, NEW q, Becomes(r, q), UNCHANGED <<now, accounts>>,
         operations' = operations \/ operations' = operations + 1,
         q.at \notin Reading \cup Numbered
  PROVE  Fresh' /\ LockStep
BY OneThreadLocks DEF Enters, Moves

\* Nobody moves, and no account is written.
LEMMA NobodyLocks ==
  ASSUME AInv, Fresh, UNCHANGED <<accounts, requests, operations>>, now' \in Nat, now' >= now
  PROVE  Fresh' /\ LockStep
<1>1. now \in Nat BY DEF AInv, ATypeOK
<1>2. ASSUME NEW r \in Requests, requests[r].at \in Reading PROVE requests[r].lockedUntil <= now'
  <2>1. requests[r] \in SignIn BY <1>2, AtSignIn DEF AInv, Reading
  <2>2. requests[r].lockedUntil \in Nat BY <2>1 DEF SignIn
  <2>3. requests[r].lockedUntil <= now BY <1>2 DEF Fresh
  <2> QED BY <1>1, <2>2, <2>3
<1>3. Fresh' BY <1>2 DEF Fresh, Exists
<1> QED BY <1>3 DEF LockStep

\* One account is written and keeps its password.
LEMMA OneAccountMoves ==
  ASSUME AInv, NEW p, NEW q, NEW u \in Users, NEW a, Exists(u), Updates(u, a),
         a.password = accounts[u].password,
         a.lockedUntil = accounts[u].lockedUntil \/ (p.at \in Reading /\ p.user = u /\ q # p)
  PROVE  \A v \in Users : Moves(p, q, v)
<1>1. accounts'[u] = a /\ \A v \in Users : v # u => accounts'[v] = accounts[v]
  BY DEF AInv, ATypeOK, Updates
<1> QED BY <1>1 DEF Moves

\* The writes of a row that leave its lock alone.
LEMMA RowLocks ==
  ASSUME NEW a \in AccountRow
  PROVE  /\ \A n \in Int : [a EXCEPT !.lastStep = n].lockedUntil = a.lockedUntil
         /\ \A n \in Nat : [a EXCEPT !.pending = n].lockedUntil = a.lockedUntil
         /\ \A b \in BOOLEAN : [a EXCEPT !.active = b].lockedUntil = a.lockedUntil
         /\ \A role \in USER_ROLES : [a EXCEPT !.role = role].lockedUntil = a.lockedUntil
         /\ \A secret \in Nat, step \in Int : WithFactor(a, secret, step).lockedUntil = a.lockedUntil
<1>1. \A n \in Int : [a EXCEPT !.lastStep = n].lockedUntil = a.lockedUntil BY DEF AccountRow
<1>2. \A n \in Nat : [a EXCEPT !.pending = n].lockedUntil = a.lockedUntil BY DEF AccountRow
<1>3. \A b \in BOOLEAN : [a EXCEPT !.active = b].lockedUntil = a.lockedUntil BY DEF AccountRow
<1>4. \A role \in USER_ROLES : [a EXCEPT !.role = role].lockedUntil = a.lockedUntil
  BY DEF AccountRow
<1>5. ASSUME NEW secret \in Nat, NEW step \in Int
      PROVE  WithFactor(a, secret, step).lockedUntil = a.lockedUntil
  BY DEF WithFactor, AccountRow
<1> QED BY <1>1, <1>2, <1>3, <1>4, <1>5

LEMMA ReadLocks ==
  ASSUME AInv, Fresh, NEW r \in Requests, NEW u \in Users, NEW right \in BOOLEAN,
         LoginRead(r, u, right)
  PROVE  Fresh' /\ LockStep
<1> DEFINE step == IF ~right THEN "failed" ELSE IF accounts[u].secret # NoFactor THEN "code" ELSE "clear"
           q    == Attempt(u, step)
<1>1. q.at \in Reading /\ q.lockedUntil = accounts[u].lockedUntil BY DEF Attempt, Reading
<1>2. accounts[u].lockedUntil <= now BY DEF LoginRead, Unlocked
<1>3. Becomes(r, q) /\ UNCHANGED <<now, accounts>> /\ operations' = operations + 1
  BY DEF LoginRead, Begins
<1> HIDE DEF q
<1>4. Enters(q) BY <1>1, <1>2 DEF Enters
<1>5. \A v \in Users : Moves(requests[r], q, v) BY <1>3 DEF Moves
<1> QED BY <1>3, <1>4, <1>5, OneThreadLocks

LEMMA TakesCodeLocks ==
  ASSUME AInv, Fresh, NEW r \in Requests, NEW code \in Steps, LoginTakesCode(r, code)
  PROVE  Fresh' /\ LockStep
<1> DEFINE u == requests[r].user
           a == [accounts[u] EXCEPT !.lastStep = code]
           q == [requests[r] EXCEPT !.at = "clear"]
<1>1. u \in Users /\ Exists(u) /\ accounts[u] \in AccountRow
  BY UserExists DEF LoginTakesCode, At
<1>2. code \in Int BY DEF AInv, ATypeOK, Steps
<1>3. requests[r] \in SignIn BY AtSignIn DEF AInv, LoginTakesCode, At
<1>4. q.at = "clear" /\ q.lockedUntil = requests[r].lockedUntil BY <1>3 DEF SignIn
<1>5. requests[r].lockedUntil <= now BY DEF LoginTakesCode, At, Fresh, Reading
<1>6. Updates(u, a) /\ Becomes(r, q) /\ UNCHANGED <<now, operations>>
  BY DEF LoginTakesCode, Goes
<1>7. a.password = accounts[u].password /\ a.lockedUntil = accounts[u].lockedUntil
  BY <1>1, <1>2, RowFields, RowLocks
<1> HIDE DEF u, a, q
<1>8. Enters(q) BY <1>4, <1>5 DEF Enters, Reading
<1>9. \A v \in Users : Moves(requests[r], q, v) BY <1>1, <1>6, <1>7, OneAccountMoves
<1> QED BY <1>6, <1>8, <1>9, OneThreadLocks

LEMMA SettlesLocks ==
  ASSUME AInv, Fresh, NEW r \in Requests, LoginFails(r) \/ LoginClears(r)
  PROVE  Fresh' /\ LockStep
<1> DEFINE u == requests[r].user
<1>1. requests[r].at \in Reading BY DEF LoginFails, LoginClears, At, Reading
<1>2. u \in Users /\ Exists(u) /\ accounts[u] \in AccountRow BY <1>1, UserExists DEF Reading
<1>3. requests[r] \in SignIn BY <1>1, AtSignIn DEF AInv, Reading
<1>4. now \in Nat BY DEF AInv, ATypeOK
<1>5. CASE LoginFails(r)
  <2> DEFINE a == RegisterFailure(accounts[u])
  <2>1. Updates(u, a) /\ Becomes(r, Idle) /\ UNCHANGED <<now, operations>>
    BY <1>5 DEF LoginFails, Ends
  <2>2. a.password = accounts[u].password BY <1>2, <1>4, RowFailure
  <2>3. Idle # requests[r] /\ Idle.at \notin Reading \cup Numbered
    BY <1>1, Labels DEF Reading, Numbered
  <2> HIDE DEF u, a
  <2>4. u = requests[r].user BY DEF u
  <2>5. \A v \in Users : Moves(requests[r], Idle, v)
    BY <1>1, <1>2, <2>1, <2>2, <2>3, <2>4, OneAccountMoves
  <2>6. Enters(Idle) BY <2>3 DEF Enters
  <2> QED BY <2>1, <2>5, <2>6, OneThreadLocks
<1>6. CASE LoginClears(r)
  <2> DEFINE a == [accounts[u] EXCEPT !.failed = 0, !.lockedUntil = 0]
             q == [requests[r] EXCEPT !.at = "open"]
  <2>1. Updates(u, a) /\ Becomes(r, q) /\ UNCHANGED <<now, operations>>
    BY <1>6 DEF LoginClears, Goes
  <2>2. a.password = accounts[u].password BY <1>2, RowCleared
  <2>3. q.at = "open" BY <1>3 DEF SignIn
  <2>4. q # requests[r] /\ q.at \notin Reading \cup Numbered
    BY <1>1, <2>3 DEF Reading, Numbered
  <2> HIDE DEF u, a, q
  <2>5. u = requests[r].user BY DEF u
  <2>6. \A v \in Users : Moves(requests[r], q, v)
    BY <1>1, <1>2, <2>1, <2>2, <2>4, <2>5, OneAccountMoves
  <2>7. Enters(q) BY <2>4 DEF Enters
  <2> QED BY <2>1, <2>6, <2>7, OneThreadLocks
<1> QED BY <1>5, <1>6

LEMMA SignsInLocks ==
  ASSUME AInv, Fresh, NEW r \in Requests, SignsIn(r)
  PROVE  Fresh' /\ LockStep
<1>1. CASE LoginRefused(r)
  <2>1. now \in Nat BY DEF AInv, ATypeOK
  <2> QED BY <1>1, <2>1, NobodyLocks DEF LoginRefused, avars
<1>2. CASE LoginOpens(r)
  <2> DEFINE q == [at |-> "answer", user |-> requests[r].user, sid |-> Len(sessions) + 1,
                   token |-> Len(tokens) + 1]
  <2>1. q.at \notin Reading \cup Numbered BY DEF Reading, Numbered
  <2>2. Becomes(r, q) /\ UNCHANGED <<now, accounts, operations>> BY <1>2 DEF LoginOpens
  <2> HIDE DEF q
  <2> QED BY <2>1, <2>2, QuietThreadLocks
<1>3. CASE Answers(r)
  <2>1. Idle.at \notin Reading \cup Numbered BY Labels DEF Reading, Numbered
  <2> QED BY <1>3, <2>1, QuietThreadLocks DEF Answers, Ends
<1> QED BY <1>1, <1>2, <1>3, ReadLocks, TakesCodeLocks, SettlesLocks DEF SignsIn

LEMMA RenewsLocks ==
  ASSUME AInv, Fresh, NEW r \in Requests, Renews(r)
  PROVE  Fresh' /\ LockStep
<1>1. ASSUME NEW t \in DOMAIN tokens, RefreshRotates(r, t) PROVE Fresh' /\ LockStep
  <2> DEFINE q == [at |-> "renewed", user |-> sessions[tokens[t].sid].user, sid |-> tokens[t].sid,
                   token |-> Len(tokens) + 1]
  <2>1. q.at \notin Reading \cup Numbered BY DEF Reading, Numbered
  <2>2. Becomes(r, q) /\ UNCHANGED <<now, accounts>> /\ operations' = operations + 1
    BY <1>1 DEF RefreshRotates, Begins
  <2> HIDE DEF q
  <2> QED BY <2>1, <2>2, QuietThreadLocks
<1>2. ASSUME RefreshFindsDisabled(r) PROVE Fresh' /\ LockStep
  <2> DEFINE q == [requests[r] EXCEPT !.at = "drop"]
  <2>1. requests[r] \in Answering BY <1>2, AtAnswering DEF AInv, RefreshFindsDisabled, At
  <2>2. q.at \notin Reading \cup Numbered BY <2>1 DEF Answering, Reading, Numbered
  <2>3. Becomes(r, q) /\ UNCHANGED <<now, accounts, operations>>
    BY <1>2 DEF RefreshFindsDisabled, Goes
  <2> HIDE DEF q
  <2> QED BY <2>2, <2>3, QuietThreadLocks
<1>3. ASSUME RefreshDrops(r) PROVE Fresh' /\ LockStep
  <2>1. Idle.at \notin Reading \cup Numbered BY Labels DEF Reading, Numbered
  <2> QED BY <1>3, <2>1, QuietThreadLocks DEF RefreshDrops, Ends
<1> QED BY <1>1, <1>2, <1>3 DEF Renews

\* What goes on to revoke, or ends, neither signs in nor changes a password.
LEMMA RestsLocks ==
  /\ Idle.at \notin Reading \cup Numbered
  /\ \A u, k : [at |-> "revoke", user |-> u, keep |-> k].at \notin Reading \cup Numbered
BY Labels DEF Reading, Numbered

\* A change begins that has only been read for.
LEMMA BeginsLocks ==
  ASSUME AInv, Fresh, NEW r \in Requests, NEW q, Becomes(r, q), UNCHANGED <<now, accounts>>, Begins,
         q.at \notin Reading, q.at \in Numbered => q.number = operations + 1
  PROVE  Fresh' /\ LockStep
<1>1. operations' = operations + 1 BY DEF Begins
<1>2. Enters(q) BY <1>1 DEF Enters
<1>3. \A u \in Users : Moves(requests[r], q, u) BY DEF Moves
<1> QED BY <1>1, <1>2, <1>3, OneThreadLocks

\* A row is written that keeps its password and its lock.
LEMMA WriteLocks ==
  ASSUME AInv, Fresh, NEW r \in Requests, NEW q, Becomes(r, q), UNCHANGED <<now, operations>>,
         q.at \notin Reading \cup Numbered, NEW u \in Users, Exists(u), NEW a, Updates(u, a),
         a.password = accounts[u].password, a.lockedUntil = accounts[u].lockedUntil
  PROVE  Fresh' /\ LockStep
<1>1. Enters(q) BY DEF Enters
<1>2. \A v \in Users : Moves(requests[r], q, v) BY OneAccountMoves
<1> QED BY <1>1, <1>2, OneThreadLocks

\* A row gets the password this thread has a number for.
LEMMA PasswordLocks ==
  ASSUME AInv, Fresh, NEW r \in Requests, NEW q, Becomes(r, q), UNCHANGED <<now, operations>>,
         requests[r].at \in Numbered, q.at \notin Reading \cup Numbered,
         NEW u \in Users, Exists(u), NEW a, Updates(u, a), a.password = requests[r].number
  PROVE  Fresh' /\ LockStep
<1>1. Enters(q) BY DEF Enters
<1>2. accounts'[u] = a /\ \A v \in Users : v # u => accounts'[v] = accounts[v]
  BY DEF AInv, ATypeOK, Updates
<1>3. \A v \in Users : Moves(requests[r], q, v) BY <1>2 DEF Moves
<1> QED BY <1>1, <1>3, OneThreadLocks

\* A row is made.
LEMMA CreatedLocks ==
  ASSUME AInv, Fresh, NEW r \in Requests, NEW q, Becomes(r, q), now' = now, Begins,
         q.at \notin Reading \cup Numbered, NEW u \in Users, ~Exists(u), NEW a, Updates(u, a),
         a.password = operations + 1
  PROVE  Fresh' /\ LockStep
<1>1. operations' = operations + 1 BY DEF Begins
<1>2. Enters(q) BY DEF Enters
<1>3. accounts'[u] = a /\ \A v \in Users : v # u => accounts'[v] = accounts[v]
  BY DEF AInv, ATypeOK, Updates
<1>4. \A v \in Users : Moves(requests[r], q, v) BY <1>1, <1>3 DEF Moves
<1> QED BY <1>1, <1>2, <1>4, OneThreadLocks

LEMMA PasswordSetLocks ==
  ASSUME AInv, Fresh, NEW r \in Requests, PasswordSet(r)
  PROVE  Fresh' /\ LockStep
<1> DEFINE u == requests[r].user
           n == requests[r].number
           a == WithPassword(accounts[u], n, FALSE)
           q == [at |-> "revoke", user |-> u, keep |-> requests[r].keep]
<1>1. requests[r].at = "new password" BY DEF PasswordSet, At
<1>2. requests[r] \in Changing BY <1>1, AtChanging DEF AInv
<1>3. n \in Nat BY <1>1, <1>2, AtLabel
<1>4. u \in Users /\ Exists(u) /\ accounts[u] \in AccountRow BY <1>1, UserExists
<1>5. a.password = n BY <1>3, <1>4, RowPassword
<1>6. Updates(u, a) /\ Becomes(r, q) /\ UNCHANGED <<now, operations>>
  BY DEF PasswordSet, GoesOnToRevoke
<1>7. q.at \notin Reading \cup Numbered BY RestsLocks
<1> HIDE DEF u, a, q
<1> QED BY <1>1, <1>4, <1>5, <1>6, <1>7, PasswordLocks DEF Numbered

LEMMA FactorLocks ==
  ASSUME AInv, Fresh, NEW r \in Requests,
         MfaPending(r) \/ MfaEnabled(r) \/ \E code \in Steps : MfaDisabled(r, code)
  PROVE  Fresh' /\ LockStep
<1> DEFINE u == requests[r].user
<1>1. requests[r].at \in {"set up", "enable", "disable"}
  BY DEF MfaPending, MfaEnabled, MfaDisabled, At
<1>2. requests[r] \in Changing BY <1>1, AtChanging DEF AInv
<1>3. u \in Users /\ Exists(u) /\ accounts[u] \in AccountRow BY <1>1, UserExists
<1>4. CASE MfaPending(r)
  <2> DEFINE a == [accounts[u] EXCEPT !.pending = requests[r].number]
  <2>1. requests[r].number \in Nat BY <1>2, <1>4, AtLabel DEF MfaPending, At
  <2>2. a.password = accounts[u].password /\ a.lockedUntil = accounts[u].lockedUntil
    BY <1>3, <2>1, RowFields, RowLocks
  <2>3. Updates(u, a) /\ Becomes(r, Idle) /\ UNCHANGED <<now, operations>>
    BY <1>4 DEF MfaPending, Ends
  <2>4. Idle.at \notin Reading \cup Numbered BY RestsLocks
  <2> HIDE DEF u, a
  <2> QED BY <1>3, <2>2, <2>3, <2>4, WriteLocks
<1>5. CASE MfaEnabled(r)
  <2> DEFINE a == WithFactor(accounts[u], requests[r].secret, requests[r].code)
             q == [at |-> "revoke", user |-> u, keep |-> requests[r].keep]
  <2>1. requests[r].secret \in Nat /\ requests[r].code \in Int
    BY <1>2, <1>5, AtLabel DEF MfaEnabled, At
  <2>2. a.password = accounts[u].password BY <1>3, <2>1, RowFactor
  <2>3. Updates(u, a) /\ Becomes(r, q) /\ UNCHANGED <<now, operations>>
    BY <1>5 DEF MfaEnabled, GoesOnToRevoke, WithFactor
  <2>4. q.at \notin Reading \cup Numbered BY RestsLocks
  <2>5. a.lockedUntil = accounts[u].lockedUntil BY <1>3, <2>1, RowLocks
  <2> HIDE DEF u, a, q
  <2> QED BY <1>3, <2>2, <2>3, <2>4, <2>5, WriteLocks
<1>6. ASSUME NEW code \in Steps, MfaDisabled(r, code) PROVE Fresh' /\ LockStep
  <2> DEFINE a == WithFactor(accounts[u], NoFactor, -1)
  <2>1. NoFactor \in Nat /\ -1 \in Int BY DEF NoFactor
  <2>2. a.password = accounts[u].password BY <1>3, <2>1, RowFactor
  <2>3. Updates(u, a) /\ Becomes(r, Idle) /\ UNCHANGED <<now, operations>>
    BY <1>6 DEF MfaDisabled, Ends, WithFactor
  <2>4. Idle.at \notin Reading \cup Numbered BY RestsLocks
  <2>5. a.lockedUntil = accounts[u].lockedUntil BY <1>3, <2>1, RowLocks
  <2> HIDE DEF u, a
  <2> QED BY <1>3, <2>2, <2>3, <2>4, <2>5, WriteLocks
<1> QED BY <1>4, <1>5, <1>6

LEMMA ActsAsUserLocks ==
  ASSUME AInv, Fresh, NEW r \in Requests, ActsAsUser(r)
  PROVE  Fresh' /\ LockStep
<1>1. ASSUME NEW j \in jwts, Arrives(r, j) PROVE Fresh' /\ LockStep
  <2> DEFINE q == [at |-> "session", user |-> j.user, role |-> j.role, sid |-> j.sid,
                   mustChange |-> accounts[j.user].mustChange, ended |-> ~SessionActive(j.sid)]
  <2>1. q.at \notin Reading \cup Numbered BY DEF Reading, Numbered
  <2>2. Becomes(r, q) /\ UNCHANGED <<now, accounts, operations>> BY <1>1 DEF Arrives
  <2> HIDE DEF q
  <2> QED BY <2>1, <2>2, QuietThreadLocks
<1>2. ASSUME Admitted(r) PROVE Fresh' /\ LockStep
  <2> DEFINE q == [requests[r] EXCEPT !.at = "admitted"]
  <2>1. requests[r] \in Principal BY <1>2, AtPrincipal DEF AInv, Admitted, At
  <2>2. q.at = "admitted" BY <2>1 DEF Principal
  <2>3. Becomes(r, q) /\ UNCHANGED <<now, accounts, operations>> BY <1>2 DEF Admitted, Goes
  <2> HIDE DEF q
  <2> QED BY <2>2, <2>3, QuietThreadLocks DEF Reading, Numbered
<1>3. ASSUME Leaves(r) \/ RevokesSessions(r) \/ MfaStays(r) PROVE Fresh' /\ LockStep
  <2>1. Becomes(r, Idle) /\ UNCHANGED <<now, accounts, operations>>
    BY <1>3 DEF Leaves, RevokesSessions, MfaStays, Ends
  <2> QED BY <2>1, RestsLocks, QuietThreadLocks
<1>4. ASSUME PasswordVerify(r) \/ MfaSetup(r) PROVE Fresh' /\ LockStep
  <2>1. PICK step \in {"new password", "set up"} : Change(r, step, requests[r].user, requests[r].sid)
    BY <1>4 DEF PasswordVerify, MfaSetup
  <2> DEFINE q == [at |-> step, user |-> requests[r].user, keep |-> requests[r].sid,
                   number |-> operations + 1]
  <2>2. q.at \notin Reading /\ q.number = operations + 1 BY DEF Reading
  <2>3. Becomes(r, q) /\ Begins /\ UNCHANGED <<now, accounts>> BY <2>1 DEF Change
  <2> HIDE DEF q
  <2> QED BY <2>2, <2>3, BeginsLocks
<1>5. ASSUME NEW code \in Steps, MfaEnable(r, code) PROVE Fresh' /\ LockStep
  <2> DEFINE q == [at |-> "enable", user |-> requests[r].user, keep |-> requests[r].sid,
                   secret |-> Own(r).pending, code |-> code]
  <2>1. q.at \notin Reading \cup Numbered BY DEF Reading, Numbered
  <2>2. Becomes(r, q) /\ Begins /\ UNCHANGED <<now, accounts>> BY <1>5 DEF MfaEnable
  <2> HIDE DEF q
  <2> QED BY <2>1, <2>2, BeginsLocks
<1>6. ASSUME MfaDisable(r) PROVE Fresh' /\ LockStep
  <2> DEFINE q == [at |-> "disable", user |-> requests[r].user, lastStep |-> Own(r).lastStep]
  <2>1. q.at \notin Reading \cup Numbered BY DEF Reading, Numbered
  <2>2. Becomes(r, q) /\ Begins /\ UNCHANGED <<now, accounts>> BY <1>6 DEF MfaDisable
  <2> HIDE DEF q
  <2> QED BY <2>1, <2>2, BeginsLocks
<1> QED BY <1>1, <1>2, <1>3, <1>4, <1>5, <1>6, PasswordSetLocks, FactorLocks DEF ActsAsUser

LEMMA UpdatesLocks ==
  ASSUME AInv, Fresh, NEW r \in Requests, UpdatesUser(r)
  PROVE  Fresh' /\ LockStep
<1> DEFINE u == requests[r].user
<1>1. requests[r].at \in {"active", "role"} BY DEF UpdatesUser, At
<1>2. requests[r] \in Changing BY <1>1, AtChanging DEF AInv
<1>3. u \in Users /\ Exists(u) /\ accounts[u] \in AccountRow BY <1>1, UserExists
<1>4. PICK q : Becomes(r, q) /\ q.at \notin Reading \cup Numbered
  BY RestsLocks DEF UpdatesUser, GoesOnToRevoke, Ends
<1>5. UNCHANGED <<now, operations>> BY DEF UpdatesUser
<1>6. CASE At(r, "active")
  <2> DEFINE a == [accounts[u] EXCEPT !.active = requests[r].value]
  <2>1. requests[r].value \in BOOLEAN BY <1>2, <1>6, AtLabel DEF At
  <2>2. a.password = accounts[u].password /\ a.lockedUntil = accounts[u].lockedUntil
    BY <1>3, <2>1, RowFields, RowLocks
  <2>3. Updates(u, a) BY <1>6 DEF UpdatesUser, At
  <2> HIDE DEF u, a
  <2> QED BY <1>3, <1>4, <1>5, <2>2, <2>3, WriteLocks
<1>7. CASE At(r, "role")
  <2> DEFINE a == [accounts[u] EXCEPT !.role = requests[r].value]
  <2>1. requests[r].value \in USER_ROLES BY <1>2, <1>7, AtLabel DEF At
  <2>2. a.password = accounts[u].password /\ a.lockedUntil = accounts[u].lockedUntil
    BY <1>3, <2>1, RowFields, RowLocks
  <2>3. Updates(u, a) BY <1>7 DEF UpdatesUser, At
  <2> HIDE DEF u, a
  <2> QED BY <1>3, <1>4, <1>5, <2>2, <2>3, WriteLocks
<1> QED BY <1>6, <1>7 DEF UpdatesUser

LEMMA ResetsLocks ==
  ASSUME AInv, Fresh, NEW r \in Requests, ResetsPassword(r) \/ ClearsFactor(r)
  PROVE  Fresh' /\ LockStep
<1> DEFINE u == requests[r].user
<1>1. requests[r].at \in {"reset", "clear factor"} BY DEF ResetsPassword, ClearsFactor, At
<1>2. requests[r] \in Changing BY <1>1, AtChanging DEF AInv
<1>3. u \in Users /\ Exists(u) /\ accounts[u] \in AccountRow BY <1>1, UserExists
<1>4. CASE ResetsPassword(r)
  <2> DEFINE a == WithPassword(accounts[u], requests[r].number, TRUE)
             q == [at |-> "clear factor", user |-> u, keep |-> requests[r].keep, cli |-> requests[r].cli]
  <2>1. requests[r].at = "reset" BY <1>4 DEF ResetsPassword, At
  <2>2. requests[r].number \in Nat BY <1>2, <2>1, AtLabel
  <2>3. a.password = requests[r].number BY <1>3, <2>2, RowPassword
  <2>4. q.at \notin Reading \cup Numbered BY DEF Reading, Numbered
  <2>5. Updates(u, a) /\ Becomes(r, q) /\ UNCHANGED <<now, operations>> BY <1>4 DEF ResetsPassword
  <2> HIDE DEF u, a, q
  <2> QED BY <1>3, <2>1, <2>3, <2>4, <2>5, PasswordLocks DEF Numbered
<1>5. CASE ClearsFactor(r)
  <2> DEFINE active == requests[r].cli \/ accounts[u].active
             b      == WithFactor(accounts[u], NoFactor, -1)
             a      == [b EXCEPT !.active = active]
             q      == [at |-> "revoke", user |-> u, keep |-> requests[r].keep]
  <2>1. NoFactor \in Nat /\ -1 \in Int /\ active \in BOOLEAN BY DEF NoFactor
  <2>2. /\ b \in AccountRow /\ b.password = accounts[u].password
        /\ b.lockedUntil = accounts[u].lockedUntil
    BY <1>3, <2>1, RowFactor, RowLocks
  <2>3. q.at \notin Reading \cup Numbered BY RestsLocks
  <2>4. Updates(u, a) /\ Becomes(r, q) /\ UNCHANGED <<now, operations>>
    BY <1>5 DEF ClearsFactor, WithFactor, GoesOnToRevoke
  <2> HIDE DEF u, active, b, q
  <2>5. a.password = b.password /\ a.lockedUntil = b.lockedUntil BY <2>1, <2>2, RowFields, RowLocks
  <2> HIDE DEF a
  <2> QED BY <1>3, <2>2, <2>3, <2>4, <2>5, WriteLocks
<1> QED BY <1>4, <1>5

LEMMA CreatesLocks ==
  ASSUME AInv, Fresh, NEW r \in Requests, NEW u \in Users, NEW role \in USER_ROLES,
         NEW mustChange \in BOOLEAN,
         CliCreateUser(r, u, role, mustChange) \/ CreateUser(r, u, role)
  PROVE  Fresh' /\ LockStep
<1> DEFINE a(must) == Account(role, operations + 1, must, NoFactor)
<1>1. \A must : a(must).password = operations + 1 BY DEF Account
<1>2. CASE CliCreateUser(r, u, role, mustChange)
  <2>1. Becomes(r, requests[r]) /\ requests[r].at = "idle" 
    BY <1>2 DEF AInv, ATypeOK, CliCreateUser, Becomes, At
  <2>2. Begins /\ now' = now /\ ~Exists(u) /\ Updates(u, a(mustChange)) BY <1>2 DEF CliCreateUser
  <2> HIDE DEF a
  <2> QED BY <1>1, <2>1, <2>2, CreatedLocks DEF Reading, Numbered
<1>3. CASE CreateUser(r, u, role)
  <2>1. Becomes(r, Idle) /\ Begins /\ now' = now /\ ~Exists(u) /\ Updates(u, a(TRUE))
    BY <1>3 DEF CreateUser, Ends
  <2> HIDE DEF a
  <2> QED BY <1>1, <2>1, RestsLocks, CreatedLocks
<1> QED BY <1>2, <1>3

LEMMA AdministersLocks ==
  ASSUME AInv, Fresh, NEW r \in Requests, Administers(r)
  PROVE  Fresh' /\ LockStep
<1>1. ASSUME NEW u \in Users, NEW field \in {"active", "role"}, NEW value, UpdateUser(r, u, field, value)
      PROVE  Fresh' /\ LockStep
  <2> DEFINE q == [at |-> field, user |-> u, keep |-> 0, value |-> value,
                   revoke |-> ~Harmless(u, field, value)]
  <2>1. q.at \notin Reading \cup Numbered BY DEF Reading, Numbered
  <2>2. Becomes(r, q) /\ Begins /\ UNCHANGED <<now, accounts>> BY <1>1 DEF UpdateUser
  <2> HIDE DEF q
  <2> QED BY <2>1, <2>2, BeginsLocks
<1>2. ASSUME NEW u \in Users, ResetUser(r, u) \/ CliResetUser(r, u) PROVE Fresh' /\ LockStep
  <2>1. PICK cli \in BOOLEAN :
          Becomes(r, [at |-> "reset", user |-> u, keep |-> 0, number |-> operations + 1, cli |-> cli])
    BY <1>2 DEF ResetUser, CliResetUser
  <2> DEFINE q == [at |-> "reset", user |-> u, keep |-> 0, number |-> operations + 1, cli |-> cli]
  <2>2. q.at \notin Reading /\ q.number = operations + 1 BY DEF Reading
  <2>3. Becomes(r, q) /\ Begins /\ UNCHANGED <<now, accounts>>
    BY <1>2, <2>1 DEF ResetUser, CliResetUser
  <2> HIDE DEF q
  <2> QED BY <2>2, <2>3, BeginsLocks
<1>3. \A u \in Users, role \in USER_ROLES : CliSeedUser(r, u, role) => CliCreateUser(r, u, role, TRUE)
  BY DEF CliSeedUser
<1> QED BY <1>1, <1>2, <1>3, CreatesLocks, UpdatesLocks, ResetsLocks DEF Administers

LEMMA StepLocks ==
  ASSUME AInv, Fresh, [ANext]_avars
  PROVE  Fresh' /\ LockStep
<1>1. now \in Nat BY DEF AInv, ATypeOK
<1>2. ASSUME NEW t \in DOMAIN tokens, RefreshReused(t) PROVE Fresh' /\ LockStep
  BY <1>1, <1>2, NobodyLocks DEF RefreshReused
<1>3. ASSUME NEW s \in DOMAIN sessions, Logout(s) PROVE Fresh' /\ LockStep
  BY <1>1, <1>3, NobodyLocks DEF Logout
<1>4. CASE Tick \/ UNCHANGED avars
  BY <1>1, <1>4, NobodyLocks DEF Tick, avars
<1> QED BY <1>2, <1>3, <1>4, SignsInLocks, RenewsLocks, ActsAsUserLocks, AdministersLocks DEF ANext

\* A lock set by a run of failures is lifted before its time only by a new password,
\* or by a sign-in that had read the account before it was locked: no sign-in that
\* comes to a locked account lifts it, whatever the other threads do meanwhile.
THEOREM LocksOutlastSignIns == ASpec => LockOutlastsNewSignIns
<1>1. AInit => AInv /\ Fresh
  <2> SUFFICES ASSUME AInit PROVE Fresh BY Initially
  <2>1. operations = 1 BY DEF AInit, Starts
  <2>2. \A r \in Requests : requests[r].at \notin Reading \cup Numbered
    BY RestsLocks DEF AInit, Starts
  <2>3. ASSUME NEW u \in Users, Exists(u) PROVE accounts[u].password = 0
    <3>1. accounts[u] = Account(Staff[u], 0, FALSE, Enrolment(Enrolled, u))
      BY <2>3 DEF AInit, Starts, Exists
    <3> QED BY <3>1 DEF Account
  <2> QED BY <2>1, <2>2, <2>3 DEF Fresh
<1>2. AInv /\ Fresh /\ [ANext]_avars => (AInv /\ Fresh)' BY StepInvariant, StepLocks
<1>3. AInv /\ Fresh /\ [ANext]_avars =>
        [\A u \in Users :
           /\ Exists(u)
           /\ accounts[u].lockedUntil > now
           /\ accounts'[u].lockedUntil # accounts[u].lockedUntil
           => \/ accounts'[u].password # accounts[u].password
              \/ \E r \in Requests : /\ requests'[r] # requests[r]
                                      /\ requests[r].at \in {"failed", "code", "clear"}
                                      /\ requests[r].user = u
                                      /\ requests[r].lockedUntil # accounts[u].lockedUntil]_avars
  BY StepLocks DEF LockStep, Reading
<1> QED BY <1>1, <1>2, <1>3, PTL DEF ASpec, LockOutlastsNewSignIns
=============================================================================
