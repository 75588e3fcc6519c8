------------------------------- MODULE Sessions -------------------------------
(***************************************************************************)
(* Accounts, sign-ins, sessions and second factors of the gateway          *)
(* (api/auth.py, api/totp.py), and the operator's command line on the same *)
(* database (api/manage.py).                                               *)
(*                                                                         *)
(* Each method of UserStore is one transaction under the store's lock; the *)
(* handlers call several of them, in threads of their own, and check the   *)
(* password (bcrypt, some 200 ms) in between.  An action is what a handler *)
(* does up to its next call of the store.                                  *)
(*                                                                         *)
(* The accounts are those of one organisation: _member reports the others  *)
(* as missing.  A password or a TOTP secret is the number of the change    *)
(* that brought it in, which keeps any two apart, as random ones are.  One *)
(* tick of the clock is one TOTP step.                                     *)
(***************************************************************************)
EXTENDS Integers, Sequences, FiniteSets

CONSTANTS
  Users,      \* the usernames
  Staff,      \* the accounts there are at first, with their roles
  Enrolled,   \* those of them with a second factor
  SignedIn,   \* those of them who have just signed in, as a sequence
  Requests,   \* the request threads
  MAX_FAILED_LOGINS, LOCKOUT_S, ACCESS_TTL_S, REFRESH_TTL_S, REFRESH_REUSE_GRACE_S,
  MaxTime,       \* bounds of the model: the clock, and how many sign-ins, renewals
  MaxOperations  \* and changes of accounts there are in one behaviour, and one more

ASSUME SettingsAssumption ==
  /\ MAX_FAILED_LOGINS \in Nat \ {0}
  /\ {LOCKOUT_S, ACCESS_TTL_S, REFRESH_TTL_S, REFRESH_REUSE_GRACE_S} \subseteq Nat
  /\ {MaxTime, MaxOperations} \subseteq Nat

USER_ROLES == {"official", "fact_checker", "observer"}

ASSUME StaffAssumption ==
  /\ DOMAIN Staff \subseteq Users
  /\ \A u \in DOMAIN Staff : Staff[u] \in USER_ROLES
  /\ Enrolled \subseteq DOMAIN Staff
  /\ SignedIn \in Seq(DOMAIN Staff)

VARIABLES
  now,       \* time.time()
  accounts,  \* the table users
  sessions,  \* the table sessions; a sid is a position
  tokens,    \* the table refresh_tokens, with the times it was last honoured
  jwts,      \* the access tokens handed out
  requests,  \* the request each thread is at
  operations \* how many sign-ins, renewals and changes of accounts have begun

avars == <<now, accounts, sessions, tokens, jwts, requests, operations>>

NoFactor  == 0
NoAccount == [role |-> "none"]
Idle      == [at |-> "idle"]

Account(role, password, mustChange, secret) ==
  [role |-> role, password |-> password, active |-> TRUE, mustChange |-> mustChange,
   failed |-> 0, lockedUntil |-> 0, secret |-> secret, pending |-> NoFactor, lastStep |-> -1]

\* Accounts made with manage.py create-user --password-stdin, some of them
\* enrolled since: password 0, secret 1.
Enrolment(enrolled, u) == IF u \in enrolled THEN 1 ELSE NoFactor

NewSession(u, proof, late) ==
  [user |-> u, expires |-> now + REFRESH_TTL_S, revoked |-> FALSE, proof |-> proof, late |-> late]

\* A token nobody has presented yet.
NewToken(s, expires) ==
  [sid |-> s, expires |-> expires, used |-> FALSE, usedAt |-> 0, first |-> 0, last |-> 0]

AccessToken(u, role, s) ==
  [user |-> u, role |-> role, sid |-> s, expires |-> now + ACCESS_TTL_S]

\* These accounts, some enrolled, and these of them signed in; so many changes done.
Starts(staff, enrolled, signedIn, done) ==
  /\ now = 0
  /\ accounts = [u \in Users |->
       IF u \in DOMAIN staff THEN Account(staff[u], 0, FALSE, Enrolment(enrolled, u)) ELSE NoAccount]
  /\ sessions = [s \in DOMAIN signedIn |->
       NewSession(signedIn[s], [password |-> 0, secret |-> Enrolment(enrolled, signedIn[s])], FALSE)]
  /\ tokens = [s \in DOMAIN signedIn |-> NewToken(s, REFRESH_TTL_S)]
  /\ jwts = {AccessToken(signedIn[s], staff[signedIn[s]], s) : s \in DOMAIN signedIn}
  /\ requests = [r \in Requests |-> Idle]
  /\ operations = done

AInit == Starts(Staff, Enrolled, SignedIn, 1)

Exists(u) == accounts[u] # NoAccount
At(r, step) == requests[r].at = step
Becomes(r, request) == requests' = [requests EXCEPT ![r] = request]
Goes(r, step) == Becomes(r, [requests[r] EXCEPT !.at = step])
Ends(r) == Becomes(r, Idle)
GoesOnToRevoke(r) ==
  Becomes(r, [at |-> "revoke", user |-> requests[r].user, keep |-> requests[r].keep])
Updates(u, account) == accounts' = [accounts EXCEPT ![u] = account]

\* Each sign-in, renewal and change has a number, which names the password or the
\* secret that a change brings in.
Begins == operations < MaxOperations /\ operations' = operations + 1

-----------------------------------------------------------------------------
(* UserStore. *)

\* register_failure: a failure that does not lock the account unlocks it.
RegisterFailure(a) ==
  IF a.failed + 1 >= MAX_FAILED_LOGINS
    THEN [a EXCEPT !.failed = 0, !.lockedUntil = now + LOCKOUT_S]
    ELSE [a EXCEPT !.failed = a.failed + 1, !.lockedUntil = 0]

\* set_password.
WithPassword(a, password, mustChange) ==
  [a EXCEPT !.password = password, !.mustChange = mustChange, !.failed = 0, !.lockedUntil = 0]

SessionActive(s) == ~sessions[s].revoked /\ sessions[s].expires > now

\* Mutant: the session to spare is ended, the others are spared.
Revoked_other(u, exceptSid) ==
  [s \in DOMAIN sessions |->
     IF s = exceptSid THEN [sessions[s] EXCEPT !.revoked = TRUE] ELSE sessions[s]]
\* revoke_user_sessions; exceptSid 0 is the empty string.
Revoked(u, exceptSid) ==
  [s \in DOMAIN sessions |->
     IF sessions[s].user = u /\ s # exceptSid
       THEN [sessions[s] EXCEPT !.revoked = TRUE] ELSE sessions[s]]

RevokeSession(s) == sessions' = [sessions EXCEPT ![s].revoked = TRUE]

\* totp.verify of the code for this step, by the device that holds the secret; the
\* two clocks are a step apart at most.
Steps == {now - 1, now, now + 1}
VerifyTotp(code, lastStep) == code \in Steps /\ code > lastStep

-----------------------------------------------------------------------------
(* Signing in. *)

\* What a sign-in keeps of the row it has read.
Attempt(u, step) ==
  [at |-> step, user |-> u, password |-> accounts[u].password, secret |-> accounts[u].secret,
   lastStep |-> accounts[u].lastStep, lockedUntil |-> accounts[u].lockedUntil]

\* Mutant: the lock is not looked at.
Unlocked_always(u) == TRUE
Unlocked(u) == accounts[u].lockedUntil <= now

\* login reads the row and judges the password by it.
LoginRead(r, u, right) ==
  /\ At(r, "idle")
  /\ Exists(u)
  /\ Unlocked(u)
  /\ right => accounts[u].active
  /\ Begins
  /\ Becomes(r, Attempt(u, IF ~right THEN "failed"
                           ELSE IF accounts[u].secret # NoFactor THEN "code" ELSE "clear"))
  /\ UNCHANGED <<now, accounts, sessions, tokens, jwts>>

\* An unknown name, a locked or disabled account, or no code: nothing changes.
LoginRefused(r) == At(r, "idle") /\ UNCHANGED avars

\* A wrong password, or a code that is wrong or was used: register_failure.
LoginFails(r) ==
  /\ At(r, "failed") \/ At(r, "code")
  /\ LET u == requests[r].user IN Updates(u, RegisterFailure(accounts[u]))
  /\ Ends(r)
  /\ UNCHANGED <<now, sessions, tokens, jwts, operations>>

\* The step of the code is written to the row; it is compared with the step the
\* row held when it was read.
LoginTakesCode(r, code) ==
  /\ At(r, "code")
  /\ VerifyTotp(code, requests[r].lastStep)
  /\ LET u == requests[r].user IN
       Updates(u, [accounts[u] EXCEPT !.lastStep = code])
  /\ Goes(r, "clear")
  /\ UNCHANGED <<now, sessions, tokens, jwts, operations>>

\* clear_failures.
LoginClears(r) ==
  /\ At(r, "clear")
  /\ LET u == requests[r].user IN
       Updates(u, [accounts[u] EXCEPT !.failed = 0, !.lockedUntil = 0])
  /\ Goes(r, "open")
  /\ UNCHANGED <<now, sessions, tokens, jwts, operations>>

\* What a sign-in proved is still what the account asks for.
Proves(proof, a) == proof.password = a.password /\ a.secret \in {NoFactor, proof.secret}

\* create_session, whatever has become of the account since it was read.
LoginOpens(r) ==
  /\ At(r, "open")
  /\ LET u     == requests[r].user
         proof == [password |-> requests[r].password, secret |-> requests[r].secret]
     IN  /\ sessions' = Append(sessions, NewSession(u, proof, ~Proves(proof, accounts[u])))
         /\ tokens' = Append(tokens, NewToken(Len(sessions) + 1, now + REFRESH_TTL_S))
         /\ Becomes(r, [at |-> "answer", user |-> u, sid |-> Len(sessions) + 1,
                        token |-> Len(tokens) + 1])
  /\ UNCHANGED <<now, accounts, jwts, operations>>

\* _session_response: the access token is made from the row as it is by now.
\* refresh first looks whether the account is active; login does not.
Answers(r) ==
  /\ At(r, "answer") \/ (At(r, "renewed") /\ accounts[requests[r].user].active)
  /\ LET u == requests[r].user IN
       jwts' = jwts \cup {AccessToken(u, accounts[u].role, requests[r].sid)}
  /\ Ends(r)
  /\ UNCHANGED <<now, accounts, sessions, tokens, operations>>

-----------------------------------------------------------------------------
(* Renewing and ending a session. *)

\* A token is known to its client when the answer that carries it has left.
Delivered(t) ==
  \A r \in Requests :
    requests[r].at \in {"answer", "renewed", "drop"} => requests[r].token # t

\* rotate_refresh finds the token used, longer ago than the grace allows.
Reused(t) == tokens[t].used /\ now - tokens[t].usedAt > REFRESH_REUSE_GRACE_S

\* rotate_refresh: "reused".
RefreshReused(t) ==
  /\ Delivered(t)
  /\ Reused(t)
  /\ RevokeSession(tokens[t].sid)
  /\ UNCHANGED <<now, accounts, tokens, jwts, requests, operations>>

\* Mutant: the grace starts again with every presentation.
MarkUsed_again(token) ==
  [token EXCEPT !.used = TRUE, !.usedAt = now,
                !.first = IF token.used THEN token.first ELSE now, !.last = now]
\* Only the first presentation is noted; first and last are history.
MarkUsed(token) ==
  [token EXCEPT !.used = TRUE, !.usedAt = IF token.used THEN token.usedAt ELSE now,
                !.first = IF token.used THEN token.first ELSE now, !.last = now]

\* rotate_refresh: "ok".  The new token lives no longer than the session.
RefreshRotates(r, t) ==
  /\ At(r, "idle")
  /\ Delivered(t)
  /\ ~Reused(t)
  /\ ~sessions[tokens[t].sid].revoked
  /\ tokens[t].expires >= now
  /\ sessions[tokens[t].sid].expires >= now
  /\ Begins
  /\ tokens' = Append([tokens EXCEPT ![t] = MarkUsed(tokens[t])], 
                       NewToken(tokens[t].sid, sessions[tokens[t].sid].expires))
  /\ Becomes(r, [at |-> "renewed", user |-> sessions[tokens[t].sid].user, sid |-> tokens[t].sid,
                 token |-> Len(tokens) + 1])
  /\ UNCHANGED <<now, accounts, sessions, jwts>>

\* refresh finds the account disabled, then ends the session.
RefreshFindsDisabled(r) ==
  /\ At(r, "renewed")
  /\ ~accounts[requests[r].user].active
  /\ Goes(r, "drop")
  /\ UNCHANGED <<now, accounts, sessions, tokens, jwts, operations>>

RefreshDrops(r) ==
  /\ At(r, "drop")
  /\ RevokeSession(requests[r].sid)
  /\ Ends(r)
  /\ UNCHANGED <<now, accounts, tokens, jwts, operations>>

\* logout, with the refresh token or, failing that, an access token of any age.
Logout(s) ==
  /\ \/ \E t \in DOMAIN tokens : tokens[t].sid = s /\ Delivered(t)
     \/ \E j \in jwts : j.sid = s
  /\ RevokeSession(s)
  /\ UNCHANGED <<now, accounts, tokens, jwts, requests, operations>>

-----------------------------------------------------------------------------
(* A request with an access token: get_principal. *)

\* decode_access_token; the signature is taken as sound.
Decodes(j) == j.expires > now

\* The account is looked up first.  `ended` is history: whether the session was
\* over when the request came.
Arrives(r, j) ==
  /\ At(r, "idle")
  /\ Decodes(j)
  /\ accounts[j.user].active
  /\ accounts[j.user].role = j.role
  /\ Becomes(r, [at |-> "session", user |-> j.user, role |-> j.role, sid |-> j.sid,
                 mustChange |-> accounts[j.user].mustChange, ended |-> ~SessionActive(j.sid)])
  /\ UNCHANGED <<now, accounts, sessions, tokens, jwts, operations>>

\* Mutant: the session is not looked up.
Admitted_unchecked(r) ==
  /\ At(r, "session")
  /\ Goes(r, "admitted")
  /\ UNCHANGED <<now, accounts, sessions, tokens, jwts, operations>>
\* Then the session.
Admitted(r) ==
  /\ At(r, "session")
  /\ SessionActive(requests[r].sid)
  /\ Goes(r, "admitted")
  /\ UNCHANGED <<now, accounts, sessions, tokens, jwts, operations>>

\* The request is refused for its session, or was one that changes nothing here.
Leaves(r) ==
  /\ At(r, "admitted") \/ (At(r, "session") /\ ~SessionActive(requests[r].sid))
  /\ Ends(r)
  /\ UNCHANGED <<now, accounts, sessions, tokens, jwts, operations>>

\* require("official", humans_only=True).
OrgAdmin(r) == At(r, "admitted") /\ ~requests[r].mustChange /\ requests[r].role = "official"

\* What a handler goes on to do to an account, under this number, sparing this
\* session when it ends the others.
Change(r, step, u, sid) ==
  /\ Begins
  /\ Becomes(r, [at |-> step, user |-> u, keep |-> sid, number |-> operations + 1])
  /\ UNCHANGED <<now, accounts, sessions, tokens, jwts>>

\* _require_user reads the row that the handlers below judge by.
Own(r) == accounts[requests[r].user]

-----------------------------------------------------------------------------
(* One's own account. *)

\* change_password, with the right current password.
PasswordVerify(r) ==
  /\ At(r, "admitted")
  /\ Change(r, "new password", requests[r].user, requests[r].sid)

\* set_password; the session it is done from has proved the new one.
PasswordSet(r) ==
  /\ At(r, "new password")
  /\ LET u == requests[r].user IN
       Updates(u, WithPassword(accounts[u], requests[r].number, FALSE))
  /\ sessions' = [sessions EXCEPT ![requests[r].keep].proof.password = requests[r].number]
  /\ GoesOnToRevoke(r)
  /\ UNCHANGED <<now, tokens, jwts, operations>>

\* revoke_user_sessions, the last step of whatever ends sessions.
RevokesSessions(r) ==
  /\ At(r, "revoke")
  /\ sessions' = Revoked(requests[r].user, requests[r].keep)
  /\ Ends(r)
  /\ UNCHANGED <<now, accounts, tokens, jwts, operations>>

\* mfa_setup looks for a second factor, then writes a new secret.
MfaSetup(r) ==
  /\ At(r, "admitted")
  /\ Own(r).secret = NoFactor
  /\ Change(r, "set up", requests[r].user, requests[r].sid)

MfaPending(r) ==
  /\ At(r, "set up")
  /\ LET u == requests[r].user IN
       Updates(u, [accounts[u] EXCEPT !.pending = requests[r].number])
  /\ Ends(r)
  /\ UNCHANGED <<now, sessions, tokens, jwts, operations>>

\* mfa_enable judges the code by the pending secret it read, whatever the step,
\* and makes that one the account's.
MfaEnable(r, code) ==
  /\ At(r, "admitted")
  /\ Own(r).pending # NoFactor
  /\ VerifyTotp(code, -1)
  /\ Begins
  /\ Becomes(r, [at |-> "enable", user |-> requests[r].user, keep |-> requests[r].sid,
                 secret |-> Own(r).pending, code |-> code])
  /\ UNCHANGED <<now, accounts, sessions, tokens, jwts>>

MfaEnabled(r) ==
  /\ At(r, "enable")
  /\ LET u == requests[r].user IN
       Updates(u, [accounts[u] EXCEPT !.secret = requests[r].secret, !.pending = NoFactor,
                                      !.lastStep = requests[r].code])
  /\ sessions' = [sessions EXCEPT ![requests[r].keep].proof.secret = requests[r].secret]
  /\ GoesOnToRevoke(r)
  /\ UNCHANGED <<now, tokens, jwts, operations>>

\* mfa_disable reads the row, then checks the password and the code by it; the
\* code is not noted, and no session ends.
MfaDisable(r) ==
  /\ At(r, "admitted")
  /\ Own(r).secret # NoFactor
  /\ Begins
  /\ Becomes(r, [at |-> "disable", user |-> requests[r].user, lastStep |-> Own(r).lastStep])
  /\ UNCHANGED <<now, accounts, sessions, tokens, jwts>>

MfaDisabled(r, code) ==
  /\ At(r, "disable")
  /\ VerifyTotp(code, requests[r].lastStep)
  /\ LET u == requests[r].user IN
       Updates(u, [accounts[u] EXCEPT !.secret = NoFactor, !.pending = NoFactor, !.lastStep = -1])
  /\ Ends(r)
  /\ UNCHANGED <<now, sessions, tokens, jwts, operations>>

\* The code was wrong.
MfaStays(r) ==
  /\ At(r, "disable")
  /\ Ends(r)
  /\ UNCHANGED <<now, accounts, sessions, tokens, jwts, operations>>

-----------------------------------------------------------------------------
(* Administration, by an official or from the command line. *)

\* create_user: a one-time password, which the user has to change.
CreateUser(r, u, role) ==
  /\ OrgAdmin(r)
  /\ ~Exists(u)
  /\ Begins
  /\ Updates(u, Account(role, operations + 1, TRUE, NoFactor))
  /\ Ends(r)
  /\ UNCHANGED <<now, sessions, tokens, jwts>>

\* create-user of manage.py, which may choose the password.
CliCreateUser(r, u, role, mustChange) ==
  /\ At(r, "idle")
  /\ ~Exists(u)
  /\ Begins
  /\ Updates(u, Account(role, operations + 1, mustChange, NoFactor))
  /\ UNCHANGED <<now, sessions, tokens, jwts, requests>>

\* seed-demo of manage.py, for each organisation's official and fact-checker that
\* is not there yet, one transaction each.
CliSeedUser(r, u, role) == role # "observer" /\ CliCreateUser(r, u, role, TRUE)

\* _member; accounts of other organisations are reported as missing.
Member(u) == Exists(u)

\* Neither disables the account nor gives it another role.
Harmless(u, field, value) == IF field = "active" THEN value ELSE value = accounts[u].role

\* update_user reads the account to see whether its role will be another.  A
\* request names one field, as the web client's do; the display name is left out.
UpdateUser(r, u, field, value) ==
  /\ OrgAdmin(r)
  /\ Member(u)
  /\ u = requests[r].user => Harmless(u, field, value)
  /\ Begins
  /\ Becomes(r, [at |-> field, user |-> u, keep |-> 0, value |-> value,
                 revoke |-> ~Harmless(u, field, value)])
  /\ UNCHANGED <<now, accounts, sessions, tokens, jwts>>

UpdatesUser(r) ==
  /\ LET u == requests[r].user IN
       \/ At(r, "active") /\ Updates(u, [accounts[u] EXCEPT !.active = requests[r].value])
       \/ At(r, "role")   /\ Updates(u, [accounts[u] EXCEPT !.role = requests[r].value])
  /\ IF requests[r].revoke THEN GoesOnToRevoke(r) ELSE Ends(r)
  /\ UNCHANGED <<now, sessions, tokens, jwts, operations>>

\* reset_user, on whatever account, one's own included.
ResetUser(r, u) ==
  /\ OrgAdmin(r)
  /\ Member(u)
  /\ Begins
  /\ Becomes(r, [at |-> "reset", user |-> u, keep |-> 0, number |-> operations + 1, cli |-> FALSE])
  /\ UNCHANGED <<now, accounts, sessions, tokens, jwts>>

\* reset of manage.py, which will re-enable the account as well.
CliResetUser(r, u) ==
  /\ At(r, "idle")
  /\ Exists(u)
  /\ Begins
  /\ Becomes(r, [at |-> "reset", user |-> u, keep |-> 0, number |-> operations + 1, cli |-> TRUE])
  /\ UNCHANGED <<now, accounts, sessions, tokens, jwts>>

ResetsPassword(r) ==
  /\ At(r, "reset")
  /\ LET u == requests[r].user IN
       Updates(u, WithPassword(accounts[u], requests[r].number, TRUE))
  /\ Becomes(r, [at |-> "clear factor", user |-> requests[r].user, keep |-> requests[r].keep,
                 cli |-> requests[r].cli])
  /\ UNCHANGED <<now, sessions, tokens, jwts, operations>>

ClearsFactor(r) ==
  /\ At(r, "clear factor")
  /\ LET u == requests[r].user IN
       Updates(u, [accounts[u] EXCEPT !.secret = NoFactor, !.pending = NoFactor, !.lastStep = -1,
                                      !.active = requests[r].cli \/ accounts[u].active])
  /\ GoesOnToRevoke(r)
  /\ UNCHANGED <<now, sessions, tokens, jwts, operations>>

\* Access tokens that have expired are forgotten: nothing takes them but logout,
\* which takes the refresh token as well.
Tick ==
  /\ now < MaxTime
  /\ now' = now + 1
  /\ jwts' = {j \in jwts : j.expires > now'}
  /\ UNCHANGED <<accounts, sessions, tokens, requests, operations>>

SignsIn(r) ==
  \/ \E u \in Users, right \in BOOLEAN : LoginRead(r, u, right)
  \/ \E code \in Steps : LoginTakesCode(r, code)
  \/ LoginRefused(r) \/ LoginFails(r) \/ LoginClears(r) \/ LoginOpens(r) \/ Answers(r)

Renews(r) ==
  \/ \E t \in DOMAIN tokens : RefreshRotates(r, t)
  \/ RefreshFindsDisabled(r) \/ RefreshDrops(r)

ActsAsUser(r) ==
  \/ \E j \in jwts : Arrives(r, j)
  \/ Admitted(r) \/ Leaves(r)
  \/ PasswordVerify(r) \/ PasswordSet(r) \/ RevokesSessions(r)
  \/ MfaSetup(r) \/ MfaPending(r) \/ MfaEnabled(r) \/ MfaDisable(r) \/ MfaStays(r)
  \/ \E code \in Steps : MfaEnable(r, code) \/ MfaDisabled(r, code)

Administers(r) ==
  \/ \E u \in Users, role \in USER_ROLES : CreateUser(r, u, role)
  \/ \E u \in Users, role \in USER_ROLES, mustChange \in BOOLEAN :
       CliCreateUser(r, u, role, mustChange)
  \/ \E u \in Users, role \in USER_ROLES : CliSeedUser(r, u, role)
  \/ \E u \in Users, active \in BOOLEAN : UpdateUser(r, u, "active", active)
  \/ \E u \in Users, role \in USER_ROLES : UpdateUser(r, u, "role", role)
  \/ \E u \in Users : ResetUser(r, u) \/ CliResetUser(r, u)
  \/ UpdatesUser(r) \/ ResetsPassword(r) \/ ClearsFactor(r)

ANext ==
  \/ \E r \in Requests : SignsIn(r) \/ Renews(r) \/ ActsAsUser(r) \/ Administers(r)
  \/ \E t \in DOMAIN tokens : RefreshReused(t)
  \/ \E s \in DOMAIN sessions : Logout(s)
  \/ Tick

ASpec == AInit /\ [][ANext]_avars

-----------------------------------------------------------------------------
(* Properties. *)

Proof == [password : Nat, secret : Nat]

AccountRow == [role : USER_ROLES, password : Nat, active : BOOLEAN, mustChange : BOOLEAN,
               failed : 0..(MAX_FAILED_LOGINS - 1), lockedUntil : Nat,
               secret : Nat, pending : Nat, lastStep : Int]
SessionRow == [user : Users, expires : Nat, revoked : BOOLEAN, proof : Proof, late : BOOLEAN]
TokenRow   == [sid : Nat, expires : Nat, used : BOOLEAN, usedAt : Nat, first : Nat, last : Nat]
Jwt        == [user : Users, role : USER_ROLES, sid : Nat, expires : Nat]

\* What a thread keeps between two calls of the store.
SignIn    == [at : {"failed", "code", "clear", "open"}, user : Users, password : Nat, secret : Nat,
              lastStep : Int, lockedUntil : Nat]
Answering == [at : {"answer", "renewed", "drop"}, user : Users, sid : Nat, token : Nat]
Principal == [at : {"session", "admitted"}, user : Users, role : USER_ROLES, sid : Nat,
              mustChange : BOOLEAN, ended : BOOLEAN]
Changing  == [at : {"new password", "set up"}, user : Users, keep : Nat, number : Nat]
             \cup [at : {"enable"}, user : Users, keep : Nat, secret : Nat, code : Int]
             \cup [at : {"disable"}, user : Users, lastStep : Int]
             \cup [at : {"active"}, user : Users, keep : Nat, value : BOOLEAN, revoke : BOOLEAN]
             \cup [at : {"role"}, user : Users, keep : Nat, value : USER_ROLES, revoke : BOOLEAN]
             \cup [at : {"reset"}, user : Users, keep : Nat, number : Nat, cli : BOOLEAN]
             \cup [at : {"clear factor"}, user : Users, keep : Nat, cli : BOOLEAN]
             \cup [at : {"revoke"}, user : Users, keep : Nat]

\* Rows, tokens and requests have the fields the handlers use, no account reaches
\* MAX_FAILED_LOGINS failures without being locked, and nothing refers to a row
\* that is not there.
ATypeOK ==
  /\ now \in Nat /\ operations \in Nat
  /\ accounts \in [Users -> AccountRow \cup {NoAccount}]
  /\ sessions \in Seq(SessionRow)
  /\ tokens \in Seq(TokenRow)
  /\ jwts \subseteq Jwt
  /\ requests \in [Requests -> {Idle} \cup SignIn \cup Answering \cup Principal \cup Changing]
  /\ \A s \in DOMAIN sessions : Exists(sessions[s].user)
  /\ \A t \in DOMAIN tokens : tokens[t].sid \in DOMAIN sessions
  /\ \A j \in jwts : j.sid \in DOMAIN sessions /\ j.user = sessions[j.sid].user

\* Somebody is about to end the sessions of this account.
Ending(u) ==
  \E r \in Requests :
    requests[r].at \in {"clear factor", "revoke"} /\ requests[r].user = u

\* change_password, mfa_enable and reset_user end the sessions that were opened
\* with what they replace: whoever has a live session signed in with the password
\* and the second factor the account asks for now, or changed them from it, or
\* was half way through a sign-in when they changed (`late`).
LiveSessionsProveCredentials ==
  \A s \in DOMAIN sessions :
    SessionActive(s) =>
      sessions[s].late \/ Proves(sessions[s].proof, accounts[sessions[s].user])
                       \/ Ending(sessions[s].user)

\* A rotated refresh token is honoured within the grace window of its first use
\* and never after, however often and by however many tabs it was presented
\* meanwhile (rotate_refresh).
GraceDoesNotSlide ==
  \A t \in DOMAIN tokens : tokens[t].last - tokens[t].first <= REFRESH_REUSE_GRACE_S

\* A request whose session was over when it came, by logout, expiry, reuse of a
\* token, a reset or a disabled account, is never admitted (get_principal).
EndedSessionsStayEnded ==
  \A r \in Requests : At(r, "admitted") => ~requests[r].ended

\* A lock that a run of failures has set is lifted before its time by a new
\* password only, or by a sign-in that had read the account before it was locked
\* (login, register_failure).
LockOutlastsNewSignIns ==
  [][\A u \in Users :
       /\ Exists(u)
       /\ accounts[u].lockedUntil > now
       /\ accounts'[u].lockedUntil # accounts[u].lockedUntil
       => \/ accounts'[u].password # accounts[u].password
          \/ \E r \in Requests : /\ requests'[r] # requests[r]
                                  /\ requests[r].at \in {"failed", "code", "clear"}
                                  /\ requests[r].user = u
                                  /\ requests[r].lockedUntil # accounts[u].lockedUntil]_avars
=============================================================================
